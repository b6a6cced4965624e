\* The program ends, so a state without successors is looked for by
\* StopsOnlyWhenDone instead.  No symmetry: one property is temporal.
SPECIFICATION FairSpec
CONSTANTS
    s1 = s1
    s2 = s2
    s3 = s3
    Station <- ThreeStations
    FramesPerStation = 3
INVARIANTS
    OneCarrier
    CommonStart
    StopsOnlyWhenDone
PROPERTIES
    MediumRecovers
CHECK_DEADLOCK FALSE
