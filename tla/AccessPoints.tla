----------------------------- MODULE AccessPoints -----------------------------
(* The plan of access points of LAB6/2: a greedy choice among candidates, an     *)
(* access point of 5 GHz for every floor that has none, and channels.  Signals   *)
(* and scores are real numbers of an arbitrary building, so the choice may take  *)
(* any candidate not used yet and end at any time.                              *)
EXTENDS Naturals, Sequences, SequencesExt, FiniteSets

CONSTANTS
    Floors,         \* config.floors
    Place, Middle,  \* places on a floor; Middle is in the corridor
    ApNear,         \* pairs of places closer than the conflict distance
    Channels24, Channels5,  \* numbers of channels of each band
    MaxApCount      \* config.max_ap_count

ASSUME ApAssumption ==
    /\ {Floors, MaxApCount, Channels24, Channels5} \subseteq Nat
    /\ Middle \in Place
    /\ ApNear \in [{"2.4GHz", "5GHz"} -> SUBSET (Place \X Place)]
    /\ \A b \in DOMAIN ApNear : /\ \A p \in Place : <<p, p>> \in ApNear[b]
                                /\ \A q \in ApNear[b] : <<q[2], q[1]>> \in ApNear[b]

VARIABLES
    apStage,        \* "select", "bands", "channels", "done"
    apPlan,         \* deployments: [floor, place, band, channel] in a sequence
    apChosen        \* deployments as select_deployments returned them

apVars == <<apStage, apPlan, apChosen>>

Candidates == [floor: 0 .. Floors - 1, place: Place, band: {"2.4GHz", "5GHz"},
               channel: {0}]

ApInit ==
    /\ apStage = "select"
    /\ apPlan = <<>>
    /\ apChosen = <<>>

\* One turn of the loop of select_deployments.
SelectCandidate(c) ==
    /\ apStage = "select"
    /\ Len(apPlan) < MaxApCount
    /\ c \notin ToSet(apPlan)
    /\ apPlan' = Append(apPlan, c)
    /\ UNCHANGED <<apStage, apChosen>>

EndSelection ==
    /\ apStage = "select"
    /\ apStage' = "bands"
    /\ apChosen' = apPlan
    /\ UNCHANGED apPlan

\* Floors of the plan without 5 GHz, from the lowest on, and what they get.
FloorsWithout5(plan) ==
    {f \in 0 .. Floors - 1 :
        \A i \in DOMAIN plan : plan[i].band = "5GHz" => plan[i].floor # f}

Fallbacks ==
    LET without == FloorsWithout5(apPlan)
        floors == CHOOSE f \in [1 .. Cardinality(without) -> without] :
                     \A i, j \in DOMAIN f : i < j => f[i] < f[j]
    IN  [i \in DOMAIN floors |-> [floor |-> floors[i], place |-> Middle,
                                  band |-> "5GHz", channel |-> 0]]

\* ensure_dual_band_presence: the fallbacks are appended as long as there is room,
\* and when the plan is full they replace the last ones, whatever these are.
Mutant_Replaced(plan) ==
    [i \in DOMAIN plan |-> IF i <= Len(Fallbacks) THEN Fallbacks[i] ELSE plan[i]]
Replaced(plan) ==
    [i \in DOMAIN plan |->
        IF Len(plan) - i < Len(Fallbacks) THEN Fallbacks[Len(plan) - i + 1] ELSE plan[i]]

EnsureDualBand ==
    LET room == Min({Len(Fallbacks), MaxApCount - Len(apPlan)})
        added == apPlan \o SubSeq(Fallbacks, 1, room)
    IN  /\ apStage = "bands"
        /\ apPlan' = IF Fallbacks # <<>> /\ Len(added) = MaxApCount
                     THEN Replaced(added) ELSE added
        /\ apStage' = "channels"
        /\ UNCHANGED apChosen

Pool(band) == 1 .. IF band = "2.4GHz" THEN Channels24 ELSE Channels5

\* Access points of a plan that disturb number i if they have its channel.
Neighbours(plan, i) ==
    {j \in DOMAIN plan : /\ j # i
                         /\ plan[j].band = plan[i].band /\ plan[j].floor = plan[i].floor
                         /\ <<plan[j].place, plan[i].place>> \in ApNear[plan[i].band]}

\* Access points before number i that have channel c and that i would disturb.
Disturbed(plan, i, c) ==
    Cardinality({j \in Neighbours(plan, i) : j < i /\ plan[j].channel = c})

\* The first of the channels that disturb the fewest.
BestChannel(plan, i) ==
    CHOOSE c \in Pool(plan[i].band) :
        \A d \in Pool(plan[i].band) :
            \/ Disturbed(plan, i, c) < Disturbed(plan, i, d)
            \/ Disturbed(plan, i, c) = Disturbed(plan, i, d) /\ c <= d

Assigned(plan) ==
    FoldLeft(LAMBDA before, i : [before EXCEPT ![i].channel = BestChannel(before, i)],
             plan, [i \in DOMAIN plan |-> i])

AssignChannels ==
    /\ apStage = "channels"
    /\ apPlan' = Assigned(apPlan)
    /\ apStage' = "done"
    /\ UNCHANGED apChosen

ApNext ==
    \/ \E c \in Candidates : SelectCandidate(c)
    \/ EndSelection
    \/ EnsureDualBand
    \/ AssignChannels

ApSpec == ApInit /\ [][ApNext]_apVars

-------------------------------------------------------------------------------
\* In a plan that is done: there are no more access points than allowed; if those
\* chosen left room, each of them is still there and every floor has 5 GHz; and two
\* that are near have different channels wherever no access point has as many
\* neighbours as there are channels (main.cpp:307, 366-379, 392-422).
PlanIsSound ==
    apStage = "done" =>
        /\ Len(apPlan) <= MaxApCount
        /\ Len(apChosen) + Cardinality(FloorsWithout5(apChosen)) <= MaxApCount =>
              /\ FloorsWithout5(apPlan) = {}
              /\ \A i \in DOMAIN apChosen :
                    [apPlan[i] EXCEPT !.channel = 0] = apChosen[i]
        /\ (\A i \in DOMAIN apPlan :
               Cardinality(Neighbours(apPlan, i)) < Cardinality(Pool(apPlan[i].band)))
           => \A i \in DOMAIN apPlan : \A j \in Neighbours(apPlan, i) :
                 apPlan[i].channel # apPlan[j].channel

\* README.md:65 of LAB6/2: by default every floor gets one access point of 5 GHz
\* at least.  Taken for a plan that may have as many access points as there are
\* floors: the code takes the one of another floor away again.
EveryFloorHas5GHz ==
    apStage = "done" /\ Floors <= MaxApCount => FloorsWithout5(apPlan) = {}
================================================================================
