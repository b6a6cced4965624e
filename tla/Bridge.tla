-------------------------------- MODULE Bridge --------------------------------
(* Learning bridges (LAB6/1 and, the same program once more, LAB7/29) in a row:*)
(* bridge b joins segment b, on its port 1, with segment b + 1, on its port 2. *)
(* A frame is carried along the row in one action, since stations are plugged  *)
(* over by hand, long after a frame has arrived.  What stations do is external.*)
EXTENDS Naturals

CONSTANTS
    Bridges,        \* number of bridges
    Station,        \* addresses
    Broadcast       \* kBroadcastAddress

ASSUME BridgeAssumption == Bridges \in Nat \ {0} /\ Broadcast \notin Station

VARIABLES
    macTable,       \* mac_table_ of each bridge; 0 stands for "not in the map"
    stationAt,      \* segment of each station
    announced       \* stations that have broadcast since they were plugged in

bridgeVars == <<macTable, stationAt, announced>>

Segment == 1 .. Bridges + 1

BridgeTypeOK ==
    /\ macTable \in [1 .. Bridges -> [Station -> 0 .. 2]]
    /\ stationAt \in [Station -> Segment]
    /\ announced \in SUBSET Station

BridgeInit ==
    /\ macTable = [b \in 1 .. Bridges |-> [a \in Station |-> 0]]
    /\ stationAt = [a \in Station |-> 1]
    /\ announced = {}

\* The port on which bridge b meets what comes from segment s.
Port(b, s) == IF s <= b THEN 1 ELSE 2

\* process_frame: does bridge b put a frame for `to`, met on port p, on its other
\* port (broadcast, flood or a table entry) or filter it?
Passes(b, p, to) == to # Broadcast => macTable[b][to] # p

\* The bridges between segments s and t.
Between(s, t) == {b \in 1 .. Bridges : Port(b, s) # Port(b, t)}

\* A frame from segment s gets to bridge b: all bridges before it pass it on.
Meets(b, s, to) ==
    \A c \in 1 .. Bridges :
        /\ Port(c, s) = Port(b, s)
        /\ IF Port(b, s) = 1 THEN c < b ELSE c > b
        => Passes(c, Port(c, s), to)

\* learn, for every bridge that a frame from segment s gets to.
Mutant_Learned(s, from, to) ==
    [b \in 1 .. Bridges |->
        IF from # Broadcast /\ Meets(b, s, to) /\ macTable[b][from] = 0
        THEN [macTable[b] EXCEPT ![from] = Port(b, s)] ELSE macTable[b]]
Learned(s, from, to) ==
    [b \in 1 .. Bridges |->
        IF from # Broadcast /\ Meets(b, s, to)
        THEN [macTable[b] EXCEPT ![from] = Port(b, s)] ELSE macTable[b]]

SendFrame(from, to) ==
    /\ macTable' = Learned(stationAt[from], from, to)
    /\ announced' = IF to = Broadcast THEN announced \cup {from} ELSE announced
    /\ UNCHANGED stationAt

\* A frame whose source is the broadcast address teaches nothing.
SendNameless(s, to) ==
    /\ macTable' = Learned(s, Broadcast, to)
    /\ UNCHANGED <<stationAt, announced>>

\* A station is plugged in on another segment.
MoveStation(a, s) ==
    /\ stationAt[a] # s
    /\ stationAt' = [stationAt EXCEPT ![a] = s]
    /\ announced' = announced \ {a}
    /\ UNCHANGED macTable

BridgeNext ==
    \/ \E from \in Station, to \in Station \cup {Broadcast} : SendFrame(from, to)
    \/ \E s \in Segment, to \in Station \cup {Broadcast} : SendNameless(s, to)
    \/ \E a \in Station, s \in Segment : MoveStation(a, s)

BridgeSpec == BridgeInit /\ [][BridgeNext]_bridgeVars

-------------------------------------------------------------------------------
\* A frame sent from any segment gets to a station that has broadcast since it
\* was plugged in, whatever old entries the other tables hold (main.cpp:27-36,
\* 60-65).  Sending to one station is not enough: if that station is near, the
\* bridges further away keep an old entry and filter what is meant for it.
AnnouncedIsReached ==
    \A a \in announced, s \in Segment :
        \A b \in Between(s, stationAt[a]) : Passes(b, Port(b, s), a)
===============================================================================
