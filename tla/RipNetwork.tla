------------------------------ MODULE RipNetwork ------------------------------
(* Routers that keep a table and merge those of their neighbours with           *)
(* update_from_neighbor (LAB13/34).  The program merges one table into another; *)
(* who hands which table to whom, and what an operator does to a table when a    *)
(* network or a link fails, is external.                                        *)
EXTENDS Integers, FiniteSets, FiniteSetsExt

CONSTANTS
    Router, Network,
    NoHop,          \* next hop of a network that is not in a table
    RipLinks,       \* pairs of neighbours, in both orders
    RipAttached,    \* the router a network is connected to
    RipInfinity,    \* kRipInfinity
    RipMaxFailures  \* bound of failures

ASSUME RipAssumption ==
    /\ NoHop \notin Router
    /\ RipLinks \subseteq Router \X Router
    /\ \A l \in RipLinks : <<l[2], l[1]>> \in RipLinks
    /\ RipAttached \in [Network -> Router]
    /\ RipInfinity \in Nat /\ RipInfinity > 1
    /\ RipMaxFailures \in Nat

VARIABLES
    ripTable,       \* of each router: [distance, hop] for each network
    ripCopy,        \* ripCopy[<<s, r>>]: the table of s as r got it last
    ripUp,          \* links that work
    ripGone,        \* networks that have failed

    ripFailures     \* number of failures so far

ripVars == <<ripTable, ripCopy, ripUp, ripGone, ripFailures>>

NoRoute == [distance |-> RipInfinity, hop |-> NoHop]

\* The next hop of a router's own networks is the router itself.
RipInit ==
    /\ ripTable = [r \in Router |-> [n \in Network |->
                      IF RipAttached[n] = r THEN [distance |-> 1, hop |-> r]
                      ELSE NoRoute]]
    /\ ripCopy = [l \in RipLinks |-> [n \in Network |-> NoRoute]]
    /\ ripUp = RipLinks
    /\ ripGone = {}
    /\ ripFailures = 0

\* s writes its table to a file for r.
Advertise(s, r) ==
    /\ <<s, r>> \in ripUp
    /\ ripCopy' = [ripCopy EXCEPT ![<<s, r>>] = ripTable[s]]
    /\ UNCHANGED <<ripTable, ripUp, ripGone, ripFailures>>

Mutant_CandidateDistance(advertised) == advertised.distance
CandidateDistance(advertised) ==
    IF advertised.distance + 1 < RipInfinity
    THEN advertised.distance + 1 ELSE RipInfinity

\* A neighbour is believed when the route is its own already, or when its is shorter.
Mutant_Believes(current, candidate, s) == candidate < current.distance
Believes(current, candidate, s) ==
    current.hop = s \/ candidate < current.distance

\* The entry for one network after merging what neighbour s advertises.
MergedEntry(current, advertised, s) ==
    LET candidate == CandidateDistance(advertised)
    IN  IF /\ advertised.hop # NoHop
           /\ Believes(current, candidate, s)
        THEN [distance |-> candidate, hop |-> s]
        ELSE current

\* update_from_neighbor.
MergeTable(r, s) ==
    /\ <<s, r>> \in ripUp
    /\ ripTable' = [ripTable EXCEPT ![r] = [n \in Network |->
                       MergedEntry(ripTable[r][n], ripCopy[<<s, r>>][n], s)]]
    /\ UNCHANGED <<ripCopy, ripUp, ripGone, ripFailures>>

\* The tables when the pairs of router and network in `ways` have been lost.
Lost(ways) ==
    [r \in Router |-> [n \in Network |->
        IF <<r, n>> \in ways THEN [ripTable[r][n] EXCEPT !.distance = RipInfinity]
        ELSE ripTable[r][n]]]

FailNetwork(m) ==
    /\ ripFailures < RipMaxFailures
    /\ m \notin ripGone
    /\ ripGone' = ripGone \cup {m}
    /\ ripFailures' = ripFailures + 1
    /\ ripTable' = Lost({<<RipAttached[m], m>>})
    /\ UNCHANGED <<ripCopy, ripUp>>

FailLink(a, b) ==
    /\ ripFailures < RipMaxFailures
    /\ <<a, b>> \in ripUp
    /\ ripUp' = ripUp \ {<<a, b>>, <<b, a>>}
    /\ ripFailures' = ripFailures + 1
    /\ ripTable' = Lost({<<a, n>> : n \in {m \in Network : ripTable[a][m].hop = b}} \cup
                         {<<b, n>> : n \in {m \in Network : ripTable[b][m].hop = a}})
    /\ UNCHANGED <<ripCopy, ripGone>>

RipNext ==
    \/ \E s, r \in Router : Advertise(s, r)
    \/ \E s, r \in Router : MergeTable(r, s)
    \/ \E m \in Network : FailNetwork(m)
    \/ \E a, b \in Router : FailLink(a, b)

RipSpec == RipInit /\ [][RipNext]_ripVars

-------------------------------------------------------------------------------
\* Routers at most k hops from network n: its own router is one away from it.
RipWithin(n) ==
    LET near[k \in 1 .. RipInfinity] ==
            IF k = 1 THEN IF n \in ripGone THEN {} ELSE {RipAttached[n]}
            ELSE near[k - 1] \cup
                 {r \in Router : \E s \in near[k - 1] : <<s, r>> \in ripUp}
    IN  near

\* The length of the shortest way, RipInfinity if there is none that short.
TrueDistance(r, n) ==
    Min({RipInfinity} \cup
        {k \in 1 .. RipInfinity : r \in RipWithin(n)[k]})

\* As long as nothing has failed, no table makes a way shorter than it is,
\* however old the tables are that were merged (main.cpp:53-72).
NeverTooShort ==
    ripFailures = 0 =>
        \A r \in Router, n \in Network :
            ripTable[r][n].distance >= TrueDistance(r, n)

\* All tables hold the lengths of the shortest ways.
RoutesRight ==
    \A r \in Router, n \in Network :
        ripTable[r][n].distance = TrueDistance(r, n)
===============================================================================
