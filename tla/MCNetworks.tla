------------------------------- MODULE MCNetworks ------------------------------
(* The programs of the lower layers that have nothing to do with each other,     *)
(* checked in one run, as the services are in MCServices.                       *)
EXTENDS RipNetwork, Bridge, Dijkstra, AccessPoints, LineCodes, Fragments, ColourChannel

VARIABLE program

vars == <<program, ripVars, bridgeVars, dVars, apVars, codeVars, fragmentVars, colourVars>>

Programs == {"rip", "bridge", "dijkstra", "ap", "codes", "fragments", "colour"}

MCInit ==
    /\ program \in Programs
    /\ RipInit /\ BridgeInit /\ ApInit
    /\ IF program = "dijkstra" THEN DijkstraInit
       ELSE DijkstraStart({}, CHOOSE n \in DNode : TRUE)
    /\ IF program = "codes" THEN CodeInit ELSE CodeStart("fdm", <<<<>>, <<>>>>)
    /\ IF program = "fragments" THEN FragmentInit ELSE FragmentStart(kHeaderLength)
    /\ IF program = "colour" THEN ColourInit ELSE ColourStart("binary", <<0, 0, 0>>)

ButRip == <<program, bridgeVars, dVars, apVars, codeVars, fragmentVars, colourVars>>

MCNext ==
    \/ /\ program = "rip" /\ RipNext
       /\ UNCHANGED ButRip
    \/ /\ program = "bridge" /\ BridgeNext
       /\ UNCHANGED <<program, ripVars, dVars, apVars, codeVars, fragmentVars, colourVars>>
    \/ /\ program = "dijkstra" /\ DijkstraNext
       /\ UNCHANGED <<program, ripVars, bridgeVars, apVars, codeVars, fragmentVars, colourVars>>
    \/ /\ program = "ap" /\ ApNext
       /\ UNCHANGED <<program, ripVars, bridgeVars, dVars, codeVars, fragmentVars, colourVars>>
    \/ /\ program = "codes" /\ CodeNext
       /\ UNCHANGED <<program, ripVars, bridgeVars, dVars, apVars, fragmentVars, colourVars>>
    \/ /\ program = "fragments" /\ FragmentNext
       /\ UNCHANGED <<program, ripVars, bridgeVars, dVars, apVars, codeVars, colourVars>>
    \/ /\ program = "colour" /\ ColourNext
       /\ UNCHANGED <<program, ripVars, bridgeVars, dVars, apVars, codeVars, fragmentVars>>

\* Every router goes on handing out its table and merging those it got.
RipFairness ==
    \A s, r \in Router :
        /\ WF_vars(program = "rip" /\ Advertise(s, r) /\ UNCHANGED ButRip)
        /\ WF_vars(program = "rip" /\ MergeTable(r, s) /\ UNCHANGED ButRip)

MCSpec == MCInit /\ [][MCNext]_vars /\ RipFairness

-------------------------------------------------------------------------------
\* The tables come to hold the lengths of the shortest ways and stay so, also
\* after a network or a link has failed, however the tables of before go round:
\* "infinity" bounds how far a network that is gone is counted up (LAB13/34
\* main.cpp:58-72).
RoutesSettle == program = "rip" => <>[]RoutesRight

-------------------------------------------------------------------------------
\* A triangle of routers, and one network behind router 1.
MCRouter == {1, 2, 3}
MCRipLinks == {l \in MCRouter \X MCRouter : l[1] # l[2]}
MCRipAttached == [n \in Network |-> 1]

\* All graphs of at most three edges.
Triples == {e \in {1, 2, 3} \X {1, 2, 3} \X {0, 1, 6, 30} : e[1] # e[2]}
MCGraphs == {{a, b, c} : a, b, c \in Triples}

\* Two places on a floor, which disturb each other with 2.4 GHz only.
MCApNear ==
    [b \in {"2.4GHz", "5GHz"} |->
        {q \in Place \X Place : b = "2.4GHz" \/ q[1] = q[2]}]

MCLineSymbol == {-12} \cup 0 .. 5

\* A grey that is near no colour of the palette, dark grey, which is read as black,
\* one that is not but whose mixtures with blue are, and one as near to black as that
\* whose mixtures are not; black itself.
MCBackgrounds == {<<8, 9, 8>>, <<4, 4, 4>>, <<0, 5, 7>>, <<1, 1, 9>>, <<0, 0, 0>>}
================================================================================
