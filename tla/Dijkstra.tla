-------------------------------- MODULE Dijkstra -------------------------------
(* dijkstra and build_path of LAB13/35, with the arithmetic of int: a sum that   *)
(* does not fit is undefined behaviour, here any value (`dijkstraSound` turns    *)
(* FALSE).  An edge is <<from, to, weight>>; how a list of edges is ordered does *)
(* not matter, so the edges of a node are looked at in any order.               *)
EXTENDS Integers, FiniteSets, FiniteSetsExt

CONSTANTS
    DNode,          \* routers
    Graphs,         \* graphs to try, sets of edges
    IntMax          \* std::numeric_limits<int>::max()

ASSUME DijkstraAssumption ==
    /\ IsFiniteSet(DNode) /\ IntMax \in Nat
    /\ \A g \in Graphs : g \subseteq DNode \X DNode \X (0 .. IntMax)

VARIABLES
    dGraph, dSource,
    dDistance, dPrevious,   \* fields of Result; <<>> stands for no predecessor
    dQueue,                 \* <<distance, node>> in the priority queue
    dEdges,                 \* edges of the node in hand not looked at yet
    dijkstraSound           \* no sum has overflowed

dVars == <<dGraph, dSource, dDistance, dPrevious, dQueue, dEdges, dijkstraSound>>

kInfinity == IntMax \div 4

\* parse_graph: each triple is an edge, and the way back one more unless the graph
\* is directed.
Parsed(triples, directed) ==
    IF directed THEN triples
    ELSE triples \cup {<<e[2], e[1], e[3]>> : e \in triples}

DijkstraStart(graph, source) ==
    /\ dGraph = graph
    /\ dSource = source
    /\ dDistance = [n \in DNode |-> IF n = dSource THEN 0 ELSE kInfinity]
    /\ dPrevious = [n \in DNode |-> <<>>]
    /\ dQueue = {<<0, dSource>>}
    /\ dEdges = {}
    /\ dijkstraSound = TRUE

DijkstraInit ==
    \E triples \in Graphs, directed \in BOOLEAN :
        \E n \in {e[1] : e \in triples} \cup {e[2] : e \in triples} :
            DijkstraStart(Parsed(triples, directed), n)

\* queue.top and pop, and the test for an entry that is out of date.
PopNode ==
    \E q \in dQueue :
        /\ dEdges = {}
        /\ \A p \in dQueue : q[1] <= p[1]
        /\ dQueue' = dQueue \ {q}
        /\ dEdges' = IF q[1] = dDistance[q[2]]
                     THEN {e \in dGraph : e[1] = q[2]} ELSE {}
        /\ UNCHANGED <<dGraph, dSource, dDistance, dPrevious, dijkstraSound>>

\* Is a way of length d to node n better than the one known?
Mutant_Better(d, n) == dPrevious[n] = <<>> /\ d < dDistance[n]
Better(d, n) == d < dDistance[n]

\* One turn of the loop over the edges of a node.
RelaxEdge(e) ==
    LET candidate == dDistance[e[1]] + e[3]
    IN  /\ dEdges' = dEdges \ {e}
        /\ dijkstraSound' = (dijkstraSound /\ candidate <= IntMax)
        /\ IF Better(candidate, e[2])
           THEN /\ dDistance' = [dDistance EXCEPT ![e[2]] = candidate]
                /\ dPrevious' = [dPrevious EXCEPT ![e[2]] = <<e[1]>>]
                /\ dQueue' = dQueue \cup {<<candidate, e[2]>>}
           ELSE UNCHANGED <<dDistance, dPrevious, dQueue>>
        /\ UNCHANGED <<dGraph, dSource>>

DijkstraNext ==
    \/ dijkstraSound /\ PopNode
    \/ dijkstraSound /\ \E e \in dEdges : RelaxEdge(e)

DijkstraSpec == DijkstraInit /\ [][DijkstraNext]_dVars

\* while (!queue.empty()) has ended.
DijkstraDone == dijkstraSound /\ dQueue = {} /\ dEdges = {}

\* print_results.
PrintedReachable(n) == dDistance[n] < IntMax \div 8

\* build_path: the nodes from n back over `previous`, as long as there are any.
BackFrom(n) ==
    LET back[k \in 0 .. Cardinality(DNode)] ==
            IF k = 0 THEN <<n>>
            ELSE IF back[k - 1] = <<>> THEN <<>> ELSE dPrevious[back[k - 1][1]]
    IN  back

-------------------------------------------------------------------------------
\* The length of the shortest way from the source to n, or IntMax at the least.
ShortestFrom(n) ==
    LET steps == Cardinality(DNode)
        len[k \in 0 .. steps] ==
            IF k = 0
            THEN [m \in DNode |-> IF m = dSource THEN 0 ELSE IntMax]
            ELSE [m \in DNode |-> Min({len[k - 1][m]} \cup
                    {len[k - 1][e[1]] + e[3] : e \in {f \in dGraph : f[2] = m}})]
    IN  len[steps][n]

\* As long as no sum overflows: at the end a router is printed with the length of
\* its shortest way, and it is printed as unreachable if there is none or if it
\* is an eighth of the range of int or longer (main.cpp:81-96, 126); the predecessors
\* lead from a router with a finite distance back to the source at every moment,
\* so that build_path ends.
PathsAreShortest ==
    /\ DijkstraDone =>
          \A n \in DNode :
             /\ PrintedReachable(n) <=> ShortestFrom(n) < IntMax \div 8
             /\ PrintedReachable(n) => dDistance[n] = ShortestFrom(n)
    /\ dijkstraSound =>
          \A n \in DNode : dDistance[n] < kInfinity =>
             \E k \in DOMAIN BackFrom(n) : BackFrom(n)[k] = <<dSource>>
===============================================================================
