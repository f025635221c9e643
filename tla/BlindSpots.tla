------------------------------ MODULE BlindSpots ------------------------------
(***************************************************************************)
(* getBlindspots and getBlindspotsInternal: a depth-first search over the  *)
(* full graph view.  Vertices are removed from the graph as they are       *)
(* visited; the recursion is a stack of the calls in progress, whose       *)
(* members are currentPath.                                                *)
(***************************************************************************)
EXTENDS Naturals, Sequences, SequencesExt

CONSTANT Member

VARIABLES
    connections,    \* the outgoing edges of each member
    graph,          \* members not yet visited, in order
    stack,          \* calls in progress: member and edges not yet followed
    oBlindSpots     \* result

searchVars == <<connections, graph, stack, oBlindSpots>>

-----------------------------------------------------------------------------
(* Slips: what a bug would make of definitions below.                      *)
OnlySinks(m, path) == connections[m] = <<>>
OneEdgeSuffices(m, path) == Len(connections[m]) <= 1
NotRemoved(m) == graph
EdgeNotAdvanced == stack

-----------------------------------------------------------------------------
currentPath == {stack[i].member : i \in DOMAIN stack}

IsBlindSpot(m, path) ==
    \/ connections[m] = <<>>
    \/ Len(connections[m]) = 1 /\ connections[m][1] \in path

(* The call for m above the calls in rest                                  *)
Investigate(m, path, rest) ==
    IF IsBlindSpot(m, path)
    THEN oBlindSpots' = Append(oBlindSpots, m) /\ stack' = rest
    ELSE /\ stack' = Append(rest, [member |-> m, edges |-> connections[m]])
         /\ UNCHANGED oBlindSpots

StartTrace ==
    /\ stack = <<>>
    /\ graph # <<>>
    /\ graph' = Front(graph)
    /\ Investigate(Last(graph), {}, <<>>)
    /\ UNCHANGED connections

(* find_if and erase                                                      *)
Removed(m) == RemoveFirst(graph, m)

(* The next edge of the innermost call, and the calls without it           *)
NextEdge == Head(Last(stack).edges)
Advanced == [stack EXCEPT ![Len(stack)].edges = Tail(@)]

FollowEdge ==
    /\ stack # <<>>
    /\ Last(stack).edges # <<>>
    /\ NextEdge \in ToSet(graph)
    /\ graph' = Removed(NextEdge)
    /\ Investigate(NextEdge, currentPath, Advanced)
    /\ UNCHANGED connections

IgnoreVisited ==
    /\ stack # <<>>
    /\ Last(stack).edges # <<>>
    /\ NextEdge \notin ToSet(graph)
    /\ stack' = Advanced
    /\ UNCHANGED <<connections, graph, oBlindSpots>>

Return ==
    /\ stack # <<>>
    /\ Last(stack).edges = <<>>
    /\ stack' = Front(stack)
    /\ UNCHANGED <<connections, graph, oBlindSpots>>

Done == stack = <<>> /\ graph = <<>>

Search == StartTrace \/ FollowEdge \/ IgnoreVisited \/ Return

-----------------------------------------------------------------------------
Edge(m, n) == n \in ToSet(connections[m])

(* What can be reached from m: the members of every set that holds m and   *)
(* all that its members lead to.                                           *)
Reachable(m) ==
    {n \in Member :
        \A S \in SUBSET Member :
            m \in S /\ (\A p \in S, q \in Member : Edge(p, q) => q \in S) => n \in S}

(* Calls, results and what is left of the graph are of members.            *)
SearchTypeOK ==
    /\ connections \in [Member -> Seq(Member)]
    /\ graph \in Seq(Member)
    /\ stack \in Seq([member : Member, edges : Seq(Member)])
    /\ oBlindSpots \in Seq(Member)

(* No member is put in oBlindSpots twice, nor visited again after that.    *)
ReportedOnce ==
    /\ \A i, j \in DOMAIN oBlindSpots : oBlindSpots[i] = oBlindSpots[j] => i = j
    /\ ToSet(oBlindSpots) \cap (ToSet(graph) \cup currentPath) = {}

(* A reported member with an outgoing edge lies on a loop.                 *)
ReportsSinksAndLoops ==
    \A m \in ToSet(oBlindSpots), n \in Member : Edge(m, n) => m \in Reachable(n)
=============================================================================
