---------------------------- MODULE FullGraphView -----------------------------
(***************************************************************************)
(* getFullGraphView, and the blind spot search on its result.  The monitor *)
(* answers a query with the nodes and topics that are related to anything  *)
(* and with their relations; the view has the topics that are not ignored  *)
(* and, as edges, the relations that do not concern ignored ones.  Its     *)
(* edges are in the order in which they are added: subscriptions,          *)
(* publications, then services and actions.                                *)
(***************************************************************************)
EXTENDS BlindSpots

CONSTANTS
    Nodes, Topics,  \* keys, in the order in which the query returns them
    Ignored,        \* mTopicRosoutKey, mTopicParameterEventsKey
    MaxRelations,   \* bound on the relations of a kind
    Null

ASSUME ViewAssumption ==
    /\ Nodes \in Seq(Member) /\ Topics \in Seq(Member)
    /\ Member = ToSet(Nodes) \cup ToSet(Topics)
    /\ Null \notin Member \cup [from : Member, to : Member]
    /\ MaxRelations \in Nat
(* collect(DISTINCT ...) in the query; a key is that of one member.        *)
ASSUME KeysAssumption ==
    IsInjective(Nodes) /\ IsInjective(Topics) /\ ToSet(Nodes) \cap ToSet(Topics) = {}

VARIABLES
    response,   \* the answer to the query
    building,   \* which part of the view is built; "search": it is complete
    asserted    \* no assertion has failed

vars == <<searchVars, response, building, asserted>>

Node == ToSet(Nodes)
Topic == ToSet(Topics)
Relation(F, T) == [from : F, to : T]
Related(relations) == {r.from : r \in ToSet(relations)} \cup {r.to : r \in ToSet(relations)}

(* What is in S of a list, in order: the loops that continue on the rest   *)
Selected(s, S) ==
    LET kept[i \in 0 .. Len(s)] ==
            IF i = 0 THEN <<>>
            ELSE IF s[i] \in S THEN Append(kept[i - 1], s[i]) ELSE kept[i - 1]
    IN  kept[Len(s)]

(* Each list of relations also has the null that OPTIONAL MATCH returns    *)
(* for what is not related; a node may have nothing but a timer.           *)
Response(sub, pub, send, timers) ==
    LET related == Related(sub) \cup Related(pub) \cup Related(send) \cup timers
    IN  [active  |-> Selected(Nodes, related),
         passive |-> Selected(Topics, related),
         sub     |-> <<Null>> \o sub,
         pub     |-> <<Null>> \o pub,
         send    |-> <<Null>> \o send]

Init ==
    /\ \E sub \in SeqOf(Relation(Topic, Node), MaxRelations),
          pub \in SeqOf(Relation(Node, Topic), MaxRelations),
          send \in SeqOf(Relation(Node, Node), MaxRelations),
          timers \in SUBSET Node :
              response = Response(sub, pub, send, timers)
    /\ building = "vertices"
    /\ asserted = TRUE
    /\ connections = [m \in Member |-> <<>>]
    /\ graph = <<>>
    /\ stack = <<>>
    /\ oBlindSpots = <<>>

-----------------------------------------------------------------------------
(* A slip: what a bug would make of a definition below.                    *)
OriginsOnly(r) == r.from \in Ignored

-----------------------------------------------------------------------------
checkTopicPrimaryIgnored(t) == t \in Ignored

Kept(topics) == Selected(topics, {t \in ToSet(topics) : ~checkTopicPrimaryIgnored(t)})

AddVertices ==
    /\ building = "vertices"
    /\ graph' = response.active \o Kept(response.passive)
    /\ building' = "sub"
    /\ UNCHANGED <<connections, stack, oBlindSpots, response, asserted>>

(* What the three loops over relations leave out, and what they add to the *)
(* edges of each origin                                                    *)
SkippedSub(r) == checkTopicPrimaryIgnored(r.from)
SkippedPub(r) == checkTopicPrimaryIgnored(r.to)
Leaving(m, relations) == Selected(relations, {r \in ToSet(relations) : r.from = m})
Extended(relations) ==
    [m \in Member |->
        connections[m] \o [i \in DOMAIN Leaving(m, relations) |-> Leaving(m, relations)[i].to]]

Present(relations) == ToSet(relations) \ {Null}

AddEdges(relations, next) ==
    /\ asserted' = (asserted /\ \A r \in ToSet(relations) : r.from \in ToSet(graph))
    /\ connections' = Extended(relations)
    /\ building' = next
    /\ UNCHANGED <<graph, stack, oBlindSpots, response>>

AddSub ==
    /\ building = "sub"
    /\ AddEdges(Selected(response.sub, {r \in Present(response.sub) : ~SkippedSub(r)}), "pub")

AddPub ==
    /\ building = "pub"
    /\ AddEdges(Selected(response.pub, {r \in Present(response.pub) : ~SkippedPub(r)}), "send")

AddSend ==
    /\ building = "send"
    /\ AddEdges(Selected(response.send, Present(response.send)), "search")

GetFullGraphView == AddVertices \/ AddSub \/ AddPub \/ AddSend

GetBlindspots == building = "search" /\ Search /\ UNCHANGED <<response, building, asserted>>

Finished == building = "search" /\ Done
Terminated == Finished /\ UNCHANGED vars

Next == GetFullGraphView \/ GetBlindspots \/ Terminated

Spec == Init /\ [][Next]_vars
FairSpec == Spec /\ WF_vars(Next)

-----------------------------------------------------------------------------
(* The recursion of getBlindspotsInternal is never deeper than there are   *)
(* members; the view and the search are of members.                        *)
TypeOK ==
    /\ SearchTypeOK
    /\ Len(stack) <= Len(Nodes) + Len(Topics)
    /\ building \in {"vertices", "sub", "pub", "send", "search"}
    /\ asserted \in BOOLEAN

(* The origin of every edge is found among the vertices, as the assertions *)
(* say, and the view the search gets is closed: it has no edge to or from  *)
(* an ignored topic, and none to what is not one of its vertices.          *)
Vertices == ToSet(response.active) \cup (ToSet(response.passive) \ Ignored)
ViewWellFormed ==
    /\ asserted
    /\ building # "vertices" =>
          \A m, n \in Member : Edge(m, n) => {m, n} \subseteq Vertices

(* When the search is over, every member of the view leads to a reported   *)
(* one unless it can reach a member with an edge to itself or with several *)
(* edges, whose loops the search may miss.                                 *)
Simple(m) == Len(connections[m]) <= 1 /\ ~Edge(m, m)
CoveredBySpots ==
    Finished =>
        \A m \in Vertices :
            (\A n \in Reachable(m) : Simple(n)) =>
                Reachable(m) \cap ToSet(oBlindSpots) # {}

(* The search ends on every view.                                          *)
Terminates == <>Finished
=============================================================================
