------------------------------ MODULE Expansion ------------------------------
(***************************************************************************)
(* How the subgraph grows: DataStore::run lists what is connected to a     *)
(* member and notes it; the builder takes the notes and proposes to the    *)
(* watchlist those that lead to a vertex, then makes a vertex of every     *)
(* alerted member, proposes what is incoming to it, and asks for a redraw; *)
(* an investigation that ends resets watchlist and graph.                  *)
(***************************************************************************)
EXTENDS Graph

VARIABLES
    noting,     \* the entry listed and not yet noted
    mUpdates,   \* notes
    builder,    \* control state of DynamicSubgraphBuilder::run
    pending,    \* updates the loop has yet to handle
    alerts,     \* members whose alerts the loop has yet to handle
    expanding,  \* the vertex just added
    proposed    \* history: pairs proposed to the watchlist since it was reset

builderVars == <<builder, pending, alerts, expanding, proposed>>
vars == <<links, graphVars, noting, mUpdates, builderVars>>

Init ==
    /\ GraphInit
    /\ noting = {}
    /\ mUpdates = {}
    /\ builder = "updates"
    /\ pending = {}
    /\ alerts = {}
    /\ expanding = {}
    /\ proposed = {}

Pair(of, other) == [of |-> of, other |-> other]

-----------------------------------------------------------------------------
(* Slips: what a bug would make of definitions below.                      *)
OnlyUnsuspected(n) == IF Contains(n.of) THEN {} ELSE {n}

-----------------------------------------------------------------------------
(* DataStore::run.  The kinds of update that are noted tell where a        *)
(* member's input comes from.                                              *)
NotedList == {"mSubscribesTo", "mServers", "mActionServers", "mPublishers"}
IsNoted(l) == l.list \in NotedList

Apply(l) ==
    /\ noting = {}
    /\ l \notin links
    /\ links' = links \cup {l}
    /\ noting' = IF IsNoted(l) THEN {l} ELSE {}
    /\ UNCHANGED <<graphVars, mUpdates, builderVars>>

AddUpdate ==
    /\ noting # {}
    /\ mUpdates' = mUpdates \cup {Pair(l.of, l.other) : l \in noting}
    /\ noting' = {}
    /\ UNCHANGED <<links, graphVars, builderVars>>

-----------------------------------------------------------------------------
(* The builder                                                             *)
GetUpdates ==
    /\ builder = "updates"
    /\ pending' = mUpdates
    /\ mUpdates' = {}
    /\ builder' = "propose"
    /\ UNCHANGED <<links, graphVars, noting, alerts, expanding, proposed>>

(* An update of a member outside the subgraph is dropped.                  *)
Suspected(n) == IF Contains(n.of) THEN {n} ELSE {}
ProposeUpdate(n) ==
    /\ builder = "propose"
    /\ n \in pending
    /\ pending' = pending \ {n}
    /\ proposed' = proposed \cup Suspected(n)
    /\ UNCHANGED <<links, graphVars, noting, mUpdates, builder, alerts, expanding>>

GetEmittedAlerts ==
    /\ builder = "propose"
    /\ pending = {}
    /\ \E S \in SUBSET Member :
          /\ alerts' = S
          /\ builder' = IF S = {} THEN "abort" ELSE "expand"
    /\ UNCHANGED <<links, graphVars, noting, mUpdates, pending, expanding, proposed>>

ExpandSubgraph(m) ==
    /\ builder = "expand"
    /\ expanding = {}
    /\ m \in alerts
    /\ alerts' = alerts \ {m}
    /\ Add(m)
    /\ expanding' = IF Contains(m) THEN {} ELSE {m}
    /\ UNCHANGED <<links, noting, mUpdates, builder, pending, proposed>>

ProposeIncoming(m) ==
    /\ m \in expanding
    /\ expanding' = {}
    /\ proposed' = proposed \cup {Pair(m, n) : n \in GetIncoming(m)}
    /\ UNCHANGED <<links, graphVars, noting, mUpdates, builder, pending, alerts>>

AskForRedraw ==
    /\ builder = "expand"
    /\ expanding = {}
    /\ alerts = {}
    /\ UpdateVisualisation
    /\ builder' = "abort"
    /\ UNCHANGED <<links, noting, mUpdates, pending, alerts, expanding, proposed>>

GoOn ==
    /\ builder = "abort"
    /\ builder' = "updates"
    /\ UNCHANGED <<links, graphVars, noting, mUpdates, pending, alerts, expanding, proposed>>

ResetWatchlist ==
    /\ builder = "abort"
    /\ proposed' = {}
    /\ builder' = "reset"
    /\ UNCHANGED <<links, graphVars, noting, mUpdates, pending, alerts, expanding>>

ResetGraph ==
    /\ builder = "reset"
    /\ Reset
    /\ builder' = "updates"
    /\ UNCHANGED <<links, noting, mUpdates, pending, alerts, expanding, proposed>>

Builder ==
    \/ GetUpdates
    \/ \E n \in pending : ProposeUpdate(n)
    \/ GetEmittedAlerts
    \/ \E m \in Member : ExpandSubgraph(m) \/ ProposeIncoming(m)
    \/ AskForRedraw \/ GoOn \/ ResetWatchlist \/ ResetGraph

Visualisation == Visualise /\ UNCHANGED <<links, noting, mUpdates, builderVars>>

Next ==
    \/ \E l \in Link : Apply(l)
    \/ AddUpdate
    \/ Builder
    \/ Visualisation

Spec == Init /\ [][Next]_vars

(* All threads are scheduled.  The visualisation gives up mVerticesMutex   *)
(* in every pass and waits for the rest of its interval.                   *)
Fairness == WF_vars(AddUpdate) /\ SF_vars(Builder) /\ WF_vars(Visualisation)
FairSpec == Spec /\ Fairness

-----------------------------------------------------------------------------
(* Notes, alerts and proposals are of members; a vertex is expanded only   *)
(* inside the loop over the alerts.                                        *)
Note == [of : Member, other : Member]
TypeOK ==
    /\ GraphTypeOK
    /\ noting \subseteq Link
    /\ {mUpdates, pending, proposed} \subseteq SUBSET Note
    /\ builder \in {"updates", "propose", "expand", "abort", "reset"}
    /\ alerts \subseteq Member /\ expanding \subseteq mVertices

(* Of what the lists name, only suspected members are drawn: those that    *)
(* were vertices when the drawing began, whatever is listed, added or      *)
(* reset meanwhile.                                                        *)
OnlySuspectsDrawn ==
    [][visualiser = "read" /\ visualiser' = "read" =>
           drawn' \cup unread' \subseteq drawn \cup unread]_vars

(* A vertex reaches the screen if a redraw is asked for, unless the        *)
(* request falls between reading the vertices and clearing the request.    *)
DrawnUnlessInGap ==
    \A m \in Member :
        (m \in mVertices /\ mUpdateVisualisation /\ visualiser # "clear")
            ~> (m \in image \/ m \notin mVertices)

(* What is noted of a vertex is proposed to the watchlist, unless the      *)
(* investigation ends before.                                              *)
NeighboursProposed ==
    \A n \in {Pair(l.of, l.other) : l \in Link} :
        (n \in mUpdates /\ n.of \in mVertices) ~> (n \in proposed \/ n.of \notin mVertices)
=============================================================================
