--------------------------- MODULE Expansion_proofs ---------------------------
(***************************************************************************)
(* The subgraph between the builder and the visualisation, for any members *)
(* and any links between them.                                             *)
(***************************************************************************)
EXTENDS Expansion, TLAPS

USE MemberAssumption, LinkAssumption

(* While the visualisation reads, it has read what is a vertex or has it   *)
(* yet to read; what it has yet to read are vertices, unless these have    *)
(* been reset.                                                             *)
ReadingInv ==
    visualiser = "read" =>
        /\ mVertices \subseteq drawn \cup unread
        /\ mVertices = {} \/ unread \subseteq mVertices

IInv ==
    /\ TypeOK
    /\ builder # "expand" => expanding = {}
    /\ ReadingInv

-----------------------------------------------------------------------------
LEMMA LinkTypes == \A l \in Link : l.of \in Member /\ l.other \in Member
  BY DEF Member

LEMMA PairTypes == \A m, n \in Member : Pair(m, n) \in Note
  BY DEF Pair, Note

LEMMA InitIInv == Init => IInv
  BY DEF Init, GraphInit, IInv, TypeOK, GraphTypeOK, ReadingInv

(* What a member leads to, and what leads to it, are vertices.             *)
LEMMA Neighbours == \A m : GetIncoming(m) \subseteq mVertices /\ GetOutgoing(m) \subseteq mVertices
  BY DEF GetIncoming, GetOutgoing, Contains

(* A drawing under way stays within what were vertices when it began.      *)
LEMMA DrawingStays ==
    ASSUME ReadingInv, Visualise, visualiser = "read", visualiser' = "read"
    PROVE  drawn' \cup unread' \subseteq drawn \cup unread
<1>1. CASE \E m \in Member : Draw(m)
  <2>1. PICK m \in Member : Draw(m)
    BY <1>1
  <2>2. m \in unread /\ drawn' = drawn \cup {m} \cup GetOutgoing(m) /\ unread' \subseteq unread
    BY <2>1 DEF Draw
  <2>3. GetOutgoing(m) \subseteq drawn \cup unread
    BY Neighbours DEF ReadingInv
  <2> QED BY <2>2, <2>3
<1>2. CASE LoseVertices
  BY <1>2 DEF LoseVertices
<1> QED BY <1>1, <1>2 DEF Visualise, BeginDrawing, EndDrawing, Show

LEMMA VisualiseKeeps ==
    ASSUME GraphTypeOK, ReadingInv, Visualise
    PROVE  /\ UNCHANGED mVertices
           /\ links' = links => GraphTypeOK'
           /\ ReadingInv'
<1> USE DEF GraphTypeOK, ReadingInv
<1>1. CASE BeginDrawing
  BY <1>1 DEF BeginDrawing
<1>2. CASE \E m \in Member : Draw(m)
  <2>1. PICK m \in Member : Draw(m)
    BY <1>2
  <2>2. GetOutgoing(m) \subseteq Member
    BY Neighbours
  <2>3. /\ unread' = unread \ {m} /\ drawn' = drawn \cup {m} \cup GetOutgoing(m)
        /\ UNCHANGED <<mVertices, mUpdateVisualisation, visualiser, image>>
    BY <2>1 DEF Draw
  <2> QED BY <2>1, <2>2, <2>3
<1>3. CASE LoseVertices
  BY <1>3 DEF LoseVertices
<1>4. CASE EndDrawing
  BY <1>4 DEF EndDrawing
<1>5. CASE Show
  BY <1>5 DEF Show
<1> QED BY <1>1, <1>2, <1>3, <1>4, <1>5 DEF Visualise

(* DataStore::run only ever lists and notes links.                         *)
LEMMA StoreKeeps ==
    ASSUME IInv, (\E l \in Link : Apply(l)) \/ AddUpdate
    PROVE  IInv'
<1> USE DEF IInv, TypeOK, GraphTypeOK, ReadingInv, graphVars, drawVars, builderVars
<1>1. CASE \E l \in Link : Apply(l)
  BY <1>1 DEF Apply
<1>2. CASE AddUpdate
  <2>1. \A l \in noting : Pair(l.of, l.other) \in Note
    BY LinkTypes, PairTypes
  <2>2. mUpdates' = mUpdates \cup {Pair(l.of, l.other) : l \in noting}
    BY <1>2 DEF AddUpdate
  <2>3. mUpdates' \subseteq Note
    BY <2>1, <2>2
  <2> QED BY <1>2, <2>3 DEF AddUpdate
<1> QED BY <1>1, <1>2

LEMMA BuilderKeeps ==
    ASSUME IInv, Builder
    PROVE  IInv'
<1> USE DEF IInv, TypeOK, GraphTypeOK, ReadingInv, graphVars, drawVars, builderVars
<1>1. CASE GetUpdates
  BY <1>1 DEF GetUpdates
<1>2. CASE \E n \in pending : ProposeUpdate(n)
  <2>1. PICK n \in pending : ProposeUpdate(n)
    BY <1>2
  <2>2. Suspected(n) \subseteq Note
    BY DEF Suspected
  <2> QED BY <2>1, <2>2 DEF ProposeUpdate
<1>3. CASE GetEmittedAlerts
  BY <1>3 DEF GetEmittedAlerts
<1>4. CASE \E m \in Member : ExpandSubgraph(m)
  BY <1>4 DEF ExpandSubgraph, Add, mVerticesMutexFree
<1>5. CASE \E m \in Member : ProposeIncoming(m)
  <2>1. PICK m \in Member : ProposeIncoming(m)
    BY <1>5
  <2>2. \A n \in GetIncoming(m) : Pair(m, n) \in Note
    BY Neighbours, PairTypes
  <2>3. proposed' = proposed \cup {Pair(m, n) : n \in GetIncoming(m)}
    BY <2>1 DEF ProposeIncoming
  <2>4. proposed' \subseteq Note
    BY <2>2, <2>3
  <2> QED BY <2>1, <2>4 DEF ProposeIncoming
<1>6. CASE AskForRedraw
  BY <1>6 DEF AskForRedraw, UpdateVisualisation
<1>7. CASE GoOn
  BY <1>7 DEF GoOn
<1>8. CASE ResetWatchlist
  BY <1>8 DEF ResetWatchlist
<1>9. CASE ResetGraph
  BY <1>9 DEF ResetGraph, Reset
<1> QED BY <1>1, <1>2, <1>3, <1>4, <1>5, <1>6, <1>7, <1>8, <1>9 DEF Builder

LEMMA NextIInv == IInv /\ [Next]_vars => IInv'
<1> SUFFICES ASSUME IInv, [Next]_vars PROVE IInv'
  OBVIOUS
<1>1. CASE Visualisation
  <2>1. UNCHANGED <<links, noting, mUpdates, builderVars>> /\ Visualise
    BY <1>1 DEF Visualisation
  <2>2. UNCHANGED mVertices /\ GraphTypeOK' /\ ReadingInv'
    BY <2>1, VisualiseKeeps DEF IInv, TypeOK
  <2> QED BY <2>1, <2>2 DEF IInv, TypeOK, builderVars
<1>2. CASE UNCHANGED vars
  BY <1>2 DEF vars, IInv, TypeOK, GraphTypeOK, ReadingInv, graphVars, drawVars, builderVars
<1> QED BY <1>1, <1>2, StoreKeeps, BuilderKeeps DEF Next

LEMMA Invariance == Spec => []IInv
  BY InitIInv, NextIInv, PTL DEF Spec

(* Notes, alerts and proposals are of members, nothing is left to read     *)
(* outside the locked section, and a vertex is expanded only inside the    *)
(* loop over the alerts, which ends before a reset.                        *)
THEOREM TypeCorrect == Spec => []TypeOK
<1>1. IInv => TypeOK
  BY DEF IInv
<1> QED BY <1>1, Invariance, PTL

(* No list of a member, however it grows under the reader, brings anything *)
(* onto the screen that was not a vertex when the drawing began.           *)
THEOREM DrawsSuspects == Spec => OnlySuspectsDrawn
<1>1. IInv /\ [Next]_vars => [visualiser = "read" /\ visualiser' = "read" =>
                                  drawn' \cup unread' \subseteq drawn \cup unread]_vars
  <2> SUFFICES ASSUME IInv, Next, visualiser = "read", visualiser' = "read"
               PROVE  drawn' \cup unread' \subseteq drawn \cup unread
    OBVIOUS
  <2>1. CASE Visualisation
    BY <2>1, DrawingStays DEF Visualisation, IInv
  <2>2. CASE ~Visualisation
    <3>1. UNCHANGED <<unread, drawn>>
      BY <2>2 DEF Next, Apply, AddUpdate, Builder, GetUpdates, ProposeUpdate, GetEmittedAlerts,
                  ExpandSubgraph, ProposeIncoming, AskForRedraw, GoOn, ResetWatchlist, ResetGraph,
                  Add, Reset, UpdateVisualisation, graphVars, drawVars
    <3> QED BY <3>1
  <2> QED BY <2>1, <2>2
<1> QED BY <1>1, Invariance, PTL DEF Spec, OnlySuspectsDrawn
=============================================================================
