------------------------- MODULE GraphUpdates_proofs --------------------------
(***************************************************************************)
(* What becomes of the updates of a member while it is requested, stored   *)
(* and collected: proofs for any members and any number of updates and     *)
(* requests.                                                               *)
(***************************************************************************)
EXTENDS GraphUpdates, SequenceLemmas

UpdateOf(i) == [key : KeyOf(i), other : Other, subscription : Nat \ {0}]
NoteOf == [member : Key, connections : Seq(Other)]

StoreInv ==
    /\ instance = [k \in Key |-> instance[k]]
    /\ \A k \in Key : instance[k] = Null \/ instance[k] \in [Lists -> Seq(Other)]
    /\ held \subseteq Stored
    /\ requesting \in Key \cup {Null}

(* Only what is stored or being requested has a subscription.              *)
SubscriptionInv ==
    /\ requests \in Nat
    /\ subscription \in [Key -> Nat]
    /\ \A k \in Key : subscription[k] # 0 => k \in Stored \/ k = requesting

RunInv ==
    /\ mUpdates \in Seq(NoteOf)
    /\ step \in 0 .. Len(Kinds)
    /\ visit \subseteq Key
    /\ noting \in Update \cup {Null}
    /\ queue = [i \in DOMAIN Kinds |-> queue[i]]
    /\ \A i \in DOMAIN Kinds : queue[i] \in Seq(UpdateOf(i))

IInv == StoreInv /\ SubscriptionInv /\ RunInv

-----------------------------------------------------------------------------
LEMMA KindFacts ==
    /\ Len(Kinds) = 9 /\ DOMAIN Kinds = 1 .. 9
    /\ \A i \in DOMAIN Kinds : Kinds[i].list \in Lists /\ Kinds[i].of \in {"node", "topic"}
<1>1. Len(Kinds) = 9 /\ DOMAIN Kinds = 1 .. 9
  BY DEF Kinds
<1>2. \A i \in DOMAIN Kinds : Kinds[i].list \in Lists
  BY DEF Lists
<1>3. \A i \in 1 .. 9 : Kinds[i].of \in {"node", "topic"}
  BY DEF Kinds, Kind
<1> QED BY <1>1, <1>2, <1>3

LEMMA UpdatedTypes ==
    ASSUME NEW list, NEW old \in Seq(Other), NEW other \in Other
    PROVE  Updated(list, old, other) \in Seq(Other)
<1>1. <<other>> \in Seq(Other) /\ Append(old, other) \in Seq(Other)
  OBVIOUS
<1> QED BY <1>1 DEF Updated

(* The update DataStore::run receives                                      *)
LEMMA HeadOfQueue ==
    ASSUME RunInv, step # 0, queue[step] # <<>>
    PROVE  /\ step \in DOMAIN Kinds
           /\ Head(queue[step]) \in UpdateOf(step)
           /\ Tail(queue[step]) \in Seq(UpdateOf(step))
           /\ UpdateOf(step) \subseteq Update
<1>1. step \in DOMAIN Kinds
  BY KindFacts DEF RunInv
<1>2. queue[step] \in Seq(UpdateOf(step))
  BY <1>1 DEF RunInv
<1>3. UpdateOf(step) \subseteq Update
  BY DEF UpdateOf, Update, KeyOf, Key
<1> QED BY <1>1, <1>2, <1>3

LEMMA InitIInv == Init => IInv
<1> SUFFICES ASSUME Init PROVE IInv
  OBVIOUS
<1>1. StoreInv
  BY DEF Init, StoreInv
<1>2. SubscriptionInv
  BY DEF Init, SubscriptionInv
<1>3. RunInv
  <2>1. \A S : <<>> \in Seq(S)
    BY EmptySeq
  <2>2. queue = [i \in DOMAIN Kinds |-> queue[i]] /\ \A i \in DOMAIN Kinds : queue[i] = <<>>
    BY DEF Init
  <2> QED BY <2>1, <2>2, KindFacts DEF Init, RunInv
<1> QED BY <1>1, <1>2, <1>3 DEF IInv

(* A pass goes on to the next kind, or to the next collection.             *)
LEMMA NextStepTypes ==
    ASSUME RunInv, NextStep
    PROVE  step' \in 0 .. Len(Kinds) /\ visit' \subseteq Key
  BY KindFacts DEF RunInv, NextStep, LastStep, Stored

-----------------------------------------------------------------------------
LEMMA StoreSteps ==
    ASSUME IInv, NEW k \in Key, Request(k) \/ Release(k) \/ Answer
    PROVE  IInv'
<1> USE DEF IInv
<1>1. CASE Request(k)
  <2>1. /\ requesting = Null /\ requesting' = k /\ requests' = requests + 1
        /\ subscription' = [subscription EXCEPT ![k] = requests']
        /\ UNCHANGED <<instance, held, mUpdates, runVars, queue>>
    BY <1>1 DEF Request, mTopicsMutexFree
  <2>2. Stored' = Stored
    BY <2>1 DEF Stored
  <2>3. SubscriptionInv'
    BY <2>1, <2>2, KeyAssumption DEF SubscriptionInv
  <2> QED BY <2>1, <2>2, <2>3 DEF StoreInv, RunInv, runVars
<1>2. CASE Release(k)
  <2>1. held' \subseteq held
        /\ UNCHANGED <<instance, requesting, mUpdates, runVars, queue, subscription, requests>>
    BY <1>2 DEF Release
  <2>2. Stored' = Stored
    BY <2>1 DEF Stored
  <2> QED BY <2>1, <2>2 DEF StoreInv, SubscriptionInv, RunInv, runVars
<1>3. CASE Answer
  <2> DEFINE empty == [l \in Lists |-> <<>>]
  <2>1. /\ requesting \in Key /\ requesting' = Null /\ held' = held \cup {requesting}
        /\ instance' = [instance EXCEPT ![requesting] = empty]
        /\ UNCHANGED <<mUpdates, runVars, queue, subscription, requests>>
    BY <1>3 DEF Answer, StoreInv
  <2>2. empty \in [Lists -> Seq(Other)]
    BY EmptySeq
  <2>3. empty # Null
    BY <2>2, NullAssumption
  <2> HIDE DEF empty
  <2>4. \A j \in Key : instance'[j] = IF j = requesting THEN empty ELSE instance[j]
    BY <2>1 DEF StoreInv
  <2>5. Stored' = Stored \cup {requesting}
    BY <2>1, <2>3, <2>4 DEF Stored
  <2>6. StoreInv'
    BY <2>1, <2>2, <2>4, <2>5 DEF StoreInv
  <2>7. SubscriptionInv'
    BY <2>1, <2>5 DEF SubscriptionInv
  <2> QED BY <2>1, <2>6, <2>7 DEF RunInv, runVars
<1> QED BY <1>1, <1>2, <1>3

LEMMA SendSteps ==
    ASSUME IInv, NEW i \in DOMAIN Kinds, NEW k \in Key, NEW o \in Other, SendUpdate(i, k, o)
    PROVE  IInv'
<1> DEFINE u == [key |-> k, other |-> o, subscription |-> subscription[k]]
<1>1. u \in UpdateOf(i)
  BY DEF SendUpdate, UpdateOf, IInv, SubscriptionInv
<1>2. queue' = [queue EXCEPT ![i] = Append(@, u)]
  BY DEF SendUpdate
<1> HIDE DEF u
<1>3. \A j \in DOMAIN Kinds : queue'[j] = IF j = i THEN Append(queue[j], u) ELSE queue[j]
  BY <1>2 DEF IInv, RunInv
<1>4. Append(queue[i], u) \in Seq(UpdateOf(i))
  BY <1>1 DEF IInv, RunInv
<1>5. queue' = [j \in DOMAIN Kinds |-> queue'[j]]
  BY <1>2 DEF IInv, RunInv
<1>6. UNCHANGED <<instance, held, requesting, mUpdates, runVars, subscription, requests>>
  BY DEF SendUpdate
<1>7. Stored' = Stored
  BY <1>6 DEF Stored
<1>8. RunInv'
  BY <1>3, <1>4, <1>5, <1>6 DEF IInv, RunInv, runVars
<1> QED BY <1>6, <1>7, <1>8 DEF IInv, StoreInv, SubscriptionInv

LEMMA CollectSteps ==
    ASSUME IInv, NEW k \in Key, Collect(k)
    PROVE  IInv'
<1> USE DEF IInv
<1>1. UNCHANGED <<held, requesting, mUpdates, step, noting, queue, requests>> /\ visit' \subseteq visit
  BY DEF Collect
<1>2. RunInv'
  BY <1>1 DEF RunInv
<1>3. CASE Unused(k)
  <2>1. /\ instance' = [instance EXCEPT ![k] = Null] /\ k \notin held
        /\ subscription' = [subscription EXCEPT ![k] = 0]
    BY <1>3 DEF Collect, Unused, Unsubscribed
  <2>2. \A j \in Key : instance'[j] = IF j = k THEN Null ELSE instance[j]
    BY <2>1 DEF StoreInv
  <2>3. Stored' = Stored \ {k}
    BY <2>2 DEF Stored
  <2>4. StoreInv'
    BY <1>1, <2>1, <2>2, <2>3 DEF StoreInv
  <2>5. SubscriptionInv'
    BY <1>1, <2>1, <2>3 DEF SubscriptionInv
  <2> QED BY <1>2, <2>4, <2>5
<1>4. CASE ~Unused(k)
  <2>1. UNCHANGED <<instance, subscription>>
    BY <1>4 DEF Collect
  <2>2. Stored' = Stored
    BY <2>1 DEF Stored
  <2> QED BY <1>1, <1>2, <2>1, <2>2 DEF StoreInv, SubscriptionInv
<1> QED BY <1>3, <1>4

LEMMA ReceiveSteps ==
    ASSUME IInv, Receive
    PROVE  IInv'
<1> USE DEF IInv
<1> DEFINE u == Head(queue[step])
           kind == Kinds[step]
<1>1. /\ step \in DOMAIN Kinds
      /\ u \in UpdateOf(step) /\ u \in Update
      /\ Tail(queue[step]) \in Seq(UpdateOf(step))
  BY HeadOfQueue DEF Receive
<1>2. u.key \in Key /\ u.other \in Other /\ kind.list \in Lists
  BY <1>1, KindFacts DEF Update
<1>3. /\ queue' = [queue EXCEPT ![step] = Tail(@)]
      /\ instance' = IF u.key \in Stored
                     THEN [instance EXCEPT ![u.key][kind.list] = Updated(kind.list, @, u.other)]
                     ELSE instance
      /\ noting' \in {u, noting} /\ (NextStep \/ UNCHANGED <<step, visit>>)
      /\ UNCHANGED <<held, requesting, mUpdates, subscription, requests>>
  BY DEF Receive
<1> HIDE DEF u, kind
<1>4. \A i \in DOMAIN Kinds : queue'[i] = IF i = step THEN Tail(queue[i]) ELSE queue[i]
  BY <1>3 DEF RunInv
<1>5. queue' = [i \in DOMAIN Kinds |-> queue'[i]]
  BY <1>3 DEF RunInv
<1>6. step' \in 0 .. Len(Kinds) /\ visit' \subseteq Key
  BY <1>3, NextStepTypes DEF RunInv
<1>7. RunInv'
  BY <1>1, <1>3, <1>4, <1>5, <1>6 DEF RunInv
<1>8. CASE u.key \in Stored
  <2> DEFINE old == instance[u.key]
             new == [old EXCEPT ![kind.list] = Updated(kind.list, @, u.other)]
  <2>1. old \in [Lists -> Seq(Other)]
    BY <1>2, <1>8 DEF StoreInv, Stored
  <2>2. Updated(kind.list, old[kind.list], u.other) \in Seq(Other)
    BY <1>2, <2>1, UpdatedTypes
  <2>3. new \in [Lists -> Seq(Other)]
    BY <1>2, <2>1, <2>2
  <2>4. instance' = [instance EXCEPT ![u.key] = new]
    BY <1>3, <1>8
  <2> HIDE DEF old, new
  <2>5. new # Null
    BY <2>3, NullAssumption
  <2>6. \A k \in Key : instance'[k] = IF k = u.key THEN new ELSE instance[k]
    BY <1>2, <2>4 DEF StoreInv
  <2>7. Stored' = Stored
    BY <1>8, <2>5, <2>6 DEF Stored
  <2>8. instance' = [k \in Key |-> instance'[k]]
    BY <2>4 DEF StoreInv
  <2> QED BY <1>3, <1>7, <2>3, <2>6, <2>7, <2>8 DEF StoreInv, SubscriptionInv
<1>9. CASE u.key \notin Stored
  <2>1. instance' = instance
    BY <1>3, <1>9
  <2>2. Stored' = Stored
    BY <2>1 DEF Stored
  <2> QED BY <1>3, <1>7, <2>1, <2>2 DEF StoreInv, SubscriptionInv
<1> QED BY <1>8, <1>9

LEMMA NoteTypes ==
    ASSUME mUpdates \in Seq(NoteOf), NEW k \in Key, NEW o \in Other
    PROVE  WithNote(k, o) \in Seq(NoteOf)
<1>1. CASE Known(k) = {}
  <2>1. [member |-> k, connections |-> <<o>>] \in NoteOf
    BY DEF NoteOf
  <2> QED BY <1>1, <2>1 DEF WithNote
<1>2. CASE Known(k) # {}
  <2>1. ASSUME NEW i \in 1 .. Len(mUpdates)
        PROVE  /\ mUpdates[i] \in NoteOf
               /\ [mUpdates[i] EXCEPT !.connections = Append(@, o)] \in NoteOf
    <3> DEFINE note == mUpdates[i]
               grown == Append(note.connections, o)
    <3>1. note \in NoteOf
      OBVIOUS
    <3>2. /\ note = [member |-> note.member, connections |-> note.connections]
          /\ note.member \in Key /\ note.connections \in Seq(Other)
      BY <3>1 DEF NoteOf
    <3>3. grown \in Seq(Other)
      BY <3>2
    <3> HIDE DEF note, grown
    <3>4. [note EXCEPT !.connections = grown] = [member |-> note.member, connections |-> grown]
      BY <3>2
    <3>5. [note EXCEPT !.connections = grown] \in NoteOf
      BY <3>2, <3>3, <3>4 DEF NoteOf
    <3> QED BY <3>1, <3>5 DEF note, grown
  <2> DEFINE new(i) == IF i \in Known(k)
                       THEN [mUpdates[i] EXCEPT !.connections = Append(@, o)]
                       ELSE mUpdates[i]
  <2>2. WithNote(k, o) = [i \in 1 .. Len(mUpdates) |-> new(i)]
    <3>1. WithNote(k, o) = [i \in DOMAIN mUpdates |-> new(i)]
      BY <1>2, Zenon DEF WithNote
    <3>2. DOMAIN mUpdates = 1 .. Len(mUpdates)
      OBVIOUS
    <3> QED BY <3>1, <3>2, Zenon
  <2>3. \A i \in 1 .. Len(mUpdates) : new(i) \in NoteOf
    BY <2>1
  <2> HIDE DEF new
  <2>4. Len(mUpdates) \in Nat
    OBVIOUS
  <2> QED BY <2>2, <2>3, <2>4
<1> QED BY <1>1, <1>2

LEMMA OtherSteps ==
    ASSUME IInv, EndCollect \/ ReceiveNothing \/ AddUpdate \/ GetUpdates \/ UNCHANGED vars
    PROVE  IInv'
<1> USE DEF IInv
<1>1. UNCHANGED <<instance, held, requesting, queue, subscription, requests>>
  BY DEF EndCollect, ReceiveNothing, AddUpdate, GetUpdates, vars
<1>2. Stored' = Stored
  BY <1>1 DEF Stored
<1>3. StoreInv' /\ SubscriptionInv'
  BY <1>1, <1>2 DEF StoreInv, SubscriptionInv
<1>4. step' \in 0 .. Len(Kinds) /\ visit' \subseteq Key
  BY NextStepTypes, KindFacts
     DEF EndCollect, ReceiveNothing, AddUpdate, GetUpdates, vars, runVars, RunInv
<1>5. mUpdates' \in Seq(NoteOf) /\ noting' \in Update \cup {Null}
  <2>1. CASE AddUpdate
    <3>1. noting.key \in Key /\ noting.other \in Other
      BY <2>1 DEF AddUpdate, RunInv, Update
    <3> QED BY <2>1, <3>1, NoteTypes DEF AddUpdate, RunInv
  <2>2. CASE GetUpdates
    BY <2>2, EmptySeq DEF GetUpdates, Cleared, RunInv, runVars
  <2>3. CASE UNCHANGED <<mUpdates, noting>>
    BY <2>3 DEF RunInv
  <2> QED BY <2>1, <2>2, <2>3 DEF EndCollect, ReceiveNothing, vars, runVars
<1>6. RunInv'
  BY <1>1, <1>4, <1>5 DEF RunInv
<1> QED BY <1>3, <1>6

LEMMA NextIInv == IInv /\ [Next]_vars => IInv'
<1> SUFFICES ASSUME IInv, [Next]_vars PROVE IInv'
  OBVIOUS
<1>1. CASE Answer
  <2>1. \E k : k \in Key
    BY <1>1 DEF Answer, IInv, StoreInv
  <2> QED BY <1>1, <2>1, StoreSteps
<1>2. CASE \E i \in DOMAIN Kinds, k \in Key, o \in Other : SendUpdate(i, k, o)
  BY <1>2, SendSteps
<1>3. CASE RunStep
  BY <1>3, CollectSteps, ReceiveSteps, OtherSteps DEF RunStep
<1> QED BY <1>1, <1>2, <1>3, StoreSteps, OtherSteps DEF Next

LEMMA Invariance == Spec => []IInv
  BY InitIInv, NextIInv, PTL DEF Spec

(* DataStore::run never erases a member with a MemberPtr, whatever arrives *)
(* for it; lists, notes and queues have their types.                       *)
THEOREM TypeCorrect == Spec => []TypeOK
<1>1. IInv => TypeOK
  <2> SUFFICES ASSUME IInv PROVE TypeOK
    OBVIOUS
  <2>1. \A i \in DOMAIN Kinds : queue[i] \in Seq(Update)
    <3> SUFFICES ASSUME NEW i \in DOMAIN Kinds PROVE queue[i] \in Seq(Update)
      OBVIOUS
    <3>1. UpdateOf(i) \subseteq Update
      BY DEF UpdateOf, Update, KeyOf, Key
    <3>2. queue[i] \in Seq(UpdateOf(i))
      BY DEF IInv, RunInv
    <3> QED BY <3>1, <3>2
  <2> QED BY <2>1 DEF IInv, StoreInv, RunInv, NoteOf, TypeOK
<1> QED BY <1>1, Invariance, PTL

(* Of a running subscription only what arrives for a node before the       *)
(* answer to its request is dropped.                                       *)
THEOREM LostBeforeStored == Spec => DropsOnlyBeforeStored
<1>1. ASSUME IInv, [Next]_vars, NEW d \in dropped' \ dropped, d.live
      PROVE  d.key = requesting /\ d.key \in NodeKey
  <2> DEFINE u == Head(queue[step])
  <2>1. Receive
    BY <1>1 DEF Next, RunStep, Collect, EndCollect, ReceiveNothing, AddUpdate, Request, Release,
                Answer, SendUpdate, GetUpdates, vars, histVars
  <2>2. /\ u.key \notin Stored /\ ReceiveLock(Kinds[step])
        /\ d = [key |-> u.key, live |-> u.subscription = subscription[u.key]]
    BY <1>1, <2>1 DEF Receive
  <2>3. u \in UpdateOf(step)
    BY <1>1, <2>1, HeadOfQueue DEF Receive, IInv
  <2> HIDE DEF u
  <2>4. u.subscription # 0 /\ u.key \in KeyOf(step) /\ u.key \in Key
    BY <2>3 DEF UpdateOf, KeyOf, Key
  <2>5. d.key = u.key /\ u.subscription = subscription[u.key]
    BY <1>1, <2>2
  <2>6. u.key = requesting
    BY <1>1, <2>2, <2>4, <2>5 DEF IInv, SubscriptionInv
  <2>7. Kinds[step].of = "node"
    <3>1. step \in DOMAIN Kinds
      BY <1>1, <2>1, HeadOfQueue DEF Receive, IInv
    <3> QED BY <2>2, <2>4, <2>6, <3>1, KindFacts, KeyAssumption DEF ReceiveLock, mTopicsMutexFree
  <2> QED BY <2>4, <2>5, <2>6, <2>7 DEF KeyOf
<1>2. IInv /\ [Next]_vars => [\A d \in dropped' \ dropped :
                                 d.live => d.key = requesting /\ d.key \in NodeKey]_vars
  BY <1>1
<1> QED BY <1>2, Invariance, PTL DEF Spec, DropsOnlyBeforeStored

-----------------------------------------------------------------------------
(* mUpdates has one entry of a member at most, and Waiting is its list.    *)
NotesInv ==
    /\ delivered \in [Key -> Seq(Other)]
    /\ noted \in [Key -> Seq(Other)]
    /\ NotesReturnedOnce

EntryOf(k, e) == IF e.member = k THEN e.connections ELSE <<>>

LEMMA WaitingEntries ==
    ASSUME NEW u \in Seq(NoteOf), NEW k
    PROVE  LET lists == [i \in DOMAIN u |-> EntryOf(k, u[i])]
           IN  /\ lists \in Seq(Seq(Other)) /\ DOMAIN lists = DOMAIN u
               /\ (\A i \in DOMAIN u : u[i].member # k) => FlattenSeq(lists) = <<>>
               /\ \A p \in DOMAIN u :
                     u[p].member = k /\ (\A i \in DOMAIN u : i # p => u[i].member # k)
                         => FlattenSeq(lists) = u[p].connections
<1> DEFINE lists == [i \in DOMAIN u |-> EntryOf(k, u[i])]
<1>1. DOMAIN u = 1 .. Len(u) /\ Len(u) \in Nat /\ \A i \in DOMAIN u : u[i] \in NoteOf
  BY LenProperties, ElementOfSeq
<1>2. \A i \in DOMAIN u : EntryOf(k, u[i]) \in Seq(Other)
  BY <1>1, EmptySeq DEF EntryOf, NoteOf
<1>3. lists \in Seq(Seq(Other))
  <2>1. lists \in [1 .. Len(u) -> Seq(Other)]
    BY <1>1, <1>2
  <2> HIDE DEF lists
  <2> QED BY <1>1, <2>1, SeqDef
<1>4. DOMAIN lists = DOMAIN u /\ \A i \in DOMAIN u : lists[i] = EntryOf(k, u[i])
  OBVIOUS
<1> HIDE DEF lists
<1>5. ASSUME \A i \in DOMAIN u : u[i].member # k PROVE FlattenSeq(lists) = <<>>
  <2>1. \A i \in DOMAIN lists : lists[i] = <<>>
    BY <1>4, <1>5 DEF EntryOf
  <2> QED BY <1>3, <2>1, FlattenEmpty
<1>6. ASSUME NEW p \in DOMAIN u, u[p].member = k,
             \A i \in DOMAIN u : i # p => u[i].member # k
      PROVE  FlattenSeq(lists) = u[p].connections
  <2>1. p \in DOMAIN lists /\ \A i \in DOMAIN lists : i # p => lists[i] = <<>>
    BY <1>4, <1>6 DEF EntryOf
  <2>2. FlattenSeq(lists) = lists[p]
    BY <1>3, <2>1, FlattenOne
  <2>3. lists[p] = u[p].connections
    BY <1>4, <1>6 DEF EntryOf
  <2> QED BY <2>2, <2>3
<1> QED BY <1>3, <1>4, <1>5, <1>6 DEF lists

(* What waits for getUpdates is in the only entry of the member.           *)
LEMMA WaitingValue ==
    ASSUME mUpdates \in Seq(NoteOf), NotesReturnedOnce, NEW k
    PROVE  /\ Known(k) = {} => Waiting(k) = <<>>
           /\ \A p \in Known(k) : Waiting(k) = mUpdates[p].connections
           /\ Waiting(k) \in Seq(Other)
<1> DEFINE lists == [i \in DOMAIN mUpdates |-> EntryOf(k, mUpdates[i])]
<1>1. Waiting(k) = FlattenSeq(lists)
  BY DEF Waiting, EntryOf
<1>2. /\ (\A i \in DOMAIN mUpdates : mUpdates[i].member # k) => FlattenSeq(lists) = <<>>
      /\ \A p \in DOMAIN mUpdates :
            mUpdates[p].member = k /\ (\A i \in DOMAIN mUpdates : i # p => mUpdates[i].member # k)
                => FlattenSeq(lists) = mUpdates[p].connections
  BY WaitingEntries
<1> HIDE DEF lists
<1>3. Known(k) = {} => Waiting(k) = <<>>
  BY <1>1, <1>2 DEF Known
<1>4. \A p \in Known(k) : Waiting(k) = mUpdates[p].connections
  <2> SUFFICES ASSUME NEW p \in Known(k) PROVE FlattenSeq(lists) = mUpdates[p].connections
    BY <1>1
  <2>1. p \in DOMAIN mUpdates /\ mUpdates[p].member = k
    BY DEF Known
  <2>2. \A i \in DOMAIN mUpdates : i # p => mUpdates[i].member # k
    BY <2>1 DEF NotesReturnedOnce
  <2> QED BY <1>2, <2>1, <2>2
<1>5. \A p \in Known(k) : mUpdates[p].connections \in Seq(Other)
  <2>1. \A p \in DOMAIN mUpdates : mUpdates[p] \in NoteOf
    BY LenProperties, ElementOfSeq
  <2> QED BY <2>1 DEF Known, NoteOf
<1> QED BY <1>3, <1>4, <1>5, EmptySeq

(* ... also after a step                                                   *)
LEMMA WaitingNext ==
    ASSUME mUpdates' \in Seq(NoteOf), NEW k,
           \A i, j \in DOMAIN mUpdates' : mUpdates'[i].member = mUpdates'[j].member => i = j
    PROVE  /\ (\A i \in DOMAIN mUpdates' : mUpdates'[i].member # k) => Waiting(k)' = <<>>
           /\ \A p \in DOMAIN mUpdates' :
                 mUpdates'[p].member = k => Waiting(k)' = mUpdates'[p].connections
<1> DEFINE u == mUpdates'
           lists == [i \in DOMAIN u |-> EntryOf(k, u[i])]
<1>1. Waiting(k)' = FlattenSeq(lists)
  BY DEF Waiting, EntryOf
<1>2. u \in Seq(NoteOf) /\ \A i, j \in DOMAIN u : u[i].member = u[j].member => i = j
  OBVIOUS
<1> HIDE DEF u
<1>3. /\ (\A i \in DOMAIN u : u[i].member # k) => FlattenSeq(lists) = <<>>
      /\ \A p \in DOMAIN u :
            u[p].member = k /\ (\A i \in DOMAIN u : i # p => u[i].member # k)
                => FlattenSeq(lists) = u[p].connections
  BY <1>2, WaitingEntries
<1> HIDE DEF lists
<1>4. \A p \in DOMAIN u : u[p].member = k => FlattenSeq(lists) = u[p].connections
  BY <1>2, <1>3
<1> QED BY <1>1, <1>3, <1>4 DEF u

(* The find_if of addSubUpdate, addSendUpdate and addPubUpdate: a note     *)
(* goes to the end of the entry of its member, or into a new one.          *)
LEMMA NoteAdded ==
    ASSUME mUpdates \in Seq(NoteOf), NotesReturnedOnce, NEW k \in Key, NEW o \in Other,
           mUpdates' = WithNote(k, o)
    PROVE  /\ \A i, j \in DOMAIN mUpdates' : mUpdates'[i].member = mUpdates'[j].member => i = j
           /\ Waiting(k)' = Append(Waiting(k), o)
           /\ \A j : j # k => Waiting(j)' = Waiting(j)
<1> DEFINE u == mUpdates
           n == Len(u)
<1>1. /\ n \in Nat /\ DOMAIN u = 1 .. n /\ \A i \in 1 .. n : u[i] \in NoteOf
      /\ \A i, j \in 1 .. n : u[i].member = u[j].member => i = j
  BY LenProperties, ElementOfSeq DEF NotesReturnedOnce
<1>2. mUpdates' \in Seq(NoteOf)
  BY NoteTypes
<1>3. CASE Known(k) = {}
  <2> DEFINE e == [member |-> k, connections |-> <<o>>]
             t == Append(u, e)
  <2>1. mUpdates' = t
    BY <1>3 DEF WithNote
  <2>2. e \in NoteOf /\ e.member = k /\ e.connections = <<o>>
    BY DEF NoteOf
  <2> HIDE DEF e
  <2>3. /\ t \in Seq(NoteOf) /\ Len(t) = n + 1 /\ t[n + 1] = e
        /\ \A i \in 1 .. n : t[i] = u[i]
    BY <2>2, AppendProperties
  <2> HIDE DEF t
  <2>4. DOMAIN t = 1 .. n + 1 /\ \A i \in DOMAIN t : i \in 1 .. n \/ i = n + 1
    BY <1>1, <2>3, LenProperties
  <2>5. \A i \in 1 .. n : u[i].member # k
    BY <1>1, <1>3 DEF Known
  <2>6. ASSUME NEW i \in DOMAIN t, NEW j \in DOMAIN t, t[i].member = t[j].member PROVE i = j
    BY <1>1, <2>2, <2>3, <2>4, <2>5, <2>6
  <2>7. Waiting(k)' = Append(Waiting(k), o)
    <3>1. n + 1 \in DOMAIN t
      BY <1>1, <2>4
    <3>2. Waiting(k)' = <<o>>
      BY <1>2, <2>1, <2>2, <2>3, <2>6, <3>1, WaitingNext
    <3>3. Waiting(k) = <<>>
      BY <1>3, WaitingValue
    <3> QED BY <3>2, <3>3
  <2>8. ASSUME NEW j, j # k PROVE Waiting(j)' = Waiting(j)
    <3>1. CASE Known(j) = {}
      <4>1. \A i \in DOMAIN t : t[i].member # j
        BY <1>1, <2>2, <2>3, <2>4, <2>8, <3>1 DEF Known
      <4>2. Waiting(j)' = <<>>
        BY <1>2, <2>1, <2>6, <4>1, WaitingNext
      <4> QED BY <3>1, <4>2, WaitingValue
    <3>2. CASE Known(j) # {}
      <4>1. PICK p \in Known(j) : TRUE
        BY <3>2
      <4>2. p \in 1 .. n /\ u[p].member = j
        BY <1>1, <4>1 DEF Known
      <4>3. p \in DOMAIN t /\ t[p] = u[p]
        BY <1>1, <2>3, <2>4, <4>2
      <4>4. Waiting(j)' = u[p].connections
        BY <1>2, <2>1, <2>6, <4>2, <4>3, WaitingNext
      <4> QED BY <4>1, <4>4, WaitingValue
    <3> QED BY <3>1, <3>2
  <2> QED BY <2>1, <2>6, <2>7, <2>8
<1>4. CASE Known(k) # {}
  <2> DEFINE new(i) == IF i \in Known(k)
                       THEN [u[i] EXCEPT !.connections = Append(@, o)]
                       ELSE u[i]
             t == [i \in 1 .. n |-> new(i)]
  <2>1. mUpdates' = t
    <3>1. WithNote(k, o) = [i \in DOMAIN u |-> new(i)]
      BY <1>4, Zenon DEF WithNote
    <3> QED BY <1>1, <3>1, Zenon
  <2>2. DOMAIN t = 1 .. n /\ \A i \in 1 .. n : t[i] = new(i)
    OBVIOUS
  <2> HIDE DEF t
  <2>3. \A i \in 1 .. n : /\ new(i).member = u[i].member
                          /\ i \in Known(k) => new(i).connections = Append(u[i].connections, o)
                          /\ i \notin Known(k) => new(i) = u[i]
    BY <1>1 DEF NoteOf
  <2> HIDE DEF new
  <2>4. \A i, j \in DOMAIN t : t[i].member = t[j].member => i = j
    BY <1>1, <2>2, <2>3
  <2>5. Waiting(k)' = Append(Waiting(k), o)
    <3>1. PICK p \in Known(k) : TRUE
      BY <1>4
    <3>2. p \in 1 .. n /\ t[p].member = k /\ t[p].connections = Append(u[p].connections, o)
      BY <1>1, <2>2, <2>3, <3>1 DEF Known
    <3>3. Waiting(k)' = Append(u[p].connections, o)
      BY <1>2, <2>1, <2>2, <2>4, <3>2, WaitingNext
    <3> QED BY <3>1, <3>3, WaitingValue
  <2>6. ASSUME NEW j, j # k PROVE Waiting(j)' = Waiting(j)
    <3>1. CASE Known(j) = {}
      <4>1. \A i \in DOMAIN t : t[i].member # j
        BY <1>1, <2>2, <2>3, <3>1 DEF Known
      <4>2. Waiting(j)' = <<>>
        BY <1>2, <2>1, <2>4, <4>1, WaitingNext
      <4> QED BY <3>1, <4>2, WaitingValue
    <3>2. CASE Known(j) # {}
      <4>1. PICK p \in Known(j) : TRUE
        BY <3>2
      <4>2. p \in 1 .. n /\ u[p].member = j /\ p \notin Known(k)
        BY <1>1, <2>6, <4>1 DEF Known
      <4>3. p \in DOMAIN t /\ t[p] = u[p]
        BY <2>2, <2>3, <4>2
      <4>4. Waiting(j)' = u[p].connections
        BY <1>2, <2>1, <2>4, <4>2, <4>3, WaitingNext
      <4> QED BY <4>1, <4>4, WaitingValue
    <3> QED BY <3>1, <3>2
  <2> QED BY <2>1, <2>4, <2>5, <2>6
<1> QED BY <1>3, <1>4

LEMMA InitNotes == Init => NotesInv
<1> SUFFICES ASSUME Init PROVE NotesInv
  OBVIOUS
<1>1. /\ mUpdates = <<>> /\ noting = Null
      /\ delivered = [k \in Key |-> <<>>] /\ noted = [k \in Key |-> <<>>]
  BY DEF Init
<1>2. /\ <<>> \in Seq(Other) /\ <<>> \in Seq(NoteOf) /\ <<>> \in Seq(Seq(Other)) /\ DOMAIN <<>> = {}
      /\ <<>> \o <<>> = <<>>
  BY EmptySeq
<1>3. \A i, j \in DOMAIN mUpdates : mUpdates[i].member = mUpdates[j].member => i = j
  BY <1>1, <1>2
<1>4. ASSUME NEW k \in Key PROVE delivered[k] \o Waiting(k) \o BeingNoted(k) = noted[k]
  <2> DEFINE lists == [i \in DOMAIN mUpdates |-> EntryOf(k, mUpdates[i])]
  <2>1. Waiting(k) = FlattenSeq(lists)
    BY DEF Waiting, EntryOf
  <2>2. FlattenSeq(lists) = <<>>
    BY <1>1, <1>2, WaitingEntries
  <2>3. BeingNoted(k) = <<>>
    BY <1>1 DEF BeingNoted
  <2> QED BY <1>1, <1>2, <2>1, <2>2, <2>3
<1> QED BY <1>1, <1>2, <1>3, <1>4 DEF NotesInv, NotesReturnedOnce

(* What the run thread has noted, and has still to add to mUpdates         *)
LEMMA ReceiveNotes ==
    ASSUME IInv, NotesInv, Receive
    PROVE  NotesInv'
<1> DEFINE u == Head(queue[step])
<1>1. mUpdates' = mUpdates /\ delivered' = delivered /\ noting = Null /\ mUpdates \in Seq(NoteOf)
  BY DEF Receive, IInv, RunInv
<1>2. u \in Update
  BY HeadOfQueue DEF Receive, IInv
<1>3. \/ UNCHANGED <<noting, noted>>
      \/ noting' = u /\ noted' = [noted EXCEPT ![u.key] = Append(@, u.other)]
  BY DEF Receive
<1> HIDE DEF u
<1>4. u.key \in Key /\ u.other \in Other /\ u # Null
  BY <1>2, NullAssumption DEF Update
<1>5. \A k : Waiting(k)' = Waiting(k)
  BY <1>1 DEF Waiting
<1>6. CASE UNCHANGED <<noting, noted>>
  <2>1. \A k : BeingNoted(k)' = BeingNoted(k)
    BY <1>6 DEF BeingNoted
  <2> QED BY <1>1, <1>5, <1>6, <2>1 DEF NotesInv, NotesReturnedOnce
<1>7. CASE noting' = u /\ noted' = [noted EXCEPT ![u.key] = Append(@, u.other)]
  <2>1. \A k \in Key : noted'[k] = IF k = u.key THEN Append(noted[k], u.other) ELSE noted[k]
    BY <1>7 DEF NotesInv
  <2>2. noted' \in [Key -> Seq(Other)]
    <3>1. Append(noted[u.key], u.other) \in Seq(Other)
      BY <1>4, AppendProperties DEF NotesInv
    <3> QED BY <1>4, <1>7, <3>1 DEF NotesInv
  <2>3. ASSUME NEW k \in Key
        PROVE  delivered'[k] \o Waiting(k)' \o BeingNoted(k)' = noted'[k]
    <3>1. delivered[k] \in Seq(Other) /\ Waiting(k) \in Seq(Other) /\ noted[k] \in Seq(Other)
      BY <1>1, WaitingValue DEF NotesInv
    <3>2. delivered[k] \o Waiting(k) \in Seq(Other)
      BY <3>1, ConcatProperties
    <3>3. BeingNoted(k) = <<>>
      BY <1>1 DEF BeingNoted
    <3>4. delivered[k] \o Waiting(k) \o BeingNoted(k) = noted[k]
      BY DEF NotesInv, NotesReturnedOnce
    <3>5. delivered[k] \o Waiting(k) = noted[k]
      BY <3>2, <3>3, <3>4, ConcatEmptySeq
    <3>6. CASE k = u.key
      <4>1. BeingNoted(k)' = <<u.other>>
        BY <1>4, <1>7, <3>6 DEF BeingNoted
      <4>2. noted[k] \o <<u.other>> = Append(noted[k], u.other)
        BY <1>4, <3>1, AppendIsConcat
      <4> QED BY <1>1, <1>5, <2>1, <3>5, <3>6, <4>1, <4>2
    <3>7. CASE k # u.key
      <4>1. BeingNoted(k)' = <<>>
        BY <1>7, <3>7 DEF BeingNoted
      <4> QED BY <1>1, <1>5, <2>1, <3>3, <3>4, <3>7, <4>1
    <3> QED BY <3>6, <3>7
  <2> QED BY <1>1, <2>2, <2>3 DEF NotesInv, NotesReturnedOnce
<1> QED BY <1>3, <1>6, <1>7

LEMMA AddUpdateNotes ==
    ASSUME IInv, NotesInv, AddUpdate
    PROVE  NotesInv'
<1>1. PICK h \in Key, o \in Other :
         /\ noting # Null /\ h = noting.key /\ o = noting.other
         /\ noting' = Null /\ UNCHANGED <<noted, delivered>>
         /\ mUpdates' = WithNote(h, o)
  BY DEF AddUpdate, histVars, IInv, RunInv, Update
<1>2. mUpdates \in Seq(NoteOf)
  BY DEF IInv, RunInv
<1>3. /\ \A i, j \in DOMAIN mUpdates' : mUpdates'[i].member = mUpdates'[j].member => i = j
      /\ Waiting(h)' = Append(Waiting(h), o)
      /\ \A j : j # h => Waiting(j)' = Waiting(j)
  BY <1>1, <1>2, NoteAdded DEF NotesInv
<1>4. ASSUME NEW k \in Key
      PROVE  delivered'[k] \o Waiting(k)' \o BeingNoted(k)' = noted'[k]
  <2>1. delivered[k] \in Seq(Other) /\ Waiting(k) \in Seq(Other) /\ noted[k] \in Seq(Other)
    BY <1>2, WaitingValue DEF NotesInv
  <2>2. delivered[k] \o Waiting(k) \o BeingNoted(k) = noted[k]
    BY DEF NotesInv, NotesReturnedOnce
  <2>3. BeingNoted(k)' = <<>>
    BY <1>1 DEF BeingNoted
  <2>4. CASE k = h
    <3>1. BeingNoted(k) = <<o>> /\ <<o>> \in Seq(Other)
      BY <1>1, <2>4 DEF BeingNoted
    <3>2. Waiting(k)' = Waiting(k) \o <<o>> /\ Waiting(k) \o <<o>> \in Seq(Other)
      <4>1. Append(Waiting(k), o) = Waiting(k) \o <<o>> /\ Append(Waiting(k), o) \in Seq(Other)
        BY <2>1, AppendIsConcat, AppendProperties
      <4> QED BY <1>3, <2>4, <4>1
    <3>3. delivered[k] \o (Waiting(k) \o <<o>>) = delivered[k] \o Waiting(k) \o <<o>>
      <4>1. \A s, t, r \in Seq(Other) : s \o (t \o r) = s \o t \o r
        BY ConcatAssociative
      <4> QED BY <2>1, <3>1, <4>1
    <3>4. delivered[k] \o Waiting(k)' = noted[k]
      BY <2>2, <3>1, <3>2, <3>3
    <3>5. noted[k] \o <<>> = noted[k]
      BY <2>1, ConcatEmptySeq
    <3> QED BY <1>1, <2>3, <3>4, <3>5
  <2>5. CASE k # h
    <3>1. BeingNoted(k) = <<>>
      BY <1>1, <2>5 DEF BeingNoted
    <3> QED BY <1>1, <1>3, <2>2, <2>3, <2>5, <3>1
  <2> QED BY <2>4, <2>5
<1> QED BY <1>1, <1>3, <1>4 DEF NotesInv, NotesReturnedOnce

(* getUpdates returns all that waits and leaves nothing.                   *)
LEMMA GetUpdatesNotes ==
    ASSUME IInv, NotesInv, GetUpdates
    PROVE  NotesInv'
<1>1. /\ delivered' = [k \in Key |-> delivered[k] \o Waiting(k)]
      /\ mUpdates' = <<>> /\ UNCHANGED <<noting, noted>> /\ mUpdates \in Seq(NoteOf)
  BY DEF GetUpdates, Waiting, Cleared, IInv, RunInv, runVars
<1>2. \A k : BeingNoted(k)' = BeingNoted(k)
  BY <1>1 DEF BeingNoted
<1>3. DOMAIN mUpdates' = {} /\ mUpdates' \in Seq(NoteOf)
  BY <1>1, EmptySeq
<1>4. \A k : Waiting(k)' = <<>>
  BY <1>3, WaitingNext
<1>5. \A k \in Key : Waiting(k) \in Seq(Other) /\ delivered[k] \in Seq(Other)
  BY <1>1, WaitingValue DEF NotesInv
<1>6. \A k \in Key : delivered[k] \o Waiting(k) \in Seq(Other)
  BY <1>5, ConcatProperties
<1>7. delivered' \in [Key -> Seq(Other)]
  BY <1>1, <1>6
<1>8. ASSUME NEW k \in Key
      PROVE  delivered'[k] \o Waiting(k)' \o BeingNoted(k)' = noted'[k]
  <2>1. delivered'[k] = delivered[k] \o Waiting(k)
    BY <1>1
  <2>2. delivered'[k] \o <<>> = delivered'[k]
    BY <1>7, ConcatEmptySeq
  <2>3. delivered[k] \o Waiting(k) \o BeingNoted(k) = noted[k]
    BY DEF NotesInv, NotesReturnedOnce
  <2> QED BY <1>1, <1>2, <1>4, <2>1, <2>2, <2>3
<1> QED BY <1>1, <1>3, <1>7, <1>8 DEF NotesInv, NotesReturnedOnce

LEMMA NotesInvariance == Spec => []NotesInv
<1>1. IInv /\ NotesInv /\ [Next]_vars => NotesInv'
  <2> SUFFICES ASSUME IInv, NotesInv, [Next]_vars PROVE NotesInv'
    OBVIOUS
  <2>1. CASE UNCHANGED <<mUpdates, noting, noted, delivered>>
    BY <2>1 DEF NotesInv, NotesReturnedOnce, Waiting, BeingNoted
  <2>2. CASE \E k \in Key : Request(k) \/ Release(k) \/ Collect(k)
    BY <2>1, <2>2 DEF Request, Release, Collect, histVars, runVars
  <2>3. CASE Answer \/ EndCollect \/ ReceiveNothing \/ UNCHANGED vars
    BY <2>1, <2>3 DEF Answer, EndCollect, ReceiveNothing, vars, histVars, runVars
  <2>4. CASE \E i \in DOMAIN Kinds, k \in Key, o \in Other : SendUpdate(i, k, o)
    BY <2>1, <2>4 DEF SendUpdate, runVars
  <2> QED BY <2>2, <2>3, <2>4, ReceiveNotes, AddUpdateNotes, GetUpdatesNotes DEF Next, RunStep
<1> QED BY <1>1, InitNotes, Invariance, PTL DEF Spec

(* What is noted of a member reaches the builder exactly once and in the   *)
(* order in which it was applied, with getUpdates between any two steps of *)
(* the run thread; no result lists a member twice.                         *)
THEOREM NotedExactlyOnce == Spec => []NotesReturnedOnce
<1>1. NotesInv => NotesReturnedOnce
  BY DEF NotesInv
<1> QED BY <1>1, NotesInvariance, PTL
=============================================================================
