-------------------------- MODULE DataStore_proofs --------------------------
(***************************************************************************)
(* Lifetime of the members and the protocol of the lookups, for any number *)
(* of addresses, keys, MemberPtr objects and callers.                      *)
(*                                                                         *)
(* The list and find below the data store are those of DoubleLinkedList    *)
(* and ListWalk (StepsOfTheWalk): their invariant holds here too, ends     *)
(* that were erased included.  As long as the counters are Reliable, no    *)
(* MemberPtr outlives its element, although DataStore::run tests the       *)
(* counter before it takes the mutex.  As long as find is complete, no key *)
(* is in the list twice.                                                   *)
(***************************************************************************)
EXTENDS DataStore, DoubleLinkedList_proofs

USE ListAssumption, OwnerAssumption, FiniteAssumption, KindAssumption, FlagAssumption,
    BoundAssumption
    DEF MembersMutexFree, InitialCount, Increased, Decreased, Address

(* What a step of the data store does to the list and to the search is one *)
(* of their own steps, or none.                                            *)
LEMMA StepsOfTheWalk ==
    ASSUME heap \subseteq Element, [Next]_vars
    PROVE  [WalkNext]_<<listVars, walkVars>>
<1>1. ASSUME NEW c \in Caller, NEW k \in Key, Lookup(c, k) PROVE WalkNext
  <2>1. {e \in heap : keyOf[e] = k} \in SUBSET Element
    OBVIOUS
  <2> QED BY <1>1, <2>1 DEF Lookup, WalkNext, Find
<1>2. CASE Walking
  BY <1>2 DEF Walking, WalkNext, Find
<1>3. ASSUME NEW c \in Caller, Miss(c) \/ \E s \in Slot : ReturnHit(c, s) PROVE WalkNext
  BY <1>3 DEF Miss, ReturnHit, WalkNext, Find
<1>4. ASSUME NEW c \in Caller, NEW e \in Element, Respond(c, e) PROVE WalkNext
  BY <1>4 DEF Respond, WalkNext, Beside, ListNext
<1>5. ASSUME NEW c \in Caller, Request(c) \/ Answer(c) \/ \E s \in Slot : ReturnRequested(c, s)
      PROVE  UNCHANGED <<listVars, walkVars>>
  BY <1>5 DEF Request, Answer, ReturnRequested
<1>6. CASE SlotStep
  BY <1>6 DEF SlotStep, Copy, Move, Destroy
<1>7. CASE RunBegin \/ RunKeep \/ RunErase
  BY <1>7 DEF RunBegin, RunKeep, RunErase, WalkNext, Beside, ListNext
<1>8. CASE RunUnused \/ RunLock \/ RunAborts \/ RunEnd
  BY <1>8 DEF RunUnused, RunLock, RunAborts, RunEnd, vars
<1>9. CASE UNCHANGED vars
  BY <1>9 DEF vars
<1> QED BY <1>1, <1>2, <1>3, <1>4, <1>5, <1>6, <1>7, <1>8, <1>9 DEF Next, CallerStep, RunStep

LEMMA WalkTypes == WalkInv => WalkTypeOK
BY DEF WalkInv, ListInv, SearchInv, WalkTypeOK

-----------------------------------------------------------------------------
(* The protocol of the lookups: one caller at a time, its search and its   *)
(* request the only ones, and each section that changes the list under its *)
(* mutex.  The ends the pass began with are told by the ends.              *)
Protocol ==
    /\ \A c \in Caller : callPc[c] # "idle" => membersMutex = c
    /\ \A c \in Caller : callPc[c] = "find" <=> search # "idle" /\ membersMutex = c
    /\ \A c \in pending : callPc[c] = "attribute"
    /\ \/ attrQueue = <<>>
       \/ \E c \in Caller : attrQueue = <<c>> /\ callPc[c] = "attribute" /\ pending = {}
    /\ \A c \in Caller : callPc[c] = "request" => listMutex[RequestMutex] = c
    /\ dsPc = "erase" => listMutex[EraseMutex] = Run
    /\ Intact => whole

StoreInv == WalkInv /\ TypeOK /\ Protocol

LEMMA InitStoreInv == Init => StoreInv
<1> SUFFICES ASSUME Init PROVE StoreInv
  OBVIOUS
<1>1. WalkInv
  BY InitWalkInv DEF Init
<1>2. TypeOK
  <2>1. WalkTypeOK /\ attrQueue \in Seq(Caller)
    BY <1>1, WalkTypes, EmptySeq DEF Init
  <2>2. /\ useCounter \in [Element -> 0 .. MaxCount]
        /\ lookups \in 0 .. MaxLookups
    BY DEF Init
  <2>3. /\ keyOf \in [Element -> Key \cup {Null}]
        /\ mpMember \in [Slot -> Address]
        /\ callPc \in [Caller -> {"idle", "find", "miss", "request", "attribute"}]
        /\ callKey \in [Caller -> Key \cup {Null}]
        /\ callIt \in [Caller -> Address]
        /\ listMutex \in [{"mNodesMutex", "mTopicsMutex"} -> Caller \cup {Run, Null}]
    BY DEF Init
  <2> QED BY <2>1, <2>2, <2>3 DEF Init, TypeOK
<1>3. Protocol
  BY DEF Init, Protocol, WalkInit, ListInit
<1> QED BY <1>1, <1>2, <1>3 DEF StoreInv

(* The steps keep the types of the store's own variables, also while       *)
(* iterators and MemberPtr objects refer to what was erased: the floor of  *)
(* decrease keeps the counters in range.                                   *)
LEMMA TypeStep ==
    ASSUME StoreInv, [Next]_vars, WalkTypeOK'
    PROVE  TypeOK'
<1> USE DEF RequestMutex, EraseMutex
<1>a. heap \subseteq Element /\ finder \in Address /\ TypeOK
  BY DEF StoreInv, WalkInv, ListInv, ListTypeOK, SearchInv
<1>1. ASSUME NEW c \in Caller, NEW k \in Key, Lookup(c, k) PROVE TypeOK'
  BY <1>1, <1>a DEF TypeOK, Lookup
<1>2. CASE Walking
  BY <1>2, <1>a DEF TypeOK, Walking, storeVars, callVars
<1>3. ASSUME NEW c \in Caller, Miss(c) PROVE TypeOK'
  BY <1>3, <1>a DEF TypeOK, Miss
<1>4. ASSUME NEW c \in Caller, NEW s \in Slot, ReturnHit(c, s) PROVE TypeOK'
  BY <1>4, <1>a DEF TypeOK, ReturnHit
<1>5. ASSUME NEW c \in Caller, Request(c) PROVE TypeOK'
  BY <1>5, <1>a DEF TypeOK, Request
<1>6. ASSUME NEW c \in Caller, NEW e \in Element, Respond(c, e) PROVE TypeOK'
  <2>1. useCounter' \in [Element -> 0 .. MaxCount]
    BY <1>6, <1>a DEF TypeOK, Respond
  <2>2. /\ keyOf' \in [Element -> Key \cup {Null}]
        /\ listMutex' \in [{"mNodesMutex", "mTopicsMutex"} -> Caller \cup {Run, Null}]
        /\ callIt' \in [Caller -> Address]
        /\ pending' \subseteq Caller
        /\ callPc' \in [Caller -> {"idle", "find", "miss", "request", "attribute"}]
    BY <1>6, <1>a DEF TypeOK, Respond
  <2> QED BY <1>6, <1>a, <2>1, <2>2 DEF TypeOK, Respond
<1>7. ASSUME NEW c \in Caller, NEW s \in Slot, ReturnRequested(c, s) PROVE TypeOK'
  <2>1. attrQueue' \in Seq(Caller)
    BY <1>7, <1>a, HeadTailProperties DEF TypeOK, ReturnRequested
  <2> QED BY <1>7, <1>a, <2>1 DEF TypeOK, ReturnRequested
<1>8. ASSUME NEW c \in Caller, Answer(c) PROVE TypeOK'
  BY <1>8, <1>a, AppendProperties DEF TypeOK, Answer
<1>9. CASE SlotStep
  <2>1. UNCHANGED <<keyOf, dsPc, listMutex, callVars, reused, astray>>
    BY <1>9 DEF SlotStep, Copy, Move, Destroy
  <2>2. mpMember' \in [Slot -> Address]
    BY <1>9, <1>a DEF SlotStep, Copy, Move, Destroy, TypeOK
  <2>3. useCounter' \in [Element -> 0 .. MaxCount]
    <3>1. \A n \in 0 .. MaxCount : Decreased(n) \in 0 .. MaxCount
      OBVIOUS
    <3>2. \A n \in 0 .. MaxCount : n < MaxCount => Increased(n) \in 0 .. MaxCount
      OBVIOUS
    <3> HIDE DEF Decreased, Increased
    <3>3. heap \subseteq Element /\ useCounter \in [Element -> 0 .. MaxCount]
      BY <1>a DEF TypeOK
    <3>4. ASSUME NEW d \in Slot, NEW s \in Slot, Copy(d, s)
          PROVE  useCounter' \in [Element -> 0 .. MaxCount]
      BY <3>2, <3>3, <3>4 DEF Copy
    <3>5. ASSUME NEW s \in Slot, Destroy(s)
          PROVE  useCounter' \in [Element -> 0 .. MaxCount]
      BY <3>1, <3>3, <3>5 DEF Destroy
    <3> QED BY <1>9, <3>3, <3>4, <3>5 DEF SlotStep, Move
  <2> QED BY <1>a, <2>1, <2>2, <2>3 DEF TypeOK, callVars
<1>10. CASE RunStep
  <2>1. CASE RunBegin \/ RunKeep \/ RunUnused \/ RunAborts \/ RunEnd
    BY <2>1, <1>a DEF TypeOK, RunBegin, RunKeep, RunUnused, RunAborts, RunEnd, vars, storeVars,
                      callVars
  <2>2. CASE RunLock \/ RunErase
    BY <2>2, <1>a DEF TypeOK, RunLock, RunErase, callVars
  <2> QED BY <1>10, <2>1, <2>2 DEF RunStep
<1>11. CASE UNCHANGED vars
  BY <1>11, <1>a DEF TypeOK, vars, storeVars, callVars
<1> QED BY <1>1, <1>2, <1>3, <1>4, <1>5, <1>6, <1>7, <1>8, <1>9, <1>10, <1>11
        DEF Next, CallerStep

(* Erased ends stay erased, and a pass never begins with ends it has not.  *)
LEMMA EndsAtBegin ==
    ASSUME StoreInv, [ListNext]_listVars
    PROVE  /\ Intact' => whole'
           /\ whole' => whole
           /\ lastErased => lastErased'
<1>a. firstErased \in BOOLEAN /\ lastErased \in BOOLEAN /\ whole \in BOOLEAN /\ (Intact => whole)
  BY DEF StoreInv, WalkInv, ListInv, ListTypeOK, Protocol
<1>1. CASE \E e \in Element : EmplaceBack(e)
  BY <1>1, <1>a DEF EmplaceBack, Intact
<1>2. CASE Begin
  BY <1>2, <1>a DEF Begin, Intact, ends
<1>3. CASE Advance \/ UNCHANGED listVars
  BY <1>3, <1>a DEF Advance, Intact, ends, listVars
<1>4. CASE \E i \in DOMAIN list : Erase(i)
  BY <1>4, <1>a DEF Erase, Intact
<1> QED BY <1>1, <1>2, <1>3, <1>4 DEF ListNext

LEMMA ProtocolStep ==
    ASSUME StoreInv, [Next]_vars, Intact' => whole'
    PROVE  Protocol'
<1> USE DEF RequestMutex, EraseMutex
<1>a. /\ callPc \in [Caller -> {"idle", "find", "miss", "request", "attribute"}]
      /\ listMutex \in [{"mNodesMutex", "mTopicsMutex"} -> Caller \cup {Run, Null}]
      /\ pending \subseteq Caller
      /\ Protocol
  BY DEF StoreInv, TypeOK
<1>1. ASSUME NEW c \in Caller, NEW k \in Key, Lookup(c, k) PROVE Protocol'
  BY <1>1, <1>a DEF Protocol, Lookup, FindBegin
<1>2. CASE Walking
  <2>1. UNCHANGED <<callPc, membersMutex, pending, attrQueue, listMutex, dsPc>>
    BY <1>2 DEF Walking, storeVars, callVars
  <2>2. search # "idle" /\ search' # "idle"
    BY <1>2 DEF Walking, FindNext, FindEnds
  <2> QED BY <1>a, <2>1, <2>2 DEF Protocol
<1>3. ASSUME NEW c \in Caller, Miss(c) PROVE Protocol'
  BY <1>3, <1>a DEF Protocol, Miss, FindReturns
<1>4. ASSUME NEW c \in Caller, NEW s \in Slot, ReturnHit(c, s) PROVE Protocol'
  BY <1>4, <1>a DEF Protocol, ReturnHit, FindReturns
<1>5. ASSUME NEW c \in Caller, Request(c) PROVE Protocol'
  BY <1>5, <1>a DEF Protocol, Request, walkVars
<1>6. ASSUME NEW c \in Caller, NEW e \in Element, Respond(c, e) PROVE Protocol'
  BY <1>6, <1>a DEF Protocol, Respond, Disturbed
<1>7. ASSUME NEW c \in Caller, NEW s \in Slot, ReturnRequested(c, s) PROVE Protocol'
  <2>1. PICK d \in Caller : attrQueue = <<d>> /\ callPc[d] = "attribute" /\ pending = {}
    BY <1>7, <1>a DEF Protocol, ReturnRequested
  <2>2. attrQueue' = <<>> /\ pending' = {}
    BY <1>7, <2>1 DEF ReturnRequested
  <2>3. callPc' = [callPc EXCEPT ![c] = "idle"] /\ callPc[c] = "attribute" /\ membersMutex' = Null
    BY <1>7 DEF ReturnRequested
  <2>4. \A b \in Caller : callPc'[b] = "idle"
    BY <1>a, <2>3 DEF Protocol
  <2>5. dsPc' = dsPc /\ listMutex' = listMutex /\ search' = search
    BY <1>7 DEF ReturnRequested, walkVars
  <2> QED BY <1>a, <2>2, <2>3, <2>4, <2>5 DEF Protocol
<1>8. ASSUME NEW c \in Caller, Answer(c) PROVE Protocol'
  <2>1. attrQueue = <<>> /\ callPc[c] = "attribute" /\ c \in pending
    BY <1>8, <1>a DEF Protocol, Answer
  <2>2. attrQueue' = <<c>>
    BY <1>8, <2>1 DEF Answer
  <2>3. pending' = {}
    BY <1>8, <1>a, <2>1 DEF Protocol, Answer
  <2>4. UNCHANGED <<callPc, membersMutex, listMutex, dsPc, search>>
    BY <1>8 DEF Answer, walkVars
  <2> QED BY <1>a, <2>1, <2>2, <2>3, <2>4 DEF Protocol
<1>9. CASE SlotStep
  <2>1. UNCHANGED <<callVars, listMutex, dsPc, walkVars>>
    BY <1>9 DEF SlotStep, Copy, Move, Destroy
  <2> QED BY <1>a, <2>1 DEF Protocol, callVars, walkVars
<1>10. CASE RunStep
  <2>1. UNCHANGED <<callVars, search>>
    BY <1>10 DEF RunStep, RunBegin, RunKeep, RunUnused, RunLock, RunErase, RunAborts, RunEnd,
                 vars, storeVars, walkVars, Disturbed
  <2>2. CASE RunLock
    BY <2>1, <2>2, <1>a DEF Protocol, RunLock, callVars
  <2>3. CASE RunErase
    BY <2>1, <2>3, <1>a DEF Protocol, RunErase, callVars
  <2>4. CASE RunBegin \/ RunKeep \/ RunUnused \/ RunAborts \/ RunEnd
    <3>1. listMutex' = listMutex /\ (dsPc' = "erase" => dsPc = "erase")
      BY <2>4 DEF RunBegin, RunKeep, RunUnused, RunAborts, RunEnd, vars, storeVars
    <3> QED BY <2>1, <3>1, <1>a DEF Protocol, callVars
  <2> QED BY <1>10, <2>2, <2>3, <2>4 DEF RunStep
<1>11. CASE UNCHANGED vars
  BY <1>11, <1>a DEF Protocol, vars, storeVars, callVars, walkVars
<1> QED BY <1>1, <1>2, <1>3, <1>4, <1>5, <1>6, <1>7, <1>8, <1>9, <1>10, <1>11
        DEF Next, CallerStep

LEMMA NextStoreInv == StoreInv /\ [Next]_vars => StoreInv'
<1> SUFFICES ASSUME StoreInv, [Next]_vars PROVE StoreInv'
  OBVIOUS
<1>1. [WalkNext]_<<listVars, walkVars>>
  BY StepsOfTheWalk DEF StoreInv, WalkInv, ListInv, ListTypeOK
<1>2. WalkInv'
  BY <1>1, NextWalkInv DEF StoreInv
<1>3. (WalkInv => WalkTypeOK)'
  BY WalkTypes, PTL
<1>4. TypeOK'
  BY <1>2, <1>3, TypeStep
<1>5. Intact' => whole'
  BY <1>1, WalkStepsAreListSteps, EndsAtBegin
<1>6. Protocol'
  BY <1>5, ProtocolStep
<1> QED BY <1>2, <1>4, <1>6 DEF StoreInv

LEMMA StoreInvariance == Spec => []StoreInv
BY InitStoreInv, NextStoreInv, PTL DEF Spec

(* The variables keep their types: the floor of AtomicCounter::decrease    *)
(* keeps the counters in range, even where MemberPtr objects outlive their *)
(* elements, and the pointers of the list theirs, even where its ends were *)
(* erased.                                                                 *)
THEOREM StoreTypeCorrect == Spec => []TypeOK
<1>1. StoreInv => TypeOK
  BY DEF StoreInv
<1> QED BY <1>1, StoreInvariance, PTL

(* The response a caller takes from the queue answers its own request:     *)
(* assert(requestId == response.requestID) cannot fail.                    *)
THEOREM ResponsesMatch == Spec => []RequestIdMatches
<1>1. StoreInv => RequestIdMatches
  <2> SUFFICES ASSUME Protocol, NEW c \in Caller, callPc[c] = "attribute", attrQueue # <<>>
               PROVE  Head(attrQueue) = c
    BY DEF StoreInv, RequestIdMatches
  <2>1. PICK d \in Caller : attrQueue = <<d>> /\ callPc[d] = "attribute"
    BY DEF Protocol
  <2>2. d = c
    BY <2>1 DEF Protocol
  <2> QED BY <2>1, <2>2
<1> QED BY <1>1, StoreInvariance, PTL

(* For topics, requestTopic and DataStore::run exclude each other on the   *)
(* list; for nodes the mutexes differ.                                     *)
THEOREM TopicsExclusive == Kind = "topic" /\ Spec => []ListExclusive
<1> SUFFICES ASSUME Kind = "topic" PROVE Spec => []ListExclusive
  OBVIOUS
<1>1. StoreInv => ListExclusive
  BY DEF StoreInv, Protocol, ListExclusive, RequestMutex, EraseMutex
<1> QED BY <1>1, StoreInvariance, PTL

-----------------------------------------------------------------------------
(* A key that a caller has missed cannot appear in the list before that    *)
(* caller emplaces it, since it holds the mutex of the lookups from find   *)
(* to return; what it is looking for are the elements that have the key.   *)
SoughtHaveKey ==
    \A c \in Caller : callPc[c] = "find" => sought = {e \in heap : keyOf[e] = callKey[c]}

MissedAreMissing ==
    ~lastErased /\ ~astray =>
        \A c \in Caller : callPc[c] \in {"miss", "request"} =>
            \A e \in heap : keyOf[e] # callKey[c]

KeysApart ==
    ~lastErased /\ ~astray => \A x, y \in heap : keyOf[x] = keyOf[y] => x = y

KeyInv == SoughtHaveKey /\ MissedAreMissing /\ KeysApart

LEMMA InitKeyInv == Init => KeyInv
BY DEF Init, WalkInit, ListInit, KeyInv, SoughtHaveKey, MissedAreMissing, KeysApart

(* Steps beside the lookups add no element and give none another key.      *)
LEMMA KeyFrame ==
    ASSUME KeyInv, heap' \subseteq heap, sought' = sought \cap heap',
           lastErased => lastErased', UNCHANGED <<keyOf, callPc, callKey, astray>>
    PROVE  KeyInv'
<1>1. SoughtHaveKey'
  BY DEF KeyInv, SoughtHaveKey
<1>2. MissedAreMissing'
  BY DEF KeyInv, MissedAreMissing
<1>3. KeysApart'
  BY DEF KeyInv, KeysApart
<1> QED BY <1>1, <1>2, <1>3 DEF KeyInv

(* The address is new, and so is the key: the caller has held the mutex    *)
(* since it missed it, and every other caller is outside.                  *)
LEMMA RespondKeyInv ==
    ASSUME StoreInv, KeyInv, NEW c \in Caller, NEW e \in Element, Respond(c, e)
    PROVE  KeyInv'
<1>1. /\ callPc[c] = "request" /\ e \notin heap /\ heap' = heap \cup {e}
      /\ keyOf' = [keyOf EXCEPT ![e] = callKey[c]]
      /\ callPc' = [callPc EXCEPT ![c] = "attribute"]
      /\ UNCHANGED <<callKey, astray, lastErased>>
  BY DEF Respond, EmplaceBack
<1>2. /\ heap \subseteq Element /\ keyOf \in [Element -> Key \cup {Null}]
      /\ callPc \in [Caller -> {"idle", "find", "miss", "request", "attribute"}]
  BY DEF StoreInv, WalkInv, ListInv, ListTypeOK, TypeOK
<1>3. \A d \in Caller : callPc'[d] \notin {"find", "miss", "request"}
  BY <1>1, <1>2 DEF StoreInv, Protocol
<1>4. keyOf'[e] = callKey[c] /\ \A x \in heap : keyOf'[x] = keyOf[x]
  BY <1>1, <1>2
<1>5. ~lastErased /\ ~astray => \A x \in heap : keyOf[x] # callKey[c]
  BY <1>1 DEF KeyInv, MissedAreMissing
<1>6. KeysApart'
  BY <1>1, <1>4, <1>5 DEF KeyInv, KeysApart
<1> QED BY <1>3, <1>6 DEF KeyInv, SoughtHaveKey, MissedAreMissing

(* A miss says that nothing has the key: find has not been led astray and  *)
(* the last element is in place (FindComplete).                            *)
LEMMA MissKeyInv ==
    ASSUME StoreInv, KeyInv, NEW c \in Caller, Miss(c)
    PROVE  KeyInv'
<1>1. /\ callPc[c] = "find" /\ search = "missed"
      /\ callPc' = [callPc EXCEPT ![c] = "miss"]
      /\ astray' = (astray \/ strayed)
      /\ UNCHANGED <<heap, lastErased, keyOf, callKey>>
  BY DEF Miss, FindReturns, listVars, ends
<1>2. /\ callPc \in [Caller -> {"idle", "find", "miss", "request", "attribute"}]
      /\ \A d \in Caller : callPc[d] # "idle" => d = c
      /\ sought = {} \/ strayed \/ lastErased
      /\ sought = {e \in heap : keyOf[e] = callKey[c]}
  BY <1>1 DEF StoreInv, TypeOK, Protocol, WalkInv, SearchInv, FindComplete, KeyInv, SoughtHaveKey
<1>3. SoughtHaveKey'
  BY <1>1, <1>2 DEF SoughtHaveKey
<1>4. MissedAreMissing'
  BY <1>1, <1>2 DEF MissedAreMissing
<1>5. KeysApart'
  BY <1>1 DEF KeyInv, KeysApart
<1> QED BY <1>3, <1>4, <1>5 DEF KeyInv

LEMMA LookupKeyInv ==
    ASSUME StoreInv, KeyInv, NEW c \in Caller, NEW k \in Key, Lookup(c, k)
    PROVE  KeyInv'
<1>1. /\ membersMutex = Null
      /\ sought' = {e \in heap : keyOf[e] = k}
      /\ callPc' = [callPc EXCEPT ![c] = "find"]
      /\ callKey' = [callKey EXCEPT ![c] = k]
      /\ UNCHANGED <<heap, lastErased, keyOf, astray>>
  BY DEF Lookup, FindBegin, listVars, ends
<1>2. /\ callPc \in [Caller -> {"idle", "find", "miss", "request", "attribute"}]
      /\ callKey \in [Caller -> Key \cup {Null}]
      /\ \A d \in Caller : callPc[d] = "idle"
  BY <1>1 DEF StoreInv, TypeOK, Protocol
<1>3. \A d \in Caller : callPc'[d] = IF d = c THEN "find" ELSE "idle"
  BY <1>1, <1>2
<1>4. SoughtHaveKey'
  BY <1>1, <1>2, <1>3 DEF SoughtHaveKey
<1>5. MissedAreMissing'
  BY <1>3 DEF MissedAreMissing
<1>6. KeysApart'
  BY <1>1 DEF KeyInv, KeysApart
<1> QED BY <1>4, <1>5, <1>6 DEF KeyInv

LEMMA NextKeyInv ==
    ASSUME StoreInv, KeyInv, [Next]_vars, lastErased => lastErased'
    PROVE  KeyInv'
<1>a. /\ sought \subseteq heap
      /\ callPc \in [Caller -> {"idle", "find", "miss", "request", "attribute"}]
  BY DEF StoreInv, WalkInv, SearchInv, TypeOK
<1>1. CASE Walking
  <2>1. UNCHANGED <<heap, sought, keyOf, callPc, callKey, astray>>
    BY <1>1 DEF Walking, FindNext, FindEnds, storeVars, callVars, listVars
  <2> QED BY <1>a, <2>1, KeyFrame
<1>2. ASSUME NEW c \in Caller, NEW s \in Slot, ReturnHit(c, s) PROVE KeyInv'
  <2>1. /\ callPc' = [callPc EXCEPT ![c] = "idle"] /\ callPc[c] = "find"
        /\ UNCHANGED <<heap, lastErased, keyOf, callKey>>
        /\ astray' = (astray \/ strayed)
    BY <1>2 DEF ReturnHit, FindReturns, listVars, ends
  <2>2. \A d \in Caller : callPc'[d] = "idle"
    BY <1>a, <2>1 DEF StoreInv, Protocol
  <2> QED BY <2>1, <2>2 DEF KeyInv, SoughtHaveKey, MissedAreMissing, KeysApart
<1>3. ASSUME NEW c \in Caller, Request(c) PROVE KeyInv'
  <2>1. /\ callPc' = [callPc EXCEPT ![c] = "request"] /\ callPc[c] = "miss"
        /\ UNCHANGED <<heap, lastErased, keyOf, callKey, astray, sought>>
    BY <1>3 DEF Request, listVars, walkVars, ends
  <2>2. \A d \in Caller :
           /\ callPc'[d] = "find" => callPc[d] = "find"
           /\ callPc'[d] \in {"miss", "request"} => callPc[d] \in {"miss", "request"}
    BY <1>a, <2>1
  <2> QED BY <2>1, <2>2 DEF KeyInv, SoughtHaveKey, MissedAreMissing, KeysApart
<1>4. ASSUME NEW c \in Caller, NEW s \in Slot, ReturnRequested(c, s) PROVE KeyInv'
  <2>1. /\ callPc' = [callPc EXCEPT ![c] = "idle"]
        /\ UNCHANGED <<heap, lastErased, keyOf, callKey, astray, sought>>
    BY <1>4 DEF ReturnRequested, listVars, walkVars, ends
  <2>2. \A d \in Caller : callPc'[d] # "idle" => callPc'[d] = callPc[d]
    BY <1>a, <2>1
  <2> QED BY <2>1, <2>2 DEF KeyInv, SoughtHaveKey, MissedAreMissing, KeysApart
<1>5. ASSUME NEW c \in Caller, Answer(c) PROVE KeyInv'
  BY <1>5, <1>a, KeyFrame DEF Answer, listVars, walkVars
<1>6. CASE SlotStep
  BY <1>6, <1>a, KeyFrame DEF SlotStep, Copy, Move, Destroy, listVars, walkVars, callVars
<1>7. CASE RunStep
  <2>1. UNCHANGED <<keyOf, callVars, astray>>
    BY <1>7 DEF RunStep, RunBegin, RunKeep, RunUnused, RunLock, RunErase, RunAborts, RunEnd,
                vars, storeVars
  <2>2. heap' \subseteq heap
    BY <1>7 DEF RunStep, RunBegin, RunKeep, RunUnused, RunLock, RunErase, RunAborts, RunEnd,
                Begin, Advance, Erase, vars, listVars
  <2>3. sought' = sought \cap heap'
    BY <1>7, <1>a DEF RunStep, RunBegin, RunKeep, RunUnused, RunLock, RunErase, RunAborts, RunEnd,
                      Disturbed, vars, listVars, walkVars
  <2> QED BY <2>1, <2>2, <2>3, KeyFrame DEF callVars
<1>8. CASE UNCHANGED vars
  BY <1>8, <1>a, KeyFrame DEF vars, listVars, walkVars, storeVars, callVars
<1> QED BY <1>1, <1>2, <1>3, <1>4, <1>5, <1>6, <1>7, <1>8, LookupKeyInv, MissKeyInv, RespondKeyInv
        DEF Next, CallerStep

(* A member is in the list once, until the last element is erased or a     *)
(* search that was led astray by an erased element has returned: two       *)
(* callers never both miss in find and request the same key.               *)
THEOREM KeysUnique == Spec => []OneElementPerKey
<1>1. StoreInv /\ KeyInv => OneElementPerKey
  <2> SUFFICES ASSUME StoreInv, KeyInv, ~lastErased, ~astray,
                      NEW i \in DOMAIN list, NEW j \in DOMAIN list,
                      keyOf[list[i]] = keyOf[list[j]]
               PROVE  i = j
    BY DEF OneElementPerKey
  <2>1. i \in 1 .. Len(list) /\ j \in 1 .. Len(list)
    BY ListFacts DEF StoreInv, WalkInv
  <2>2. list[i] \in heap /\ list[j] \in heap
    BY <2>1, ListFacts DEF StoreInv, WalkInv
  <2>3. list[i] = list[j]
    BY <2>2 DEF KeyInv, KeysApart
  <2> QED BY <2>1, <2>3, ListFacts DEF StoreInv, WalkInv
<1>2. StoreInv /\ KeyInv /\ [Next]_vars => KeyInv'
  <2> SUFFICES ASSUME StoreInv, KeyInv, [Next]_vars PROVE KeyInv'
    OBVIOUS
  <2>1. [ListNext]_listVars
    BY StepsOfTheWalk, WalkStepsAreListSteps DEF StoreInv, WalkInv, ListInv, ListTypeOK
  <2>2. lastErased => lastErased'
    BY <2>1, EndsAtBegin
  <2> QED BY <2>2, NextKeyInv
<1> QED BY <1>1, <1>2, InitKeyInv, StoreInvariance, PTL DEF Spec

-----------------------------------------------------------------------------
(* The iterator of a caller is set between emplace_back and return.        *)
CallerIterators ==
    \A c \in Caller :
        IF callPc[c] = "attribute" THEN callIt[c] \in heap ELSE callIt[c] = Null

(* What the pass has found unused has a counter of zero and is in the list.*)
UnusedIsZero ==
    dsPc \in {"unused", "erase"} => it \in heap /\ useCounter[it] = 0

Counted == \A e \in heap : Cardinality(Holders(e)) <= useCounter[e]

Lifetimes == MembersLive /\ CallerIterators /\ UnusedIsZero /\ Counted

LifeInv == Reliable => Lifetimes

(* Counting: a set grows by at most the element added to it.               *)
LEMMA CountAdd ==
    ASSUME NEW A, NEW B, NEW x, IsFiniteSet(A), B \subseteq A \cup {x}
    PROVE  IsFiniteSet(B) /\ Cardinality(B) <= Cardinality(A) + 1
<1>1. /\ IsFiniteSet(A \cup {x})
      /\ Cardinality(A \cup {x}) = IF x \in A THEN Cardinality(A) ELSE Cardinality(A) + 1
  BY FS_AddElement
<1>2. IsFiniteSet(B) /\ Cardinality(B) <= Cardinality(A \cup {x})
  BY <1>1, FS_Subset
<1>3. Cardinality(A) \in Nat /\ Cardinality(B) \in Nat
  BY <1>2, FS_CardinalityType
<1> QED BY <1>1, <1>2, <1>3

(* Counting: what loses one element and gains one does not grow.           *)
LEMMA CountExchange ==
    ASSUME NEW A, NEW B, NEW x, NEW y, IsFiniteSet(A), y \in A, B \subseteq (A \ {y}) \cup {x}
    PROVE  IsFiniteSet(B) /\ Cardinality(B) <= Cardinality(A)
<1>1. IsFiniteSet(A \ {y}) /\ Cardinality(A \ {y}) = Cardinality(A) - 1
  BY FS_RemoveElement
<1>2. IsFiniteSet(B) /\ Cardinality(B) <= Cardinality(A \ {y}) + 1
  BY <1>1, CountAdd
<1>3. Cardinality(A) \in Nat /\ Cardinality(B) \in Nat
  BY <1>2, FS_CardinalityType
<1> QED BY <1>1, <1>2, <1>3

(* The holders of an element are finitely many.                            *)
LEMMA HoldersFinite ==
    ASSUME NEW e
    PROVE  IsFiniteSet(Holders(e)) /\ Cardinality(Holders(e)) \in Nat
<1>1. IsFiniteSet(Slot \cup Caller)
  BY FS_Union
<1>2. Holders(e) \subseteq Slot \cup Caller
  BY DEF Holders
<1> QED BY <1>1, <1>2, FS_Subset, FS_CardinalityType

(* Nothing unused is held.                                                 *)
LEMMA ZeroUnheld ==
    ASSUME Counted, NEW e \in heap, useCounter[e] = 0
    PROVE  Holders(e) = {}
<1>1. Cardinality(Holders(e)) = 0
  BY HoldersFinite DEF Counted
<1> QED BY <1>1, HoldersFinite, FS_EmptySet

(* What the types say of the variables the lifetimes depend on.            *)
LEMMA StoreFacts ==
    ASSUME StoreInv
    PROVE  /\ heap \subseteq Element /\ Null \notin heap
           /\ useCounter \in [Element -> 0 .. MaxCount]
           /\ mpMember \in [Slot -> Address]
           /\ callPc \in [Caller -> {"idle", "find", "miss", "request", "attribute"}]
           /\ callIt \in [Caller -> Address]
           /\ whole => it \in heap \cup {Null}
BY DEF StoreInv, WalkInv, ListInv, ListTypeOK, TypeOK

LEMMA InitLifetimes == Init => Lifetimes
BY DEF Init, WalkInit, ListInit, Lifetimes, MembersLive, CallerIterators, UnusedIsZero, Counted

-----------------------------------------------------------------------------
(* A caller that goes from one place before emplace_back to another        *)
LEMMA CallerMoves ==
    ASSUME StoreInv, Lifetimes, NEW c \in Caller, NEW p, callPc[c] # "attribute", p # "attribute",
           callPc' = [callPc EXCEPT ![c] = p],
           UNCHANGED <<heap, useCounter, mpMember, it, dsPc, callIt>>
    PROVE  Lifetimes'
<1> USE StoreFacts
<1>1. \A d \in Caller : callPc'[d] = "attribute" <=> callPc[d] = "attribute"
  OBVIOUS
<1>2. CallerIterators'
  BY <1>1 DEF Lifetimes, CallerIterators
<1>3. \A e : Holders(e)' = Holders(e)
  BY <1>1 DEF Holders
<1>4. Counted'
  BY <1>3 DEF Lifetimes, Counted
<1> QED BY <1>2, <1>4 DEF Lifetimes, MembersLive, UnusedIsZero

(* emplace_back: the address was free, so the request is its only holder.  *)
LEMMA RespondLifetimes ==
    ASSUME StoreInv, Lifetimes, NEW c \in Caller, NEW e \in Element, Respond(c, e)
    PROVE  Lifetimes'
<1>1. /\ callPc[c] = "request" /\ e \notin heap /\ heap' = heap \cup {e}
      /\ useCounter' = [useCounter EXCEPT ![e] = 1]
      /\ callIt' = [callIt EXCEPT ![c] = e]
      /\ callPc' = [callPc EXCEPT ![c] = "attribute"]
      /\ UNCHANGED <<mpMember, it, dsPc>>
  BY DEF Respond, EmplaceBack
<1> USE StoreFacts
<1>2. MembersLive'
  BY <1>1 DEF Lifetimes, MembersLive
<1>3. CallerIterators'
  BY <1>1 DEF Lifetimes, CallerIterators
<1>4. UnusedIsZero'
  BY <1>1 DEF Lifetimes, UnusedIsZero
<1>5. Counted'
  <2> SUFFICES ASSUME NEW x \in heap' PROVE Cardinality(Holders(x)') <= useCounter'[x]
    BY DEF Counted
  <2>1. CASE x = e
    <3>1. Holders(x)' = {c}
      <4>1. \A s \in Slot : mpMember'[s] # e
        BY <1>1 DEF Lifetimes, MembersLive
      <4>2. \A d \in Caller : callPc'[d] = "attribute" /\ callIt'[d] = e <=> d = c
        <5> TAKE d \in Caller
        <5>1. CASE d = c
          BY <5>1, <1>1
        <5>2. CASE d # c
          <6>1. callPc'[d] = callPc[d] /\ callIt'[d] = callIt[d]
            BY <5>2, <1>1
          <6> QED BY <5>2, <6>1, <1>1 DEF Lifetimes, CallerIterators
        <5> QED BY <5>1, <5>2
      <4> QED BY <2>1, <4>1, <4>2 DEF Holders
    <3>2. useCounter'[e] = 1
      BY <1>1
    <3>3. Cardinality(Holders(x)') = 1
      BY <3>1, FS_Singleton
    <3> QED BY <2>1, <3>2, <3>3
  <2>2. CASE x # e
    <3>1. x \in heap
      BY <1>1, <2>2
    <3>2. Holders(x)' \subseteq Holders(x)
      BY <1>1, <2>2 DEF Holders
    <3>3. Cardinality(Holders(x)') <= Cardinality(Holders(x)) /\ Cardinality(Holders(x)') \in Nat
      BY <3>2, HoldersFinite, FS_Subset, FS_CardinalityType
    <3>4. useCounter'[x] = useCounter[x] /\ useCounter[x] \in Nat
      BY <1>1, <2>2, <3>1
    <3> QED BY <3>1, <3>3, <3>4, HoldersFinite DEF Lifetimes, Counted
  <2> QED BY <2>1, <2>2
<1> QED BY <1>2, <1>3, <1>4, <1>5 DEF Lifetimes

(* return MAKE_MEMBER_PTR(node): the MemberPtr takes over from the request.*)
LEMMA ReturnRequestedLifetimes ==
    ASSUME StoreInv, Lifetimes, NEW c \in Caller, NEW s \in Slot, ReturnRequested(c, s)
    PROVE  Lifetimes'
<1> DEFINE e == callIt[c]
<1>1. /\ callPc[c] = "attribute" /\ mpMember[s] = Null
      /\ mpMember' = [mpMember EXCEPT ![s] = e]
      /\ callPc' = [callPc EXCEPT ![c] = "idle"]
      /\ callIt' = [callIt EXCEPT ![c] = Null]
      /\ UNCHANGED <<heap, useCounter, it, dsPc>>
  BY DEF ReturnRequested, listVars
<1> USE StoreFacts
<1>2. e \in heap
  BY <1>1 DEF Lifetimes, CallerIterators
<1>3. MembersLive' /\ CallerIterators'
  BY <1>1, <1>2 DEF Lifetimes, MembersLive, CallerIterators
<1>4. Counted'
  <2> SUFFICES ASSUME NEW x \in heap PROVE Cardinality(Holders(x)') <= useCounter[x]
    BY <1>1 DEF Counted
  <2>1. useCounter[x] \in Nat /\ Cardinality(Holders(x)) <= useCounter[x] /\ x # Null
    BY DEF Lifetimes, Counted
  <2>2. CASE x = e
    <3>1. c \in Holders(x)
      BY <1>1, <2>2 DEF Holders
    <3>2. Holders(x)' \subseteq (Holders(x) \ {c}) \cup {s}
      BY <1>1, <2>1, <2>2 DEF Holders
    <3>3. IsFiniteSet(Holders(x)') /\ Cardinality(Holders(x)') <= Cardinality(Holders(x))
      BY <3>1, <3>2, HoldersFinite, CountExchange
    <3> QED BY <2>1, <3>3, HoldersFinite, FS_CardinalityType
  <2>3. CASE x # e
    <3>1. Holders(x)' \subseteq Holders(x)
      BY <1>1, <2>1, <2>3 DEF Holders
    <3>2. Cardinality(Holders(x)') <= Cardinality(Holders(x)) /\ Cardinality(Holders(x)') \in Nat
      BY <3>1, HoldersFinite, FS_Subset, FS_CardinalityType
    <3> QED BY <2>1, <3>2, HoldersFinite
  <2> QED BY <2>2, <2>3
<1>5. UnusedIsZero'
  BY <1>1 DEF Lifetimes, UnusedIsZero
<1> QED BY <1>3, <1>4, <1>5 DEF Lifetimes

-----------------------------------------------------------------------------
(* Steps on the slots leave the list and the callers alone.                *)
LEMMA SlotFrame ==
    ASSUME Lifetimes, UNCHANGED <<heap, callPc, callIt>>,
           mpMember' \in [Slot -> heap \cup {Null}], UnusedIsZero',
           \A x \in heap : Cardinality(Holders(x)') <= useCounter'[x]
    PROVE  Lifetimes'
BY DEF Lifetimes, MembersLive, CallerIterators, Counted

(* A copy adds at most one holder, and counts it.                          *)
LEMMA CopyLifetimes ==
    ASSUME StoreInv, Lifetimes, NEW d \in Slot, NEW s \in Slot, Copy(d, s)
    PROVE  Lifetimes'
<1> DEFINE e == mpMember[s]
<1>1. /\ mpMember' = [mpMember EXCEPT ![d] = e]
      /\ UNCHANGED <<heap, it, dsPc, callPc, callIt>>
      /\ mpMember \in [Slot -> heap \cup {Null}]
      /\ useCounter \in [Element -> 0 .. MaxCount]
  BY StoreFacts DEF Copy, Lifetimes, MembersLive, listVars, callVars
<1>2. \/ e = Null /\ useCounter' = useCounter
      \/ e \in heap /\ useCounter[e] < MaxCount /\ useCounter' = [useCounter EXCEPT ![e] = @ + 1]
  BY DEF Copy
<1>3. mpMember' \in [Slot -> heap \cup {Null}] /\ useCounter' \in [Element -> 0 .. MaxCount]
  BY <1>1, <1>2
<1>4. e \in heap => useCounter[e] # 0
  <2> SUFFICES ASSUME e \in heap, useCounter[e] = 0 PROVE FALSE
    OBVIOUS
  <2>1. s \in Holders(e)
    BY DEF Holders
  <2> QED BY <2>1, ZeroUnheld DEF Lifetimes
<1>5. UnusedIsZero'
  <2>1. it' = it /\ dsPc' = dsPc /\ heap' = heap
    BY <1>1
  <2>2. dsPc \in {"unused", "erase"} => it \in Element /\ it # e
    BY <1>4, StoreFacts DEF Lifetimes, UnusedIsZero
  <2> QED BY <1>1, <1>2, <2>1, <2>2 DEF Lifetimes, UnusedIsZero
<1>6. ASSUME NEW x \in heap PROVE Cardinality(Holders(x)') <= useCounter'[x]
  <2>1. x \in Element /\ x # Null /\ useCounter[x] \in Nat /\ Cardinality(Holders(x)) <= useCounter[x]
    BY <1>1, StoreFacts DEF Lifetimes, Counted
  <2>2. CASE x = e
    <3>1. Holders(x)' \subseteq Holders(x) \cup {d}
      BY <1>1 DEF Holders
    <3>2. IsFiniteSet(Holders(x)') /\ Cardinality(Holders(x)') <= Cardinality(Holders(x)) + 1
      BY <3>1, HoldersFinite, CountAdd
    <3>3. useCounter'[x] = useCounter[x] + 1
      BY <1>1, <1>2, <2>1, <2>2
    <3> QED BY <2>1, <3>2, <3>3, HoldersFinite, FS_CardinalityType
  <2>3. CASE x # e
    <3>1. Holders(x)' \subseteq Holders(x)
      BY <1>1, <2>3 DEF Holders
    <3>2. Cardinality(Holders(x)') <= Cardinality(Holders(x)) /\ Cardinality(Holders(x)') \in Nat
      BY <3>1, HoldersFinite, FS_Subset, FS_CardinalityType
    <3>3. useCounter'[x] = useCounter[x]
      BY <1>1, <1>2, <2>1, <2>3
    <3> QED BY <2>1, <3>2, <3>3, HoldersFinite
  <2> QED BY <2>2, <2>3
<1> QED BY <1>1, <1>3, <1>5, <1>6, SlotFrame

(* A move exchanges one holder for another.                                *)
LEMMA MoveLifetimes ==
    ASSUME StoreInv, Lifetimes, NEW d \in Slot, NEW s \in Slot, Move(d, s)
    PROVE  Lifetimes'
<1> DEFINE e == mpMember[s]
<1>1. /\ mpMember' = [mpMember EXCEPT ![d] = e, ![s] = Null]
      /\ UNCHANGED <<heap, useCounter, it, dsPc, callPc, callIt>>
      /\ mpMember \in [Slot -> heap \cup {Null}]
      /\ useCounter \in [Element -> 0 .. MaxCount]
  BY StoreFacts DEF Move, Lifetimes, MembersLive, listVars, callVars
<1>2. mpMember' \in [Slot -> heap \cup {Null}]
  BY <1>1
<1>3. UnusedIsZero'
  BY <1>1 DEF Lifetimes, UnusedIsZero
<1>4. ASSUME NEW x \in heap PROVE Cardinality(Holders(x)') <= useCounter'[x]
  <2>1. x # Null /\ useCounter[x] \in Nat /\ Cardinality(Holders(x)) <= useCounter[x] /\ useCounter' = useCounter
    BY <1>1, StoreFacts DEF Lifetimes, Counted
  <2>2. CASE x = e
    <3>1. s \in Holders(x)
      BY <2>2 DEF Holders
    <3>2. Holders(x)' \subseteq (Holders(x) \ {s}) \cup {d}
      <4>1. \A t \in Slot : mpMember'[t] = x => t # s /\ (t = d \/ mpMember[t] = x)
        BY <1>1, <2>1
      <4>2. \A t \in Slot : t \notin Caller
        OBVIOUS
      <4> QED BY <1>1, <4>1, <4>2 DEF Holders
    <3>3. IsFiniteSet(Holders(x)') /\ Cardinality(Holders(x)') <= Cardinality(Holders(x))
      BY <3>1, <3>2, HoldersFinite, CountExchange
    <3> QED BY <2>1, <3>3, HoldersFinite, FS_CardinalityType
  <2>3. CASE x # e
    <3>1. Holders(x)' \subseteq Holders(x)
      BY <1>1, <2>1, <2>3 DEF Holders
    <3>2. Cardinality(Holders(x)') <= Cardinality(Holders(x)) /\ Cardinality(Holders(x)') \in Nat
      BY <3>1, HoldersFinite, FS_Subset, FS_CardinalityType
    <3> QED BY <2>1, <3>2, HoldersFinite
  <2> QED BY <2>2, <2>3
<1>5. useCounter' \in [Element -> 0 .. MaxCount]
  BY <1>1
<1> QED BY <1>1, <1>2, <1>3, <1>4, <1>5, SlotFrame

(* A destructor takes one holder away and counts it.                       *)
LEMMA DestroyLifetimes ==
    ASSUME StoreInv, Lifetimes, NEW s \in Slot, Destroy(s)
    PROVE  Lifetimes'
<1> DEFINE e == mpMember[s]
<1>1. /\ e \in heap
      /\ mpMember' = [mpMember EXCEPT ![s] = Null]
      /\ useCounter' = [useCounter EXCEPT ![e] = IF @ > 0 THEN @ - 1 ELSE @]
      /\ UNCHANGED <<heap, it, dsPc, callPc, callIt>>
      /\ mpMember \in [Slot -> heap \cup {Null}]
      /\ useCounter \in [Element -> 0 .. MaxCount]
  BY StoreFacts DEF Destroy, Lifetimes, MembersLive, listVars, callVars
<1>2. mpMember' \in [Slot -> heap \cup {Null}] /\ useCounter' \in [Element -> 0 .. MaxCount]
  <2>1. e \in Element /\ useCounter[e] \in 0 .. MaxCount
    BY <1>1, StoreFacts
  <2>2. (IF useCounter[e] > 0 THEN useCounter[e] - 1 ELSE useCounter[e]) \in 0 .. MaxCount
    BY <2>1
  <2> QED BY <1>1, <2>1, <2>2
<1>3. UnusedIsZero'
  <2>1. it' = it /\ dsPc' = dsPc /\ heap' = heap
    BY <1>1
  <2>2. dsPc \in {"unused", "erase"} => it \in Element /\ useCounter[it] = 0
    BY StoreFacts DEF Lifetimes, UnusedIsZero
  <2> QED BY <1>1, <2>1, <2>2 DEF Lifetimes, UnusedIsZero
<1>4. ASSUME NEW x \in heap PROVE Cardinality(Holders(x)') <= useCounter'[x]
  <2>1. x \in Element /\ x # Null /\ useCounter[x] \in Nat /\ Cardinality(Holders(x)) <= useCounter[x]
    BY <1>1, StoreFacts DEF Lifetimes, Counted
  <2>2. CASE x = e
    <3>1. s \in Holders(x)
      BY <2>2 DEF Holders
    <3>2. IsFiniteSet(Holders(x) \ {s}) /\ Cardinality(Holders(x) \ {s}) = Cardinality(Holders(x)) - 1
      BY <3>1, HoldersFinite, FS_RemoveElement
    <3>3. Holders(x)' \subseteq Holders(x) \ {s}
      BY <1>1, <2>1 DEF Holders
    <3>4. Cardinality(Holders(x)') <= Cardinality(Holders(x)) - 1 /\ Cardinality(Holders(x)') \in Nat
      BY <3>2, <3>3, FS_Subset, FS_CardinalityType
    <3>5. useCounter[x] > 0 => useCounter'[x] = useCounter[x] - 1
      BY <1>1, <2>1, <2>2
    <3> QED BY <2>1, <3>4, <3>5, HoldersFinite
  <2>3. CASE x # e
    <3>1. Holders(x)' \subseteq Holders(x)
      BY <1>1, <2>1 DEF Holders
    <3>2. Cardinality(Holders(x)') <= Cardinality(Holders(x)) /\ Cardinality(Holders(x)') \in Nat
      BY <3>1, HoldersFinite, FS_Subset, FS_CardinalityType
    <3>3. useCounter'[x] = useCounter[x]
      BY <1>1, <2>1, <2>3
    <3> QED BY <2>1, <3>2, <3>3, HoldersFinite
  <2> QED BY <2>2, <2>3
<1> QED BY <1>1, <1>2, <1>3, <1>4, SlotFrame

-----------------------------------------------------------------------------
(* erase: nobody refers to the element any more.                           *)
LEMMA RunEraseLifetimes ==
    ASSUME StoreInv, Lifetimes, RunErase
    PROVE  Lifetimes'
<1>1. it \in heap /\ useCounter[it] = 0 /\ Holders(it) = {}
  BY ZeroUnheld DEF RunErase, Lifetimes, UnusedIsZero
<1>2. /\ dsPc' = "scan" /\ heap' = heap \ {it}
      /\ UNCHANGED <<useCounter, mpMember, callPc, callIt>>
  BY DEF RunErase, Erase, callVars
<1>3. MembersLive'
  <2>1. \A s \in Slot : mpMember[s] # it
    BY <1>1 DEF Holders
  <2> QED BY <1>2, <2>1 DEF Lifetimes, MembersLive
<1>4. CallerIterators'
  <2>1. \A c \in Caller : callPc[c] = "attribute" => callIt[c] # it
    BY <1>1 DEF Holders
  <2> QED BY <1>2, <2>1 DEF Lifetimes, CallerIterators
<1>5. Counted'
  BY <1>2 DEF Lifetimes, Counted, Holders
<1>6. UnusedIsZero'
  BY <1>2 DEF UnusedIsZero
<1> QED BY <1>3, <1>4, <1>5, <1>6 DEF Lifetimes

(* The other steps of the pass erase nothing.                              *)
LEMMA RunLifetimes ==
    ASSUME StoreInv, Lifetimes, whole, RunStep, ~RunErase
    PROVE  Lifetimes'
<1>1. UNCHANGED <<heap, useCounter, mpMember, callPc, callIt>>
  BY DEF RunStep, RunBegin, RunKeep, RunUnused, RunLock, RunAborts, RunEnd, Begin, Advance,
         vars, listVars, storeVars, callVars
<1>2. UnusedIsZero'
  <2>1. CASE RunUnused
    BY <2>1, <1>1, StoreFacts DEF RunUnused, UnusedIsZero, listVars
  <2>2. CASE RunLock \/ RunAborts
    BY <2>2, <1>1 DEF RunLock, RunAborts, Lifetimes, UnusedIsZero, listVars, storeVars, vars
  <2>3. CASE RunBegin \/ RunKeep \/ RunEnd
    BY <2>3 DEF RunBegin, RunKeep, RunEnd, UnusedIsZero, storeVars
  <2> QED BY <2>1, <2>2, <2>3 DEF RunStep
<1> QED BY <1>1, <1>2 DEF Lifetimes, MembersLive, CallerIterators, Counted, Holders

LEMMA NextLifetimes ==
    ASSUME StoreInv, Lifetimes, [Next]_vars, whole, ~reused'
    PROVE  Lifetimes'
<1>1. ASSUME NEW c \in Caller, NEW k \in Key, Lookup(c, k) PROVE Lifetimes'
  BY <1>1, CallerMoves DEF Lookup, FindBegin, listVars
<1>2. CASE Walking
  BY <1>2 DEF Walking, FindNext, FindEnds, listVars, storeVars, callVars,
              Lifetimes, MembersLive, CallerIterators, UnusedIsZero, Counted, Holders
<1>3. ASSUME NEW c \in Caller, Miss(c) PROVE Lifetimes'
  BY <1>3, CallerMoves DEF Miss, FindReturns, listVars
<1>4. ASSUME NEW c \in Caller, NEW s \in Slot, ReturnHit(c, s) PROVE Lifetimes'
  BY <1>4 DEF ReturnHit
<1>5. ASSUME NEW c \in Caller, Request(c) PROVE Lifetimes'
  BY <1>5, CallerMoves DEF Request, listVars
<1>6. ASSUME NEW c \in Caller, Answer(c) PROVE Lifetimes'
  BY <1>6 DEF Answer, listVars, Lifetimes, MembersLive, CallerIterators, UnusedIsZero, Counted, Holders
<1>7. CASE SlotStep
  BY <1>7, CopyLifetimes, MoveLifetimes, DestroyLifetimes DEF SlotStep
<1>8. CASE UNCHANGED vars
  BY <1>8 DEF vars, listVars, storeVars, callVars,
              Lifetimes, MembersLive, CallerIterators, UnusedIsZero, Counted, Holders
<1> QED BY <1>1, <1>2, <1>3, <1>4, <1>5, <1>6, <1>7, <1>8, RespondLifetimes,
           ReturnRequestedLifetimes, RunLifetimes, RunEraseLifetimes DEF Next, CallerStep

(* The counters, once they cannot be relied on, never can be again.        *)
LEMMA NextLifeInv ==
    ASSUME StoreInv, LifeInv, [Next]_vars
    PROVE  LifeInv'
<1>1. [ListNext]_listVars
  BY StepsOfTheWalk, WalkStepsAreListSteps DEF StoreInv, WalkInv, ListInv, ListTypeOK
<1>2. whole' => whole
  BY <1>1, EndsAtBegin
<1>3. reused => reused'
  <2>1. \A c \in Caller : CallerStep(c) \/ Answer(c) => (reused => reused')
    BY DEF CallerStep, Lookup, Miss, ReturnHit, Request, Respond, ReturnRequested, Answer
  <2>2. Walking \/ SlotStep \/ RunStep \/ UNCHANGED vars => reused' = reused
    BY DEF Walking, SlotStep, Copy, Move, Destroy, RunStep, RunBegin, RunKeep, RunUnused, RunLock,
           RunErase, RunAborts, RunEnd, vars, storeVars
  <2> QED BY <2>1, <2>2 DEF Next
<1> SUFFICES ASSUME Reliable' PROVE Lifetimes'
  BY DEF LifeInv
<1>4. whole /\ ~reused /\ ~reused' /\ Lifetimes
  BY <1>2, <1>3 DEF LifeInv, Reliable
<1> QED BY <1>4, NextLifetimes

LEMMA LifeInvariance == Spec => [](StoreInv /\ LifeInv)
<1>1. Init => LifeInv
  BY InitLifetimes DEF LifeInv
<1> QED BY <1>1, NextLifeInv, StoreInvariance, PTL DEF Spec

(* As long as no lookup has returned an element it has found, and no pass  *)
(* has begun after an end of the list was erased, no MemberPtr and no      *)
(* iterator refers to an element that DataStore::run has erased, whichever *)
(* elements it erases.                                                     *)
THEOREM LifetimeSafety == Spec => []NoDangling
<1>1. StoreInv /\ LifeInv => NoDangling
  <2> SUFFICES ASSUME StoreInv, LifeInv PROVE NoDangling
    OBVIOUS
  <2>1. whole => it \in heap \cup {Null}
    BY StoreFacts
  <2>2. Reliable => MembersLive /\ CallerIterators
    BY DEF LifeInv, Lifetimes
  <2> QED BY <2>1, <2>2 DEF NoDangling, CallerIterators
<1> QED BY <1>1, LifeInvariance, PTL

(* Under the same condition use counters never fall below the number of    *)
(* MemberPtr objects, for every order of copies, moves, assignments and    *)
(* destructions.                                                           *)
THEOREM CountsCover == Spec => []CountCoversHolders
<1>1. LifeInv => CountCoversHolders
  BY DEF LifeInv, Lifetimes, Counted, CountCoversHolders
<1> QED BY <1>1, LifeInvariance, PTL

(* Under the same condition an element found unused before the mutex is    *)
(* taken is still unused when it is erased.                                *)
THEOREM UnusedStable == Spec => []StaysUnused
<1>1. LifeInv => StaysUnused
  BY ZeroUnheld DEF StaysUnused, LifeInv, Lifetimes, UnusedIsZero
<1> QED BY <1>1, LifeInvariance, PTL
=============================================================================
