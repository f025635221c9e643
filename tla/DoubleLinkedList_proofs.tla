----------------------- MODULE DoubleLinkedList_proofs -----------------------
(***************************************************************************)
(* Until an end of the list is erased its pointers represent it, for any   *)
(* set of addresses and lists of any length: following mNext from mBegin   *)
(* meets the list and nothing else (WalkValue, by induction), hence what   *)
(* the pointers hold implements the abstract list, and ~DoubleLinkedList   *)
(* asserts nothing false.  What is left after an end was erased is told    *)
(* end by end: a pass and a search need no more than that.                 *)
(***************************************************************************)
EXTENDS ListWalk, SequenceLemmas, FiniteSetTheorems

(* Where the pass stands: what it has not seen lies from its iterator on.  *)
(* It erases the last element only as the last thing it does.              *)
PassPosition ==
    whole =>
        IF it = Null
        THEN unseen = {}
        ELSE /\ ~lastErased
             /\ \E p \in DOMAIN list :
                   /\ list[p] = it
                   /\ \A e \in unseen : \E j \in p .. Len(list) : list[j] = e

(* mEnd is null only before anything is emplaced; the first element, as    *)
(* long as it has not been erased, is in the list.                         *)
EndsLeft ==
    /\ lastErased => mEnd # Null
    /\ lastErased /\ ~firstErased => list # <<>>

ListInv == ListTypeOK /\ Represents /\ EndsLeft /\ PassPosition

USE ListAssumption DEF Address, BackLinked, Successor, Unlinked, BackUnlinked, Linked, ends

(* The list starts empty.                                                  *)
LEMMA InitListInv == ListInit => ListInv
<1> SUFFICES ASSUME ListInit PROVE ListInv
  OBVIOUS
<1>1. list = <<>> /\ list \in Seq(heap) /\ DOMAIN list = {}
  BY EmptySeq DEF ListInit
<1>2. ListTypeOK
  BY <1>1 DEF ListInit, ListTypeOK
<1>3. Represents
  BY <1>1 DEF ListInit, Represents, IsInjective
<1>4. PassPosition /\ EndsLeft
  BY DEF ListInit, PassPosition, EndsLeft
<1> QED BY <1>2, <1>3, <1>4 DEF ListInv

(* What the sequence facts say of a list that satisfies the invariant.     *)
LEMMA ListFacts ==
    ASSUME ListInv
    PROVE  /\ Len(list) \in Nat
           /\ DOMAIN list = 1 .. Len(list)
           /\ \A i \in 1 .. Len(list) : list[i] \in heap
           /\ \A i, j \in 1 .. Len(list) : list[i] = list[j] => i = j
           /\ \A e \in heap : \E i \in 1 .. Len(list) : list[i] = e
           /\ ToSet(list) = heap
           /\ list = <<>> <=> Len(list) = 0
<1>1. list \in Seq(heap)
  BY DEF ListInv, ListTypeOK
<1>2. Len(list) \in Nat /\ DOMAIN list = 1 .. Len(list)
  BY <1>1, LenProperties
<1>3. \A i \in 1 .. Len(list) : list[i] \in heap
  BY <1>1, ElementOfSeq
<1>4. \A i, j \in 1 .. Len(list) : list[i] = list[j] => i = j
  BY <1>2 DEF ListInv, Represents, IsInjective
<1>5. \A e \in heap : \E i \in 1 .. Len(list) : list[i] = e
  BY <1>2 DEF ListInv, Represents
<1>6. ToSet(list) = heap
  BY <1>2, <1>3, <1>5 DEF ToSet
<1>7. list = <<>> <=> Len(list) = 0
  BY <1>1, EmptySeq
<1> QED BY <1>2, <1>3, <1>4, <1>5, <1>6, <1>7

(* emplace_back links the new element behind the last one, unless that has *)
(* been erased.                                                            *)
LEMMA EmplaceBackListInv ==
    ASSUME ListInv, NEW e \in Element, EmplaceBack(e)
    PROVE  ListInv'
<1> DEFINE n == Len(list)
<1>a. n \in Nat /\ DOMAIN list = 1 .. n
  BY ListFacts
<1>b. \A i \in 1 .. n : list[i] \in heap
  BY ListFacts
<1>c. \A i, j \in 1 .. n : list[i] = list[j] => i = j
  BY ListFacts
<1>d. list = <<>> <=> n = 0
  BY ListFacts
<1>1. /\ list' \in Seq(heap')
      /\ IsInjective(list')
      /\ ToSet(list') = heap'
      /\ Len(list') = n + 1
      /\ \A i \in 1 .. n : list'[i] = list[i]
      /\ list'[n + 1] = e
  <2>1. list \in Seq(heap) /\ IsInjective(list) /\ e \notin ToSet(list)
    BY ListFacts DEF ListInv, ListTypeOK, Represents, EmplaceBack
  <2>2. heap' = heap \cup {e} /\ list' = Append(list, e) /\ ToSet(list) = heap
    BY ListFacts DEF EmplaceBack
  <2>3. /\ Append(list, e) \in Seq(heap \cup {e})
        /\ IsInjective(Append(list, e))
        /\ ToSet(Append(list, e)) = ToSet(list) \cup {e}
        /\ Len(Append(list, e)) = Len(list) + 1
        /\ \A i \in 1 .. Len(list) : Append(list, e)[i] = list[i]
        /\ Append(list, e)[Len(list) + 1] = e
    BY <2>1, AppendDistinct
  <2> QED BY <2>2, <2>3
<1> HIDE DEF n
<1>2. DOMAIN list' = 1 .. n + 1
  BY <1>1, LenProperties
<1>3. list' # <<>>
  BY <1>1, <1>2, <1>a, EmptySeq
<1>4. ~lastErased => mEnd = IF n = 0 THEN Null ELSE list[n]
  BY <1>d DEF ListInv, Represents, n
<1>5. ~lastErased => (mEnd # Null <=> n # 0)
  BY <1>4, <1>a, <1>b DEF ListInv, ListTypeOK
<1>6. mBegin' = IF mEnd = Null THEN e ELSE mBegin
  BY DEF EmplaceBack
<1>7. ~firstErased => mBegin' = list'[1]
  <2>1. ASSUME ~firstErased, n = 0 PROVE mBegin' = list'[1]
    <3>1. mEnd = Null
      BY <2>1, <1>d, <1>5 DEF ListInv, EndsLeft
    <3> QED BY <2>1, <3>1, <1>1, <1>6, <1>a
  <2>2. ASSUME ~firstErased, n # 0 PROVE mBegin' = list'[1]
    <3>1. mBegin = list[1] /\ list'[1] = list[1]
      BY <2>2, <1>1, <1>a, <1>d DEF ListInv, Represents
    <3>2. mEnd # Null
      BY <2>2, <1>5 DEF ListInv, EndsLeft
    <3> QED BY <3>1, <3>2, <1>6
  <2> QED BY <2>1, <2>2
<1>8. mEnd' = e /\ mEnd' = list'[Len(list')] /\ e \in heap' /\ list'[1] \in heap'
  <2>1. 1 \in 1 .. n + 1
    BY <1>a
  <2>2. list'[1] \in heap'
    BY <2>1, <1>1, <1>2, ElementOfSeq
  <2> QED BY <2>2, <1>1, <1>a DEF EmplaceBack
<1>9. ListTypeOK'
  <2>1. mPrev' \in [Element -> Address] /\ mNext' \in [Element -> Address]
    BY DEF ListInv, ListTypeOK, EmplaceBack
  <2>2. mBegin' \in Address
    BY <1>6 DEF ListInv, ListTypeOK
  <2>3. heap' = heap \cup {e} /\ UNCHANGED <<it, unseen, firstErased, lastErased, whole>>
    BY DEF EmplaceBack
  <2> QED BY <2>1, <2>2, <2>3, <1>1, <1>7, <1>8 DEF ListInv, ListTypeOK
<1>10. Represents'
  <2>1. \A x \in heap' : \E i \in DOMAIN list' : list'[i] = x
    BY <1>1 DEF ToSet
  <2>2. UNCHANGED <<firstErased, lastErased>>
    BY DEF EmplaceBack
  <2>3. ASSUME ~lastErased, NEW i \in 1 .. n + 1
        PROVE  /\ mPrev'[list'[i]] = IF i = 1 THEN Null ELSE list'[i - 1]
               /\ mNext'[list'[i]] = IF i = n + 1 THEN Null ELSE list'[i + 1]
    <3>1. mPrev \in [Element -> Address] /\ mNext \in [Element -> Address]
      BY DEF ListInv, ListTypeOK
    <3>2. CASE i = n + 1
      <4>1. mPrev'[e] = mEnd /\ mNext'[e] = Null
        <5>1. mEnd # e
          BY DEF ListInv, ListTypeOK, EmplaceBack
        <5>2. mNext'[e] = Null
          BY <3>1, <5>1 DEF EmplaceBack
        <5> QED BY <3>1, <5>2 DEF EmplaceBack
      <4>2. mEnd = IF i = 1 THEN Null ELSE list'[i - 1]
        BY <3>2, <1>1, <1>4, <2>3, <1>a
      <4> QED BY <4>1, <4>2, <3>2, <1>1, <1>a
    <3>3. CASE i \in 1 .. n
      <4> DEFINE x == list[i]
      <4>1. x \in heap /\ x # e /\ x \in Element /\ list'[i] = x
        BY <3>3, <1>1, <1>b DEF ListInv, ListTypeOK, EmplaceBack
      <4>2. mPrev'[x] = mPrev[x] /\ mPrev[x] = IF i = 1 THEN Null ELSE list[i - 1]
        BY <2>3, <3>1, <3>3, <4>1, <1>a DEF EmplaceBack, ListInv, Represents
      <4>3. i # 1 => list'[i - 1] = list[i - 1]
        BY <3>3, <1>1, <1>a
      <4>4. mNext[x] = IF i = n THEN Null ELSE list[i + 1]
        BY <2>3, <3>3, <1>a DEF ListInv, Represents, n
      <4>5. CASE i = n
        <5>1. mEnd = x /\ mEnd # Null
          BY <2>3, <4>5, <3>3, <1>4, <1>5, <1>a
        <5>2. mNext'[x] = e
          BY <5>1, <4>1, <3>1 DEF EmplaceBack
        <5> QED BY <5>2, <4>1, <4>2, <4>3, <4>5, <1>1, <1>a
      <4>6. CASE i # n
        <5>1. mEnd # x
          BY <4>6, <3>3, <1>4, <2>3, <1>a, <1>c
        <5>2. mNext'[x] = mNext[x]
          BY <5>1, <4>1, <3>1 DEF EmplaceBack
        <5>3. list'[i + 1] = list[i + 1] /\ i # n + 1
          BY <3>3, <4>6, <1>1, <1>a
        <5> QED BY <5>2, <5>3, <4>1, <4>2, <4>3, <4>4, <4>6
      <4> QED BY <4>5, <4>6
    <3> QED BY <3>2, <3>3, <1>a
  <2> QED BY <1>1, <1>2, <1>3, <1>7, <1>8, <2>1, <2>2, <2>3 DEF Represents
<1>11. PassPosition'
  <2>1. CASE it = Null \/ ~whole
    BY <2>1 DEF ListInv, PassPosition, EmplaceBack
  <2>2. CASE it # Null /\ whole
    <3>1. PICK p \in 1 .. n : /\ list[p] = it
                              /\ \A u \in unseen : \E j \in p .. n : list[j] = u
      BY <2>2, <1>a DEF ListInv, PassPosition, n
    <3>2. p \in DOMAIN list' /\ list'[p] = it'
      BY <3>1, <1>1, <1>2, <1>a DEF EmplaceBack
    <3>3. \A u \in unseen' : \E j \in p .. Len(list') : list'[j] = u
      BY <3>1, <1>1, <1>a DEF EmplaceBack
    <3>4. ~lastErased' /\ it' # Null
      BY <2>2 DEF ListInv, PassPosition, EmplaceBack
    <3> QED BY <3>2, <3>3, <3>4 DEF PassPosition
  <2> QED BY <2>1, <2>2
<1>12. EndsLeft'
  BY <1>3, <1>8 DEF EndsLeft, EmplaceBack
<1> QED BY <1>9, <1>10, <1>11, <1>12 DEF ListInv

(* begin() starts the pass at the first element, where nothing is behind.  *)
LEMMA BeginListInv ==
    ASSUME ListInv, Begin
    PROVE  ListInv'
<1> USE ListFacts
<1>1. ListTypeOK'
  <2>1. ToSet(list) \subseteq Element
    BY DEF ListInv, ListTypeOK
  <2> QED BY <2>1 DEF ListInv, ListTypeOK, Begin, Intact
<1>2. Represents' /\ EndsLeft'
  BY DEF ListInv, Represents, EndsLeft, Begin
<1>3. ASSUME Intact PROVE PassPosition'
  <2>1. CASE list = <<>>
    <3>1. mBegin = Null /\ ToSet(list) = {}
      BY <1>3, <2>1 DEF ListInv, Represents, Intact
    <3> QED BY <3>1 DEF PassPosition, Begin
  <2>2. CASE list # <<>>
    <3>1. 1 \in DOMAIN list /\ mBegin = list[1] /\ mBegin # Null
      <4>1. 1 \in DOMAIN list /\ list[1] \in heap
        BY <2>2
      <4>2. mBegin = list[1]
        BY <1>3, <2>2 DEF ListInv, Represents, Intact
      <4>3. heap \subseteq Element
        BY DEF ListInv, ListTypeOK
      <4> QED BY <4>1, <4>2, <4>3
    <3>2. \A e \in ToSet(list) : \E j \in 1 .. Len(list) : list[j] = e
      OBVIOUS
    <3> QED BY <1>3, <3>1, <3>2 DEF PassPosition, Begin, Intact
  <2> QED BY <2>1, <2>2
<1>4. ~Intact => PassPosition'
  BY DEF PassPosition, Begin
<1> QED BY <1>1, <1>2, <1>3, <1>4 DEF ListInv

(* Where the iterator of a pass that began with both ends stands           *)
LEMMA PassStands ==
    ASSUME ListInv, whole, it # Null
    PROVE  /\ ~lastErased
           /\ \E p \in 1 .. Len(list) :
                 /\ list[p] = it
                 /\ mNext[it] = IF p = Len(list) THEN Null ELSE list[p + 1]
                 /\ \A u \in unseen : \E j \in p .. Len(list) : list[j] = u
<1> USE ListFacts
<1>1. ~lastErased
  BY DEF ListInv, PassPosition
<1>2. PICK p \in 1 .. Len(list) :
            /\ list[p] = it
            /\ \A u \in unseen : \E j \in p .. Len(list) : list[j] = u
  BY DEF ListInv, PassPosition
<1>3. mNext[it] = IF p = Len(list) THEN Null ELSE list[p + 1]
  BY <1>1, <1>2 DEF ListInv, Represents
<1> QED BY <1>1, <1>2, <1>3

(* ++it leaves exactly the visited element behind.                         *)
LEMMA AdvanceListInv ==
    ASSUME ListInv, Advance
    PROVE  ListInv'
<1> USE ListFacts
<1>1. UNCHANGED <<heap, mPrev, mNext, ends, list, whole>> /\ unseen' = unseen \ {it} /\ it # Null
  BY DEF Advance
<1>2. it' \in Address
  BY DEF Advance, ListInv, ListTypeOK
<1>3. ASSUME whole PROVE PassPosition' /\ it' \in heap \cup {Null}
  <2>1. PICK p \in 1 .. Len(list) :
              /\ list[p] = it
              /\ mNext[it] = IF p = Len(list) THEN Null ELSE list[p + 1]
              /\ \A u \in unseen : \E j \in p .. Len(list) : list[j] = u
    BY <1>1, <1>3, PassStands
  <2>2. it' = mNext[it] /\ ~lastErased'
    <3>1. it \in heap /\ ~lastErased
      BY <1>1, <1>3, <2>1, PassStands
    <3> QED BY <1>1, <3>1 DEF Advance
  <2>3. CASE p = Len(list)
    <3>1. unseen' = {} /\ it' = Null
      BY <1>1, <2>1, <2>2, <2>3
    <3> QED BY <3>1 DEF PassPosition
  <2>4. CASE p # Len(list)
    <3>1. p + 1 \in 1 .. Len(list) /\ it' = list[p + 1] /\ it' # Null /\ it' \in heap
      BY <2>1, <2>2, <2>4 DEF ListInv, ListTypeOK
    <3>2. \A u \in unseen' : \E j \in p + 1 .. Len(list) : list[j] = u
      <4> TAKE u \in unseen'
      <4>1. u \in unseen /\ u # it
        BY <1>1
      <4>2. PICK j \in p .. Len(list) : list[j] = u
        BY <4>1, <2>1
      <4>3. j # p
        BY <4>1, <4>2, <2>1
      <4> QED BY <4>2, <4>3
    <3> QED BY <1>1, <2>2, <3>1, <3>2 DEF PassPosition
  <2> QED BY <2>3, <2>4
<1>4. ListTypeOK'
  BY <1>1, <1>2, <1>3 DEF ListInv, ListTypeOK
<1>5. Represents' /\ EndsLeft'
  BY <1>1 DEF ListInv, Represents, EndsLeft
<1>6. PassPosition'
  BY <1>1, <1>3 DEF PassPosition
<1> QED BY <1>4, <1>5, <1>6 DEF ListInv

(* erase links the neighbours of an element to each other.  What is left   *)
(* is a list with both its chains, unless the element was the last.        *)
LEMMA EraseLinks ==
    ASSUME ListInv, NEW i \in DOMAIN list, Erase(i), ~lastErased, i # Len(list),
           NEW n, n = Len(list), Len(list') = n - 1,
           \A j \in 1 .. n - 1 : list'[j] = IF j < i THEN list[j] ELSE list[j + 1]
    PROVE  \A j \in 1 .. n - 1 :
              /\ mPrev'[list'[j]] = IF j = 1 THEN Null ELSE list'[j - 1]
              /\ mNext'[list'[j]] = IF j = n - 1 THEN Null ELSE list'[j + 1]
<1> DEFINE at(j) == IF j < i THEN j ELSE j + 1
<1>a. n \in Nat /\ DOMAIN list = 1 .. n
  BY ListFacts
<1>b. \A j \in 1 .. n : list[j] \in heap
  BY ListFacts
<1>c. \A j, k \in 1 .. n : list[j] = list[k] => j = k
  BY ListFacts
<1>d. mPrev \in [Element -> Address] /\ mNext \in [Element -> Address] /\ heap \subseteq Element
  BY DEF ListInv, ListTypeOK
<1>1. i \in 1 .. n /\ i # n /\ list[i] = it /\ it \in heap
  BY <1>a DEF Erase
<1>2. i + 1 \in 1 .. n /\ i \in Nat /\ i >= 1
  BY <1>1, <1>a
<1>3. \A j \in 1 .. n : /\ mPrev[list[j]] = IF j = 1 THEN Null ELSE list[j - 1]
                        /\ mNext[list[j]] = IF j = n THEN Null ELSE list[j + 1]
  BY <1>a DEF ListInv, Represents
<1>4. /\ mNext[it] = list[i + 1] /\ list[i + 1] \in heap
      /\ mPrev[it] = IF i = 1 THEN Null ELSE list[i - 1]
  BY <1>1, <1>2, <1>3, <1>b
<1>5. \A j \in 1 .. n - 1 : list'[j] = list[at(j)]
  OBVIOUS
<1>e. \A j \in 1 .. n - 1 : at(j) \in 1 .. n /\ at(j) # i
  BY <1>a, <1>2
<1>6. ASSUME NEW k \in 1 .. n, k # i
      PROVE  /\ mPrev'[list[k]] = IF k = i + 1 THEN mPrev[it] ELSE mPrev[list[k]]
             /\ mNext'[list[k]] = IF k = i - 1 THEN mNext[it] ELSE mNext[list[k]]
  <2>1. list[k] \in heap /\ list[k] # it /\ list[k] \in Element /\ list[k] # Null
    BY <1>6, <1>1, <1>b, <1>c, <1>d
  <2>2. list[k] = mNext[it] <=> k = i + 1
    BY <1>2, <1>4, <1>c
  <2>3. list[k] = mPrev[it] <=> k = i - 1
    <3>1. CASE i = 1
      <4>1. mPrev[it] = Null /\ k # i - 1
        BY <3>1, <1>4
      <4> QED BY <4>1, <2>1
    <3>2. CASE i # 1
      <4>1. mPrev[it] = list[i - 1] /\ i - 1 \in 1 .. n
        BY <3>2, <1>1, <1>2, <1>4, <1>a
      <4> QED BY <4>1, <1>c
    <3> QED BY <3>1, <3>2
  <2>4. mPrev'[list[k]] = BackUnlinked[list[k]] /\ mNext'[list[k]] = Unlinked[list[k]]
    BY <2>1, <1>d DEF Erase
  <2>5. BackUnlinked[list[k]] = IF k = i + 1 THEN mPrev[it] ELSE mPrev[list[k]]
    BY <2>1, <2>2, <1>4, <1>d
  <2>6. Unlinked[list[k]] = IF k = i - 1 THEN mNext[it] ELSE mNext[list[k]]
    BY <2>1, <2>3, <1>d
  <2> QED BY <2>4, <2>5, <2>6
<1> SUFFICES ASSUME NEW j \in 1 .. n - 1
             PROVE  /\ mPrev'[list'[j]] = IF j = 1 THEN Null ELSE list'[j - 1]
                    /\ mNext'[list'[j]] = IF j = n - 1 THEN Null ELSE list'[j + 1]
  OBVIOUS
<1> DEFINE k == at(j)
           x == list[k]
<1>7. k \in 1 .. n /\ k # i /\ list'[j] = x
  BY <1>5, <1>e
<1>8. /\ mPrev'[x] = IF k = i + 1 THEN mPrev[it] ELSE mPrev[x]
      /\ mNext'[x] = IF k = i - 1 THEN mNext[it] ELSE mNext[x]
  <2> HIDE DEF at
  <2> QED BY <1>6, <1>7
<1>9. /\ mPrev[x] = IF k = 1 THEN Null ELSE list[k - 1]
      /\ mNext[x] = IF k = n THEN Null ELSE list[k + 1]
  BY <1>3, <1>7
<1>10. mPrev'[x] = IF j = 1 THEN Null ELSE list'[j - 1]
  <2>1. CASE j = 1 /\ i = 1
    <3>1. k = i + 1
      BY <2>1
    <3> QED BY <2>1, <3>1, <1>4, <1>8
  <2>2. CASE j = 1 /\ i # 1
    <3>1. k = 1 /\ k # i + 1
      BY <2>2, <1>2
    <3> QED BY <2>2, <3>1, <1>8, <1>9
  <2>3. CASE j # 1 /\ k = i + 1
    <3>1. j = i /\ j - 1 \in 1 .. n - 1 /\ at(j - 1) = i - 1 /\ i # 1
      BY <2>3, <1>1, <1>2, <1>a
    <3>2. list'[j - 1] = list[i - 1]
      BY <3>1, <1>5
    <3> QED BY <2>3, <3>1, <3>2, <1>4, <1>8
  <2>4. CASE j # 1 /\ k # i + 1
    <3>1. j - 1 \in 1 .. n - 1 /\ at(j - 1) = k - 1 /\ k # 1
      BY <2>4, <1>1, <1>2, <1>a
    <3>2. list'[j - 1] = list[k - 1]
      BY <3>1, <1>5
    <3> QED BY <2>4, <3>1, <3>2, <1>8, <1>9
  <2> QED BY <2>1, <2>2, <2>3, <2>4
<1>11. mNext'[x] = IF j = n - 1 THEN Null ELSE list'[j + 1]
  <2>1. CASE j = n - 1
    <3>1. k = n /\ k # i - 1
      BY <2>1, <1>1, <1>2, <1>a
    <3> QED BY <2>1, <3>1, <1>8, <1>9
  <2>2. CASE j # n - 1 /\ k = i - 1
    <3>1. j = i - 1 /\ j + 1 \in 1 .. n - 1 /\ at(j + 1) = i + 1
      BY <2>2, <1>1, <1>2, <1>a
    <3>2. list'[j + 1] = list[i + 1]
      BY <3>1, <1>5
    <3> QED BY <2>2, <3>2, <1>4, <1>8
  <2>3. CASE j # n - 1 /\ k # i - 1
    <3>1. j + 1 \in 1 .. n - 1 /\ at(j + 1) = k + 1 /\ k # n
      BY <2>3, <1>1, <1>2, <1>a
    <3>2. list'[j + 1] = list[k + 1]
      BY <3>1, <1>5
    <3> QED BY <2>3, <3>1, <3>2, <1>8, <1>9
  <2> QED BY <2>1, <2>2, <2>3
<1> QED BY <1>7, <1>10, <1>11

LEMMA EraseListInv ==
    ASSUME ListInv, NEW i \in DOMAIN list, Erase(i)
    PROVE  ListInv'
<1> DEFINE n == Len(list)
<1>a. n \in Nat /\ DOMAIN list = 1 .. n
  BY ListFacts
<1>b. \A j \in 1 .. n : list[j] \in heap
  BY ListFacts
<1>c. \A j, k \in 1 .. n : list[j] = list[k] => j = k
  BY ListFacts
<1>d. list = <<>> <=> n = 0
  BY ListFacts
<1>1. i \in 1 .. n /\ list[i] = it /\ it \in heap /\ it # Null
  BY <1>a DEF Erase, ListInv, ListTypeOK
<1>2. /\ list' \in Seq(heap')
      /\ IsInjective(list')
      /\ ToSet(list') = heap'
      /\ Len(list') = n - 1
      /\ \A j \in 1 .. n - 1 : list'[j] = IF j < i THEN list[j] ELSE list[j + 1]
  <2>1. list \in Seq(heap) /\ IsInjective(list)
    BY DEF ListInv, ListTypeOK, Represents
  <2>2. heap' = heap \ {list[i]} /\ list' = RemoveAt(list, i) /\ ToSet(list) = heap
    BY <1>1, ListFacts DEF Erase
  <2>3. /\ list' \in Seq(heap')
        /\ IsInjective(list')
        /\ ToSet(list') = heap'
    BY <2>1, <2>2, <1>1, RemoveAtDistinct
  <2>4. /\ Len(list') = n - 1
        /\ \A j \in 1 .. n - 1 : list'[j] = IF j < i THEN list[j] ELSE list[j + 1]
    BY <2>1, <2>2, <1>1, RemoveAtProperties
  <2> QED BY <2>3, <2>4
<1>3. ~lastErased /\ i # n =>
         \A j \in 1 .. n - 1 :
            /\ mPrev'[list'[j]] = IF j = 1 THEN Null ELSE list'[j - 1]
            /\ mNext'[list'[j]] = IF j = n - 1 THEN Null ELSE list'[j + 1]
  BY <1>2, EraseLinks
<1>4. DOMAIN list' = 1 .. n - 1 /\ (list' = <<>> <=> n - 1 = 0)
  BY <1>2, LenProperties, EmptySeq
<1>5. /\ UNCHANGED <<mBegin, mEnd, whole>>
      /\ heap' = heap \ {it} /\ it' = mNext[it] /\ unseen' = unseen \ {it}
      /\ firstErased' = (firstErased \/ i = 1)
      /\ lastErased' = (lastErased \/ i = n)
  BY DEF Erase
<1> HIDE DEF n
<1>6. mPrev \in [Element -> Address] /\ mNext \in [Element -> Address] /\ heap \subseteq Element
  BY DEF ListInv, ListTypeOK
<1>7. ASSUME ~firstErased'
      PROVE  mBegin' = list[1] /\ mBegin' = list'[1] /\ mBegin' \in heap' /\ n - 1 # 0
  <2>1. ~firstErased /\ i # 1
    BY <1>5, <1>7
  <2>2. n # 0 /\ n # 1 /\ 1 \in 1 .. n - 1 /\ 1 < i /\ 1 \in 1 .. n
    BY <2>1, <1>1, <1>a
  <2>3. mBegin' = list[1]
    BY <2>1, <2>2, <1>5, <1>d DEF ListInv, Represents
  <2>4. list[1] # it /\ list[1] \in heap
    BY <2>1, <2>2, <1>1, <1>b, <1>c
  <2>5. list'[1] = list[1] /\ n - 1 # 0
    BY <2>2, <1>2, <1>a
  <2> QED BY <2>3, <2>4, <2>5, <1>5
<1>8. ASSUME ~lastErased'
      PROVE  mEnd' = list[n] /\ mEnd' = list'[n - 1] /\ mEnd' \in heap' /\ n - 1 # 0
  <2>1. ~lastErased /\ i # n
    BY <1>5, <1>8
  <2>2. n # 0 /\ n # 1 /\ n - 1 \in 1 .. n - 1 /\ ~(n - 1 < i) /\ n \in 1 .. n /\ (n - 1) + 1 = n
    BY <2>1, <1>1, <1>a
  <2>3. mEnd' = list[n]
    BY <2>1, <2>2, <1>5, <1>d DEF ListInv, Represents, n
  <2>4. list[n] # it /\ list[n] \in heap
    BY <2>1, <2>2, <1>1, <1>b, <1>c
  <2>5. list'[n - 1] = list[n]
    BY <2>2, <1>2
  <2> QED BY <2>2, <2>3, <2>4, <2>5, <1>5
<1>9. ASSUME whole
      PROVE  /\ ~lastErased
             /\ it' = IF i = n THEN Null ELSE list[i + 1]
             /\ it' \in heap' \cup {Null}
             /\ \A u \in unseen : \E j \in i .. n : list[j] = u
  <2>1. PICK p \in 1 .. n : /\ list[p] = it
                            /\ mNext[it] = IF p = n THEN Null ELSE list[p + 1]
                            /\ \A u \in unseen : \E j \in p .. n : list[j] = u
    BY <1>1, <1>9, PassStands DEF n
  <2>2. p = i
    BY <2>1, <1>1, <1>c
  <2>3. ~lastErased
    BY <1>1, <1>9, PassStands
  <2>4. it' = IF i = n THEN Null ELSE list[i + 1]
    BY <2>1, <2>2, <1>5
  <2>5. i # n => i + 1 \in 1 .. n /\ i + 1 # i
    BY <1>1, <1>a
  <2>6. i # n => list[i + 1] \in heap'
    BY <2>5, <1>1, <1>5, <1>b, <1>c
  <2> QED BY <2>1, <2>2, <2>3, <2>4, <2>6
<1>10. ListTypeOK'
  <2>1. Unlinked \in [Element -> Address] /\ BackUnlinked \in [Element -> Address]
    <3>1. mPrev[it] \in Address /\ mNext[it] \in Address
      BY <1>1, <1>6
    <3>2. Unlinked \in [Element -> Address]
      BY <3>1, <1>6
    <3>3. BackUnlinked \in [Element -> Address]
      BY <3>1, <1>6
    <3> QED BY <3>2, <3>3
  <2>2. mPrev' \in [Element -> Address] /\ mNext' \in [Element -> Address]
    BY <2>1 DEF Erase
  <2>3. it' \in Address
    BY <1>1, <1>5, <1>6
  <2>4. firstErased' \in BOOLEAN /\ lastErased' \in BOOLEAN /\ whole' \in BOOLEAN
    BY <1>5 DEF ListInv, ListTypeOK
  <2>5. mBegin' \in Address /\ mEnd' \in Address /\ unseen' \subseteq Element
    BY <1>5 DEF ListInv, ListTypeOK
  <2>6. heap' \subseteq Element
    BY <1>5, <1>6
  <2>7. list' \in Seq(heap')
    BY <1>2
  <2>8. /\ firstErased' \/ mBegin' \in heap' \cup {Null}
        /\ lastErased' \/ mEnd' \in heap' \cup {Null}
        /\ whole' => it' \in heap' \cup {Null}
    BY <1>5, <1>7, <1>8, <1>9
  <2> QED BY <2>2, <2>3, <2>4, <2>5, <2>6, <2>7, <2>8 DEF ListTypeOK
<1>11. Represents'
  <2>1. \A x \in heap' : \E j \in DOMAIN list' : list'[j] = x
    BY <1>2 DEF ToSet
  <2>2. ~lastErased' => ~lastErased /\ i # n
    BY <1>5
  <2> QED BY <1>2, <1>3, <1>4, <1>7, <1>8, <2>1, <2>2 DEF Represents
<1>12. PassPosition'
  <2> SUFFICES ASSUME whole' PROVE PassPosition'
    BY DEF PassPosition
  <2>1. CASE i = n
    <3>1. \A u \in unseen : u = it
      BY <2>1, <1>1, <1>5, <1>9, <1>a
    <3>2. unseen' = {} /\ it' = Null
      BY <2>1, <3>1, <1>5, <1>9
    <3> QED BY <3>2 DEF PassPosition
  <2>2. CASE i # n
    <3>1. i \in 1 .. n - 1 /\ ~(i < i)
      BY <2>2, <1>1, <1>a
    <3>2. list'[i] = it' /\ i \in DOMAIN list' /\ ~lastErased'
      BY <2>2, <3>1, <1>2, <1>4, <1>5, <1>9
    <3>3. \A u \in unseen' : \E j \in i .. Len(list') : list'[j] = u
      <4> TAKE u \in unseen'
      <4>1. u \in unseen /\ u # it
        BY <1>5
      <4>2. PICK j \in i .. n : list[j] = u
        BY <4>1, <1>5, <1>9
      <4>3. j # i
        BY <4>1, <4>2, <1>1
      <4>4. j - 1 \in i .. n - 1 /\ j - 1 \in 1 .. n - 1 /\ ~(j - 1 < i) /\ (j - 1) + 1 = j
        BY <4>2, <4>3, <1>1, <1>a
      <4>5. list'[j - 1] = list[j]
        BY <4>4, <1>2
      <4> QED BY <4>2, <4>4, <4>5, <1>2
    <3>4. it' # Null
      BY <2>2, <1>5, <1>9, <1>1, <1>a, <1>b, <1>6
    <3> QED BY <3>2, <3>3, <3>4 DEF PassPosition
  <2> QED BY <2>1, <2>2
<1>13. EndsLeft'
  <2>1. lastErased' => mEnd' # Null
    <3>1. CASE lastErased
      BY <3>1, <1>5 DEF ListInv, EndsLeft
    <3>2. CASE ~lastErased
      <4>1. n # 0 /\ n \in 1 .. n
        BY <1>1, <1>a
      <4>2. mEnd = list[n]
        BY <3>2, <4>1, <1>d DEF ListInv, Represents, n
      <4> QED BY <4>1, <4>2, <1>5, <1>6, <1>b
    <3> QED BY <3>1, <3>2
  <2>2. ~firstErased' => list' # <<>>
    BY <1>4, <1>7
  <2> QED BY <2>1, <2>2 DEF EndsLeft
<1> QED BY <1>10, <1>11, <1>12, <1>13 DEF ListInv

(* ListInv is preserved by every step, and by none that changes nothing.   *)
LEMMA NextListInv == ListInv /\ [ListNext]_listVars => ListInv'
<1> SUFFICES ASSUME ListInv, [ListNext]_listVars PROVE ListInv'
  OBVIOUS
<1>1. ASSUME NEW e \in Element, EmplaceBack(e) PROVE ListInv'
  BY <1>1, EmplaceBackListInv
<1>2. CASE Begin
  BY <1>2, BeginListInv
<1>3. CASE Advance
  BY <1>3, AdvanceListInv
<1>4. ASSUME NEW i \in DOMAIN list, Erase(i) PROVE ListInv'
  BY <1>4, EraseListInv
<1>5. CASE UNCHANGED listVars
  BY <1>5 DEF listVars, ListInv, ListTypeOK, Represents, EndsLeft, PassPosition
<1> QED BY <1>1, <1>2, <1>3, <1>4, <1>5 DEF ListNext

(* The invariant of the list: what emplace_back and erase keep.            *)
LEMMA ListInvariance == ListSpec => []ListInv
<1>1. ListInv /\ [ListNext]_listVars => ListInv'
  BY NextListInv
<1> QED BY <1>1, InitListInv, PTL DEF ListSpec

(* As long as an end has not been erased, no pointer to it dangles, nor    *)
(* does the iterator of a pass that began with both: they are null or the  *)
(* address of an element that has not been deleted.                        *)
THEOREM TypeCorrect == ListSpec => []ListTypeOK
<1>1. ListInv => ListTypeOK
  BY DEF ListInv
<1> QED BY <1>1, ListInvariance, PTL

(* Whatever is emplaced and erased, the set of allocated elements is the   *)
(* list and each end is in place until it is erased; both chains are kept  *)
(* by every erase but that of the last element.                            *)
THEOREM Representation == ListSpec => []Represents
<1>1. ListInv => Represents
  BY DEF ListInv
<1> QED BY <1>1, ListInvariance, PTL

(* A pass of DataStore::run that began with both ends and has come to      *)
(* end() has visited all it had to visit, whatever was emplaced meanwhile  *)
(* and whatever it has erased itself, the ends included.                   *)
THEOREM PassComplete == ListSpec => []PassVisitsAll
<1>1. ListInv => PassVisitsAll
  BY DEF ListInv, PassPosition, PassVisitsAll
<1> QED BY <1>1, ListInvariance, PTL

-----------------------------------------------------------------------------
(* What the n-th round of the loop of ~DoubleLinkedList finds              *)
Found(n) == IF n < Len(list) THEN list[n + 1] ELSE Null

(* With both ends in place, following mNext from mBegin meets the list,    *)
(* element by element, and nothing behind it.                              *)
LEMMA WalkValue ==
    ASSUME ListInv, Intact
    PROVE  \A n \in Nat : Walk[n] = Found(n)
<1> DEFINE k == Len(list)
           round(w) == [n \in Nat |->
                          IF n = 0 THEN mBegin
                          ELSE IF w[n - 1] = Null THEN Null ELSE mNext[w[n - 1]]]
           g == [n \in Nat |-> Found(n)]
<1>a. k \in Nat /\ \A i \in 1 .. k : list[i] \in heap
  BY ListFacts
<1>b. Null \notin heap
  BY DEF ListInv, ListTypeOK
<1>c. mBegin = IF k = 0 THEN Null ELSE list[1]
  BY ListFacts DEF ListInv, Represents, Intact
<1>d. \A i \in 1 .. k : mNext[list[i]] = IF i = k THEN Null ELSE list[i + 1]
  BY ListFacts DEF ListInv, Represents, Intact
<1>e. \A n \in Nat : g[n] = IF n < k THEN list[n + 1] ELSE Null
  BY DEF Found
<1> HIDE DEF k, g
<1>1. ASSUME NEW n \in Nat PROVE round(g)[n] = g[n]
  <2>1. CASE n = 0
    BY <2>1, <1>a, <1>c, <1>e
  <2>2. CASE n # 0 /\ n - 1 < k
    <3>1. n \in 1 .. k /\ n - 1 \in Nat /\ (n - 1) + 1 = n
      BY <2>2, <1>a
    <3>2. g[n - 1] = list[n] /\ g[n - 1] # Null
      BY <3>1, <2>2, <1>a, <1>b, <1>e
    <3>3. g[n] = IF n = k THEN Null ELSE list[n + 1]
      BY <3>1, <1>a, <1>e
    <3> QED BY <2>2, <3>1, <3>2, <3>3, <1>d
  <2>3. CASE n # 0 /\ ~(n - 1 < k)
    <3>1. n - 1 \in Nat /\ ~(n < k)
      BY <2>3, <1>a
    <3> QED BY <2>3, <3>1, <1>e
  <2> QED BY <2>1, <2>2, <2>3
<1>2. round(g) = g
  <2>1. g = [n \in Nat |-> g[n]]
    BY DEF g
  <2>2. round(g) = [n \in Nat |-> round(g)[n]]
    OBVIOUS
  <2> HIDE DEF round
  <2> QED BY <2>1, <2>2, <1>1, Zenon
<1>3. Walk = round(Walk)
  <2>1. \E w : w = round(w)
    BY <1>2
  <2> QED BY <2>1, Zenon DEF Walk
<1> HIDE DEF round
<1> DEFINE T == {n \in Nat : Walk[n] = g[n]}
<1>4. 0 \in T
  <2>1. Walk[0] = round(Walk)[0] /\ g[0] = round(g)[0]
    BY <1>2, <1>3, Zenon
  <2>2. round(Walk)[0] = mBegin /\ round(g)[0] = mBegin
    BY DEF round
  <2> QED BY <2>1, <2>2
<1>5. ASSUME NEW n \in T PROVE n + 1 \in T
  <2>1. Walk[n + 1] = round(Walk)[n + 1] /\ g[n + 1] = round(g)[n + 1]
    BY <1>2, <1>3, Zenon
  <2>2. n + 1 \in Nat /\ n + 1 # 0 /\ (n + 1) - 1 = n /\ Walk[n] = g[n]
    OBVIOUS
  <2>3. round(Walk)[n + 1] = round(g)[n + 1]
    BY <2>2 DEF round
  <2> QED BY <2>1, <2>2, <2>3
<1>6. T = Nat
  <2> HIDE DEF T
  <2>1. T \in SUBSET Nat
    BY DEF T
  <2> QED BY <1>4, <1>5, <2>1, NatInductionSet
<1> QED BY <1>6 DEF g

(* There are as many elements as the list is long, and following mNext     *)
(* lists them.                                                             *)
LEMMA ContentsValue == ListInv /\ Intact => Contents = list
<1> SUFFICES ASSUME ListInv, Intact PROVE Contents = list
  OBVIOUS
<1> DEFINE k == Len(list)
<1>1. k \in Nat /\ list \in Seq(heap) /\ DOMAIN list = 1 .. k
  BY ListFacts DEF ListInv, ListTypeOK
<1>2. Cardinality(heap) = k
  <2>1. list \in [1 .. k -> heap]
    BY <1>1, LenProperties
  <2>2. list \in Bijection(1 .. k, heap)
    <3>1. \A i, j \in 1 .. k : list[i] = list[j] => i = j
      BY ListFacts
    <3>2. \A e \in heap : \E i \in 1 .. k : list[i] = e
      BY ListFacts
    <3> HIDE DEF k
    <3> QED BY <2>1, <3>1, <3>2 DEF Bijection, Injection, Surjection, IsInjective
  <2>3. ExistsBijection(1 .. k, heap)
    BY <2>2 DEF ExistsBijection
  <2> HIDE DEF k
  <2> QED BY <1>1, <2>3, FS_CountingElements
<1>3. ASSUME NEW i \in 1 .. k PROVE Walk[i - 1] = list[i]
  <2>1. i - 1 \in Nat /\ i - 1 < k /\ (i - 1) + 1 = i
    BY <1>1
  <2>2. Walk[i - 1] = Found(i - 1)
    BY <2>1, WalkValue
  <2> QED BY <2>1, <2>2 DEF Found
<1>4. list = [i \in 1 .. k |-> list[i]]
  BY <1>1, LenProperties
<1> HIDE DEF k
<1> QED BY <1>2, <1>3, <1>4, Zenon DEF Contents

(* Until an end is erased, emplace_back and erase make of the pointers,    *)
(* followed from mBegin, what the abstract list says of its elements.      *)
THEOREM PointerRefinement == ListSpec => ImplementsMemberList
<1>1. ListInit => Pointers!Init
  BY InitListInv, ContentsValue DEF ListInit, Intact, Pointers!Init
<1>2. ListInv /\ ListInv' /\ [ListNext]_listVars => (Intact' => [Pointers!Next]_Contents)
  <2> SUFFICES ASSUME ListInv, ListInv', [ListNext]_listVars, Intact'
               PROVE  [Pointers!Next]_Contents
    OBVIOUS
  <2>1. Intact
    <3>1. CASE \E e \in Element : EmplaceBack(e)
      BY <3>1 DEF Intact, EmplaceBack
    <3>2. CASE \E i \in DOMAIN list : Erase(i)
      BY <3>2 DEF Intact, Erase
    <3>3. CASE Begin \/ Advance \/ UNCHANGED listVars
      BY <3>3 DEF Intact, Begin, Advance, listVars
    <3> QED BY <3>1, <3>2, <3>3 DEF ListNext
  <2>2. Contents = list
    BY <2>1, ContentsValue
  <2>3. (ListInv /\ Intact => Contents = list)'
    BY ContentsValue, PTL
  <2>4. Contents' = list'
    BY <2>3
  <2> HIDE DEF Contents
  <2>5. ASSUME NEW e \in Element, EmplaceBack(e) PROVE Pointers!Next
    <3>1. e \notin ToSet(list) /\ list' = Append(list, e)
      BY <2>5, ListFacts DEF EmplaceBack
    <3> QED BY <2>2, <2>4, <3>1 DEF ToSet, Pointers!Next, Pointers!EmplaceBack, Pointers!ToSet
  <2>6. ASSUME NEW i \in DOMAIN list, Erase(i) PROVE Pointers!Next
    BY <2>2, <2>4, <2>6 DEF Erase, RemoveAt, Pointers!Next, Pointers!Erase, Pointers!RemoveAt
  <2>7. CASE Begin \/ Advance \/ UNCHANGED listVars
    BY <2>2, <2>4, <2>7 DEF Begin, Advance, listVars
  <2> QED BY <2>5, <2>6, <2>7 DEF ListNext
<1>3. ListInv /\ ListInv' /\ [ListNext]_listVars => [Intact' => [Pointers!Next]_Contents]_listVars
  BY <1>2
<1> QED BY <1>1, <1>3, ListInvariance, PTL DEF ListSpec, ImplementsMemberList

(* The three assertions of ~DoubleLinkedList hold as long as neither end   *)
(* was erased: what breaks them is only that erase leaves mBegin and mEnd  *)
(* behind.                                                                 *)
THEOREM DestructorHolds == ListSpec => [](Intact => DestructorAsserts)
<1>1. ASSUME ListInv, Intact PROVE DestructorAsserts
  <2> DEFINE k == Len(list)
  <2>1. k \in Nat /\ \A i \in 1 .. k : list[i] \in heap
    BY <1>1, ListFacts
  <2>2. Null \notin heap
    BY <1>1 DEF ListInv, ListTypeOK
  <2>3. mBegin = Null => mEnd = Null
    BY <1>1, <2>1, <2>2, ListFacts DEF ListInv, Represents, Intact
  <2>4. \A i \in 1 .. k : mPrev[list[i]] = IF i = 1 THEN Null ELSE list[i - 1]
    BY <1>1, ListFacts DEF ListInv, Represents, Intact
  <2>5. k # 0 => mEnd = list[k]
    BY <1>1, ListFacts DEF ListInv, Represents, Intact
  <2>6. \A n \in Nat : Walk[n] = IF n < k THEN list[n + 1] ELSE Null
    BY <1>1, WalkValue DEF Found
  <2> HIDE DEF k
  <2>7. ASSUME NEW n \in 0 .. Cardinality(Element), Walk[n] \in heap
        PROVE  IF Walk[n + 1] = Null THEN Walk[n] = mEnd
               ELSE Walk[n + 1] \in heap => mPrev[Walk[n + 1]] = Walk[n]
    <3>1. n \in Nat /\ n + 1 \in Nat
      OBVIOUS
    <3>2. n < k /\ Walk[n] = list[n + 1]
      BY <2>2, <2>7, <2>6, <3>1
    <3>3. Walk[n + 1] = IF n + 1 < k THEN list[n + 2] ELSE Null
      <4>1. (n + 1) + 1 = n + 2
        BY <3>1
      <4> QED BY <2>6, <3>1, <4>1
    <3>4. CASE n + 1 < k
      <4>1. n + 2 \in 1 .. k /\ n + 2 # 1 /\ (n + 2) - 1 = n + 1
        BY <2>1, <3>1, <3>4
      <4>2. mPrev[list[n + 2]] = list[n + 1] /\ list[n + 2] # Null
        BY <2>1, <2>2, <2>4, <4>1
      <4> QED BY <3>2, <3>3, <3>4, <4>2
    <3>5. CASE ~(n + 1 < k)
      <4>1. k = n + 1
        BY <2>1, <3>1, <3>2, <3>5
      <4> QED BY <2>5, <3>1, <3>2, <3>3, <3>5, <4>1
    <3> QED BY <3>4, <3>5
  <2> QED BY <2>3, <2>7 DEF DestructorAsserts
<1> QED BY <1>1, ListInvariance, PTL

-----------------------------------------------------------------------------
(* Where a search stands: what it looks for lies from its iterator on.     *)
Ahead ==
    \A s \in sought :
        \E i, j \in 1 .. Len(list) : i <= j /\ list[i] = finder /\ list[j] = s

SearchInv ==
    /\ search \in {"idle", "walking", "found", "missed"}
    /\ finder \in Address
    /\ sought \subseteq heap
    /\ strayed \in BOOLEAN
    /\ ~strayed => finder \in heap \cup {Null}
    /\ search = "walking" /\ ~strayed /\ ~lastErased => Ahead
    /\ FindComplete

WalkInv == ListInv /\ SearchInv

-----------------------------------------------------------------------------
LEMMA InitWalkInv == WalkInit => WalkInv
  BY InitListInv DEF WalkInit, WalkInv, SearchInv, FindComplete

LEMMA WalkStepsAreListSteps == [WalkNext]_<<listVars, walkVars>> => [ListNext]_listVars
  BY DEF WalkNext, Find, FindBegin, FindEnds, FindNext, FindReturns, Beside

LEMMA FindKeeps ==
    ASSUME WalkInv, Find
    PROVE  SearchInv'
<1> USE DEF WalkInv
<1>a. /\ Len(list) \in Nat
      /\ \A i \in 1 .. Len(list) : list[i] \in heap
      /\ \A e \in heap : \E i \in 1 .. Len(list) : list[i] = e
      /\ ToSet(list) = heap
      /\ heap \subseteq Element /\ Null \notin heap
      /\ mNext \in [Element -> Address] /\ mBegin \in Address
  BY ListFacts, ListAssumption DEF ListInv, ListTypeOK
<1>b. UNCHANGED <<list, heap, lastErased>>
  BY DEF Find, FindBegin, FindEnds, FindNext, FindReturns, listVars
<1>1. ASSUME NEW elements, FindBegin(elements) PROVE SearchInv'
  <2>1. /\ elements \subseteq heap /\ sought' = elements /\ finder' = mBegin
        /\ search' = "walking" /\ strayed' = firstErased
    BY <1>1, <1>a DEF FindBegin
  <2>2. firstErased \in BOOLEAN /\ (~firstErased => mBegin \in heap \cup {Null})
    BY DEF ListInv, ListTypeOK
  <2>3. ASSUME ~firstErased PROVE Ahead'
    <3>1. SUFFICES ASSUME NEW s \in sought'
                   PROVE  \E i, j \in 1 .. Len(list) : i <= j /\ list[i] = finder' /\ list[j] = s
      BY <1>b DEF Ahead
    <3>2. PICK j \in 1 .. Len(list) : list[j] = s
      BY <1>a, <2>1, <3>1
    <3>3. 1 \in 1 .. Len(list) /\ 1 <= j /\ list # <<>>
      BY <1>a, <3>2, ListFacts
    <3>4. mBegin = list[1]
      BY <2>3, <3>3 DEF ListInv, Represents
    <3> QED BY <2>1, <3>2, <3>3, <3>4
  <2> QED BY <1>a, <1>b, <2>1, <2>2, <2>3 DEF SearchInv, FindComplete
<1>2. CASE FindEnds
  <2>1. ASSUME finder = Null, ~strayed, ~lastErased, sought # {} PROVE FALSE
    BY <1>2, <1>a, <2>1 DEF FindEnds, SearchInv, Ahead
  <2>2. /\ UNCHANGED <<finder, sought, strayed>>
        /\ search' = IF finder = Null THEN "missed" ELSE "found"
    BY <1>2 DEF FindEnds
  <2> QED BY <1>b, <2>1, <2>2 DEF SearchInv, FindComplete
<1>3. CASE FindNext
  <2>1. /\ search = "walking" /\ search' = search /\ sought' = sought
        /\ strayed' = (strayed \/ finder' \notin heap \cup {Null})
        /\ finder # Null /\ finder \notin sought
        /\ finder' = mNext[finder] \/ finder \notin heap
        /\ finder' \in Address
    BY <1>3, <1>a DEF FindNext
  <2>2. ASSUME ~strayed, ~lastErased PROVE Ahead'
    <3>1. SUFFICES ASSUME NEW s \in sought
                   PROVE  \E i, j \in 1 .. Len(list) : i <= j /\ list[i] = finder' /\ list[j] = s
      BY <1>b, <2>1 DEF Ahead
    <3>2. PICK i, j \in 1 .. Len(list) : i <= j /\ list[i] = finder /\ list[j] = s
      BY <2>1, <2>2, <3>1 DEF SearchInv, Ahead
    <3>3. i # j /\ finder \in heap
      BY <1>a, <2>1, <3>1, <3>2
    <3>4. mNext[list[i]] = IF i = Len(list) THEN Null ELSE list[i + 1]
      BY <2>2, <3>2, ListFacts DEF ListInv, Represents
    <3>5. i + 1 \in 1 .. Len(list) /\ i + 1 <= j /\ i # Len(list)
      BY <1>a, <3>2, <3>3
    <3>6. finder' = list[i + 1]
      BY <2>1, <3>2, <3>3, <3>4, <3>5
    <3> QED BY <3>2, <3>5, <3>6
  <2>3. strayed' \in BOOLEAN /\ (~strayed' => ~strayed /\ finder' \in heap \cup {Null})
    BY <2>1
  <2> QED BY <1>b, <2>1, <2>2, <2>3 DEF SearchInv, FindComplete
<1>4. CASE FindReturns
  BY <1>4, <1>b DEF FindReturns, SearchInv, FindComplete
<1> QED BY <1>1, <1>2, <1>3, <1>4 DEF Find

(* Neither emplacing behind the search nor erasing elsewhere moves what is *)
(* sought in front of the iterator.                                        *)
LEMMA StaysAhead ==
    ASSUME ListInv, ListNext, NEW n, n = Len(list), NEW s \in heap', NEW f \in heap',
           NEW p \in 1 .. n, NEW q \in 1 .. n, p <= q, list[p] = f, list[q] = s
    PROVE  \E i, j \in 1 .. Len(list') : i <= j /\ list'[i] = f /\ list'[j] = s
<1>a. n \in Nat /\ list \in Seq(heap)
  BY ListFacts DEF ListInv, ListTypeOK
<1>1. CASE \E e \in Element : EmplaceBack(e)
  <2>1. PICK e \in Element : list' = Append(list, e)
    BY <1>1 DEF EmplaceBack
  <2>2. list \in Seq(Element) /\ heap \subseteq Element
    <3>1. heap \subseteq Element
      BY DEF ListInv, ListTypeOK
    <3> QED BY <1>a, <3>1
  <2>3. Len(list') = n + 1 /\ \A i \in 1 .. n : list'[i] = list[i]
    BY <2>1, <2>2, <1>a
  <2> QED BY <1>a, <2>3
<1>2. CASE \E i \in DOMAIN list : Erase(i)
  <2>1. PICK i \in 1 .. n : /\ list[i] = it /\ list' = RemoveAt(list, i)
                            /\ heap' = heap \ {it}
    BY <1>2, ListFacts DEF Erase
  <2>2. p # i /\ q # i
    BY <2>1
  <2>3. /\ Len(list') = n - 1
        /\ \A j \in 1 .. n - 1 : list'[j] = IF j < i THEN list[j] ELSE list[j + 1]
    BY <1>a, <2>1, RemoveAtProperties
  <2> DEFINE at(j) == IF j < i THEN j ELSE j - 1
  <2>4. \A j \in 1 .. n : j # i => at(j) \in 1 .. n - 1 /\ list'[at(j)] = list[j]
    BY <1>a, <2>1, <2>3
  <2>5. at(p) <= at(q)
    BY <1>a, <2>1, <2>2
  <2> HIDE DEF at
  <2> QED BY <2>2, <2>3, <2>4, <2>5
<1>3. CASE Begin \/ Advance
  BY <1>3 DEF Begin, Advance
<1> QED BY <1>1, <1>2, <1>3 DEF ListNext

LEMMA BesideKeeps ==
    ASSUME WalkInv, Beside
    PROVE  SearchInv'
<1> USE DEF WalkInv
<1>1. /\ sought' = sought \cap heap'
      /\ strayed' = (strayed \/ finder \notin heap' \cup {Null})
      /\ finder' = finder /\ search' = search
      /\ ListNext
  BY DEF Beside, Disturbed
<1>2. lastErased => lastErased'
  <2>1. CASE \E i \in DOMAIN list : Erase(i)
    BY <2>1 DEF Erase
  <2>2. CASE (\E e \in Element : EmplaceBack(e)) \/ Begin \/ Advance
    BY <2>2 DEF EmplaceBack, Begin, Advance
  <2> QED BY <1>1, <2>1, <2>2 DEF ListNext
<1>3. ASSUME search = "walking", ~strayed', ~lastErased' PROVE Ahead'
  <2>1. ~strayed /\ finder \in heap' \cup {Null} /\ Ahead
    BY <1>1, <1>2, <1>3 DEF SearchInv
  <2>2. SUFFICES ASSUME NEW s \in sought'
                 PROVE  \E i, j \in 1 .. Len(list') : i <= j /\ list'[i] = finder /\ list'[j] = s
    BY <1>1 DEF Ahead
  <2>3. s \in sought /\ s \in heap'
    BY <1>1, <2>2
  <2>4. PICK p, q \in 1 .. Len(list) : p <= q /\ list[p] = finder /\ list[q] = s
    BY <2>1, <2>3 DEF Ahead
  <2>5. finder \in heap'
    <3>1. finder \in heap
      BY <2>4, ListFacts
    <3>2. finder # Null
      BY <3>1, ListAssumption DEF ListInv, ListTypeOK
    <3> QED BY <2>1, <3>2
  <2> QED BY <1>1, <2>3, <2>4, <2>5, StaysAhead
<1>4. ~strayed' => finder' \in heap' \cup {Null}
  BY <1>1
<1>5. sought' \subseteq heap' /\ strayed' \in BOOLEAN
  BY <1>1 DEF SearchInv
<1>6. FindComplete'
  BY <1>1, <1>2 DEF SearchInv, FindComplete
<1> QED BY <1>1, <1>3, <1>4, <1>5, <1>6 DEF SearchInv

(* What the list and a search beside it keep between them.                 *)
LEMMA NextWalkInv == WalkInv /\ [WalkNext]_<<listVars, walkVars>> => WalkInv'
<1> SUFFICES ASSUME WalkInv, [WalkNext]_<<listVars, walkVars>> PROVE WalkInv'
  OBVIOUS
<1>1. ListInv'
  BY WalkStepsAreListSteps, NextListInv DEF WalkInv
<1>2. CASE UNCHANGED <<listVars, walkVars>>
  BY <1>1, <1>2 DEF WalkInv, SearchInv, FindComplete, Ahead, listVars, walkVars
<1> QED BY <1>1, <1>2, FindKeeps, BesideKeeps DEF WalkNext, WalkInv

LEMMA WalkInvariance == WalkSpec => []WalkInv
<1>1. WalkInv /\ [WalkNext]_<<listVars, walkVars>> => WalkInv'
  BY NextWalkInv
<1> QED BY <1>1, InitWalkInv, PTL DEF WalkSpec

(* The list, the pass and a search beside it have their types; a search    *)
(* that has not been led astray rests on an element that is still in use.  *)
THEOREM WalkTypeCorrect == WalkSpec => []WalkTypeOK
<1>1. WalkInv => WalkTypeOK
  BY DEF WalkInv, ListInv, SearchInv, WalkTypeOK
<1> QED BY <1>1, WalkInvariance, PTL

(* As long as the last element has not been erased, find misses an element *)
(* that stays in the list only if its iterator rested on one that was      *)
(* erased, be it the first.                                                *)
THEOREM FindMissesOnlyAstray == WalkSpec => []FindComplete
<1>1. WalkInv => FindComplete
  BY DEF WalkInv, SearchInv
<1> QED BY <1>1, WalkInvariance, PTL
=============================================================================
