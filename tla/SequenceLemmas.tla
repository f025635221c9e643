--------------------------- MODULE SequenceLemmas ---------------------------
(***************************************************************************)
(* Facts that several proofs rest on: induction over the natural numbers,  *)
(* and sequences without duplicates, the shape of the element lists of the *)
(* data store.                                                             *)
(***************************************************************************)
EXTENDS Integers, Sequences, SequencesExt, SequenceTheorems, WellFoundedInduction, TLAPS

(* Induction, for sets instead of predicates: what holds zero and the      *)
(* successor of each of its elements holds every number.                   *)
LEMMA NatInductionSet ==
    ASSUME NEW T \in SUBSET Nat, 0 \in T, \A n \in T : n + 1 \in T
    PROVE  T = Nat
<1> SUFFICES ASSUME T # Nat PROVE FALSE
  OBVIOUS
<1> DEFINE R == {p \in Nat \X Nat : p[1] < p[2]}
           U == Nat \ T
<1>1. IsWellFoundedOn(R, Nat)
  <2>1. ~ \E g \in [Nat -> Nat] : \A n \in Nat : <<g[n + 1], g[n]>> \in R
    BY NatLessThanWellFounded DEF IsWellFoundedOn, OpToRel
  <2> HIDE DEF R
  <2> QED BY <2>1 DEF IsWellFoundedOn
<1>2. U \subseteq Nat /\ U # {}
  OBVIOUS
<1>3. PICK x \in U : \A y \in U : <<y, x>> \notin R
  <2> HIDE DEF R, U
  <2> QED BY <1>1, <1>2, WFMin
<1>4. x # 0 /\ x \in Nat /\ x \notin T
  OBVIOUS
<1>5. x - 1 \in Nat /\ <<x - 1, x>> \in R
  BY <1>4
<1>6. x - 1 \in T
  BY <1>3, <1>5
<1>7. (x - 1) + 1 \in T
  BY <1>6
<1> QED BY <1>4, <1>7

(* Induction up to a number                                                *)
LEMMA IntervalInduction ==
    ASSUME NEW n \in Nat, NEW T, 0 \in T, \A i \in 0 .. n - 1 : i \in T => i + 1 \in T
    PROVE  0 .. n \subseteq T
<1> DEFINE U == {i \in Nat : i > n \/ i \in T}
<1>1. U = Nat
  <2>1. U \in SUBSET Nat /\ 0 \in U
    OBVIOUS
  <2>2. ASSUME NEW i \in U PROVE i + 1 \in U
    OBVIOUS
  <2> HIDE DEF U
  <2> QED BY <2>1, <2>2, NatInductionSet
<1> QED BY <1>1

(* A set of numbers has a least one.                                       *)
LEMMA LeastElement ==
    ASSUME NEW S \in SUBSET Nat, S # {}
    PROVE  \E x \in S : \A y \in S : x <= y
<1> SUFFICES ASSUME \A x \in S : \E y \in S : ~(x <= y) PROVE FALSE
  OBVIOUS
<1> DEFINE T == {n \in Nat : \A y \in S : n <= y}
<1>1. T \in SUBSET Nat /\ 0 \in T
  OBVIOUS
<1>2. ASSUME NEW n \in T PROVE n + 1 \in T
  <2>1. n \notin S
    OBVIOUS
  <2> QED BY <2>1
<1>3. T = Nat
  <2> HIDE DEF T
  <2> QED BY <1>1, <1>2, NatInductionSet
<1>4. PICK x \in S : TRUE
  OBVIOUS
<1> QED BY <1>3, <1>4

(* The values of a recursion of n steps, of which step i maps a value of X *)
(* to a value of X, and that there is such a function                      *)
IsRecursion(F, n, base, step) == F[0] = base /\ \A i \in 1 .. n : F[i] = step[i][F[i - 1]]
HasRecursion(n, X, base, step) == \E F \in [0 .. n -> X] : IsRecursion(F, n, base, step)

LEMMA RecursionExists ==
    ASSUME NEW n \in Nat, NEW X, NEW base \in X, NEW step \in [1 .. n -> [X -> X]]
    PROVE  HasRecursion(n, X, base, step)
<1> DEFINE T == {m \in 0 .. n :
                    \E F \in [0 .. m -> X] :
                       F[0] = base /\ \A i \in 1 .. m : F[i] = step[i][F[i - 1]]}
<1>1. 0 \in T
  <2> DEFINE F == [i \in 0 .. 0 |-> base]
  <2>1. F \in [0 .. 0 -> X] /\ F[0] = base
    OBVIOUS
  <2>2. \A i \in 1 .. 0 : F[i] = step[i][F[i - 1]]
    OBVIOUS
  <2> HIDE DEF F
  <2>3. \E G \in [0 .. 0 -> X] :
           G[0] = base /\ \A i \in 1 .. 0 : G[i] = step[i][G[i - 1]]
    BY <2>1, <2>2
  <2> QED BY <2>3
<1>2. ASSUME NEW m \in 0 .. n - 1, m \in T PROVE m + 1 \in T
  <2>1. PICK F \in [0 .. m -> X] :
           F[0] = base /\ \A i \in 1 .. m : F[i] = step[i][F[i - 1]]
    BY <1>2
  <2> DEFINE G == [i \in 0 .. m + 1 |-> IF i = m + 1 THEN step[m + 1][F[m]] ELSE F[i]]
  <2>2. m + 1 \in 1 .. n /\ F[m] \in X
    OBVIOUS
  <2>3. step[m + 1][F[m]] \in X
    BY <2>2
  <2>4. G \in [0 .. m + 1 -> X] /\ G[0] = base
    BY <2>1, <2>3
  <2>5. ASSUME NEW i \in 1 .. m + 1 PROVE G[i] = step[i][G[i - 1]]
    <3>1. CASE i = m + 1
      BY <3>1
    <3>2. CASE i \in 1 .. m
      <4>1. G[i] = F[i] /\ G[i - 1] = F[i - 1]
        BY <3>2
      <4> QED BY <3>2, <4>1, <2>1
    <3> QED BY <3>1, <3>2
  <2> HIDE DEF G
  <2> QED BY <2>2, <2>4, <2>5
<1>3. 0 .. n \subseteq T
  <2>1. \A m \in 0 .. n - 1 : m \in T => m + 1 \in T
    BY <1>2
  <2> HIDE DEF T
  <2> QED BY <1>1, <2>1, IntervalInduction
<1>4. n \in T
  BY <1>3
<1> QED BY <1>4 DEF HasRecursion, IsRecursion

(* Whatever follows the recursion as long as its values are in X stays     *)
(* in X.                                                                   *)
LEMMA RecursionType ==
    ASSUME NEW n \in Nat, NEW X, NEW f, f[0] \in X,
           \A i \in 1 .. n : f[i - 1] \in X => f[i] \in X
    PROVE  \A i \in 0 .. n : f[i] \in X
<1> DEFINE T == {i \in 0 .. n : f[i] \in X}
<1>1. 0 \in T
  OBVIOUS
<1>2. \A i \in 0 .. n - 1 : i \in T => i + 1 \in T
  <2> SUFFICES ASSUME NEW i \in 0 .. n - 1, f[i] \in X PROVE f[i + 1] \in X
    OBVIOUS
  <2>1. i + 1 \in 1 .. n /\ (i + 1) - 1 = i
    OBVIOUS
  <2> QED BY <2>1
<1>3. 0 .. n \subseteq T
  <2> HIDE DEF T
  <2> QED BY <1>1, <1>2, IntervalInduction
<1> QED BY <1>3

-----------------------------------------------------------------------------
(* RemoveAt (the erasure of an element) closes the gap and moves nothing   *)
(* else.                                                                   *)
LEMMA RemoveAtProperties ==
    ASSUME NEW S, NEW s \in Seq(S), NEW i \in 1 .. Len(s)
    PROVE  /\ RemoveAt(s, i) \in Seq(S)
           /\ Len(RemoveAt(s, i)) = Len(s) - 1
           /\ \A j \in 1 .. Len(s) - 1 :
                 RemoveAt(s, i)[j] = IF j < i THEN s[j] ELSE s[j + 1]
<1> DEFINE l == SubSeq(s, 1, i - 1)
           r == SubSeq(s, i + 1, Len(s))
<1>1. /\ l \in Seq(S)
      /\ Len(l) = i - 1
      /\ \A j \in 1 .. i - 1 : l[j] = s[j]
  BY SubSeqProperties, ElementOfSeq, LenProperties
<1>2. /\ r \in Seq(S)
      /\ Len(r) = Len(s) - i
      /\ \A j \in 1 .. Len(s) - i : r[j] = s[i + j]
  <2>1. \A j \in i + 1 .. Len(s) : s[j] \in S
    BY ElementOfSeq, LenProperties
  <2>2. i + 1 \in Int /\ Len(s) \in Int
    BY LenProperties
  <2> QED BY <2>1, <2>2, SubSeqProperties
<1>3. /\ l \o r \in Seq(S)
      /\ Len(l \o r) = Len(l) + Len(r)
      /\ \A j \in 1 .. Len(l) + Len(r) :
            (l \o r)[j] = IF j <= Len(l) THEN l[j] ELSE r[j - Len(l)]
  BY <1>1, <1>2, ConcatProperties
<1>4. RemoveAt(s, i) = l \o r
  BY DEF RemoveAt
<1>5. ASSUME NEW j \in 1 .. Len(s) - 1
      PROVE  (l \o r)[j] = IF j < i THEN s[j] ELSE s[j + 1]
  <2> HIDE DEF l, r
  <2>1. CASE j < i
    BY <2>1, <1>1, <1>2, <1>3, LenProperties
  <2>2. CASE ~(j < i)
    <3>1. (l \o r)[j] = r[j - (i - 1)]
      BY <2>2, <1>1, <1>2, <1>3, LenProperties
    <3>2. j - (i - 1) \in 1 .. Len(s) - i
      BY <2>2, LenProperties
    <3>3. r[j - (i - 1)] = s[i + (j - (i - 1))]
      BY <3>2, <1>2
    <3>4. i + (j - (i - 1)) = j + 1
      OBVIOUS
    <3> QED BY <2>2, <3>1, <3>3, <3>4
  <2> QED BY <2>1, <2>2
<1> HIDE DEF l, r
<1>6. Len(l) + Len(r) = Len(s) - 1
  BY <1>1, <1>2, LenProperties
<1> QED BY <1>3, <1>4, <1>5, <1>6

(* Erasing an element of a sequence without duplicates leaves the others,  *)
(* each once.                                                              *)
LEMMA RemoveAtDistinct ==
    ASSUME NEW S, NEW s \in Seq(S), NEW i \in 1 .. Len(s), IsInjective(s)
    PROVE  /\ RemoveAt(s, i) \in Seq(S \ {s[i]})
           /\ IsInjective(RemoveAt(s, i))
           /\ ToSet(RemoveAt(s, i)) = ToSet(s) \ {s[i]}
<1> DEFINE t == RemoveAt(s, i)
<1>1. /\ t \in Seq(S)
      /\ Len(t) = Len(s) - 1
      /\ \A j \in 1 .. Len(s) - 1 : t[j] = IF j < i THEN s[j] ELSE s[j + 1]
  BY RemoveAtProperties
<1> HIDE DEF t
<1>2. /\ Len(s) \in Nat
      /\ DOMAIN s = 1 .. Len(s)
      /\ DOMAIN t = 1 .. Len(s) - 1
      /\ \A j \in 1 .. Len(s) : s[j] \in S
  BY <1>1, LenProperties, ElementOfSeq
<1>3. IsInjective(t)
  <2> SUFFICES ASSUME NEW j \in 1 .. Len(s) - 1, NEW k \in 1 .. Len(s) - 1, t[j] = t[k]
               PROVE  j = k
    BY <1>2 DEF IsInjective
  <2> DEFINE at(n) == IF n < i THEN n ELSE n + 1
  <2>1. at(j) \in DOMAIN s /\ at(k) \in DOMAIN s
    BY <1>2
  <2>2. t[j] = s[at(j)] /\ t[k] = s[at(k)]
    BY <1>1
  <2>3. at(j) = at(k)
    BY <2>1, <2>2, IsInjective(s) DEF IsInjective
  <2> QED BY <2>3
<1>4. \A j \in 1 .. Len(s) - 1 : t[j] \in S \ {s[i]}
  <2> TAKE j \in 1 .. Len(s) - 1
  <2> DEFINE k == IF j < i THEN j ELSE j + 1
  <2>1. k \in DOMAIN s /\ k # i /\ i \in DOMAIN s
    BY <1>2
  <2>2. t[j] = s[k]
    BY <1>1
  <2> HIDE DEF k
  <2> QED BY <2>1, <2>2, <1>2 DEF IsInjective
<1>5. t \in Seq(S \ {s[i]})
  <2>1. t \in [1 .. Len(s) - 1 -> S \ {s[i]}]
    BY <1>1, <1>2, <1>4, LenProperties
  <2>2. Len(s) - 1 \in Nat
    BY <1>2
  <2> QED BY <2>1, <2>2, SeqDef
<1>6. ToSet(t) = ToSet(s) \ {s[i]}
  <2>1. ASSUME NEW x \in ToSet(t) PROVE x \in ToSet(s) \ {s[i]}
    <3>1. PICK j \in 1 .. Len(s) - 1 : x = t[j]
      BY <1>2 DEF ToSet
    <3>2. x = s[IF j < i THEN j ELSE j + 1]
      BY <1>1, <3>1
    <3>3. (IF j < i THEN j ELSE j + 1) \in DOMAIN s
      BY <1>2
    <3> QED BY <3>1, <3>2, <3>3, <1>4 DEF ToSet
  <2>2. ASSUME NEW x \in ToSet(s) \ {s[i]} PROVE x \in ToSet(t)
    <3>1. PICK j \in 1 .. Len(s) : x = s[j]
      BY <1>2 DEF ToSet
    <3>2. j # i
      BY <3>1
    <3>3. CASE j < i
      <4>1. j \in 1 .. Len(s) - 1 /\ t[j] = s[j]
        BY <3>3, <1>1, <1>2
      <4> QED BY <4>1, <3>1, <1>2 DEF ToSet
    <3>4. CASE j > i
      <4>1. j - 1 \in 1 .. Len(s) - 1 /\ ~(j - 1 < i) /\ (j - 1) + 1 = j
        BY <3>4, <1>2
      <4>2. t[j - 1] = s[j]
        BY <4>1, <1>1
      <4> QED BY <4>1, <4>2, <3>1, <1>2 DEF ToSet
    <3> QED BY <3>2, <3>3, <3>4
  <2> QED BY <2>1, <2>2
<1> QED BY <1>3, <1>5, <1>6 DEF t

(* Emplacing an element adds it to those of the sequence.                  *)
LEMMA AppendElements ==
    ASSUME NEW S, NEW s \in Seq(S), NEW e \in S
    PROVE  /\ Append(s, e) \in Seq(S)
           /\ ToSet(Append(s, e)) = ToSet(s) \cup {e}
<1> DEFINE t == Append(s, e)
<1>1. /\ t \in Seq(S)
      /\ Len(t) = Len(s) + 1
      /\ \A i \in 1 .. Len(s) : t[i] = s[i]
      /\ t[Len(s) + 1] = e
  BY AppendProperties
<1> HIDE DEF t
<1>2. /\ Len(s) \in Nat /\ DOMAIN s = 1 .. Len(s) /\ DOMAIN t = 1 .. Len(s) + 1
      /\ \A i \in DOMAIN t : i \in 1 .. Len(s) \/ i = Len(s) + 1
      /\ Len(s) + 1 \in DOMAIN t /\ DOMAIN s \subseteq DOMAIN t
  BY <1>1, LenProperties
<1> QED BY <1>1, <1>2 DEF ToSet, t

(* Emplacing an element that is not in the sequence keeps it free of       *)
(* duplicates.                                                             *)
LEMMA AppendDistinct ==
    ASSUME NEW S, NEW s \in Seq(S), NEW e, e \notin ToSet(s), IsInjective(s)
    PROVE  /\ Append(s, e) \in Seq(S \cup {e})
           /\ IsInjective(Append(s, e))
           /\ ToSet(Append(s, e)) = ToSet(s) \cup {e}
           /\ Len(Append(s, e)) = Len(s) + 1
           /\ \A i \in 1 .. Len(s) : Append(s, e)[i] = s[i]
           /\ Append(s, e)[Len(s) + 1] = e
<1> DEFINE t == Append(s, e)
<1>1. s \in Seq(S \cup {e})
  BY SeqMonotonic
<1>2. /\ t \in Seq(S \cup {e})
      /\ Len(t) = Len(s) + 1
      /\ \A i \in 1 .. Len(s) : t[i] = s[i]
      /\ t[Len(s) + 1] = e
  BY <1>1, AppendProperties
<1> HIDE DEF t
<1>3. Len(s) \in Nat /\ DOMAIN s = 1 .. Len(s) /\ DOMAIN t = 1 .. Len(s) + 1
  BY <1>2, LenProperties
<1>4. \A i \in 1 .. Len(s) : s[i] # e
  BY <1>3 DEF ToSet
<1>5. IsInjective(t)
  <2> SUFFICES ASSUME NEW i \in 1 .. Len(s) + 1, NEW j \in 1 .. Len(s) + 1, t[i] = t[j]
               PROVE  i = j
    BY <1>3 DEF IsInjective
  <2>1. CASE i \in 1 .. Len(s) /\ j \in 1 .. Len(s)
    BY <2>1, <1>2, <1>3 DEF IsInjective
  <2>2. CASE i = Len(s) + 1 \/ j = Len(s) + 1
    BY <2>2, <1>2, <1>3, <1>4
  <2> QED BY <2>1, <2>2, <1>3
<1>6. ToSet(t) = ToSet(s) \cup {e}
  <2>1. ASSUME NEW x \in ToSet(t) PROVE x \in ToSet(s) \cup {e}
    <3>1. PICK i \in 1 .. Len(s) + 1 : x = t[i]
      BY <1>3 DEF ToSet
    <3>2. CASE i \in 1 .. Len(s)
      BY <3>1, <3>2, <1>2, <1>3 DEF ToSet
    <3>3. CASE i = Len(s) + 1
      BY <3>1, <3>3, <1>2
    <3> QED BY <3>2, <3>3, <1>3
  <2>2. ASSUME NEW x \in ToSet(s) PROVE x \in ToSet(t)
    <3>1. PICK i \in 1 .. Len(s) : x = s[i]
      BY <1>3 DEF ToSet
    <3>2. i \in 1 .. Len(s) + 1 /\ x = t[i]
      BY <3>1, <1>2, <1>3
    <3> QED BY <3>2, <1>3 DEF ToSet
  <2>3. e \in ToSet(t)
    BY <1>2, <1>3 DEF ToSet
  <2> QED BY <2>1, <2>2, <2>3
<1> QED BY <1>2, <1>5, <1>6 DEF t

(* Without its last element a sequence without duplicates has the others.  *)
LEMMA FrontDistinct ==
    ASSUME NEW S, NEW s \in Seq(S), s # <<>>, IsInjective(s)
    PROVE  /\ Front(s) \in Seq(S)
           /\ IsInjective(Front(s))
           /\ ToSet(Front(s)) = ToSet(s) \ {Last(s)}
           /\ Last(s) \in ToSet(s) /\ Last(s) \in S
           /\ Len(Front(s)) = Len(s) - 1
<1>1. Len(s) \in Nat /\ Len(s) # 0 /\ DOMAIN s = 1 .. Len(s)
  BY LenProperties, EmptySeq
<1>2. Len(s) \in 1 .. Len(s)
  BY <1>1
<1>3. Front(s) = RemoveAt(s, Len(s))
  <2>1. SubSeq(s, Len(s) + 1, Len(s)) = <<>>
    BY <1>1, SubSeqEmpty
  <2>2. Front(s) \in Seq(S)
    <3>1. \A j \in 1 .. Len(s) - 1 : s[j] \in S
      BY <1>1, ElementOfSeq
    <3> QED BY <1>1, <3>1, SubSeqProperties DEF Front
  <2>3. Front(s) \o <<>> = Front(s)
    BY <2>2, ConcatEmptySeq
  <2> QED BY <2>1, <2>3 DEF RemoveAt, Front
<1>4. Last(s) = s[Len(s)]
  BY DEF Last
<1>5. Last(s) \in ToSet(s) /\ Last(s) \in S
  BY <1>1, <1>2, <1>4, ElementOfSeq DEF ToSet
<1>6. RemoveAt(s, Len(s)) \in Seq(S) /\ Len(RemoveAt(s, Len(s))) = Len(s) - 1
  BY <1>2, RemoveAtProperties
<1>7. /\ IsInjective(RemoveAt(s, Len(s)))
      /\ ToSet(RemoveAt(s, Len(s))) = ToSet(s) \ {s[Len(s)]}
  BY <1>2, RemoveAtDistinct
<1> QED BY <1>3, <1>4, <1>5, <1>6, <1>7

(* find_if and erase, where there is one such element                      *)
LEMMA RemoveFirstDistinct ==
    ASSUME NEW S, NEW s \in Seq(S), NEW e \in ToSet(s), IsInjective(s)
    PROVE  /\ RemoveFirst(s, e) \in Seq(S)
           /\ IsInjective(RemoveFirst(s, e))
           /\ ToSet(RemoveFirst(s, e)) = ToSet(s) \ {e}
           /\ Len(RemoveFirst(s, e)) = Len(s) - 1
<1>1. Len(s) \in Nat /\ DOMAIN s = 1 .. Len(s)
  BY LenProperties
<1>2. PICK i \in 1 .. Len(s) : s[i] = e
  BY <1>1 DEF ToSet
<1>3. {j \in 1 .. Len(s) : s[j] = e} = {i}
  BY <1>1, <1>2 DEF IsInjective
<1>4. RemoveFirst(s, e) = RemoveAt(s, i)
  <2>1. SelectInSeq(s, LAMBDA v : v = e) = Min({i})
    BY <1>3 DEF SelectInSeq
  <2>2. Min({i}) = i
    BY <1>2 DEF Min
  <2> QED BY <1>2, <2>1, <2>2 DEF RemoveFirst
<1>5. RemoveAt(s, i) \in Seq(S) /\ Len(RemoveAt(s, i)) = Len(s) - 1
  BY RemoveAtProperties
<1>6. IsInjective(RemoveAt(s, i)) /\ ToSet(RemoveAt(s, i)) = ToSet(s) \ {s[i]}
  BY RemoveAtDistinct
<1> QED BY <1>2, <1>4, <1>5, <1>6

(* The elements of two sequences, one after the other                      *)
LEMMA ConcatElements ==
    ASSUME NEW S, NEW s \in Seq(S), NEW t \in Seq(S)
    PROVE  /\ s \o t \in Seq(S)
           /\ Len(s \o t) = Len(s) + Len(t)
           /\ DOMAIN (s \o t) = 1 .. Len(s) + Len(t)
           /\ \A i \in DOMAIN (s \o t) :
                 \/ i \in DOMAIN s /\ (s \o t)[i] = s[i] /\ s[i] \in ToSet(s)
                 \/ /\ i - Len(s) \in DOMAIN t /\ (s \o t)[i] = t[i - Len(s)]
                    /\ t[i - Len(s)] \in ToSet(t)
           /\ ToSet(s \o t) = ToSet(s) \cup ToSet(t)
<1> DEFINE u == s \o t
<1>1. /\ u \in Seq(S) /\ Len(u) = Len(s) + Len(t)
      /\ \A i \in 1 .. Len(s) + Len(t) : u[i] = IF i <= Len(s) THEN s[i] ELSE t[i - Len(s)]
  BY ConcatProperties
<1> HIDE DEF u
<1>2. /\ Len(s) \in Nat /\ DOMAIN s = 1 .. Len(s)
      /\ Len(t) \in Nat /\ DOMAIN t = 1 .. Len(t)
      /\ DOMAIN u = 1 .. Len(s) + Len(t)
  BY <1>1, LenProperties
<1>3. ASSUME NEW i \in DOMAIN u
      PROVE  \/ i \in DOMAIN s /\ u[i] = s[i] /\ s[i] \in ToSet(s)
             \/ i - Len(s) \in DOMAIN t /\ u[i] = t[i - Len(s)] /\ t[i - Len(s)] \in ToSet(t)
  <2>1. CASE i <= Len(s)
    BY <2>1, <1>1, <1>2 DEF ToSet
  <2>2. CASE ~(i <= Len(s))
    BY <2>2, <1>1, <1>2 DEF ToSet
  <2> QED BY <2>1, <2>2
<1>4. ToSet(s) \subseteq ToSet(u)
  <2> SUFFICES ASSUME NEW i \in DOMAIN s PROVE s[i] \in ToSet(u)
    BY DEF ToSet
  <2>1. i \in DOMAIN u /\ u[i] = s[i]
    BY <1>1, <1>2
  <2> QED BY <2>1 DEF ToSet
<1>5. ToSet(t) \subseteq ToSet(u)
  <2> SUFFICES ASSUME NEW i \in DOMAIN t PROVE t[i] \in ToSet(u)
    BY DEF ToSet
  <2>1. Len(s) + i \in DOMAIN u /\ u[Len(s) + i] = t[i]
    BY <1>1, <1>2
  <2> QED BY <2>1 DEF ToSet
<1>6. ToSet(u) \subseteq ToSet(s) \cup ToSet(t)
  BY <1>3 DEF ToSet
<1> QED BY <1>1, <1>2, <1>3, <1>4, <1>5, <1>6 DEF u

(* ... are distinct if those of each are and they have none in common.     *)
LEMMA ConcatDistinct ==
    ASSUME NEW S, NEW s \in Seq(S), NEW t \in Seq(S), IsInjective(s), IsInjective(t),
           ToSet(s) \cap ToSet(t) = {}
    PROVE  IsInjective(s \o t)
<1> DEFINE u == s \o t
<1>1. /\ Len(s) \in Nat /\ DOMAIN u = 1 .. Len(s) + Len(t) /\ Len(t) \in Nat
      /\ \A i \in DOMAIN u :
            \/ i \in DOMAIN s /\ u[i] = s[i] /\ s[i] \in ToSet(s)
            \/ i - Len(s) \in DOMAIN t /\ u[i] = t[i - Len(s)] /\ t[i - Len(s)] \in ToSet(t)
  BY ConcatElements, LenProperties
<1> HIDE DEF u
<1>2. SUFFICES ASSUME NEW i \in DOMAIN u, NEW j \in DOMAIN u, u[i] = u[j] PROVE i = j
  BY DEF IsInjective, u
<1>3. CASE i \in DOMAIN s /\ u[i] = s[i] /\ s[i] \in ToSet(s)
  <2>1. j \in DOMAIN s /\ u[j] = s[j]
    BY <1>1, <1>2, <1>3
  <2> QED BY <1>2, <1>3, <2>1 DEF IsInjective
<1>4. CASE i - Len(s) \in DOMAIN t /\ u[i] = t[i - Len(s)] /\ t[i - Len(s)] \in ToSet(t)
  <2>1. j - Len(s) \in DOMAIN t /\ u[j] = t[j - Len(s)]
    BY <1>1, <1>2, <1>4
  <2>2. i - Len(s) = j - Len(s)
    BY <1>2, <1>4, <2>1 DEF IsInjective
  <2> QED BY <1>1, <2>2
<1> QED BY <1>1, <1>3, <1>4


(* FlattenSeq, from its values on the prefixes of a list of sequences      *)
LEMMA FlattenValue ==
    ASSUME NEW S, NEW s \in Seq(Seq(S)), Len(s) # 0, NEW g \in [1 .. Len(s) -> Seq(S)],
           g[1] = s[1], \A i \in 2 .. Len(s) : g[i] = g[i - 1] \o s[i]
    PROVE  FlattenSeq(s) = g[Len(s)]
<1> DEFINE n == Len(s)
           Def(f) == [i \in 1 .. n |-> IF i = 1 THEN s[i] ELSE f[i - 1] \o s[i]]
           F == CHOOSE f : f = Def(f)
<1>1. n \in Nat /\ n # 0
  BY LenProperties
<1>2. FlattenSeq(s) = F[n]
  BY <1>1 DEF FlattenSeq
<1>3. g \in [1 .. n -> Seq(S)] /\ g[1] = s[1] /\ \A i \in 2 .. n : g[i] = g[i - 1] \o s[i]
  OBVIOUS
<1> HIDE DEF n
<1>4. g = Def(g)
  <2>1. \A i \in 1 .. n : i = 1 \/ i \in 2 .. n
    BY <1>1
  <2>2. \A i \in 2 .. n : i # 1
    OBVIOUS
  <2>3. \A i \in 1 .. n : g[i] = IF i = 1 THEN s[i] ELSE g[i - 1] \o s[i]
    BY <1>3, <2>1, <2>2, Zenon
  <2>4. g = [i \in 1 .. n |-> g[i]]
    BY <1>3
  <2> QED BY <2>3, <2>4, Zenon
<1>5. F = Def(F)
  <2> HIDE DEF Def
  <2> QED BY <1>4
<1>6. \A i \in 1 .. n : F[i] = IF i = 1 THEN s[i] ELSE F[i - 1] \o s[i]
  <2> HIDE DEF F
  <2> QED BY <1>5, Zenon
<1> HIDE DEF F
<1> DEFINE T == {i \in 0 .. n : i = 0 \/ F[i] = g[i]}
<1>7. 0 \in T
  BY <1>1
<1>8. \A i \in 0 .. n - 1 : i \in T => i + 1 \in T
  <2> SUFFICES ASSUME NEW i \in 0 .. n - 1, i = 0 \/ F[i] = g[i] PROVE F[i + 1] = g[i + 1]
    BY <1>1
  <2>1. CASE i = 0
    <3>1. 0 + 1 = 1 /\ 1 \in 1 .. n
      BY <1>1
    <3>2. F[1] = s[1]
      BY <1>6, <3>1
    <3> QED BY <1>3, <2>1, <3>1, <3>2
  <2>2. CASE i # 0
    <3>1. i + 1 \in 1 .. n /\ i + 1 \in 2 .. n /\ i + 1 # 1 /\ (i + 1) - 1 = i
      BY <1>1, <2>2
    <3>2. F[i + 1] = F[i] \o s[i + 1]
      BY <1>6, <3>1
    <3>3. g[i + 1] = g[i] \o s[i + 1]
      BY <1>3, <3>1
    <3> QED BY <2>2, <3>2, <3>3
  <2> QED BY <2>1, <2>2
<1>9. 0 .. n \subseteq T
  <2> HIDE DEF T
  <2> QED BY <1>1, <1>7, <1>8, IntervalInduction
<1>10. n \in T
  BY <1>1, <1>9
<1>11. F[n] = g[n]
  BY <1>1, <1>10
<1> QED BY <1>2, <1>11 DEF n

(* If all of them are empty, or all but one                                *)
LEMMA FlattenEmpty ==
    ASSUME NEW S, NEW s \in Seq(Seq(S)), \A i \in DOMAIN s : s[i] = <<>>
    PROVE  FlattenSeq(s) = <<>>
<1>1. Len(s) \in Nat /\ DOMAIN s = 1 .. Len(s) /\ <<>> \in Seq(S)
  BY LenProperties, EmptySeq
<1>2. CASE Len(s) = 0
  <2>1. FlattenSeq(s) = s
    BY <1>2 DEF FlattenSeq
  <2> QED BY <1>2, <2>1, EmptySeq
<1>3. CASE Len(s) # 0
  <2> DEFINE g == [i \in 1 .. Len(s) |-> <<>>]
  <2>1. g \in [1 .. Len(s) -> Seq(S)] /\ 1 \in 1 .. Len(s) /\ Len(s) \in 1 .. Len(s)
    BY <1>1, <1>3
  <2>2. <<>> \o <<>> = <<>>
    BY <1>1, ConcatEmptySeq
  <2>3. \A i \in 2 .. Len(s) : g[i] = g[i - 1] \o s[i]
    <3> SUFFICES ASSUME NEW i \in 2 .. Len(s) PROVE g[i] = g[i - 1] \o s[i]
      OBVIOUS
    <3>1. i \in 1 .. Len(s) /\ i - 1 \in 1 .. Len(s)
      BY <1>1
    <3>2. s[i] = <<>>
      BY <1>1, <3>1
    <3>3. g[i] = <<>> /\ g[i - 1] = <<>>
      BY <3>1
    <3> QED BY <2>2, <3>2, <3>3
  <2>4. g[1] = s[1] /\ g[Len(s)] = <<>>
    BY <1>1, <2>1
  <2> HIDE DEF g
  <2>5. FlattenSeq(s) = g[Len(s)]
    BY <1>3, <2>1, <2>3, <2>4, FlattenValue
  <2> QED BY <2>4, <2>5
<1> QED BY <1>2, <1>3

LEMMA FlattenOne ==
    ASSUME NEW S, NEW s \in Seq(Seq(S)), NEW p \in DOMAIN s,
           \A i \in DOMAIN s : i # p => s[i] = <<>>
    PROVE  FlattenSeq(s) = s[p]
<1>1. /\ Len(s) \in Nat /\ DOMAIN s = 1 .. Len(s) /\ <<>> \in Seq(S)
      /\ \A i \in 1 .. Len(s) : s[i] \in Seq(S)
  BY LenProperties, EmptySeq, ElementOfSeq
<1> DEFINE n == Len(s)
           g == [i \in 1 .. n |-> IF i < p THEN <<>> ELSE s[p]]
<1>2. n \in Nat /\ p \in 1 .. n /\ n # 0 /\ 1 \in 1 .. n /\ n \in 1 .. n
  BY <1>1
<1>3. g \in [1 .. n -> Seq(S)]
  BY <1>1, <1>2
<1>4. <<>> \o <<>> = <<>> /\ s[p] \o <<>> = s[p] /\ <<>> \o s[p] = s[p]
  BY <1>1, <1>2, ConcatEmptySeq
<1>5. ASSUME NEW i \in 2 .. n PROVE g[i] = g[i - 1] \o s[i]
  <2>1. i \in 1 .. n /\ i - 1 \in 1 .. n
    BY <1>1
  <2>2. g[i] = (IF i < p THEN <<>> ELSE s[p]) /\ g[i - 1] = (IF i - 1 < p THEN <<>> ELSE s[p])
    BY <2>1
  <2>3. ASSUME i # p PROVE s[i] = <<>>
    BY <1>1, <2>1, <2>3
  <2>4. i \in Int /\ p \in Int
    BY <1>1, <1>2
  <2> HIDE DEF g, n
  <2>5. CASE i < p
    <3>1. i - 1 < p /\ i # p
      BY <2>4, <2>5
    <3> QED BY <1>4, <2>2, <2>3, <2>5, <3>1
  <2>6. CASE i = p
    <3>1. i - 1 < p /\ ~(i < p)
      BY <2>4, <2>6
    <3> QED BY <1>4, <2>2, <2>6, <3>1
  <2>7. CASE i > p
    <3>1. ~(i - 1 < p) /\ ~(i < p) /\ i # p
      BY <2>4, <2>7
    <3> QED BY <1>4, <2>2, <2>3, <3>1
  <2>8. i < p \/ i = p \/ i > p
    BY <2>4
  <2> QED BY <2>5, <2>6, <2>7, <2>8, Zenon
<1>6. g[1] = s[1] /\ g[n] = s[p]
  <2>1. g[1] = (IF 1 < p THEN <<>> ELSE s[p]) /\ g[n] = (IF n < p THEN <<>> ELSE s[p])
    BY <1>2
  <2>2. ~(n < p) /\ (1 < p \/ p = 1)
    BY <1>1, <1>2
  <2>3. ASSUME 1 < p PROVE s[1] = <<>>
    <3>1. 1 \in DOMAIN s /\ 1 # p
      BY <1>1, <1>2, <2>3
    <3> QED BY <3>1
  <2> HIDE DEF g, n
  <2> QED BY <2>1, <2>2, <2>3
<1> HIDE DEF g
<1>7. FlattenSeq(s) = g[n]
  BY <1>2, <1>3, <1>5, <1>6, FlattenValue
<1> QED BY <1>6, <1>7
=============================================================================
