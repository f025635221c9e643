--------------------------- MODULE Analyses_proofs ---------------------------
(***************************************************************************)
(* The two analyses of the program, each run by one thread: the blind spot *)
(* search on the full graph view, and the test on a moving window.         *)
(*                                                                         *)
(* For any nodes, topics and relations, the view is closed, and the search *)
(* reports sinks and loops only, each once, and misses none that members   *)
(* with single edges lead to.  For integer values of any size, a window of *)
(* up to ten values never contains one beyond three standard deviations of *)
(* its mean: detectFaults needs eleven before it can report anything.      *)
(***************************************************************************)
EXTENDS CircularBuffer, FullGraphView, SequenceLemmas

-----------------------------------------------------------------------------
(* The loops over the answer, step by step                                 *)
LEMMA SelectedSteps ==
    ASSUME NEW A, NEW s \in Seq(A), NEW S
    PROVE  \E F :
              /\ \A i \in 0 .. Len(s) : F[i] \in Seq(A)
              /\ F[0] = <<>>
              /\ \A i \in 1 .. Len(s) :
                    F[i] = IF s[i] \in S THEN Append(F[i - 1], s[i]) ELSE F[i - 1]
              /\ Selected(s, S) = F[Len(s)]
<1> DEFINE n == Len(s)
           step == [i \in 1 .. n |->
                       [t \in Seq(A) |-> IF s[i] \in S THEN Append(t, s[i]) ELSE t]]
           Def(g) == [i \in 0 .. n |->
                         IF i = 0 THEN <<>>
                         ELSE IF s[i] \in S THEN Append(g[i - 1], s[i]) ELSE g[i - 1]]
           F == CHOOSE g : g = Def(g)
<1>1. n \in Nat /\ <<>> \in Seq(A) /\ \A i \in 1 .. n : s[i] \in A
  BY LenProperties, EmptySeq, ElementOfSeq
<1>2. \A i \in 1 .. n : \A t \in Seq(A) : Append(t, s[i]) \in Seq(A)
  BY <1>1, AppendProperties
<1>3. Selected(s, S) = F[n]
  BY DEF Selected
<1> HIDE DEF n
<1>4. \E g : g = Def(g)
  <2>1. step \in [1 .. n -> [Seq(A) -> Seq(A)]]
    BY <1>2
  <2>2. HasRecursion(n, Seq(A), <<>>, step)
    <3> HIDE DEF step
    <3> QED BY <1>1, <2>1, RecursionExists, Zenon
  <2>3. PICK g \in [0 .. n -> Seq(A)] : IsRecursion(g, n, <<>>, step)
    BY <2>2 DEF HasRecursion
  <2>4. g[0] = <<>>
    BY <2>3 DEF IsRecursion
  <2>5. ASSUME NEW i \in 1 .. n
        PROVE  g[i] = IF s[i] \in S THEN Append(g[i - 1], s[i]) ELSE g[i - 1]
    <3>1. g[i - 1] \in Seq(A)
      BY <1>1
    <3>2. step[i][g[i - 1]] = IF s[i] \in S THEN Append(g[i - 1], s[i]) ELSE g[i - 1]
      BY <3>1
    <3> QED BY <2>3, <3>2 DEF IsRecursion
  <2>6. g = Def(g)
    <3>1. \A i \in 0 .. n : i = 0 \/ i \in 1 .. n
      BY <1>1
    <3>2. \A i \in 0 .. n :
             g[i] = IF i = 0 THEN <<>>
                    ELSE IF s[i] \in S THEN Append(g[i - 1], s[i]) ELSE g[i - 1]
      BY <2>4, <2>5, <3>1, Zenon
    <3>3. g = [i \in 0 .. n |-> g[i]]
      OBVIOUS
    <3> QED BY <3>2, <3>3, Zenon
  <2> QED BY <2>6
<1>5. F = Def(F)
  <2> HIDE DEF Def
  <2> QED BY <1>4
<1>6. F[0] = <<>>
  <2> HIDE DEF F
  <2> QED BY <1>1, <1>5
<1>7. ASSUME NEW i \in 1 .. n
      PROVE  F[i] = IF s[i] \in S THEN Append(F[i - 1], s[i]) ELSE F[i - 1]
  <2>1. i \in 0 .. n /\ i # 0
    BY <1>1
  <2> HIDE DEF F
  <2> QED BY <1>5, <2>1, Zenon
<1> HIDE DEF F
<1>8. \A i \in 0 .. n : F[i] \in Seq(A)
  <2>1. \A i \in 1 .. n : F[i - 1] \in Seq(A) => F[i] \in Seq(A)
    BY <1>2, <1>7
  <2> HIDE DEF Def
  <2> QED BY <1>1, <1>6, <2>1, RecursionType, Zenon
<1> QED BY <1>3, <1>6, <1>7, <1>8 DEF n

(* What they keep: the elements in S, no more often than before            *)
LEMMA SelectedProperties ==
    ASSUME NEW A, NEW s \in Seq(A), NEW S
    PROVE  /\ Selected(s, S) \in Seq(A)
           /\ ToSet(Selected(s, S)) = ToSet(s) \cap S
           /\ Len(Selected(s, S)) <= Len(s)
           /\ IsInjective(s) => IsInjective(Selected(s, S))
<1> DEFINE n == Len(s)
           Upto(i) == {s[k] : k \in 1 .. i} \cap S
<1>1. PICK F : /\ \A i \in 0 .. n : F[i] \in Seq(A)
               /\ F[0] = <<>>
               /\ \A i \in 1 .. n :
                     F[i] = IF s[i] \in S THEN Append(F[i - 1], s[i]) ELSE F[i - 1]
               /\ Selected(s, S) = F[n]
  BY SelectedSteps
<1>2. n \in Nat /\ DOMAIN s = 1 .. n /\ \A i \in 1 .. n : s[i] \in A
  BY LenProperties, ElementOfSeq
<1> DEFINE T == {i \in 0 .. n : /\ ToSet(F[i]) = Upto(i)
                                /\ Len(F[i]) <= i
                                /\ IsInjective(s) => IsInjective(F[i])}
<1> HIDE DEF n
<1>3. 0 \in T
  <2>1. ToSet(<<>>) = {} /\ Len(<<>>) = 0 /\ IsInjective(<<>>)
    BY DEF ToSet, IsInjective
  <2> QED BY <1>1, <1>2, <2>1
<1>4. \A i \in 0 .. n - 1 : i \in T => i + 1 \in T
  <2> SUFFICES ASSUME NEW i \in 0 .. n - 1, i \in T PROVE i + 1 \in T
    OBVIOUS
  <2>1. i + 1 \in 1 .. n /\ i + 1 \in 0 .. n /\ (i + 1) - 1 = i /\ i \in 0 .. n /\ i \in Nat
    BY <1>2
  <2>2. F[i + 1] = IF s[i + 1] \in S THEN Append(F[i], s[i + 1]) ELSE F[i]
    BY <1>1, <2>1
  <2>3. F[i] \in Seq(A) /\ s[i + 1] \in A
    BY <1>1, <1>2, <2>1
  <2>4. {s[k] : k \in 1 .. i + 1} = {s[k] : k \in 1 .. i} \cup {s[i + 1]}
    <3>1. \A k : k \in 1 .. i + 1 <=> k \in 1 .. i \/ k = i + 1
      BY <2>1
    <3> QED BY <3>1
  <2>5. CASE s[i + 1] \in S
    <3>1. F[i + 1] = Append(F[i], s[i + 1])
      BY <2>2, <2>5
    <3>2. Len(F[i + 1]) = Len(F[i]) + 1 /\ Len(F[i]) \in Nat
      BY <2>3, <3>1, AppendProperties, LenProperties
    <3>3. ToSet(F[i + 1]) = ToSet(F[i]) \cup {s[i + 1]}
      BY <2>3, <3>1, AppendElements
    <3>4. ASSUME IsInjective(s) PROVE IsInjective(F[i + 1])
      <4>1. s[i + 1] \notin Upto(i)
        <5> SUFFICES ASSUME NEW k \in 1 .. i, s[k] = s[i + 1] PROVE FALSE
          OBVIOUS
        <5>1. k \in DOMAIN s /\ i + 1 \in DOMAIN s /\ k # i + 1
          BY <1>2, <2>1
        <5> QED BY <3>4, <5>1 DEF IsInjective
      <4> QED BY <2>3, <3>1, <3>4, <4>1, AppendDistinct
    <3> HIDE DEF n
    <3> QED BY <2>1, <2>4, <2>5, <3>2, <3>3, <3>4
  <2>6. CASE s[i + 1] \notin S
    <3>1. F[i + 1] = F[i] /\ Len(F[i]) \in Nat
      BY <2>2, <2>3, <2>6, LenProperties
    <3> QED BY <2>1, <2>4, <2>6, <3>1
  <2> QED BY <2>5, <2>6
<1>5. 0 .. n \subseteq T
  <2> HIDE DEF T
  <2> QED BY <1>2, <1>3, <1>4, IntervalInduction
<1>6. n \in 0 .. n
  BY <1>2
<1>7. n \in T
  BY <1>5, <1>6
<1>8. Upto(n) = ToSet(s) \cap S
  BY <1>2 DEF ToSet
<1> QED BY <1>1, <1>6, <1>7, <1>8 DEF n

-----------------------------------------------------------------------------
(* The relations that the monitor has                                      *)
Links == Relation(Member, Member)

(* What the query answers with, while the view is built from it: nodes and *)
(* topics once each, and relations between them, but for the null.         *)
ResponseInv ==
    LET active == response.active
        passive == response.passive
    IN  /\ active \in Seq(Member) /\ passive \in Seq(Member)
        /\ IsInjective(active) /\ IsInjective(passive)
        /\ ToSet(active) \subseteq Node /\ ToSet(passive) \subseteq Topic
        /\ Len(active) <= Len(Nodes) /\ Len(passive) <= Len(Topics)
        /\ response.sub \in Seq(Links \cup {Null})
        /\ response.pub \in Seq(Links \cup {Null})
        /\ response.send \in Seq(Links \cup {Null})
        /\ Present(response.sub) \subseteq Relation(ToSet(passive), ToSet(active))
        /\ Present(response.pub) \subseteq Relation(ToSet(active), ToSet(passive))
        /\ Present(response.send) \subseteq Relation(ToSet(active), ToSet(active))

LEMMA RelationList ==
    ASSUME NEW F \in SUBSET Member, NEW T \in SUBSET Member,
           NEW sub \in SeqOf(Relation(F, T), MaxRelations)
    PROVE  /\ <<Null>> \o sub \in Seq(Links \cup {Null})
           /\ Present(<<Null>> \o sub) \subseteq ToSet(sub)
           /\ \A r \in ToSet(sub) : /\ r \in Relation(F, T)
                                    /\ r.from \in Related(sub) /\ r.to \in Related(sub)
<1>1. sub \in Seq(Relation(F, T))
  <2>1. PICK n \in 0 .. MaxRelations : sub \in [1 .. n -> Relation(F, T)]
    BY DEF SeqOf
  <2>2. n \in Nat
    BY <2>1, ViewAssumption
  <2> QED BY <2>1, <2>2, SeqDef
<1>2. Relation(F, T) \subseteq Links \cup {Null}
  BY DEF Links, Relation
<1>3. sub \in Seq(Links \cup {Null}) /\ <<Null>> \in Seq(Links \cup {Null})
  <2>1. sub \in Seq(Links \cup {Null})
    BY <1>1, <1>2, SeqMonotonic
  <2>2. Null \in Links \cup {Null}
    OBVIOUS
  <2> QED BY <2>1, <2>2
<1>4. ToSet(<<Null>>) = {Null}
  BY DEF ToSet
<1>5. /\ <<Null>> \o sub \in Seq(Links \cup {Null})
      /\ ToSet(<<Null>> \o sub) = {Null} \cup ToSet(sub)
  <2> DEFINE one == <<Null>>
             list == Links \cup {Null}
  <2>1. one \in Seq(list) /\ sub \in Seq(list) /\ ToSet(one) = {Null}
    BY <1>3, <1>4
  <2> HIDE DEF one, list
  <2>2. one \o sub \in Seq(list) /\ ToSet(one \o sub) = ToSet(one) \cup ToSet(sub)
    BY <2>1, ConcatElements
  <2> QED BY <2>1, <2>2 DEF one, list
<1>6. \A r \in ToSet(sub) : r \in Relation(F, T)
  BY <1>1, ElementOfSeq, LenProperties DEF ToSet
<1> QED BY <1>5, <1>6 DEF Present, Related

LEMMA InitResponse == Init => ResponseInv
<1> SUFFICES ASSUME Init PROVE ResponseInv
  OBVIOUS
<1>1. PICK sub \in SeqOf(Relation(Topic, Node), MaxRelations),
           pub \in SeqOf(Relation(Node, Topic), MaxRelations),
           send \in SeqOf(Relation(Node, Node), MaxRelations),
           timers \in SUBSET Node :
              response = Response(sub, pub, send, timers)
  BY DEF Init
<1> DEFINE related == Related(sub) \cup Related(pub) \cup Related(send) \cup timers
<1>2. /\ response.active = Selected(Nodes, related)
      /\ response.passive = Selected(Topics, related)
      /\ response.sub = <<Null>> \o sub
      /\ response.pub = <<Null>> \o pub
      /\ response.send = <<Null>> \o send
  BY <1>1 DEF Response
<1>3. Node \subseteq Member /\ Topic \subseteq Member
  BY ViewAssumption DEF Node, Topic
<1>4. /\ Selected(Nodes, related) \in Seq(Member)
      /\ ToSet(Selected(Nodes, related)) = Node \cap related
      /\ Len(Selected(Nodes, related)) <= Len(Nodes)
      /\ IsInjective(Selected(Nodes, related))
  BY ViewAssumption, KeysAssumption, SelectedProperties DEF Node
<1>5. /\ Selected(Topics, related) \in Seq(Member)
      /\ ToSet(Selected(Topics, related)) = Topic \cap related
      /\ Len(Selected(Topics, related)) <= Len(Topics)
      /\ IsInjective(Selected(Topics, related))
  BY ViewAssumption, KeysAssumption, SelectedProperties DEF Topic
<1>6. /\ response.sub \in Seq(Links \cup {Null})
      /\ \A r \in Present(response.sub) :
            r \in Relation(Topic, Node) /\ r.from \in related /\ r.to \in related
  <2>1. /\ <<Null>> \o sub \in Seq(Links \cup {Null})
        /\ Present(<<Null>> \o sub) \subseteq ToSet(sub)
        /\ \A r \in ToSet(sub) : /\ r \in Relation(Topic, Node)
                                /\ r.from \in Related(sub) /\ r.to \in Related(sub)
    BY <1>3, RelationList
  <2> QED BY <1>2, <2>1
<1>7. /\ response.pub \in Seq(Links \cup {Null})
      /\ \A r \in Present(response.pub) :
            r \in Relation(Node, Topic) /\ r.from \in related /\ r.to \in related
  <2>1. /\ <<Null>> \o pub \in Seq(Links \cup {Null})
        /\ Present(<<Null>> \o pub) \subseteq ToSet(pub)
        /\ \A r \in ToSet(pub) : /\ r \in Relation(Node, Topic)
                                /\ r.from \in Related(pub) /\ r.to \in Related(pub)
    BY <1>3, RelationList
  <2> QED BY <1>2, <2>1
<1>8. /\ response.send \in Seq(Links \cup {Null})
      /\ \A r \in Present(response.send) :
            r \in Relation(Node, Node) /\ r.from \in related /\ r.to \in related
  <2>1. /\ <<Null>> \o send \in Seq(Links \cup {Null})
        /\ Present(<<Null>> \o send) \subseteq ToSet(send)
        /\ \A r \in ToSet(send) : /\ r \in Relation(Node, Node)
                                /\ r.from \in Related(send) /\ r.to \in Related(send)
    BY <1>3, RelationList
  <2> QED BY <1>2, <2>1
<1> HIDE DEF related
<1>9. /\ Present(response.sub) \subseteq Relation(Topic \cap related, Node \cap related)
      /\ Present(response.pub) \subseteq Relation(Node \cap related, Topic \cap related)
      /\ Present(response.send) \subseteq Relation(Node \cap related, Node \cap related)
  BY <1>6, <1>7, <1>8 DEF Relation
<1> QED BY <1>2, <1>4, <1>5, <1>6, <1>7, <1>8, <1>9 DEF ResponseInv

(* A list of relations as the loops go through it                          *)
LEMMA KeptRelations ==
    ASSUME NEW list \in Seq(Links \cup {Null}), NEW S \in SUBSET Present(list)
    PROVE  Selected(list, S) \in Seq(Links) /\ ToSet(Selected(list, S)) = S
<1> DEFINE t == Selected(list, S)
<1>1. t \in Seq(Links \cup {Null}) /\ ToSet(t) = ToSet(list) \cap S
  BY SelectedProperties
<1>2. ToSet(t) = S
  BY <1>1 DEF Present
<1>3. ToSet(list) \subseteq Links \cup {Null}
  BY ElementOfSeq, LenProperties DEF ToSet
<1>4. S \subseteq Links
  BY <1>3 DEF Present
<1> HIDE DEF t
<1>5. Len(t) \in Nat /\ DOMAIN t = 1 .. Len(t) /\ t \in [1 .. Len(t) -> Links \cup {Null}]
  BY <1>1, LenProperties
<1>6. \A i \in 1 .. Len(t) : t[i] \in Links
  BY <1>2, <1>4, <1>5 DEF ToSet
<1>7. t \in [1 .. Len(t) -> Links]
  BY <1>5, <1>6
<1> QED BY <1>2, <1>5, <1>7, SeqDef DEF t

(* The edges that a list of relations adds                                 *)
LEMMA ExtendedEdges ==
    ASSUME connections \in [Member -> Seq(Member)], NEW relations \in Seq(Links)
    PROVE  /\ Extended(relations) \in [Member -> Seq(Member)]
           /\ \A m \in Member :
                 ToSet(Extended(relations)[m])
                     = ToSet(connections[m]) \cup {r.to : r \in {x \in ToSet(relations) : x.from = m}}
<1> SUFFICES ASSUME NEW m \in Member
             PROVE  /\ Extended(relations)[m] \in Seq(Member)
                    /\ ToSet(Extended(relations)[m])
                         = ToSet(connections[m])
                               \cup {r.to : r \in {x \in ToSet(relations) : x.from = m}}
  BY DEF Extended
<1> DEFINE l == Leaving(m, relations)
           t == [i \in DOMAIN l |-> l[i].to]
<1>1. l \in Seq(Links) /\ ToSet(l) = {x \in ToSet(relations) : x.from = m}
  BY SelectedProperties DEF Leaving
<1>2. Extended(relations)[m] = connections[m] \o t
  BY DEF Extended
<1> HIDE DEF l
<1>3. Len(l) \in Nat /\ DOMAIN l = 1 .. Len(l) /\ \A i \in 1 .. Len(l) : l[i] \in Links
  BY <1>1, LenProperties, ElementOfSeq
<1>4. t \in [1 .. Len(l) -> Member]
  BY <1>3 DEF Links, Relation
<1>5. t \in Seq(Member)
  <2> HIDE DEF t
  <2> QED BY <1>3, <1>4, SeqDef
<1>6. ToSet(t) = {r.to : r \in ToSet(l)}
  BY <1>3 DEF ToSet
<1> HIDE DEF t
<1>7. connections[m] \o t \in Seq(Member) /\ ToSet(connections[m] \o t) = ToSet(connections[m]) \cup ToSet(t)
  BY <1>5, ConcatElements
<1> QED BY <1>1, <1>2, <1>6, <1>7

(* The view under construction: what it is built from does not change, and *)
(* every edge is between two of its vertices.                              *)
BuildInv ==
    /\ ResponseInv
    /\ connections \in [Member -> Seq(Member)]
    /\ building \in {"vertices", "sub", "pub", "send", "search"}
    /\ asserted = TRUE
    /\ building # "search" => stack = <<>> /\ oBlindSpots = <<>>
    /\ building = "vertices" => graph = <<>>
    /\ building \in {"sub", "pub", "send"} => ToSet(graph) = Vertices
    /\ \A m, n \in Member : Edge(m, n) => m \in Vertices /\ n \in Vertices

LEMMA InitBuild == Init => BuildInv
<1> SUFFICES ASSUME Init PROVE BuildInv
  OBVIOUS
<1>1. connections = [m \in Member |-> <<>>] /\ <<>> \in Seq(Member)
  BY EmptySeq DEF Init
<1>2. connections \in [Member -> Seq(Member)]
  BY <1>1
<1>3. \A m, n \in Member : ~Edge(m, n)
  <2>1. ToSet(<<>>) = {}
    BY DEF ToSet
  <2> QED BY <1>1, <2>1 DEF Edge
<1> QED BY <1>2, <1>3, InitResponse DEF Init, BuildInv

(* The vertices: nodes before topics, none twice                           *)
LEMMA VerticesOnce ==
    ASSUME ResponseInv
    PROVE  LET added == response.active \o Kept(response.passive)
           IN  /\ added \in Seq(Member) /\ IsInjective(added)
               /\ ToSet(added) = Vertices
               /\ Len(added) <= Len(Nodes) + Len(Topics)
<1> DEFINE a == response.active
           p == response.passive
           k == Kept(p)
<1>1. /\ a \in Seq(Member) /\ p \in Seq(Member) /\ IsInjective(a) /\ IsInjective(p)
      /\ ToSet(a) \subseteq Node /\ ToSet(p) \subseteq Topic
      /\ Len(a) <= Len(Nodes) /\ Len(p) <= Len(Topics)
  BY DEF ResponseInv
<1>2. /\ k \in Seq(Member) /\ IsInjective(k) /\ Len(k) <= Len(p)
      /\ ToSet(k) = ToSet(p) \ Ignored
  <2> DEFINE S == {t \in ToSet(p) : ~checkTopicPrimaryIgnored(t)}
  <2>1. k = Selected(p, S)
    BY DEF Kept
  <2>2. ToSet(p) \cap S = ToSet(p) \ Ignored
    BY DEF checkTopicPrimaryIgnored
  <2> HIDE DEF p, k, S
  <2> QED BY <1>1, <2>1, <2>2, SelectedProperties
<1>3. ToSet(a) \cap ToSet(k) = {}
  BY <1>1, <1>2, KeysAssumption DEF Node, Topic
<1>4. Vertices = ToSet(a) \cup ToSet(k)
  BY <1>2 DEF Vertices
<1> HIDE DEF a, p, k
<1>5. a \o k \in Seq(Member) /\ ToSet(a \o k) = ToSet(a) \cup ToSet(k) /\ Len(a \o k) = Len(a) + Len(k)
  BY <1>1, <1>2, ConcatElements
<1>6. IsInjective(a \o k)
  BY <1>1, <1>2, <1>3, ConcatDistinct
<1>7. Len(a) \in Nat /\ Len(k) \in Nat /\ Len(p) \in Nat /\ Len(Nodes) \in Nat /\ Len(Topics) \in Nat
  BY <1>1, <1>2, ViewAssumption, LenProperties
<1>8. Len(a \o k) <= Len(Nodes) + Len(Topics)
  BY <1>1, <1>2, <1>5, <1>7
<1> QED BY <1>4, <1>5, <1>6, <1>8 DEF a, k, p

LEMMA VerticesBuild ==
    ASSUME BuildInv, AddVertices
    PROVE  BuildInv'
<1>1. ToSet(graph') = Vertices
  BY VerticesOnce DEF AddVertices, BuildInv
<1>2. UNCHANGED <<connections, stack, oBlindSpots, response, asserted>> /\ building' = "sub"
      /\ building = "vertices"
  BY DEF AddVertices
<1>3. ResponseInv' /\ Vertices' = Vertices /\ \A m, n : Edge(m, n)' <=> Edge(m, n)
  BY <1>2 DEF ResponseInv, BuildInv, Vertices, Edge
<1> QED BY <1>1, <1>2, <1>3 DEF BuildInv

LEMMA EdgesBuild ==
    ASSUME BuildInv, building \in {"sub", "pub", "send"},
           NEW relations \in Seq(Links), NEW next \in {"pub", "send", "search"},
           \A r \in ToSet(relations) : r.from \in Vertices /\ r.to \in Vertices,
           AddEdges(relations, next)
    PROVE  BuildInv'
<1>1. /\ UNCHANGED <<graph, stack, oBlindSpots, response>> /\ building' = next
      /\ connections' = Extended(relations)
      /\ asserted' = (asserted /\ \A r \in ToSet(relations) : r.from \in ToSet(graph))
  BY DEF AddEdges
<1>2. ResponseInv' /\ Vertices' = Vertices
  BY <1>1 DEF ResponseInv, BuildInv, Vertices
<1>3. asserted' = TRUE /\ stack = <<>> /\ oBlindSpots = <<>> /\ ToSet(graph) = Vertices
  BY <1>1 DEF BuildInv
<1>4. /\ connections' \in [Member -> Seq(Member)]
      /\ \A m \in Member :
            ToSet(connections'[m])
                = ToSet(connections[m]) \cup {r.to : r \in {x \in ToSet(relations) : x.from = m}}
  BY <1>1, ExtendedEdges DEF BuildInv
<1>5. ASSUME NEW m \in Member, NEW n \in Member, Edge(m, n)'
      PROVE  m \in Vertices /\ n \in Vertices
  <2>1. n \in ToSet(connections[m]) \/ \E r \in ToSet(relations) : r.from = m /\ r.to = n
    BY <1>4, <1>5 DEF Edge
  <2> QED BY <2>1 DEF BuildInv, Edge
<1> QED BY <1>1, <1>2, <1>3, <1>4, <1>5 DEF BuildInv

(* The loops over relations add edges between vertices only.               *)
LEMMA ViewBuild ==
    ASSUME BuildInv, GetFullGraphView
    PROVE  BuildInv'
<1> USE DEF BuildInv
<1>1. /\ response.sub \in Seq(Links \cup {Null})
      /\ response.pub \in Seq(Links \cup {Null})
      /\ response.send \in Seq(Links \cup {Null})
  BY DEF ResponseInv
<1>2. /\ \A r \in Present(response.sub) :
            r.from \in ToSet(response.passive) /\ r.to \in ToSet(response.active)
      /\ \A r \in Present(response.pub) :
            r.from \in ToSet(response.active) /\ r.to \in ToSet(response.passive)
      /\ \A r \in Present(response.send) :
            r.from \in ToSet(response.active) /\ r.to \in ToSet(response.active)
  BY DEF ResponseInv, Relation
<1>3. CASE AddVertices
  BY <1>3, VerticesBuild
<1>4. CASE AddSub
  <2> DEFINE S == {r \in Present(response.sub) : ~SkippedSub(r)}
             relations == Selected(response.sub, S)
  <2>1. AddEdges(relations, "pub") /\ building = "sub"
    BY <1>4 DEF AddSub
  <2>2. relations \in Seq(Links) /\ ToSet(relations) = S
    BY <1>1, KeptRelations
  <2>3. \A r \in S : r.from \in Vertices /\ r.to \in Vertices
    BY <1>2 DEF Vertices, SkippedSub, checkTopicPrimaryIgnored
  <2> HIDE DEF relations, S, BuildInv
  <2> QED BY <2>1, <2>2, <2>3, EdgesBuild
<1>5. CASE AddPub
  <2> DEFINE S == {r \in Present(response.pub) : ~SkippedPub(r)}
             relations == Selected(response.pub, S)
  <2>1. AddEdges(relations, "send") /\ building = "pub"
    BY <1>5 DEF AddPub
  <2>2. relations \in Seq(Links) /\ ToSet(relations) = S
    BY <1>1, KeptRelations
  <2>3. \A r \in S : r.from \in Vertices /\ r.to \in Vertices
    BY <1>2 DEF Vertices, SkippedPub, checkTopicPrimaryIgnored
  <2> HIDE DEF relations, S, BuildInv
  <2> QED BY <2>1, <2>2, <2>3, EdgesBuild
<1>6. CASE AddSend
  <2> DEFINE S == Present(response.send)
             relations == Selected(response.send, S)
  <2>1. AddEdges(relations, "search") /\ building = "send"
    BY <1>6 DEF AddSend
  <2>2. relations \in Seq(Links) /\ ToSet(relations) = S
    BY <1>1, KeptRelations
  <2>3. \A r \in S : r.from \in Vertices /\ r.to \in Vertices
    BY <1>2 DEF Vertices
  <2> HIDE DEF relations, S, BuildInv
  <2> QED BY <2>1, <2>2, <2>3, EdgesBuild
<1> QED BY <1>3, <1>4, <1>5, <1>6 DEF GetFullGraphView

(* The search changes nothing of the view but the list of what is left.    *)
LEMMA SearchBuild ==
    ASSUME BuildInv, GetBlindspots
    PROVE  BuildInv'
<1>1. UNCHANGED <<connections, response, building, asserted>> /\ building = "search"
  BY DEF GetBlindspots, Search, StartTrace, FollowEdge, IgnoreVisited, Return
<1>2. ResponseInv' /\ Vertices' = Vertices /\ \A m, n : Edge(m, n)' <=> Edge(m, n)
  BY <1>1 DEF ResponseInv, BuildInv, Vertices, Edge
<1> QED BY <1>1, <1>2 DEF BuildInv

LEMMA BuildInvariance == Spec => []BuildInv
<1>1. BuildInv /\ [Next]_vars => BuildInv'
  <2> SUFFICES ASSUME BuildInv, [Next]_vars PROVE BuildInv'
    OBVIOUS
  <2>1. CASE UNCHANGED vars
    BY <2>1 DEF vars, searchVars, BuildInv, ResponseInv, Vertices, Edge
  <2> QED BY <2>1, ViewBuild, SearchBuild DEF Next, Terminated
<1> QED BY <1>1, InitBuild, PTL DEF Spec

(* The assertions on the origins of the relations hold, and the view that  *)
(* the search gets has no edge to or from what is not one of its vertices. *)
THEOREM ClosedView == Spec => []ViewWellFormed
<1>1. BuildInv => ViewWellFormed
  BY DEF BuildInv, ViewWellFormed
<1> QED BY <1>1, BuildInvariance, PTL

-----------------------------------------------------------------------------
(* What can be reached: the member itself, what an edge leads to from      *)
(* there, and all that can be reached from that.                           *)
LEMMA ReachableSelf ==
    ASSUME NEW m \in Member
    PROVE  m \in Reachable(m)
BY DEF Reachable

LEMMA ReachableNext ==
    ASSUME NEW m \in Member, NEW n \in Reachable(m), NEW p \in Member, Edge(n, p)
    PROVE  p \in Reachable(m)
<1>1. n \in Member
  BY DEF Reachable
<1>2. SUFFICES ASSUME NEW S \in SUBSET Member, m \in S,
                      \A q \in S, r \in Member : Edge(q, r) => r \in S
               PROVE  p \in S
  BY DEF Reachable
<1>3. n \in S
  BY <1>2 DEF Reachable
<1> QED BY <1>2, <1>3

LEMMA ReachableFrom ==
    ASSUME NEW m \in Member, NEW n \in Reachable(m)
    PROVE  n \in Member /\ Reachable(n) \subseteq Reachable(m)
<1>1. n \in Member
  BY DEF Reachable
<1>2. SUFFICES ASSUME NEW p \in Reachable(n), NEW S \in SUBSET Member, m \in S,
                      \A q \in S, r \in Member : Edge(q, r) => r \in S
               PROVE  p \in S
  BY <1>1 DEF Reachable
<1>3. n \in S
  BY <1>2 DEF Reachable
<1> QED BY <1>2, <1>3 DEF Reachable

LEMMA SameEdges ==
    ASSUME connections' = connections
    PROVE  /\ \A m, n : Edge(m, n)' <=> Edge(m, n)
           /\ \A m : Reachable(m)' = Reachable(m)
           /\ \A m : Simple(m)' <=> Simple(m)
BY DEF Edge, Reachable, Simple

(* The members of a list of calls                                          *)
Call == [member : Member, edges : Seq(Member)]
PathOf(calls) == {calls[i].member : i \in DOMAIN calls}

LEMMA PathOfSame ==
    ASSUME NEW s \in Seq(Call), NEW t \in Seq(Call), Len(s) = Len(t),
           \A i \in 1 .. Len(s) : t[i].member = s[i].member
    PROVE  PathOf(t) = PathOf(s)
<1>1. DOMAIN s = 1 .. Len(s) /\ DOMAIN t = 1 .. Len(s)
  BY LenProperties
<1> QED BY <1>1 DEF PathOf

LEMMA PathOfAppend ==
    ASSUME NEW s \in Seq(Call), NEW c \in Call
    PROVE  PathOf(Append(s, c)) = PathOf(s) \cup {c.member}
<1> DEFINE t == Append(s, c)
<1>1. t \in Seq(Call) /\ Len(t) = Len(s) + 1 /\ (\A i \in 1 .. Len(s) : t[i] = s[i]) /\ t[Len(s) + 1] = c
  BY AppendProperties
<1>2. Len(s) \in Nat /\ DOMAIN s = 1 .. Len(s)
  BY LenProperties
<1> HIDE DEF t
<1>3. DOMAIN t = 1 .. Len(s) + 1
  BY <1>1, LenProperties
<1>4. \A i : i \in DOMAIN t <=> i \in DOMAIN s \/ i = Len(s) + 1
  BY <1>2, <1>3
<1> QED BY <1>1, <1>2, <1>4 DEF PathOf, t

LEMMA FrontCalls ==
    ASSUME NEW s \in Seq(Call), s # <<>>
    PROVE  /\ Front(s) \in Seq(Call) /\ Len(Front(s)) = Len(s) - 1
           /\ \A i \in 1 .. Len(s) - 1 : Front(s)[i] = s[i]
           /\ Last(s) = s[Len(s)] /\ Last(s) \in Call
           /\ PathOf(s) = PathOf(Front(s)) \cup {Last(s).member}
<1>1. Len(s) \in Nat /\ Len(s) # 0 /\ DOMAIN s = 1 .. Len(s)
  BY EmptySeq, LenProperties
<1>2. \A i \in 1 .. Len(s) : s[i] \in Call
  BY ElementOfSeq
<1> DEFINE t == Front(s)
<1>3. t \in Seq(Call) /\ Len(t) = Len(s) - 1 /\ \A i \in 1 .. Len(s) - 1 : t[i] = s[i]
  BY <1>1, <1>2, SubSeqProperties DEF Front
<1> HIDE DEF t
<1>4. Last(s) = s[Len(s)] /\ Last(s) \in Call
  BY <1>1, <1>2 DEF Last
<1>5. DOMAIN t = 1 .. Len(s) - 1
  BY <1>3, LenProperties
<1>6. \A i : i \in DOMAIN s <=> i \in DOMAIN t \/ i = Len(s)
  BY <1>1, <1>5
<1>7. PathOf(s) = PathOf(t) \cup {Last(s).member}
  BY <1>3, <1>4, <1>5, <1>6 DEF PathOf
<1> QED BY <1>3, <1>4, <1>7 DEF t

(* The calls when the innermost one has taken its next edge                *)
LEMMA AdvancedCalls ==
    ASSUME stack \in Seq(Call), stack # <<>>, Last(stack).edges # <<>>
    PROVE  LET n == Len(stack)
           IN  /\ n \in Nat /\ n # 0
               /\ Advanced \in Seq(Call) /\ Len(Advanced) = n
               /\ \A i \in 1 .. n : Advanced[i].member = stack[i].member
               /\ \A i \in 1 .. n - 1 : Advanced[i] = stack[i]
               /\ Advanced[n].edges = Tail(stack[n].edges)
               /\ stack[n].edges \in Seq(Member) /\ stack[n].edges # <<>>
               /\ ToSet(Advanced[n].edges) \subseteq ToSet(stack[n].edges)
               /\ NextEdge = stack[n].edges[1] /\ NextEdge \in ToSet(stack[n].edges)
<1> DEFINE n == Len(stack)
           e == stack[n].edges
<1>1. n \in Nat /\ n # 0 /\ DOMAIN stack = 1 .. n /\ \A i \in 1 .. n : stack[i] \in Call
  BY EmptySeq, LenProperties, ElementOfSeq
<1>2. n \in 1 .. n /\ Last(stack).edges = e /\ e \in Seq(Member) /\ e # <<>>
  BY <1>1 DEF Last, Call
<1>3. Advanced = [i \in 1 .. n |-> IF i = n THEN [stack[n] EXCEPT !.edges = Tail(e)] ELSE stack[i]]
  <2>1. Advanced = [stack EXCEPT ![n] = [stack[n] EXCEPT !.edges = Tail(e)]]
    BY DEF Advanced
  <2> QED BY <1>1, <2>1
<1>4. /\ Tail(e) \in Seq(Member) /\ Len(Tail(e)) = Len(e) - 1
      /\ \A i \in 1 .. Len(e) - 1 : Tail(e)[i] = e[i + 1]
      /\ Head(e) = e[1]
  BY <1>2, HeadTailProperties, ElementOfSeq
<1>5. Len(e) \in Nat /\ Len(e) # 0 /\ DOMAIN e = 1 .. Len(e) /\ DOMAIN Tail(e) = 1 .. Len(e) - 1
  BY <1>2, <1>4, EmptySeq, LenProperties
<1>6. ToSet(Tail(e)) \subseteq ToSet(e)
  <2> SUFFICES ASSUME NEW i \in 1 .. Len(e) - 1 PROVE Tail(e)[i] \in ToSet(e)
    BY <1>5 DEF ToSet
  <2>1. i + 1 \in DOMAIN e /\ Tail(e)[i] = e[i + 1]
    BY <1>4, <1>5
  <2> QED BY <2>1 DEF ToSet
<1>7. NextEdge = e[1] /\ e[1] \in ToSet(e)
  BY <1>2, <1>4, <1>5 DEF NextEdge, ToSet
<1> HIDE DEF n, e
<1>8. \A i \in 1 .. n : Advanced[i] = IF i = n THEN [stack[n] EXCEPT !.edges = Tail(e)] ELSE stack[i]
  BY <1>3
<1>9. [stack[n] EXCEPT !.edges = Tail(e)] = [member |-> stack[n].member, edges |-> Tail(e)]
  <2>1. \A c \in Call : \A t :
           [c EXCEPT !.edges = t] = [member |-> c.member, edges |-> t]
    BY DEF Call
  <2> QED BY <1>1, <1>2, <2>1
<1>10. \A i \in 1 .. n : Advanced[i] \in Call /\ Advanced[i].member = stack[i].member
  BY <1>1, <1>4, <1>8, <1>9 DEF Call
<1>11. /\ \A i \in 1 .. n - 1 : Advanced[i] = stack[i]
       /\ Advanced[n].edges = Tail(e)
  BY <1>1, <1>2, <1>8, <1>9
<1>12. Advanced \in [1 .. n -> Call]
  BY <1>3, <1>10
<1>13. Advanced \in Seq(Call)
  BY <1>1, <1>12, SeqDef
<1>14. Len(Advanced) = n
  BY <1>1, <1>12, <1>13, LenProperties
<1> QED BY <1>1, <1>2, <1>6, <1>7, <1>10, <1>11, <1>13, <1>14 DEF n, e

-----------------------------------------------------------------------------
(* The search: a member is either left in the graph, or in a call in       *)
(* progress, or done with, and reported once at most; the calls follow     *)
(* edges, so that each leads to those above it.                            *)
VisitInv ==
    /\ graph \in Seq(Member) /\ IsInjective(graph)
    /\ oBlindSpots \in Seq(Member) /\ IsInjective(oBlindSpots)
    /\ stack \in Seq(Call)
    /\ Len(stack) + Len(graph) <= Len(Nodes) + Len(Topics)
    /\ ToSet(graph) \cap PathOf(stack) = {}
    /\ ToSet(oBlindSpots) \cap (ToSet(graph) \cup PathOf(stack)) = {}
    /\ \A j \in 1 .. Len(stack) : \A i \in 1 .. j : stack[j].member \in Reachable(stack[i].member)
    /\ \A i \in 1 .. Len(stack) : ToSet(stack[i].edges) \subseteq ToSet(connections[stack[i].member])
    /\ ReportsSinksAndLoops

(* A call for a member that is taken from the graph and that the calls in  *)
(* progress lead to                                                        *)
LEMMA InvestigateVisit ==
    ASSUME VisitInv, connections \in [Member -> Seq(Member)], UNCHANGED connections,
           NEW m \in ToSet(graph), NEW path, path = PathOf(stack), NEW rest \in Seq(Call),
           Len(rest) = Len(stack),
           \A i \in 1 .. Len(rest) : /\ rest[i].member = stack[i].member
                                     /\ ToSet(rest[i].edges) \subseteq ToSet(stack[i].edges)
                                     /\ m \in Reachable(stack[i].member),
           graph' \in Seq(Member), IsInjective(graph'),
           ToSet(graph') = ToSet(graph) \ {m}, Len(graph') = Len(graph) - 1,
           Investigate(m, path, rest)
    PROVE  VisitInv'
<1> DEFINE n == Len(stack)
<1>1. /\ n \in Nat /\ Len(graph) \in Nat /\ m \in Member
      /\ \A i \in 1 .. n : stack[i] \in Call /\ rest[i] \in Call
  BY LenProperties, ElementOfSeq DEF VisitInv, ToSet
<1>2. PathOf(rest) = PathOf(stack)
  BY PathOfSame DEF VisitInv
<1>3. m \notin PathOf(stack) /\ m \notin ToSet(oBlindSpots)
  BY DEF VisitInv
<1>4. /\ \A p, q : Edge(p, q)' <=> Edge(p, q)
      /\ \A p : Reachable(p)' = Reachable(p)
  BY SameEdges
<1>5. /\ \A j \in 1 .. n : \A i \in 1 .. j : rest[j].member \in Reachable(rest[i].member)
      /\ \A i \in 1 .. n : ToSet(rest[i].edges) \subseteq ToSet(connections[rest[i].member])
  <2>1. \A i \in 1 .. n : /\ rest[i].member = stack[i].member
                          /\ ToSet(rest[i].edges) \subseteq ToSet(stack[i].edges)
    OBVIOUS
  <2>2. ASSUME NEW j \in 1 .. n, NEW i \in 1 .. j
        PROVE  rest[j].member \in Reachable(rest[i].member)
    <3>1. i \in 1 .. n
      BY <1>1
    <3>2. stack[j].member \in Reachable(stack[i].member)
      BY DEF VisitInv
    <3>3. rest[j].member = stack[j].member /\ rest[i].member = stack[i].member
      BY <2>1, <3>1
    <3> QED BY <3>2, <3>3
  <2>3. ASSUME NEW i \in 1 .. n
        PROVE  ToSet(rest[i].edges) \subseteq ToSet(connections[rest[i].member])
    <3>1. ToSet(stack[i].edges) \subseteq ToSet(connections[stack[i].member])
      BY DEF VisitInv
    <3> QED BY <2>1, <3>1
  <2> QED BY <2>2, <2>3
<1>6. Len(Nodes) \in Nat /\ Len(Topics) \in Nat
  BY ViewAssumption, LenProperties
<1>7. CASE IsBlindSpot(m, path)
  <2>1. oBlindSpots' = Append(oBlindSpots, m) /\ stack' = rest
    BY <1>7 DEF Investigate
  <2>2. /\ oBlindSpots' \in Seq(Member) /\ IsInjective(oBlindSpots')
        /\ ToSet(oBlindSpots') = ToSet(oBlindSpots) \cup {m}
    <3>1. oBlindSpots \in Seq(Member) /\ IsInjective(oBlindSpots)
      BY DEF VisitInv
    <3>2. /\ Append(oBlindSpots, m) \in Seq(Member)
          /\ ToSet(Append(oBlindSpots, m)) = ToSet(oBlindSpots) \cup {m}
      BY <1>1, <3>1, AppendElements
    <3>3. IsInjective(Append(oBlindSpots, m))
      BY <1>3, <3>1, AppendDistinct
    <3> QED BY <2>1, <3>2, <3>3
  <2>3. ASSUME NEW p \in Member, Edge(m, p) PROVE m \in Reachable(p)
    <3>1. connections[m] # <<>>
      <4>1. ToSet(<<>>) = {}
        BY DEF ToSet
      <4> QED BY <2>3, <4>1 DEF Edge
    <3>2. Len(connections[m]) = 1 /\ connections[m][1] \in path
      BY <1>7, <3>1 DEF IsBlindSpot
    <3>3. p = connections[m][1]
      <4>1. DOMAIN connections[m] = 1 .. 1
        BY <1>1, <3>2, LenProperties
      <4> QED BY <2>3, <4>1 DEF Edge, ToSet
    <3>4. PICK i \in 1 .. n : p = stack[i].member
      BY <3>2, <3>3, LenProperties DEF PathOf, VisitInv
    <3> QED BY <3>4
  <2>4. ReportsSinksAndLoops'
    <3> SUFFICES ASSUME NEW q \in ToSet(oBlindSpots'), NEW p \in Member, Edge(q, p)'
                 PROVE  q \in Reachable(p)'
      BY DEF ReportsSinksAndLoops
    <3>1. Edge(q, p)
      BY <1>4
    <3>2. q \in Reachable(p)
      BY <2>2, <2>3, <3>1 DEF VisitInv, ReportsSinksAndLoops
    <3> QED BY <1>4, <3>2
  <2>5. Len(stack') + Len(graph') <= Len(Nodes) + Len(Topics)
    BY <1>1, <1>6, <2>1 DEF VisitInv
  <2>6. PathOf(stack') = PathOf(stack)
    BY <1>2, <2>1
  <2>7. /\ ToSet(graph') \cap PathOf(stack') = {}
        /\ ToSet(oBlindSpots') \cap (ToSet(graph') \cup PathOf(stack')) = {}
    BY <1>3, <2>2, <2>6 DEF VisitInv
  <2> QED BY <1>4, <1>5, <2>1, <2>2, <2>4, <2>5, <2>7 DEF VisitInv
<1>8. CASE ~IsBlindSpot(m, path)
  <2> DEFINE c == [member |-> m, edges |-> connections[m]]
             t == Append(rest, c)
  <2>1. oBlindSpots' = oBlindSpots /\ stack' = t
    BY <1>8 DEF Investigate
  <2>2. c \in Call /\ c.member = m /\ c.edges = connections[m]
    BY <1>1 DEF Call
  <2>3. /\ t \in Seq(Call) /\ Len(t) = n + 1
        /\ \A i \in 1 .. n : t[i] = rest[i]
        /\ t[n + 1] = c
        /\ PathOf(t) = PathOf(stack) \cup {m}
    BY <1>2, <2>2, AppendProperties, PathOfAppend
  <2> HIDE DEF t, c
  <2>4. \A i \in 1 .. n + 1 : i \in 1 .. n \/ i = n + 1
    BY <1>1
  <2>5. ASSUME NEW j \in 1 .. n + 1, NEW i \in 1 .. j
        PROVE  t[j].member \in Reachable(t[i].member)
    <3>1. CASE j \in 1 .. n
      <4>1. i \in 1 .. n
        BY <1>1, <3>1
      <4> QED BY <1>5, <2>3, <3>1, <4>1
    <3>2. CASE j = n + 1 /\ i \in 1 .. n
      <4>1. t[j].member = m /\ t[i].member = stack[i].member
        BY <2>2, <2>3, <3>2
      <4> QED BY <3>2, <4>1
    <3>3. CASE j = n + 1 /\ i = n + 1
      BY <1>1, <2>2, <2>3, <3>3, ReachableSelf
    <3> QED BY <1>1, <2>4, <3>1, <3>2, <3>3
  <2>6. \A i \in 1 .. n + 1 : ToSet(t[i].edges) \subseteq ToSet(connections[t[i].member])
    <3> SUFFICES ASSUME NEW i \in 1 .. n + 1
                 PROVE  ToSet(t[i].edges) \subseteq ToSet(connections[t[i].member])
      OBVIOUS
    <3>1. CASE i \in 1 .. n
      BY <1>5, <2>3, <3>1
    <3>2. CASE i = n + 1
      BY <2>2, <2>3, <3>2
    <3> QED BY <2>4, <3>1, <3>2
  <2>7. Len(t) + Len(graph') <= Len(Nodes) + Len(Topics)
    BY <1>1, <1>6, <2>3 DEF VisitInv
  <2>8. /\ ToSet(graph') \cap PathOf(t) = {}
        /\ ToSet(oBlindSpots) \cap (ToSet(graph') \cup PathOf(t)) = {}
    BY <1>3, <2>3 DEF VisitInv
  <2>9. ReportsSinksAndLoops'
    BY <1>4, <2>1 DEF VisitInv, ReportsSinksAndLoops
  <2> QED BY <1>4, <2>1, <2>3, <2>5, <2>6, <2>7, <2>8, <2>9 DEF VisitInv
<1> QED BY <1>7, <1>8

LEMMA StartTraceVisit ==
    ASSUME VisitInv, connections \in [Member -> Seq(Member)], StartTrace
    PROVE  VisitInv'
<1> DEFINE m == Last(graph)
<1>1. /\ graph # <<>> /\ stack = <<>> /\ UNCHANGED connections
      /\ graph' = Front(graph) /\ Investigate(m, {}, <<>>)
  BY DEF StartTrace
<1>2. /\ Front(graph) \in Seq(Member) /\ IsInjective(Front(graph)) /\ m \in ToSet(graph)
      /\ ToSet(Front(graph)) = ToSet(graph) \ {m} /\ Len(Front(graph)) = Len(graph) - 1
  BY <1>1, FrontDistinct DEF VisitInv
<1>3. PathOf(stack) = {} /\ <<>> \in Seq(Call) /\ Len(<<>>) = Len(stack) /\ Len(<<>>) = 0
  BY <1>1, EmptySeq DEF PathOf
<1> HIDE DEF m
<1>4. \A i \in 1 .. Len(<<>>) : FALSE
  BY <1>3
<1> QED BY <1>1, <1>2, <1>3, <1>4, InvestigateVisit

LEMMA FollowEdgeVisit ==
    ASSUME VisitInv, connections \in [Member -> Seq(Member)], FollowEdge
    PROVE  VisitInv'
<1> DEFINE m == NextEdge
           n == Len(stack)
<1>1. /\ stack # <<>> /\ Last(stack).edges # <<>> /\ m \in ToSet(graph)
      /\ UNCHANGED connections /\ graph' = RemoveFirst(graph, m)
      /\ Investigate(m, PathOf(stack), Advanced)
  BY DEF FollowEdge, Removed, currentPath, PathOf
<1>2. /\ RemoveFirst(graph, m) \in Seq(Member) /\ IsInjective(RemoveFirst(graph, m))
      /\ ToSet(RemoveFirst(graph, m)) = ToSet(graph) \ {m}
      /\ Len(RemoveFirst(graph, m)) = Len(graph) - 1
  BY <1>1, RemoveFirstDistinct DEF VisitInv
<1>3. /\ n \in Nat /\ n # 0
      /\ Advanced \in Seq(Call) /\ Len(Advanced) = n
      /\ \A i \in 1 .. n : Advanced[i].member = stack[i].member
      /\ \A i \in 1 .. n - 1 : Advanced[i] = stack[i]
      /\ ToSet(Advanced[n].edges) \subseteq ToSet(stack[n].edges)
      /\ m \in ToSet(stack[n].edges)
  BY <1>1, AdvancedCalls DEF VisitInv
<1>4. \A i \in 1 .. n : ToSet(Advanced[i].edges) \subseteq ToSet(stack[i].edges)
  <2> TAKE i \in 1 .. n
  <2>1. CASE i \in 1 .. n - 1
    <3>1. Advanced[i] = stack[i]
      BY <1>3, <2>1
    <3> QED BY <3>1
  <2>2. CASE i = n
    BY <1>3, <2>2
  <2>3. i \in 1 .. n - 1 \/ i = n
    BY <1>3
  <2> QED BY <2>1, <2>2, <2>3
<1>5. m \in Member /\ \A i \in 1 .. n : stack[i].member \in Member
  <2>1. ToSet(graph) \subseteq Member
    BY LenProperties, ElementOfSeq DEF VisitInv, ToSet
  <2>2. \A i \in 1 .. n : stack[i] \in Call
    BY ElementOfSeq DEF VisitInv
  <2> QED BY <1>1, <2>1, <2>2 DEF Call
<1>6. ASSUME NEW i \in 1 .. n PROVE m \in Reachable(stack[i].member)
  <2>1. n \in 1 .. n /\ i \in 1 .. n
    BY <1>3
  <2>2. stack[n].member \in Reachable(stack[i].member)
    BY <2>1 DEF VisitInv
  <2>3. Edge(stack[n].member, m)
    BY <1>3, <2>1 DEF VisitInv, Edge
  <2> HIDE DEF m, n
  <2> QED BY <1>5, <2>2, <2>3, ReachableNext
<1> HIDE DEF m
<1> QED BY <1>1, <1>2, <1>3, <1>4, <1>6, InvestigateVisit

(* The calls in progress change, the graph and the result do not.          *)
LEMMA CallsVisit ==
    ASSUME VisitInv, stack # <<>>, IgnoreVisited \/ Return
    PROVE  VisitInv'
<1> DEFINE n == Len(stack)
<1>1. UNCHANGED <<connections, graph, oBlindSpots>>
  BY DEF IgnoreVisited, Return
<1>2. /\ \A p, q : Edge(p, q)' <=> Edge(p, q)
      /\ \A p : Reachable(p)' = Reachable(p)
  BY <1>1, SameEdges
<1>3. ReportsSinksAndLoops'
  BY <1>1, <1>2 DEF VisitInv, ReportsSinksAndLoops
<1>4. n \in Nat /\ Len(graph) \in Nat /\ Len(Nodes) \in Nat /\ Len(Topics) \in Nat
  BY ViewAssumption, LenProperties DEF VisitInv
<1>5. /\ stack' \in Seq(Call) /\ Len(stack') \in Nat /\ Len(stack') <= n
      /\ \A i \in 1 .. Len(stack') : /\ stack'[i].member = stack[i].member
                                     /\ ToSet(stack'[i].edges) \subseteq ToSet(stack[i].edges)
      /\ PathOf(stack') \subseteq PathOf(stack)
  <2>1. CASE IgnoreVisited
    <3>1. /\ stack' = Advanced /\ Last(stack).edges # <<>>
      BY <2>1 DEF IgnoreVisited
    <3>2. /\ Advanced \in Seq(Call) /\ Len(Advanced) = n /\ n # 0
          /\ \A i \in 1 .. n : Advanced[i].member = stack[i].member
          /\ \A i \in 1 .. n - 1 : Advanced[i] = stack[i]
          /\ ToSet(Advanced[n].edges) \subseteq ToSet(stack[n].edges)
      BY <3>1, AdvancedCalls DEF VisitInv
    <3>3. \A i \in 1 .. n : i \in 1 .. n - 1 \/ i = n
      BY <1>4, <3>2
    <3>4. PathOf(Advanced) = PathOf(stack)
      BY <3>2, PathOfSame DEF VisitInv
    <3> HIDE DEF n
    <3> QED BY <1>4, <3>1, <3>2, <3>3, <3>4
  <2>2. CASE Return
    <3>1. stack' = Front(stack)
      BY <2>2 DEF Return
    <3>2. /\ Front(stack) \in Seq(Call) /\ Len(Front(stack)) = n - 1
          /\ \A i \in 1 .. n - 1 : Front(stack)[i] = stack[i]
          /\ PathOf(stack) = PathOf(Front(stack)) \cup {Last(stack).member}
      BY FrontCalls DEF VisitInv
    <3>3. n # 0
      BY EmptySeq DEF VisitInv
    <3>4. n - 1 \in Nat /\ n - 1 <= n
      BY <1>4, <3>3
    <3> QED BY <3>1, <3>2, <3>4
  <2> QED BY <2>1, <2>2
<1>6. /\ \A j \in 1 .. Len(stack') : \A i \in 1 .. j : stack'[j].member \in Reachable(stack'[i].member)
      /\ \A i \in 1 .. Len(stack') : ToSet(stack'[i].edges) \subseteq ToSet(connections[stack'[i].member])
  <2>1. ASSUME NEW j \in 1 .. Len(stack'), NEW i \in 1 .. j
        PROVE  stack'[j].member \in Reachable(stack'[i].member)
    <3>1. i \in 1 .. Len(stack') /\ j \in 1 .. n
      BY <1>4, <1>5
    <3>2. stack[j].member \in Reachable(stack[i].member)
      BY <3>1 DEF VisitInv
    <3>3. stack'[j].member = stack[j].member /\ stack'[i].member = stack[i].member
      BY <1>5, <3>1
    <3> QED BY <3>2, <3>3
  <2>2. ASSUME NEW i \in 1 .. Len(stack')
        PROVE  ToSet(stack'[i].edges) \subseteq ToSet(connections[stack'[i].member])
    <3>1. i \in 1 .. n
      BY <1>4, <1>5
    <3>2. ToSet(stack[i].edges) \subseteq ToSet(connections[stack[i].member])
      BY <3>1 DEF VisitInv
    <3> QED BY <1>5, <3>2
  <2> QED BY <2>1, <2>2
<1>7. Len(stack') + Len(graph') <= Len(Nodes) + Len(Topics)
  BY <1>1, <1>4, <1>5 DEF VisitInv
<1>8. /\ ToSet(graph') \cap PathOf(stack') = {}
      /\ ToSet(oBlindSpots') \cap (ToSet(graph') \cup PathOf(stack')) = {}
  BY <1>1, <1>5 DEF VisitInv
<1> QED BY <1>1, <1>2, <1>3, <1>5, <1>6, <1>7, <1>8 DEF VisitInv

(* The view is built before the search has started or reported anything.   *)
LEMMA BuildVisit ==
    ASSUME BuildInv, VisitInv, GetFullGraphView
    PROVE  VisitInv'
<1>1. stack = <<>> /\ oBlindSpots = <<>> /\ UNCHANGED <<stack, oBlindSpots>>
  BY DEF GetFullGraphView, AddVertices, AddSub, AddPub, AddSend, AddEdges, BuildInv
<1>2. Len(<<>>) = 0 /\ PathOf(<<>>) = {} /\ ToSet(<<>>) = {}
  BY DEF PathOf, ToSet
<1>3. ReportsSinksAndLoops'
  BY <1>1, <1>2 DEF ReportsSinksAndLoops
<1>4. /\ graph' \in Seq(Member) /\ IsInjective(graph') /\ Len(graph') \in Nat
      /\ Len(graph') <= Len(Nodes) + Len(Topics)
  <2>1. CASE AddVertices
    <3>1. graph' \in Seq(Member) /\ IsInjective(graph') /\ Len(graph') <= Len(Nodes) + Len(Topics)
      BY <2>1, VerticesOnce DEF AddVertices, BuildInv
    <3> QED BY <3>1, LenProperties
  <2>2. CASE AddSub \/ AddPub \/ AddSend
    <3>1. graph' = graph
      BY <2>2 DEF AddSub, AddPub, AddSend, AddEdges
    <3>2. Len(graph) \in Nat /\ 0 + Len(graph) <= Len(Nodes) + Len(Topics)
      BY <1>1, <1>2, LenProperties DEF VisitInv
    <3>3. 0 + Len(graph) = Len(graph)
      BY <3>2
    <3> QED BY <3>1, <3>2, <3>3 DEF VisitInv
  <2> QED BY <2>1, <2>2 DEF GetFullGraphView
<1>5. stack' = <<>> /\ oBlindSpots' = <<>> /\ Len(stack') = 0
  BY <1>1, <1>2
<1>6. \A i \in 1 .. Len(stack') : FALSE
  BY <1>5
<1>7. 0 + Len(graph') = Len(graph')
  BY <1>4
<1>8. ToSet(oBlindSpots') = {} /\ PathOf(stack') = {}
  BY <1>2, <1>5
<1>9. IsInjective(oBlindSpots') /\ oBlindSpots' \in Seq(Member) /\ stack' \in Seq(Call)
  BY <1>1 DEF VisitInv
<1> QED BY <1>3, <1>4, <1>5, <1>6, <1>7, <1>8, <1>9 DEF VisitInv

LEMMA InitVisit == Init => VisitInv
<1> SUFFICES ASSUME Init PROVE VisitInv
  OBVIOUS
<1>1. stack = <<>> /\ oBlindSpots = <<>> /\ graph = <<>>
  BY DEF Init
<1>2. /\ Len(<<>>) = 0 /\ PathOf(<<>>) = {} /\ ToSet(<<>>) = {} /\ IsInjective(<<>>)
      /\ <<>> \in Seq(Member) /\ <<>> \in Seq(Call)
  BY EmptySeq DEF PathOf, ToSet, IsInjective
<1>3. ReportsSinksAndLoops
  BY <1>1, <1>2 DEF ReportsSinksAndLoops
<1>4. Len(stack) + Len(graph) <= Len(Nodes) + Len(Topics)
  BY <1>1, <1>2, ViewAssumption, LenProperties
<1>5. \A i \in 1 .. Len(stack) : FALSE
  BY <1>1, <1>2
<1> QED BY <1>1, <1>2, <1>3, <1>4, <1>5 DEF VisitInv

LEMMA VisitInvariance == Spec => []VisitInv
<1>1. BuildInv /\ VisitInv /\ [Next]_vars => VisitInv'
  <2> SUFFICES ASSUME BuildInv, VisitInv, [Next]_vars PROVE VisitInv'
    OBVIOUS
  <2>1. CASE UNCHANGED vars
    BY <2>1 DEF vars, searchVars, VisitInv, ReportsSinksAndLoops, Reachable, Edge
  <2>2. CASE GetBlindspots
    <3>1. connections \in [Member -> Seq(Member)] /\ Search
      BY <2>2 DEF BuildInv, GetBlindspots
    <3>2. IgnoreVisited \/ Return => stack # <<>>
      BY DEF IgnoreVisited, Return
    <3> QED BY <3>1, <3>2, StartTraceVisit, FollowEdgeVisit, CallsVisit DEF Search
  <2> QED BY <2>1, <2>2, BuildVisit DEF Next, Terminated
<1> QED BY <1>1, InitVisit, BuildInvariance, InitBuild, PTL DEF Spec

(* The recursion of getBlindspotsInternal is never deeper than the graph   *)
(* has members, on any view: what is in a call is no longer in the graph.  *)
THEOREM ViewTypeCorrect == Spec => []TypeOK
<1>1. BuildInv /\ VisitInv => TypeOK
  <2> SUFFICES ASSUME BuildInv, VisitInv PROVE TypeOK
    OBVIOUS
  <2>1. /\ Len(stack) \in Nat /\ Len(graph) \in Nat
        /\ Len(Nodes) \in Nat /\ Len(Topics) \in Nat
    BY ViewAssumption, LenProperties DEF VisitInv
  <2>2. Len(stack) <= Len(Nodes) + Len(Topics)
    BY <2>1 DEF VisitInv
  <2> QED BY <2>2 DEF BuildInv, VisitInv, TypeOK, SearchTypeOK, Call
<1> QED BY <1>1, BuildInvariance, VisitInvariance, PTL

(* Vertices are erased from the graph as they are visited: no member is    *)
(* reported twice, nor visited again after it was reported.                *)
THEOREM NoneTwice == Spec => []ReportedOnce
<1>1. VisitInv => ReportedOnce
  BY DEF VisitInv, ReportedOnce, IsInjective, currentPath, PathOf
<1> QED BY <1>1, VisitInvariance, PTL

(* What every step of the search, and of the construction of the view,     *)
(* brings nearer to the end: the stages of the construction, then the      *)
(* members left in the graph, the calls, the edges of the innermost one.   *)
Stages == <<"vertices", "sub", "pub", "send", "search">>
NearerToEnd ==
    \/ \E i \in 1 .. 4 : building = Stages[i] /\ building' = Stages[i + 1]
    \/ /\ building' = building
       /\ \/ Len(graph') < Len(graph)
          \/ Len(graph') = Len(graph) /\ Len(stack') < Len(stack)
          \/ /\ Len(graph') = Len(graph) /\ Len(stack') = Len(stack) /\ stack # <<>>
             /\ Len(Last(stack').edges) < Len(Last(stack).edges)

(* No sequence of steps of getBlindspotsInternal goes on for ever, whatever*)
(* loops the view has: a lexicographic measure of numbers falls with each. *)
THEOREM SearchProgresses == Spec => [][NearerToEnd]_vars
<1>1. ASSUME VisitInv, BuildInv, [Next]_vars PROVE [NearerToEnd]_vars
  <2>a. /\ Len(graph) \in Nat /\ Len(stack) \in Nat
        /\ graph \in Seq(Member) /\ IsInjective(graph) /\ stack \in Seq(Call)
    BY <1>1, LenProperties DEF VisitInv
  <2>1. CASE GetFullGraphView
    <3>1. /\ Stages[1] = "vertices" /\ Stages[2] = "sub" /\ Stages[3] = "pub"
          /\ Stages[4] = "send" /\ Stages[5] = "search"
      BY DEF Stages
    <3> HIDE DEF Stages
    <3>2. /\ AddVertices => building = "vertices" /\ building' = "sub"
          /\ AddSub => building = "sub" /\ building' = "pub"
          /\ AddPub => building = "pub" /\ building' = "send"
          /\ AddSend => building = "send" /\ building' = "search"
      BY Zenon DEF AddVertices, AddSub, AddPub, AddSend, AddEdges
    <3>3. \E i \in 1 .. 4 : building = Stages[i] /\ building' = Stages[i + 1]
      <4>1. CASE AddVertices
        <5>1. building = Stages[1] /\ building' = Stages[1 + 1]
          BY <3>1, <3>2, <4>1
        <5> QED BY <5>1
      <4>2. CASE AddSub
        <5>1. building = Stages[2] /\ building' = Stages[2 + 1]
          BY <3>1, <3>2, <4>2
        <5> QED BY <5>1
      <4>3. CASE AddPub
        <5>1. building = Stages[3] /\ building' = Stages[3 + 1]
          BY <3>1, <3>2, <4>3
        <5> QED BY <5>1
      <4>4. CASE AddSend
        <5>1. building = Stages[4] /\ building' = Stages[4 + 1]
          BY <3>1, <3>2, <4>4
        <5> QED BY <5>1
      <4> QED BY <2>1, <4>1, <4>2, <4>3, <4>4 DEF GetFullGraphView
    <3> QED BY <3>3 DEF NearerToEnd
  <2>2. CASE GetBlindspots
    <3>1. building' = building /\ Search
      BY <2>2 DEF GetBlindspots
    <3>2. ASSUME StartTrace PROVE Len(graph') < Len(graph)
      <4>1. graph # <<>> /\ graph' = Front(graph)
        BY <3>2 DEF StartTrace
      <4>2. Len(Front(graph)) = Len(graph) - 1
        BY <2>a, <4>1, FrontDistinct
      <4> QED BY <2>a, <4>1, <4>2
    <3>3. ASSUME FollowEdge PROVE Len(graph') < Len(graph)
      <4>1. NextEdge \in ToSet(graph) /\ graph' = RemoveFirst(graph, NextEdge)
        BY <3>3 DEF FollowEdge, Removed
      <4> HIDE DEF NextEdge
      <4>2. Len(RemoveFirst(graph, NextEdge)) = Len(graph) - 1
        BY <2>a, <4>1, RemoveFirstDistinct
      <4> QED BY <2>a, <4>1, <4>2
    <3>4. ASSUME Return PROVE graph' = graph /\ Len(stack') < Len(stack)
      <4>1. stack # <<>> /\ stack' = Front(stack) /\ graph' = graph
        BY <3>4 DEF Return
      <4>2. Len(Front(stack)) = Len(stack) - 1
        BY <2>a, <4>1, FrontCalls
      <4> QED BY <2>a, <4>1, <4>2
    <3>5. ASSUME IgnoreVisited
          PROVE  /\ graph' = graph /\ Len(stack') = Len(stack) /\ stack # <<>>
                 /\ Len(Last(stack').edges) < Len(Last(stack).edges)
      <4>1. /\ stack # <<>> /\ Last(stack).edges # <<>> /\ graph' = graph
            /\ stack' = [stack EXCEPT ![Len(stack)].edges = Tail(@)]
        BY <3>5 DEF IgnoreVisited, Advanced
      <4> DEFINE n == Len(stack)
                 top == stack[n]
      <4>2. n \in 1 .. n /\ n \in Nat /\ DOMAIN stack = 1 .. n
        BY <2>a, <4>1, LenProperties, EmptySeq
      <4>3. top \in Call /\ top.edges \in Seq(Member) /\ Last(stack) = top
        <5>1. top \in Call /\ Last(stack) = top
          BY <2>a, <4>1, FrontCalls
        <5> HIDE DEF top
        <5> QED BY <5>1 DEF Call
      <4>4. /\ Len(stack') = n /\ stack'[n] = [top EXCEPT !.edges = Tail(@)]
        BY <2>a, <4>1, <4>2
      <4>5. stack'[n].edges = Tail(top.edges)
        BY <4>3, <4>4 DEF Call
      <4>6. Last(stack') = stack'[n]
        BY <4>4 DEF Last
      <4>7. Len(Tail(top.edges)) = Len(top.edges) - 1 /\ Len(top.edges) \in Nat
        BY <4>1, <4>3, LenProperties, HeadTailProperties
      <4> HIDE DEF n, top
      <4>8. Len(Last(stack').edges) < Len(Last(stack).edges)
        <5>1. Last(stack').edges = Tail(top.edges) /\ Last(stack).edges = top.edges
          BY <4>3, <4>5, <4>6
        <5>2. Len(Tail(top.edges)) < Len(top.edges)
          BY <4>7
        <5> QED BY <5>1, <5>2
      <4> QED BY <4>1, <4>4, <4>8 DEF n
    <3> QED BY <3>1, <3>2, <3>3, <3>4, <3>5 DEF Search, NearerToEnd
  <2>3. CASE UNCHANGED vars
    BY <2>3
  <2> QED BY <1>1, <2>1, <2>2, <2>3 DEF Next, Terminated
<1> QED BY <1>1, BuildInvariance, VisitInvariance, PTL DEF Spec

(* What is reported with an outgoing edge lies on a loop.                  *)
THEOREM SinksAndLoops == Spec => []ReportsSinksAndLoops
<1>1. VisitInv => ReportsSinksAndLoops
  BY DEF VisitInv
<1> QED BY <1>1, VisitInvariance, PTL

-----------------------------------------------------------------------------
(* m is accounted for: where all that it can reach is simple, it can reach *)
(* what was reported.                                                      *)
Covered(m) ==
    (\A n \in Reachable(m) : Simple(n)) => Reachable(m) \cap ToSet(oBlindSpots) # {}

(* A call for a member with one edge leads to none of the members below it *)
(* on the path, and has not yet followed its edge, or has and found or     *)
(* removed its target.                                                     *)
CallsInv ==
    \A i \in 1 .. Len(stack) :
        LET out == connections[stack[i].member]
        IN  /\ out # <<>>
            /\ Len(out) = 1 =>
                  /\ \A j \in 1 .. i - 1 : stack[j].member # out[1]
                  /\ stack[i].edges = out \/ (stack[i].edges = <<>> /\ out[1] \notin ToSet(graph))

(* Every vertex that the search is done with is accounted for.             *)
CoverInv ==
    building = "search" =>
        /\ CallsInv
        /\ \A m \in Vertices \ (ToSet(graph) \cup PathOf(stack)) : Covered(m)

(* What is accounted for stays so.                                         *)
LEMMA StaysCovered ==
    ASSUME connections' = connections, ToSet(oBlindSpots) \subseteq ToSet(oBlindSpots'),
           NEW m, Covered(m)
    PROVE  Covered(m)'
<1>1. Reachable(m)' = Reachable(m) /\ \A n : Simple(n)' <=> Simple(n)
  BY SameEdges
<1> QED BY <1>1 DEF Covered

(* The call for a member that is taken from the graph                      *)
LEMMA InvestigateCover ==
    ASSUME BuildInv, VisitInv, CoverInv, building = "search",
           UNCHANGED <<connections, response, building>>,
           NEW m \in ToSet(graph), NEW path, path = PathOf(stack), NEW rest \in Seq(Call),
           Len(rest) = Len(stack),
           \A i \in 1 .. Len(rest) :
              /\ rest[i].member = stack[i].member
              /\ LET out == connections[rest[i].member]
                 IN  Len(out) = 1 =>
                        rest[i].edges = out \/ (rest[i].edges = <<>> /\ out[1] \notin ToSet(graph')),
           ToSet(graph') = ToSet(graph) \ {m},
           Investigate(m, path, rest)
    PROVE  CoverInv'
<1> DEFINE n == Len(stack)
<1>1. /\ n \in Nat /\ m \in Member /\ graph \in Seq(Member)
      /\ \A i \in 1 .. n : rest[i] \in Call
  BY LenProperties, ElementOfSeq DEF VisitInv, ToSet
<1>2. PathOf(rest) = PathOf(stack)
  BY PathOfSame DEF VisitInv
<1>3. Vertices' = Vertices /\ building' = "search" /\ CallsInv
      /\ \A p \in Vertices \ (ToSet(graph) \cup PathOf(stack)) : Covered(p)
  BY DEF Vertices, CoverInv
<1>4. ASSUME NEW i \in 1 .. n
      PROVE  LET out == connections[rest[i].member]
             IN  /\ out # <<>>
                 /\ Len(out) = 1 =>
                       /\ \A j \in 1 .. i - 1 : rest[j].member # out[1]
                       /\ rest[i].edges = out \/ (rest[i].edges = <<>> /\ out[1] \notin ToSet(graph'))
  <2> DEFINE out == connections[rest[i].member]
  <2>1. rest[i].member = stack[i].member /\ out = connections[stack[i].member]
    OBVIOUS
  <2>2. out # <<>> /\ (Len(out) = 1 => \A j \in 1 .. i - 1 : stack[j].member # out[1])
    BY <1>3, <2>1 DEF CallsInv
  <2>3. \A j \in 1 .. i - 1 : rest[j].member = stack[j].member
    <3>1. \A j \in 1 .. i - 1 : j \in 1 .. Len(rest)
      BY <1>1
    <3> QED BY <3>1
  <2>4. Len(out) = 1 =>
           rest[i].edges = out \/ (rest[i].edges = <<>> /\ out[1] \notin ToSet(graph'))
    OBVIOUS
  <2> HIDE DEF out
  <2>5. Len(out) = 1 => \A j \in 1 .. i - 1 : rest[j].member # out[1]
    BY <2>2, <2>3
  <2> QED BY <2>2, <2>4, <2>5 DEF out
<1>5. CASE IsBlindSpot(m, path)
  <2>1. oBlindSpots' = Append(oBlindSpots, m) /\ stack' = rest
    BY <1>5 DEF Investigate
  <2>2. ToSet(oBlindSpots') = ToSet(oBlindSpots) \cup {m}
    BY <1>1, <2>1, AppendElements DEF VisitInv
  <2>3. CallsInv'
    BY <1>4, <2>1 DEF CallsInv
  <2>4. Covered(m)'
    <3>1. m \in Reachable(m)' /\ m \in ToSet(oBlindSpots')
      BY <1>1, <2>2, SameEdges, ReachableSelf
    <3> QED BY <3>1 DEF Covered
  <2>5. PathOf(stack') = PathOf(stack)
    BY <1>2, <2>1
  <2>6. \A p \in Vertices \ (ToSet(graph') \cup PathOf(stack')) : Covered(p)'
    <3> SUFFICES ASSUME NEW p \in Vertices \ (ToSet(graph') \cup PathOf(stack')), p # m
                 PROVE  Covered(p)'
      BY <2>4
    <3>1. Covered(p)
      BY <1>3, <2>5
    <3> QED BY <2>2, <3>1, StaysCovered
  <2> QED BY <1>3, <2>3, <2>6 DEF CoverInv
<1>6. CASE ~IsBlindSpot(m, path)
  <2> DEFINE c == [member |-> m, edges |-> connections[m]]
             t == Append(rest, c)
  <2>1. oBlindSpots' = oBlindSpots /\ stack' = t
    BY <1>6 DEF Investigate
  <2>2. c \in Call /\ c.member = m /\ c.edges = connections[m]
    BY <1>1 DEF Call, BuildInv
  <2>3. /\ t \in Seq(Call) /\ Len(t) = n + 1
        /\ \A i \in 1 .. n : t[i] = rest[i]
        /\ t[n + 1] = c
        /\ PathOf(t) = PathOf(stack) \cup {m}
    BY <1>2, <2>2, AppendProperties, PathOfAppend
  <2> HIDE DEF t, c
  <2>4. connections[m] # <<>> /\ (Len(connections[m]) = 1 => connections[m][1] \notin PathOf(rest))
    BY <1>2, <1>6 DEF IsBlindSpot
  <2>5. ASSUME NEW i \in 1 .. n + 1
        PROVE  LET out == connections[t[i].member]
               IN  /\ out # <<>>
                   /\ Len(out) = 1 =>
                         /\ \A j \in 1 .. i - 1 : t[j].member # out[1]
                         /\ t[i].edges = out \/ (t[i].edges = <<>> /\ out[1] \notin ToSet(graph'))
    <3>1. \A j \in 1 .. i - 1 : t[j] = rest[j] /\ j \in 1 .. n
      BY <1>1, <2>3
    <3>2. CASE i \in 1 .. n
      <4>1. t[i] = rest[i]
        BY <2>3, <3>2
      <4> QED BY <1>4, <3>1, <3>2, <4>1
    <3>3. CASE i = n + 1
      <4>1. t[i].member = m /\ t[i].edges = connections[m]
        BY <2>2, <2>3, <3>3
      <4>2. \A j \in 1 .. i - 1 : t[j].member \in PathOf(rest)
        <5>1. DOMAIN rest = 1 .. n
          BY LenProperties
        <5> QED BY <3>1, <5>1 DEF PathOf
      <4> QED BY <2>4, <4>1, <4>2
    <3> QED BY <1>1, <3>2, <3>3
  <2>6. CallsInv'
    BY <2>1, <2>3, <2>5 DEF CallsInv
  <2>7. ToSet(graph') \cup PathOf(t) = ToSet(graph) \cup PathOf(stack)
    BY <2>3
  <2>8. \A p \in Vertices \ (ToSet(graph') \cup PathOf(stack')) : Covered(p)'
    BY <1>3, <2>1, <2>7, StaysCovered
  <2> QED BY <1>3, <2>6, <2>8 DEF CoverInv
<1> QED BY <1>5, <1>6

LEMMA StartTraceCover ==
    ASSUME BuildInv, VisitInv, CoverInv, building = "search", StartTrace,
           UNCHANGED <<response, building>>
    PROVE  CoverInv'
<1> DEFINE m == Last(graph)
<1>1. /\ graph # <<>> /\ stack = <<>> /\ UNCHANGED connections
      /\ graph' = Front(graph) /\ Investigate(m, {}, <<>>)
  BY DEF StartTrace
<1>2. m \in ToSet(graph) /\ ToSet(Front(graph)) = ToSet(graph) \ {m}
  BY <1>1, FrontDistinct DEF VisitInv
<1>3. PathOf(stack) = {} /\ <<>> \in Seq(Call) /\ Len(<<>>) = Len(stack) /\ Len(<<>>) = 0
  BY <1>1, EmptySeq DEF PathOf
<1> HIDE DEF m
<1>4. \A i \in 1 .. Len(<<>>) : FALSE
  BY <1>3
<1> QED BY <1>1, <1>2, <1>3, <1>4, InvestigateCover

(* The innermost call has taken its next edge, whose target is no longer   *)
(* in the graph: nothing else of it is left if it was the only one.        *)
LEMMA AdvancedCover ==
    ASSUME BuildInv, VisitInv, CallsInv, stack # <<>>, Last(stack).edges # <<>>,
           NEW G, G \subseteq ToSet(graph) \ {NextEdge}
    PROVE  \A i \in 1 .. Len(Advanced) :
              /\ Advanced[i].member = stack[i].member
              /\ LET out == connections[Advanced[i].member]
                 IN  Len(out) = 1 => \/ Advanced[i].edges = out
                                     \/ Advanced[i].edges = <<>> /\ out[1] \notin G
<1> DEFINE n == Len(stack)
<1>1. /\ n \in Nat /\ n # 0 /\ Len(Advanced) = n
      /\ \A i \in 1 .. n : Advanced[i].member = stack[i].member
      /\ \A i \in 1 .. n - 1 : Advanced[i] = stack[i]
      /\ Advanced[n].edges = Tail(stack[n].edges)
      /\ stack[n].edges \in Seq(Member) /\ stack[n].edges # <<>>
      /\ NextEdge = stack[n].edges[1]
  BY AdvancedCalls DEF VisitInv
<1> SUFFICES ASSUME NEW i \in 1 .. n
             PROVE  LET out == connections[stack[i].member]
                    IN  Len(out) = 1 => \/ Advanced[i].edges = out
                                        \/ Advanced[i].edges = <<>> /\ out[1] \notin G
  BY <1>1
<1> DEFINE out == connections[stack[i].member]
<1>2. Len(out) = 1 =>
         stack[i].edges = out \/ (stack[i].edges = <<>> /\ out[1] \notin ToSet(graph))
  BY DEF CallsInv
<1> HIDE DEF out
<1> SUFFICES ASSUME Len(out) = 1
             PROVE  Advanced[i].edges = out \/ (Advanced[i].edges = <<>> /\ out[1] \notin G)
  BY DEF out
<1>3. CASE i \in 1 .. n - 1
  <2>1. Advanced[i] = stack[i]
    BY <1>1, <1>3
  <2> QED BY <1>2, <2>1
<1>4. CASE i = n
  <2>1. stack[n].edges = out /\ out[1] = NextEdge
    BY <1>1, <1>2, <1>4
  <2>2. out \in Seq(Member) /\ out # <<>>
    BY <1>1, <2>1
  <2>3. Tail(out) \in Seq(Member) /\ Len(Tail(out)) = 0
    BY <2>2, HeadTailProperties
  <2>4. Tail(out) = <<>>
    BY <2>3, EmptySeq
  <2> QED BY <1>1, <1>4, <2>1, <2>4
<1> QED BY <1>1, <1>3, <1>4

LEMMA FollowEdgeCover ==
    ASSUME BuildInv, VisitInv, CoverInv, building = "search", FollowEdge,
           UNCHANGED <<response, building>>
    PROVE  CoverInv'
<1> DEFINE m == NextEdge
<1>1. /\ stack # <<>> /\ Last(stack).edges # <<>> /\ m \in ToSet(graph)
      /\ UNCHANGED connections /\ graph' = RemoveFirst(graph, m)
      /\ Investigate(m, PathOf(stack), Advanced)
  BY DEF FollowEdge, Removed, currentPath, PathOf
<1>2. ToSet(graph') = ToSet(graph) \ {m}
  BY <1>1, RemoveFirstDistinct DEF VisitInv
<1>3. Advanced \in Seq(Call) /\ Len(Advanced) = Len(stack)
  BY <1>1, AdvancedCalls DEF VisitInv
<1>4. \A i \in 1 .. Len(Advanced) :
         /\ Advanced[i].member = stack[i].member
         /\ LET out == connections[Advanced[i].member]
            IN  Len(out) = 1 => \/ Advanced[i].edges = out
                                \/ Advanced[i].edges = <<>> /\ out[1] \notin ToSet(graph')
  BY <1>1, <1>2, AdvancedCover DEF CoverInv
<1> HIDE DEF m
<1> QED BY <1>1, <1>2, <1>3, <1>4, InvestigateCover

LEMMA IgnoreVisitedCover ==
    ASSUME BuildInv, VisitInv, CoverInv, building = "search", IgnoreVisited,
           UNCHANGED <<response, building>>
    PROVE  CoverInv'
<1>1. /\ stack # <<>> /\ Last(stack).edges # <<>> /\ NextEdge \notin ToSet(graph)
      /\ stack' = Advanced /\ UNCHANGED <<connections, graph, oBlindSpots>>
  BY DEF IgnoreVisited
<1>2. /\ Advanced \in Seq(Call) /\ Len(Advanced) = Len(stack) /\ Len(stack) \in Nat
      /\ \A i \in 1 .. Len(stack) : Advanced[i].member = stack[i].member
  BY <1>1, AdvancedCalls DEF VisitInv
<1>3. PathOf(Advanced) = PathOf(stack)
  BY <1>2, PathOfSame DEF VisitInv
<1>4. \A i \in 1 .. Len(Advanced) :
         /\ Advanced[i].member = stack[i].member
         /\ LET out == connections[Advanced[i].member]
            IN  Len(out) = 1 => \/ Advanced[i].edges = out
                                \/ Advanced[i].edges = <<>> /\ out[1] \notin ToSet(graph)
  BY <1>1, AdvancedCover DEF CoverInv
<1>5. ASSUME NEW i \in 1 .. Len(Advanced)
      PROVE  LET out == connections[Advanced[i].member]
             IN  out # <<>> /\ (Len(out) = 1 => \A j \in 1 .. i - 1 : Advanced[j].member # out[1])
  <2>1. \A j \in 1 .. i - 1 : Advanced[j].member = stack[j].member
    BY <1>2
  <2>2. LET out == connections[stack[i].member]
        IN  out # <<>> /\ (Len(out) = 1 => \A j \in 1 .. i - 1 : stack[j].member # out[1])
    BY <1>2 DEF CoverInv, CallsInv
  <2> QED BY <1>2, <2>1, <2>2
<1>6. CallsInv'
  BY <1>1, <1>4, <1>5 DEF CallsInv
<1>7. ASSUME NEW m, Covered(m) PROVE Covered(m)'
  BY <1>1, <1>7, StaysCovered
<1>8. Vertices' = Vertices
  BY DEF Vertices
<1> QED BY <1>1, <1>3, <1>6, <1>7, <1>8 DEF CoverInv

(* A call ends: the only edge of a simple member leads to one that the     *)
(* search is done with, as it is neither below on the path nor left.       *)
LEMMA ReturnCover ==
    ASSUME BuildInv, VisitInv, CoverInv, building = "search", Return,
           UNCHANGED <<response, building>>
    PROVE  CoverInv'
<1> DEFINE n == Len(stack)
           m == Last(stack).member
           out == connections[m]
<1>1. /\ stack # <<>> /\ Last(stack).edges = <<>> /\ stack' = Front(stack)
      /\ UNCHANGED <<connections, graph, oBlindSpots>>
  BY DEF Return
<1>2. /\ Front(stack) \in Seq(Call) /\ Len(Front(stack)) = n - 1
      /\ \A i \in 1 .. n - 1 : Front(stack)[i] = stack[i]
      /\ Last(stack) = stack[n] /\ Last(stack) \in Call
      /\ PathOf(stack) = PathOf(Front(stack)) \cup {m}
  BY <1>1, FrontCalls DEF VisitInv
<1>3. n \in Nat /\ n # 0
  BY <1>1, EmptySeq, LenProperties DEF VisitInv
<1>4. CallsInv'
  <2> SUFFICES ASSUME NEW i \in 1 .. n - 1
               PROVE  LET edges == connections[Front(stack)[i].member]
                      IN  /\ edges # <<>>
                          /\ Len(edges) = 1 =>
                                /\ \A j \in 1 .. i - 1 : Front(stack)[j].member # edges[1]
                                /\ \/ Front(stack)[i].edges = edges
                                   \/ Front(stack)[i].edges = <<>> /\ edges[1] \notin ToSet(graph)
    BY <1>1, <1>2 DEF CallsInv
  <2>1. Front(stack)[i] = stack[i] /\ i \in 1 .. n
    BY <1>2, <1>3
  <2>2. \A j \in 1 .. i - 1 : Front(stack)[j] = stack[j]
    BY <1>2, <1>3
  <2> QED BY <2>1, <2>2 DEF CoverInv, CallsInv
<1>5. Vertices' = Vertices
  BY DEF Vertices
<1>6. ASSUME NEW p, Covered(p) PROVE Covered(p)'
  BY <1>1, <1>6, StaysCovered
<1>7. ASSUME \A p \in Reachable(m) : Simple(p), m \notin PathOf(Front(stack))
      PROVE  Reachable(m) \cap ToSet(oBlindSpots) # {}
  <2>1. /\ m \in Member /\ n \in 1 .. n /\ m = stack[n].member
        /\ out \in Seq(Member) /\ Len(out) \in Nat
    BY <1>2, <1>3, LenProperties DEF Call, BuildInv
  <2>2. /\ out # <<>>
        /\ Len(out) = 1 =>
              /\ \A j \in 1 .. n - 1 : stack[j].member # out[1]
              /\ stack[n].edges = out \/ (stack[n].edges = <<>> /\ out[1] \notin ToSet(graph))
    BY <2>1 DEF CoverInv, CallsInv
  <2>3. Simple(m)
    BY <1>7, <2>1, ReachableSelf
  <2>4. Len(out) = 1
    <3> DEFINE k == Len(out)
    <3>1. k # 0
      BY <2>1, <2>2, EmptySeq
    <3>2. k <= 1 /\ k \in Nat
      BY <2>1, <2>3 DEF Simple
    <3> HIDE DEF k
    <3>3. k = 1
      BY <3>1, <3>2
    <3> QED BY <3>3 DEF k
  <2>5. out[1] \notin ToSet(graph) /\ \A j \in 1 .. n - 1 : stack[j].member # out[1]
    BY <1>1, <1>2, <2>2, <2>4
  <2>6. out[1] \in ToSet(out) /\ out[1] \in Member
    BY <2>1, <2>4, ElementOfSeq, LenProperties DEF ToSet
  <2>7. Edge(m, out[1])
    BY <2>6 DEF Edge
  <2>8. out[1] \in Vertices
    BY <2>1, <2>6, <2>7 DEF BuildInv
  <2>9. out[1] \notin PathOf(stack)
    <3>1. out[1] # m
      BY <2>3, <2>7 DEF Simple
    <3>2. DOMAIN Front(stack) = 1 .. n - 1
      BY <1>2, LenProperties
    <3>3. out[1] \notin PathOf(Front(stack))
      BY <1>2, <2>5, <3>2 DEF PathOf
    <3> QED BY <1>2, <3>1, <3>3
  <2>10. Covered(out[1])
    BY <2>5, <2>8, <2>9 DEF CoverInv
  <2>11. out[1] \in Reachable(m)
    BY <2>1, <2>6, <2>7, ReachableSelf, ReachableNext
  <2>12. Reachable(out[1]) \subseteq Reachable(m)
    BY <2>1, <2>11, ReachableFrom
  <2> QED BY <1>7, <2>10, <2>12 DEF Covered
<1>8. ASSUME NEW p \in Vertices \ (ToSet(graph') \cup PathOf(stack')) PROVE Covered(p)'
  <2>1. CASE p = m
    BY <1>1, <1>6, <1>7, <1>8, <2>1 DEF Covered
  <2>2. CASE p # m
    BY <1>1, <1>2, <1>6, <1>8, <2>2 DEF CoverInv
  <2> QED BY <2>1, <2>2
<1> QED BY <1>4, <1>5, <1>8 DEF CoverInv

(* The search starts with every vertex in the graph.                       *)
LEMMA BuildCover ==
    ASSUME BuildInv, GetFullGraphView
    PROVE  CoverInv'
<1> SUFFICES ASSUME building' = "search" PROVE CoverInv'
  BY DEF CoverInv
<1>1. AddSend
  BY DEF GetFullGraphView, AddVertices, AddSub, AddPub, AddSend, AddEdges
<1>2. UNCHANGED <<graph, stack, response>> /\ building = "send"
  BY <1>1 DEF AddSend, AddEdges
<1>3. stack' = <<>> /\ ToSet(graph') = Vertices
  BY <1>2 DEF BuildInv
<1>4. Vertices' = Vertices
  BY <1>2 DEF Vertices
<1>5. CallsInv'
  BY <1>3 DEF CallsInv
<1> QED BY <1>3, <1>4, <1>5 DEF CoverInv

LEMMA CoverInvariance == Spec => []CoverInv
<1>1. Init => CoverInv
  BY DEF Init, CoverInv
<1>2. BuildInv /\ VisitInv /\ CoverInv /\ [Next]_vars => CoverInv'
  <2> SUFFICES ASSUME BuildInv, VisitInv, CoverInv, [Next]_vars PROVE CoverInv'
    OBVIOUS
  <2>1. CASE UNCHANGED vars
    BY <2>1 DEF vars, searchVars, CoverInv, CallsInv, Vertices, Covered, Reachable, Edge, Simple
  <2>2. CASE GetBlindspots
    <3>1. building = "search" /\ UNCHANGED <<response, building>> /\ Search
      BY <2>2 DEF GetBlindspots
    <3> QED BY <3>1, StartTraceCover, FollowEdgeCover, IgnoreVisitedCover, ReturnCover DEF Search
  <2> QED BY <2>1, <2>2, BuildCover DEF Next, Terminated
<1> QED BY <1>1, <1>2, BuildInvariance, VisitInvariance, PTL DEF Spec

(* When the search is over, every member leads to a reported one unless it *)
(* can reach one with an edge to itself or with several edges: on every    *)
(* view, however long its chains and loops are.                            *)
THEOREM Coverage == Spec => []CoveredBySpots
<1>1. CoverInv => CoveredBySpots
  <2> SUFFICES ASSUME CoverInv, Finished, NEW m \in Vertices PROVE Covered(m)
    BY DEF CoveredBySpots, Covered
  <2>1. graph = <<>> /\ stack = <<>> /\ building = "search"
    BY DEF Finished, Done
  <2>2. ToSet(graph) = {} /\ PathOf(stack) = {}
    BY <2>1 DEF ToSet, PathOf
  <2> QED BY <2>1, <2>2 DEF CoverInv
<1> QED BY <1>1, CoverInvariance, PTL
-----------------------------------------------------------------------------
(* std::accumulate: the total after each value                             *)
LEMMA AccumulateSteps ==
    ASSUME NEW s \in Seq(Int)
    PROVE  \E F : /\ \A i \in 0 .. Len(s) : F[i] \in Int
                  /\ F[0] = 0
                  /\ \A i \in 1 .. Len(s) : F[i] = F[i - 1] + s[i]
                  /\ Accumulate(s) = F[Len(s)]
<1> DEFINE n == Len(s)
           step == [i \in 1 .. n |-> [t \in Int |-> t + s[i]]]
           Def(g) == [i \in 0 .. n |-> IF i = 0 THEN 0 ELSE g[i - 1] + s[i]]
           F == CHOOSE g : g = Def(g)
<1>1. n \in Nat /\ \A i \in 1 .. n : s[i] \in Int
  BY LenProperties, ElementOfSeq
<1>2. Accumulate(s) = F[n]
  BY DEF Accumulate
<1> HIDE DEF n
<1>3. \E g : g = Def(g)
  <2>1. step \in [1 .. n -> [Int -> Int]]
    BY <1>1
  <2>2. HasRecursion(n, Int, 0, step)
    <3> HIDE DEF step
    <3>1. 0 \in Int
      OBVIOUS
    <3> QED BY <1>1, <2>1, <3>1, RecursionExists, Zenon
  <2>3. PICK g \in [0 .. n -> Int] : IsRecursion(g, n, 0, step)
    BY <2>2 DEF HasRecursion
  <2>4. g[0] = 0
    BY <2>3 DEF IsRecursion
  <2>5. ASSUME NEW i \in 1 .. n PROVE g[i] = g[i - 1] + s[i]
    <3>1. g[i - 1] \in Int
      BY <1>1
    <3>2. step[i][g[i - 1]] = g[i - 1] + s[i]
      BY <3>1
    <3> QED BY <2>3, <3>2 DEF IsRecursion
  <2>6. g = Def(g)
    <3>1. \A i \in 0 .. n : i = 0 \/ i \in 1 .. n
      BY <1>1
    <3>2. \A i \in 0 .. n : g[i] = IF i = 0 THEN 0 ELSE g[i - 1] + s[i]
      BY <2>4, <2>5, <3>1, Zenon
    <3>3. g = [i \in 0 .. n |-> g[i]]
      OBVIOUS
    <3> QED BY <3>2, <3>3, Zenon
  <2> QED BY <2>6
<1>4. F = Def(F)
  <2> HIDE DEF Def
  <2> QED BY <1>3
<1>5. F[0] = 0
  <2> HIDE DEF F
  <2> QED BY <1>1, <1>4
<1>6. ASSUME NEW i \in 1 .. n PROVE F[i] = F[i - 1] + s[i]
  <2>1. i \in 0 .. n /\ i # 0
    BY <1>1
  <2> HIDE DEF F
  <2> QED BY <1>4, <2>1, Zenon
<1> HIDE DEF F
<1>7. \A i \in 0 .. n : F[i] \in Int
  <2>1. \A i \in 1 .. n : F[i - 1] \in Int => F[i] \in Int
    BY <1>1, <1>6
  <2>2. F[0] \in Int
    BY <1>5
  <2> HIDE DEF Def
  <2> QED BY <1>1, <2>1, <2>2, RecursionType, Zenon
<1> QED BY <1>2, <1>5, <1>6, <1>7 DEF n

(* The sum of no values, and of one more value in front                    *)
LEMMA AccumulateEmpty == Accumulate(<<>>) = 0
<1>1. <<>> \in Seq(Int) /\ Len(<<>>) = 0
  BY EmptySeq
<1> QED BY <1>1, AccumulateSteps

LEMMA AccumulateFront ==
    ASSUME NEW s \in Seq(Int), NEW t \in Seq(Int), NEW v \in Int,
           Len(t) = Len(s) + 1, t[1] = v, \A i \in 1 .. Len(s) : t[i + 1] = s[i]
    PROVE  Accumulate(t) = Accumulate(s) + v
<1>1. PICK F : /\ \A i \in 0 .. Len(s) : F[i] \in Int
               /\ F[0] = 0
               /\ \A i \in 1 .. Len(s) : F[i] = F[i - 1] + s[i]
               /\ Accumulate(s) = F[Len(s)]
  BY AccumulateSteps
<1>2. PICK G : /\ \A i \in 0 .. Len(t) : G[i] \in Int
               /\ G[0] = 0
               /\ \A i \in 1 .. Len(t) : G[i] = G[i - 1] + t[i]
               /\ Accumulate(t) = G[Len(t)]
  BY AccumulateSteps
<1> DEFINE n == Len(s)
           T == {i \in 0 .. n : G[i + 1] = F[i] + v}
<1>3. n \in Nat /\ \A i \in 1 .. n : s[i] \in Int
  BY LenProperties, ElementOfSeq
<1> HIDE DEF n
<1>4. 0 \in T
  <2>1. 1 \in 1 .. Len(t)
    BY <1>3 DEF n
  <2>2. G[1] = G[0] + t[1]
    BY <1>2, <2>1
  <2> QED BY <1>1, <1>2, <1>3, <2>2
<1>5. \A i \in 0 .. n - 1 : i \in T => i + 1 \in T
  <2> SUFFICES ASSUME NEW i \in 0 .. n - 1, G[i + 1] = F[i] + v
               PROVE  G[(i + 1) + 1] = F[i + 1] + v
    BY <1>3
  <2>1. i + 1 \in 1 .. n /\ (i + 1) + 1 \in 1 .. Len(t) /\ i \in 0 .. n
    BY <1>3 DEF n
  <2>2. G[(i + 1) + 1] = G[i + 1] + t[(i + 1) + 1]
    <3>1. ((i + 1) + 1) - 1 = i + 1
      OBVIOUS
    <3> QED BY <1>2, <2>1, <3>1
  <2>3. F[i + 1] = F[i] + s[i + 1]
    <3>1. (i + 1) - 1 = i
      OBVIOUS
    <3> QED BY <1>1, <2>1, <3>1 DEF n
  <2>4. t[(i + 1) + 1] = s[i + 1]
    BY <2>1 DEF n
  <2>5. F[i] \in Int /\ s[i + 1] \in Int
    BY <1>1, <1>3, <2>1 DEF n
  <2> QED BY <2>2, <2>3, <2>4, <2>5
<1>6. 0 .. n \subseteq T
  <2> HIDE DEF T
  <2> QED BY <1>3, <1>4, <1>5, IntervalInduction
<1>7. n \in T
  BY <1>3, <1>6
<1> QED BY <1>1, <1>2, <1>7 DEF n

-----------------------------------------------------------------------------
USE ValueAssumption, SizeAssumption, BlockAssumption, PushesAssumption
USE DEF Inserted, NextCurrent, begin

(* n^2 times the variance of n values                                      *)
Dispersion(n, s, q) == n * q - s * s

(* mCurrent never leaves the front of the block the values are in, the     *)
(* dispersion is not negative, and the distance of the newest value from   *)
(* the mean is bounded by it.                                              *)
BufferInv ==
    /\ mBuffer \in Seq(Value)
    /\ pushed \in Seq(Value)
    /\ storage \in Block \cup {NoBlock}
    /\ mCurrent = begin(storage)
    /\ object \in {"rawAttributes", "window"}
    /\ sum \in Int /\ squares \in Int
    /\ SumsAgree
    /\ Dispersion(Len(mBuffer), sum, squares) >= 0
    /\ mBuffer = <<>> => pushed = <<>> /\ sum = 0 /\ squares = 0
    /\ mBuffer # <<>> =>
          LET n == Len(mBuffer)
              d == n * mBuffer[1] - sum
          IN  /\ d * d <= (n - 1) * Dispersion(n, sum, squares)
              /\ pushed # <<>>
              /\ mBuffer[1] = Last(pushed)

(* Inserting at the front.                                                 *)
LEMMA InsertFront ==
    ASSUME NEW S, NEW b \in Seq(S), NEW v \in S
    PROVE  /\ InsertAt(b, 1, v) \in Seq(S)
           /\ Len(InsertAt(b, 1, v)) = Len(b) + 1
           /\ InsertAt(b, 1, v)[1] = v
           /\ \A i \in 1 .. Len(b) : InsertAt(b, 1, v)[i + 1] = b[i]
<1> DEFINE c == <<v>> \o b
<1>1. InsertAt(b, 1, v) = SubSeq(b, 1, 0) \o <<v>> \o SubSeq(b, 1, Len(b))
  BY DEF InsertAt
<1>2. SubSeq(b, 1, 0) = <<>> /\ SubSeq(b, 1, Len(b)) = b
  BY SubSeqEmpty, SubSeqFull
<1>3. <<v>> \in Seq(S) /\ Len(<<v>>) = 1 /\ <<v>>[1] = v
  OBVIOUS
<1>4. <<>> \o <<v>> = <<v>>
  BY <1>3, ConcatEmptySeq
<1>5. c \in Seq(S) /\ Len(c) = 1 + Len(b) /\ c[1] = v
  BY <1>3, ConcatProperties, LenProperties
<1>6. InsertAt(b, 1, v) = c
  BY <1>1, <1>2, <1>4
<1>7. Len(b) \in Nat
  BY LenProperties
<1>8. ASSUME NEW i \in 1 .. Len(b) PROVE c[i + 1] = b[i]
  <2>1. i + 1 \in 1 .. Len(<<v>>) + Len(b) /\ ~(i + 1 <= Len(<<v>>)) /\ (i + 1) - Len(<<v>>) = i
    BY <1>3, <1>7
  <2> QED BY <1>3, <2>1, ConcatProperties
<1> HIDE DEF c
<1> QED BY <1>5, <1>6, <1>7, <1>8

(* One more value v on top of n values with sum s and squares q.           *)
LEMMA OneMore ==
    ASSUME NEW n \in Nat, NEW s \in Int, NEW q \in Int, NEW v \in Int,
           Dispersion(n, s, q) >= 0,
           n = 0 => s = 0 /\ q = 0
    PROVE  LET D == Dispersion(n + 1, s + v, q + v * v)
               d == (n + 1) * v - (s + v)
           IN  D >= 0 /\ d * d <= n * D
<1> DEFINE D == Dispersion(n + 1, s + v, q + v * v)
           d == (n + 1) * v - (s + v)
<1>1. D \in Int /\ d \in Int /\ Dispersion(n, s, q) \in Int
  BY DEF Dispersion
<1>2. d = n * v - s
  OBVIOUS
<1>3. n * D = d * d + (n + 1) * Dispersion(n, s, q)
  BY <1>2 DEF Dispersion
<1>4. (n + 1) * Dispersion(n, s, q) >= 0
  BY <1>1
<1>5. d * d >= 0
  BY <1>1
<1>6. D >= 0
  <2>1. CASE n = 0
    BY <2>1 DEF Dispersion
  <2>2. CASE n > 0
    <3> HIDE DEF D, d
    <3>1. n * D >= 0
      BY <1>1, <1>3, <1>4, <1>5
    <3> QED BY <1>1, <2>2, <3>1
  <2> QED BY <2>1, <2>2
<1>7. d * d <= n * D
  <2> HIDE DEF D, d
  <2> QED BY <1>1, <1>3, <1>4
<1> QED BY <1>6, <1>7

Squared(values) == [i \in DOMAIN values |-> values[i] * values[i]]

LEMMA InitBufferInv == BufferInit => BufferInv
<1> SUFFICES ASSUME BufferInit PROVE BufferInv
  OBVIOUS
<1>1. Squared(mBuffer) = <<>>
  BY DEF BufferInit, Squared
<1>2. SumsAgree
  BY <1>1, AccumulateEmpty DEF BufferInit, SumsAgree, Squared
<1> QED BY <1>2, EmptySeq DEF BufferInit, BufferInv, Dispersion

(* A value in front adds itself to the sum and its square to that of the   *)
(* squares.                                                                *)
LEMMA SquaredSeq ==
    ASSUME NEW b \in Seq(Int)
    PROVE  /\ Squared(b) \in Seq(Int)
           /\ Len(Squared(b)) = Len(b)
           /\ \A i \in 1 .. Len(b) : Squared(b)[i] = b[i] * b[i]
<1> DEFINE n == Len(b)
<1>1. n \in Nat /\ DOMAIN b = 1 .. n /\ \A i \in 1 .. n : b[i] \in Int
  BY LenProperties, ElementOfSeq
<1>2. Squared(b) = [i \in 1 .. n |-> b[i] * b[i]]
  BY <1>1 DEF Squared
<1> HIDE DEF n
<1>3. \A i \in 1 .. n : b[i] * b[i] \in Int
  BY <1>1
<1>4. Squared(b) \in [1 .. n -> Int] /\ \A i \in 1 .. n : Squared(b)[i] = b[i] * b[i]
  BY <1>2, <1>3
<1>5. Squared(b) \in Seq(Int)
  BY <1>1, <1>4, SeqDef
<1>6. Len(Squared(b)) = n
  BY <1>1, <1>4, <1>5, LenProperties
<1> QED BY <1>4, <1>5, <1>6 DEF n

LEMMA SumsFront ==
    ASSUME NEW b \in Seq(Int), NEW c \in Seq(Int), NEW v \in Int,
           Len(c) = Len(b) + 1, c[1] = v, \A i \in 1 .. Len(b) : c[i + 1] = b[i]
    PROVE  /\ Accumulate(c) = Accumulate(b) + v
           /\ Accumulate(Squared(c)) = Accumulate(Squared(b)) + v * v
<1>1. Len(b) \in Nat /\ v * v \in Int
  BY LenProperties
<1>2. Squared(b) \in Seq(Int) /\ Squared(c) \in Seq(Int)
  BY SquaredSeq
<1>3. Len(Squared(c)) = Len(Squared(b)) + 1
  BY SquaredSeq
<1>4. Squared(c)[1] = v * v
  <2>1. 1 \in 1 .. Len(c)
    BY <1>1
  <2> QED BY <2>1, SquaredSeq
<1>5. \A i \in 1 .. Len(Squared(b)) : Squared(c)[i + 1] = Squared(b)[i]
  <2> SUFFICES ASSUME NEW i \in 1 .. Len(b) PROVE Squared(c)[i + 1] = Squared(b)[i]
    BY SquaredSeq
  <2>1. i + 1 \in 1 .. Len(c)
    BY <1>1
  <2>2. Squared(c)[i + 1] = c[i + 1] * c[i + 1] /\ Squared(b)[i] = b[i] * b[i]
    BY <2>1, SquaredSeq
  <2>3. c[i + 1] = b[i]
    OBVIOUS
  <2> QED BY <2>2, <2>3
<1>6. Accumulate(c) = Accumulate(b) + v
  BY AccumulateFront
<1>7. Accumulate(Squared(c)) = Accumulate(Squared(b)) + v * v
  BY <1>1, <1>2, <1>3, <1>4, <1>5, AccumulateFront
<1> QED BY <1>6, <1>7

LEMMA PushBufferInv ==
    ASSUME BufferInv, NEW v \in Value, push(v)
    PROVE  BufferInv'
<1> DEFINE n == Len(mBuffer)
<1>1. n \in Nat /\ v \in Int /\ sum \in Int /\ squares \in Int
  BY LenProperties DEF BufferInv
<1>2. /\ mBuffer' = InsertAt(mBuffer, 1, v)
      /\ pushed' = Append(pushed, v)
      /\ sum' = sum + v
      /\ squares' = squares + v * v
  BY DEF push, BufferInv
<1>3. /\ mBuffer' \in Seq(Value) /\ Len(mBuffer') = n + 1 /\ mBuffer'[1] = v
      /\ \A i \in 1 .. n : mBuffer'[i + 1] = mBuffer[i]
  <2>1. mBuffer \in Seq(Value)
    BY DEF BufferInv
  <2>2. /\ InsertAt(mBuffer, 1, v) \in Seq(Value)
        /\ Len(InsertAt(mBuffer, 1, v)) = n + 1
        /\ InsertAt(mBuffer, 1, v)[1] = v
        /\ \A i \in 1 .. n : InsertAt(mBuffer, 1, v)[i + 1] = mBuffer[i]
    BY <2>1, InsertFront
  <2> QED BY <1>2, <2>2
<1>4. /\ storage' \in Block \cup {NoBlock}
      /\ mCurrent' = begin(storage')
      /\ object' \in {"rawAttributes", "window"}
  BY DEF push, BufferInv
<1>5. mBuffer' # <<>>
  BY <1>1, <1>3, EmptySeq
<1>6. pushed' \in Seq(Value) /\ pushed' # <<>> /\ Last(pushed') = v
  BY <1>2, AppendProperties DEF BufferInv, Last
<1>7. n = 0 => sum = 0 /\ squares = 0
  BY EmptySeq DEF BufferInv
<1>8. LET D == Dispersion(n + 1, sum + v, squares + v * v)
          d == (n + 1) * v - (sum + v)
      IN  D >= 0 /\ d * d <= n * D
  BY <1>1, <1>7, OneMore DEF BufferInv
<1>9. sum' \in Int /\ squares' \in Int
  BY <1>1, <1>2
<1>10. /\ Dispersion(Len(mBuffer'), sum', squares') >= 0
       /\ LET m == Len(mBuffer')
              d == m * mBuffer'[1] - sum'
          IN  d * d <= (m - 1) * Dispersion(m, sum', squares')
  <2>1. Len(mBuffer') - 1 = n
    BY <1>1, <1>3
  <2> QED BY <1>2, <1>3, <1>8, <2>1
<1>11. SumsAgree'
  <2>1. mBuffer \in Seq(Int) /\ mBuffer' \in Seq(Int)
    BY <1>3, SeqMonotonic DEF BufferInv
  <2>2. sum = Accumulate(mBuffer) /\ squares = Accumulate(Squared(mBuffer))
    BY DEF BufferInv, SumsAgree, Squared
  <2>3. /\ Accumulate(mBuffer') = Accumulate(mBuffer) + v
        /\ Accumulate(Squared(mBuffer')) = Accumulate(Squared(mBuffer)) + v * v
    BY <1>1, <1>3, <2>1, SumsFront
  <2> QED BY <1>2, <2>2, <2>3 DEF SumsAgree, Squared
<1> QED BY <1>3, <1>4, <1>5, <1>6, <1>9, <1>10, <1>11 DEF BufferInv

LEMMA BufferInvariance == BufferSpec => []BufferInv
<1>1. BufferInv /\ [BufferNext]_bufferVars => BufferInv'
  <2> SUFFICES ASSUME BufferInv, [BufferNext]_bufferVars PROVE BufferInv'
    OBVIOUS
  <2>1. ASSUME NEW v \in Value, push(v) PROVE BufferInv'
    BY <2>1, PushBufferInv
  <2>2. CASE MoveIntoWindow
    BY <2>2 DEF MoveIntoWindow, BufferInv, SumsAgree
  <2>3. CASE UNCHANGED bufferVars
    BY <2>3 DEF bufferVars, BufferInv, SumsAgree
  <2> QED BY <2>1, <2>2, <2>3 DEF BufferNext
<1> QED BY <1>1, InitBufferInv, PTL DEF BufferSpec

(* mCurrent stays within the values once there is one.                     *)
THEOREM BufferTypeCorrect == BufferSpec => []BufferTypeOK
<1>1. BufferInv => BufferTypeOK
  <2> SUFFICES ASSUME BufferInv PROVE BufferTypeOK
    OBVIOUS
  <2>1. mCurrent \in Iterator /\ mCurrent.offset = 0
    BY DEF BufferInv, Iterator
  <2>2. Len(mBuffer) \in Nat /\ (mBuffer # <<>> => Len(mBuffer) # 0)
    BY EmptySeq, LenProperties DEF BufferInv
  <2> QED BY <2>1, <2>2 DEF BufferInv, BufferTypeOK
<1> QED BY <1>1, BufferInvariance, PTL

(* Neither the reallocation in push nor the move into the window leaves    *)
(* mCurrent behind: however many blocks there are, it points into the one  *)
(* the values are in, at the value pushed last.                            *)
THEOREM Newest == BufferSpec => []CurrentIsNewest
<1>1. BufferInv => CurrentIsNewest
  <2> SUFFICES ASSUME BufferInv PROVE CurrentIsNewest
    OBVIOUS
  <2>1. mCurrent.block = storage /\ mCurrent.offset = 0
    BY DEF BufferInv
  <2>2. mBuffer = <<>> => pushed = <<>>
    BY DEF BufferInv
  <2> QED BY <2>1, <2>2 DEF BufferInv, CurrentIsNewest, current
<1> QED BY <1>1, BufferInvariance, PTL

(* getMean and getStdDev run over every value ever pushed.                 *)
THEOREM SumsOverAll == BufferSpec => []SumsAgree
<1>1. BufferInv => SumsAgree
  BY DEF BufferInv
<1> QED BY <1>1, BufferInvariance, PTL

(* detectFaults cannot find an attribute out of range in a window of ten   *)
(* values or fewer, whatever the values are.                               *)
THEOREM NoOutlierInTen == BufferSpec => []OutlierNeedsEleven
<1>1. BufferInv => OutlierNeedsEleven
  <2> SUFFICES ASSUME BufferInv, Detects, mMaxSize <= 10 PROVE FALSE
    BY DEF OutlierNeedsEleven
  <2> DEFINE n == Len(mBuffer)
             D == Dispersion(n, sum, squares)
             d == n * mBuffer[1] - sum
  <2>1. n = mMaxSize /\ mBuffer # <<>>
    BY EmptySeq DEF Detects, full, BufferInv
  <2>2. D >= 0 /\ d * d <= (n - 1) * D
    BY <2>1 DEF BufferInv
  <2>3. d * d > 9 * D
    <3>1. current = mBuffer[1]
      BY DEF current, BufferInv
    <3>2. BeyondThreeSigma(n, mBuffer[1], sum, squares)
      BY <3>1 DEF Detects
    <3> QED BY <3>2 DEF BeyondThreeSigma, Dispersion
  <2>4. n \in Nat /\ n <= 10 /\ mBuffer[1] \in Int
    <3>1. mBuffer \in Seq(Value)
      BY DEF BufferInv
    <3>2. n \in Nat /\ n <= 10 /\ 1 \in 1 .. n
      BY <2>1
    <3>3. mBuffer[1] \in Value
      BY <3>1, <3>2, ElementOfSeq
    <3> QED BY <3>2, <3>3
  <2>5. D \in Int /\ d \in Int
    BY <2>4 DEF BufferInv, Dispersion
  <2> HIDE DEF D, d, n
  <2>6. (n - 1) * D <= 9 * D
    BY <2>2, <2>4, <2>5
  <2>7. d * d \in Int
    BY <2>5
  <2> QED BY <2>2, <2>3, <2>4, <2>5, <2>6, <2>7
<1> QED BY <1>1, BufferInvariance, PTL

=============================================================================
