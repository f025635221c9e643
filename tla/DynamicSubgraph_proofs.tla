------------------------ MODULE DynamicSubgraph_proofs ------------------------
(***************************************************************************)
(* The watchlist watches one member at most, a window is judged once while *)
(* its member is watched, and the two threads implement Investigation:     *)
(* proofs for any members, names, window size, interval and threshold.     *)
(***************************************************************************)
EXTENDS DynamicSubgraph, SequenceLemmas

(* Blind spots never enter the watchlist.                                  *)
NamesOnly == \A e \in mMembers : e.type = "initial"

WatchInv == WatchlistTypeOK /\ OneWatched /\ NamesOnly

-----------------------------------------------------------------------------
(* Appending to a sequence                                                 *)
LEMMA AppendFacts ==
    ASSUME NEW S, NEW s \in Seq(S), NEW e \in S
    PROVE  /\ Append(s, e) \in Seq(S)
           /\ Len(s) \in Nat /\ Len(Append(s, e)) = Len(s) + 1
           /\ DOMAIN s = 1 .. Len(s) /\ DOMAIN Append(s, e) = 1 .. Len(s) + 1
           /\ \A i \in 1 .. Len(s) : Append(s, e)[i] = s[i]
           /\ Append(s, e)[Len(s) + 1] = e
           /\ SubSeq(Append(s, e), 1, Len(s)) = s
  OBVIOUS

-----------------------------------------------------------------------------
(* The watchlist                                                           *)

(* std::map takes all valid MemberPtrs for one key.                        *)
LEMMA OneKey == \A p, q \in Member : SameKey(p, q)
  BY MemberAssumption DEF SameKey, Less, Valid

(* What addMember would insert is found already.                           *)
LEMMA AddMemberLeaves ==
    ASSUME WatchInv, NEW m \in Member, NEW t, AddMember(m, t)
    PROVE  UNCHANGED watchVars
<1>1. ASSUME Find(m) # {} PROVE ~Emplaced(m)
  <2>1. PICK e \in mMembers : e.member = m
    BY <1>1 DEF Find
  <2> QED BY <2>1, OneKey DEF Emplaced
<1> QED BY <1>1 DEF AddMember, AddMemberInserts, Emplace, watchVars

(* notifyUsed finds no blind spot to erase.                                *)
LEMMA NotifyUsedLeaves ==
    ASSUME WatchInv, NEW m
    PROVE  ~Used(m) /\ (NotifyUsed(m) => UNCHANGED watchVars)
<1>1. ~Used(m)
  BY DEF WatchInv, NamesOnly, Used, Find
<1> QED BY <1>1 DEF NotifyUsed, watchVars

(* A name that resolves is inserted into an empty map only.                *)
LEMMA TryNameKeeps ==
    ASSUME WatchInv, TryName
    PROVE  /\ WatchInv'
           /\ UNCHANGED mMembers \/ Len(mInitialMemberNames') < Len(mInitialMemberNames)
<1> DEFINE names == mInitialMemberNames
<1>1. names \in Seq(Name) /\ Len(names) \in Nat /\ initPos \in 1 .. Len(names)
  BY DEF TryName, WatchInv, WatchlistTypeOK
<1>2. CASE initPos' = initPos + 1 /\ UNCHANGED <<mInitialMemberNames, mMembers>>
  BY <1>1, <1>2 DEF WatchInv, WatchlistTypeOK, OneWatched, NamesOnly
<1>3. CASE /\ mMembers' = Emplace(NodeOf[names[initPos]], "initial")
           /\ mInitialMemberNames' = RemoveAt(names, initPos)
           /\ UNCHANGED initPos
  <2> DEFINE node == NodeOf[names[initPos]]
  <2>1. RemoveAt(names, initPos) \in Seq(Name) /\ Len(RemoveAt(names, initPos)) = Len(names) - 1
    BY <1>1, RemoveAtProperties
  <2>2. node \in Member
    <3>1. names[initPos] \in Name
      BY <1>1, ElementOfSeq
    <3> QED BY <3>1, NameAssumption
  <2>3. mMembers # {} => ~Emplaced(node)
    <3> SUFFICES ASSUME NEW e \in mMembers PROVE ~Emplaced(node)
      OBVIOUS
    <3>1. e.member \in Member
      BY DEF WatchInv, WatchlistTypeOK, Entry
    <3> QED BY <2>2, <3>1, OneKey DEF Emplaced
  <2>4. \/ mMembers' = mMembers
        \/ mMembers = {} /\ mMembers' = {[member |-> node, type |-> "initial"]}
    BY <1>3, <2>3 DEF Emplace
  <2>5. mMembers' \subseteq Entry /\ OneWatched' /\ NamesOnly'
    <3>1. CASE mMembers' = mMembers
      BY <3>1 DEF WatchInv, WatchlistTypeOK, OneWatched, NamesOnly
    <3>2. CASE mMembers' = {[member |-> node, type |-> "initial"]}
      BY <2>2, <3>2 DEF Entry, Type, OneWatched, NamesOnly
    <3> QED BY <2>4, <3>1, <3>2
  <2>6. initPos' \in 0 .. Len(mInitialMemberNames') + 1
    BY <1>1, <1>3, <2>1
  <2> QED BY <1>1, <1>3, <2>1, <2>5, <2>6 DEF WatchInv, WatchlistTypeOK
<1> QED BY <1>2, <1>3 DEF TryName

LEMMA OtherWatchSteps ==
    ASSUME WatchInv, TryInitialise \/ GetMembers \/ Reset \/ UNCHANGED watchVars
    PROVE  WatchInv' /\ mMembers' \subseteq mMembers
<1>1. mInitialMemberNames \in Seq(Name) /\ Len(mInitialMemberNames) \in Nat
  BY DEF WatchInv, WatchlistTypeOK
<1>2. CASE TryInitialise \/ GetMembers \/ UNCHANGED watchVars
  BY <1>1, <1>2 DEF TryInitialise, GetMembers, watchVars, WatchInv, WatchlistTypeOK, OneWatched,
                    NamesOnly
<1>3. CASE Reset
  BY <1>1, <1>3 DEF Reset, WatchInv, WatchlistTypeOK, OneWatched, NamesOnly
<1> QED BY <1>2, <1>3

-----------------------------------------------------------------------------
(* A pass of the detection                                                 *)

(* There is one window at most, of the current epoch, and the second loop  *)
(* has it or one from before a reset left to visit.                        *)
PassInv ==
    /\ FDTypeOK
    /\ \A v, w \in mMovingWindow : v = w
    /\ \A w \in mMovingWindow : w.epoch = resets
    /\ \A v, w \in it : v = w
    /\ \A w \in it : w \in mMovingWindow \/ w.epoch < resets
    /\ fd \in {"start", "get", "update"} => it = {}
    /\ fd \in {"push", "notify"} => alert \in it

Judged(epoch) == \E i \in DOMAIN emitted : emitted[i].window.epoch = epoch

(* A window that was judged faulty is full for one pass only, unless its   *)
(* member was not on the watchlist when the pass read it, and so is not    *)
(* until the pass is over.                                                 *)
EpochInv ==
    /\ \A i \in DOMAIN emitted : emitted[i].window.epoch <= resets
    /\ Judged(resets) => mMovingWindow # {}
    /\ \A w \in mMovingWindow : Judged(w.epoch) => w.size >= cmMovingWindowSize
    /\ fd = "update" =>
           \A w \in mMovingWindow : Judged(w.epoch) /\ Full(w) => Watched \subseteq batch
    /\ fd \in {"check", "push"} => \A w \in it : Judged(w.epoch) /\ Full(w) => Watched = {}
    /\ fd = "push" => Full(alert)
    /\ RepeatsOnlyUnwatched

(* What a step of the builder does to the watchlist and the detection      *)
Effect ==
    \/ UNCHANGED <<watchVars, fdVars, resets>>
    \/ Reset /\ UNCHANGED <<fdVars, resets>>
    \/ ResetDetection /\ UNCHANGED <<watchVars, fd, batch, it, alert, mAlerts, emitted>>
    \/ GetEmittedAlerts
       /\ UNCHANGED <<watchVars, fd, batch, mMovingWindow, it, alert, emitted, resets>>

LEMMA BuilderEffect ==
    ASSUME WatchInv, BuilderStep
    PROVE  Effect
<1>1. ASSUME NEW m \in Member, BlindSpotCheck(m) \/ AddUpdate(m) \/ AddIncoming(m) PROVE Effect
  <2>1. PICK at, t : AddProxy(at, m, t)
    BY <1>1 DEF BlindSpotCheck, AddUpdate, AddIncoming
  <2>2. AddMember(m, t) /\ UNCHANGED <<fdVars, resets>>
    BY <2>1 DEF AddProxy
  <2> QED BY <2>2, AddMemberLeaves DEF Effect
<1>2. ASSUME NEW m \in Member, ContainsUpdate(m) PROVE Effect
  BY <1>2 DEF ContainsUpdate, Effect
<1>3. CASE CheckCpu \/ GetUpdates \/ ExpandSubgraph \/ CheckAbortCriteria \/ ResetGraph
  BY <1>3 DEF CheckCpu, GetUpdates, ExpandSubgraph, CheckAbortCriteria, ResetGraph, Effect
<1>4. CASE DrainAlerts \/ LastAlerts
  BY <1>4 DEF DrainAlerts, LastAlerts, Effect
<1>5. CASE ResetWatchlist
  BY <1>5 DEF ResetWatchlist, Effect
<1>6. CASE ResetFD
  BY <1>6 DEF ResetFD, Effect
<1> QED BY <1>1, <1>2, <1>3, <1>4, <1>5, <1>6 DEF BuilderStep

(* Every valid MemberPtr finds the window there is.                        *)
LEMMA UpdateWindowSets ==
    ASSUME PassInv, NEW m \in Member, UpdateWindow(m)
    PROVE  \/ mMovingWindow = {} /\ mMovingWindow' = {CreateAttrWindow(m)}
           \/ \E w \in mMovingWindow : /\ mMovingWindow = {w}
                                       /\ mMovingWindow' = {UpdateAttrWindow(w, m)}
<1>1. \A w \in mMovingWindow : w.member \in Member
  BY DEF PassInv, FDTypeOK, Window
<1>2. FindWindow(m) = mMovingWindow
  BY <1>1, OneKey DEF FindWindow
<1>3. CASE mMovingWindow = {}
  BY <1>2, <1>3 DEF UpdateWindow
<1>4. CASE mMovingWindow # {}
  <2>1. PICK w \in mMovingWindow : mMovingWindow = {w}
    BY <1>4 DEF PassInv
  <2>2. mMovingWindow' = (mMovingWindow \ FindWindow(m))
                            \cup {UpdateAttrWindow(v, m) : v \in FindWindow(m)}
    BY <1>2, <1>4 DEF UpdateWindow
  <2>3. mMovingWindow' = {UpdateAttrWindow(v, m) : v \in {w}}
    BY <1>2, <2>1, <2>2
  <2> QED BY <2>1, <2>3
<1> QED BY <1>3, <1>4

LEMMA WindowTypes ==
    ASSUME PassInv, NEW m \in Member
    PROVE  /\ CreateAttrWindow(m) \in Window
           /\ CreateAttrWindow(m).size < cmMovingWindowSize
           /\ CreateAttrWindow(m).epoch = resets
           /\ \A w \in Window : /\ UpdateAttrWindow(w, m) \in Window
                                /\ UpdateAttrWindow(w, m).epoch = w.epoch
                                /\ w.size >= cmMovingWindowSize =>
                                      /\ UpdateAttrWindow(w, m).size >= cmMovingWindowSize
                                      /\ ~Full(UpdateAttrWindow(w, m))
<1> USE WindowAssumption
<1>1. resets \in Nat
  BY DEF PassInv, FDTypeOK
<1>2. CreateAttrWindow(m) \in Window
  BY <1>1 DEF CreateAttrWindow, Window, Size
<1>3. ASSUME NEW w \in Window
      PROVE  /\ UpdateAttrWindow(w, m) \in Window
             /\ UpdateAttrWindow(w, m).epoch = w.epoch
             /\ w.size >= cmMovingWindowSize =>
                   /\ UpdateAttrWindow(w, m).size >= cmMovingWindowSize
                   /\ ~Full(UpdateAttrWindow(w, m))
  <2> DEFINE u == UpdateAttrWindow(w, m)
             size == IF w.size > cmMovingWindowSize THEN w.size ELSE w.size + 1
  <2>1. w.size \in Size /\ w.from \in SUBSET Member /\ w.member \in Member /\ w.epoch \in Nat
    BY DEF Window
  <2>2. u = [[w EXCEPT !.size = size] EXCEPT !.from = w.from \cup {m}]
    BY DEF UpdateAttrWindow, Window
  <2>3. u = [member |-> w.member, size |-> size, from |-> w.from \cup {m}, epoch |-> w.epoch]
    BY <2>2 DEF Window
  <2>4. size \in Size
    BY <2>1 DEF Size
  <2>5. u \in Window
    BY <2>1, <2>3, <2>4 DEF Window
  <2>6. w.size >= cmMovingWindowSize => size > cmMovingWindowSize
    BY <2>1 DEF Size
  <2>7. u.size = size /\ u.epoch = w.epoch
    BY <2>3
  <2> QED BY <2>4, <2>5, <2>6, <2>7 DEF Full, Size
<1> QED BY <1>1, <1>2, <1>3 DEF CreateAttrWindow

LEMMA DetectionKeepsPass ==
    ASSUME WatchInv, PassInv, FDStep
    PROVE  PassInv'
<1> USE DEF PassInv, FDTypeOK
<1>a. UNCHANGED resets
  BY DEF FDStep
<1>1. CASE StartPass \/ LookUpName
  BY <1>a, <1>1 DEF StartPass, LookUpName, fdVars
<1>2. CASE ReadWatchlist
  <2>1. Watched \subseteq Member
    BY DEF Watched, WatchInv, WatchlistTypeOK, Entry
  <2> QED BY <1>a, <1>2, <2>1 DEF ReadWatchlist
<1>3. ASSUME NEW m \in Member, UpdateWindow(m) PROVE PassInv'
  <2>1. PICK w \in Window : mMovingWindow' = {w} /\ w.epoch = resets
    BY <1>3, UpdateWindowSets, WindowTypes
  <2>2. it = {} /\ UNCHANGED <<fd, it, alert, mAlerts, emitted>> /\ batch' \subseteq batch
    BY <1>3 DEF UpdateWindow
  <2>3. fd = "update"
    BY <1>3 DEF UpdateWindow
  <2> QED BY <1>a, <2>1, <2>2, <2>3
<1>4. CASE BeginCheck
  BY <1>a, <1>4 DEF BeginCheck
<1>5. ASSUME NEW w \in it, SkipWindow(w) PROVE PassInv'
  BY <1>a, <1>5 DEF SkipWindow
<1>6. ASSUME NEW w \in it, DetectFaults(w) PROVE PassInv'
  BY <1>a, <1>6 DEF DetectFaults
<1>7. CASE PushAlert
  <2> DEFINE a == [window |-> alert, watched |-> alert.member \in Watched]
  <2>1. a \in Alert
    BY <1>7 DEF PushAlert, Alert
  <2>2. Append(mAlerts, a) \in Seq(Alert) /\ Append(emitted, a) \in Seq(Alert)
    BY <2>1
  <2> QED BY <1>a, <1>7, <2>2 DEF PushAlert
<1>8. CASE Notify
  BY <1>a, <1>8, NotifyUsedLeaves DEF Notify
<1>9. CASE LoseIterator \/ EndPass
  BY <1>a, <1>9 DEF LoseIterator, EndPass
<1> QED BY <1>1, <1>2, <1>3, <1>4, <1>5, <1>6, <1>7, <1>8, <1>9 DEF FDStep

LEMMA EffectKeepsPass ==
    ASSUME PassInv, Effect
    PROVE  PassInv'
<1> USE DEF PassInv, FDTypeOK
<1>1. CASE UNCHANGED <<fdVars, resets>>
  BY <1>1 DEF fdVars
<1>2. CASE ResetDetection /\ UNCHANGED <<watchVars, fd, batch, it, alert, mAlerts, emitted>>
  <2>1. \A w \in it : w.epoch \in Nat /\ w.epoch <= resets
    BY DEF Window
  <2> QED BY <1>2, <2>1 DEF ResetDetection
<1>3. CASE GetEmittedAlerts
           /\ UNCHANGED <<watchVars, fd, batch, mMovingWindow, it, alert, emitted, resets>>
  <2>1. mAlerts' \in Seq(Alert)
    BY <1>3 DEF GetEmittedAlerts
  <2> QED BY <1>3, <2>1
<1> QED BY <1>1, <1>2, <1>3 DEF Effect

-----------------------------------------------------------------------------
(* One verdict per window                                                  *)

LEMMA DetectionKeepsEpochs ==
    ASSUME WatchInv, PassInv, EpochInv, FDStep
    PROVE  EpochInv'
<1> USE DEF EpochInv
<1>a. UNCHANGED resets
  BY DEF FDStep
<1>1. CASE StartPass \/ LookUpName \/ LoseIterator \/ EndPass
  <2>1. UNCHANGED <<emitted, mMovingWindow>> /\ fd' # "update" /\ fd' # "push"
        /\ (fd' = "check" => it' = {})
    BY <1>1 DEF StartPass, LookUpName, LoseIterator, EndPass, fdVars
  <2> QED BY <1>a, <2>1 DEF Judged, RepeatsOnlyUnwatched
<1>2. CASE ReadWatchlist
  <2>1. UNCHANGED <<emitted, mMovingWindow, mMembers>> /\ fd' = "update" /\ batch' = Watched
    BY <1>2 DEF ReadWatchlist, GetMembers
  <2> QED BY <1>a, <2>1 DEF Judged, RepeatsOnlyUnwatched, Watched
<1>3. ASSUME NEW m \in Member, UpdateWindow(m) PROVE EpochInv'
  <2>1. UNCHANGED <<emitted, mMembers>> /\ fd' = "update"
    BY <1>3 DEF UpdateWindow, watchVars
  <2>2. CASE mMovingWindow = {} /\ mMovingWindow' = {CreateAttrWindow(m)}
    <3>1. ~Judged(resets) /\ CreateAttrWindow(m).epoch = resets
      BY <2>2, WindowTypes
    <3> QED BY <1>a, <2>1, <2>2, <3>1 DEF Judged, RepeatsOnlyUnwatched
  <2>3. ASSUME NEW w \in mMovingWindow, mMovingWindow = {w},
               mMovingWindow' = {UpdateAttrWindow(w, m)}
        PROVE  EpochInv'
    <3> DEFINE u == UpdateAttrWindow(w, m)
    <3>1. w \in Window
      BY DEF PassInv, FDTypeOK
    <3>2. /\ u.epoch = w.epoch
          /\ w.size >= cmMovingWindowSize => u.size >= cmMovingWindowSize /\ ~Full(u)
      BY <3>1, WindowTypes
    <3>3. Judged(w.epoch) => u.size >= cmMovingWindowSize /\ ~Full(u)
      BY <3>2
    <3> HIDE DEF u
    <3> QED BY <1>a, <2>1, <2>3, <3>2, <3>3 DEF Judged, RepeatsOnlyUnwatched, u
  <2> QED BY <1>3, <2>2, <2>3, UpdateWindowSets
<1>4. CASE BeginCheck
  <2>1. /\ UNCHANGED <<emitted, mMovingWindow, mMembers>>
        /\ fd = "update" /\ fd' = "check" /\ it' = mMovingWindow /\ batch = {}
    BY <1>4 DEF BeginCheck, watchVars
  <2>2. Watched' = Watched
    BY <2>1 DEF Watched
  <2> QED BY <1>a, <2>1, <2>2 DEF Judged, RepeatsOnlyUnwatched
<1>5. ASSUME NEW w \in it, SkipWindow(w) \/ DetectFaults(w) PROVE EpochInv'
  <2>1. /\ UNCHANGED <<emitted, mMovingWindow, mMembers>>
        /\ fd = "check" /\ fd' \in {"check", "push", "notify"} /\ it' \subseteq it
        /\ fd' = "push" => alert' = w /\ Full(w)
    BY <1>5 DEF SkipWindow, DetectFaults, watchVars
  <2>2. Watched' = Watched
    BY <2>1 DEF Watched
  <2> QED BY <1>a, <2>1, <2>2 DEF Judged, RepeatsOnlyUnwatched
<1>6. CASE PushAlert
  <2> DEFINE a == [window |-> alert, watched |-> alert.member \in Watched]
             n == Len(emitted)
  <2>1. /\ fd = "push" /\ fd' = "notify" /\ emitted' = Append(emitted, a)
        /\ UNCHANGED <<mMovingWindow, it, mMembers>>
    BY <1>6 DEF PushAlert, watchVars
  <2>2. alert \in it /\ alert \in Window /\ Full(alert) /\ resets \in Nat
    BY <2>1 DEF PassInv, FDTypeOK
  <2>3. a \in Alert /\ emitted \in Seq(Alert)
    BY <2>2 DEF Alert, PassInv, FDTypeOK
  <2>4. /\ n \in Nat /\ DOMAIN emitted = 1 .. n /\ DOMAIN emitted' = 1 .. n + 1
        /\ \A i \in 1 .. n : emitted'[i] = emitted[i]
        /\ emitted'[n + 1] = a
    BY <2>1, <2>3, AppendFacts
  <2>5. a.window = alert /\ (a.watched <=> alert.member \in Watched)
    OBVIOUS
  <2> HIDE DEF a, n
  <2>6. \A epoch : Judged(epoch)' => Judged(epoch) \/ epoch = alert.epoch
    <3> SUFFICES ASSUME NEW epoch, NEW i \in 1 .. n + 1, emitted'[i].window.epoch = epoch
                 PROVE  Judged(epoch) \/ epoch = alert.epoch
      BY <2>4 DEF Judged
    <3>1. CASE i = n + 1
      BY <2>4, <2>5, <3>1
    <3>2. CASE i # n + 1
      <4>1. i \in 1 .. n
        BY <2>4, <3>2
      <4> QED BY <2>4, <4>1 DEF Judged
    <3> QED BY <3>1, <3>2
  <2>7. alert.epoch \in Nat /\ (alert \in mMovingWindow \/ alert.epoch < resets)
    BY <2>2 DEF PassInv, Window
  <2>8. RepeatsOnlyUnwatched'
    <3> SUFFICES ASSUME NEW i \in 1 .. n + 1, NEW j \in 1 .. n + 1, i < j,
                        emitted'[i].window.epoch = emitted'[j].window.epoch
                 PROVE  ~emitted'[j].watched
      BY <2>4 DEF RepeatsOnlyUnwatched
    <3>1. i \in 1 .. n
      BY <2>4
    <3>2. CASE j = n + 1
      <4>1. Judged(alert.epoch)
        BY <2>4, <2>5, <3>1, <3>2 DEF Judged
      <4>2. Watched = {}
        BY <2>1, <2>2, <4>1
      <4> QED BY <2>4, <2>5, <3>2, <4>2
    <3>3. CASE j # n + 1
      <4>1. j \in 1 .. n
        BY <2>4, <3>3
      <4> QED BY <2>4, <3>1, <4>1 DEF RepeatsOnlyUnwatched
    <3> QED BY <3>2, <3>3
  <2>9. \A i \in DOMAIN emitted' : emitted'[i].window.epoch <= resets'
    <3> SUFFICES ASSUME NEW i \in 1 .. n + 1 PROVE emitted'[i].window.epoch <= resets
      BY <1>a, <2>4
    <3>1. CASE i = n + 1
      <4>1. alert.epoch <= resets
        BY <2>2, <2>7 DEF PassInv
      <4> QED BY <2>4, <2>5, <3>1, <4>1
    <3>2. CASE i # n + 1
      <4>1. i \in 1 .. n
        BY <2>4, <3>2
      <4> QED BY <2>4, <4>1
    <3> QED BY <3>1, <3>2
  <2>10. Judged(resets)' => mMovingWindow' # {}
    BY <1>a, <2>1, <2>2, <2>6, <2>7
  <2>11. \A w \in mMovingWindow' : Judged(w.epoch)' => w.size >= cmMovingWindowSize
    <3> SUFFICES ASSUME NEW w \in mMovingWindow, Judged(w.epoch)'
                 PROVE  w.size >= cmMovingWindowSize
      BY <2>1
    <3>1. CASE Judged(w.epoch)
      BY <3>1
    <3>2. CASE w.epoch = alert.epoch
      <4>1. alert \in mMovingWindow
        BY <2>2, <2>7, <3>2 DEF PassInv
      <4>2. w = alert
        BY <4>1 DEF PassInv
      <4> QED BY <2>2, <4>2, WindowAssumption DEF Full
    <3> QED BY <2>6, <3>1, <3>2
  <2> QED BY <2>1, <2>8, <2>9, <2>10, <2>11
<1>7. CASE Notify
  <2>1. /\ UNCHANGED <<emitted, mMovingWindow>> /\ it' = it \ {alert} /\ fd = "notify"
        /\ fd' = "check"
    BY <1>7, NotifyUsedLeaves DEF Notify
  <2>2. it' = {}
    BY <2>1 DEF PassInv
  <2> QED BY <1>a, <2>1, <2>2 DEF Judged, RepeatsOnlyUnwatched
<1> QED BY <1>1, <1>2, <1>3, <1>4, <1>5, <1>6, <1>7 DEF FDStep

LEMMA EffectKeepsEpochs ==
    ASSUME PassInv, EpochInv, Effect
    PROVE  EpochInv'
<1> USE DEF EpochInv
<1>1. CASE UNCHANGED <<watchVars, fdVars, resets>>
  BY <1>1 DEF fdVars, watchVars, Judged, RepeatsOnlyUnwatched, Watched
<1>2. CASE Reset /\ UNCHANGED <<fdVars, resets>>
  <2>1. Watched' = {}
    BY <1>2 DEF Reset, Watched
  <2> QED BY <1>2, <2>1 DEF fdVars, Judged, RepeatsOnlyUnwatched
<1>3. CASE ResetDetection /\ UNCHANGED <<watchVars, fd, batch, it, alert, mAlerts, emitted>>
  <2>1. resets \in Nat /\ emitted \in Seq(Alert)
    BY DEF PassInv, FDTypeOK
  <2>2. ASSUME NEW i \in DOMAIN emitted PROVE emitted[i].window.epoch \in Nat
    <3>1. emitted[i] \in Alert
      BY <2>1
    <3>2. emitted[i].window \in Window
      BY <3>1 DEF Alert
    <3> QED BY <3>2 DEF Window
  <2>3. /\ mMovingWindow' = {} /\ resets' = resets + 1 /\ emitted' = emitted
        /\ fd' = fd /\ it' = it /\ alert' = alert
    BY <1>3 DEF ResetDetection
  <2>4. \A i \in DOMAIN emitted' : emitted'[i].window.epoch < resets'
    BY <2>1, <2>2, <2>3
  <2>5. ~Judged(resets)'
    BY <2>1, <2>2, <2>3, <2>4 DEF Judged
  <2>6. \A i \in DOMAIN emitted' : emitted'[i].window.epoch <= resets'
    BY <2>1, <2>2, <2>3
  <2>7. Watched' = Watched
    BY <1>3 DEF watchVars, Watched
  <2> QED BY <2>3, <2>5, <2>6, <2>7 DEF Judged, RepeatsOnlyUnwatched
<1>4. CASE GetEmittedAlerts
           /\ UNCHANGED <<watchVars, fd, batch, mMovingWindow, it, alert, emitted, resets>>
  BY <1>4 DEF watchVars, Judged, RepeatsOnlyUnwatched, Watched
<1> QED BY <1>1, <1>2, <1>3, <1>4 DEF Effect

-----------------------------------------------------------------------------
(* The builder                                                             *)

BuilderTypeOK ==
    /\ builder \in {"spots", "addSpots", "contains", "addUpdate", "expand", "reset",
                    "resetDetection", "resetGraph", "lastAlerts"}
    /\ mBlindSpotCheckCounter \in 0 .. cmBlindspotInterval - 1
    /\ adding \subseteq Member /\ proxies \subseteq Member /\ mSAG \subseteq Member
    /\ emittedAlerts \in Seq(Alert) /\ delivered \in Seq(Alert)
    /\ mSomethingIsGoingOn \in BOOLEAN /\ aborted \in BOOLEAN
    /\ excess \in Int /\ alerted \in Nat

LEMMA BuilderKeepsTypes ==
    ASSUME FDTypeOK, BuilderTypeOK, BuilderStep
    PROVE  BuilderTypeOK'
<1> USE DEF BuilderTypeOK
<1>1. CASE CheckCpu
  <2>1. NextCounter \in 0 .. cmBlindspotInterval - 1
    BY IntervalAssumption DEF NextCounter
  <2> QED BY <1>1, <2>1 DEF CheckCpu
<1>2. ASSUME NEW m \in Member, BlindSpotCheck(m) \/ AddUpdate(m) \/ AddIncoming(m)
      PROVE  BuilderTypeOK'
  <2>1. AddMemberAsserts(m) \in BOOLEAN
    BY DEF AddMemberAsserts, AddMemberInserts, Emplaced
  <2>2. /\ proxies' \subseteq proxies /\ aborted' \in BOOLEAN
        /\ UNCHANGED <<mBlindSpotCheckCounter, adding, emittedAlerts, mSAG, mSomethingIsGoingOn,
                       excess, alerted, delivered>>
    BY <1>2, <2>1 DEF BlindSpotCheck, AddUpdate, AddIncoming, AddProxy, Rest
  <2>3. builder' \in {builder, "contains"}
    BY <1>2 DEF BlindSpotCheck, AddUpdate, AddIncoming
  <2> QED BY <2>2, <2>3
<1>3. ASSUME NEW m \in Member, ContainsUpdate(m) PROVE BuilderTypeOK'
  BY <1>3 DEF ContainsUpdate, Rest
<1>4. CASE GetUpdates
  BY <1>4 DEF GetUpdates
<1>5. CASE DrainAlerts
  <2>1. delivered \o mAlerts \in Seq(Alert)
    BY DEF FDTypeOK
  <2> QED BY <1>5, <2>1 DEF DrainAlerts, FDTypeOK
<1>6. CASE ExpandSubgraph
  <2> DEFINE m == Head(emittedAlerts).window.member
  <2>1. Head(emittedAlerts) \in Alert /\ Tail(emittedAlerts) \in Seq(Alert)
    BY <1>6 DEF ExpandSubgraph
  <2>2. Head(emittedAlerts).window \in Window
    BY <2>1 DEF Alert
  <2>3. m \in Member
    BY <2>2 DEF Window
  <2> HIDE DEF m
  <2>4. /\ mSAG' = mSAG \cup {m} /\ (proxies' = {} \/ proxies' \subseteq mSAG')
        /\ emittedAlerts' = Tail(emittedAlerts) /\ alerted' = alerted + 1
        /\ UNCHANGED <<builder, mBlindSpotCheckCounter, adding, mSomethingIsGoingOn, excess,
                       aborted, delivered>>
    BY <1>6 DEF ExpandSubgraph, m
  <2> QED BY <2>1, <2>3, <2>4
<1>7. CASE CheckAbortCriteria
  <2> DEFINE mean == Floor(excess + ThresholdDen * alerted - ThresholdNum)
  <2>1. mean \in Int
    BY ThresholdAssumption, MaxAlertsAssumption DEF Floor
  <2>2. /\ excess' = mean /\ alerted' = 0
        /\ builder' \in {"reset", "spots"} /\ mSomethingIsGoingOn' \in BOOLEAN
        /\ UNCHANGED <<mBlindSpotCheckCounter, adding, proxies, emittedAlerts, mSAG, aborted,
                       delivered>>
    BY <1>7 DEF CheckAbortCriteria
  <2> HIDE DEF mean
  <2> QED BY <2>1, <2>2
<1>8. CASE ResetWatchlist \/ ResetFD
  BY <1>8 DEF ResetWatchlist, ResetFD
<1>9. CASE ResetGraph
  BY <1>9 DEF ResetGraph
<1>10. CASE LastAlerts
  <2>1. delivered \o mAlerts \in Seq(Alert)
    BY DEF FDTypeOK
  <2> QED BY <1>10, <2>1 DEF LastAlerts
<1> QED BY <1>1, <1>2, <1>3, <1>4, <1>5, <1>6, <1>7, <1>8, <1>9, <1>10 DEF BuilderStep

-----------------------------------------------------------------------------
(* Alerts and investigations                                               *)

Ongoing == IF mSomethingIsGoingOn THEN 1 ELSE 0

(* Every investigation that has begun was begun by an alert of its own,    *)
(* which is neither handled nor counted since the criterion was checked.   *)
CountInv ==
    /\ AlertsDeliveredOnce
    /\ ~mSomethingIsGoingOn => excess <= 0
    /\ Ended + Ongoing + Len(emittedAlerts) + alerted <= Len(delivered)

LEMMA ConcatFacts ==
    ASSUME NEW S, NEW s \in Seq(S), NEW t \in Seq(S)
    PROVE  /\ s \o t \in Seq(S) /\ Len(s \o t) = Len(s) + Len(t)
           /\ Len(s) \in Nat /\ Len(t) \in Nat
           /\ s \o <<>> = s
           /\ \A e \in S : s \o Append(t, e) = Append(s \o t, e)
  OBVIOUS

LEMMA DetectionImplements ==
    ASSUME FDTypeOK, BuilderTypeOK, CountInv, PassInv, Detection
    PROVE  CountInv' /\ [I!Next]_I!vars
<1>1. UNCHANGED <<delivered, mSomethingIsGoingOn, excess, emittedAlerts, alerted, builder, resets>>
  BY DEF Detection, FDStep, builderVars
<1>2. CASE PushAlert
  <2> DEFINE a == [window |-> alert, watched |-> alert.member \in Watched]
  <2>1. a \in Alert
    BY <1>2 DEF PushAlert, PassInv, FDTypeOK, Alert
  <2>2. emitted' = Append(emitted, a) /\ mAlerts' = Append(mAlerts, a)
    BY <1>2 DEF PushAlert
  <2> HIDE DEF a
  <2>3. delivered' \o mAlerts' = emitted'
    BY <1>1, <2>1, <2>2, ConcatFacts DEF CountInv, AlertsDeliveredOnce, FDTypeOK, BuilderTypeOK
  <2>4. Len(emitted') = Len(emitted) + 1 /\ SubSeq(emitted', 1, Len(emitted)) = emitted
    BY <2>1, <2>2, AppendFacts DEF FDTypeOK
  <2>5. I!Raise
    BY <1>1, <2>4 DEF I!Raise, Ended
  <2> QED BY <1>1, <2>3, <2>5 DEF CountInv, AlertsDeliveredOnce, Ended, Ongoing, I!Next
<1>3. CASE UNCHANGED <<mAlerts, emitted>>
  BY <1>1, <1>3 DEF CountInv, AlertsDeliveredOnce, Ended, Ongoing, I!vars
<1>4. PushAlert \/ UNCHANGED <<mAlerts, emitted>>
  BY DEF Detection, FDStep, StartPass, LookUpName, ReadWatchlist, UpdateWindow, BeginCheck,
         SkipWindow, DetectFaults, Notify, LoseIterator, EndPass, fdVars
<1> QED BY <1>2, <1>3, <1>4

LEMMA BuilderImplements ==
    ASSUME FDTypeOK, BuilderTypeOK, CountInv, BuilderStep
    PROVE  CountInv' /\ [I!Next]_I!vars
<1> USE DEF CountInv, AlertsDeliveredOnce
<1>a. /\ Len(emittedAlerts) \in Nat /\ Len(delivered) \in Nat /\ Len(mAlerts) \in Nat
      /\ alerted \in Nat /\ resets \in Nat /\ excess \in Int
  BY DEF BuilderTypeOK, FDTypeOK
<1>1. ASSUME UNCHANGED <<delivered, mAlerts, emitted, mSomethingIsGoingOn, excess, emittedAlerts,
                         alerted, Ended>>
      PROVE  CountInv' /\ [I!Next]_I!vars
  BY <1>1 DEF Ongoing, I!vars
<1>2. CASE CheckCpu \/ GetUpdates \/ ResetWatchlist \/ ResetGraph
  BY <1>1, <1>2 DEF CheckCpu, GetUpdates, ResetWatchlist, ResetGraph, Ended, fdVars
<1>3. ASSUME NEW m \in Member,
             BlindSpotCheck(m) \/ ContainsUpdate(m) \/ AddUpdate(m) \/ AddIncoming(m)
      PROVE  CountInv' /\ [I!Next]_I!vars
  BY <1>1, <1>3 DEF BlindSpotCheck, ContainsUpdate, AddUpdate, AddIncoming, AddProxy, Ended, fdVars
<1>4. CASE ResetFD
  BY <1>1, <1>4, <1>a DEF ResetFD, ResetDetection, Ended, fdVars
<1>5. CASE DrainAlerts \/ LastAlerts
  <2>1. /\ delivered' = delivered \o mAlerts /\ mAlerts' = <<>>
        /\ emittedAlerts' \in {emittedAlerts, mAlerts}
        /\ UNCHANGED <<emitted, mSomethingIsGoingOn, excess, alerted, Ended>>
    BY <1>5 DEF DrainAlerts, LastAlerts, GetEmittedAlerts, Ended
  <2>2. Len(delivered') = Len(delivered) + Len(mAlerts) /\ delivered' \o mAlerts' = emitted'
    BY <2>1, ConcatFacts DEF BuilderTypeOK, FDTypeOK
  <2>3. Len(emittedAlerts') <= Len(emittedAlerts) + Len(mAlerts)
    BY <1>a, <2>1
  <2>4. Ended \in Nat /\ Ongoing \in Nat /\ Ongoing' = Ongoing /\ Ended' = Ended
    BY <1>a, <2>1 DEF Ended, Ongoing
  <2>5. Ended' + Ongoing' + Len(emittedAlerts') + alerted' <= Len(delivered')
    <3>1. Len(emittedAlerts') \in Nat
      BY <1>a, <2>1
    <3> QED BY <1>a, <2>1, <2>2, <2>3, <2>4, <3>1
  <2>6. I!Take
    BY <2>1 DEF I!Take
  <2> QED BY <2>1, <2>2, <2>5, <2>6 DEF I!Next
<1>6. CASE ExpandSubgraph
  <2>1. /\ UNCHANGED <<delivered, mAlerts, emitted, mSomethingIsGoingOn, excess, resets, builder>>
        /\ alerted' = alerted + 1 /\ emittedAlerts # <<>> /\ emittedAlerts' = Tail(emittedAlerts)
    BY <1>6 DEF ExpandSubgraph, fdVars
  <2>2. Len(emittedAlerts') = Len(emittedAlerts) - 1
    BY <2>1 DEF BuilderTypeOK
  <2>3. Ended \in Nat /\ Ongoing \in Nat /\ Ongoing' = Ongoing /\ Ended' = Ended
    BY <1>a, <2>1 DEF Ended, Ongoing
  <2>4. Ended' + Ongoing' + Len(emittedAlerts') + alerted' <= Len(delivered')
    BY <1>a, <2>1, <2>2, <2>3
  <2> QED BY <2>1, <2>3, <2>4 DEF I!vars
<1>7. CASE CheckAbortCriteria
  <2> DEFINE mean == Floor(excess + ThresholdDen * alerted - ThresholdNum)
  <2>1. /\ UNCHANGED <<delivered, mAlerts, emitted, resets, emittedAlerts>>
        /\ builder = "expand" /\ emittedAlerts = <<>> /\ excess' = mean /\ alerted' = 0
        /\ IF Aborts(mean)
           THEN builder' = "reset" /\ mSomethingIsGoingOn' = FALSE
           ELSE builder' = "spots" /\ mSomethingIsGoingOn' = (mSomethingIsGoingOn \/ mean > 0)
    BY <1>7 DEF CheckAbortCriteria, fdVars
  <2>2. mean \in Int
    BY <1>a, ThresholdAssumption, MaxAlertsAssumption DEF Floor
  <2>3. alerted = 0 /\ excess <= 0 => mean <= 0
    BY <1>a, ThresholdAssumption, MaxAlertsAssumption DEF Floor
  <2> HIDE DEF mean
  <2>4. Len(emittedAlerts) = 0 /\ Ended = resets
    BY <1>a, <2>1 DEF Ended
  <2>5. CASE Aborts(mean)
    <3>1. mSomethingIsGoingOn /\ mean <= 0
      BY <2>5 DEF Aborts
    <3>2. mSomethingIsGoingOn' = FALSE /\ Ended' = Ended + 1 /\ Ongoing = 1 /\ Ongoing' = 0
      BY <2>1, <2>4, <2>5, <3>1 DEF Ended, Ongoing
    <3>3. Ended' + Ongoing' + Len(emittedAlerts') + alerted' <= Len(delivered')
      BY <1>a, <2>1, <2>4, <3>2
    <3>4. I!End
      BY <2>1, <3>1, <3>2 DEF I!End
    <3> QED BY <2>1, <3>1, <3>3, <3>4 DEF I!Next
  <2>6. CASE ~Aborts(mean) /\ mSomethingIsGoingOn
    <3>1. mSomethingIsGoingOn' = TRUE /\ Ended' = Ended /\ Ongoing = 1 /\ Ongoing' = 1
      BY <2>1, <2>4, <2>6 DEF Ended, Ongoing
    <3>2. Ended' + Ongoing' + Len(emittedAlerts') + alerted' <= Len(delivered')
      BY <1>a, <2>1, <2>4, <3>1
    <3>3. mSomethingIsGoingOn' = mSomethingIsGoingOn
      BY <2>6, <3>1 DEF BuilderTypeOK
    <3> QED BY <2>1, <3>1, <3>2, <3>3 DEF I!vars
  <2>7. CASE ~mSomethingIsGoingOn /\ mean <= 0
    <3>1. ~Aborts(mean) /\ ~(mean > 0)
      BY <2>2, <2>7 DEF Aborts
    <3>2. mSomethingIsGoingOn' = (mSomethingIsGoingOn \/ mean > 0) /\ builder' = "spots"
      BY <2>1, <3>1
    <3>3. mSomethingIsGoingOn' = FALSE
      BY <2>7, <3>1, <3>2
    <3>4. Ended' = Ended /\ Ongoing = 0 /\ Ongoing' = 0
      BY <1>a, <2>1, <2>4, <2>7, <3>2, <3>3 DEF Ended, Ongoing
    <3>5. Ended' + Ongoing' + Len(emittedAlerts') + alerted' <= Len(delivered')
      BY <1>a, <2>1, <2>4, <3>4
    <3>6. mSomethingIsGoingOn' = mSomethingIsGoingOn
      BY <2>7, <3>3 DEF BuilderTypeOK
    <3> QED BY <2>1, <2>7, <3>3, <3>4, <3>5, <3>6 DEF I!vars
  <2>8. CASE ~mSomethingIsGoingOn /\ ~(mean <= 0)
    <3>1. ~Aborts(mean) /\ mean > 0
      BY <2>2, <2>8 DEF Aborts
    <3>2. mSomethingIsGoingOn' = TRUE /\ Ended' = Ended /\ Ongoing = 0 /\ Ongoing' = 1
      BY <2>1, <2>4, <2>8, <3>1 DEF Ended, Ongoing
    <3>3. alerted >= 1
      BY <1>a, <2>3, <2>8
    <3>4. /\ Ended' + Ongoing' + Len(emittedAlerts') + alerted' <= Len(delivered')
          /\ Ended < Len(delivered)
      BY <1>a, <2>1, <2>4, <3>2, <3>3
    <3>5. I!Begin
      BY <2>1, <2>8, <3>2, <3>4 DEF I!Begin
    <3> QED BY <2>1, <3>2, <3>4, <3>5 DEF I!Next
  <2> QED BY <2>5, <2>6, <2>7, <2>8
<1> QED BY <1>2, <1>3, <1>4, <1>5, <1>6, <1>7 DEF BuilderStep

-----------------------------------------------------------------------------
(* The whole                                                               *)

IInv == WatchInv /\ PassInv /\ EpochInv /\ BuilderTypeOK /\ CountInv

LEMMA InitIInv == Init => IInv
<1> SUFFICES ASSUME Init PROVE IInv
  OBVIOUS
<1> USE DEF Init, WatchlistInit, FDInit
<1>1. WatchInv
  BY NameAssumption DEF WatchInv, WatchlistTypeOK, OneWatched, NamesOnly
<1>2. PassInv
  BY DEF PassInv, FDTypeOK
<1>3. EpochInv
  BY DEF EpochInv, Judged, RepeatsOnlyUnwatched
<1>4. BuilderTypeOK
  <2>1. 0 \in 0 .. cmBlindspotInterval - 1
    BY IntervalAssumption
  <2>2. emittedAlerts \in Seq(Alert) /\ delivered \in Seq(Alert)
    BY EmptySeq
  <2>3. mSomethingIsGoingOn \in BOOLEAN /\ aborted \in BOOLEAN
    OBVIOUS
  <2> QED BY <2>1, <2>2, <2>3 DEF BuilderTypeOK
<1>5. CountInv
  <2>1. AlertsDeliveredOnce
    BY EmptySeq, ConcatFacts DEF AlertsDeliveredOnce
  <2>2. Ended = 0 /\ Ongoing = 0 /\ Len(emittedAlerts) = 0 /\ Len(delivered) = 0
    BY DEF Ended, Ongoing
  <2> QED BY <2>1, <2>2 DEF CountInv
<1> QED BY <1>1, <1>2, <1>3, <1>4, <1>5 DEF IInv

(* What a step does to the watchlist                                       *)
LEMMA NextWatch ==
    ASSUME IInv, [Next]_vars
    PROVE  /\ WatchInv'
           /\ mMembers' \subseteq mMembers
                 \/ Len(mInitialMemberNames') < Len(mInitialMemberNames)
<1>1. CASE Detection
  <2>1. \/ TryInitialise \/ TryName \/ GetMembers \/ UNCHANGED watchVars
    BY <1>1, NotifyUsedLeaves
       DEF IInv, Detection, FDStep, StartPass, LookUpName, ReadWatchlist, UpdateWindow, BeginCheck,
           SkipWindow, DetectFaults, PushAlert, Notify, LoseIterator, EndPass
  <2>2. CASE TryName
    BY <2>2, TryNameKeeps DEF IInv
  <2> QED BY <2>1, <2>2, OtherWatchSteps DEF IInv
<1>2. CASE Builder
  <2>1. Effect
    BY <1>2, BuilderEffect DEF IInv, Builder
  <2>2. Reset \/ UNCHANGED watchVars
    BY <2>1 DEF Effect
  <2> QED BY <2>2, OtherWatchSteps DEF IInv
<1>3. CASE UNCHANGED vars
  <2>1. UNCHANGED watchVars
    BY <1>3 DEF vars
  <2> QED BY <2>1, OtherWatchSteps DEF IInv
<1> QED BY <1>1, <1>2, <1>3 DEF Next

LEMMA NextIInv ==
    ASSUME IInv, [Next]_vars
    PROVE  IInv' /\ [I!Next]_I!vars
<1> USE DEF IInv
<1>a. FDTypeOK
  BY DEF PassInv
<1>1. WatchInv'
  BY NextWatch
<1>2. CASE Detection
  <2>1. FDStep /\ UNCHANGED builderVars
    BY <1>2 DEF Detection
  <2>2. PassInv' /\ EpochInv'
    BY <2>1, DetectionKeepsPass, DetectionKeepsEpochs
  <2>3. BuilderTypeOK'
    BY <2>1 DEF builderVars, BuilderTypeOK
  <2>4. CountInv' /\ [I!Next]_I!vars
    BY <1>a, <1>2, DetectionImplements
  <2> QED BY <1>1, <2>2, <2>3, <2>4
<1>3. CASE Builder
  <2>1. BuilderStep
    BY <1>3 DEF Builder
  <2>2. Effect
    BY <2>1, BuilderEffect
  <2>3. PassInv' /\ EpochInv'
    BY <2>2, EffectKeepsPass, EffectKeepsEpochs
  <2>4. BuilderTypeOK'
    BY <1>a, <2>1, BuilderKeepsTypes
  <2>5. CountInv' /\ [I!Next]_I!vars
    BY <1>a, <2>1, BuilderImplements
  <2> QED BY <1>1, <2>3, <2>4, <2>5
<1>4. CASE UNCHANGED vars
  <2>1. UNCHANGED <<watchVars, fdVars, resets>> /\ UNCHANGED builderVars
    BY <1>4 DEF vars
  <2>2. Effect
    BY <2>1 DEF Effect
  <2>3. PassInv' /\ EpochInv'
    BY <2>2, EffectKeepsPass, EffectKeepsEpochs
  <2>4. BuilderTypeOK'
    BY <2>1 DEF builderVars, BuilderTypeOK
  <2>5. CountInv' /\ UNCHANGED I!vars
    BY <2>1 DEF builderVars, fdVars, CountInv, AlertsDeliveredOnce, Ended, Ongoing, I!vars
  <2> QED BY <1>1, <2>3, <2>4, <2>5
<1> QED BY <1>2, <1>3, <1>4 DEF Next

LEMMA Invariance == Spec => []IInv
<1>1. IInv /\ [Next]_vars => IInv'
  BY NextIInv
<1> QED BY <1>1, InitIInv, PTL DEF Spec

(* The watchlist, the windows, the alerts and what the builder keeps have  *)
(* their types, and the counter of run stays below the interval.           *)
THEOREM TypeCorrect == Spec => []TypeOK
<1>1. IInv => TypeOK
  BY DEF IInv, WatchInv, PassInv, BuilderTypeOK, TypeOK
<1> QED BY <1>1, Invariance, PTL

(* However many names are configured and resolve, the map watches one      *)
(* member (MemberPtr's conversion to bool is its order).                   *)
THEOREM WatchesOne == Spec => []OneWatched
<1>1. IInv => OneWatched
  BY DEF IInv, WatchInv
<1> QED BY <1>1, Invariance, PTL

(* addMember adds nothing, whoever calls it: the watchlist grows by        *)
(* configured names only.                                                  *)
THEOREM OnlyNamesEnter == Spec => GrowsByNamesOnly
<1>1. IInv /\ [Next]_vars => [mMembers' \subseteq mMembers
                              \/ Len(mInitialMemberNames') < Len(mInitialMemberNames)]_vars
  BY NextWatch
<1> QED BY <1>1, Invariance, PTL DEF Spec, GrowsByNamesOnly

(* A window is judged faulty once, or while its member is not watched,     *)
(* wherever the resets of the builder fall into a pass.                    *)
THEOREM OneVerdict == Spec => []RepeatsOnlyUnwatched
<1>1. IInv => RepeatsOnlyUnwatched
  BY DEF IInv, EpochInv
<1> QED BY <1>1, Invariance, PTL

(* The two threads take alerts in order, all together and once, and let    *)
(* investigations follow one another, each begun by an alert of its own.   *)
THEOREM Refinement == Spec => ImplementsInvestigation
<1>1. Init => I!Init
  BY DEF Init, WatchlistInit, FDInit, I!Init, Ended
<1>2. IInv /\ [Next]_vars => [I!Next]_I!vars
  BY NextIInv
<1> QED BY <1>1, <1>2, Invariance, PTL DEF Spec, ImplementsInvestigation, I!Spec
=============================================================================
