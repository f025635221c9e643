----------------------------- MODULE Main_proofs ------------------------------
(***************************************************************************)
(* The order in which the threads take their mutexes: no set of threads    *)
(* waits in a circle; and the attempts to connect are one short.           *)
(***************************************************************************)
EXTENDS Main, TLAPS

JoinLabel == {"joinFaultDetection", "joinDataStore", "joinVisualisation"}

(* A mutex is owned inside the sections it guards; only main joins; and    *)
(* DataStore::run holds the mutex of one list at a time.                   *)
LockInv ==
    /\ owner \in [Mutex -> Thread \cup {Nobody}]
    /\ \A m \in Mutex, t \in Thread : owner[m] = t => pc[t] \in Inside[m]
    /\ pc = [t \in Thread |-> pc[t]]
    /\ \A t \in Worker : pc[t] \notin JoinLabel
    /\ \A t \in Thread : ~(owner["mNodesMutex"] = t /\ owner["mTopicsMutex"] = t)

(* What is not about mutexes                                               *)
OtherTypeOK ==
    /\ process \in {"runs", "gaveUp", "killed", "aborted", "returned"}
    /\ returnTo \in {"getUpdates", "getEmittedAlerts", "checkAbort"}
    /\ handled \subseteq Signal
    /\ gIsRunning \in BOOLEAN
    /\ silent \in BOOLEAN

IInv == LockInv /\ OtherTypeOK

(* A thread that goes from one label to another is inside the sections it  *)
(* was inside of, those of some mutexes excepted.                          *)
Within(from, to, without) == \A m \in Mutex \ without : from \in Inside[m] => to \in Inside[m]

USE NobodyAssumption, BoundAssumption

-----------------------------------------------------------------------------
LEMMA InitIInv == Init => IInv
<1> SUFFICES ASSUME Init PROVE IInv
  OBVIOUS
<1>1. LockInv
  <2>1. owner \in [Mutex -> Thread \cup {Nobody}]
    BY DEF Init
  <2>2. \A m \in Mutex, t \in Thread : owner[m] # t
    BY DEF Init
  <2>3. \A t \in Thread : pc[t] = IF t = "main" THEN "connect" ELSE "unborn"
    BY DEF Init
  <2>4. pc = [t \in Thread |-> pc[t]]
    BY DEF Init
  <2> QED BY <2>1, <2>2, <2>3, <2>4 DEF LockInv, Thread, Worker, Mutex, JoinLabel
<1>2. OtherTypeOK
  BY DEF Init, OtherTypeOK
<1> QED BY <1>1, <1>2 DEF IInv

(* A thread goes on without taking or giving up a mutex.                   *)
LEMMA GoKeeps ==
    ASSUME LockInv, NEW t \in Thread, NEW from, NEW to, Go(t, from, to), UNCHANGED owner,
           t = "main" \/ to \notin JoinLabel, Within(from, to, {})
    PROVE  LockInv'
  BY DEF LockInv, Go, Thread, Worker, Within

(* A thread takes a mutex, and is inside a section it guards.              *)
LEMMA LockKeeps ==
    ASSUME LockInv, NEW t \in Thread, NEW from, NEW to, Go(t, from, to), Lock(t),
           to \notin JoinLabel, Within(from, to, {}),
           MutexAt[from] \in Mutex, to \in Inside[MutexAt[from]],
           \/ MutexAt[from] = "mNodesMutex" /\ from \notin Inside["mTopicsMutex"]
           \/ MutexAt[from] = "mTopicsMutex" /\ from \notin Inside["mNodesMutex"]
           \/ MutexAt[from] \notin {"mNodesMutex", "mTopicsMutex"}
    PROVE  LockInv'
<1> DEFINE mutex == MutexAt[from]
<1>1. owner' = [owner EXCEPT ![mutex] = t] /\ pc[t] = from
  BY DEF Lock, Free, Go
<1>2. \A m \in Mutex : owner'[m] = IF m = mutex THEN t ELSE owner[m]
  BY <1>1 DEF LockInv
<1>3. pc' = [pc EXCEPT ![t] = to]
  BY DEF Go
<1>4. "mNodesMutex" \in Mutex /\ "mTopicsMutex" \in Mutex
  BY DEF Mutex
<1>5. \A u \in Thread : ~(owner'["mNodesMutex"] = u /\ owner'["mTopicsMutex"] = u)
  BY <1>1, <1>2, <1>4 DEF LockInv
<1>6. owner' \in [Mutex -> Thread \cup {Nobody}]
  BY <1>1 DEF LockInv
<1>7. \A m \in Mutex, u \in Thread : owner'[m] = u => pc'[u] \in Inside[m]
  BY <1>1, <1>2, <1>3 DEF LockInv, Within
<1>8. pc' = [u \in Thread |-> pc'[u]] /\ \A u \in Worker : pc'[u] \notin JoinLabel
  BY <1>3 DEF LockInv, Thread, Worker
<1> QED BY <1>5, <1>6, <1>7, <1>8 DEF LockInv

(* A thread gives a mutex up; the others it may own guard what comes next, *)
(* but for the mutexes of the two lists, of which it owns one at most.     *)
LEMMA UnlockKeeps ==
    ASSUME LockInv, NEW t \in Thread, NEW from, NEW to, Go(t, from, to),
           NEW mutex \in Mutex, Unlock(t, mutex), to \notin JoinLabel,
           \/ Within(from, to, {mutex})
           \/ /\ mutex \in {"mNodesMutex", "mTopicsMutex"}
              /\ Within(from, to, {"mNodesMutex", "mTopicsMutex"})
    PROVE  LockInv'
<1>1. owner' = [owner EXCEPT ![mutex] = Nobody] /\ owner[mutex] = t /\ pc[t] = from
  BY DEF Unlock, Go
<1>2. \A m \in Mutex : owner'[m] = IF m = mutex THEN Nobody ELSE owner[m]
  BY <1>1 DEF LockInv
<1>3. pc' = [pc EXCEPT ![t] = to]
  BY DEF Go
<1>4. "mNodesMutex" \in Mutex /\ "mTopicsMutex" \in Mutex
  BY DEF Mutex
<1>5. \A u \in Thread : ~(owner'["mNodesMutex"] = u /\ owner'["mTopicsMutex"] = u)
  BY <1>2, <1>4 DEF LockInv
<1>6. owner' \in [Mutex -> Thread \cup {Nobody}]
  BY <1>1 DEF LockInv
<1>7. \A m \in Mutex : owner'[m] = t => to \in Inside[m]
  <2> SUFFICES ASSUME NEW m \in Mutex, owner'[m] = t PROVE to \in Inside[m]
    OBVIOUS
  <2>1. m # mutex /\ owner[m] = t /\ from \in Inside[m]
    BY <1>1, <1>2 DEF LockInv
  <2>2. ~(m \in {"mNodesMutex", "mTopicsMutex"} /\ mutex \in {"mNodesMutex", "mTopicsMutex"})
    BY <1>1, <2>1 DEF LockInv
  <2> QED BY <2>1, <2>2 DEF Within
<1>8. \A m \in Mutex, u \in Thread : owner'[m] = u => pc'[u] \in Inside[m]
  BY <1>1, <1>2, <1>3, <1>7 DEF LockInv
<1>9. pc' = [u \in Thread |-> pc'[u]] /\ \A u \in Worker : pc'[u] \notin JoinLabel
  BY <1>3 DEF LockInv, Thread, Worker
<1> QED BY <1>5, <1>6, <1>8, <1>9 DEF LockInv

-----------------------------------------------------------------------------
(* The sections and the mutexes they guard                                 *)
LEMMA Sections ==
    /\ Mutex = {"mMembersMutex", "mNodesMutex", "mTopicsMutex", "mUpdatesMutex", "mAlertMutex",
                "mVerticesMutex"}
    /\ Inside["mMembersMutex"] = {"search", "requestMember", "receiveMember", "receiveAttribute"}
    /\ Inside["mTopicsMutex"] = {"receiveMember", "addUpdate"}
    /\ Inside["mNodesMutex"] = {"addUpdate"}
    /\ Inside["mUpdatesMutex"] = {}
    /\ Inside["mAlertMutex"] = {}
    /\ Inside["mVerticesMutex"] = {"reading"}
  BY DEF Mutex, Inside

Section == {"search", "requestMember", "receiveMember", "receiveAttribute", "addUpdate",
            "reading"}

(* A thread goes on from outside of every section.                         *)
LEMMA OutsideKeeps ==
    ASSUME LockInv, NEW t \in Thread, NEW from, NEW to, Go(t, from, to), UNCHANGED owner,
           from \notin Section, t = "main" \/ to \notin JoinLabel
    PROVE  LockInv'
<1>1. Within(from, to, {})
  BY Sections DEF Within, Section
<1> QED BY <1>1, GoKeeps

LEMMA RequestKeeps ==
    ASSUME LockInv, NEW t \in Thread, RequestMember(t)
    PROVE  LockInv'
<1>1. CASE Go(t, "requestMember", "receiveMember") /\ Lock(t)
  <2>1. Within("requestMember", "receiveMember", {})
    BY Sections DEF Within
  <2>2. MutexAt["requestMember"] = "mTopicsMutex"
    BY DEF MutexAt
  <2>3. "receiveMember" \in Inside["mTopicsMutex"] /\ "requestMember" \notin Inside["mNodesMutex"]
    BY Sections
  <2>4. "mTopicsMutex" \in Mutex /\ "receiveMember" \notin JoinLabel
    BY DEF Mutex, JoinLabel
  <2> QED BY <1>1, <2>1, <2>2, <2>3, <2>4, LockKeeps
<1>2. CASE Go(t, "receiveMember", "receiveAttribute") /\ Answered /\ Unlock(t, "mTopicsMutex")
  <2>1. Within("receiveMember", "receiveAttribute", {"mTopicsMutex"})
    BY Sections DEF Within
  <2>2. "mTopicsMutex" \in Mutex /\ "receiveAttribute" \notin JoinLabel
    BY DEF Mutex, JoinLabel
  <2> QED BY <1>2, <2>1, <2>2, UnlockKeeps
<1> QED BY <1>1, <1>2 DEF RequestMember

LEMMA DetectionKeeps == LockInv /\ FaultDetection => LockInv'
<1> SUFFICES ASSUME LockInv, FaultDetection PROVE LockInv'
  OBVIOUS
<1> DEFINE t == "faultDetection"
<1>1. t \in Thread /\ "mMembersMutex" \in Mutex
  BY DEF Thread, Worker, Mutex
<1>2. CASE Go(t, "test", IF Running THEN "getMembers" ELSE "ended") /\ UNCHANGED owner
  BY <1>1, <1>2, OutsideKeeps DEF JoinLabel, Section
<1>3. CASE \E next \in Judging : Go(t, "getMembers", next) /\ Locked(t)
  BY <1>1, <1>3, OutsideKeeps DEF JoinLabel, Section, Judging, Locked
<1>4. CASE Go(t, "getMembers", "search") /\ Lock(t)
  <2>1. Within("getMembers", "search", {})
    BY Sections DEF Within
  <2>2. MutexAt["getMembers"] = "mMembersMutex" /\ "search" \in Inside["mMembersMutex"]
    BY Sections DEF MutexAt
  <2> QED BY <1>1, <1>4, <2>1, <2>2, LockKeeps DEF JoinLabel
<1>5. CASE Go(t, "search", "requestMember") /\ Answered /\ UNCHANGED owner
  <2>1. Within("search", "requestMember", {})
    BY Sections DEF Within
  <2> QED BY <1>1, <1>5, <2>1, GoKeeps DEF JoinLabel
<1>6. CASE RequestMember(t)
  BY <1>1, <1>6, RequestKeeps
<1>7. CASE \E from \in {"search", "receiveAttribute"}, next \in Judging :
              Go(t, from, next) /\ Answered /\ Unlock(t, "mMembersMutex")
  <2>1. PICK from \in {"search", "receiveAttribute"}, next \in Judging :
            Go(t, from, next) /\ Unlock(t, "mMembersMutex")
    BY <1>7
  <2>2. Within(from, next, {"mMembersMutex"})
    BY Sections DEF Within
  <2> QED BY <1>1, <2>1, <2>2, UnlockKeeps DEF JoinLabel, Judging
<1>8. CASE Go(t, "pushAlert", "notifyUsed") /\ Locked(t)
  BY <1>1, <1>8, OutsideKeeps DEF JoinLabel, Section, Locked
<1>9. CASE Go(t, "notifyUsed", "test") /\ Locked(t)
  BY <1>1, <1>9, OutsideKeeps DEF JoinLabel, Section, Locked
<1> QED BY <1>2, <1>3, <1>4, <1>5, <1>6, <1>7, <1>8, <1>9 DEF FaultDetection

LEMMA StoreKeeps == LockInv /\ DataStore => LockInv'
<1> SUFFICES ASSUME LockInv, DataStore PROVE LockInv'
  OBVIOUS
<1> DEFINE t == "dataStore"
<1> USE DEF UpdatesTopics, UpdatesNodes, ErasesTopics, ErasesNodes
<1>1. t \in Thread
  BY DEF Thread, Worker
<1>2. CASE /\ IF Running THEN \E next \in ErasesNodes : Go(t, "test", next)
                         ELSE Go(t, "test", "ended")
           /\ UNCHANGED owner
  <2>1. PICK next \in ErasesNodes \cup {"ended"} : Go(t, "test", next)
    BY <1>2
  <2>2. next \notin JoinLabel /\ "test" \notin Section
    BY DEF JoinLabel, Section
  <2>3. UNCHANGED owner
    BY <1>2
  <2> QED BY <1>1, <2>1, <2>2, <2>3, OutsideKeeps
<1>3. CASE \E next \in ErasesTopics : Go(t, "eraseNode", next) /\ Locked(t)
  BY <1>1, <1>3, OutsideKeeps DEF JoinLabel, Section, Locked
<1>4. CASE \E next \in UpdatesNodes : Go(t, "eraseTopic", next) /\ Locked(t)
  BY <1>1, <1>4, OutsideKeeps DEF JoinLabel, Section, Locked
<1>5. CASE \E next \in UpdatesTopics : Go(t, "updateNode", next) /\ Locked(t)
  BY <1>1, <1>5, OutsideKeeps DEF JoinLabel, Section, Locked
<1>6. CASE Go(t, "updateTopic", "test") /\ Locked(t)
  BY <1>1, <1>6, OutsideKeeps DEF JoinLabel, Section, Locked
<1>7. CASE Go(t, "updateNode", "addUpdate") /\ Lock(t)
  <2>1. Within("updateNode", "addUpdate", {})
    BY Sections DEF Within
  <2>2. MutexAt["updateNode"] = "mNodesMutex" /\ "addUpdate" \in Inside["mNodesMutex"]
    BY Sections DEF MutexAt
  <2>3. "updateNode" \notin Inside["mTopicsMutex"] /\ "mNodesMutex" \in Mutex
    BY Sections
  <2> QED BY <1>1, <1>7, <2>1, <2>2, <2>3, LockKeeps DEF JoinLabel
<1>8. CASE Go(t, "updateTopic", "addUpdate") /\ Lock(t)
  <2>1. Within("updateTopic", "addUpdate", {})
    BY Sections DEF Within
  <2>2. MutexAt["updateTopic"] = "mTopicsMutex" /\ "addUpdate" \in Inside["mTopicsMutex"]
    BY Sections DEF MutexAt
  <2>3. "updateTopic" \notin Inside["mNodesMutex"] /\ "mTopicsMutex" \in Mutex
    BY Sections
  <2> QED BY <1>1, <1>8, <2>1, <2>2, <2>3, LockKeeps DEF JoinLabel
<1>9. CASE \/ \E next \in UpdatesTopics :
                  Go(t, "addUpdate", next) /\ Free(t) /\ Unlock(t, "mNodesMutex")
           \/ Go(t, "addUpdate", "test") /\ Free(t) /\ Unlock(t, "mTopicsMutex")
  <2>1. PICK next \in UpdatesTopics, mutex \in {"mNodesMutex", "mTopicsMutex"} :
            Go(t, "addUpdate", next) /\ Unlock(t, mutex)
    BY <1>9
  <2>2. Within("addUpdate", next, {"mNodesMutex", "mTopicsMutex"})
    BY Sections DEF Within
  <2>3. mutex \in Mutex
    BY DEF Mutex
  <2> QED BY <1>1, <2>1, <2>2, <2>3, UnlockKeeps DEF JoinLabel
<1> QED BY <1>2, <1>3, <1>4, <1>5, <1>6, <1>7, <1>8, <1>9 DEF DataStore

LEMMA VisualisationKeeps == LockInv /\ Visualisation => LockInv'
<1> SUFFICES ASSUME LockInv, Visualisation PROVE LockInv'
  OBVIOUS
<1> DEFINE t == "visualisation"
<1>1. t \in Thread /\ "mVerticesMutex" \in Mutex
  BY DEF Thread, Worker, Mutex
<1>2. CASE /\ \/ Running /\ \E next \in {"readVertices", "test"} : Go(t, "test", next)
              \/ ~Running /\ Go(t, "test", "ended")
           /\ UNCHANGED owner
  BY <1>1, <1>2, OutsideKeeps DEF JoinLabel, Section
<1>3. CASE Go(t, "readVertices", "reading") /\ Lock(t)
  <2>1. Within("readVertices", "reading", {})
    BY Sections DEF Within
  <2>2. MutexAt["readVertices"] = "mVerticesMutex" /\ "reading" \in Inside["mVerticesMutex"]
    BY Sections DEF MutexAt
  <2> QED BY <1>1, <1>3, <2>1, <2>2, LockKeeps DEF JoinLabel
<1>4. CASE Go(t, "reading", "test") /\ Unlock(t, "mVerticesMutex")
  <2>1. Within("reading", "test", {"mVerticesMutex"})
    BY Sections DEF Within
  <2> QED BY <1>1, <1>4, <2>1, UnlockKeeps DEF JoinLabel
<1> QED BY <1>2, <1>3, <1>4 DEF Visualisation

LEMMA ConstructKeeps == LockInv /\ Construct => LockInv'
<1> SUFFICES ASSUME LockInv, Construct PROVE LockInv'
  OBVIOUS
<1> DEFINE t == "main"
<1>1. t \in Thread /\ UNCHANGED owner
  BY DEF Thread, Construct
<1>2. CASE Connect \/ Search \/ HandleInt \/ HandleHup \/ SetRunning
  <2>1. PICK from, to : Go(t, from, to) /\ from \notin Section
    BY <1>2 DEF Connect, Search, HandleInt, HandleHup, SetRunning, Section
  <2> QED BY <1>1, <2>1, OutsideKeeps
<1>3. CASE FailToConnect
  BY <1>1, <1>3 DEF FailToConnect, LockInv
<1>4. CASE SpawnThreads
  <2>1. PICK u \in Worker, next \in {"spawn", "test"} : Spawn(u, next)
    BY <1>4 DEF SpawnThreads, Worker
  <2>2. \A m \in Mutex : "spawn" \notin Inside[m] /\ "unborn" \notin Inside[m]
    BY Sections
  <2>3. pc[u] = "unborn" /\ pc["main"] = "spawn"
        /\ pc' = [pc EXCEPT ![u] = "test", !["main"] = next]
    BY <2>1 DEF Spawn
  <2>4. \A v \in Thread : \/ pc'[v] = pc[v]
                          \/ v \in {u, "main"} /\ pc'[v] \in {"spawn", "test"}
    <3>1. u \in Thread /\ "main" \in Thread /\ u # "main"
      BY DEF Thread, Worker
    <3>2. DOMAIN pc = Thread
      BY DEF LockInv
    <3> QED BY <2>3, <3>1, <3>2
  <2>5. pc' = [v \in Thread |-> pc'[v]]
    BY <2>3 DEF LockInv, Thread
  <2>6. \A m \in Mutex, v \in Thread : owner'[m] = v => pc'[v] \in Inside[m]
    BY <1>1, <2>2, <2>3, <2>4 DEF LockInv
  <2>7. \A v \in Worker : pc'[v] \notin JoinLabel
    BY <2>4 DEF LockInv, JoinLabel, Thread
  <2> QED BY <1>1, <2>5, <2>6, <2>7 DEF LockInv
<1> QED BY <1>2, <1>3, <1>4 DEF Construct

LEMMA FinishKeeps == LockInv /\ Finish => LockInv'
<1> SUFFICES ASSUME LockInv, Finish PROVE LockInv'
  OBVIOUS
<1>1. PICK from, to : Go("main", from, to) /\ from \notin Section
  BY DEF Finish, Join, Restore, Return, Section
<1> QED BY <1>1, OutsideKeeps DEF Finish, Thread

LEMMA AddMemberKeeps == IInv /\ AddMember => LockInv'
<1> SUFFICES ASSUME LockInv, OtherTypeOK, AddMember PROVE LockInv'
  BY DEF IInv
<1> USE DEF Builder
<1>1. "main" \in Thread /\ "mMembersMutex" \in Mutex
  BY DEF Thread, Mutex
<1>2. returnTo \notin JoinLabel
  BY DEF OtherTypeOK, JoinLabel
<1>3. CASE Go(Builder, "addMember", returnTo) /\ Locked(Builder)
  BY <1>1, <1>3, OutsideKeeps DEF Section, Locked
<1>4. CASE Go(Builder, "addMember", "requestMember") /\ Lock(Builder)
  <2>1. Within("addMember", "requestMember", {})
    BY Sections DEF Within
  <2>2. MutexAt["addMember"] = "mMembersMutex" /\ "requestMember" \in Inside["mMembersMutex"]
    BY Sections DEF MutexAt
  <2> QED BY <1>1, <1>4, <2>1, <2>2, LockKeeps DEF JoinLabel
<1>5. CASE RequestMember(Builder)
  BY <1>1, <1>5, RequestKeeps
<1>6. CASE Go(Builder, "receiveAttribute", returnTo) /\ Unlock(Builder, "mMembersMutex")
  <2>1. Within("receiveAttribute", returnTo, {"mMembersMutex"})
    BY Sections DEF Within
  <2> QED BY <1>1, <1>2, <1>6, <2>1, UnlockKeeps
<1>7. CASE UNCHANGED <<pc, owner>>
  BY <1>7 DEF LockInv
<1> QED BY <1>3, <1>4, <1>5, <1>6, <1>7 DEF AddMember

LEMMA BuilderKeeps ==
    LockInv /\ (BlindSpotCheck \/ AddUpdates \/ ExpandSubgraph \/ EndInvestigation) => LockInv'
<1> SUFFICES ASSUME LockInv, BlindSpotCheck \/ AddUpdates \/ ExpandSubgraph \/ EndInvestigation
             PROVE  LockInv'
  OBVIOUS
<1>1. UNCHANGED owner
  BY DEF BlindSpotCheck, AddUpdates, ExpandSubgraph, EndInvestigation, Locked
<1>2. PICK from, to : Go("main", from, to) /\ from \notin Section
  BY DEF BlindSpotCheck, AddUpdates, ExpandSubgraph, EndInvestigation, AddOrSkip, Builder,
         Section
<1> QED BY <1>1, <1>2, OutsideKeeps DEF Thread

LEMMA NextKeepsLockInv == IInv /\ [Next]_vars => LockInv'
<1> SUFFICES ASSUME IInv, [Next]_vars PROVE LockInv'
  OBVIOUS
<1> USE DEF IInv
<1>1. CASE UNCHANGED <<pc, owner>>
  BY <1>1 DEF LockInv
<1>2. CASE \E t \in Thread : Step(t)
  <2>1. \/ Main \/ FaultDetection \/ DataStore \/ Visualisation
    BY <1>2 DEF Step, Thread, Worker
  <2> QED BY <2>1, ConstructKeeps, FinishKeeps, AddMemberKeeps, BuilderKeeps, DetectionKeeps,
             StoreKeeps, VisualisationKeeps DEF Main
<1>3. CASE (\E s \in Signal : Receive(s)) \/ MonitorStops \/ ProcessOver \/ UNCHANGED vars
  BY <1>1, <1>3 DEF Receive, MonitorStops, ProcessOver, vars
<1> QED BY <1>2, <1>3 DEF Next

-----------------------------------------------------------------------------
LEMMA NextKeepsOther == OtherTypeOK /\ [Next]_vars => OtherTypeOK'
<1> SUFFICES ASSUME OtherTypeOK, [Next]_vars PROVE OtherTypeOK'
  OBVIOUS
<1> USE DEF OtherTypeOK, mainVars
<1>1. CASE UNCHANGED <<process, handled, gIsRunning, returnTo, silent>>
  BY <1>1
<1>2. CASE Construct \/ Finish
  <2>1. UNCHANGED <<returnTo, silent>>
    BY <1>2 DEF Construct, Finish
  <2>2. /\ process' = process \/ process' \in {"runs", "gaveUp", "returned"}
        /\ handled' \subseteq handled \cup Signal
        /\ gIsRunning' = gIsRunning \/ gIsRunning' = TRUE
    <3>1. CASE Connect \/ FailToConnect \/ Search \/ SpawnThreads \/ Join
      BY <3>1 DEF Connect, FailToConnect, Search, SpawnThreads, Spawn, Join
    <3>2. CASE HandleInt
      BY <3>2 DEF HandleInt, Signal
    <3>3. CASE HandleHup
      BY <3>3 DEF HandleHup, Signal
    <3>4. CASE SetRunning
      BY <3>4 DEF SetRunning
    <3>5. CASE Restore
      BY <3>5 DEF Restore
    <3>6. CASE Return
      BY <3>6 DEF Return
    <3> QED BY <1>2, <3>1, <3>2, <3>3, <3>4, <3>5, <3>6 DEF Construct, Finish
  <2> QED BY <2>1, <2>2
<1>3. CASE AddMember /\ UNCHANGED silent
  BY <1>3 DEF AddMember
<1>4. CASE /\ BlindSpotCheck \/ AddUpdates \/ ExpandSubgraph \/ EndInvestigation
           /\ UNCHANGED <<mainVars, silent>>
  <2>1. returnTo' \in {returnTo, "getUpdates", "getEmittedAlerts", "checkAbort"}
    BY <1>4 DEF BlindSpotCheck, AddUpdates, ExpandSubgraph, EndInvestigation, AddOrSkip
  <2> QED BY <1>4, <2>1
<1>5. CASE /\ FaultDetection \/ DataStore \/ Visualisation
           /\ UNCHANGED <<mainVars, silent>>
  BY <1>1, <1>5 DEF FaultDetection, DataStore, Visualisation
<1>6. CASE \E t \in Thread : Step(t)
  <2>1. PICK t \in Thread : Step(t)
    BY <1>6
  <2>2. CASE t = "main"
    BY <1>2, <1>3, <1>4, <2>1, <2>2 DEF Step, Main
  <2>3. CASE t # "main"
    BY <1>5, <2>1, <2>3 DEF Step, Thread, Worker
  <2> QED BY <2>2, <2>3
<1>7. CASE \E s \in Signal : Receive(s)
  BY <1>7 DEF Receive
<1>8. CASE MonitorStops
  BY <1>8 DEF MonitorStops
<1>9. CASE ProcessOver \/ UNCHANGED vars
  BY <1>1, <1>9 DEF ProcessOver, vars
<1> QED BY <1>6, <1>7, <1>8, <1>9 DEF Next

LEMMA NextKeepsIInv == IInv /\ [Next]_vars => IInv'
  BY NextKeepsLockInv, NextKeepsOther DEF IInv

(* The flags and signals have their types, and a mutex is owned by nobody  *)
(* or by a thread inside a section it guards.                              *)
THEOREM TypeCorrect == Spec => []TypeOK
<1>1. IInv => TypeOK
  BY DEF IInv, LockInv, OtherTypeOK, TypeOK
<1> QED BY <1>1, InitIInv, NextKeepsIInv, PTL DEF Spec

-----------------------------------------------------------------------------
(* How far a thread is from being able to go on: it waits for nobody, for  *)
(* a thread that waits for nobody, for one of these two, or at the end for *)
(* a thread that does not join others.                                     *)
Wants(t, mutexes) == pc[t] \in DOMAIN MutexAt /\ MutexAt[pc[t]] \in mutexes
WantsInner(t) == Wants(t, {"mNodesMutex", "mTopicsMutex", "mVerticesMutex"})
WantsOuter(t) == Wants(t, {"mMembersMutex"})
Joins(t) == pc[t] \in JoinLabel
Proceeds(t) == ~Joins(t) /\ ~WantsInner(t) /\ ~WantsOuter(t)

LEMMA Locks ==
    /\ JoinLabel \cap DOMAIN MutexAt = {}
    /\ \A label \in DOMAIN MutexAt : MutexAt[label] \in Mutex
    /\ {"search", "receiveMember", "receiveAttribute", "reading"} \cap DOMAIN MutexAt = {}
    /\ MutexAt["requestMember"] = "mTopicsMutex"
    /\ MutexAt["addUpdate"] = "mUpdatesMutex"
    /\ "requestMember" \in DOMAIN MutexAt
  BY DEF MutexAt, Mutex, JoinLabel, UpdatesMutex

LEMMA Levels ==
    ASSUME LockInv, NEW t \in Thread, NEW u \in Thread, WaitsFor(t, u)
    PROVE  \/ WantsInner(t) /\ Proceeds(u)
           \/ WantsOuter(t) /\ (WantsInner(u) \/ Proceeds(u))
           \/ Joins(t) /\ ~Joins(u)
<1> USE DEF Joins, Proceeds, WantsInner, WantsOuter, Wants
<1>1. CASE pc[t] \in DOMAIN MutexAt /\ owner[MutexAt[pc[t]]] = u
  <2> DEFINE mutex == MutexAt[pc[t]]
  <2>1. mutex \in Mutex /\ pc[u] \in Inside[mutex]
    BY <1>1, Locks DEF LockInv
  <2>2. CASE mutex \in {"mNodesMutex", "mTopicsMutex", "mVerticesMutex"}
    <3>1. pc[u] \in {"receiveMember", "addUpdate", "reading"}
      BY <2>1, <2>2, Sections
    <3>2. Proceeds(u)
      BY <3>1, Locks DEF JoinLabel
    <3> QED BY <1>1, <2>2, <3>2
  <2>3. CASE mutex = "mMembersMutex"
    <3>1. pc[u] \in {"search", "requestMember", "receiveMember", "receiveAttribute"}
      BY <2>1, <2>3, Sections
    <3>2. WantsInner(u) \/ Proceeds(u)
      BY <3>1, Locks DEF JoinLabel
    <3> QED BY <1>1, <2>3, <3>2
  <2> QED BY <2>1, <2>2, <2>3, Sections
<1>2. CASE Joins(t) /\ u \in Worker
  BY <1>2 DEF LockInv
<1> QED BY <1>1, <1>2 DEF WaitsFor, JoinLabel, Worker

(* The threads take their mutexes in an order in which no set of them ever *)
(* waits in a circle: some thread of any set waits for none of the set.    *)
THEOREM NoDeadlock == Spec => []NoCircularWait
<1>1. LockInv => NoCircularWait
  <2> SUFFICES ASSUME LockInv, NEW T \in (SUBSET Thread) \ {{}}
               PROVE  \E t \in T : \A u \in T : ~WaitsFor(t, u)
    BY DEF NoCircularWait
  <2>1. \A t \in T, u \in T : WaitsFor(t, u) =>
           \/ WantsInner(t) /\ Proceeds(u)
           \/ WantsOuter(t) /\ (WantsInner(u) \/ Proceeds(u))
           \/ Joins(t) /\ ~Joins(u)
    BY Levels
  <2>2. \A t \in T : Proceeds(t) \/ WantsInner(t) \/ WantsOuter(t) \/ Joins(t)
    BY DEF Proceeds
  <2>3. \A t \in T : /\ Proceeds(t) => ~WantsInner(t) /\ ~WantsOuter(t) /\ ~Joins(t)
                     /\ WantsInner(t) => ~WantsOuter(t) /\ ~Joins(t)
                     /\ WantsOuter(t) => ~Joins(t)
    BY Locks DEF Proceeds, WantsInner, WantsOuter, Wants, Joins
  <2>4. CASE \E t \in T : Proceeds(t)
    BY <2>1, <2>3, <2>4
  <2>5. CASE (\A t \in T : ~Proceeds(t)) /\ \E t \in T : WantsInner(t)
    BY <2>1, <2>3, <2>5
  <2>6. CASE (\A t \in T : ~Proceeds(t) /\ ~WantsInner(t)) /\ \E t \in T : WantsOuter(t)
    BY <2>1, <2>3, <2>6
  <2>7. CASE \A t \in T : Joins(t)
    <3>1. PICK t \in T : TRUE
      OBVIOUS
    <3> QED BY <2>1, <2>3, <2>7, <3>1
  <2> QED BY <2>2, <2>4, <2>5, <2>6, <2>7
<1>2. IInv => LockInv
  BY DEF IInv
<1> QED BY <1>1, <1>2, InitIInv, NextKeepsIInv, PTL DEF Spec

-----------------------------------------------------------------------------
(* What has become of nrRetries while the connection is tried              *)
CountInv ==
    process = "runs" /\ pc["main"] = "connect" =>
        /\ connecting.nrRetries = connecting.attempts - 1 - connecting.failures
        /\ connecting.attempts \in Nat /\ connecting.failures \in Nat
        /\ connecting = [retry |-> connecting.retry, attempts |-> connecting.attempts,
                         nrRetries |-> connecting.nrRetries, failures |-> connecting.failures]
        /\ ~connecting.retry => connecting.failures = 0

LEMMA InitCounts == Init => CountInv /\ GivesUpOneShort
<1> SUFFICES ASSUME Init PROVE CountInv /\ GivesUpOneShort
  OBVIOUS
<1>1. PICK retry \in BOOLEAN, attempts \in 0 .. MaxAttempts :
          connecting = [retry |-> retry, attempts |-> attempts, nrRetries |-> attempts - 1,
                        failures |-> 0]
  BY DEF Init
<1>2. attempts \in Nat
  OBVIOUS
<1>3. GivesUpOneShort
  BY DEF Init, GivesUpOneShort
<1> QED BY <1>1, <1>2, <1>3 DEF CountInv

(* Any other step leaves the attempts to connect alone, or ends them.      *)
LEMMA OthersLeaveConnect ==
    ASSUME IInv, [Next]_vars
    PROVE  \/ process = "runs" /\ FailToConnect
           \/ /\ UNCHANGED connecting \/ process' = "runs"
              /\ process' = "gaveUp" => process = "gaveUp"
              /\ process' = "runs" /\ pc'["main"] = "connect" =>
                     process = "runs" /\ pc["main"] = "connect" /\ UNCHANGED connecting
<1> DEFINE Kept == /\ UNCHANGED connecting \/ process' = "runs"
                   /\ process' = "gaveUp" => process = "gaveUp"
                   /\ process' = "runs" /\ pc'["main"] = "connect" =>
                          process = "runs" /\ pc["main"] = "connect" /\ UNCHANGED connecting
<1>1. /\ DOMAIN pc = Thread /\ "main" \in Thread
      /\ \A t \in Worker : t \in Thread /\ t # "main"
      /\ returnTo # "connect"
  BY DEF IInv, LockInv, OtherTypeOK, Thread, Worker
<1>2. ASSUME NEW from, NEW to, Go("main", from, to), to # "connect"
      PROVE  pc'["main"] # "connect"
  BY <1>1, <1>2 DEF Go
<1>3. ASSUME NEW t \in Worker, NEW from, NEW to, Go(t, from, to)
      PROVE  pc'["main"] = pc["main"]
  BY <1>1, <1>3 DEF Go
<1>4. CASE process = "runs" /\ Construct /\ ~FailToConnect
  <2>1. CASE Connect
    BY <1>2, <1>4, <2>1 DEF Connect
  <2>2. CASE Search
    <3>1. PICK from, to : Go("main", from, to) /\ to # "connect"
      BY <2>2 DEF Search
    <3> QED BY <1>2, <1>4, <2>2, <3>1 DEF Search, mainVars
  <2>3. CASE HandleInt \/ HandleHup \/ SetRunning
    BY <1>2, <1>4, <2>3 DEF HandleInt, HandleHup, SetRunning
  <2>4. CASE SpawnThreads
    <3>1. PICK u \in Worker, next \in {"spawn", "test"} : Spawn(u, next)
      BY <2>4 DEF SpawnThreads, Worker
    <3>2. pc'["main"] = next
      BY <1>1, <3>1 DEF Spawn
    <3> QED BY <1>4, <3>1, <3>2 DEF Spawn, mainVars
  <2> QED BY <1>4, <2>1, <2>2, <2>3, <2>4 DEF Construct
<1>5. CASE process = "runs" /\ Finish
  <2>1. PICK from, to : Go("main", from, to) /\ to # "connect"
    BY <1>5 DEF Finish, Join, Restore, Return
  <2>2. UNCHANGED connecting /\ (process' = process \/ process' = "returned")
    BY <1>5 DEF Finish, Join, Restore, Return, mainVars
  <2> QED BY <1>2, <1>5, <2>1, <2>2
<1>6. CASE process = "runs" /\ AddMember
  <2>1. UNCHANGED connecting /\ (process' = process \/ process' = "aborted")
    BY <1>6 DEF AddMember
  <2>2. process' = "aborted" \/ \E from, to : Go("main", from, to) /\ to # "connect"
    BY <1>1, <1>6 DEF AddMember, RequestMember, Builder
  <2> QED BY <1>2, <1>6, <2>1, <2>2
<1>7. CASE /\ process = "runs"
           /\ BlindSpotCheck \/ AddUpdates \/ ExpandSubgraph \/ EndInvestigation
           /\ UNCHANGED <<mainVars, silent>>
  <2>1. PICK from, to : Go("main", from, to) /\ to # "connect"
    BY <1>7 DEF BlindSpotCheck, AddUpdates, ExpandSubgraph, EndInvestigation, AddOrSkip, Builder,
                Deciding
  <2> QED BY <1>2, <1>7, <2>1 DEF mainVars
<1>8. CASE /\ process = "runs"
           /\ FaultDetection \/ DataStore \/ Visualisation
           /\ UNCHANGED <<mainVars, silent>>
  <2>1. PICK t, from, to : t \in Worker /\ Go(t, from, to)
    BY <1>8 DEF FaultDetection, DataStore, Visualisation, RequestMember, Worker
  <2> QED BY <1>3, <1>8, <2>1 DEF mainVars
<1>9. CASE (\E s \in Signal : Receive(s)) \/ MonitorStops \/ ProcessOver \/ UNCHANGED vars
  BY <1>9 DEF Receive, MonitorStops, ProcessOver, vars, mainVars
<1>10. CASE \E t \in Thread : Step(t)
  <2>1. PICK t \in Thread : Step(t)
    BY <1>10
  <2>2. CASE t = "main"
    BY <1>4, <1>5, <1>6, <1>7, <2>1, <2>2 DEF Step, Main
  <2>3. CASE t # "main"
    BY <1>8, <2>1, <2>3 DEF Step, Thread, Worker
  <2> QED BY <2>2, <2>3
<1> QED BY <1>9, <1>10 DEF Next

LEMMA NextCounts ==
    ASSUME IInv, CountInv, GivesUpOneShort, [Next]_vars
    PROVE  CountInv' /\ GivesUpOneShort'
<1>1. CASE process = "runs" /\ FailToConnect
  <2> DEFINE c == connecting
  <2>1. /\ c.nrRetries = c.attempts - 1 - c.failures
        /\ c.attempts \in Nat /\ c.failures \in Nat
        /\ ~c.retry => c.failures = 0
    BY <1>1 DEF CountInv, FailToConnect
  <2>2. connecting' = [retry |-> c.retry, attempts |-> c.attempts,
                       nrRetries |-> c.nrRetries - 1, failures |-> c.failures + 1]
    BY <1>1 DEF CountInv, FailToConnect
  <2>3. CASE ~c.retry
    <3>1. process' = "gaveUp"
      BY <1>1, <2>3 DEF FailToConnect
    <3> QED BY <2>1, <2>2, <2>3, <3>1 DEF CountInv, GivesUpOneShort
  <2>4. CASE c.retry /\ LastAttempt(c)
    <3>1. process' = "gaveUp"
      BY <1>1, <2>4 DEF FailToConnect
    <3> QED BY <2>1, <2>2, <2>4, <3>1 DEF CountInv, GivesUpOneShort, LastAttempt
  <2>5. CASE c.retry /\ ~LastAttempt(c)
    <3>1. process' = "runs"
      BY <1>1, <2>5 DEF FailToConnect
    <3> QED BY <2>1, <2>2, <2>5, <3>1 DEF CountInv, GivesUpOneShort
  <2> QED BY <2>3, <2>4, <2>5
<1>2. CASE ~(process = "runs" /\ FailToConnect)
  <2>1. /\ UNCHANGED connecting \/ process' = "runs"
        /\ process' = "gaveUp" => process = "gaveUp"
        /\ process' = "runs" /\ pc'["main"] = "connect" =>
               process = "runs" /\ pc["main"] = "connect" /\ UNCHANGED connecting
    BY <1>2, OthersLeaveConnect
  <2>2. CountInv'
    BY <2>1 DEF CountInv
  <2>3. GivesUpOneShort'
    BY <2>1 DEF GivesUpOneShort
  <2> QED BY <2>2, <2>3
<1> QED BY <1>1, <1>2

(* Whatever number of attempts is configured, tryMakeIpcClient makes one   *)
(* less before it gives up; where it should not retry, it makes one.       *)
THEOREM OneAttemptShort == Spec => []GivesUpOneShort
<1>1. Init => IInv /\ CountInv /\ GivesUpOneShort
  BY InitIInv, InitCounts
<1>2. (IInv /\ CountInv /\ GivesUpOneShort) /\ [Next]_vars
          => (IInv /\ CountInv /\ GivesUpOneShort)'
  BY NextKeepsIInv, NextCounts
<1> QED BY <1>1, <1>2, PTL DEF Spec
=============================================================================
