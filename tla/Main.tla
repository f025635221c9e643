--------------------------------- MODULE Main ---------------------------------
(***************************************************************************)
(* The process from its start to its end: the connection to the monitor,   *)
(* the four threads with every std::mutex they share, the points where     *)
(* they wait for the monitor, and the signals that stop them.              *)
(*                                                                         *)
(* A thread is at a label, which names what it does next.  A condition on  *)
(* data may turn out either way; a loop over names, windows, proxies,      *)
(* alerts or updates makes at most one turn per pass.  A locked section in *)
(* which nothing is waited for is one step; the others take the mutex and  *)
(* give it up in steps of their own.  What the threads compute is in the   *)
(* modules of the components.                                              *)
(***************************************************************************)
EXTENDS Integers, FiniteSets

CONSTANTS
    Nobody,         \* owner of a free mutex
    MaxAttempts,    \* bound on the configured "retry-attempts"
    MaxFailures     \* bound on the failures to connect

ASSUME BoundAssumption == {MaxAttempts, MaxFailures} \subseteq Nat

Worker == {"faultDetection", "dataStore", "visualisation"}
Thread == Worker \cup {"main"}
Mutex == {"mMembersMutex", "mNodesMutex", "mTopicsMutex", "mUpdatesMutex", "mAlertMutex",
          "mVerticesMutex"}
Signal == {"SIGINT", "SIGHUP"}

ASSUME NobodyAssumption == Nobody \notin Thread

VARIABLES
    process,    \* "runs", or how it ended
    pc,         \* label of each thread
    owner,      \* owner of each mutex
    returnTo,   \* label of the builder that addMember returns to
    gIsRunning,
    handled,    \* signals whose handler is sigintHandler
    connecting, \* locals of tryMakeIpcClient
    silent      \* the monitor has stopped answering

mainVars == <<process, gIsRunning, handled, connecting>>
vars == <<mainVars, pc, owner, returnTo, silent>>

-----------------------------------------------------------------------------
(* Slips: what a bug would make of definitions below.                      *)
NotesUnderTopics == "mTopicsMutex"
UnlockForgotten(t, mutex) == UNCHANGED owner
EndsAnyTime(t) == TRUE
NeverToldToStop == TRUE
CountedAfterwards(c) == c.nrRetries = 0

-----------------------------------------------------------------------------
UpdatesMutex == "mUpdatesMutex"

(* The mutex a thread takes at a label                                     *)
MutexAt ==
    [getMembers       |-> "mMembersMutex",
     notifyUsed       |-> "mMembersMutex",
     addMember        |-> "mMembersMutex",
     contains         |-> "mMembersMutex",
     resetWatchlist   |-> "mMembersMutex",
     eraseNode        |-> "mNodesMutex",
     updateNode       |-> "mNodesMutex",
     requestMember    |-> "mTopicsMutex",
     eraseTopic       |-> "mTopicsMutex",
     updateTopic      |-> "mTopicsMutex",
     addUpdate        |-> UpdatesMutex,
     getUpdates       |-> UpdatesMutex,
     pushAlert        |-> "mAlertMutex",
     getEmittedAlerts |-> "mAlertMutex",
     getLastAlerts    |-> "mAlertMutex",
     addVertex        |-> "mVerticesMutex",
     readVertices     |-> "mVerticesMutex"]

Go(t, from, to) ==
    /\ pc[t] = from
    /\ pc' = [pc EXCEPT ![t] = to]

Free(t) == owner[MutexAt[pc[t]]] = Nobody
Lock(t) == Free(t) /\ owner' = [owner EXCEPT ![MutexAt[pc[t]]] = t]
Unlock(t, mutex) == owner[mutex] = t /\ owner' = [owner EXCEPT ![mutex] = Nobody]
Locked(t) == Free(t) /\ UNCHANGED owner

(* A call that waits for the monitor returns.                              *)
Answered == ~silent

Running == gIsRunning

Init ==
    /\ process = "runs"
    /\ pc = [t \in Thread |-> IF t = "main" THEN "connect" ELSE "unborn"]
    /\ owner = [m \in Mutex |-> Nobody]
    /\ returnTo = "getUpdates"
    /\ gIsRunning = FALSE
    /\ handled = {}
    /\ \E retry \in BOOLEAN, attempts \in 0 .. MaxAttempts :
          connecting = [retry |-> retry, attempts |-> attempts, nrRetries |-> attempts - 1,
                        failures |-> 0]
    /\ silent = FALSE

-----------------------------------------------------------------------------
(* main: construction                                                      *)

OutOfScope == [retry |-> FALSE, attempts |-> 0, nrRetries |-> 0, failures |-> 0]

Connect ==
    /\ Go("main", "connect", "searchRosout")
    /\ connecting' = OutOfScope
    /\ UNCHANGED <<process, gIsRunning, handled>>

(* --nrRetries == 0, of the locals after the decrement                     *)
LastAttempt(c) == c.nrRetries = 1

FailToConnect ==
    /\ pc["main"] = "connect"
    /\ connecting.failures < MaxFailures
    /\ connecting' = [connecting EXCEPT !.nrRetries = @ - 1, !.failures = @ + 1]
    /\ process' = IF ~connecting.retry \/ LastAttempt(connecting) THEN "gaveUp" ELSE "runs"
    /\ UNCHANGED <<pc, gIsRunning, handled>>

(* The searches of the constructors; those for the ignored topics are      *)
(* repeated while the answer is empty.                                     *)
Search ==
    /\ \/ Go("main", "searchRosout", "searchRosout")
       \/ Go("main", "searchRosout", "searchParameterEvents")
       \/ Go("main", "searchParameterEvents", "searchParameterEvents")
       \/ Go("main", "searchParameterEvents", "searchHost")
       \/ Go("main", "searchHost", "receiveHostAttribute")
       \/ Go("main", "receiveHostAttribute", "handleInt")
    /\ Answered
    /\ UNCHANGED mainVars

HandleInt ==
    /\ Go("main", "handleInt", "handleHup")
    /\ handled' = handled \cup {"SIGINT"}
    /\ UNCHANGED <<process, gIsRunning, connecting>>

HandleHup ==
    /\ Go("main", "handleHup", "setRunning")
    /\ handled' = handled \cup {"SIGHUP"}
    /\ UNCHANGED <<process, gIsRunning, connecting>>

SetRunning ==
    /\ Go("main", "setRunning", "spawn")
    /\ gIsRunning' = TRUE
    /\ UNCHANGED <<process, handled, connecting>>

Spawn(t, next) ==
    /\ pc["main"] = "spawn"
    /\ pc[t] = "unborn"
    /\ pc' = [pc EXCEPT ![t] = "test", !["main"] = next]
    /\ UNCHANGED mainVars

SpawnThreads ==
    \/ Spawn("faultDetection", "spawn")
    \/ pc["faultDetection"] # "unborn" /\ Spawn("dataStore", "spawn")
    \/ pc["dataStore"] # "unborn" /\ Spawn("visualisation", "test")

Construct ==
    /\ Connect \/ FailToConnect \/ Search \/ HandleInt \/ HandleHup \/ SetRunning
          \/ SpawnThreads
    /\ UNCHANGED <<owner, returnTo, silent>>

(* main: the end.  A worker is joined when it has ended.                   *)
Ended(t) == pc[t] = "ended"

Join ==
    /\ \/ Go("main", "joinFaultDetection", "joinDataStore") /\ Ended("faultDetection")
       \/ Go("main", "joinDataStore", "joinVisualisation") /\ Ended("dataStore")
       \/ Go("main", "joinVisualisation", "restoreInt") /\ Ended("visualisation")
    /\ UNCHANGED mainVars

Restore ==
    /\ \/ Go("main", "restoreInt", "restoreHup") /\ handled' = handled \ {"SIGINT"}
       \/ Go("main", "restoreHup", "return") /\ handled' = handled \ {"SIGHUP"}
    /\ UNCHANGED <<process, gIsRunning, connecting>>

Return ==
    /\ Go("main", "return", "ended")
    /\ process' = "returned"
    /\ UNCHANGED <<gIsRunning, handled, connecting>>

Finish ==
    /\ Join \/ Restore \/ Return
    /\ UNCHANGED <<owner, returnTo, silent>>

-----------------------------------------------------------------------------
(* requestNode and requestTopic: the member under mTopicsMutex, then its   *)
(* attribute and the first value of that.                                  *)
RequestMember(t) ==
    \/ Go(t, "requestMember", "receiveMember") /\ Lock(t)
    \/ Go(t, "receiveMember", "receiveAttribute") /\ Answered /\ Unlock(t, "mTopicsMutex")

-----------------------------------------------------------------------------
(* FaultDetection::run.  getMembers asks the monitor for the key of a name *)
(* and for the member under mMembersMutex.                                 *)
Judging == {"pushAlert", "notifyUsed", "test"}

FaultDetection ==
    LET t == "faultDetection"
    IN  /\ \/ Go(t, "test", IF Running THEN "getMembers" ELSE "ended") /\ UNCHANGED owner
           \/ \E next \in Judging : Go(t, "getMembers", next) /\ Locked(t)
           \/ Go(t, "getMembers", "search") /\ Lock(t)
           \/ Go(t, "search", "requestMember") /\ Answered /\ UNCHANGED owner
           \/ RequestMember(t)
           \/ \E from \in {"search", "receiveAttribute"}, next \in Judging :
                 Go(t, from, next) /\ Answered /\ Unlock(t, "mMembersMutex")
           \/ Go(t, "pushAlert", "notifyUsed") /\ Locked(t)
           \/ Go(t, "notifyUsed", "test") /\ Locked(t)
        /\ UNCHANGED returnTo

-----------------------------------------------------------------------------
(* DataStore::run.  A pass erases unused nodes, then unused topics, then   *)
(* applies updates of nodes, then of topics, each under the mutex of its   *)
(* list and, for the kinds that are noted, mUpdatesMutex inside.           *)
ErasesNodes == {"eraseNode", "eraseTopic", "updateNode", "updateTopic", "test"}
ErasesTopics == ErasesNodes \ {"eraseNode"}
UpdatesNodes == ErasesTopics \ {"eraseTopic"}
UpdatesTopics == UpdatesNodes \ {"updateNode"}

DataStore ==
    LET t == "dataStore"
    IN  /\ \/ /\ IF Running THEN \E next \in ErasesNodes : Go(t, "test", next)
                            ELSE Go(t, "test", "ended")
              /\ UNCHANGED owner
           \/ \E next \in ErasesTopics : Go(t, "eraseNode", next) /\ Locked(t)
           \/ \E next \in UpdatesNodes : Go(t, "eraseTopic", next) /\ Locked(t)
           \/ \E next \in UpdatesTopics : Go(t, "updateNode", next) /\ Locked(t)
           \/ Go(t, "updateTopic", "test") /\ Locked(t)
           \/ Go(t, "updateNode", "addUpdate") /\ Lock(t)
           \/ Go(t, "updateTopic", "addUpdate") /\ Lock(t)
           \/ \E next \in UpdatesTopics :
                 Go(t, "addUpdate", next) /\ Free(t) /\ Unlock(t, "mNodesMutex")
           \/ Go(t, "addUpdate", "test") /\ Free(t) /\ Unlock(t, "mTopicsMutex")
        /\ UNCHANGED returnTo

-----------------------------------------------------------------------------
(* Graph::visualise: a pass reads the vertices if a redraw is asked for.   *)
Visualisation ==
    LET t == "visualisation"
    IN  /\ \/ /\ \/ Running /\ \E next \in {"readVertices", "test"} : Go(t, "test", next)
                 \/ ~Running /\ Go(t, "test", "ended")
              /\ UNCHANGED owner
           \/ Go(t, "readVertices", "reading") /\ Lock(t)
           \/ Go(t, "reading", "test") /\ Unlock(t, "mVerticesMutex")
        /\ UNCHANGED returnTo

-----------------------------------------------------------------------------
(* DynamicSubgraphBuilder::run, in the main thread                         *)
Builder == "main"

(* addMember for a proxy: a member the map holds is looked up in the data  *)
(* store, where it may be missed, and emplaced; assert(emplaced) may end   *)
(* the program.                                                            *)
AddMember ==
    /\ \/ Go(Builder, "addMember", returnTo) /\ Locked(Builder) /\ UNCHANGED process
       \/ Go(Builder, "addMember", "requestMember") /\ Lock(Builder) /\ UNCHANGED process
       \/ RequestMember(Builder) /\ UNCHANGED process
       \/ /\ Go(Builder, "receiveAttribute", returnTo)
          /\ Answered
          /\ Unlock(Builder, "mMembersMutex")
          /\ UNCHANGED process
       \/ /\ \/ pc[Builder] = "addMember" /\ Free(Builder)
             \/ pc[Builder] = "receiveAttribute" /\ Answered
          /\ process' = "aborted"
          /\ UNCHANGED <<pc, owner>>
    /\ UNCHANGED <<gIsRunning, handled, connecting, returnTo>>

(* A proxy may be there to add or not, or be an ignored topic.             *)
AddOrSkip(from, next) ==
    \/ Go(Builder, from, next) /\ UNCHANGED returnTo
    \/ Go(Builder, from, "addMember") /\ returnTo' = next

BlindSpotCheck ==
    /\ \/ /\ Go(Builder, "test", IF Running THEN "receiveCpu" ELSE "joinFaultDetection")
          /\ UNCHANGED returnTo
       \/ /\ \E next \in {"getFullGraphView", "getUpdates"} : Go(Builder, "receiveCpu", next)
          /\ Answered
          /\ UNCHANGED returnTo
       \/ AddOrSkip("getFullGraphView", "getUpdates") /\ Answered
    /\ UNCHANGED owner

(* The updates, and what the watchlist does not contain of them            *)
AddUpdates ==
    /\ \/ /\ \E next \in {"contains", "getEmittedAlerts"} : Go(Builder, "getUpdates", next)
          /\ UNCHANGED returnTo
       \/ AddOrSkip("contains", "getEmittedAlerts")
    /\ Locked(Builder)

Deciding == {"test", "resetWatchlist"}

(* An alert's member becomes a vertex; if it is new, a member it has an    *)
(* edge from is added.                                                     *)
ExpandSubgraph ==
    \/ /\ \E next \in Deciding \cup {"addVertex"} : Go(Builder, "getEmittedAlerts", next)
       /\ Locked(Builder)
       /\ UNCHANGED returnTo
    \/ AddOrSkip("addVertex", "checkAbort") /\ Locked(Builder)
    \/ \E next \in Deciding : Go(Builder, "checkAbort", next) /\ UNCHANGED <<owner, returnTo>>

(* The windows and the vertices are reset without a mutex.                 *)
EndInvestigation ==
    /\ \/ Go(Builder, "resetWatchlist", "getLastAlerts")
       \/ Go(Builder, "getLastAlerts", "test")
    /\ Locked(Builder)
    /\ UNCHANGED returnTo

-----------------------------------------------------------------------------
Main ==
    \/ Construct \/ Finish
    \/ AddMember /\ UNCHANGED silent
    \/ /\ BlindSpotCheck \/ AddUpdates \/ ExpandSubgraph \/ EndInvestigation
       /\ UNCHANGED <<mainVars, silent>>

Step(t) ==
    /\ process = "runs"
    /\ CASE t = "main" -> Main
         [] t = "faultDetection" -> FaultDetection /\ UNCHANGED <<mainVars, silent>>
         [] t = "dataStore" -> DataStore /\ UNCHANGED <<mainVars, silent>>
         [] t = "visualisation" -> Visualisation /\ UNCHANGED <<mainVars, silent>>

(* A signal runs sigintHandler, or ends the process while the default      *)
(* handler is in place.                                                    *)
Receive(s) ==
    /\ process = "runs"
    /\ IF s \in handled
       THEN gIsRunning' = FALSE /\ UNCHANGED process
       ELSE process' = "killed" /\ UNCHANGED gIsRunning
    /\ UNCHANGED <<handled, connecting, pc, owner, returnTo, silent>>

MonitorStops ==
    /\ process = "runs"
    /\ silent' = TRUE
    /\ UNCHANGED <<mainVars, pc, owner, returnTo>>

ProcessOver == process # "runs" /\ UNCHANGED vars

Next ==
    \/ \E t \in Thread : Step(t)
    \/ \E s \in Signal : Receive(s)
    \/ MonitorStops
    \/ ProcessOver

Spec == Init /\ [][Next]_vars

(* Every thread is scheduled.  Each gives up its mutexes in every turn of  *)
(* its loop and sleeps for the rest of its interval, so that one that      *)
(* waits for a mutex gets it in one of the gaps.                           *)
Fairness == \A t \in Thread : SF_vars(Step(t))
FairSpec == Spec /\ Fairness

-----------------------------------------------------------------------------
(* The labels at which a thread is inside a section a mutex guards         *)
Inside ==
    [mMembersMutex  |-> {"search", "requestMember", "receiveMember", "receiveAttribute"},
     mTopicsMutex   |-> {"receiveMember", "addUpdate"},
     mNodesMutex    |-> {"addUpdate"},
     mUpdatesMutex  |-> {},
     mAlertMutex    |-> {},
     mVerticesMutex |-> {"reading"}]

(* A mutex is owned by nobody or by a thread inside a section it guards    *)
(* (ScopeLock); flags and signals have their types.                        *)
TypeOK ==
    /\ process \in {"runs", "gaveUp", "killed", "aborted", "returned"}
    /\ returnTo \in {"getUpdates", "getEmittedAlerts", "checkAbort"}
    /\ owner \in [Mutex -> Thread \cup {Nobody}]
    /\ handled \subseteq Signal
    /\ {gIsRunning, silent} \subseteq BOOLEAN
    /\ \A m \in Mutex, t \in Thread : owner[m] = t => pc[t] \in Inside[m]

(* What a thread waits for another one to do                               *)
WaitsFor(t, u) ==
    \/ pc[t] \in DOMAIN MutexAt /\ owner[MutexAt[pc[t]]] = u
    \/ pc[t] = "joinFaultDetection" /\ u = "faultDetection" /\ pc[u] # "ended"
    \/ pc[t] = "joinDataStore" /\ u = "dataStore" /\ pc[u] # "ended"
    \/ pc[t] = "joinVisualisation" /\ u = "visualisation" /\ pc[u] # "ended"

(* The order in which the threads take the mutexes of the watchlist, the   *)
(* data store, the alerts and the graph never makes them wait for one      *)
(* another in a circle: of any threads, one waits for none of them.        *)
NoCircularWait ==
    \A T \in (SUBSET Thread) \ {{}} : \E t \in T : \A u \in T : ~WaitsFor(t, u)

(* tryMakeIpcClient gives up after one attempt less than configured, or    *)
(* after the first one where it should not retry; configured to make one   *)
(* attempt or none, it never gives up.                                     *)
GivesUpOneShort ==
    process = "gaveUp" =>
        connecting.failures = IF connecting.retry THEN connecting.attempts - 1 ELSE 1

(* Once the loops run, a handled signal ends the program, from whatever    *)
(* the threads are doing and whatever mutexes they hold, unless the        *)
(* monitor leaves one of them without an answer; and where main returns,   *)
(* and so destroys the watchlist, the graph and the data store, no other   *)
(* thread uses them any more.                                              *)
Started == pc["main"] \notin {"connect", "searchRosout", "searchParameterEvents", "searchHost",
                              "receiveHostAttribute", "handleInt", "handleHup", "setRunning"}
Stopped == process = "returned" => \A t \in Worker : pc[t] = "ended"
StopsOnceRunning == Started /\ ~gIsRunning ~> (process # "runs" /\ Stopped) \/ silent
=============================================================================
