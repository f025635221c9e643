--------------------------- MODULE DynamicSubgraph ---------------------------
(***************************************************************************)
(* DynamicSubgraphBuilder::run beside the fault detection thread.  An      *)
(* iteration of the builder may check for blind spots, adds what the       *)
(* graph updates connect to the suspected members to the watchlist, takes  *)
(* the queued alerts, expands the subgraph by them and decides from the    *)
(* alert rate whether an investigation begins or ends; one that ends       *)
(* resets the watchlist, the windows and the subgraph.                     *)
(* An assertion that fails ends the program.                               *)
(***************************************************************************)
EXTENDS FaultDetection

CONSTANTS
    cmBlindspotInterval,
    ThresholdNum, ThresholdDen  \* cmAbortionCriteriaThreshold

ASSUME IntervalAssumption == cmBlindspotInterval \in Nat \ {0}
ASSUME ThresholdAssumption == ThresholdNum \in Nat /\ ThresholdDen \in Nat \ {0}

VARIABLES
    builder,                \* control state of the builder
    mBlindSpotCheckCounter,
    adding,                 \* the update the watchlist does not contain; at most one
    proxies,                \* proxies the current loop has yet to add
    emittedAlerts,          \* alerts the current loop has yet to handle
    mSAG,                   \* vertices of the subgraph
    mSomethingIsGoingOn,
    excess,                 \* ThresholdDen * sum - ThresholdNum * number of mLastNrAlerts
    aborted,                \* an assertion has failed
    alerted,                \* number of alerts the expansion has handled: nrNewAlerts
    delivered               \* history: the alerts taken from the queue

builderVars == <<builder, mBlindSpotCheckCounter, adding, proxies, emittedAlerts, mSAG,
                 mSomethingIsGoingOn, excess, aborted, alerted, delivered>>
vars == <<watchVars, fdVars, resets, builderVars>>

(* Slips: what a bug would make of definitions below.                      *)
CounterUnlimited == mBlindSpotCheckCounter + 1
AbortsWhenQuiet(mean) == mean <= 0
RestWithMember(m) == proxies

Init ==
    /\ WatchlistInit
    /\ FDInit
    /\ builder = "spots"
    /\ mBlindSpotCheckCounter = 0
    /\ adding = {}
    /\ proxies = {}
    /\ emittedAlerts = <<>>
    /\ mSAG = {}
    /\ mSomethingIsGoingOn = FALSE
    /\ excess = 0
    /\ aborted = FALSE
    /\ alerted = 0
    /\ delivered = <<>>

-----------------------------------------------------------------------------
NextCounter == (mBlindSpotCheckCounter + 1) % cmBlindspotInterval

(* The CPU utilisation received may or may not be below the threshold; the *)
(* blind spots found may be any members.                                   *)
CheckCpu ==
    /\ builder = "spots"
    /\ \E S \in SUBSET Member :
          /\ mBlindSpotCheckCounter # 0 => S = {}
          /\ proxies' = S
    /\ mBlindSpotCheckCounter' = NextCounter
    /\ builder' = "addSpots"
    /\ UNCHANGED <<adding, emittedAlerts, mSAG, mSomethingIsGoingOn, excess, aborted, alerted, delivered>>
    /\ UNCHANGED watchVars /\ UNCHANGED fdVars /\ UNCHANGED resets

(* What a loop over proxies has left after m                               *)
Rest(m) == proxies \ {m}

(* addMember for one proxy of the loop in control state at                 *)
AddProxy(at, m, t) ==
    /\ builder = at
    /\ m \in proxies
    /\ AddMember(m, t)
    /\ proxies' = Rest(m)
    /\ aborted' = ~AddMemberAsserts(m)
    /\ UNCHANGED <<mBlindSpotCheckCounter, adding, emittedAlerts, mSAG, mSomethingIsGoingOn,
                   excess, alerted, delivered>>
    /\ UNCHANGED fdVars /\ UNCHANGED resets

BlindSpotCheck(m) == AddProxy("addSpots", m, "blindspot") /\ UNCHANGED builder

(* The members connected to suspected ones by the updates: any, if there   *)
(* is a suspected one.                                                     *)
GetUpdates ==
    /\ builder = "addSpots"
    /\ proxies = {}
    /\ \E S \in SUBSET Member :
          /\ mSAG = {} => S = {}
          /\ proxies' = S
    /\ builder' = "contains"
    /\ UNCHANGED <<mBlindSpotCheckCounter, adding, emittedAlerts, mSAG, mSomethingIsGoingOn, excess,
                   aborted, alerted, delivered>>
    /\ UNCHANGED watchVars /\ UNCHANGED fdVars /\ UNCHANGED resets

(* A member the watchlist contains is left out; another one is added under *)
(* a lock taken anew.                                                      *)
ContainsUpdate(m) ==
    /\ builder = "contains"
    /\ m \in proxies
    /\ mMembersMutexFree
    /\ IF Holds(m)
       THEN proxies' = Rest(m) /\ UNCHANGED <<builder, adding>>
       ELSE builder' = "addUpdate" /\ adding' = {m} /\ UNCHANGED proxies
    /\ UNCHANGED <<mBlindSpotCheckCounter, emittedAlerts, mSAG, mSomethingIsGoingOn, excess,
                   aborted, alerted, delivered>>
    /\ UNCHANGED watchVars /\ UNCHANGED fdVars /\ UNCHANGED resets

AddUpdate(m) == m \in adding /\ AddProxy("addUpdate", m, "normal") /\ builder' = "contains"

DrainAlerts ==
    /\ builder = "contains"
    /\ proxies = {}
    /\ GetEmittedAlerts
    /\ emittedAlerts' = mAlerts
    /\ delivered' = delivered \o mAlerts
    /\ adding' = {}
    /\ builder' = "expand"
    /\ UNCHANGED <<mBlindSpotCheckCounter, proxies, mSAG, mSomethingIsGoingOn, excess, aborted,
                   alerted>>
    /\ UNCHANGED watchVars /\ UNCHANGED resets
    /\ UNCHANGED <<fd, batch, mMovingWindow, it, alert, emitted>>

(* getIncoming returns members of the subgraph.                            *)
ExpandSubgraph ==
    LET m == Head(emittedAlerts).window.member
    IN  /\ builder = "expand"
        /\ proxies = {}
        /\ emittedAlerts # <<>>
        /\ mSAG' = mSAG \cup {m}
        /\ IF m \in mSAG
           THEN proxies' = {}
           ELSE \E S \in SUBSET mSAG' : proxies' = S
        /\ emittedAlerts' = Tail(emittedAlerts)
        /\ alerted' = alerted + 1
        /\ UNCHANGED <<builder, mBlindSpotCheckCounter, adding, mSomethingIsGoingOn, excess,
                       aborted, delivered>>
        /\ UNCHANGED watchVars /\ UNCHANGED fdVars /\ UNCHANGED resets

AddIncoming(m) == AddProxy("expand", m, "normal") /\ UNCHANGED builder

(* checkAbortCirteria; nrNewAlerts is the number of alerts just expanded.  *)
(* An excess that no MaxAlerts further alerts make positive is not counted *)
(* any lower.                                                              *)
Floor(x) == LET low == -(ThresholdDen * MaxAlerts) IN IF x < low THEN low ELSE x
Aborts(mean) == mSomethingIsGoingOn /\ mean <= 0
CheckAbortCriteria ==
    LET nrNewAlerts == alerted
        mean == Floor(excess + ThresholdDen * nrNewAlerts - ThresholdNum)
    IN  /\ builder = "expand"
        /\ proxies = {}
        /\ emittedAlerts = <<>>
        /\ excess' = mean
        /\ alerted' = 0
        /\ IF Aborts(mean)
           THEN builder' = "reset" /\ mSomethingIsGoingOn' = FALSE
           ELSE builder' = "spots" /\ mSomethingIsGoingOn' = (mSomethingIsGoingOn \/ mean > 0)
        /\ UNCHANGED <<mBlindSpotCheckCounter, adding, proxies, emittedAlerts, mSAG, aborted,
                       delivered>>
        /\ UNCHANGED watchVars /\ UNCHANGED fdVars /\ UNCHANGED resets

ResetWatchlist ==
    /\ builder = "reset"
    /\ Reset
    /\ builder' = "resetDetection"
    /\ UNCHANGED <<mBlindSpotCheckCounter, adding, proxies, emittedAlerts, mSAG,
                   mSomethingIsGoingOn, excess, aborted, alerted, delivered>>
    /\ UNCHANGED fdVars /\ UNCHANGED resets

ResetFD ==
    /\ builder = "resetDetection"
    /\ ResetDetection
    /\ builder' = "resetGraph"
    /\ UNCHANGED <<mBlindSpotCheckCounter, adding, proxies, emittedAlerts, mSAG,
                   mSomethingIsGoingOn, excess, aborted, alerted, delivered>>
    /\ UNCHANGED watchVars
    /\ UNCHANGED <<fd, batch, it, alert, mAlerts, emitted>>

ResetGraph ==
    /\ builder = "resetGraph"
    /\ mSAG' = {}
    /\ builder' = "lastAlerts"
    /\ UNCHANGED <<mBlindSpotCheckCounter, adding, proxies, emittedAlerts, mSomethingIsGoingOn,
                   excess, aborted, alerted, delivered>>
    /\ UNCHANGED watchVars /\ UNCHANGED fdVars /\ UNCHANGED resets

(* The last alerts join emittedAlerts, which nothing reads any more.       *)
LastAlerts ==
    /\ builder = "lastAlerts"
    /\ GetEmittedAlerts
    /\ delivered' = delivered \o mAlerts
    /\ builder' = "spots"
    /\ UNCHANGED <<mBlindSpotCheckCounter, adding, proxies, emittedAlerts, mSAG,
                   mSomethingIsGoingOn, excess, aborted, alerted>>
    /\ UNCHANGED watchVars /\ UNCHANGED resets
    /\ UNCHANGED <<fd, batch, mMovingWindow, it, alert, emitted>>

BuilderStep ==
    \/ CheckCpu
    \/ \E m \in Member : BlindSpotCheck(m) \/ ContainsUpdate(m) \/ AddUpdate(m) \/ AddIncoming(m)
    \/ GetUpdates \/ DrainAlerts \/ ExpandSubgraph \/ CheckAbortCriteria
    \/ ResetWatchlist \/ ResetFD \/ ResetGraph \/ LastAlerts

Detection == ~aborted /\ FDStep /\ UNCHANGED builderVars
Builder == ~aborted /\ BuilderStep
Next == Detection \/ Builder

Spec == Init /\ [][Next]_vars

(* Both threads are scheduled.  The detection thread gives up              *)
(* mMembersMutex in every pass and sleeps for the rest of its interval:    *)
(* a builder that waits for the mutex gets it in one of the gaps.          *)
Fairness == WF_vars(Detection) /\ SF_vars(Builder)
FairSpec == Spec /\ Fairness

-----------------------------------------------------------------------------
(* The counter of run stays below the interval; sets and queues are of     *)
(* members and alerts.                                                     *)
TypeOK ==
    /\ WatchlistTypeOK
    /\ FDTypeOK
    /\ builder \in {"spots", "addSpots", "contains", "addUpdate", "expand", "reset",
                    "resetDetection", "resetGraph", "lastAlerts"}
    /\ mBlindSpotCheckCounter \in 0 .. cmBlindspotInterval - 1
    /\ adding \subseteq Member /\ proxies \subseteq Member /\ mSAG \subseteq Member
    /\ emittedAlerts \in Seq(Alert) /\ delivered \in Seq(Alert)
    /\ mSomethingIsGoingOn \in BOOLEAN /\ aborted \in BOOLEAN
    /\ excess \in Int /\ alerted \in Nat

(* Every alert queued is taken by the builder exactly once and in order,   *)
(* across the resets.                                                      *)
AlertsDeliveredOnce == delivered \o mAlerts = emitted

(* The threads implement Investigation: alerts are taken once, in order    *)
(* and all together, across resets and passes that are under way; one      *)
(* investigation ends before the next one begins, and the mean over a      *)
(* buffer that never forgets begins none without an alert of its own.      *)
Ended == resets + (IF builder \in {"reset", "resetDetection"} THEN 1 ELSE 0)
I == INSTANCE Investigation WITH
        raised <- emitted, taken <- delivered,
        ongoing <- mSomethingIsGoingOn, ended <- Ended
ImplementsInvestigation == I!Spec

(* What the code does, other than its comments expect (see                 *)
(* BlindSpotsMonitored): the watchlist grows by a configured name that     *)
(* resolves and by nothing else, neither by blind spots nor by what alerts *)
(* and updates point to, because addMember returns when the member is not  *)
(* there.  Once the names are used up, a reset leaves it empty for good.   *)
GrowsByNamesOnly ==
    [][mMembers' \subseteq mMembers
       \/ Len(mInitialMemberNames') < Len(mInitialMemberNames)]_vars

(* An alert does not stay in the queue: the builder calls getEmittedAlerts *)
(* again and again, past its waits for the watchlist, until it aborts.     *)
AlertsDrained == mAlerts # <<>> ~> (mAlerts = <<>> \/ aborted)

-----------------------------------------------------------------------------
(* assert(emplaced) in addMember                                           *)
EmplaceSucceeds == ~aborted

(* "the current node should be monitored as a potential blind spot"        *)
(* (dynamic-subgraph.cpp:109): addMember leaves a blind spot on the        *)
(* watchlist, from where notifyUsed can remove it after its detection.     *)
BlindSpotsMonitored == [][\A m \in Member : BlindSpotCheck(m) => m \in Watched']_vars
=============================================================================
