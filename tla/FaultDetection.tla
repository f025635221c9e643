--------------------------- MODULE FaultDetection ---------------------------
(***************************************************************************)
(* The thread of FaultDetection::run.  A pass reads the watchlist, adds    *)
(* one sample of every watched member to its moving window, then judges    *)
(* every window that is full and queues an alert for those it finds        *)
(* faulty.  Samples are the member they came from; the verdict of          *)
(* detectFaults on them is any.                                            *)
(***************************************************************************)
EXTENDS Watchlist, FiniteSets

CONSTANTS
    cmMovingWindowSize,
    MaxAlerts           \* bound on the number of alerts

ASSUME WindowAssumption == cmMovingWindowSize \in Nat /\ cmMovingWindowSize >= 2
ASSUME MaxAlertsAssumption == MaxAlerts \in Nat

VARIABLES
    fd,             \* control state of the thread
    batch,          \* currentWatchlistMembers not yet handled
    mMovingWindow,  \* entries of the map
    it,             \* entries the second loop has yet to visit
    alert,          \* the entry being judged
    mAlerts,        \* the queue
    resets,         \* history: calls of reset
    emitted         \* history: all alerts queued

fdVars == <<fd, batch, mMovingWindow, it, alert, mAlerts, emitted>>

(* Sizes beyond the full one behave alike and are one.                     *)
Size == 0 .. cmMovingWindowSize + 1
Window == [member : Member, size : Size, from : SUBSET Member, epoch : Nat]
Alert == [window : Window, watched : BOOLEAN]

(* Slips: what a bug, or a repair, would make of definitions below.        *)
FullOrLarger(w) == w.size >= cmMovingWindowSize
AlertsNotCleared == UNCHANGED mAlerts

FDInit ==
    /\ fd = "start"
    /\ batch = {}
    /\ mMovingWindow = {}
    /\ it = {}
    /\ alert = Null
    /\ mAlerts = <<>>
    /\ resets = 0
    /\ emitted = <<>>

-----------------------------------------------------------------------------
StartPass ==
    /\ fd = "start"
    /\ TryInitialise
    /\ fd' = "get"
    /\ UNCHANGED <<batch, mMovingWindow, it, alert, mAlerts, emitted>>

LookUpName ==
    /\ fd = "get"
    /\ TryName
    /\ UNCHANGED fdVars

ReadWatchlist ==
    /\ fd = "get"
    /\ GetMembers
    /\ batch' = Watched
    /\ fd' = "update"
    /\ UNCHANGED <<mMovingWindow, it, alert, mAlerts, emitted>>

(* createAttrWindow holds the first sample.                                *)
CreateAttrWindow(m) == [member |-> m, size |-> 1, from |-> {m}, epoch |-> resets]

UpdateAttrWindow(w, m) ==
    [w EXCEPT !.size = IF @ > cmMovingWindowSize THEN @ ELSE @ + 1,
              !.from = @ \cup {m}]

FindWindow(m) == {w \in mMovingWindow : SameKey(w.member, m)}

UpdateWindow(m) ==
    /\ fd = "update"
    /\ m \in batch
    /\ batch' = batch \ {m}
    /\ mMovingWindow' =
          IF FindWindow(m) = {}
          THEN mMovingWindow \cup {CreateAttrWindow(m)}
          ELSE (mMovingWindow \ FindWindow(m))
                  \cup {UpdateAttrWindow(w, m) : w \in FindWindow(m)}
    /\ UNCHANGED <<fd, it, alert, mAlerts, emitted>>
    /\ UNCHANGED watchVars

BeginCheck ==
    /\ fd = "update"
    /\ batch = {}
    /\ it' = mMovingWindow
    /\ fd' = "check"
    /\ UNCHANGED <<batch, mMovingWindow, alert, mAlerts, emitted>>
    /\ UNCHANGED watchVars

Full(w) == w.size = cmMovingWindowSize

SkipWindow(w) ==
    /\ fd = "check"
    /\ w \in it
    /\ ~Full(w)
    /\ it' = it \ {w}
    /\ UNCHANGED <<fd, batch, mMovingWindow, alert, mAlerts, emitted>>
    /\ UNCHANGED watchVars

DetectFaults(w) ==
    /\ fd = "check"
    /\ w \in it
    /\ Full(w)
    /\ alert' = w
    /\ \/ fd' = "push" /\ Len(emitted) < MaxAlerts
       \/ fd' = "notify"
    /\ UNCHANGED <<batch, mMovingWindow, it, mAlerts, emitted>>
    /\ UNCHANGED watchVars

(* watched records whether the member is on the watchlist as the alert is  *)
(* queued.                                                                 *)
PushAlert ==
    LET a == [window |-> alert, watched |-> alert.member \in Watched]
    IN  /\ fd = "push"
        /\ mAlerts' = Append(mAlerts, a)
        /\ emitted' = Append(emitted, a)
        /\ fd' = "notify"
        /\ UNCHANGED <<batch, mMovingWindow, it, alert>>
        /\ UNCHANGED watchVars

Notify ==
    /\ fd = "notify"
    /\ NotifyUsed(alert.member)
    /\ mMovingWindow' = IF Used(alert.member) THEN mMovingWindow \ {alert} ELSE mMovingWindow
    /\ it' = it \ {alert}
    /\ alert' = Null
    /\ fd' = "check"
    /\ UNCHANGED <<batch, mAlerts, emitted>>

(* The map was cleared under the loop: incrementing its iterator may as    *)
(* well leave the loop.                                                    *)
LoseIterator ==
    /\ fd = "check"
    /\ it \ mMovingWindow # {}
    /\ it' = {}
    /\ UNCHANGED <<fd, batch, mMovingWindow, alert, mAlerts, emitted>>
    /\ UNCHANGED watchVars

EndPass ==
    /\ fd = "check"
    /\ it = {}
    /\ fd' = "start"
    /\ UNCHANGED <<batch, mMovingWindow, it, alert, mAlerts, emitted>>
    /\ UNCHANGED watchVars

FDStep ==
    /\ \/ StartPass \/ LookUpName \/ ReadWatchlist
       \/ \E m \in Member : UpdateWindow(m)
       \/ BeginCheck
       \/ \E w \in it : SkipWindow(w) \/ DetectFaults(w)
       \/ PushAlert \/ Notify \/ LoseIterator \/ EndPass
    /\ UNCHANGED resets

-----------------------------------------------------------------------------
(* getEmittedAlerts, called by the builder                                 *)
GetEmittedAlerts == mAlerts' = <<>>

(* reset takes no lock: it runs between any two steps of the thread.       *)
ResetDetection ==
    /\ mMovingWindow' = {}
    /\ resets' = resets + 1

-----------------------------------------------------------------------------
(* The windows, the verdict in hand and the queued alerts are of members.  *)
FDTypeOK ==
    /\ fd \in {"start", "get", "update", "check", "push", "notify"}
    /\ batch \subseteq Member
    /\ mMovingWindow \subseteq Window
    /\ it \subseteq Window
    /\ alert \in Window \cup {Null}
    /\ mAlerts \in Seq(Alert)
    /\ emitted \in Seq(Alert)
    /\ resets \in Nat

(* A window is full in one pass of its life and gets one verdict; only     *)
(* while the watchlist has been reset and the windows have not can the     *)
(* same window be judged faulty again.                                     *)
RepeatsOnlyUnwatched ==
    \A i, j \in DOMAIN emitted :
        i < j /\ emitted[i].window.epoch = emitted[j].window.epoch => ~emitted[j].watched
=============================================================================
