---------------------------- MODULE GraphUpdates ----------------------------
(***************************************************************************)
(* The updates of stored members.  A request subscribes to the updates of  *)
(* a member before the answer is stored; the monitor sends updates of nine *)
(* kinds, each through a queue of its own; DataStore::run takes at most    *)
(* one of each kind per pass, applies it to the stored member or drops it  *)
(* if there is none, and notes those that connect the member to another    *)
(* one in mUpdates, from where getUpdates hands them to the builder.       *)
(***************************************************************************)
EXTENDS Integers, Sequences, SequencesExt

CONSTANTS
    NodeKey, TopicKey,  \* primary keys
    Other,              \* what an update names: another member, or the state
    Null,
    MaxSent,            \* bound on the updates sent
    MaxRequests         \* bound on the requests

Key == NodeKey \cup TopicKey

ASSUME KeyAssumption == NodeKey \cap TopicKey = {} /\ Null \notin Key
ASSUME BoundAssumption == MaxSent \in Nat /\ MaxRequests \in Nat

VARIABLES
    instance,   \* stored members: the lists of each; Null: not stored
    held,       \* keys with a MemberPtr
    requesting, \* key being requested, under mTopicsMutex; Null: none
    mUpdates,
    step,       \* 0: collecting; otherwise the kind of update to receive
    visit,      \* members the collection has yet to visit
    noting,     \* update applied and not yet noted; Null: none
    queue,      \* updates sent and not received, by kind
    subscription, \* the subscription of each key; 0: none
    requests,   \* history: requests made
    sent,       \* history: updates sent
    noted,      \* history: what was noted of each member
    delivered,  \* history: what getUpdates has returned of each member
    dropped     \* history: updates dropped

runVars == <<step, visit, noting>>
histVars == <<sent, noted, delivered, dropped>>
vars == <<instance, held, requesting, mUpdates, runVars, queue, subscription, requests, histVars>>

(* The kinds of update in the order of a pass: the list each is applied to *)
(* and whether it is noted.                                                *)
Kind(of, list, notes) == [of |-> of, list |-> list, notes |-> notes]
Kinds == <<
    Kind("node",  "mPublishesTo",   FALSE),
    Kind("node",  "mSubscribesTo",  TRUE),
    Kind("node",  "mClients",       FALSE),
    Kind("node",  "mServers",       TRUE),
    Kind("node",  "mClients",       FALSE),
    Kind("node",  "mActionServers", TRUE),
    Kind("node",  "mAlive",         FALSE),
    Kind("topic", "mPublishers",    TRUE),
    Kind("topic", "mSubscribers",   FALSE)>>
Lists == {Kinds[i].list : i \in DOMAIN Kinds} \cup {"mActionClients"}

Update == [key : Key, other : Other, subscription : Nat]

ASSUME NullAssumption == Null \notin [Lists -> Seq(Other)] \cup Update

KeyOf(i) == IF Kinds[i].of = "node" THEN NodeKey ELSE TopicKey

(* emplace of a service that is known already changes nothing; the state   *)
(* is replaced; the other lists grow.                                      *)
Updated(list, old, other) ==
    CASE list \in {"mServers", "mActionServers"} -> IF old = <<>> THEN <<other>> ELSE old
      [] list = "mAlive" -> <<other>>
      [] OTHER -> Append(old, other)

-----------------------------------------------------------------------------
(* Slips: what a bug would make of definitions below.                      *)
UpdatesKept == mUpdates
AlwaysUnused(k) == TRUE
NoReceiveLock(kind) == TRUE
LastKindMissed == Len(Kinds) - 1

-----------------------------------------------------------------------------
Stored == {k \in Key : instance[k] # Null}
mTopicsMutexFree == requesting = Null

Init ==
    /\ instance = [k \in Key |-> Null]
    /\ held = {}
    /\ requesting = Null
    /\ mUpdates = <<>>
    /\ step = 0
    /\ visit = {}
    /\ noting = Null
    /\ queue = [i \in DOMAIN Kinds |-> <<>>]
    /\ subscription = [k \in Key |-> 0]
    /\ requests = 0
    /\ sent = 0
    /\ noted = [k \in Key |-> <<>>]
    /\ delivered = [k \in Key |-> <<>>]
    /\ dropped = {}

-----------------------------------------------------------------------------
(* requestNode and requestTopic, of a key a lookup has not found: the      *)
(* request, which subscribes, and the answer, under one lock.              *)
Request(k) ==
    /\ k \notin Stored
    /\ mTopicsMutexFree
    /\ requests < MaxRequests
    /\ requesting' = k
    /\ requests' = requests + 1
    /\ subscription' = [subscription EXCEPT ![k] = requests']
    /\ UNCHANGED <<instance, held, mUpdates, runVars, queue, histVars>>

Answer ==
    /\ requesting # Null
    /\ instance' = [instance EXCEPT ![requesting] = [l \in Lists |-> <<>>]]
    /\ held' = held \cup {requesting}
    /\ requesting' = Null
    /\ UNCHANGED <<mUpdates, runVars, queue, subscription, requests, histVars>>

Release(k) ==
    /\ k \in held
    /\ held' = held \ {k}
    /\ UNCHANGED <<instance, requesting, mUpdates, runVars, queue, subscription, requests, histVars>>

(* The monitor                                                             *)
SendUpdate(i, k, o) ==
    /\ k \in KeyOf(i)
    /\ subscription[k] # 0
    /\ sent < MaxSent
    /\ sent' = sent + 1
    /\ queue' = [queue EXCEPT ![i] =
                    Append(@, [key |-> k, other |-> o, subscription |-> subscription[k]])]
    /\ UNCHANGED <<instance, held, requesting, mUpdates, runVars, subscription, requests, noted,
                   delivered, dropped>>

Cleared == <<>>

(* The builder                                                             *)
GetUpdates ==
    /\ mUpdates # <<>>
    /\ delivered' = [k \in Key |->
                        delivered[k] \o FlattenSeq([i \in DOMAIN mUpdates |->
                            IF mUpdates[i].member = k THEN mUpdates[i].connections ELSE <<>>])]
    /\ mUpdates' = Cleared
    /\ UNCHANGED <<instance, held, requesting, runVars, queue, subscription, requests, sent, noted,
                   dropped>>

-----------------------------------------------------------------------------
(* DataStore::run: a pass collects what is unused, then receives one       *)
(* update of each kind.                                                    *)
Unused(k) == k \notin held
Unsubscribed(k) == [subscription EXCEPT ![k] = 0]

Collect(k) ==
    /\ step = 0
    /\ k \in visit
    /\ visit' = visit \ {k}
    /\ IF Unused(k)
       THEN /\ k \in TopicKey => mTopicsMutexFree
            /\ instance' = [instance EXCEPT ![k] = Null]
            /\ subscription' = Unsubscribed(k)
       ELSE UNCHANGED <<instance, subscription>>
    /\ UNCHANGED <<held, requesting, mUpdates, step, noting, queue, requests, histVars>>

EndCollect ==
    /\ step = 0
    /\ visit = {}
    /\ step' = 1
    /\ UNCHANGED <<instance, held, requesting, mUpdates, visit, noting, queue, subscription,
                   requests, histVars>>

LastStep == Len(Kinds)
NextStep ==
    IF step = LastStep THEN step' = 0 /\ visit' = Stored
                         ELSE step' = step + 1 /\ UNCHANGED visit

ReceiveNothing ==
    /\ step # 0
    /\ noting = Null
    /\ queue[step] = <<>>
    /\ NextStep
    /\ UNCHANGED <<instance, held, requesting, mUpdates, noting, queue, subscription, requests,
                   histVars>>

ReceiveLock(kind) == kind.of = "topic" => mTopicsMutexFree

(* Receiving, finding the member and applying the update hold the mutex of *)
(* the member's list, which no other thread holds for nodes.               *)
Receive ==
    LET u == Head(queue[step])
        kind == Kinds[step]
        found == u.key \in Stored
    IN  /\ step # 0
        /\ noting = Null
        /\ queue[step] # <<>>
        /\ ReceiveLock(kind)
        /\ queue' = [queue EXCEPT ![step] = Tail(@)]
        /\ instance' = IF found
                       THEN [instance EXCEPT ![u.key][kind.list] =
                                Updated(kind.list, @, u.other)]
                       ELSE instance
        /\ dropped' = IF found
                      THEN dropped
                      ELSE dropped \cup
                           {[key |-> u.key, live |-> u.subscription = subscription[u.key]]}
        /\ IF found /\ kind.notes
           THEN /\ noting' = u
                /\ noted' = [noted EXCEPT ![u.key] = Append(@, u.other)]
                /\ UNCHANGED <<step, visit>>
           ELSE NextStep /\ UNCHANGED <<noting, noted>>
        /\ UNCHANGED <<held, requesting, mUpdates, subscription, requests, sent, delivered>>

(* addSubUpdate, addSendUpdate and addPubUpdate                            *)
Known(k) == {i \in DOMAIN mUpdates : mUpdates[i].member = k}
WithNote(k, o) ==
    IF Known(k) = {}
    THEN Append(mUpdates, [member |-> k, connections |-> <<o>>])
    ELSE [i \in DOMAIN mUpdates |->
             IF i \in Known(k)
             THEN [mUpdates[i] EXCEPT !.connections = Append(@, o)]
             ELSE mUpdates[i]]

AddUpdate ==
    /\ noting # Null
    /\ mUpdates' = WithNote(noting.key, noting.other)
    /\ noting' = Null
    /\ NextStep
    /\ UNCHANGED <<instance, held, requesting, queue, subscription, requests, histVars>>

RunStep ==
    \/ \E k \in Key : Collect(k)
    \/ EndCollect \/ ReceiveNothing \/ Receive \/ AddUpdate

Next ==
    \/ RunStep
    \/ \E k \in Key : Request(k) \/ Release(k)
    \/ Answer
    \/ \E i \in DOMAIN Kinds, k \in Key, o \in Other : SendUpdate(i, k, o)
    \/ GetUpdates

Spec == Init /\ [][Next]_vars

(* The thread is scheduled and gets mTopicsMutex in one of the gaps        *)
(* between requests; the monitor answers; the builder runs.                *)
Fairness == SF_vars(RunStep) /\ WF_vars(Answer) /\ WF_vars(GetUpdates)
FairSpec == Spec /\ Fairness

-----------------------------------------------------------------------------
(* DataStore::run never erases a member with a MemberPtr; lists, notes and *)
(* queues have their types.                                                *)
TypeOK ==
    /\ \A k \in Key : instance[k] = Null \/ instance[k] \in [Lists -> Seq(Other)]
    /\ held \subseteq Stored
    /\ requesting \in Key \cup {Null}
    /\ mUpdates \in Seq([member : Key, connections : Seq(Other)])
    /\ step \in 0 .. Len(Kinds)
    /\ visit \subseteq Key
    /\ noting \in Update \cup {Null}
    /\ \A i \in DOMAIN Kinds : queue[i] \in Seq(Update)

(* What was noted of a member is returned by getUpdates exactly once and   *)
(* in order, but for the update whose note is still to be made; and a      *)
(* result lists a member once.                                             *)
Waiting(k) == FlattenSeq([i \in DOMAIN mUpdates |->
                  IF mUpdates[i].member = k THEN mUpdates[i].connections ELSE <<>>])
BeingNoted(k) == IF noting # Null /\ noting.key = k THEN <<noting.other>> ELSE <<>>
NotesReturnedOnce ==
    /\ \A k \in Key : delivered[k] \o Waiting(k) \o BeingNoted(k) = noted[k]
    /\ \A i, j \in DOMAIN mUpdates : mUpdates[i].member = mUpdates[j].member => i = j

(* Of a running subscription nothing is lost but what arrives for a node   *)
(* whose request has not been answered yet; an update of a topic waits for *)
(* the answer, since the request holds mTopicsMutex.                       *)
DropsOnlyBeforeStored ==
    [][\A d \in dropped' \ dropped :
           d.live => d.key = requesting /\ d.key \in NodeKey]_vars

(* Once the monitor sends no more, DataStore::run empties every queue, one *)
(* update of a kind per pass, and all it has noted reaches the builder,    *)
(* whatever the other threads do.                                          *)
UpdatesReceived ==
    sent = MaxSent ~> (\A i \in DOMAIN Kinds : queue[i] = <<>>) /\ noted = delivered
=============================================================================
