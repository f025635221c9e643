# A TLA+ model of STREAM-FDL

STREAM-FDL watches the nodes and topics of a ROS 2 system through a monitor (the
"server" of its IPC library), detects faults in their attributes and collects
the members around a fault in a subgraph. This directory holds TLA+ modules
translated from its source, configurations that check them with TLC, and
theorems about them that TLAPS proves. `PROJECT.json` lists runs, theorems,
hazards and, for every definition, the lines of code it stands for.

Paths below are relative to `src/src/`; `ds:` is `dynamic-subgraph/data-store.cpp`.

## 1. The system

Four threads share one `DataStore`, one `Watchlist` and one subgraph:

| thread | function | state it owns or shares |
|---|---|---|
| builder (main) | `DynamicSubgraphBuilder::run` | alert rate, blind spot counter, `mSAG`; uses watchlist, updates, alerts |
| detection | `FaultDetection::run` | `mMovingWindow`, `mAlerts`; uses the watchlist |
| data store | `DataStore::run` | erases from `mNodes`, `mTopics`; fills `mUpdates` |
| visualisation | `Graph::visualise` | draws `mSAG` |

| component | state | operations | interaction | hard part | what makes it correct |
|---|---|---|---|---|---|
| `DoubleLinkedList` | `mBegin`, `mEnd`, `mPrev`, `mNext` | `emplace_back`, `erase`, iteration, `find` | inside `DataStore` | erasing under an iterator, reuse of addresses | pointers represent the list, a pass misses nothing, until an end is erased |
| `AtomicCounter`, `MemberPtr` | `mValue`; `mpMember` | copy, move, assign, destroy | every holder of a member | who counts what | counter covers the holders |
| `DataStore` lookups and collection | `mNodes`, `mTopics` | `getNode`, `getTopic`, ...ByName, `requestNode`, `requestTopic`, first half of `run` | watchlist calls, monitor answers | check before lock; wrong mutex; shared response queue | nothing in use is erased; a key is stored once |
| `DataStore` updates | `mUpdates`, the lists of `Node` and `Topic` | second half of `run`, nine `update`s, `add*Update`, `getUpdates` | monitor sends, builder takes | update before its member; two-step note | no update lost or returned twice |
| `CircularBuffer` | `mBuffer`, `mCurrent` | `push`, `current`, `full`, `getMean`, `getStdDev` | windows, alert rate | iterator into a vector that grows and is moved | newest value, sums, verdict |
| `Watchlist` | `mMembers`, `mInitialMemberNames` | `addMember`, `contains`, `getMembers`, `reset`, `notifyUsed` | builder and detection | map ordered by `operator bool`; check-then-act | what may enter it |
| `FaultDetection` | `mMovingWindow`, `mAlerts` | `run`, `reset`, `getEmittedAlerts` | watchlist, builder | `reset` without lock under the loop | each alert delivered once; windows of one member |
| `DynamicSubgraphBuilder` | counter, rate, `mSomethingIsGoingOn` | `run`, `blindSpotCheck`, `expandSubgraph`, `checkAbortCirteria` | all of the above | order of drain, abort, reset | resets end investigations that began |
| blind spot search | graph view, path | `getBlindspots`, `getBlindspotsInternal` | builder | recursion that consumes the graph | ends; reports sinks and loops, once |
| `Graph` | `mVertices`, `mUpdateVisualisation` | `add`, `contains`, `getIncoming`, `getOutgoing`, `reset`, `visualise` | builder, visualisation, the lists of the members | flag cleared after the unlock, `reset` without lock | only suspects are drawn; what is asked for is drawn |
| full graph view | the view being built | `getFullGraphView` | query to the monitor | vertices and edges filtered by different conditions | every edge joins two vertices |
| IPC connection | `nrRetries` | `tryMakeIpcClient` | monitor | a counter that is decremented before it is tested | number of attempts |
| main and shutdown | `gIsRunning`, signal handlers, threads, mutexes | `main`, `sigintHandler`, joins | all threads | joins of threads that wait for mutexes and for the monitor | no deadlock; a signal ends the program |

Outside the model: the IPC library, JSON, OpenCV and Graphviz (not in the
repository); `plugin-manager.cpp` (commented out of the build); the stub of the
fault trajectory extraction; `msg-queue-monitor.cpp`, a separate tool; logging.

## 2. Modules

```
MemberList <-- implemented by -- DoubleLinkedList               (DoubleLinkedList_proofs)
DoubleLinkedList <- ListWalk <- DataStore                       (DataStore_proofs)
GraphUpdates                                                    (GraphUpdates_proofs)
CircularBuffer                                                  (Analyses_proofs)
Watchlist <- FaultDetection <- DynamicSubgraph                  (DynamicSubgraph_proofs)
                 Investigation <-- implemented by -- DynamicSubgraph
Graph <- Expansion                                              (Expansion_proofs)
BlindSpots <- FullGraphView                                     (Analyses_proofs)
Main                                                            (Main_proofs)
MCListWalk, MCDataStore, MCDynamicSubgraph,
MCExpansion, MCBlindSpots                                       values for TLC
SequenceLemmas                                                  lemmas of the proofs
```

`A <- B` means that `B` extends `A`: the two are one composed system.

**MemberList.** What the data store's lists promise: elements in order of
emplacement, without the erased ones.

**DoubleLinkedList** (`dynamic-subgraph/double-linked-list.cpp`). An element is
its address; `heap` holds the allocated ones, `mPrev`, `mNext`, `mBegin`, `mEnd`
are the members of that name. `EmplaceBack`, `Begin`, `Advance` and `Erase` are
`emplace_back`, `begin()`, `++` and `erase`; `it` is the iterator of the pass in
`DataStore::run`. `Erase` is the code's: it links the neighbours and frees the
element, and leaves `mBegin` and `mEnd` on it if it was an end. From then on
`begin()` is a freed address, and `emplace_back` writes the link to the new
element into freed memory (`Linked`), unless the allocator has put something
there again. A freed address may be allocated at any time; what is read of one
that is free is any address, what is written to it is lost, and deleting one
that is free ends the program and is no step. The histories
`firstErased` and `lastErased` say which end has been erased, `whole` that neither
had been when the pass began, and `list` what the list should hold. `Walk` follows
the destructor.

**ListWalk** (`double-linked-list.cpp:156-188`, called at `ds:59-139`). `find` and
`findName`, which walk the same list without a mutex, one pointer per step,
beside the pass that erases and the requests that append. `finder` is their
iterator; it begins at `mBegin`, which is a freed address once the first element
was erased. What they read of an erased element is whatever is there: any address,
or what was looked for. That the iterator has been on an erased element is kept in
`strayed`.

**DataStore** (`ds:55-191`, `ds:440-480`, `member-base.cpp`,
`atomic-counter.cpp`). It extends `ListWalk`: the list is the one of
`DoubleLinkedList`, stale ends included, and every search walks it pointer by
pointer. A *slot* is a `MemberPtr` object; `Copy`, `Move` and `Destroy` are its
special members. A *caller* is a thread in the watchlist, which holds
`Watchlist::mMembersMutex` over a whole lookup. `Lookup` calls `find` or
`findName`, `Walking` is their loop, which holds no mutex of the data store, `Miss`
and `ReturnHit` its outcomes; `Request`, `Respond` and `ReturnRequested` are the
steps of `requestNode` and `requestTopic` between locks and messages; `Answer` is
the monitor. The collector is `RunBegin`, `RunKeep`, `RunUnused` (`nonZero()` is
false, or anything on freed memory), `RunLock`, `RunErase`, `RunEnd`: test, lock and
erasure are separate as in the code, and each moves the iterator by the list's own
actions. `RunAborts` stands for the end of the program when an element is deleted
twice. `Kind` chooses the list, and with it whether requests and the collector use
the same mutex (`ds:100` takes the one of the topics for nodes). `AssignOver` lets a
`MemberPtr` in use be assigned to. `reused` and `astray` are histories: a search has
returned an element it found, or returned after it had strayed.

**GraphUpdates** (`ds:482-620`, `ds:369-438`, `members.cpp`, `members.hpp`).
`Kinds` is the table of the nine receive blocks in their order: the list each
update goes to, and whether it is noted for the builder. `Receive` is one block
up to its note, `AddUpdate` the note (`add*Update`, under `mUpdatesMutex`),
`ReceiveNothing` an empty queue, `Collect` the erasing loops. `Request` and
`Answer` are the two messages of a request, which hold `mTopicsMutex` between
them. `find` returns a stored member: this is a list none of whose ends was erased
and a search that did not stray, the case in which `FindComplete` says so; what
happens else is in `DataStore`. Each request is a subscription with a number of its own, which its updates
carry, so that an update of an earlier one can be told from the others.
Simplified: lookups that hit are in `DataStore`; an unsubscription reaches
the monitor at once; there is one service name; the values in `Other` stand for
other members and for the two states of a node.

**CircularBuffer** (`fault-detection/circular-buffer.cpp`, `detectFaults`).
`mBuffer` is the vector and `storage` the block of memory its values are in.
An iterator is a block and an offset, so that `mCurrent` is left behind when the
vector moves to another block unless the code follows. `push` may reallocate every
time; `MoveIntoWindow` is the move constructor, which `createAttrWindow` uses once
per buffer, after the first push. Inserting before an iterator of another block is
undefined and no step; `CurrentIsNewest` says that it does not come to that. The 3-sigma test
is made in exact arithmetic, with both sides squared and multiplied by the
square of the number of values, so that no root or quotient is needed.
Floating-point rounding is not modelled.

**Watchlist, FaultDetection, DynamicSubgraph** (`fault-detection/watchlist.cpp`,
`fault-detection/fault-detection.cpp`, `dynamic-subgraph/dynamic-subgraph.cpp`).
Each extends the one before. The watchlist's operations are actions that the two
threads call: `getMembers` in three steps, since its name lookups take time while
it holds the mutex (`initPos` is where it stands, `mMembersMutexFree` its
absence). `SameKey` is the order `std::map` derives from `operator bool`.
The detection thread runs through the control states of `fd`: start, get, update,
check, push, notify. A window is its member, its size, the members its samples
came from and the number of resets before it. `reset` takes no lock, so
`ResetDetection` may come between any two steps; a loop whose map was cleared
under it either goes on over the entries it had, or leaves (`LoseIterator`): the
outcomes of the undefined behaviour that do not end the program. The builder's
control states follow `run`. What it learns from outside (utilisation, blind
spots, updates, incoming members) is any. The alert rate is `excess`: the
threshold is a fraction, and mean > threshold is `excess > 0`. A failing
assertion sets `aborted` and stops both threads.

**Investigation.** What that pipeline promises to whoever extracts fault
trajectories from it: alerts are raised in some order and taken in that order,
each once; investigations follow one another and each needs an alert of its own.
`DynamicSubgraph` states the mapping, in which `ended` counts the resets.

**BlindSpots, FullGraphView** (`dynamic-subgraph.cpp:96-160`, `ds:193-335`). The
view is built from the monitor's answer in four steps, one per loop of the code:
vertices, then the relations of subscriptions, publications, and services and
actions; each loop has its own condition on ignored topics and its own assertion
on origins. Then the search runs on it: its recursion is a stack of members and
the edges they still have to follow; `graph` is the shared view that visits
consume. The answer is one the query can give: nodes and topics that are related
to something, and relations among them with the null of `OPTIONAL MATCH`. That
it arrives in packets of text is left out.

**Graph, Expansion** (`dynamic-subgraph/graph.cpp`, `dynamic-subgraph.cpp`,
`ds:369-438`). `Graph` has the vertices and the visualisation thread: `BeginDrawing`
takes `mVerticesMutex`, `Draw` reads one vertex and what it leads to, `EndDrawing`
gives the mutex up, `Show` clears the request and renders. `Reset` takes no mutex
and may come between any two of these; an iteration whose vertices were cleared
goes on over those it had or leaves (`LoseVertices`). Edges are what the lists of
the members say at that moment; `GetIncoming` and `GetOutgoing` read the lists the
code reads. `Expansion` adds what makes the lists and the subgraph grow:
`DataStore::run` lists a link and notes it in two steps, the builder takes the
notes, proposes to the watchlist those that lead to a vertex, adds the alerted
members, proposes what is incoming to them, asks for a redraw, and goes on or
resets. Alerts are any members here; whether a proposal enters the watchlist is a
question of `Watchlist`.

**Main** (`main.cpp`, `ds:629-666`, the loops of all threads). The process from
start to end. A thread is at a label that names the call it makes next, and
`MutexAt` says which mutex it takes there; sections in which a thread waits for the
monitor or takes a further mutex have labels of their own, the others are one
step. Conditions on data may go either way. A loop over names, windows, proxies,
alerts or updates makes at most one turn per pass: all turns take and give up the
same mutexes, so a second one adds no new way to wait. `FailToConnect` has the
retry counter of `tryMakeIpcClient`, `Search` the repeated searches of the
constructor, `Receive` a signal with and without the handler installed,
`MonitorStops` the monitor's end, after which whoever waits for it waits for ever.

## 3. Runs

| run | module, cfg | shows |
|---|---|---|
| list | MCListWalk, DoubleLinkedList | with every element erased, the ends included: `Represents`, each end and both chains until the last element goes; `PassVisitsAll`, for a pass that began with both ends; the refinement of `MemberList` until an end goes; `FindComplete`, a search misses an element only if it stood on one that was erased, or behind an erased last element |
| store | MCDataStore, DataStore | lifetime (`NoDangling`, `CountCoversHolders`, `StaysUnused`) as long as no search hits and no pass begins after an end was erased; one element per key as long as the last element was not erased and no search strayed; exclusive list and matched responses without any condition |
| buffer | CircularBuffer | `mCurrent` follows reallocation and move and is on the newest value; sums over everything ever pushed, no outlier in ten |
| subgraph | MCDynamicSubgraph, DynamicSubgraph | the two threads and the watchlist, the refinement of `Investigation`; `AlertsDrained` (liveness) |
| spots | MCBlindSpots, BlindSpots | `ViewWellFormed` for every view, and the search on each: complete, without repetition, `Terminates` (liveness) |
| updates | GraphUpdates | notes returned once, which updates are dropped; `UpdatesReceived` (liveness) |
| graph | MCExpansion, Expansion | `OnlySuspectsDrawn`; `DrawnUnlessInGap` and `NeighboursProposed` (liveness) |
| main | Main | `NoCircularWait`, `GivesUpOneShort`; `StopsOnceRunning` (liveness) |
| list_ends, store_relookup, subgraph_emplace, subgraph_spots | | end in a counterexample, see below |

Some properties say what the code does where one would rather it did something
else: `OneWatched` (the watchlist holds one member at a time), `SumsAgree` (the buffer forgets nothing),
`OutlierNeedsEleven` (the configured window of ten detects no outlier),
`GivesUpOneShort` (one attempt to connect less than configured), `DrawnUnlessInGap`
and `DropsOnlyBeforeStored` (where a redraw and an update are lost). Each says
exactly how far the deviation goes: nothing else is lost, judged or watched. A
repair of the code would change them on purpose.

### Bounds

| run | bound | why it is enough |
|---|---|---|
| list | 4 addresses | two interior elements and both ends, erased in every order, their addresses reused under the pass and under the search |
| store | mTopics: 3 addresses, 3 keys, 2 callers, 2 slots, `MaxLookups` 4, `MaxCount` 2 | an element between two others is erased before an end is, its key requested again and its address reused; both callers competing; copies. `AssignOver` is `FALSE`, since no code assigns over a `MemberPtr` in use; the proofs allow it |
| store_relookup | mNodes: 1 address, 1 key, 3 lookups | the shortest way to a hit |
| buffer | window 10, values 0, 1, 7, eleven pushes, 2 blocks | the configured size reached and exceeded, the values staying or moving at each push; `mMaxSize` is the code's, so the verdict is the code's |
| subgraph | 2 members, 2 names, window 2, 3 alerts, interval 2, threshold 1/2 | a window that fills, is judged and outgrows its size; two resets; `Size` merges sizes beyond full; `Floor` merges rates no alerts left can raise |
| spots | 2 nodes, 1 topic, 1 ignored topic, up to `MaxRelations` = 2 relations of each kind, in every order | self-loops, double edges, loops of two and three through a topic, edges to and from the ignored topic, nodes with nothing but a timer |
| updates | 1 node, 1 topic, 2 updates, 2 requests | a member requested again with an update of the earlier subscription in the queue; an update before the answer |
| graph | a node and a topic it publishes and subscribes to: 4 links | both directions of both relations, listed in any order before, during and after the member becomes a vertex; every number of investigations |
| main | `MaxAttempts` 3, `MaxFailures` 3 | none, one, two and three attempts configured, fewer and more failures than that; threads, mutexes and signals are the program's own |

`MaxPushes`, `MaxLookups`, `MaxCount`, `MaxAlerts`, `MaxSent`, `MaxRequests`,
`MaxRelations`, `MaxAttempts` and `MaxFailures` are bounds of the model and none of
the code. Deadlock is not checked where a bound on the only operation (pushes) or
a failed assertion stops the model; it is checked elsewhere. In `main` the end of
the process is a step that changes nothing (`ProcessOver`), so that a deadlock
found there would be one of the threads.

### Fairness

* `GraphUpdates`: strong fairness of `RunStep`, since requests may take the mutex
  again and again but let it go every time, and the thread waits on it; weak
  fairness of the monitor's answer; and
  the builder calls `getUpdates` in every turn of its loop. `UpdatesReceived`
  speaks of the time after the monitor's last update (`sent = MaxSent`).
* `DynamicSubgraph`: weak fairness of the detection thread, which runs in a loop;
  strong fairness of the builder: the detection thread holds `mMembersMutex` in
  `getMembers` only and sleeps for the rest of its interval at the end of a pass,
  so that a builder that waits gets the mutex.
* `FullGraphView`: sequential code, `WF` of its step.
* `Expansion`: weak fairness of the note that follows an update and of the
  visualisation, which waits for the rest of its interval outside the mutex; strong
  fairness of the builder, which needs that mutex to add a vertex. Updates need
  not arrive.
* `Main`: strong fairness of every thread. Each gives up its mutexes in every turn
  of its loop and sleeps for the rest of its interval, so one that waits for a mutex
  gets it in one of the gaps. The monitor is not fair: it may stop, and then
  `silent` excuses the program. Nothing is assumed about signals or about the
  number of failures to connect.

The strong assumptions are about the scheduler: `std::mutex` does not promise
that a waiting thread gets it. With a pass longer than the interval the detection
thread does not sleep, and the assumption about the builder is the scheduler's
alone.

### Disagreements between the code and what it says of itself

Each is a run that TLC ends with a counterexample; `PROJECT.json` quotes the lines.

* **list_ends**: `erase` leaves `mBegin` and `mEnd` where they are; once the first
  or last element is erased the destructor's assertions fail. `DataStore::run`
  erases any element, and so do the models: what depends on the ends is stated
  up to the moment one is erased. After that, what is emplaced behind the stale
  `mEnd` is linked to nothing and found by nobody, and a pass or a search begins
  on freed memory. With an address allocated again, such a pass may even erase
  an element in use by way of a stale iterator: it tests the counter of one element,
  waits for the mutex, and finds another one at the address. That is why
  `NoDangling` and its like end where a pass begins after an end was erased, and
  why no liveness of the collector is claimed.
* **store_relookup**: a lookup that hits is not counted (`member-base.cpp:43`
  expects the data store to do it). The other lifetime results hold until a
  search hits. In the program a hit is the lookup of a name configured twice and of a
  proxy that is watched already.
* **subgraph_emplace**: `addMember` returns when the member is missing and inserts
  when it is there, where the insertion cannot succeed and the assertion fails.
  The shortest way is a blind spot that is watched; with two names configured a
  member may also enter the watchlist between `contains` and `addMember`.
* **subgraph_spots**: by the same condition a blind spot that is found is not
  watched, though `dynamic-subgraph.cpp:108` says it should be, and the removal
  `fault-detection.cpp:65` speaks of finds nothing to remove. The theorem
  `OnlyNamesEnter` has the general fact: no call of `addMember` ever adds anything.

Met on the way, and stated here without a run of their own:

* `circular-buffer.cpp:63` says of the `insert` in `push` "FIX: seg fault on some
  value of mCurrent", and line 42 of the move constructor "that should be fine from
  my testing". The run buffer and the theorem `Newest` find `mCurrent` valid before
  every `push`, wherever the vector reallocates and after the move, as long as one
  thread uses the buffer: no value of `mCurrent` is at fault there. What may be is
  outside the buffer: `FaultDetection::reset` clears `mMovingWindow` without a lock
  (`fault-detection.hpp:55`) and destroys buffers that the detection thread may be
  pushing into.
* A window is judged once, when its size equals the nominal one, since `full()` is
  false again with the next sample. After `Watchlist::reset` and before the windows
  are reset it may be judged again (`RepeatsOnlyUnwatched`), and alerts of windows
  from before a reset still arrive after the drain at `dynamic-subgraph.cpp:77`.
* A member whose only edge leads to itself is not a blind spot, because it is
  compared with the path before it is put on it (`CoveredBySpots` excludes it).
* `getIncoming` of a node lists what it publishes to (`graph.cpp:207`), and only
  what is in the subgraph already. What feeds a suspected node is proposed to the
  watchlist through the updates only, and there a note that arrives before the
  alert of its member is discarded (`dynamic-subgraph.cpp:56`).
* `mUpdateVisualisation` is cleared after the mutex was given up (`graph.cpp:92`): a
  request in between is lost. `reset` neither takes the mutex nor asks for a redraw,
  so an investigation that has ended stays on the screen.
* Clients of actions are recorded among the clients of services; `mActionClients`
  (`members.hpp:71`) is filled by nothing (`members.cpp:34`).
* The retry counter of `tryMakeIpcClient` is decremented before it is compared with
  zero: configured for n >= 2 attempts it makes n - 1, for none or one it goes on
  for ever (`GivesUpOneShort`).
* `gIsRunning` is set after the signal handlers were installed (`main.cpp:62-64`): a
  signal between the two is lost. `StopsOnceRunning` therefore begins after it.
* A node update that arrives between the request and the answer is dropped for
  good; a topic update waits for the mutex the request holds
  (`DropsOnlyBeforeStored`).

## 4. Proofs

All proofs hold for every value of the constants that meets the named
assumptions, and are about specifications without fairness.

* **DoubleLinkedList_proofs**, for every erasure, the ends included. The inductive
  invariant joins `ListTypeOK`, `Represents`, what the stale ends still tell
  (`EndsLeft`) and the state of the pass: a pass that began with both ends has its
  iterator in the list, what it has yet to see lies at or after it, and the last
  element is still there, because it erases that as the last thing it does
  (`PassPosition`). `Represents` keeps each end until it is erased itself, and the
  chains until the last element is: without a first element the others are still
  linked, but what follows a stale `mEnd` is not. From it: `TypeCorrect`,
  `Representation`, `PassComplete`. `WalkValue` ties what the program can see to the
  history `list`: by induction on the number of rounds, following `mNext` from
  `mBegin` meets the elements of `list` in order and then null, as long as both ends
  are in place. Since `list` is a bijection between its positions and the allocated
  elements, the pointers alone then implement the abstract list
  (`PointerRefinement`), and the assertions of `~DoubleLinkedList` hold
  (`DestructorHolds`): what the run list_ends finds is due to the erased ends and to
  nothing else.
  For the search the invariant is extended by: as long as the iterator has not
  strayed and the last element was not erased, an element sought lies at or after
  it (`Ahead`). An append does not change positions, and an erasure moves both or
  neither across; only that of the iterator's own element can break it, and a first
  element that was erased is where the iterator begins: `WalkTypeCorrect`,
  `FindMissesOnlyAstray`.
* **DataStore_proofs**. Every step of the data store is one of the list's and the
  search's own steps or leaves both alone (`StepsOfTheWalk`), so their invariant
  holds here too, whatever the collector erases. `StoreInv` adds the types and the
  protocol of the lookups: `mMembersMutex` admits one caller, whose search and request
  are the only ones (`Protocol`). Hence `StoreTypeCorrect`, `ResponsesMatch`, and
  `TopicsExclusive` for `Kind = "topic"`; for nodes it does not hold.
  `KeyInv`, until the last element is erased or a search strays: the search is
  after all elements with its key (`SoughtHaveKey`), so by `FindComplete` a key that
  it misses is missing, and stays so until the caller has emplaced it
  (`MissedAreMissing`), because nobody else emplaces. `KeysUnique`.
  `Lifetimes`, as long as the counters are `Reliable`: `MembersLive`, the counters
  cover the holders (`Counted`), and two facts on control states: a caller has an
  iterator only between emplacing and returning, into the list, and is a holder
  meanwhile (`CallerIterators`); what the collector has found unused is in the list
  with a counter of zero (`UnusedIsZero`). The last one is inductive because only a
  holder increases a counter, and an element at zero has none: that is why the test
  before the lock is safe. `LifetimeSafety`, `CountsCover` and `UnusedStable` follow.
* **Analyses_proofs**, for views and buffers of any size.
  *The view.* What the query answers with are lists without duplicates and
  relations among their members (`ResponseInv`). While the loops run, every edge is
  between two vertices (`BuildInv`): each loop skips the relations of one side only,
  and that suffices because of the types of that relation's ends. `ClosedView`.
  *The search.* A member is in `graph`, or in a call in progress, or done with, and
  these are disjoint; each call's member can be reached from those below it
  (`VisitInv`). Hence `NoneTwice`, the bound on the depth (`ViewTypeCorrect`), and
  `SinksAndLoops`: a member whose only edge leads to one below it on the path closes
  a loop through all calls in between. For `Coverage` a member with a single edge is
  followed: its call has its edge still to follow, or the target has left `graph`
  (`CallsInv`); when the call returns, the target is neither in `graph` nor below it on
  the path, hence done with, and whatever covers the target covers the member too
  (`CoverInv`). `SearchProgresses`:
  each step takes a member from `graph`, or ends a call, or takes an edge from the
  innermost one, so no view keeps the search going for ever. That some step is
  always possible until the end, and with it `Terminates`, is model-checked.
  *The buffer.* `mCurrent` stays at offset 0 of the block the values are in, so
  `insert` is always at the front: `BufferTypeCorrect` and `Newest`. `SumsOverAll`: a value in front adds itself to
  what `accumulate` returns, by induction on the number of values. `NoOutlierInTen`
  is the inequality that none of n values is more than sqrt(n - 1) deviations from
  their mean. With `D = n q - s^2` and `d = n x - s` for the newest value x, the
  invariant is `D >= 0` and `d^2 <= (n - 1) D`; a push keeps it because
  `n D' = d'^2 + (n + 1) D` (`OneMore`), whatever the values.
* **GraphUpdates_proofs**. A subscription belongs to a stored key or to the one
  being requested (`SubscriptionInv`), since collecting a member ends it. So an
  update of a running subscription finds no member only while that is being
  requested, and for topics the mutex of the request excludes this:
  `LostBeforeStored`. `TypeCorrect` has with it that nothing in use is collected.
  `NotedExactlyOnce`: `mUpdates` has one entry of a member at most (`NotesInv`), so
  what waits of a member is the list of that entry, to which a note appends.
* **DynamicSubgraph_proofs**, for any members, names, window size, interval and
  threshold. Four invariants, each for its own theorems. `WatchInv`: the map has one
  entry at most, as every insertion tests `SameKey` (`WatchesOne`), and names leave
  the configuration as they resolve (`OnlyNamesEnter`). `PassInv`: there is one
  window at most, and what the pass iterates is it or is from before a reset.
  `EpochInv`: a window that was judged has reached its size and a full one that was
  judged is unwatched, which `OneVerdict` needs because a reset of the watchlist
  and one of the windows are two steps. `CountInv`: what was delivered and what
  is queued are what was emitted; and resets, the investigation under way and the
  alerts not yet counted are never more than the alerts delivered, because the rate
  rises above the threshold by alerts only. With it every step of the two threads
  maps to a step of `Investigation` or a stutter (`Refinement`).
* **Main_proofs**. `LockInv`: the owner of a mutex is inside a section that mutex
  guards, and nobody owns the mutexes of nodes and topics together. Proved once for
  each way a label can change (`Go` with the mutex taken, given up or left alone),
  and then per thread. `NoDeadlock` orders the threads by what they wait for: one
  that goes on, one that waits for an inner mutex (nodes, topics, vertices), one that
  waits for `mMembersMutex`, one that joins; a thread waits for one at a lower level
  only (`Levels`), so of any threads the lowest waits for none. The mutexes of updates
  and alerts guard sections of one step, in which nobody is ever found waiting.
  `OneAttemptShort` rests on
  `nrRetries = attempts - 1 - failures` while connecting (`CountInv`).
* **Expansion_proofs**, for any members and links. While the visualisation reads,
  every vertex is read or about to be, since the mutex keeps new ones out; and what
  is about to be read are vertices, unless these were reset (`ReadingInv`). That is
  why an edge cannot bring anything onto the screen that was no vertex when the
  drawing began (`DrawsSuspects`), though the lists grow and `reset` takes no mutex.
* **SequenceLemmas**: induction on the natural numbers and up to a number, stated
  for sets, from the well-foundedness of `<` in the library; that a recursion of n
  steps has a value; and what `RemoveAt`, `RemoveFirst`, `Append`, `\o`, `Front` and
  `FlattenSeq` do to sequences, distinct ones in particular.

Every invariant and action property of the passing runs is the statement of a
theorem, and so are the two refinements. Model-checked only: what is temporal
under fairness (`AlertsDrained`, `UpdatesReceived`, `DrawnUnlessInGap`,
`NeighboursProposed`, `Terminates`, `StopsOnceRunning`), which is beyond this
prover.

## 5. Not modelled, and the plan

Not modelled: the plugin manager (commented out of the build, called from
nowhere), the fault trajectory extraction (a stub), `msg-queue-monitor.cpp` (a
separate tool that prints), logging, the parsing of answers and the packets they
come in, the shared memory channels of attributes (`getAttributes`), rendering,
and the checks of the command line and the configuration file before `main` creates
anything.

Left for later:

1. `addMember` composed with the lookups of `DataStore` in one module, so that the
   hit that is not counted is reached from the builder's loop.
2. The lists of a member at the granularity of single reads, for `getIncoming` and
   `getOutgoing`, which iterate them without the mutex under which they grow.
3. A bound on what `CoveredBySpots` leaves open: which of the loops through members
   with several edges the search may miss.
