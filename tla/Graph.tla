-------------------------------- MODULE Graph --------------------------------
(***************************************************************************)
(* The subgraph of suspected members, as the builder and the visualisation *)
(* share it.  The builder adds vertices under mVerticesMutex and resets    *)
(* them without it.  The visualisation holds the mutex while it draws the  *)
(* vertices and what they lead to, and clears the request for a redraw     *)
(* after it has given the mutex up.  Edges are what the members' own lists *)
(* say, and those grow as DataStore::run applies updates.                  *)
(***************************************************************************)
EXTENDS Naturals

CONSTANTS
    Node, Topic,    \* members
    Link            \* entries the lists of members may get

Member == Node \cup Topic
NodeList == {"mPublishesTo", "mSubscribesTo", "mServers", "mActionServers", "mClients",
             "mActionClients"}
TopicList == {"mPublishers", "mSubscribers"}

ASSUME MemberAssumption == Node \cap Topic = {}
ASSUME LinkAssumption ==
    Link \subseteq [of : Node, list : NodeList, other : Member]
                      \cup [of : Topic, list : TopicList, other : Node]

VARIABLES
    links,                  \* entries in the lists of the members
    mVertices,
    mUpdateVisualisation,   \* a redraw is asked for
    visualiser,             \* control state of visualise
    unread,                 \* vertices its iteration has yet to reach
    drawn,                  \* the graph it builds: its vertices
    image                   \* the vertices on the screen

drawVars == <<visualiser, unread, drawn, image>>
graphVars == <<mVertices, mUpdateVisualisation, drawVars>>

-----------------------------------------------------------------------------
(* Slips: what a bug would make of definitions below.                      *)
AnyMember(m) == m \in Member
AddForgotten(m) == UNCHANGED graphVars
EndDrawingEarly ==
    /\ visualiser = "read"
    /\ visualiser' = "clear"
    /\ unread' = {}
    /\ UNCHANGED <<mVertices, mUpdateVisualisation, drawn, image>>

-----------------------------------------------------------------------------
(* std::atomic<bool> is initialised to false.                              *)
GraphInit ==
    /\ links = {}
    /\ mVertices = {}
    /\ mUpdateVisualisation = FALSE
    /\ visualiser = "test"
    /\ unread = {}
    /\ drawn = {}
    /\ image = {}

mVerticesMutexFree == visualiser # "read"

Contains(m) == m \in mVertices

Add(m) ==
    /\ mVerticesMutexFree
    /\ mVertices' = mVertices \cup {m}
    /\ UNCHANGED <<mUpdateVisualisation, drawVars>>

Reset ==
    /\ mVertices' = {}
    /\ UNCHANGED <<mUpdateVisualisation, drawVars>>

UpdateVisualisation ==
    /\ mUpdateVisualisation' = TRUE
    /\ UNCHANGED <<mVertices, drawVars>>

-----------------------------------------------------------------------------
Listed(m, lists) == {l.other : l \in {k \in links : k.of = m /\ k.list \in lists}}

(* A node's incoming members are listed by what it publishes to.           *)
IncomingLists(m) == IF m \in Topic THEN {"mPublishers"} ELSE {"mServers", "mActionServers", "mPublishesTo"}
GetIncoming(m) == {n \in Listed(m, IncomingLists(m)) : Contains(n)}

OutgoingLists(m) == IF m \in Topic THEN {"mSubscribers"} ELSE {"mClients", "mActionClients", "mPublishesTo"}
GetOutgoing(m) == {n \in Listed(m, OutgoingLists(m)) : Contains(n)}

-----------------------------------------------------------------------------
(* visualise, from finding a redraw asked for to the first vertex          *)
BeginDrawing ==
    /\ visualiser = "test"
    /\ mUpdateVisualisation
    /\ visualiser' = "read"
    /\ unread' = mVertices
    /\ drawn' = {}
    /\ UNCHANGED <<mVertices, mUpdateVisualisation, image>>

Draw(m) ==
    /\ visualiser = "read"
    /\ m \in unread
    /\ unread' = unread \ {m}
    /\ drawn' = drawn \cup {m} \cup GetOutgoing(m)
    /\ UNCHANGED <<mVertices, mUpdateVisualisation, visualiser, image>>

(* The vertices were reset under the iteration, which may miss the rest.   *)
LoseVertices ==
    /\ visualiser = "read"
    /\ ~(unread \subseteq mVertices)
    /\ unread' = {}
    /\ UNCHANGED <<mVertices, mUpdateVisualisation, visualiser, drawn, image>>

EndDrawing ==
    /\ visualiser = "read"
    /\ unread = {}
    /\ visualiser' = "clear"
    /\ UNCHANGED <<mVertices, mUpdateVisualisation, unread, drawn, image>>

(* The request is cleared, then the graph is rendered and shown.           *)
Show ==
    /\ visualiser = "clear"
    /\ mUpdateVisualisation' = FALSE
    /\ image' = drawn
    /\ drawn' = {}
    /\ visualiser' = "test"
    /\ UNCHANGED <<mVertices, unread>>

Visualise ==
    BeginDrawing \/ (\E m \in Member : Draw(m)) \/ LoseVertices \/ EndDrawing \/ Show

-----------------------------------------------------------------------------
(* Vertices and what is drawn of them are members; nothing is left to read *)
(* outside the locked section.                                             *)
GraphTypeOK ==
    /\ links \subseteq Link
    /\ mVertices \subseteq Member
    /\ mUpdateVisualisation \in BOOLEAN
    /\ visualiser \in {"test", "read", "clear"}
    /\ unread \subseteq Member /\ drawn \subseteq Member /\ image \subseteq Member
    /\ visualiser # "read" => unread = {}
=============================================================================
