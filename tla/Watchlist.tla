------------------------------ MODULE Watchlist ------------------------------
(***************************************************************************)
(* The watchlist: a std::map from MemberPtr to the reason a member is      *)
(* watched, and the configured names not yet resolved.  Every operation    *)
(* holds mMembersMutex; getMembers holds it over one getNodeByName per     *)
(* name, so that looking up a name is a step of its own.                   *)
(***************************************************************************)
EXTENDS Integers, Sequences, SequencesExt

CONSTANTS
    Member,         \* nodes and topics, as the MemberPtrs to them
    Null,           \* the MemberPtr to nothing
    Name,           \* names of nodes
    NodeOf,         \* the node a name belongs to
    InitialNames    \* the configured names

ASSUME MemberAssumption == Null \notin Member
ASSUME NameAssumption == NodeOf \in [Name -> Member] /\ InitialNames \in Seq(Name)

VARIABLES
    mInitialMemberNames,    \* names left to resolve
    mMembers,               \* entries of the map
    initPos                 \* position of tryInitialise's iterator; 0: not running

watchVars == <<mInitialMemberNames, mMembers, initPos>>

Type == {"normal", "initial", "blindspot"}
Entry == [member : Member, type : Type]

-----------------------------------------------------------------------------
(* Slips: what a bug, or a repair, would make of definitions below.        *)
SamePointer(p, q) == p = q

-----------------------------------------------------------------------------
(* MemberPtr has no operator<: std::map compares its conversions to bool.  *)
Valid(p) == p # Null
Less(p, q) == ~Valid(p) /\ Valid(q)
SameKey(p, q) == ~Less(p, q) /\ ~Less(q, p)

Find(m) == {e \in mMembers : e.member = m}
Watched == {e.member : e \in mMembers}

(* std::map::emplace                                                       *)
Emplaced(p) == \A e \in mMembers : ~SameKey(e.member, p)
Emplace(p, t) ==
    IF Emplaced(p) THEN mMembers \cup {[member |-> p, type |-> t]} ELSE mMembers

-----------------------------------------------------------------------------
WatchlistInit ==
    /\ mInitialMemberNames = InitialNames
    /\ mMembers = {}
    /\ initPos = 0

mMembersMutexFree == initPos = 0

(* getMembers, from taking the lock to the first name                      *)
TryInitialise ==
    /\ mMembersMutexFree
    /\ initPos' = 1
    /\ UNCHANGED <<mInitialMemberNames, mMembers>>

(* One turn of the loop of tryInitialise, for a name the data store        *)
(* resolves to a node or not.                                              *)
TryName ==
    /\ initPos \in DOMAIN mInitialMemberNames
    /\ \/ /\ initPos' = initPos + 1
          /\ UNCHANGED <<mInitialMemberNames, mMembers>>
       \/ /\ mMembers' = Emplace(NodeOf[mInitialMemberNames[initPos]], "initial")
          /\ mInitialMemberNames' = RemoveAt(mInitialMemberNames, initPos)
          /\ UNCHANGED initPos

(* The rest of getMembers                                                  *)
GetMembers ==
    /\ initPos > Len(mInitialMemberNames)
    /\ initPos' = 0
    /\ UNCHANGED <<mInitialMemberNames, mMembers>>

(* addMember for a proxy: only a member found in the map is looked up and  *)
(* inserted.  The assertion on emplace fails in a state where it does not. *)
AddMemberInserts(m) == Find(m) # {}
AddMemberAsserts(m) == AddMemberInserts(m) => Emplaced(m)
AddMember(m, t) ==
    /\ mMembersMutexFree
    /\ mMembers' = IF AddMemberInserts(m) THEN Emplace(m, t) ELSE mMembers
    /\ UNCHANGED <<mInitialMemberNames, initPos>>

Holds(m) == Find(m) # {}

Reset ==
    /\ mMembersMutexFree
    /\ mMembers' = {}
    /\ UNCHANGED <<mInitialMemberNames, initPos>>

(* notifyUsed returns whether it erased the member.                        *)
Used(m) == \E e \in Find(m) : e.type = "blindspot"
NotifyUsed(m) ==
    /\ mMembersMutexFree
    /\ mMembers' = IF Used(m) THEN mMembers \ Find(m) ELSE mMembers
    /\ UNCHANGED <<mInitialMemberNames, initPos>>

-----------------------------------------------------------------------------
(* The names, the map and the position of tryInitialise have their types.  *)
WatchlistTypeOK ==
    /\ mInitialMemberNames \in Seq(Name)
    /\ mMembers \subseteq Entry
    /\ initPos \in 0 .. Len(mInitialMemberNames) + 1

(* All valid MemberPtrs are one key: however many names resolve, the map   *)
(* watches one member.                                                     *)
OneWatched == \A d, e \in mMembers : d = e
=============================================================================
