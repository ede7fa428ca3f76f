---------------------------- MODULE AddressBook ----------------------------
(***************************************************************************)
(* Addresses (elfo-core/src/addr.rs), the address book (address_book.rs)    *)
(* and how workers of elfo-network register handles of remote groups in it  *)
(* and in the routes of local groups (topology.rs), while actors are        *)
(* spawned and removed and a sender looks handles up.                       *)
(*                                                                         *)
(* A step is one atomic operation: an insertion or a removal of the slab    *)
(* behind the book, one read-copy-update of a map, one load.                *)
(***************************************************************************)
EXTENDS Integers, FiniteSets, FiniteSetsExt, Bitwise

CONSTANTS
    SlotBits,        \* page_no + slot_no
    GenBits,         \* generation
    GroupBits,       \* group_no
    NodeBits,        \* node_no
    Launches,        \* NodeLaunchId: what the lower bits are XORed with
    HandleWorkers,   \* workers of the network group
    RemoteGroup,     \* their remote group: [node, group, name]
    LocalGroup,      \* the local group the remote ones are connected to
    NetworkGroup     \* the group of the workers

ASSUME AddressAssumption ==
    /\ {SlotBits, GenBits, GroupBits, NodeBits} \subseteq Nat \ {0}
    /\ {LocalGroup, NetworkGroup} \subseteq 1..(2 ^ GroupBits - 1)
    /\ LocalGroup # NetworkGroup

VARIABLES
    launch,    \* launch_id
    groupNos,  \* group_no of every local group, in the order they are added
    slots,     \* Idr: slot -> [gen, addr]; addr = NULL when vacant
    phase,     \* how far each worker is with its registration
    handle,    \* handle_addr of each worker
    remoteMap, \* RemoteToHandleMapInner::map
    fallback,  \* RemoteToHandleMapInner::fallback
    nodeMap,   \* RemoteActorGroup::nodes of the local group, by name
    latest,    \* history: who has written each key of `remoteMap` last
    carried    \* an address that a sender has loaded and not yet resolved

bookVars == <<launch, groupNos, slots, phase, handle, remoteMap, fallback,
              nodeMap, latest, carried>>

NULL == 0
KeyBits == SlotBits + GenBits
Slots == 0..(2 ^ SlotBits - 1)
GroupNos == 1..(2 ^ GroupBits - 1)
NodeNos == 1..(2 ^ NodeBits - 1)

-----------------------------------------------------------------------------
(* addr.rs *)

\* Addr::new_local
NewLocal(key, group, l) == group * 2 ^ KeyBits + ((key ^^ l) % 2 ^ KeyBits)

\* Addr::node_no, Addr::group_no; 0 stands for None.
NodeNo(addr) == addr \div 2 ^ (KeyBits + GroupBits)
GroupNo(addr) == (addr \div 2 ^ KeyBits) % 2 ^ GroupBits
NodeNoGroupNo(addr) == addr \div 2 ^ KeyBits

IsLocal(addr) == addr # NULL /\ NodeNo(addr) = 0
IsRemote(addr) == NodeNo(addr) # 0

IntoRemote(addr, node) ==
    IF IsLocal(addr) THEN addr + node * 2 ^ (KeyBits + GroupBits) ELSE addr
IntoLocal(addr) == addr % 2 ^ (KeyBits + GroupBits)

\* Addr::slot_key: Idr looks at the lower bits only.
SlotKey(addr, l) == (addr ^^ l) % 2 ^ KeyBits


\* GroupNo::new with the feature `network-2`.
NewGroupNo(no, l) ==
    LET xor == (l \div 2 ^ KeyBits) % 2 ^ GroupBits
    IN  IF no # xor THEN no ^^ xor ELSE xor

-----------------------------------------------------------------------------
(* address_book.rs *)

\* The key of a vacant slot; Idr counts a slot's generations.
KeyOf(slot) == slots[slot].gen * 2 ^ SlotBits + slot

Vacant == {s \in Slots : slots[s].addr = NULL}
\* Bound: a generation is not used again.
Usable == {s \in Vacant : slots[s].gen < 2 ^ GenBits - 1}

\* VacantEntry::insert
Insert(slot, group) ==
    slots' = [slots EXCEPT ![slot].addr = NewLocal(KeyOf(slot), group, launch)]

\* AddressBook::get of a local address: Idr compares the generation, the
\* filter the group.
Get(addr) ==
    LET key == SlotKey(addr, launch)
        slot == key % 2 ^ SlotBits
    IN  IF slots[slot].gen = key \div 2 ^ SlotBits /\ slots[slot].addr = addr
        THEN addr ELSE NULL

\* AddressBook::remove
RemoveObject(addr) ==
    LET slot == SlotKey(addr, launch) % 2 ^ SlotBits
    IN  slots' = [slots EXCEPT ![slot].addr = NULL, ![slot].gen = @ + 1]

\* RemoteToHandleMap::insert and ::remove use the same key.
MapKey(w) == <<LocalGroup, RemoteGroup[w].node, RemoteGroup[w].group>>
MapKeys == {MapKey(w) : w \in HandleWorkers}

\* RemoteToHandleMap::get for the actor `from` of group `group`.
GetRemote(from, group, node, no) ==
    LET key == <<group, node, no>>
    IN  IF key \in MapKeys /\ remoteMap[key] # NULL THEN remoteMap[key]
        ELSE IF from \in HandleWorkers THEN fallback[from] ELSE NULL

-----------------------------------------------------------------------------
(* topology.rs: register_remote() and RegisterRemoteGroupGuard *)

InsertHandle(w) ==
    /\ phase[w] = "idle"
    /\ \E slot \in Usable :
          /\ Insert(slot, groupNos[NetworkGroup])
          /\ handle' = [handle EXCEPT ![w] = slots'[slot].addr]
    /\ phase' = [phase EXCEPT ![w] = "inserted"]
    /\ UNCHANGED <<launch, groupNos, remoteMap, fallback, nodeMap, latest, carried>>

RegisterRemote(w) ==
    /\ phase[w] = "inserted"
    /\ remoteMap' = [remoteMap EXCEPT ![MapKey(w)] = handle[w]]
    /\ fallback' = [fallback EXCEPT ![w] = handle[w]]
    /\ latest' = [latest EXCEPT ![MapKey(w)] = w]
    /\ phase' = [phase EXCEPT ![w] = "mapped"]
    /\ UNCHANGED <<launch, groupNos, slots, handle, nodeMap, carried>>

InsertNode(w) ==
    /\ phase[w] = "mapped"
    /\ nodeMap' = [nodeMap EXCEPT ![RemoteGroup[w].name] = handle[w]]
    /\ phase' = [phase EXCEPT ![w] = "registered"]
    /\ UNCHANGED <<launch, groupNos, slots, handle, remoteMap, fallback, latest,
                   carried>>


DeregisterRemote(w) ==
    /\ phase[w] = "registered"
    /\ remoteMap' = [remoteMap EXCEPT ![MapKey(w)] =
                         IF @ = handle[w] THEN NULL ELSE @]
    /\ fallback' = [fallback EXCEPT ![w] = NULL]
    /\ phase' = [phase EXCEPT ![w] = "unmapped"]
    /\ UNCHANGED <<launch, groupNos, slots, handle, nodeMap, latest, carried>>

RemoveHandle(w) ==
    /\ phase[w] = "unmapped"
    /\ RemoveObject(handle[w])
    /\ phase' = [phase EXCEPT ![w] = "removed"]
    /\ UNCHANGED <<launch, groupNos, handle, remoteMap, fallback, nodeMap, latest,
                   carried>>

RemoveNode(w) ==
    /\ phase[w] = "removed"
    /\ nodeMap' = [nodeMap EXCEPT ![RemoteGroup[w].name] =
                       IF @ = handle[w] THEN NULL ELSE @]
    /\ handle' = [handle EXCEPT ![w] = NULL]
    /\ phase' = [phase EXCEPT ![w] = "idle"]
    /\ UNCHANGED <<launch, groupNos, slots, remoteMap, fallback, latest, carried>>

-----------------------------------------------------------------------------
(* Other users of the book *)

\* Actors of the local group come and go.
Spawn ==
    /\ \E slot \in Usable : Insert(slot, groupNos[LocalGroup])
    /\ UNCHANGED <<launch, groupNos, phase, handle, remoteMap, fallback, nodeMap,
                   latest, carried>>

Terminate ==
    /\ \E s \in Slots : GroupNo(slots[s].addr) = groupNos[LocalGroup]
                        /\ RemoveObject(slots[s].addr)
    /\ UNCHANGED <<launch, groupNos, phase, handle, remoteMap, fallback, nodeMap,
                   latest, carried>>

\* A sender: the demux loads the address of a route, or get() that of the
\* handle of a remote actor; the book is asked afterwards.
Load ==
    /\ carried = NULL
    /\ carried' \in {nodeMap[RemoteGroup[w].name] : w \in HandleWorkers} \cup
           {GetRemote(NULL, LocalGroup, RemoteGroup[w].node,
                      RemoteGroup[w].group) : w \in HandleWorkers}
    /\ UNCHANGED <<launch, groupNos, slots, phase, handle, remoteMap, fallback,
                   nodeMap, latest>>

Resolve ==
    /\ carried # NULL
    /\ carried' = NULL
    /\ UNCHANGED <<launch, groupNos, slots, phase, handle, remoteMap, fallback,
                   nodeMap, latest>>

BookInit ==
    /\ launch \in Launches
    /\ groupNos = [no \in GroupNos |-> NewGroupNo(no, launch)]
    /\ slots = [s \in Slots |-> [gen |-> 0, addr |-> NULL]]
    /\ phase = [w \in HandleWorkers |-> "idle"]
    /\ handle = [w \in HandleWorkers |-> NULL]
    /\ remoteMap = [k \in MapKeys |-> NULL]
    /\ fallback = [w \in HandleWorkers |-> NULL]
    /\ nodeMap = [n \in {RemoteGroup[w].name : w \in HandleWorkers} |-> NULL]
    /\ latest = [k \in MapKeys |-> NULL]
    /\ carried = NULL

BookNext ==
    \/ \E w \in HandleWorkers :
          \/ InsertHandle(w) \/ RegisterRemote(w) \/ InsertNode(w)
          \/ DeregisterRemote(w) \/ RemoveHandle(w) \/ RemoveNode(w)
    \/ Spawn \/ Terminate \/ Load \/ Resolve

BookSpec == BookInit /\ [][BookNext]_bookVars

-----------------------------------------------------------------------------

\* The worker whose handle `addr` is.
OwnerOf(addr) == {w \in HandleWorkers : handle[w] = addr}

=============================================================================
