--------------------------- MODULE TabletReplicas ---------------------------
(***************************************************************************)
(* TabletInfo::replica_locations_ (catalog_entity_info.cc): a shared_ptr  *)
(* to a TabletReplicaMap, swapped under the tablet's lock_ by             *)
(* SetReplicaLocations, UpdateReplicaLocations and UpdateReplicaDriveInfo *)
(* and handed out by GetReplicaLocations to readers that use it after the *)
(* lock is released.                                                       *)
(*                                                                         *)
(* Memory is a heap of Slots. A map lives in a slot while the current    *)
(* pointer or some reader's copy refers to it; the last reference going  *)
(* away frees the slot, which a later allocation may reuse. A TabletReplica*)
(* is abstracted to its role (which UpdateFrom copies, with the state,    *)
(* member type and data dir it stands for) and its drive info (which      *)
(* UpdateFrom keeps).                                                      *)
(***************************************************************************)
EXTENDS FiniteSets, TLC

CONSTANTS Servers, Readers, Roles, Drives, Absent, None, Slots, Unalloc

Replica == [role : Roles, drive : Drives]
ReplicaMap == [Servers -> Replica \cup {Absent}]

VARIABLES
    heap,       \* slot -> the TabletReplicaMap stored there, or Unalloc
    current,    \* the slot replica_locations_ points to
    held        \* reader -> the slot of the shared_ptr it holds, or None

vars == <<heap, current, held>>

Referenced(p) == p = current \/ \E r \in Readers : held[r] = p

(* The slot p after its referrer set loses one reference.                 *)
FreedIfUnreferenced(h, p, cur, hd) ==
    IF p = cur \/ \E r \in Readers : hd[r] = p THEN h
    ELSE [h EXCEPT ![p] = Unalloc]

(* Install a newly allocated map as replica_locations_: the old map is    *)
(* released by the assignment.                                             *)
Install(m) ==
    \E f \in Slots :
        /\ heap[f] = Unalloc
        /\ current' = f
        /\ heap' = FreedIfUnreferenced([heap EXCEPT ![f] = m], current, f, held)
        /\ UNCHANGED held

(* TabletReplica::UpdateFrom: everything but the drive info is taken from *)
(* the report (time_updated is reset to now).                              *)
UpdateFrom(rep, source) == [rep EXCEPT !.role = source.role]

(* TabletReplica::UpdateDriveInfo. *)
UpdateDriveInfo(rep, drive) == [rep EXCEPT !.drive = drive]

-----------------------------------------------------------------------------
(* TabletInfo::SetReplicaLocations: the caller's map replaces the current *)
(* one (the LeaderChangeReporter only logs).                               *)
SetReplicaLocations(m) == Install(m)

(* Mutant: the map is modified in place instead of being copied.          *)
UpdateReplicaLocationsInPlace(s, replica) ==
    LET m == heap[current]
    IN  /\ heap' = [heap EXCEPT ![current] =
                      IF m[s] = Absent THEN [m EXCEPT ![s] = replica]
                      ELSE [m EXCEPT ![s] = UpdateFrom(m[s], replica)]]
        /\ UNCHANGED <<current, held>>

(* TabletInfo::UpdateReplicaLocations: copy the map, then insert the      *)
(* reported replica, or merge it into the existing entry by UpdateFrom.   *)
UpdateReplicaLocations(s, replica) ==
    LET m == heap[current]
    IN  Install(IF m[s] = Absent THEN [m EXCEPT ![s] = replica]
                ELSE [m EXCEPT ![s] = UpdateFrom(m[s], replica)])

(* TabletInfo::UpdateReplicaDriveInfo: copy the map, then update the      *)
(* entry's drive info if there is one (the copy is installed either way). *)
UpdateReplicaDriveInfo(s, drive) ==
    LET m == heap[current]
    IN  Install(IF m[s] = Absent THEN m
                ELSE [m EXCEPT ![s] = UpdateDriveInfo(m[s], drive)])

(* TabletInfo::GetReplicaLocations: a reader copies the shared_ptr.       *)
GetReplicaLocations(r) ==
    /\ held[r] = None
    /\ held' = [held EXCEPT ![r] = current]
    /\ UNCHANGED <<heap, current>>

(* The reader drops its shared_ptr.                                        *)
ReleaseReplicaLocations(r) ==
    LET hd == [held EXCEPT ![r] = None]
    IN  /\ held[r] # None
        /\ held' = hd
        /\ heap' = FreedIfUnreferenced(heap, held[r], current, hd)
        /\ UNCHANGED current

(***************************************************************************)
(* TabletInfo::GetLeaderUnlocked / GetLeader on a map: the first LEADER   *)
(* entry of the (unordered) map, so any LEADER entry; with none, Expired  *)
(* when the table is not running (CheckRunning), otherwise NotFound.     *)
(***************************************************************************)
GetLeader(m, tableRunning) ==
    LET leaders == {s \in Servers : m[s] # Absent /\ m[s].role = "LEADER"}
    IN  IF leaders # {} THEN leaders
        ELSE IF ~tableRunning THEN {"Expired"} ELSE {"NotFound"}

-----------------------------------------------------------------------------
EmptyMap == [s \in Servers |-> Absent]

Init ==
    \E p \in Slots :
        /\ heap = [q \in Slots |-> IF q = p THEN EmptyMap ELSE Unalloc]
        /\ current = p
        /\ held = [r \in Readers |-> None]

Next ==
    \/ \E m \in ReplicaMap : SetReplicaLocations(m)
    \/ \E s \in Servers, role \in Roles, d \in Drives :
          UpdateReplicaLocations(s, [role |-> role, drive |-> d])
    \/ \E s \in Servers, d \in Drives : UpdateReplicaDriveInfo(s, d)
    \/ \E r \in Readers : GetReplicaLocations(r) \/ ReleaseReplicaLocations(r)

Spec == Init /\ [][Next]_vars

-----------------------------------------------------------------------------
(* Refinement: replica_locations_ seen through the pointers implements    *)
(* the value semantics of ReplicaSnapshots: readers holding a map see it  *)
(* unchanged across any number of heartbeats, replacements and frees.     *)
Abstract == INSTANCE ReplicaSnapshots WITH
    current <- heap[current],
    snap <- [r \in Readers |-> IF held[r] = None THEN None ELSE heap[held[r]]]

ImplementsSnapshots == Abstract!Spec

=============================================================================
