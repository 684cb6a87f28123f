-------------------------- MODULE ReplicaSnapshots --------------------------
(***************************************************************************)
(* What TabletInfo promises about replica_locations_ (spec.md 4.2, 5):    *)
(* the replica map is a value; heartbeats replace it by a merged value;   *)
(* a reader that took the map keeps the value it took, unchanged, until   *)
(* it lets go of it, whatever updates happen meanwhile.                    *)
(***************************************************************************)
EXTENDS TLC

CONSTANTS Servers, Readers, Roles, Drives, Absent, None

Replica == [role : Roles, drive : Drives]
ReplicaMap == [Servers -> Replica \cup {Absent}]

VARIABLES
    current,    \* the replica map readers get now
    snap        \* reader -> the map it holds, or None

avars == <<current, snap>>

(* Heartbeat merge: insert, or take the reported role keeping drive info. *)
Merge(m, s, role, drive) ==
    IF m[s] = Absent THEN [m EXCEPT ![s] = [role |-> role, drive |-> drive]]
    ELSE [m EXCEPT ![s].role = role]

SetDrive(m, s, drive) ==
    IF m[s] = Absent THEN m ELSE [m EXCEPT ![s].drive = drive]

Init == current = [s \in Servers |-> Absent] /\ snap = [r \in Readers |-> None]

Replace(m) == current' = m /\ UNCHANGED snap
Update(s, role, drive) == current' = Merge(current, s, role, drive) /\ UNCHANGED snap
UpdateDrive(s, drive) == current' = SetDrive(current, s, drive) /\ UNCHANGED snap
Take(r) == snap[r] = None /\ snap' = [snap EXCEPT ![r] = current] /\ UNCHANGED current
Drop(r) == snap[r] # None /\ snap' = [snap EXCEPT ![r] = None] /\ UNCHANGED current

Next ==
    \/ \E m \in ReplicaMap : Replace(m)
    \/ \E s \in Servers, role \in Roles, d \in Drives :
          Update(s, role, d) \/ UpdateDrive(s, d)
    \/ \E r \in Readers : Take(r) \/ Drop(r)

Spec == Init /\ [][Next]_avars
=============================================================================
