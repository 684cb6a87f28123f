---------------------------- MODULE DeletedTables ----------------------------
(***************************************************************************)
(* DeletedTableInfo (catalog_entity_info.cc): when a table is dropped, its *)
(* constructor records a (tablet server uuid, tablet id) pair for every    *)
(* replica of every tablet table->GetTablets() returns (partitions_, the  *)
(* active tablets), reading each tablet's replica map in turn;            *)
(* AddTabletsToMap publishes the pairs in the master's DeletedTabletMap;  *)
(* DeleteTablet erases a pair when its server acknowledges the deletion,  *)
(* and the entity is discarded once HasTablets is false.                   *)
(*                                                                         *)
(* The callers are outside this repository and modelled from spec.md:     *)
(* deletions are sent to the published pairs, a server deletes its       *)
(* replica and acknowledges (possibly more than once), and replicas may   *)
(* still be added to a tablet while the drop is being recorded.           *)
(***************************************************************************)
EXTENDS Integers, FiniteSets

CONSTANTS
    Servers,    \* tablet servers
    Tablets,    \* TableInfo::tablets_, active and inactive
    Active,     \* TableInfo::partitions_ at the time of the drop
    MaxMoves    \* bound on replicas added while the drop is recorded

ASSUME Active \subseteq Tablets

VARIABLES
    locs,       \* tablet -> servers holding a replica (replica_locations_)
    pc,         \* "idle", "scan" (constructor running), "built", "mapped"
    todo,       \* tablets the constructor has not read yet
    tabletSet,  \* DeletedTableInfo::tablet_set_
    mapped,     \* keys published in the DeletedTabletMap
    acks,       \* deletion acknowledgments in flight
    discarded,  \* the entity was dropped once empty
    moves       \* replicas added so far

vars == <<locs, pc, todo, tabletSet, mapped, acks, discarded, moves>>

(* TabletKey: (permanent uuid of the server, tablet id).                   *)
Keys == Servers \X Tablets

-----------------------------------------------------------------------------
(* The drop: table->GetTablets() with the default, active tablets only.    *)
GetTablets == Active

DeletedTableInfoStart ==
    /\ pc = "idle"
    /\ pc' = IF GetTablets = {} THEN "built" ELSE "scan"
    /\ todo' = GetTablets
    /\ UNCHANGED <<locs, tabletSet, mapped, acks, discarded, moves>>

(* One iteration of the constructor's loop: read the tablet's replica     *)
(* map (a copy-on-write snapshot) and insert a pair per replica.          *)
DeletedTableInfoScan(t) ==
    /\ pc = "scan" /\ t \in todo
    /\ tabletSet' = tabletSet \cup {<<s, t>> : s \in locs[t]}
    /\ todo' = todo \ {t}
    /\ pc' = IF todo' = {} THEN "built" ELSE "scan"
    /\ UNCHANGED <<locs, mapped, acks, discarded, moves>>

(* Mutant: the loop stops after the first key.                          *)
AddTabletsToMapFirstOnly ==
    /\ pc = "built"
    /\ mapped' = IF tabletSet = {} THEN {} ELSE {CHOOSE k \in tabletSet : TRUE}
    /\ pc' = "mapped"
    /\ UNCHANGED <<locs, todo, tabletSet, acks, discarded, moves>>

(* DeletedTableInfo::AddTabletsToMap                                        *)
AddTabletsToMap ==
    /\ pc = "built"
    /\ mapped' = tabletSet
    /\ pc' = "mapped"
    /\ UNCHANGED <<locs, todo, tabletSet, acks, discarded, moves>>

(* DeletedTableInfo::HasTablets                                             *)
HasTablets == tabletSet # {}

(* Mutant: the key's fields are taken in the wrong order.                 *)
DeleteTabletSwapped(key) == tabletSet \ {<<key[2], key[1]>>}

(* Mutant: every pair of the key's tablet is erased.                      *)
DeleteTabletByTablet(key) == {k \in tabletSet : k[2] # key[2]}

(* DeletedTableInfo::DeleteTablet: tablet_set_.erase(key)                  *)
DeleteTablet(key) == tabletSet \ {key}

-----------------------------------------------------------------------------
(* A replica is added to a tablet (remote bootstrap, load balancing)      *)
(* while the drop has not been recorded yet.                               *)
AddReplica(t, s) ==
    /\ pc \in {"idle", "scan"} /\ moves < MaxMoves
    /\ s \notin locs[t]
    /\ locs' = [locs EXCEPT ![t] = @ \cup {s}]
    /\ moves' = moves + 1
    /\ UNCHANGED <<pc, todo, tabletSet, mapped, acks, discarded>>

(* A server told to delete a published replica deletes it and acks.       *)
ServerDelete(key) ==
    /\ pc = "mapped" /\ key \in mapped
    /\ key[1] \in locs[key[2]]
    /\ locs' = [locs EXCEPT ![key[2]] = @ \ {key[1]}]
    /\ acks' = acks \cup {key}
    /\ UNCHANGED <<pc, todo, tabletSet, mapped, discarded, moves>>

(* The master applies an ack: the DeletedTabletMap entry leads to the      *)
(* entity, DeleteTablet erases the pair, and an entity without tablets is  *)
(* discarded. An ack may be delivered again.                               *)
ApplyAck(key) ==
    /\ key \in acks /\ ~discarded
    /\ tabletSet' = DeleteTablet(key)
    /\ discarded' = (tabletSet' = {})
    /\ \E again \in BOOLEAN : acks' = IF again THEN acks ELSE acks \ {key}
    /\ UNCHANGED <<locs, pc, todo, mapped, moves>>

Done == discarded /\ UNCHANGED vars

-----------------------------------------------------------------------------
(* Any placement of replicas on servers, every tablet replicated.         *)
Init ==
    /\ locs \in [Tablets -> SUBSET Servers \ {{}}]
    /\ pc = "idle"
    /\ todo = {}
    /\ tabletSet = {}
    /\ mapped = {}
    /\ acks = {}
    /\ discarded = FALSE
    /\ moves = 0

Next ==
    \/ DeletedTableInfoStart \/ AddTabletsToMap
    \/ \E t \in Tablets : DeletedTableInfoScan(t)
    \/ \E t \in Tablets, s \in Servers : AddReplica(t, s)
    \/ \E k \in Keys : ServerDelete(k) \/ ApplyAck(k)
    \/ Done

(* The drop runs to its end, deletion RPCs are retried until the server   *)
(* answers, and acks are applied.                                         *)
Fairness ==
    /\ WF_vars(DeletedTableInfoStart \/ AddTabletsToMap)
    /\ \A t \in Tablets : WF_vars(DeletedTableInfoScan(t))
    /\ \A k \in Keys : WF_vars(ServerDelete(k)) /\ WF_vars(ApplyAck(k))

Spec == Init /\ [][Next]_vars /\ Fairness

-----------------------------------------------------------------------------
TypeOK ==
    /\ locs \in [Tablets -> SUBSET Servers]
    /\ pc \in {"idle", "scan", "built", "mapped"}
    /\ todo \subseteq Tablets
    /\ tabletSet \subseteq Keys /\ (pc = "mapped" => tabletSet \subseteq mapped)
    /\ mapped \subseteq Keys /\ acks \subseteq mapped
    /\ discarded \in BOOLEAN /\ moves \in 0..MaxMoves

(* The entity is discarded only when every replica it recorded is gone:  *)
(* acks arriving in any order and more than once never empty tablet_set_ *)
(* while a recorded server still holds its replica.                        *)
DiscardedOnlyWhenAcked ==
    discarded => \A k \in mapped : k[1] \notin locs[k[2]]

(* Every drop eventually discards its DeletedTableInfo.                   *)
DropCompletes == <>discarded

(* spec.md: the entity tracks which replica servers still owe a deletion *)
(* acknowledgment and is discarded once empty; so once it is discarded,  *)
(* no replica of the table's tablets is left on any server.               *)
NoReplicaLeftBehind ==
    discarded => \A t \in Tablets : locs[t] = {}

=============================================================================
