-------------------------- MODULE TablePartitions --------------------------
(***************************************************************************)
(* The partition index of one TableInfo (catalog_entity_info.cc): the map *)
(* tablets_ (tablet id -> TabletInfo, active and inactive) and the ordered *)
(* map partitions_ (partition_key_start -> TabletInfo, active only), and   *)
(* the TableInfo operations that maintain them under the table's lock.     *)
(*                                                                         *)
(* Partition keys are abstracted to 0 .. NumKeys: a partition is          *)
(* [start, end) with start in Keys and end in 1 .. NumKeys; the start key *)
(* 0 stands for the empty string "" (the least key) and the end key       *)
(* NumKeys stands for the empty string as an open upper bound.            *)
(*                                                                         *)
(* The callers of these operations live in the catalog manager, which is *)
(* not part of this repository: the tablet splits, replacements,          *)
(* retirements, removals and catalog reloads that drive the index are      *)
(* modelled from spec.md and are marked so in PROJECT.json.               *)
(***************************************************************************)
EXTENDS Integers, FiniteSets, Sequences, SequencesExt, TLC

CONSTANTS
    Tablets,          \* tablet ids the model may use
    Root,             \* the tablet the table is created with
    NoMeta,           \* metadata of a tablet id not yet created
    NumKeys,          \* size of the abstract partition key space
    MaxDepth          \* bound on split_depth (bounds the number of splits)

ASSUME Root \in Tablets /\ NumKeys \in Nat \ {0} /\ MaxDepth \in Nat

Keys == 0 .. (NumKeys - 1)
EmptyKey == 0               \* "" as a start key / query start
OpenEnd == NumKeys          \* "" as an end key / query end

(* SysTabletsEntryPB states the index code distinguishes. *)
States == {"CREATING", "RUNNING", "REPLACED", "DELETED"}

Meta == [start : Keys, end : 1 .. NumKeys, depth : 0 .. MaxDepth,
         parent : Tablets \cup {NoMeta}, state : States, hidden : BOOLEAN]

VARIABLES
    meta,        \* tablet id -> committed SysTabletsEntryPB (or NoMeta)
    tablets,     \* TableInfo::tablets_ (its key set: ids are unique)
    partitions   \* TableInfo::partitions_: partition_key_start -> tablet

vars == <<meta, tablets, partitions>>

(* PersistentTabletInfo::is_deleted / is_hidden / is_running. *)
IsDeleted(m) == m.state \in {"REPLACED", "DELETED"}
IsHidden(m) == m.hidden
IsRunning(m) == m.state = "RUNNING"

Created == {t \in Tablets : meta[t] # NoMeta}
Unused == Tablets \ Created

-----------------------------------------------------------------------------
(* The index as a value, so that the loop bodies can be folded.           *)
Index(ts, ps) == [tablets |-> ts, partitions |-> ps]

(* Mutant: the split_depth comparison is dropped, so a child never takes  *)
(* its parent's slot.                                                      *)
AddTabletUnlockedIgnoresDepth(md, ix, t) ==
    LET k == md[t].start
        ts == ix.tablets \cup {t}
    IN  CASE IsDeleted(md[t]) -> ix
          [] IsHidden(md[t]) -> Index(ts, ix.partitions)
          [] k \notin DOMAIN ix.partitions ->
                Index(ts, ix.partitions @@ (k :> t))
          [] IsDeleted(md[ix.partitions[k]]) ->
                Index(ts, [ix.partitions EXCEPT ![k] = t])
          [] OTHER -> Index(ts, ix.partitions)

(***************************************************************************)
(* TableInfo::AddTabletUnlocked: deleted tablets are ignored, hidden ones  *)
(* go to tablets_ only; otherwise the tablet takes the slot of its start  *)
(* key if the slot is free, or if it is deeper than the current holder or *)
(* the holder is deleted; else the slot is left alone (an equal depth is  *)
(* only logged).                                                           *)
(***************************************************************************)
AddTabletUnlocked(md, ix, t) ==
    LET k == md[t].start
        ts == ix.tablets \cup {t}
    IN  CASE IsDeleted(md[t]) -> ix
          [] IsHidden(md[t]) -> Index(ts, ix.partitions)
          [] k \notin DOMAIN ix.partitions ->
                Index(ts, ix.partitions @@ (k :> t))
          [] md[t].depth > md[ix.partitions[k]].depth
               \/ IsDeleted(md[ix.partitions[k]]) ->
                Index(ts, [ix.partitions EXCEPT ![k] = t])
          [] OTHER -> Index(ts, ix.partitions)

(* TableInfo::AddTablets / AddTablet: AddTabletUnlocked over the caller's *)
(* vector, in the vector's order.                                          *)
AddTablets(md, ix, order) ==
    FoldLeft(LAMBDA acc, t : AddTabletUnlocked(md, acc, t), ix, order)

(* Mutant: tablets_ is updated but the tablet's slot is not erased.      *)
RemoveTabletUnlockedKeepsSlot(md, ix, t, deactivate_only) ==
    IF t \notin ix.tablets THEN ix
    ELSE Index(IF deactivate_only THEN ix.tablets ELSE ix.tablets \ {t},
               ix.partitions)

(* TableInfo::RemoveTabletUnlocked: the slot of the tablet's start key is *)
(* erased only if the tablet holds it; tablets_ keeps the tablet when     *)
(* deactivate_only.                                                        *)
RemoveTabletUnlocked(md, ix, t, deactivate_only) ==
    LET k == md[t].start
        ps == IF k \in DOMAIN ix.partitions /\ ix.partitions[k] = t
              THEN [x \in DOMAIN ix.partitions \ {k} |-> ix.partitions[x]]
              ELSE ix.partitions
    IN  IF t \notin ix.tablets THEN ix
        ELSE Index(IF deactivate_only THEN ix.tablets ELSE ix.tablets \ {t}, ps)

(* TableInfo::ReplaceTablet: release the old tablet's slot, add the new.  *)
ReplaceTablet(md, ix, old, new) ==
    LET k == md[old].start
        ps == IF k \in DOMAIN ix.partitions /\ ix.partitions[k] = old
              THEN [x \in DOMAIN ix.partitions \ {k} |-> ix.partitions[x]]
              ELSE ix.partitions
    IN  AddTabletUnlocked(md, Index(ix.tablets, ps), new)

(* TableInfo::ClearTabletMaps. *)
ClearTabletMaps(ix, deactivate_only) ==
    Index(IF deactivate_only THEN ix.tablets ELSE {}, <<>>)

-----------------------------------------------------------------------------
(* Read-only queries, evaluated on the current state.                     *)

(* The keys of partitions_ in ascending order (std::map iteration).        *)
SlotKeys == SetToSortSeq(DOMAIN partitions, <)

(* std::map::upper_bound over SlotKeys: the first position with key > k. *)
UpperBound(k) ==
    LET above == {i \in 1 .. Len(SlotKeys) : SlotKeys[i] > k}
    IN  IF above = {} THEN Len(SlotKeys) + 1
        ELSE CHOOSE i \in above : \A j \in above : i <= j

(* Mutant: the upper bound of the start key is not stepped back.         *)
GetTabletsInRangeNoStepBack(start, end, max_returned) ==
    LET from == IF start = EmptyKey THEN 1 ELSE UpperBound(start)
        to == IF end = OpenEnd THEN Len(SlotKeys) + 1 ELSE UpperBound(end)
        n == IF to - from < max_returned THEN to - from ELSE max_returned
    IN  [i \in 1 .. (IF n < 0 THEN 0 ELSE n) |-> partitions[SlotKeys[from + i - 1]]]

(* What a walk past partitions_.end() reads: undefined behaviour.        *)
UndefinedEntry == "undefined"

(***************************************************************************)
(* TableInfo::GetTabletsInRange: from the slot holding the start key (the *)
(* upper bound, stepped back once unless at the beginning), ++it until it *)
(* meets the upper bound of the end key or max_returned entries are taken. *)
(* For a start key in a later slot than the end key the iterator passes   *)
(* it_end; unless max_returned stops it first it reaches end() and the    *)
(* next it->second is undefined, marked by UndefinedEntry.                 *)
(***************************************************************************)
GetTabletsInRange(start, end, max_returned) ==
    LET from == IF start = EmptyKey THEN 1
                ELSE IF UpperBound(start) # 1 THEN UpperBound(start) - 1
                ELSE 1
        to == IF end = OpenEnd THEN Len(SlotKeys) + 1 ELSE UpperBound(end)
        stop == IF from <= to THEN to ELSE Len(SlotKeys) + 1
        n == IF stop - from < max_returned THEN stop - from ELSE max_returned
        taken == [i \in 1 .. (IF n < 0 THEN 0 ELSE n) |-> partitions[SlotKeys[from + i - 1]]]
    IN  IF from > to /\ n < max_returned THEN Append(taken, UndefinedEntry) ELSE taken

(***************************************************************************)
(* TableInfo::GetInactiveTabletsInRange: the tablets of tablets_ whose    *)
(* start key lies in [start, end]. tablets_ is an unordered map, so when   *)
(* max_returned cuts the scan short any subset of that size may result:  *)
(* the operator is the set of possible results.                           *)
(***************************************************************************)
InactiveInRange(start, end) ==
    {t \in tablets : /\ ~(start # EmptyKey /\ meta[t].start < start)
                     /\ ~(end # OpenEnd /\ meta[t].start > end)}

GetInactiveTabletsInRange(start, end, max_returned) ==
    LET all == InactiveInRange(start, end)
        n == IF Cardinality(all) < max_returned THEN Cardinality(all)
             ELSE max_returned
    IN  {s \in SUBSET all : Cardinality(s) = n}

-----------------------------------------------------------------------------
(***************************************************************************)
(* TableInfo::FindSplittableHashPartitionForStatusTable: the first slot,  *)
(* in key order, whose partition PartitionSchema can halve. The halving   *)
(* lives outside this repository; it is taken to split [s, e) at the     *)
(* midpoint and to fail on a partition one key wide.                       *)
(***************************************************************************)
Splittable(t) == meta[t].end - meta[t].start >= 2
Midpoint(t) == (meta[t].start + meta[t].end) \div 2

FindSplittableHashPartitionForStatusTable ==
    LET cand == {i \in 1 .. Len(SlotKeys) : Splittable(partitions[SlotKeys[i]])}
    IN  IF cand = {} THEN NoMeta
        ELSE partitions[SlotKeys[CHOOSE i \in cand : \A j \in cand : i <= j]]

(***************************************************************************)
(* TableInfo::AddStatusTabletViaSplitPartition: unless the new tablet is  *)
(* deleted, commit the old tablet's new partition, add the new tablet to   *)
(* tablets_ and, unless hidden, emplace it under its partition_key_END    *)
(* (the empty end key is the empty string, i.e. the least start key).     *)
(***************************************************************************)
AddStatusTabletViaSplitPartition(old, pstart, pend, new, newMeta) ==
    LET md == [meta EXCEPT ![new] = newMeta,
                           ![old] = [@ EXCEPT !.start = pstart, !.end = pend]]
        key == IF newMeta.end = OpenEnd THEN EmptyKey ELSE newMeta.end
    IN  IF IsDeleted(newMeta)
        THEN /\ meta' = [meta EXCEPT ![new] = newMeta]
             /\ UNCHANGED <<tablets, partitions>>
        ELSE /\ meta' = md
             /\ tablets' = tablets \cup {new}
             /\ partitions' = IF IsHidden(newMeta) \/ key \in DOMAIN partitions
                              THEN partitions
                              ELSE partitions @@ (key :> new)

-----------------------------------------------------------------------------
(* Progress queries over the index, as the DDL and split waiters use them. *)

Holders == {partitions[k] : k \in DOMAIN partitions}

(* TableInfo::CheckAllActiveTabletsRunning.                               *)
CheckAllActiveTabletsRunning == \A t \in Holders : IsRunning(meta[t])

(* TableInfo::IsCreateInProgress: an active tablet of split_depth 0 that  *)
(* is not running.                                                          *)
IsCreateInProgress == \E t \in Holders : ~IsRunning(meta[t]) /\ meta[t].depth = 0

(* TableInfo::HasOutstandingSplits: an active split child (one with a     *)
(* split parent id) that is not running, or, when waiting for parent      *)
(* deletion, an inactive tablet of tablets_ neither deleted nor hidden.   *)
HasOutstandingSplits(wait_for_parent_deletion) ==
    \/ \E t \in Holders : meta[t].parent # NoMeta /\ ~IsRunning(meta[t])
    \/ /\ wait_for_parent_deletion
       /\ \E t \in tablets \ Holders : ~IsDeleted(meta[t]) /\ ~IsHidden(meta[t])

-----------------------------------------------------------------------------
(***************************************************************************)
(* The catalog-manager flows that call the index (modelled from spec.md). *)
(***************************************************************************)
Live(t) == ~IsDeleted(meta[t]) /\ ~IsHidden(meta[t])

SetIndex(ix) == tablets' = ix.tablets /\ partitions' = ix.partitions
Current == Index(tablets, partitions)

(* The SysTabletsEntryPB of a split child: one level deeper than its      *)
(* parent, CREATING.                                                       *)
ChildMeta(p, s, e) ==
    [start |-> s, end |-> e, depth |-> meta[p].depth + 1, parent |-> p,
     state |-> "CREATING", hidden |-> FALSE]

(* Split an active running tablet at mid into two fresh children and      *)
(* register them with AddTablets, in either vector order.                 *)
SplitTablet(p, c1, c2, mid) ==
    LET md == [meta EXCEPT ![c1] = ChildMeta(p, meta[p].start, mid),
                           ![c2] = ChildMeta(p, mid, meta[p].end)]
    IN  /\ p \in Range(partitions)
        /\ IsRunning(meta[p]) /\ Live(p)
        /\ meta[p].depth < MaxDepth
        /\ meta[p].start < mid /\ mid < meta[p].end
        /\ meta' = md
        /\ \E order \in SetToSeqs({c1, c2}) : SetIndex(AddTablets(md, Current, order))

(* A CREATING tablet is reported running by its replicas.                 *)
TabletStarted(t) ==
    /\ t \in tablets /\ meta[t].state = "CREATING"
    /\ meta' = [meta EXCEPT ![t].state = "RUNNING"]
    /\ UNCHANGED <<tablets, partitions>>

(* A split parent whose children all run is deleted, or hidden.           *)
RetireParent(p, hide) ==
    LET children == {c \in Created : meta[c].parent = p}
    IN  /\ p \in tablets /\ Live(p) /\ children # {}
        /\ \A c \in children : IsRunning(meta[c])
        /\ meta' = [meta EXCEPT ![p] = IF hide THEN [@ EXCEPT !.hidden = TRUE]
                                               ELSE [@ EXCEPT !.state = "DELETED"]]
        /\ UNCHANGED <<tablets, partitions>>

(* The table is dropped: all its tablets are marked deleted; the index   *)
(* is left to the removals that follow.                                    *)
DeleteTable ==
    /\ \E t \in tablets : ~IsDeleted(meta[t])
    /\ meta' = [t \in Tablets |-> IF t \in tablets /\ ~IsDeleted(meta[t])
                                  THEN [meta[t] EXCEPT !.state = "DELETED"]
                                  ELSE meta[t]]
    /\ UNCHANGED <<tablets, partitions>>

(* A tablet whose creation timed out is REPLACED by a fresh copy.         *)
ReplaceCreating(old, new) ==
    LET md == [meta EXCEPT ![old].state = "REPLACED", ![new] = meta[old]]
    IN  /\ old \in tablets /\ meta[old].state = "CREATING"
        /\ meta' = md
        /\ SetIndex(ReplaceTablet(md, Current, old, new))

(* A deleted or hidden tablet is removed (RemoveTablets of one tablet).   *)
CollectTablet(t, deactivate_only) ==
    /\ t \in tablets /\ ~Live(t)
    /\ SetIndex(RemoveTabletUnlocked(meta, Current, t, deactivate_only))
    /\ UNCHANGED meta

(* The table is hidden: its tablets are hidden and the index deactivated. *)
HideTable ==
    /\ \E t \in tablets : Live(t)
    /\ meta' = [t \in Tablets |-> IF t \in tablets /\ ~IsDeleted(meta[t])
                                  THEN [meta[t] EXCEPT !.hidden = TRUE]
                                  ELSE meta[t]]
    /\ SetIndex(ClearTabletMaps(Current, TRUE))

(* A new master leader rebuilds the maps from the catalog, loading the    *)
(* tablets in whatever order they come.                                    *)
Reload ==
    /\ \E order \in SetToSeqs(Created) :
          SetIndex(AddTablets(meta, ClearTabletMaps(Current, FALSE), order))
    /\ UNCHANGED meta

(* A transaction status tablet is added by splitting the first splittable *)
(* slot; which half the new tablet gets is the caller's choice.           *)
StatusTabletSplit(new) ==
    LET old == FindSplittableHashPartitionForStatusTable
    IN  /\ old # NoMeta
        /\ LET s == meta[old].start
               m == Midpoint(old)
               e == meta[old].end
               NewMeta(a, b) == [start |-> a, end |-> b, depth |-> 0,
                                 parent |-> NoMeta, state |-> "CREATING",
                                 hidden |-> FALSE]
           IN  \/ AddStatusTabletViaSplitPartition(old, s, m, new, NewMeta(m, e))
               \/ AddStatusTabletViaSplitPartition(old, m, e, new, NewMeta(s, m))

-----------------------------------------------------------------------------
Init ==
    /\ meta = [t \in Tablets |->
                 IF t = Root
                 THEN [start |-> 0, end |-> NumKeys, depth |-> 0, parent |-> NoMeta,
                       state |-> "RUNNING", hidden |-> FALSE]
                 ELSE NoMeta]
    /\ tablets = {Root}
    /\ partitions = (0 :> Root)

Next ==
    \/ \E p \in Tablets, c1, c2 \in Unused, mid \in Keys :
          c1 # c2 /\ SplitTablet(p, c1, c2, mid)
    \/ \E t \in Tablets : TabletStarted(t)
    \/ DeleteTable
    \/ \E p \in Tablets, hide \in BOOLEAN : RetireParent(p, hide)
    \/ \E old \in Tablets, new \in Unused : ReplaceCreating(old, new)
    \/ \E t \in Tablets, d \in BOOLEAN : CollectTablet(t, d)
    \/ HideTable
    \/ Reload

Spec == Init /\ [][Next]_vars

(* The same flows with transaction status tablets added by splitting a    *)
(* slot (AddStatusTabletViaSplitPartition).                                *)
NextWithStatus == Next \/ \E new \in Unused : StatusTabletSplit(new)

SpecWithStatus == Init /\ [][NextWithStatus]_vars

-----------------------------------------------------------------------------
(* The types of the maps, with spec.md's invariant that partitions_ only *)
(* holds tablets of tablets_: RemoveTabletUnlocked, ReplaceTablet and     *)
(* ClearTabletMaps keep the two maps in step across splits, replacements, *)
(* removals and reloads.                                                   *)
TypeOK ==
    /\ meta \in [Tablets -> Meta \cup {NoMeta}]
    /\ tablets \subseteq Created
    /\ DOMAIN partitions \subseteq Keys
    /\ \A k \in DOMAIN partitions : partitions[k] \in tablets

Covers(t, x) == meta[t].start <= x /\ x < meta[t].end

(* Routing: for every key some active partition covers, the single-key    *)
(* GetTabletsInRange lookup returns a tablet whose partition covers it.   *)
RoutingSound ==
    \A x \in Keys :
        (\E k \in DOMAIN partitions : Covers(partitions[k], x)) =>
            LET r == GetTabletsInRange(x, x, 1)
            IN  Len(r) = 1 /\ Covers(r[1], x)

(* AddTabletUnlocked keeps the deepest tablet of a start key: no live     *)
(* tablet of tablets_ is deeper than the holder of its start key's slot,   *)
(* whatever order splits and reloads added them in.                        *)
SplitDeepest ==
    \A k \in DOMAIN partitions, t \in tablets :
        (Live(t) /\ meta[t].start = k) =>
            meta[t].depth <= meta[partitions[k]].depth

(* spec.md section 8: the active tablets of a range are among the tablets *)
(* of that range that GetInactiveTabletsInRange returns.                   *)
RangeWithinInactive ==
    \A s \in Keys, e \in Keys \cup {OpenEnd} :
        s <= e =>
            \A res \in GetInactiveTabletsInRange(s, e, Cardinality(Tablets)) :
                Range(GetTabletsInRange(s, e, Cardinality(Tablets))) \subseteq res

=============================================================================
