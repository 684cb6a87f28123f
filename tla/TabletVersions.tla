--------------------------- MODULE TabletVersions ---------------------------
(***************************************************************************)
(* Schema-version reporting of a table's tablets (catalog_entity_info.cc): *)
(* TabletInfo::reported_schema_version_, written by                        *)
(* set_reported_schema_version when a tablet's heartbeat report arrives,  *)
(* read by reported_schema_version, and TableInfo::IsAlterInProgress,     *)
(* which compares every active tablet (partitions_) with the table's      *)
(* schema version.                                                         *)
(*                                                                         *)
(* The callers are outside this repository and modelled from spec.md: an  *)
(* ALTER bumps the table's schema version, an alter task makes each       *)
(* active tablet apply it, tablets report the version they run in          *)
(* heartbeats that the network may lose, duplicate and reorder, and a      *)
(* split replaces an active tablet by children that are new TabletInfos.   *)
(***************************************************************************)
EXTENDS Integers, FiniteSetsExt

CONSTANTS
    Tablets,     \* tablet ids of the table, parents and split children
    Root,        \* the tablet the table is created with
    Kids,        \* Kids[p]: the children a split of p creates ({} if none)
    MaxVersion,  \* bound on ALTERs: schema versions are 0..MaxVersion
    NoVersion    \* no entry for the table in reported_schema_version_

ASSUME Root \in Tablets /\ Kids \in [Tablets -> SUBSET Tablets]

Versions == 0..MaxVersion

VARIABLES
    schema,     \* the table's current schema version
    running,    \* tablet -> schema version its replicas have applied
    reported,   \* tablet -> reported_schema_version_[table_id_] or NoVersion
    msgs,       \* heartbeat reports <<tablet, version>> in flight
    created,    \* TableInfo::tablets_ (all tablets ever added)
    active,     \* the tablets of TableInfo::partitions_
    delivered   \* tablet -> versions of the reports applied to it (history)

vars == <<schema, running, reported, msgs, created, active, delivered>>

(* TabletInfo::reported_schema_version: 0 when there is no entry.         *)
ReportedSchemaVersion(t) == IF reported[t] = NoVersion THEN 0 ELSE reported[t]

(* Mutant: the report is stored whatever version is already stored.      *)
SetReportedSchemaVersionOverwrite(t, v) == [reported EXCEPT ![t] = v]

(* TabletInfo::set_reported_schema_version: store the reported version if *)
(* there is none yet or it is newer than the stored one.                   *)
SetReportedSchemaVersion(t, v) ==
    IF reported[t] = NoVersion \/ v > reported[t]
    THEN [reported EXCEPT ![t] = v] ELSE reported

(* Mutant: every tablet of tablets_ is compared, not only partitions_.   *)
IsAlterInProgressAllTablets(version) ==
    \E t \in created : ReportedSchemaVersion(t) < version

(* TableInfo::IsAlterInProgress: some active tablet reported an older     *)
(* schema version than the one asked about.                                *)
IsAlterInProgress(version) ==
    \E t \in active : ReportedSchemaVersion(t) < version

-----------------------------------------------------------------------------
(* An ALTER bumps the table's schema version.                              *)
AlterTable ==
    /\ schema < MaxVersion
    /\ schema' = schema + 1
    /\ UNCHANGED <<running, reported, msgs, created, active, delivered>>

(* The alter task makes an active tablet run the current schema.           *)
ApplySchema(t) ==
    /\ t \in active /\ running[t] < schema
    /\ running' = [running EXCEPT ![t] = schema]
    /\ UNCHANGED <<schema, reported, msgs, created, active, delivered>>

(* A tablet, active or not, reports the version it runs in a heartbeat.    *)
SendReport(t) ==
    /\ t \in created
    /\ msgs' = msgs \cup {<<t, running[t]>>}
    /\ UNCHANGED <<schema, running, reported, created, active, delivered>>

(* The master applies a report; the network may deliver it again later.   *)
DeliverReport(m) ==
    /\ m \in msgs
    /\ reported' = SetReportedSchemaVersion(m[1], m[2])
    /\ delivered' = [delivered EXCEPT ![m[1]] = @ \cup {m[2]}]
    /\ \E again \in BOOLEAN : msgs' = IF again THEN msgs ELSE msgs \ {m}
    /\ UNCHANGED <<schema, running, created, active>>

(* The network loses a report.                                            *)
DropReport(m) ==
    /\ m \in msgs
    /\ msgs' = msgs \ {m}
    /\ UNCHANGED <<schema, running, reported, created, active, delivered>>

(* Mutant: the children enter partitions_ but not tablets_.              *)
SplitUnregistered(p) ==
    /\ p \in active /\ Kids[p] # {} /\ Kids[p] \cap created = {}
    /\ active' = (active \ {p}) \cup Kids[p]
    /\ running' = [t \in Tablets |-> IF t \in Kids[p] THEN running[p] ELSE running[t]]
    /\ UNCHANGED <<schema, reported, msgs, created, delivered>>

(* A split of active tablet p: its children copy its data, so they run   *)
(* its schema, and are new TabletInfos with an empty                        *)
(* reported_schema_version_; they replace p in partitions_.               *)
Split(p) ==
    /\ p \in active /\ Kids[p] # {} /\ Kids[p] \cap created = {}
    /\ created' = created \cup Kids[p]
    /\ active' = (active \ {p}) \cup Kids[p]
    /\ running' = [t \in Tablets |-> IF t \in Kids[p] THEN running[p] ELSE running[t]]
    /\ UNCHANGED <<schema, reported, msgs, delivered>>

-----------------------------------------------------------------------------
Init ==
    /\ schema = 0
    /\ running = [t \in Tablets |-> 0]
    /\ reported = [t \in Tablets |-> NoVersion]
    /\ msgs = {}
    /\ created = {Root}
    /\ active = {Root}
    /\ delivered = [t \in Tablets |-> {}]

Next ==
    \/ AlterTable
    \/ \E t \in Tablets : ApplySchema(t) \/ SendReport(t) \/ Split(t)
    \/ \E m \in msgs : DeliverReport(m) \/ DropReport(m)

(* The alter task is retried until the tablet runs the schema, and         *)
(* tablets heartbeat periodically, so a report of the version a tablet     *)
(* runs, sent again and again, eventually arrives. ALTERs, splits and the  *)
(* network's losses are not obliged to happen.                             *)
Fairness ==
    \A t \in Tablets :
        /\ WF_vars(ApplySchema(t))
        /\ WF_vars(SendReport(t))
        /\ SF_vars(DeliverReport(<<t, running[t]>>))

Spec == Init /\ [][Next]_vars /\ Fairness

-----------------------------------------------------------------------------
TypeOK ==
    /\ schema \in Versions
    /\ running \in [Tablets -> Versions]
    /\ reported \in [Tablets -> Versions \cup {NoVersion}]
    /\ msgs \subseteq Tablets \X Versions
    /\ active \subseteq created /\ created \subseteq Tablets
    /\ delivered \in [Tablets -> SUBSET Versions]

(* However heartbeats are lost, duplicated and reordered, the master's    *)
(* reported_schema_version_ of a tablet is the newest version any applied *)
(* report carried: set_reported_schema_version never moves it backwards   *)
(* and never misses a newer report.                                        *)
ReportedIsNewest ==
    \A t \in created :
        reported[t] = IF delivered[t] = {} THEN NoVersion ELSE Max(delivered[t])

(* Once ALTERs stop, IsAlterInProgress for the table's schema version     *)
(* eventually becomes and stays false, splits included: retired split     *)
(* parents, which no longer get the alter, are not in partitions_.        *)
AlterCompletes == <>[](~IsAlterInProgress(schema))

=============================================================================
