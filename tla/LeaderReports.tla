---------------------------- MODULE LeaderReports ----------------------------
(***************************************************************************)
(* The master's view of a tablet's leader (catalog_entity_info.cc):        *)
(* TabletInfo::UpdateReplicaLocations merges one replica's report into     *)
(* replica_locations_, keyed by the server's uuid, with no term check      *)
(* (TabletReplica::UpdateFrom copies the reported role over the stored     *)
(* one), and TabletInfo::GetLeader returns the first entry whose role is   *)
(* LEADER, or an error from GetLeaderNotFoundStatus / CheckRunning.        *)
(*                                                                         *)
(* The rest is outside this repository and modelled from spec.md: Raft     *)
(* elections make at most one leader per term and a deposed leader steps   *)
(* down when it learns the higher term; every replica heartbeats its role  *)
(* to the master; a heartbeat RPC that timed out may still be processed   *)
(* after the retry sent behind it, so the reports of one server reach the *)
(* master in any order, and some are lost. The table may stop running.    *)
(***************************************************************************)
EXTENDS Integers, Sequences, FiniteSets

CONSTANTS
    Servers,    \* tablet servers holding a replica of the tablet
    MaxTerm,    \* bound on elections: terms are 0..MaxTerm
    MaxQueue,   \* bound on one server's heartbeats in flight
    Absent      \* no entry for the server in replica_locations_

LEADER == "LEADER"
FOLLOWER == "FOLLOWER"
Roles == {LEADER, FOLLOWER}

VARIABLES
    term,       \* server -> its Raft current term
    role,       \* server -> its Raft role
    chan,       \* server -> roles of its heartbeats in flight
    locs,       \* server -> role in replica_locations_, or Absent
    running     \* TableInfo::is_running()

vars == <<term, role, chan, locs, running>>

MaxCurrentTerm == LET T == {term[s] : s \in Servers}
                  IN CHOOSE t \in T : \A u \in T : u <= t

-----------------------------------------------------------------------------
(* Mutant: the stored role is kept; only the other fields are copied.    *)
UpdateFromKeepRole(rep, source) == rep

(* TabletReplica::UpdateFrom: state, role, member type and data dir are   *)
(* copied from the report; of these only the role is told apart here.     *)
UpdateFrom(rep, source) == source

(* TabletInfo::GetLeaderUnlocked: the first LEADER entry of the map. The  *)
(* map's iteration order is not fixed by this code, so the result is any  *)
(* of the LEADER entries; {} stands for nullptr.                          *)
GetLeaderUnlocked == {s \in Servers : locs[s] = LEADER}

(* TabletInfo::GetLeader with GetLeaderNotFoundStatus and CheckRunning:   *)
(* a leader if the map names one, else Expired if the table is not        *)
(* running, else NotFound.                                                 *)
GetLeader ==
    IF GetLeaderUnlocked # {} THEN GetLeaderUnlocked
    ELSE IF ~running THEN {"Expired"} ELSE {"NotFound"}

(* Mutant: a new entry is default-constructed before the report is merged *)
(* into it, so its role is PeerRole's default UNKNOWN_ROLE.              *)
UpdateReplicaLocationsEmplaceDefault(s, i) ==
    /\ i \in DOMAIN chan[s]
    /\ locs' = [locs EXCEPT ![s] = IF @ = Absent THEN "UNKNOWN_ROLE"
                                   ELSE UpdateFrom(@, chan[s][i])]
    /\ chan' = [chan EXCEPT ![s] = SubSeq(@, 1, i - 1) \o SubSeq(@, i + 1, Len(@))]
    /\ UNCHANGED <<term, role, running>>

(* TabletInfo::UpdateReplicaLocations for the i-th report of server s in   *)
(* flight: copy the map, emplace the replica if its uuid is absent, else  *)
(* UpdateFrom the existing entry. LeaderChangeReporter only logs.          *)
UpdateReplicaLocations(s, i) ==
    /\ i \in DOMAIN chan[s]
    /\ locs' = [locs EXCEPT ![s] = IF @ = Absent THEN chan[s][i]
                                   ELSE UpdateFrom(@, chan[s][i])]
    /\ chan' = [chan EXCEPT ![s] = SubSeq(@, 1, i - 1) \o SubSeq(@, i + 1, Len(@))]
    /\ UNCHANGED <<term, role, running>>

-----------------------------------------------------------------------------
(* Raft: s wins the election of a term above every current term.          *)
Elect(s) ==
    /\ MaxCurrentTerm < MaxTerm
    /\ term' = [term EXCEPT ![s] = MaxCurrentTerm + 1]
    /\ role' = [role EXCEPT ![s] = LEADER]
    /\ UNCHANGED <<chan, locs, running>>

(* Raft: a server behind the newest term learns it and is a follower.     *)
LearnTerm(s) ==
    /\ term[s] < MaxCurrentTerm
    /\ term' = [term EXCEPT ![s] = MaxCurrentTerm]
    /\ role' = [role EXCEPT ![s] = FOLLOWER]
    /\ UNCHANGED <<chan, locs, running>>

(* The tablet server heartbeats the role of its replica.                  *)
Heartbeat(s) ==
    /\ Len(chan[s]) < MaxQueue
    /\ chan' = [chan EXCEPT ![s] = Append(@, role[s])]
    /\ UNCHANGED <<term, role, locs, running>>

(* A heartbeat is lost.                                                    *)
LoseHeartbeat(s, i) ==
    /\ i \in DOMAIN chan[s]
    /\ chan' = [chan EXCEPT ![s] = SubSeq(@, 1, i - 1) \o SubSeq(@, i + 1, Len(@))]
    /\ UNCHANGED <<term, role, locs, running>>

(* The table is deleted or hidden: is_running() becomes false for good.   *)
StopTable ==
    /\ running
    /\ running' = FALSE
    /\ UNCHANGED <<term, role, chan, locs>>

-----------------------------------------------------------------------------
(* A new tablet: all replicas followers at term 0, an empty map.          *)
Init ==
    /\ term = [s \in Servers |-> 0]
    /\ role = [s \in Servers |-> FOLLOWER]
    /\ chan = [s \in Servers |-> <<>>]
    /\ locs = [s \in Servers |-> Absent]
    /\ running = TRUE

Next ==
    \/ StopTable
    \/ \E s \in Servers :
        \/ Elect(s) \/ LearnTerm(s) \/ Heartbeat(s)
        \/ \E i \in 1..MaxQueue : UpdateReplicaLocations(s, i) \/ LoseHeartbeat(s, i)

(* Raft propagates the newest term, heartbeats are periodic, and of the   *)
(* heartbeats sent again and again some reach the master. Elections,      *)
(* losses and the table's deletion are not obliged to happen.              *)
Fairness ==
    \A s \in Servers :
        /\ WF_vars(LearnTerm(s))
        /\ WF_vars(Heartbeat(s))
        /\ SF_vars(\E i \in 1..MaxQueue : UpdateReplicaLocations(s, i))

Spec == Init /\ [][Next]_vars /\ Fairness

-----------------------------------------------------------------------------
TypeOK ==
    /\ term \in [Servers -> 0..MaxTerm]
    /\ role \in [Servers -> Roles]
    /\ \A s \in Servers : chan[s] \in Seq(Roles) /\ Len(chan[s]) <= MaxQueue
    /\ locs \in [Servers -> Roles \cup {Absent}]
    /\ running \in BOOLEAN

(* The leader the tablet really has: the leader of the newest term.       *)
CurrentLeader == {s \in Servers : role[s] = LEADER /\ term[s] = MaxCurrentTerm}

(* What GetLeader should answer: the current leader, else the error       *)
(* CheckRunning picks.                                                     *)
ExpectedLeader ==
    IF CurrentLeader # {} THEN CurrentLeader
    ELSE IF ~running THEN {"Expired"} ELSE {"NotFound"}

(* However heartbeats are lost and reordered, a deposed leader's stale    *)
(* LEADER entry does not last: once elections stop, GetLeader eventually  *)
(* answers with the current leader alone (or the right error) for good.   *)
LeaderConverges == <>[](GetLeader = ExpectedLeader)

=============================================================================
