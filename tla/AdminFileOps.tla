---------------------------- MODULE AdminFileOps ----------------------------
(***************************************************************************)
(* The file functions of contrib/adminpack (adminpack.c) as sequences of  *)
(* system calls of database sessions sharing one directory:               *)
(* pg_file_rename_internal (access checks, then one or two renames with a *)
(* rollback), pg_file_write_internal (stat, then fopen and fwrite),       *)
(* pg_file_unlink (access, then unlink) and pg_logdir_ls_internal, a      *)
(* set-returning function that reads the log directory one row per call.  *)
(*                                                                         *)
(* A file is abstracted to the identity of its content: a path holds a    *)
(* content or NoFile. Writing creates a fresh content <<session, call>>.  *)
(* The ghost lost collects the contents a rename or an fopen("wb")        *)
(* destroyed by replacing or truncating an existing file, each tagged     *)
(* with the function that did it; the ghost                               *)
(* before keeps the directory as a call found it. System calls may fail   *)
(* for reasons other than a missing file (EACCES, EXDEV, ENOSPC) when    *)
(* Faults is TRUE. Filename checks and messages are left out.             *)
(***************************************************************************)
EXTENDS Naturals, Sequences, FiniteSets, TLC

CONSTANTS
    Paths,      \* file names the calls may use
    Sessions,   \* backends calling the functions concurrently
    NoFile,     \* a path with no file
    NULL,       \* the absent third argument of pg_file_rename
    MaxCalls,   \* calls per session
    Faults,     \* whether system calls may fail on an existing file
    LogNames,   \* the paths named postgresql-YYYY-MM-DD_HHMMSS.log
    Spelling,   \* path -> the form canonicalize_path leaves its argument in
    LogDirAbsolute, \* whether Log_directory is an absolute path
    Callers     \* the kinds of roles that call the functions

ASSUME MaxCalls \in Nat /\ Faults \in BOOLEAN

Contents == Paths \cup (Sessions \X (1 .. MaxCalls))
Dir == [Paths -> Contents \cup {NoFile}]

(* Callers are "superuser", "writer" (a member of pg_write_server_files)  *)
(* and "user" (a role granted EXECUTE on the functions of version 1.1,   *)
(* v11); the pre-1.1 entry points are callable by anyone.                 *)
ASSUME Callers \subseteq {"superuser", "writer", "user"}

Calls ==
    [op : {"rename"}, f1 : Paths, f2 : Paths, f3 : Paths \cup {NULL},
     who : Callers, v11 : BOOLEAN]
    \cup [op : {"write"}, f1 : Paths, replace : BOOLEAN, who : Callers, v11 : BOOLEAN]
    \cup [op : {"unlink"}, f1 : Paths, who : Callers, v11 : BOOLEAN]
    \cup [op : {"ls"}, who : Callers, v11 : BOOLEAN]

(* The forms of a canonical path, relative to DataDir (the current         *)
(* directory) or absolute, with or without a ".." component.             *)
Spellings == {"rel", "rel_up", "abs_data", "abs_data_up", "abs_log", "abs_other"}
IsAbsolutePath(p) == Spelling[p] \notin {"rel", "rel_up"}
PathContainsParentReference(p) == Spelling[p] \in {"rel_up", "abs_data_up"}
PrefixIsDataDir(p) == Spelling[p] \in {"abs_data", "abs_data_up"}
PrefixIsLogDir(p) == Spelling[p] = "abs_log"
PathIsRelativeAndBelowCwd(p) == Spelling[p] = "rel"
(* Where the file really is: inside DataDir or not.                       *)
InDataDir(p) == Spelling[p] \in {"rel", "abs_data"}

ASSUME Spelling \in [Paths -> Spellings] /\ LogDirAbsolute \in BOOLEAN

Results == {"none", "true", "false", "error", "reverted", "not_reverted"}

VARIABLES
    fs,         \* path -> content of the file there, or NoFile
    pc,         \* session -> the next system call of its current call
    call,       \* session -> arguments of its current (or last) call
    result,     \* session -> how its last call ended
    calls,      \* session -> number of calls made
    before,     \* session -> fs when its current call started (ghost)
    lost,       \* contents destroyed by overwriting a file (ghost)
    logfmt,     \* the log_filename GUC is the default format
    seen,       \* session -> entries its open log directory returned
    rows        \* session -> file names its listing returned

vars == <<fs, pc, call, result, calls, before, lost, logfmt, seen, rows>>

(* rename(a, b) on a directory, a # b: b is replaced atomically.           *)
Moved(d, a, b) == [d EXCEPT ![b] = d[a], ![a] = NoFile]
(* What overwriting b destroys, tagged with the function op doing it.   *)
Clobbered(op, d, b) == IF d[b] # NoFile THEN {<<op, d[b]>>} ELSE {}

(* A system call on path a fails when a does not exist, or by a fault.     *)
SyscallFails(a) == fs[a] = NoFile \/ Faults
SyscallSucceeds(a) == fs[a] # NoFile

Return(s, r) ==
    /\ pc' = [pc EXCEPT ![s] = "idle"]
    /\ result' = [result EXCEPT ![s] = r]

Goto(s, l) == pc' = [pc EXCEPT ![s] = l] /\ UNCHANGED result

(* Mutant: absolute paths are not checked for "..".                      *)
ConvertAndCheckFilenameNoParent(p, who, logAllowed) ==
    \/ who \in {"superuser", "writer"}
    \/ IsAbsolutePath(p) /\ (PrefixIsDataDir(p) \/
                              (logAllowed /\ LogDirAbsolute /\ PrefixIsLogDir(p)))
    \/ ~IsAbsolutePath(p) /\ PathIsRelativeAndBelowCwd(p)

(* convert_and_check_filename: whether the path passes. A member of       *)
(* pg_write_server_files (every superuser is one) may use any path;       *)
(* others an absolute path without ".." inside DataDir, or inside an      *)
(* absolute Log_directory when logAllowed, or a relative path that stays  *)
(* in or below the current directory.                                      *)
ConvertAndCheckFilename(p, who, logAllowed) ==
    \/ who \in {"superuser", "writer"}
    \/ /\ IsAbsolutePath(p) /\ ~PathContainsParentReference(p)
       /\ \/ PrefixIsDataDir(p)
          \/ logAllowed /\ LogDirAbsolute /\ PrefixIsLogDir(p)
    \/ ~IsAbsolutePath(p) /\ PathIsRelativeAndBelowCwd(p)

(* requireSuperuser, called by the pre-1.1 pg_file_write, pg_file_rename  *)
(* and pg_file_unlink; pg_logdir_ls makes the same check itself.          *)
RequireSuperuser(c) == c.v11 \/ c.who = "superuser"

(* The paths a call passes to convert_and_check_filename, all with        *)
(* logAllowed false.                                                       *)
ArgPaths(c) ==
    CASE c.op = "rename" -> {c.f1, c.f2} \cup (IF c.f3 = NULL THEN {} ELSE {c.f3})
      [] c.op \in {"write", "unlink"} -> {c.f1}
      [] OTHER -> {}

(* The checks every entry point makes before its first system call: the  *)
(* superuser check of the pre-1.1 versions, then the filename checks; a   *)
(* failed one is ERROR.                                                    *)
CheckArgs(s) ==
    LET c == call[s]
    IN  /\ pc[s] = "check"
        /\ IF RequireSuperuser(c) /\ \A p \in ArgPaths(c) : ConvertAndCheckFilename(p, c.who, FALSE)
           THEN Goto(s, CASE c.op = "rename" -> "r_access1"
                          [] c.op = "write" -> "w_stat"
                          [] c.op = "unlink" -> "u_access"
                          [] OTHER -> "l_first")
           ELSE Return(s, "error")
        /\ UNCHANGED <<fs, call, calls, before, lost, logfmt, seen, rows>>

(* A session starts a call with arguments of its choosing.                 *)
Call(s) ==
    /\ pc[s] = "idle" /\ calls[s] < MaxCalls
    /\ \E c \in Calls :
          /\ call' = [call EXCEPT ![s] = c]
          /\ pc' = [pc EXCEPT ![s] = "check"]
    /\ calls' = [calls EXCEPT ![s] = @ + 1]
    /\ before' = [before EXCEPT ![s] = fs]
    /\ result' = [result EXCEPT ![s] = "none"]
    /\ rows' = [rows EXCEPT ![s] = <<>>]
    /\ UNCHANGED <<fs, lost, logfmt, seen>>

-----------------------------------------------------------------------------
(* pg_file_rename_internal(fn1, fn2, fn3).                                 *)

(* access(fn1, W_OK) fails (no file, or a fault): warning, return false. *)
RenameAccessSource(s) ==
    /\ pc[s] = "r_access1"
    /\ IF fs[call[s].f1] = NoFile THEN Return(s, "false")
       ELSE \/ Goto(s, "r_access2")
            \/ Faults /\ Return(s, "false")
    /\ UNCHANGED <<fs, call, calls, before, lost, logfmt, seen, rows>>

(* With fn3, access(fn2, W_OK) fails: warning, return false.              *)
RenameAccessDest(s) ==
    /\ pc[s] = "r_access2"
    /\ IF call[s].f3 # NULL /\ fs[call[s].f2] = NoFile THEN Return(s, "false")
       ELSE \/ Goto(s, "r_target")
            \/ call[s].f3 # NULL /\ Faults /\ Return(s, "false")
    /\ UNCHANGED <<fs, call, calls, before, lost, logfmt, seen, rows>>

Target(c) == IF c.f3 # NULL THEN c.f3 ELSE c.f2

(* Mutant: the duplicate-target check is left out.                         *)
RenameCheckTargetMissing(s) ==
    /\ pc[s] = "r_target"
    /\ Goto(s, IF call[s].f3 # NULL THEN "r_rename23" ELSE "r_rename12only")
    /\ UNCHANGED <<fs, call, calls, before, lost, logfmt, seen, rows>>

(* access(fn3 ? fn3 : fn2) must fail with ENOENT, else ERROR: the call   *)
(* never renames onto an existing file, and an access that fails for     *)
(* another reason (a fault) is ERROR too.                                  *)
RenameCheckTarget(s) ==
    /\ pc[s] = "r_target"
    /\ IF fs[Target(call[s])] # NoFile THEN Return(s, "error")
       ELSE \/ Goto(s, IF call[s].f3 # NULL THEN "r_rename23" ELSE "r_rename12only")
            \/ Faults /\ Return(s, "error")
    /\ UNCHANGED <<fs, call, calls, before, lost, logfmt, seen, rows>>

(* Mutant: a failed rename(fn2, fn3) only warns and the call goes on.     *)
RenameSecondWarnOnly(s) ==
    LET a == call[s].f2  b == call[s].f3
    IN  /\ pc[s] = "r_rename23"
        /\ \/ /\ SyscallSucceeds(a)
              /\ fs' = Moved(fs, a, b) /\ lost' = lost \cup Clobbered("rename", fs, b)
           \/ SyscallFails(a) /\ UNCHANGED <<fs, lost>>
        /\ Goto(s, "r_rename12")
        /\ UNCHANGED <<call, calls, before, logfmt, seen, rows>>

(* rename(fn2, fn3); on failure ERROR.                                    *)
RenameSecond(s) ==
    LET a == call[s].f2  b == call[s].f3
    IN  /\ pc[s] = "r_rename23"
        /\ \/ /\ SyscallSucceeds(a)
              /\ fs' = Moved(fs, a, b) /\ lost' = lost \cup Clobbered("rename", fs, b)
              /\ Goto(s, "r_rename12")
           \/ SyscallFails(a) /\ Return(s, "error") /\ UNCHANGED <<fs, lost>>
        /\ UNCHANGED <<call, calls, before, logfmt, seen, rows>>

(* rename(fn1, fn2); on failure warn and try to move fn3 back.            *)
RenameFirst(s) ==
    LET a == call[s].f1  b == call[s].f2
    IN  /\ pc[s] = "r_rename12"
        /\ \/ /\ SyscallSucceeds(a)
              /\ fs' = Moved(fs, a, b) /\ lost' = lost \cup Clobbered("rename", fs, b)
              /\ Return(s, "true")
           \/ SyscallFails(a) /\ Goto(s, "r_revert") /\ UNCHANGED <<fs, lost>>
        /\ UNCHANGED <<call, calls, before, logfmt, seen, rows>>

(* Mutant: the rollback moves fn3 to fn1 instead of back to fn2.          *)
RenameRevertWrongPath(s) ==
    LET a == call[s].f3  b == call[s].f1
    IN  /\ pc[s] = "r_revert"
        /\ \/ /\ SyscallSucceeds(a) /\ a # b
              /\ fs' = Moved(fs, a, b) /\ lost' = lost \cup Clobbered("rename", fs, b)
              /\ Return(s, "reverted")
           \/ SyscallFails(a) /\ Return(s, "not_reverted") /\ UNCHANGED <<fs, lost>>
        /\ UNCHANGED <<call, calls, before, logfmt, seen, rows>>

(* rename(fn3, fn2): ERROR "was reverted", or ERROR "could not rename     *)
(* back" when the rollback fails too.                                     *)
RenameRevert(s) ==
    LET a == call[s].f3  b == call[s].f2
    IN  /\ pc[s] = "r_revert"
        /\ \/ /\ SyscallSucceeds(a)
              /\ fs' = Moved(fs, a, b) /\ lost' = lost \cup Clobbered("rename", fs, b)
              /\ Return(s, "reverted")
           \/ SyscallFails(a) /\ Return(s, "not_reverted") /\ UNCHANGED <<fs, lost>>
        /\ UNCHANGED <<call, calls, before, logfmt, seen, rows>>

(* Without fn3: rename(fn1, fn2); on failure ERROR.                       *)
RenameOnly(s) ==
    LET a == call[s].f1  b == call[s].f2
    IN  /\ pc[s] = "r_rename12only"
        /\ \/ /\ SyscallSucceeds(a)
              /\ fs' = Moved(fs, a, b) /\ lost' = lost \cup Clobbered("rename", fs, b)
              /\ Return(s, "true")
           \/ SyscallFails(a) /\ Return(s, "error") /\ UNCHANGED <<fs, lost>>
        /\ UNCHANGED <<call, calls, before, logfmt, seen, rows>>

-----------------------------------------------------------------------------
(* pg_file_write_internal(file, data, replace).                            *)

(* Without replace, stat() succeeding is ERROR "file exists". A stat()    *)
(* that fails is taken for an absent file whatever errno says, so on an   *)
(* existing file failing with EIO, ENOMEM or EOVERFLOW (a fault) the call *)
(* goes on to fopen("wb").                                                 *)
WriteStat(s) ==
    /\ pc[s] = "w_stat"
    /\ IF ~call[s].replace /\ fs[call[s].f1] # NoFile
       THEN \/ Return(s, "error")
            \/ Faults /\ Goto(s, "w_open")
       ELSE Goto(s, "w_open")
    /\ UNCHANGED <<fs, call, calls, before, lost, logfmt, seen, rows>>

WriteOpen(s) ==
    LET f == call[s].f1
        new == <<s, calls[s]>>
        opened == IF call[s].replace /\ fs[f] # NoFile THEN fs
                  ELSE [fs EXCEPT ![f] = new]
        truncated == IF ~call[s].replace THEN Clobbered("write", fs, f) ELSE {}
    IN  /\ pc[s] = "w_open"
        /\ \/ Faults /\ Return(s, "error") /\ UNCHANGED <<fs, lost>>
           \/ /\ fs' = opened /\ lost' = lost \cup truncated
              /\ \/ Return(s, "true")
                 \/ Faults /\ Return(s, "error")
        /\ UNCHANGED <<call, calls, before, logfmt, seen, rows>>

-----------------------------------------------------------------------------
(* pg_file_unlink(filename).                                               *)

(* access(filename, W_OK) fails with ENOENT: return false; with another *)
(* errno (a fault): ERROR.                                                 *)
UnlinkAccess(s) ==
    /\ pc[s] = "u_access"
    /\ IF fs[call[s].f1] = NoFile THEN Return(s, "false")
       ELSE \/ Goto(s, "u_unlink")
            \/ Faults /\ Return(s, "error")
    /\ UNCHANGED <<fs, call, calls, before, lost, logfmt, seen, rows>>

(* unlink(filename): on failure warn and return false.                    *)
Unlink(s) ==
    LET f == call[s].f1
    IN  /\ pc[s] = "u_unlink"
        /\ \/ SyscallSucceeds(f) /\ fs' = [fs EXCEPT ![f] = NoFile] /\ Return(s, "true")
           \/ SyscallFails(f) /\ Return(s, "false") /\ UNCHANGED fs
        /\ UNCHANGED <<call, calls, before, lost, logfmt, seen, rows>>

-----------------------------------------------------------------------------
(* pg_logdir_ls_internal, one step per call of the set-returning function *)
(* and one per entry its loop reads. A row is abstracted to its file name; *)
(* the checks of the name's length, prefix, '_' and suffix and the parse *)
(* of its timestamp are abstracted to membership of LogNames.              *)

(* The first call: YBCheckServerAccessIsAllowed, the log_filename check  *)
(* (ERROR unless it is the default format), then SRF_FIRSTCALL_INIT and   *)
(* AllocateDir(Log_directory), which may fail. before keeps the directory *)
(* as opendir found it.                                                    *)
LsFirstCall(s) ==
    /\ pc[s] = "l_first"
    /\ \/ ~logfmt /\ Return(s, "error")
       \/ logfmt /\ Faults /\ Return(s, "error")
       \/ logfmt /\ Goto(s, "l_read")
    /\ seen' = [seen EXCEPT ![s] = {}]
    /\ before' = [before EXCEPT ![s] = fs]
    /\ UNCHANGED <<fs, call, calls, lost, logfmt, rows>>

(* A later call: the log_filename check again, then SRF_PERCALL_SETUP     *)
(* resumes the directory stream kept in the function's context.           *)
LsNextCall(s) ==
    /\ pc[s] = "l_call"
    /\ IF logfmt THEN Goto(s, "l_read") ELSE Return(s, "error")
    /\ UNCHANGED <<fs, call, calls, before, lost, logfmt, seen, rows>>

(* The entries the directory stream returns: those opendir found.        *)
Entries(s) == {p \in Paths : before[s][p] # NoFile}

(* readdir under concurrent change (POSIX): a file there when opendir ran *)
(* and still there is returned; one created or removed meanwhile may be   *)
(* returned or not. Alone, a session's listing sees Entries exactly.      *)
MayRead(s) == Entries(s) \cup {p \in Paths : fs[p] # NoFile}
MustRead(s) == {p \in Entries(s) : fs[p] # NoFile}

(* Mutant: the loop breaks out at the first entry that is not a log file. *)
LsReadDirBreak(s) ==
    /\ pc[s] = "l_read"
    /\ \/ \E p \in MayRead(s) \ seen[s] :
            /\ seen' = [seen EXCEPT ![s] = @ \cup {p}]
            /\ IF p \in LogNames
               THEN rows' = [rows EXCEPT ![s] = Append(@, p)] /\ Goto(s, "l_call")
               ELSE UNCHANGED rows /\ Return(s, "true")
       \/ MustRead(s) \subseteq seen[s] /\ Return(s, "true") /\ UNCHANGED <<seen, rows>>
    /\ UNCHANGED <<fs, call, calls, before, lost, logfmt>>

(* One iteration of the ReadDir loop: an entry not returned yet that is  *)
(* not a log file name is skipped (continue); a log file is returned as  *)
(* this call's row (SRF_RETURN_NEXT); at the end FreeDir and              *)
(* SRF_RETURN_DONE.                                                        *)
LsReadDir(s) ==
    /\ pc[s] = "l_read"
    /\ \/ \E p \in MayRead(s) \ seen[s] :
            /\ seen' = [seen EXCEPT ![s] = @ \cup {p}]
            /\ IF p \in LogNames
               THEN rows' = [rows EXCEPT ![s] = Append(@, p)] /\ Goto(s, "l_call")
               ELSE UNCHANGED rows /\ Goto(s, "l_read")
       \/ MustRead(s) \subseteq seen[s] /\ Return(s, "true") /\ UNCHANGED <<seen, rows>>
    /\ UNCHANGED <<fs, call, calls, before, lost, logfmt>>

-----------------------------------------------------------------------------
Init ==
    /\ fs \in {[p \in Paths |-> IF p \in S THEN p ELSE NoFile] : S \in SUBSET Paths}
    /\ pc = [s \in Sessions |-> "idle"]
    /\ call = [s \in Sessions |-> [op |-> "unlink", f1 |-> CHOOSE p \in Paths : TRUE,
                                    who |-> CHOOSE w \in Callers : TRUE, v11 |-> TRUE]]
    /\ result = [s \in Sessions |-> "none"]
    /\ calls = [s \in Sessions |-> 0]
    /\ before = [s \in Sessions |-> fs]
    /\ lost = {}
    /\ logfmt \in BOOLEAN
    /\ seen = [s \in Sessions |-> {}]
    /\ rows = [s \in Sessions |-> <<>>]

Step(s) ==
    \/ Call(s) \/ CheckArgs(s)
    \/ RenameAccessSource(s) \/ RenameAccessDest(s) \/ RenameCheckTarget(s)
    \/ RenameSecond(s) \/ RenameFirst(s) \/ RenameRevert(s) \/ RenameOnly(s)
    \/ WriteStat(s) \/ WriteOpen(s)
    \/ UnlinkAccess(s) \/ Unlink(s)
    \/ LsFirstCall(s) \/ LsNextCall(s) \/ LsReadDir(s)

(* Every session has made all its calls.                                   *)
Terminating ==
    /\ \A s \in Sessions : pc[s] = "idle" /\ calls[s] = MaxCalls
    /\ UNCHANGED vars

Next == (\E s \in Sessions : Step(s)) \/ Terminating

Spec == Init /\ [][Next]_vars

-----------------------------------------------------------------------------
(* The types; a session is between calls exactly when it has a result of *)
(* its last call; the rollback of pg_file_rename starts only once fn2 has *)
(* been vacated by rename(fn2, fn3), so rename(fn3, fn2) replaces nothing. *)
TypeOK ==
    /\ fs \in Dir
    /\ call \in [Sessions -> Calls]
    /\ result \in [Sessions -> Results]
    /\ calls \in [Sessions -> 0 .. MaxCalls]
    /\ before \in [Sessions -> Dir]
    /\ lost \subseteq {"rename", "write"} \X Contents
    /\ logfmt \in BOOLEAN
    /\ seen \in [Sessions -> SUBSET Paths]
    /\ rows \in [Sessions -> Seq(Paths)]
    /\ \A s \in Sessions : (pc[s] = "idle") = (result[s] # "none" \/ calls[s] = 0)
    /\ \A s \in Sessions : pc[s] = "r_revert" => fs[call[s].f2] = NoFile

(* No call destroys a file by renaming onto it or by truncating it: the   *)
(* target checks of pg_file_rename_internal (access of fn3 or fn2) and of *)
(* pg_file_write_internal (stat) come before rename and fopen("wb").      *)
NoOverwrite == lost = {}

(* pg_file_rename never destroys a file, whatever system calls fail, in a *)
(* lone session: its target check treats an access() failing with any    *)
(* errno but ENOENT as ERROR "cannot rename to target file", and the      *)
(* rollback rename(fn3, fn2) runs only once fn2 was vacated.               *)
RenameNoOverwrite == \A l \in lost : l[1] # "rename"

(* Expected(d, c): the directory after a successful pg_file_rename c.     *)
Expected(d, c) ==
    IF c.f3 = NULL THEN Moved(d, c.f1, c.f2)
    ELSE Moved(Moved(d, c.f2, c.f3), c.f1, c.f2)

(* What pg_file_rename reports matches what it did to the directory: true *)
(* means fn1 became fn2 (and the old fn2 became fn3); false, an ERROR and *)
(* "was reverted" mean the directory is as the call found it; only "could *)
(* not rename back" leaves fn2 moved to fn3. Checked for a lone session.  *)
RenameOutcome ==
    \A s \in Sessions :
        (pc[s] = "idle" /\ call[s].op = "rename" /\ result[s] # "none") =>
            CASE result[s] = "true" -> fs = Expected(before[s], call[s])
              [] result[s] = "not_reverted" ->
                    fs = Moved(before[s], call[s].f2, call[s].f3)
              [] OTHER -> fs = before[s]

PrivilegeRespected ==
    \A s \in Sessions :
        (pc[s] = "idle" /\ result[s] # "none" /\ call[s].who = "user") =>
            \A p \in Paths : ~InDataDir(p) => fs[p] = before[s][p]

(* A pg_logdir_ls that ends without ERROR has returned a row for every   *)
(* log file of the directory and for nothing else, however its rows were *)
(* spread over calls of the set-returning function.                       *)
ListingExact ==
    \A s \in Sessions :
        (pc[s] = "idle" /\ call[s].op = "ls" /\ result[s] = "true") =>
            {rows[s][i] : i \in DOMAIN rows[s]} = Entries(s) \cap LogNames

=============================================================================
