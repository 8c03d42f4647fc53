----------------------------- MODULE SkillLock -----------------------------
(***************************************************************************)
(* `sabi lock`, `sabi verify-lock` and the lock check of `sabi validate`,  *)
(* run by several processes over one skill directory while its author      *)
(* edits, creates and removes files and checks out other locks.            *)
(*                                                                         *)
(* No command takes a file lock.  A command reads the directory one file   *)
(* at a time, and write_text truncates skill.lock before it writes it.     *)
(* A process can be killed at any step.                                    *)
(***************************************************************************)
EXTENDS SkillTree

CONSTANTS
    Procs,        \* processes that run the commands
    NoProc,
    StrayTables,  \* locks the author can put in place by hand or by checkout
    NoTable       \* this command has not read a lock

ASSUME LockAssumption ==
    /\ NoProc \notin Procs
    /\ NoTable \notin Tables
    /\ StrayTables \subseteq Tables

VARIABLES
    files,     \* the content of each path, NoFile when there is none
    lock,      \* what skill.lock holds
    cmd,       \* the command each process runs, or ran last
    pc,        \* where it is in that command, or how the command ended
    unlisted,  \* paths locked_files has still to look for
    listed,    \* paths it found, whose digest is still to be computed
    digests,   \* the dictionary compute_digests builds
    pinned,    \* the table a verifying command read from skill.lock
    seen,      \* history: what each path held at some instant of the command
    owner      \* history: the process that alone opened and wrote the lock

disk == <<files, lock>>
local == <<cmd, pc, unlisted, listed, digests, pinned>>
vars == <<files, lock, cmd, pc, unlisted, listed, digests, pinned, seen, owner>>

Verifiers == {"verify_lock", "check_lock"}
Commands == {"lock"} \cup Verifiers

(* "scan" is compute_digests; "write" holds skill.lock open; "orphan" holds *)
(* open a skill.lock that has since been unlinked, so what it writes        *)
(* reaches no path.                                                         *)
Running == {"scan", "write", "orphan"}
(* Exit code 0; exit code 3 or a list of findings; an exception (code 2).   *)
Ended == {"ok", "rejected", "error"}

Active(p) == pc[p] \in Running

Init ==
    /\ files \in [Locked -> Bytes]
    /\ lock \in StrayTables \cup {NoFile}
    /\ cmd = [p \in Procs |-> "lock"]
    /\ pc = [p \in Procs |-> "idle"]
    /\ unlisted = [p \in Procs |-> {}]
    /\ listed = [p \in Procs |-> {}]
    /\ digests = [p \in Procs |-> NoDigests]
    /\ pinned = [p \in Procs |-> NoTable]
    /\ seen = [p \in Procs |-> [f \in Locked |-> {}]]
    /\ owner = NoProc

----------------------------------------------------------------------------
(* The author.                                                              *)

(* Write, create or remove one file.  The history of every running command  *)
(* takes the new content in.                                                *)
Edit(f, c) ==
    /\ files[f] # c
    /\ files' = [files EXCEPT ![f] = c]
    /\ seen' = [p \in Procs |->
                  IF Active(p) THEN [seen[p] EXCEPT ![f] = @ \cup {c}] ELSE seen[p]]
    /\ UNCHANGED <<lock, local, owner>>

(* Remove skill.lock, or put another one in its place (a checkout).  Both   *)
(* unlink the old file: a process that has it open keeps writing to it.     *)
ReplaceLock(v) ==
    /\ lock # v
    /\ lock' = v
    /\ pc' = [p \in Procs |-> IF pc[p] = "write" THEN "orphan" ELSE pc[p]]
    /\ owner' = NoProc
    /\ UNCHANGED <<files, cmd, unlisted, listed, digests, pinned, seen>>

----------------------------------------------------------------------------
(* The commands.                                                            *)

Begin(p, c, t) ==
    /\ ~Active(p)
    /\ cmd' = [cmd EXCEPT ![p] = c]
    /\ digests' = [digests EXCEPT ![p] = NoDigests]
    /\ pinned' = [pinned EXCEPT ![p] = t]
    /\ seen' = [seen EXCEPT ![p] = [f \in Locked |-> {files[f]}]]
    /\ listed' = [listed EXCEPT ![p] = {}]
    /\ UNCHANGED <<disk, owner>>

BeginScan(p, c, t) ==
    /\ Begin(p, c, t)
    /\ unlisted' = [unlisted EXCEPT ![p] = Locked]
    /\ pc' = [pc EXCEPT ![p] = "scan"]

StartLock(p) == BeginScan(p, "lock", NoTable)

(* Both verifying commands read skill.lock before they look at any file ... *)
StartVerify(p, c) == lock \in Tables /\ BeginScan(p, c, lock)

(* ... and reject one that is missing or is not JSON.                       *)
RejectUnreadable(p, c) ==
    /\ lock \notin Tables
    /\ Begin(p, c, NoTable)
    /\ unlisted' = [unlisted EXCEPT ![p] = {}]
    /\ pc' = [pc EXCEPT ![p] = "rejected"]

(* The command returns: its local state goes, except what it verified.      *)
End(p, how) ==
    /\ pc' = [pc EXCEPT ![p] = how]
    /\ unlisted' = [unlisted EXCEPT ![p] = {}]
    /\ listed' = [listed EXCEPT ![p] = {}]
    /\ digests' = [digests EXCEPT ![p] = NoDigests]
    /\ UNCHANGED <<cmd, pinned, seen>>

(* Mutated: the listing without its is_file() filter.                       *)
ListUnfiltered(p, f) ==
    /\ pc[p] = "scan"
    /\ f \in unlisted[p]
    /\ unlisted' = [unlisted EXCEPT ![p] = @ \ {f}]
    /\ listed' = [listed EXCEPT ![p] = @ \cup {f}]
    /\ UNCHANGED <<disk, cmd, pc, digests, pinned, seen, owner>>

(* locked_files keeps a path that a glob matches and that is a file when    *)
(* is_file() looks.  One look per path, in any order, gives every list the  *)
(* two looks can give: it is the look that decides about that path.         *)
List(p, f) ==
    /\ pc[p] = "scan"
    /\ f \in unlisted[p]
    /\ unlisted' = [unlisted EXCEPT ![p] = @ \ {f}]
    /\ listed' = [listed EXCEPT ![p] = IF files[f] = NoFile THEN @ ELSE @ \cup {f}]
    /\ UNCHANGED <<disk, cmd, pc, digests, pinned, seen, owner>>

(* Only a complete list is read from.                                       *)
Readable(p, f) == pc[p] = "scan" /\ unlisted[p] = {} /\ f \in listed[p]

ReadFile(p, f) ==
    /\ Readable(p, f)
    /\ files[f] # NoFile
    /\ listed' = [listed EXCEPT ![p] = @ \ {f}]
    /\ digests' = [digests EXCEPT ![p][f] = files[f]]
    /\ UNCHANGED <<disk, cmd, pc, unlisted, pinned, seen, owner>>

(* Mutated: look for a vanished file again instead of giving up.            *)
ReadVanishedRetry(p, f) ==
    /\ Readable(p, f)
    /\ files[f] = NoFile
    /\ unlisted' = [unlisted EXCEPT ![p] = {f}]
    /\ listed' = [listed EXCEPT ![p] = @ \ {f}]
    /\ UNCHANGED <<disk, cmd, pc, digests, pinned, seen, owner>>

(* The file was there when it was listed: read_bytes raises, main exits     *)
(* with 2, and a lock command has written nothing.                          *)
ReadVanished(p, f) ==
    /\ Readable(p, f)
    /\ files[f] = NoFile
    /\ End(p, "error")
    /\ UNCHANGED <<disk, owner>>

AllRead(p) == pc[p] = "scan" /\ unlisted[p] = {} /\ listed[p] = {}

(* Mutated: open without truncating.                                        *)
OpenLockInPlace(p) ==
    /\ AllRead(p)
    /\ cmd[p] = "lock"
    /\ lock' = IF lock = NoFile THEN Empty ELSE lock
    /\ owner' = p
    /\ pc' = [pc EXCEPT ![p] = "write"]
    /\ UNCHANGED <<files, cmd, unlisted, listed, digests, pinned, seen>>

(* open(lock_path, "w") creates or truncates skill.lock ...                 *)
OpenLock(p) ==
    /\ AllRead(p)
    /\ cmd[p] = "lock"
    /\ lock' = Empty
    /\ owner' = p
    /\ pc' = [pc EXCEPT ![p] = "write"]
    /\ UNCHANGED <<files, cmd, unlisted, listed, digests, pinned, seen>>

(* ... and the document lands on what the file holds by then.               *)
OwnerAfterWrite(p) == IF owner = p THEN p ELSE NoProc

WriteLock(p) ==
    /\ pc[p] = "write"
    /\ lock' \in Overwrite(lock, AsTable(digests[p]))
    /\ owner' = OwnerAfterWrite(p)
    /\ End(p, "ok")
    /\ UNCHANGED files

(* The command reports success although its document reached no path.       *)
WriteOrphan(p) ==
    /\ pc[p] = "orphan"
    /\ End(p, "ok")
    /\ UNCHANGED <<disk, owner>>

Findings(p) ==
    IF cmd[p] = "verify_lock" THEN VerifyLockErrors(digests[p], pinned[p])
                              ELSE CheckLockErrors(digests[p], pinned[p])

Compare(p) ==
    /\ AllRead(p)
    /\ cmd[p] \in Verifiers
    /\ End(p, IF Findings(p) = {} THEN "ok" ELSE "rejected")
    /\ UNCHANGED <<disk, owner>>

(* The process is killed.  One that was writing may have written a part.    *)
Crash(p) ==
    /\ Active(p)
    /\ pc' = [pc EXCEPT ![p] = "idle"]
    /\ cmd' = [cmd EXCEPT ![p] = "lock"]
    /\ unlisted' = [unlisted EXCEPT ![p] = {}]
    /\ listed' = [listed EXCEPT ![p] = {}]
    /\ digests' = [digests EXCEPT ![p] = NoDigests]
    /\ pinned' = [pinned EXCEPT ![p] = NoTable]
    /\ seen' = [seen EXCEPT ![p] = [f \in Locked |-> {}]]
    /\ IF pc[p] = "write"
       THEN lock' \in {lock, Torn} /\ owner' = NoProc
       ELSE UNCHANGED <<lock, owner>>
    /\ UNCHANGED files

----------------------------------------------------------------------------
Author ==
    \/ \E f \in Locked, c \in Bytes : Edit(f, c)
    \/ \E v \in StrayTables \cup {NoFile} : ReplaceLock(v)

Start(p) ==
    \/ StartLock(p)
    \/ \E c \in Verifiers : StartVerify(p, c) \/ RejectUnreadable(p, c)

Step(p) ==
    \/ \E f \in Locked : List(p, f) \/ ReadFile(p, f) \/ ReadVanished(p, f)
    \/ OpenLock(p)
    \/ WriteLock(p)
    \/ WriteOrphan(p)
    \/ Compare(p)

Next ==
    \/ Author
    \/ \E p \in Procs : Start(p) \/ Step(p) \/ Crash(p)

(* A command that has started is not suspended for ever.  Nobody has to     *)
(* start one, to edit a file, or to kill a process.                         *)
Spec == Init /\ [][Next]_vars /\ \A p \in Procs : WF_vars(Step(p))

----------------------------------------------------------------------------
(* What must hold.                                                          *)

(* Every variable keeps its type: the state of every command is well formed *)
(* and skill.lock is missing, truncated, torn or one whole document.        *)
TypeOK ==
    /\ files \in [Locked -> Bytes]
    /\ lock \in LockStates
    /\ cmd \in [Procs -> Commands]
    /\ pc \in [Procs -> {"idle"} \cup Running \cup Ended]
    /\ unlisted \in [Procs -> SUBSET Locked]
    /\ listed \in [Procs -> SUBSET Locked]
    /\ digests \in [Procs -> Digests]
    /\ pinned \in [Procs -> Tables \cup {NoTable}]
    /\ seen \in [Procs -> [Locked -> SUBSET Bytes]]
    /\ owner \in Procs \cup {NoProc}

(* A table that each path has agreed with at some instant of p's command,   *)
(* and that pins nothing else.                                              *)
Witnessed(p, t) ==
    /\ \A f \in Locked : t[f] \in seen[p][f]
    /\ \A f \in Ephemeral : t[f] = NoFile

(* `verify-lock` and the lock check of `validate` accept a lock only if     *)
(* every path had the pinned content, or was absent when nothing is pinned, *)
(* at some instant of the command, whatever was edited, relocked or checked *)
(* out meanwhile (lockfile.check_lock, api.verify_lock).                    *)
AcceptanceSound ==
    \A p \in Procs :
        pc[p] = "ok" /\ cmd[p] \in Verifiers
            => pinned[p] # NoTable /\ Witnessed(p, pinned[p])

(* They reject a readable lock only for a reason: some path differed from   *)
(* the lock at some instant, or the lock pins an ephemeral path.  So a lock *)
(* that matches a directory nobody is editing is never rejected.            *)
RejectionJustified ==
    \A p \in Procs :
        pc[p] = "rejected" /\ pinned[p] # NoTable
            => \/ \E f \in Locked : seen[p][f] # {pinned[p][f]}
               \/ PinnedEphemeral(pinned[p]) # {}

(* A command ends with an exception only if some path disappeared while the *)
(* command ran: the race of compute_digests between listing and reading.    *)
ErrorOnlyOnRace ==
    \A p \in Procs :
        pc[p] = "error" => \E f \in Locked : NoFile \in seen[p][f] /\ seen[p][f] # {NoFile}

(* When the last process to open skill.lock wrote it without interference   *)
(* (write_lock, whoever locked, crashed or was overtaken before), the file  *)
(* is one readable document that pins what that command saw on disk.        *)
LockPinsItsRun ==
    \A p \in Procs :
        pc[p] = "ok" /\ cmd[p] = "lock" /\ owner = p
            => lock \in Tables /\ Witnessed(p, lock)

(* Every command that starts ends, however long the author goes on editing: *)
(* the list it reads is complete before it reads, and it never starts over. *)
CommandsEnd == \A p \in Procs : Active(p) ~> ~Active(p)

(* The same without fairness: what a command has left to do shrinks with    *)
(* every step it takes, and nothing adds to it, neither an edit nor another *)
(* command (locked_files, compute_digests).  So a command over finitely     *)
(* many paths takes at most two steps for each and two more.                *)
Todo(p) ==
    {<<"list", f>> : f \in unlisted[p]}
        \cup {<<"read", f>> : f \in unlisted[p] \cup listed[p]}
        \cup (IF pc[p] = "scan" THEN {<<"open", p>>} ELSE {})
        \cup (IF Active(p) THEN {<<"finish", p>>} ELSE {})

NeverStartsOver ==
    [][\A p \in Procs :
         Active(p) => /\ Todo(p)' \subseteq Todo(p)
                      /\ Step(p) => Todo(p)' # Todo(p)]_vars

(* What a command has seen: of a path that is settled, what its dictionary  *)
(* says about it.                                                           *)
Saw ==
    [p \in Procs |->
       [f \in IF pc[p] = "scan" THEN Locked \ (unlisted[p] \cup listed[p])
              ELSE IF Active(p) THEN Locked ELSE {}
        |-> digests[p][f]]]

Promised == INSTANCE LockContract WITH saw <- Saw

(* Listing first and reading later, two comparisons with different loops,   *)
(* and whatever else runs meanwhile: to an observer each path was looked at *)
(* once, and the verdict or the document follows from what was seen         *)
(* (compute_digests, write_lock, check_lock, api.verify_lock).              *)
ImplementsContract == Promised!Spec
============================================================================
