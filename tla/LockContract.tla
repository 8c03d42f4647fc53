---------------------------- MODULE LockContract ----------------------------
(***************************************************************************)
(* What the commands on skill.lock promise to someone who does not know    *)
(* how they read the directory: every command looks at each locked path    *)
(* once, and all that it does follows from what it saw.  There is no       *)
(* listing, a verdict is an equation between two tables, and the two       *)
(* verifying commands are one.                                             *)
(***************************************************************************)
EXTENDS SkillTree

CONSTANTS
    Procs,        \* processes that run the commands
    StrayTables,  \* locks the author can put in place by hand or by checkout
    NoTable       \* this command verifies no lock

VARIABLES
    files,   \* the content of each path, NoFile when there is none
    lock,    \* what skill.lock holds
    pc,      \* where each command is, or how it ended
    pinned,  \* the table a command verifies; NoTable for `sabi lock`
    saw      \* what it saw, of the paths it has looked at

vars == <<files, lock, pc, pinned, saw>>

Nothing == [f \in {} |-> NoFile]

Active(p) == pc[p] \in {"scan", "write", "orphan"}
SawAll(p) == pc[p] = "scan" /\ DOMAIN saw[p] = Locked

Init ==
    /\ files \in [Locked -> Bytes]
    /\ lock \in StrayTables \cup {NoFile}
    /\ pc = [p \in Procs |-> "idle"]
    /\ pinned = [p \in Procs |-> NoTable]
    /\ saw = [p \in Procs |-> Nothing]

Edit(f, c) ==
    /\ files' = [files EXCEPT ![f] = c]
    /\ UNCHANGED <<lock, pc, pinned, saw>>

ReplaceLock(v) ==
    /\ lock' = v
    /\ pc' = [p \in Procs |-> IF pc[p] = "write" THEN "orphan" ELSE pc[p]]
    /\ UNCHANGED <<files, pinned, saw>>

(* A command begins: a lock command without a table, a verifying command    *)
(* with the one it reads, or with none and at its end.                      *)
Begin(p, t, where) ==
    /\ ~Active(p)
    /\ pc' = [pc EXCEPT ![p] = where]
    /\ pinned' = [pinned EXCEPT ![p] = t]
    /\ saw' = [saw EXCEPT ![p] = Nothing]
    /\ UNCHANGED <<files, lock>>

Start(p) ==
    \/ Begin(p, NoTable, "scan")
    \/ lock \in Tables /\ Begin(p, lock, "scan")
    \/ lock \notin Tables /\ Begin(p, NoTable, "rejected")

(* One look at one path, which finds a content or finds no file.            *)
Look(p, f) ==
    /\ pc[p] = "scan"
    /\ f \notin DOMAIN saw[p]
    /\ saw' = [saw EXCEPT ![p] =
                 [g \in DOMAIN saw[p] \cup {f} |-> IF g = f THEN files[f] ELSE saw[p][g]]]
    /\ UNCHANGED <<files, lock, pc, pinned>>

End(p, how) ==
    /\ pc' = [pc EXCEPT ![p] = how]
    /\ saw' = [saw EXCEPT ![p] = Nothing]
    /\ UNCHANGED <<files, pinned>>

(* The exception needs a path that is absent, and that has no look yet.     *)
GiveUp(p, f) ==
    /\ pc[p] = "scan"
    /\ f \notin DOMAIN saw[p]
    /\ files[f] = NoFile
    /\ End(p, "error")
    /\ UNCHANGED lock

(* The lock is accepted exactly when it is the document that a lock command *)
(* would write that had seen the same.                                      *)
Judge(p) ==
    /\ SawAll(p)
    /\ pinned[p] # NoTable
    /\ End(p, IF pinned[p] = AsTable(saw[p]) THEN "ok" ELSE "rejected")
    /\ UNCHANGED lock

Open(p) ==
    /\ SawAll(p)
    /\ pinned[p] = NoTable
    /\ lock' = Empty
    /\ pc' = [pc EXCEPT ![p] = "write"]
    /\ UNCHANGED <<files, pinned, saw>>

Publish(p) ==
    /\ pc[p] = "write"
    /\ lock' \in Overwrite(lock, AsTable(saw[p]))
    /\ End(p, "ok")

PublishNowhere(p) ==
    /\ pc[p] = "orphan"
    /\ End(p, "ok")
    /\ UNCHANGED lock

Crash(p) ==
    /\ Active(p)
    /\ pc' = [pc EXCEPT ![p] = "idle"]
    /\ pinned' = [pinned EXCEPT ![p] = NoTable]
    /\ saw' = [saw EXCEPT ![p] = Nothing]
    /\ lock' \in {lock} \cup IF pc[p] = "write" THEN {Torn} ELSE {}
    /\ UNCHANGED files

Next ==
    \/ \E f \in Locked, c \in Bytes : Edit(f, c)
    \/ \E v \in StrayTables \cup {NoFile} : ReplaceLock(v)
    \/ \E p \in Procs :
        \/ Start(p)
        \/ \E f \in Locked : Look(p, f) \/ GiveUp(p, f)
        \/ Judge(p) \/ Open(p) \/ Publish(p) \/ PublishNowhere(p)
        \/ Crash(p)

Spec == Init /\ [][Next]_vars
============================================================================
