-------------------------- MODULE SkillLockProofs --------------------------
(***************************************************************************)
(* The safety of SkillLock for any number of processes, files and          *)
(* contents.  The properties are about how a command ends; the invariant   *)
(* that carries them says what is true in the middle of one.               *)
(***************************************************************************)
EXTENDS SkillLock, TLAPS

(* Everything a running command has missed is in its history already: the   *)
(* disk as it is now belongs to it.                                         *)
HistoryCurrent(p) ==
    Active(p) => \A f \in Locked : files[f] \in seen[p][f]

(* A path is still to be looked for, or it was found, or it is settled: its *)
(* entry (or the lack of one) is something the path held meanwhile.         *)
ScanProgress(p) ==
    pc[p] = "scan" =>
        /\ \A f \in unlisted[p] \cup listed[p] : digests[p][f] = NoFile
        /\ \A f \in listed[p] : \E c \in Contents : c \in seen[p][f]
        /\ \A f \in Locked \ (unlisted[p] \cup listed[p]) : digests[p][f] \in seen[p][f]

(* Of the commands that read files, the verifying ones have read a lock     *)
(* before, and the others have not.                                         *)
HasTable(p) ==
    pc[p] = "scan" => (cmd[p] \in Verifiers <=> pinned[p] # NoTable)

(* A command that has opened skill.lock has settled every path.             *)
WriterReady(p) ==
    pc[p] \in {"write", "orphan"} =>
        /\ cmd[p] = "lock"
        /\ \A f \in Locked : digests[p][f] \in seen[p][f]

(* What the owner of skill.lock left there.                                 *)
OwnedLock(p) ==
    owner = p =>
        /\ pc[p] # "orphan"
        /\ pc[p] = "write" => lock = Empty
        /\ pc[p] = "ok" /\ cmd[p] = "lock" => lock \in Tables /\ Witnessed(p, lock)

(* What the three ways to end promise.                                      *)
Verdicts(p) ==
    /\ pc[p] = "ok" /\ cmd[p] \in Verifiers
         => pinned[p] # NoTable /\ Witnessed(p, pinned[p])
    /\ pc[p] = "rejected" /\ pinned[p] # NoTable
         => \/ \E f \in Locked : seen[p][f] # {pinned[p][f]}
            \/ PinnedEphemeral(pinned[p]) # {}
    /\ pc[p] = "error"
         => \E f \in Locked : NoFile \in seen[p][f] /\ seen[p][f] # {NoFile}

ProcInv(p) ==
    /\ HistoryCurrent(p)
    /\ ScanProgress(p)
    /\ HasTable(p)
    /\ WriterReady(p)
    /\ OwnedLock(p)
    /\ Verdicts(p)

IInv == TypeOK /\ \A p \in Procs : ProcInv(p)

----------------------------------------------------------------------------
(* The operators of SkillTree.                                              *)

(* The document write_lock builds is a table that says of every locked path *)
(* what the digests say, and pins nothing else (lockfile.write_lock).       *)
LEMMA AsTableType ==
    ASSUME NEW d \in Digests
    PROVE  /\ AsTable(d) \in Tables
           /\ \A f \in Locked : AsTable(d)[f] = d[f]
           /\ \A f \in Ephemeral : AsTable(d)[f] = NoFile
  BY TreeAssumption DEF AsTable, Tables, Digests, Paths, Bytes

(* verify_lock makes two more checks than check_lock, and they never find   *)
(* anything that the common ones do not: an unpinned file is a mismatch,    *)
(* and a pinned ephemeral path is one the globs cannot list.                *)
THEOREM ChecksEquivalent ==
    ASSUME NEW d \in Digests, NEW t \in Tables
    PROVE  (CheckLockErrors(d, t) = {}) <=> (VerifyLockErrors(d, t) = {})
<1>1. Unpinned(d, t) \subseteq Mismatched(d, t)
  BY DEF Unpinned, Mismatched
<1>2. PinnedEphemeral(t) \subseteq Gone(d, t)
  BY TreeAssumption DEF PinnedEphemeral, Gone, Paths
<1> QED
  BY <1>1, <1>2 DEF CheckLockErrors, VerifyLockErrors

(* A clean comparison leaves no room between the digests and the lock.      *)
LEMMA NoFindings ==
    ASSUME NEW d \in Digests, NEW t \in Tables, CheckLockErrors(d, t) = {}
    PROVE  /\ \A f \in Locked : t[f] = d[f]
           /\ \A f \in Ephemeral : t[f] = NoFile
<1>1. Mismatched(d, t) = {} /\ Gone(d, t) = {}
  BY DEF CheckLockErrors
<1>2. \A f \in Locked : t[f] = d[f]
  BY <1>1 DEF Mismatched, Gone, Paths
<1>3. \A f \in Ephemeral : t[f] = NoFile
  BY <1>1, TreeAssumption DEF Gone, Paths
<1> QED
  BY <1>2, <1>3

(* And a lock that equals the digests and pins nothing else gives none.     *)
LEMMA FindingsHaveCause ==
    ASSUME NEW d \in Digests, NEW t \in Tables, CheckLockErrors(d, t) # {},
           PinnedEphemeral(t) = {}
    PROVE  \E f \in Locked : t[f] # d[f]
<1>1. CASE Mismatched(d, t) # {}
  BY <1>1 DEF Mismatched
<1>2. CASE Gone(d, t) # {}
  <2>1. PICK f \in Paths : t[f] # NoFile /\ (f \in Locked => d[f] = NoFile)
    BY <1>2 DEF Gone
  <2>2. f \in Locked
    BY <2>1 DEF PinnedEphemeral, Paths
  <2> QED
    BY <2>1, <2>2
<1> QED
  BY <1>1, <1>2 DEF CheckLockErrors

(* So the two checks and the document that write_lock builds agree: a lock  *)
(* is accepted exactly when it is the document a lock command would write   *)
(* that had seen the same files.                                            *)
THEOREM CleanIsDocument ==
    ASSUME NEW d \in Digests, NEW t \in Tables
    PROVE  (CheckLockErrors(d, t) = {}) <=> (t = AsTable(d))
<1>1. ASSUME CheckLockErrors(d, t) = {} PROVE t = AsTable(d)
  <2>1. \A f \in Paths : t[f] = AsTable(d)[f]
    BY <1>1, NoFindings, AsTableType DEF Paths
  <2> QED
    BY <2>1, AsTableType DEF Tables
<1>2. ASSUME t = AsTable(d) PROVE CheckLockErrors(d, t) = {}
  <2>1. PinnedEphemeral(t) = {}
    BY <1>2, AsTableType DEF PinnedEphemeral
  <2>2. \A f \in Locked : t[f] = d[f]
    BY <1>2, AsTableType
  <2> QED
    BY <2>1, <2>2, FindingsHaveCause
<1> QED
  BY <1>1, <1>2

----------------------------------------------------------------------------
(* Types.                                                                   *)

(* NoDigests is a possible dictionary, and every table is a lock state.     *)
LEMMA TreeTypes == NoDigests \in Digests /\ Tables \subseteq LockStates
  BY DEF NoDigests, Digests, Bytes, LockStates

(* What a write leaves in skill.lock is a lock state.                       *)
LEMMA OverwriteType ==
    ASSUME NEW old, NEW new \in Tables
    PROVE  Overwrite(old, new) \subseteq LockStates
  BY DEF Overwrite, LockStates

(* Types need no fairness.                                                  *)
LEMMA TypeInvariance == Init /\ [][Next]_vars => []TypeOK
<1> USE DEF TypeOK, Commands, Verifiers, Running, Ended
<1>1. Init => TypeOK
  BY LockAssumption, TreeTypes DEF Init, LockStates
<1>2. TypeOK /\ [Next]_vars => TypeOK'
  <2> SUFFICES ASSUME TypeOK, [Next]_vars PROVE TypeOK'
    OBVIOUS
  <2>1. ASSUME NEW f \in Locked, NEW c \in Bytes, Edit(f, c) PROVE TypeOK'
    BY <2>1 DEF Edit, local
  <2>2. ASSUME NEW v \in StrayTables \cup {NoFile}, ReplaceLock(v) PROVE TypeOK'
    BY <2>2, LockAssumption DEF ReplaceLock, LockStates
  <2>3. ASSUME NEW p \in Procs, NEW c \in Commands, NEW t \in Tables \cup {NoTable},
               BeginScan(p, c, t)
        PROVE  TypeOK'
    BY <2>3, TreeTypes DEF BeginScan, Begin, disk
  <2>4. ASSUME NEW p \in Procs, StartLock(p) PROVE TypeOK'
    BY <2>3, <2>4 DEF StartLock
  <2>5. ASSUME NEW p \in Procs, NEW c \in Verifiers, StartVerify(p, c) PROVE TypeOK'
    BY <2>3, <2>5 DEF StartVerify
  <2>6. ASSUME NEW p \in Procs, NEW c \in Verifiers, RejectUnreadable(p, c) PROVE TypeOK'
    BY <2>6, TreeTypes DEF RejectUnreadable, Begin, disk
  <2>7. ASSUME NEW p \in Procs, NEW f \in Locked, List(p, f) PROVE TypeOK'
    BY <2>7 DEF List, disk
  <2>8. ASSUME NEW p \in Procs, NEW f \in Locked, ReadFile(p, f) PROVE TypeOK'
    BY <2>8 DEF ReadFile, disk, Digests
  <2>9. ASSUME NEW p \in Procs, NEW f \in Locked, ReadVanished(p, f) PROVE TypeOK'
    BY <2>9, TreeTypes DEF ReadVanished, End, disk
  <2>10. ASSUME NEW p \in Procs, OpenLock(p) PROVE TypeOK'
    BY <2>10 DEF OpenLock, LockStates
  <2>11. ASSUME NEW p \in Procs, WriteLock(p) PROVE TypeOK'
    <3>1. lock' \in LockStates
      BY <2>11, AsTableType, OverwriteType DEF WriteLock
    <3> QED
      BY <2>11, <3>1, TreeTypes DEF WriteLock, End, OwnerAfterWrite
  <2>12. ASSUME NEW p \in Procs, WriteOrphan(p) PROVE TypeOK'
    BY <2>12, TreeTypes DEF WriteOrphan, End, disk
  <2>13. ASSUME NEW p \in Procs, Compare(p) PROVE TypeOK'
    BY <2>13, TreeTypes DEF Compare, End, disk
  <2>14. ASSUME NEW p \in Procs, Crash(p) PROVE TypeOK'
    BY <2>14, TreeTypes DEF Crash, LockStates
  <2>15. CASE UNCHANGED vars
    BY <2>15 DEF vars
  <2> QED
    BY <2>1, <2>2, <2>4, <2>5, <2>6, <2>7, <2>8, <2>9, <2>10, <2>11, <2>12,
       <2>13, <2>14, <2>15 DEF Next, Author, Start, Step
<1> QED
  BY <1>1, <1>2, PTL

(* Every variable of the commands, the directory and the history keeps its  *)
(* type, for any number of processes, paths and contents.                   *)
THEOREM TypeCorrect == Spec => []TypeOK
  BY TypeInvariance, PTL DEF Spec

----------------------------------------------------------------------------
(* The invariant is inductive.                                              *)

(* A process is not disturbed by a step of another one that leaves the      *)
(* files alone, and that touches skill.lock only to become its owner.       *)
Undisturbed(q) ==
    /\ cmd'[q] = cmd[q] /\ pc'[q] = pc[q]
    /\ unlisted'[q] = unlisted[q] /\ listed'[q] = listed[q]
    /\ digests'[q] = digests[q] /\ pinned'[q] = pinned[q] /\ seen'[q] = seen[q]
    /\ files' = files
    /\ owner' = q => owner = q /\ lock' = lock

(* So such a step keeps the invariant of the other process.                 *)
LEMMA UndisturbedKeepsInv ==
    ASSUME NEW q \in Procs, ProcInv(q), Undisturbed(q)
    PROVE  ProcInv(q)'
<1> USE DEF ProcInv, Undisturbed, Active
<1>1. HistoryCurrent(q)'
  BY DEF HistoryCurrent
<1>2. ScanProgress(q)' /\ HasTable(q)' /\ WriterReady(q)'
  BY DEF ScanProgress, HasTable, WriterReady
<1>3. OwnedLock(q)'
  BY DEF OwnedLock, Witnessed
<1>4. Verdicts(q)'
  BY DEF Verdicts, Witnessed
<1> QED
  BY <1>1, <1>2, <1>3, <1>4

(* The history of a running command takes every edit in.                    *)
LEMMA EditKeepsInv ==
    ASSUME TypeOK, NEW q \in Procs, ProcInv(q),
           NEW f \in Locked, NEW c \in Bytes, Edit(f, c)
    PROVE  ProcInv(q)'
<1> USE DEF ProcInv, Edit, local, Active
<1>1. seen'[q] = IF Active(q) THEN [seen[q] EXCEPT ![f] = @ \cup {c}] ELSE seen[q]
  OBVIOUS
<1>2. \A g \in Locked : seen[q][g] \subseteq seen'[q][g]
  BY <1>1 DEF TypeOK
<1>3. HistoryCurrent(q)'
  BY <1>1 DEF HistoryCurrent, TypeOK
<1>4. ScanProgress(q)'
  BY <1>2 DEF ScanProgress, TypeOK
<1>5. HasTable(q)' /\ WriterReady(q)'
  BY <1>2 DEF HasTable, WriterReady
<1>6. OwnedLock(q)'
  BY <1>2 DEF OwnedLock, Witnessed
<1>7. Verdicts(q)'
  <2>1. CASE Active(q)
    BY <2>1 DEF Verdicts, Running
  <2>2. CASE ~Active(q)
    <3>1. seen'[q] = seen[q]
      BY <1>1, <2>2
    <3> QED
      BY <3>1 DEF Verdicts, Witnessed
  <2> QED
    BY <2>1, <2>2
<1> QED
  BY <1>3, <1>4, <1>5, <1>6, <1>7

(* After a checkout nobody owns skill.lock; who had it open is an orphan.   *)
LEMMA ReplaceLockKeepsInv ==
    ASSUME TypeOK, NEW q \in Procs, ProcInv(q), NEW v, ReplaceLock(v)
    PROVE  ProcInv(q)'
<1> USE DEF ProcInv, ReplaceLock, Active, Running
<1>1. pc'[q] = IF pc[q] = "write" THEN "orphan" ELSE pc[q]
  OBVIOUS
<1>2. HistoryCurrent(q)' /\ ScanProgress(q)' /\ HasTable(q)' /\ WriterReady(q)'
  BY <1>1 DEF HistoryCurrent, ScanProgress, HasTable, WriterReady
<1>3. OwnedLock(q)'
  BY LockAssumption DEF OwnedLock
<1>4. Verdicts(q)'
  BY <1>1 DEF Verdicts, Witnessed
<1> QED
  BY <1>2, <1>3, <1>4

(* A command that starts has a fresh history and no digests.                *)
LEMMA BeginScanKeepsInv ==
    ASSUME TypeOK, NEW p \in Procs, NEW c \in Commands, NEW t \in Tables \cup {NoTable},
           BeginScan(p, c, t), c \in Verifiers <=> t # NoTable, ProcInv(p)
    PROVE  ProcInv(p)'
<1> USE DEF BeginScan, Begin, disk, TypeOK, ProcInv
<1>1. /\ pc'[p] = "scan" /\ cmd'[p] = c /\ pinned'[p] = t
      /\ unlisted'[p] = Locked /\ listed'[p] = {} /\ digests'[p] = NoDigests
      /\ seen'[p] = [f \in Locked |-> {files[f]}]
      /\ files' = files /\ lock' = lock /\ owner' = owner
  OBVIOUS
<1>2. HistoryCurrent(p)' /\ HasTable(p)' /\ WriterReady(p)' /\ Verdicts(p)'
  BY <1>1 DEF HistoryCurrent, HasTable, WriterReady, Verdicts
<1>3. ScanProgress(p)'
  BY <1>1 DEF ScanProgress, NoDigests
<1>4. OwnedLock(p)'
  BY <1>1 DEF OwnedLock
<1> QED
  BY <1>2, <1>3, <1>4

(* A command that finds no readable lock ends without a table.              *)
LEMMA RejectUnreadableKeepsInv ==
    ASSUME TypeOK, NEW p \in Procs, NEW c \in Verifiers, RejectUnreadable(p, c), ProcInv(p)
    PROVE  ProcInv(p)'
<1> USE DEF RejectUnreadable, Begin, disk, TypeOK, ProcInv
<1>1. pc'[p] = "rejected" /\ pinned'[p] = NoTable /\ owner' = owner
  OBVIOUS
<1> QED
  BY <1>1 DEF HistoryCurrent, ScanProgress, HasTable, WriterReady, OwnedLock, Verdicts,
              Active, Running

(* Looking for a path settles it as absent, or finds it with a content.     *)
LEMMA ListKeepsInv ==
    ASSUME TypeOK, NEW p \in Procs, NEW f \in Locked, List(p, f), ProcInv(p)
    PROVE  ProcInv(p)'
<1> USE DEF List, disk, TypeOK, ProcInv
<1>1. files[f] \in seen[p][f]
  BY DEF HistoryCurrent, Active, Running
<1>2. ScanProgress(p)'
  BY <1>1 DEF ScanProgress, Bytes
<1>3. HistoryCurrent(p)' /\ HasTable(p)' /\ WriterReady(p)' /\ OwnedLock(p)' /\ Verdicts(p)'
  BY DEF HistoryCurrent, HasTable, WriterReady, OwnedLock, Verdicts, Active, Witnessed
<1> QED
  BY <1>2, <1>3

(* A path whose digest is taken is settled with what it holds now.          *)
LEMMA ReadFileKeepsInv ==
    ASSUME TypeOK, NEW p \in Procs, NEW f \in Locked, ReadFile(p, f), ProcInv(p)
    PROVE  ProcInv(p)'
<1> USE DEF ReadFile, Readable, disk, TypeOK, ProcInv
<1>1. files[f] \in seen[p][f]
  BY DEF HistoryCurrent, Active, Running
<1>2. ScanProgress(p)'
  BY <1>1 DEF ScanProgress, Digests
<1>3. HistoryCurrent(p)' /\ HasTable(p)' /\ WriterReady(p)' /\ OwnedLock(p)' /\ Verdicts(p)'
  BY DEF HistoryCurrent, HasTable, WriterReady, OwnedLock, Verdicts, Active, Witnessed
<1> QED
  BY <1>2, <1>3

(* A path that was listed had a content; now it is gone.                    *)
LEMMA ReadVanishedKeepsInv ==
    ASSUME TypeOK, NEW p \in Procs, NEW f \in Locked, ReadVanished(p, f), ProcInv(p)
    PROVE  ProcInv(p)'
<1> USE DEF ReadVanished, Readable, End, disk, TypeOK, ProcInv
<1>1. NoFile \in seen[p][f]
  BY DEF HistoryCurrent, Active, Running
<1>2. \E c \in Contents : c \in seen[p][f]
  BY DEF ScanProgress
<1>3. seen[p][f] # {NoFile}
  BY <1>2, TreeAssumption
<1>4. pc'[p] = "error" /\ seen'[p] = seen[p]
  OBVIOUS
<1>5. Verdicts(p)'
  BY <1>1, <1>3, <1>4 DEF Verdicts
<1>6. HistoryCurrent(p)' /\ ScanProgress(p)' /\ HasTable(p)' /\ WriterReady(p)' /\ OwnedLock(p)'
  BY <1>4 DEF HistoryCurrent, ScanProgress, HasTable, WriterReady, OwnedLock, Active, Running
<1> QED
  BY <1>5, <1>6

(* Who opens skill.lock truncates it and owns it.                           *)
LEMMA OpenLockKeepsInv ==
    ASSUME TypeOK, NEW p \in Procs, OpenLock(p), ProcInv(p)
    PROVE  ProcInv(p)'
<1> USE DEF OpenLock, AllRead, TypeOK, ProcInv
<1>1. pc'[p] = "write" /\ lock' = Empty
  OBVIOUS
<1>2. WriterReady(p)'
  BY DEF ScanProgress, WriterReady
<1>3. HistoryCurrent(p)' /\ ScanProgress(p)' /\ HasTable(p)' /\ OwnedLock(p)' /\ Verdicts(p)'
  BY <1>1 DEF HistoryCurrent, ScanProgress, HasTable, OwnedLock, Verdicts, Active, Running
<1> QED
  BY <1>2, <1>3

(* An owner writes into the file it has truncated itself.                   *)
LEMMA WriteLockKeepsInv ==
    ASSUME TypeOK, NEW p \in Procs, WriteLock(p), ProcInv(p)
    PROVE  ProcInv(p)'
<1> USE DEF WriteLock, End, TypeOK, ProcInv
<1>1. pc'[p] = "ok" /\ cmd'[p] = "lock" /\ cmd[p] = "lock" /\ seen'[p] = seen[p]
  BY DEF WriterReady
<1>2. OwnedLock(p)'
  <2>1. SUFFICES ASSUME owner' = p PROVE lock' \in Tables /\ Witnessed(p, lock)'
    BY <1>1 DEF OwnedLock
  <2>2. owner = p
    BY <2>1, LockAssumption DEF OwnerAfterWrite
  <2>3. lock' = AsTable(digests[p])
    BY <2>2 DEF OwnedLock, Overwrite
  <2>4. \A f \in Locked : digests[p][f] \in seen[p][f]
    BY DEF WriterReady
  <2> QED
    BY <1>1, <2>3, <2>4, AsTableType DEF Witnessed
<1>3. HistoryCurrent(p)' /\ ScanProgress(p)' /\ HasTable(p)' /\ WriterReady(p)' /\ Verdicts(p)'
  BY <1>1 DEF HistoryCurrent, ScanProgress, HasTable, WriterReady, Verdicts, Active, Running,
              Verifiers
<1> QED
  BY <1>2, <1>3

(* A document that reaches no path changes nothing but its process.         *)
LEMMA WriteOrphanKeepsInv ==
    ASSUME TypeOK, NEW p \in Procs, WriteOrphan(p), ProcInv(p)
    PROVE  ProcInv(p)'
<1> USE DEF WriteOrphan, End, disk, TypeOK, ProcInv
<1>1. pc'[p] = "ok" /\ cmd'[p] = "lock" /\ owner' = owner /\ owner # p
  BY DEF WriterReady, OwnedLock
<1> QED
  BY <1>1 DEF HistoryCurrent, ScanProgress, HasTable, WriterReady, OwnedLock, Verdicts,
              Active, Running, Verifiers

(* The verdict: every path is settled, so what the comparison finds is in   *)
(* the history, and what it does not find is too.                           *)
LEMMA CompareKeepsInv ==
    ASSUME TypeOK, NEW p \in Procs, Compare(p), ProcInv(p)
    PROVE  ProcInv(p)'
<1> USE DEF Compare, AllRead, End, disk, TypeOK, ProcInv
<1>1. /\ pc'[p] = IF Findings(p) = {} THEN "ok" ELSE "rejected"
      /\ cmd'[p] = cmd[p] /\ pinned'[p] = pinned[p] /\ seen'[p] = seen[p]
      /\ owner' = owner
  OBVIOUS
<1>2. pinned[p] \in Tables /\ pinned[p] # NoTable
  BY DEF HasTable
<1>3. \A f \in Locked : digests[p][f] \in seen[p][f]
  BY DEF ScanProgress
<1>4. (Findings(p) = {}) <=> (CheckLockErrors(digests[p], pinned[p]) = {})
  BY <1>2, ChecksEquivalent DEF Findings
<1>5. ASSUME pc'[p] = "ok" PROVE Witnessed(p, pinned[p])
  <2>1. CheckLockErrors(digests[p], pinned[p]) = {}
    BY <1>1, <1>4, <1>5
  <2> QED
    BY <1>2, <1>3, <2>1, NoFindings DEF Witnessed
<1>6. ASSUME pc'[p] = "rejected", PinnedEphemeral(pinned[p]) = {}
      PROVE  \E f \in Locked : seen[p][f] # {pinned[p][f]}
  <2>1. CheckLockErrors(digests[p], pinned[p]) # {}
    BY <1>1, <1>4, <1>6
  <2>2. PICK f \in Locked : pinned[p][f] # digests[p][f]
    BY <1>2, <1>6, <2>1, FindingsHaveCause
  <2> QED
    BY <1>3, <2>2
<1>7. Verdicts(p)'
  BY <1>1, <1>2, <1>5, <1>6 DEF Verdicts, Witnessed
<1>8. HistoryCurrent(p)' /\ ScanProgress(p)' /\ HasTable(p)' /\ WriterReady(p)' /\ OwnedLock(p)'
  BY <1>1 DEF HistoryCurrent, ScanProgress, HasTable, WriterReady, OwnedLock, Active, Running,
              Verifiers
<1> QED
  BY <1>7, <1>8

(* A killed command leaves nothing behind that the invariant speaks of.     *)
LEMMA CrashKeepsInv ==
    ASSUME TypeOK, NEW p \in Procs, Crash(p), ProcInv(p)
    PROVE  ProcInv(p)'
<1>1. pc'[p] = "idle"
  BY DEF Crash, TypeOK
<1> QED
  BY <1>1 DEF ProcInv, HistoryCurrent, ScanProgress, HasTable, WriterReady, OwnedLock, Verdicts,
              Active, Running

(* A step of one process does not disturb the others.                       *)
LEMMA OthersUndisturbed ==
    ASSUME TypeOK, NEW p \in Procs, NEW q \in Procs, q # p,
           Start(p) \/ Step(p) \/ Crash(p)
    PROVE  Undisturbed(q)
<1> USE DEF TypeOK, Undisturbed, disk
<1>1. ASSUME Start(p) PROVE Undisturbed(q)
  BY <1>1 DEF Start, StartLock, StartVerify, RejectUnreadable, BeginScan, Begin
<1>2. ASSUME NEW f \in Locked, List(p, f) \/ ReadFile(p, f) \/ ReadVanished(p, f)
      PROVE  Undisturbed(q)
  BY <1>2 DEF List, ReadFile, ReadVanished, End
<1>3. ASSUME OpenLock(p) PROVE Undisturbed(q)
  BY <1>3 DEF OpenLock
<1>4. ASSUME WriteLock(p) PROVE Undisturbed(q)
  BY <1>4, LockAssumption DEF WriteLock, End, OwnerAfterWrite
<1>5. ASSUME WriteOrphan(p) \/ Compare(p) PROVE Undisturbed(q)
  BY <1>5 DEF WriteOrphan, Compare, End
<1>6. ASSUME Crash(p) PROVE Undisturbed(q)
  BY <1>6, LockAssumption DEF Crash
<1> QED
  BY <1>1, <1>2, <1>3, <1>4, <1>5, <1>6 DEF Step

(* A step of a process keeps its own part of the invariant.                 *)
LEMMA OwnStepKeepsInv ==
    ASSUME TypeOK, NEW p \in Procs, ProcInv(p), Start(p) \/ Step(p) \/ Crash(p)
    PROVE  ProcInv(p)'
<1>1. ASSUME StartLock(p) PROVE ProcInv(p)'
  BY <1>1, BeginScanKeepsInv DEF StartLock, Commands, Verifiers
<1>2. ASSUME NEW c \in Verifiers, StartVerify(p, c) PROVE ProcInv(p)'
  BY <1>2, BeginScanKeepsInv, LockAssumption DEF StartVerify, Commands
<1>3. ASSUME NEW c \in Verifiers, RejectUnreadable(p, c) PROVE ProcInv(p)'
  BY <1>3, RejectUnreadableKeepsInv
<1>4. ASSUME Step(p) PROVE ProcInv(p)'
  BY <1>4, ListKeepsInv, ReadFileKeepsInv, ReadVanishedKeepsInv, OpenLockKeepsInv,
     WriteLockKeepsInv, WriteOrphanKeepsInv, CompareKeepsInv DEF Step
<1>5. ASSUME Crash(p) PROVE ProcInv(p)'
  BY <1>5, CrashKeepsInv
<1> QED
  BY <1>1, <1>2, <1>3, <1>4, <1>5 DEF Start

(* Nor does the inductive invariant.                                        *)
LEMMA InvarianceUnfair == Init /\ [][Next]_vars => []IInv
<1>1. Init => \A p \in Procs : ProcInv(p)
  BY LockAssumption DEF Init, ProcInv, HistoryCurrent, ScanProgress, HasTable, WriterReady,
     OwnedLock, Verdicts, Active, Running
<1>2. TypeOK /\ (\A p \in Procs : ProcInv(p)) /\ [Next]_vars => (\A p \in Procs : ProcInv(p))'
  <2> SUFFICES ASSUME TypeOK, \A p \in Procs : ProcInv(p), [Next]_vars, NEW q \in Procs
               PROVE  ProcInv(q)'
    OBVIOUS
  <2>1. CASE Author
    BY <2>1, EditKeepsInv, ReplaceLockKeepsInv DEF Author
  <2>2. ASSUME NEW p \in Procs, Start(p) \/ Step(p) \/ Crash(p) PROVE ProcInv(q)'
    <3>1. CASE p = q
      BY <2>2, <3>1, OwnStepKeepsInv
    <3>2. CASE p # q
      BY <2>2, <3>2, OthersUndisturbed, UndisturbedKeepsInv
    <3> QED
      BY <3>1, <3>2
  <2>3. CASE UNCHANGED vars
    <3>1. Undisturbed(q)
      BY <2>3 DEF vars, Undisturbed
    <3> QED
      BY <3>1, UndisturbedKeepsInv
  <2> QED
    BY <2>1, <2>2, <2>3 DEF Next
<1> QED
  BY <1>1, <1>2, TypeInvariance, PTL DEF IInv

(* The inductive invariant holds in every reachable state.                  *)
THEOREM Invariance == Spec => []IInv
  BY InvarianceUnfair, PTL DEF Spec

----------------------------------------------------------------------------
(* What the commands promise, for every number of processes and paths.      *)

(* verify-lock and validate accept a lock only if every path agreed with it *)
(* at some instant of the command.                                          *)
THEOREM AcceptanceIsSound == Spec => []AcceptanceSound
<1>1. IInv => AcceptanceSound
  BY DEF IInv, ProcInv, Verdicts, AcceptanceSound
<1> QED
  BY <1>1, Invariance, PTL

(* They reject a readable lock only if some path disagreed with it at some  *)
(* instant, or if it pins an ephemeral path.                                *)
THEOREM RejectionIsJustified == Spec => []RejectionJustified
<1>1. IInv => RejectionJustified
  BY DEF IInv, ProcInv, Verdicts, RejectionJustified
<1> QED
  BY <1>1, Invariance, PTL

LEMMA ErrorIsRace == IInv => ErrorOnlyOnRace
  BY DEF IInv, ProcInv, Verdicts, ErrorOnlyOnRace

(* A command fails with an exception only when a file was removed under it. *)
THEOREM ErrorsAreRaces == Spec => []ErrorOnlyOnRace
  BY ErrorIsRace, Invariance, PTL

(* A lock written without interference is one document that pins what its   *)
(* writer saw, whatever other lock commands did before.                     *)
THEOREM LockPinsWhatItsRunSaw == Spec => []LockPinsItsRun
<1>1. IInv => LockPinsItsRun
  BY DEF IInv, ProcInv, OwnedLock, LockPinsItsRun
<1> QED
  BY <1>1, Invariance, PTL

----------------------------------------------------------------------------
(* No command starts over.                                                  *)

(* What a command has left to do depends on its own state only.             *)
LEMMA SameTodo ==
    ASSUME NEW p \in Procs,
           unlisted'[p] = unlisted[p], listed'[p] = listed[p],
           pc'[p] = pc[p] \/ (pc[p] = "write" /\ pc'[p] = "orphan")
    PROVE  Todo(p)' = Todo(p)
<1>1. Active(p)' <=> Active(p)
  BY DEF Active, Running
<1>2. (pc[p] = "scan")' <=> pc[p] = "scan"
  OBVIOUS
<1> QED
  BY <1>1, <1>2, Zenon DEF Todo

(* A command with nothing left has ended.                                   *)
LEMMA EndedTodo ==
    ASSUME NEW p \in Procs, unlisted[p] = {}, listed[p] = {}, ~Active(p)
    PROVE  Todo(p) = {}
  BY DEF Todo, Active, Running

(* A step of a command ticks something off and adds nothing.                *)
LEMMA StepShrinksTodo ==
    ASSUME TypeOK, NEW p \in Procs, Active(p), Step(p)
    PROVE  Todo(p)' \subseteq Todo(p) /\ Todo(p)' # Todo(p)
<1> USE DEF TypeOK
<1>1. <<"finish", p>> \in Todo(p)
  BY DEF Todo
<1>2. ASSUME NEW how \in Ended, End(p, how)
      PROVE  Todo(p)' \subseteq Todo(p) /\ Todo(p)' # Todo(p)
  <2>1. unlisted'[p] = {} /\ listed'[p] = {} /\ ~Active(p)'
    BY <1>2 DEF End, Active, Running, Ended
  <2>2. Todo(p)' = {}
    BY <2>1 DEF Todo, Active, Running
  <2> QED
    BY <1>1, <2>2
<1>3. ASSUME NEW f \in Locked, List(p, f)
      PROVE  Todo(p)' \subseteq Todo(p) /\ Todo(p)' # Todo(p)
  <2>1. /\ unlisted'[p] = unlisted[p] \ {f} /\ listed'[p] \subseteq listed[p] \cup {f}
        /\ pc' = pc /\ f \in unlisted[p] /\ pc[p] = "scan"
    BY <1>3 DEF List
  <2>2. unlisted'[p] \subseteq unlisted[p]
        /\ unlisted'[p] \cup listed'[p] \subseteq unlisted[p] \cup listed[p]
    BY <2>1
  <2>3. Todo(p)' \subseteq Todo(p)
    BY <2>1, <2>2 DEF Todo, Active
  <2>4. <<"list", f>> \in Todo(p)
    BY <2>1 DEF Todo
  <2>5. <<"list", f>> \notin Todo(p)'
    BY <2>1 DEF Todo
  <2> QED
    BY <2>3, <2>4, <2>5
<1>4. ASSUME NEW f \in Locked, ReadFile(p, f)
      PROVE  Todo(p)' \subseteq Todo(p) /\ Todo(p)' # Todo(p)
  <2>1. /\ unlisted' = unlisted /\ unlisted[p] = {} /\ listed'[p] = listed[p] \ {f}
        /\ f \in listed[p] /\ pc' = pc
    BY <1>4 DEF ReadFile, Readable
  <2>2. Todo(p)' \subseteq Todo(p)
    BY <2>1 DEF Todo, Active
  <2>3. <<"read", f>> \in Todo(p)
    BY <2>1 DEF Todo
  <2>4. <<"read", f>> \notin Todo(p)'
    BY <2>1 DEF Todo
  <2> QED
    BY <2>2, <2>3, <2>4
<1>5. ASSUME OpenLock(p)
      PROVE  Todo(p)' \subseteq Todo(p) /\ Todo(p)' # Todo(p)
  <2>1. /\ unlisted' = unlisted /\ listed' = listed
        /\ pc[p] = "scan" /\ pc'[p] = "write"
    BY <1>5 DEF OpenLock, AllRead
  <2>2. Todo(p)' \subseteq Todo(p)
    BY <2>1, <1>1 DEF Todo
  <2>3. <<"open", p>> \in Todo(p)
    BY <2>1 DEF Todo
  <2>4. <<"open", p>> \notin Todo(p)'
    BY <2>1 DEF Todo
  <2> QED
    BY <2>2, <2>3, <2>4
<1>6. \A how \in {"ok", "rejected", "error"} : how \in Ended
  BY DEF Ended
<1> QED
  BY <1>2, <1>3, <1>4, <1>5, <1>6 DEF Step, ReadVanished, WriteLock, WriteOrphan, Compare

(* This needs no fairness, so it holds in every composition as well.        *)
LEMMA NeverStartsOverUnfair == Init /\ [][Next]_vars => NeverStartsOver
<1> DEFINE Shrinks(p) == Active(p) => /\ Todo(p)' \subseteq Todo(p)
                                      /\ Step(p) => Todo(p)' # Todo(p)
<1>1. ASSUME TypeOK, [Next]_vars, ~UNCHANGED vars, NEW q \in Procs, Active(q)
      PROVE  Shrinks(q)
  <2> USE DEF TypeOK
  <2>1. ASSUME Step(q) PROVE Shrinks(q)
    BY <1>1, <2>1, StepShrinksTodo
  <2>2. ASSUME ~Step(q), Todo(q)' = Todo(q) \/ Todo(q)' = {} PROVE Shrinks(q)
    BY <2>2
  <2>3. ASSUME ~Step(q), NEW f \in Locked, NEW c \in Bytes, Edit(f, c) PROVE Shrinks(q)
    BY <2>2, <2>3, SameTodo DEF Edit, local
  <2>4. ASSUME ~Step(q), NEW v \in StrayTables \cup {NoFile}, ReplaceLock(v) PROVE Shrinks(q)
    BY <2>2, <2>4, SameTodo DEF ReplaceLock
  <2>5. ASSUME ~Step(q), NEW p \in Procs, p # q, Start(p) \/ Step(p) \/ Crash(p)
        PROVE  Shrinks(q)
    <3>1. Undisturbed(q)
      BY <1>1, <2>5, OthersUndisturbed
    <3> QED
      BY <2>2, <2>5, <3>1, SameTodo DEF Undisturbed
  <2>6. ~Start(q)
    BY <1>1 DEF Start, StartLock, StartVerify, RejectUnreadable, BeginScan, Begin
  <2>7. ASSUME ~Step(q), Crash(q) PROVE Shrinks(q)
    <3>1. unlisted'[q] = {} /\ listed'[q] = {} /\ pc'[q] = "idle"
      BY <1>1, <2>7 DEF Crash
    <3>2. Todo(q)' = {}
      BY <3>1 DEF Todo, Active, Running
    <3> QED
      BY <2>2, <2>7, <3>2
  <2> QED
    BY <1>1, <2>1, <2>3, <2>4, <2>5, <2>6, <2>7 DEF Next, Author
<1>2. ASSUME TypeOK, [Next]_vars PROVE [\A p \in Procs : Shrinks(p)]_vars
  BY <1>1, <1>2
<1> QED
  BY <1>2, TypeInvariance, PTL DEF NeverStartsOver

(* Whatever the author and the other commands do, a command that has        *)
(* started never gets more to do, and each of its own steps leaves less:    *)
(* that it ends needs nothing more than that it is scheduled.               *)
THEOREM CommandsNeverStartOver == Spec => NeverStartsOver
  BY NeverStartsOverUnfair, PTL DEF Spec
----------------------------------------------------------------------------
(* The contract.                                                            *)

(* The contract speaks of the same tables and documents.                    *)
LEMMA SameTree ==
    /\ Promised!Tables = Tables /\ Promised!Bytes = Bytes
    /\ \A d : Promised!AsTable(d) = AsTable(d)
    /\ \A old, new : Promised!Overwrite(old, new) = Overwrite(old, new)
  BY DEF Promised!Tables, Promised!Bytes, Promised!Paths, Promised!AsTable, Promised!Overwrite,
         Promised!Keys, Tables, Bytes, Paths, AsTable, Overwrite, Keys

LEMMA SameActive == \A p : Promised!Active(p) <=> Active(p)
  BY DEF Promised!Active, Active, Running

(* What the contract sees of a command in each of its phases.               *)
LEMMA SawOf ==
    ASSUME TypeOK, NEW p \in Procs
    PROVE  /\ pc[p] = "scan" => Saw[p] = [f \in Locked \ (unlisted[p] \cup listed[p])
                                            |-> digests[p][f]]
           /\ pc[p] \in {"write", "orphan"} \/ AllRead(p) => Saw[p] = digests[p]
           /\ ~Active(p) => Saw[p] = Promised!Nothing
<1>1. digests[p] = [f \in Locked |-> digests[p][f]]
  BY DEF TypeOK, Digests
<1>2. ASSUME pc[p] = "scan"
      PROVE  Saw[p] = [f \in Locked \ (unlisted[p] \cup listed[p]) |-> digests[p][f]]
  BY <1>2 DEF Saw
<1>3. ASSUME pc[p] \in {"write", "orphan"} PROVE Saw[p] = digests[p]
  BY <1>1, <1>3 DEF Saw, Active, Running
<1>4. ASSUME AllRead(p) PROVE Saw[p] = digests[p]
  <2>1. Locked \ (unlisted[p] \cup listed[p]) = Locked /\ pc[p] = "scan"
    BY <1>4 DEF AllRead
  <2> QED
    BY <1>1, <1>2, <2>1
<1>5. ASSUME ~Active(p) PROVE Saw[p] = Promised!Nothing
  <2>1. pc[p] # "scan"
    BY <1>5 DEF Active, Running
  <2>2. Saw[p] = [f \in {} |-> digests[p][f]]
    BY <1>5, <2>1 DEF Saw
  <2> QED
    BY <2>2 DEF Promised!Nothing
<1> QED
  BY <1>2, <1>3, <1>4, <1>5

(* A step of one process changes nothing in what the others have seen.      *)
LEMMA SawStep ==
    ASSUME TypeOK, NEW p \in Procs, Start(p) \/ Step(p) \/ Crash(p)
    PROVE  Saw' = [Saw EXCEPT ![p] = Saw'[p]]
<1>1. ASSUME NEW q \in Procs, q # p PROVE Saw'[q] = Saw[q]
  <2>1. Undisturbed(q)
    BY <1>1, OthersUndisturbed
  <2> QED
    BY <2>1 DEF Saw, Undisturbed, Active
<1>2. DOMAIN Saw = Procs /\ DOMAIN Saw' = Procs
  BY DEF Saw
<1>3. Saw = [q \in Procs |-> Saw[q]] /\ Saw' = [q \in Procs |-> Saw'[q]]
  BY DEF Saw
<1> HIDE DEF Saw
<1> QED
  BY <1>1, <1>2, <1>3

(* Who is about to read, and who has ended, has seen nothing.               *)
LEMMA SawNothing ==
    ASSUME NEW p \in Procs, ~Active(p)' \/ (pc'[p] = "scan" /\ unlisted'[p] = Locked)
    PROVE  Saw'[p] = Promised!Nothing
<1>1. Saw'[p] = [f \in {} |-> digests'[p][f]]
  <2>1. CASE ~Active(p)'
    BY <2>1 DEF Saw, Active, Running
  <2>2. CASE pc'[p] = "scan" /\ unlisted'[p] = Locked
    <3>1. Locked \ (unlisted'[p] \cup listed'[p]) = {}
      BY <2>2
    <3> QED
      BY <2>2, <3>1 DEF Saw
  <2> QED
    BY <2>1, <2>2
<1> QED
  BY <1>1 DEF Promised!Nothing

(* The end of a command is its end in the contract.                         *)
LEMMA EndIsEnd ==
    ASSUME TypeOK, NEW p \in Procs, Step(p), NEW how \in Ended, End(p, how), UNCHANGED files
    PROVE  Promised!End(p, how)
<1>1. ~Active(p)'
  BY DEF End, TypeOK, Active, Running, Ended
<1>2. Saw' = [Saw EXCEPT ![p] = Promised!Nothing]
  BY <1>1, SawNothing, SawStep
<1> QED
  BY <1>2 DEF End, Promised!End

(* A command begins in the contract when it begins.                         *)
LEMMA StartIsStart ==
    ASSUME TypeOK, NEW p \in Procs, Start(p)
    PROVE  Promised!Start(p)
<1> USE DEF TypeOK, disk
<1>1. ASSUME NEW c, NEW t, NEW where \in {"scan", "rejected"}, Begin(p, c, t),
             pc' = [pc EXCEPT ![p] = where],
             where = "scan" => unlisted'[p] = Locked
      PROVE  Promised!Begin(p, t, where)
  <2>1. ~Active(p)' \/ (pc'[p] = "scan" /\ unlisted'[p] = Locked)
    BY <1>1 DEF Active, Running
  <2>2. Saw' = [Saw EXCEPT ![p] = Promised!Nothing]
    BY <2>1, SawNothing, SawStep
  <2> QED
    BY <1>1, <2>2, SameActive DEF Begin, Promised!Begin
<1>2. ASSUME NEW c, NEW t, BeginScan(p, c, t) PROVE Promised!Begin(p, t, "scan")
  BY <1>1, <1>2 DEF BeginScan
<1>3. ASSUME NEW c, RejectUnreadable(p, c) PROVE Promised!Begin(p, NoTable, "rejected")
  BY <1>1, <1>3 DEF RejectUnreadable
<1> QED
  BY <1>2, <1>3, SameTree
  DEF Start, StartLock, StartVerify, RejectUnreadable, Promised!Start

(* A path that is listed as a file is not looked at yet ...                 *)
LEMMA ListIsLook ==
    ASSUME TypeOK, NEW p \in Procs, ScanProgress(p), NEW f \in Locked, List(p, f)
    PROVE  Promised!Look(p, f) \/ UNCHANGED Promised!vars
<1> USE DEF TypeOK, disk
<1>1. /\ pc[p] = "scan" /\ pc' = pc /\ digests' = digests /\ pinned' = pinned
      /\ files' = files /\ lock' = lock /\ f \in unlisted[p]
      /\ unlisted'[p] = unlisted[p] \ {f}
      /\ listed'[p] = IF files[f] = NoFile THEN listed[p] ELSE listed[p] \cup {f}
  BY DEF List
<1>2. digests[p][f] = NoFile
  BY <1>1 DEF ScanProgress
<1>3. Saw[p] = [g \in Locked \ (unlisted[p] \cup listed[p]) |-> digests[p][g]]
  BY <1>1 DEF Saw
<1>4. Saw'[p] = [g \in Locked \ (unlisted'[p] \cup listed'[p]) |-> digests[p][g]]
  BY <1>1 DEF Saw
<1>5. Saw' = [Saw EXCEPT ![p] = Saw'[p]]
  BY SawStep DEF Step
<1>6. ASSUME files[f] # NoFile \/ f \in listed[p] PROVE UNCHANGED Promised!vars
  <2>1. unlisted'[p] \cup listed'[p] = unlisted[p] \cup listed[p]
    BY <1>1, <1>6
  <2>2. Saw'[p] = Saw[p]
    BY <1>3, <1>4, <2>1
  <2>3. Saw' = Saw
    BY <1>5, <2>2 DEF Saw
  <2> QED
    BY <1>1, <2>3 DEF Promised!vars
<1>7. ASSUME files[f] = NoFile, f \notin listed[p] PROVE Promised!Look(p, f)
  <2>1. Locked \ (unlisted'[p] \cup listed'[p]) = (Locked \ (unlisted[p] \cup listed[p])) \cup {f}
    BY <1>1, <1>7
  <2>2. Saw'[p] = [g \in DOMAIN Saw[p] \cup {f} |-> IF g = f THEN files[f] ELSE Saw[p][g]]
    BY <1>2, <1>3, <1>4, <1>7, <2>1
  <2>3. f \notin DOMAIN Saw[p]
    BY <1>1, <1>3
  <2> QED
    BY <1>1, <1>5, <2>2, <2>3 DEF Promised!Look
<1> QED
  BY <1>6, <1>7

(* ... but when it is read.                                                 *)
LEMMA ReadIsLook ==
    ASSUME TypeOK, NEW p \in Procs, NEW f \in Locked, ReadFile(p, f)
    PROVE  Promised!Look(p, f)
<1> USE DEF TypeOK, disk
<1>1. /\ pc[p] = "scan" /\ pc' = pc /\ pinned' = pinned
      /\ files' = files /\ lock' = lock /\ f \in listed[p]
      /\ unlisted' = unlisted /\ unlisted[p] = {} /\ listed'[p] = listed[p] \ {f}
      /\ digests'[p] = [digests[p] EXCEPT ![f] = files[f]]
  BY DEF ReadFile, Readable
<1>2. Saw[p] = [g \in Locked \ listed[p] |-> digests[p][g]]
  BY <1>1 DEF Saw
<1>3. Saw'[p] = [g \in Locked \ listed'[p] |-> digests'[p][g]]
  BY <1>1 DEF Saw
<1>4. Locked \ listed'[p] = (Locked \ listed[p]) \cup {f}
  BY <1>1
<1>5. \A g \in Locked : digests'[p][g] = IF g = f THEN files[f] ELSE digests[p][g]
  BY <1>1 DEF Digests
<1>6. Saw'[p] = [g \in DOMAIN Saw[p] \cup {f} |-> IF g = f THEN files[f] ELSE Saw[p][g]]
  BY <1>2, <1>3, <1>4, <1>5
<1>7. Saw' = [Saw EXCEPT ![p] = Saw'[p]]
  BY SawStep DEF Step
<1>8. f \notin DOMAIN Saw[p]
  BY <1>1, <1>2
<1> QED
  BY <1>1, <1>6, <1>7, <1>8 DEF Promised!Look

(* The steps after the last look.                                           *)
LEMMA LateStepIsPromised ==
    ASSUME TypeOK, NEW p \in Procs, HasTable(p),
           OpenLock(p) \/ WriteLock(p) \/ WriteOrphan(p) \/ Compare(p)
    PROVE  Promised!Open(p) \/ Promised!Publish(p) \/ Promised!PublishNowhere(p) \/ Promised!Judge(p)
<1> USE DEF TypeOK, disk
<1>0. Step(p)
  BY DEF Step
<1>1. ASSUME AllRead(p) PROVE Promised!SawAll(p) /\ Saw[p] = digests[p]
  <2>1. Saw[p] = digests[p]
    BY <1>1, SawOf
  <2> QED
    BY <1>1, <2>1 DEF Promised!SawAll, AllRead, Digests
<1>2. ASSUME OpenLock(p) PROVE Promised!Open(p)
  <2>1. AllRead(p) /\ cmd[p] = "lock" /\ pc[p] = "scan" /\ pc'[p] = "write"
    BY <1>2 DEF OpenLock, AllRead
  <2>2. pinned[p] = NoTable
    BY <2>1 DEF HasTable, Verifiers
  <2>3. Saw'[p] = Saw[p]
    <3>1. Saw'[p] = [f \in Locked |-> digests[p][f]]
      BY <1>2, <2>1 DEF OpenLock, Saw, Active, Running
    <3> QED
      BY <1>1, <2>1, <3>1 DEF Digests
  <2>4. Saw' = Saw
    BY <1>0, <2>3, SawStep DEF Saw
  <2> QED
    BY <1>1, <1>2, <2>1, <2>2, <2>4 DEF OpenLock, Promised!Open
<1>3. ASSUME WriteLock(p) PROVE Promised!Publish(p)
  <2>1. Promised!End(p, "ok")
    BY <1>0, <1>3, EndIsEnd DEF WriteLock, Ended
  <2>2. Saw[p] = digests[p]
    BY <1>3, SawOf DEF WriteLock
  <2> QED
    BY <1>3, <2>1, <2>2, SameTree DEF WriteLock, Promised!Publish
<1>4. ASSUME WriteOrphan(p) PROVE Promised!PublishNowhere(p)
  <2>1. Promised!End(p, "ok")
    BY <1>0, <1>4, EndIsEnd DEF WriteOrphan, Ended
  <2> QED
    BY <1>4, <2>1 DEF WriteOrphan, Promised!PublishNowhere
<1>5. ASSUME Compare(p) PROVE Promised!Judge(p)
  <2>1. AllRead(p) /\ cmd[p] \in Verifiers /\ pc[p] = "scan"
    BY <1>5 DEF Compare, AllRead
  <2>2. pinned[p] # NoTable /\ pinned[p] \in Tables
    BY <2>1 DEF HasTable
  <2>3. (Findings(p) = {}) <=> (pinned[p] = AsTable(digests[p]))
    BY <2>2, ChecksEquivalent, CleanIsDocument DEF Findings
  <2>4. End(p, IF pinned[p] = AsTable(digests[p]) THEN "ok" ELSE "rejected")
    BY <1>5, <2>3 DEF Compare
  <2>5. Promised!End(p, IF pinned[p] = AsTable(digests[p]) THEN "ok" ELSE "rejected")
    BY <1>0, <1>5, <2>4, EndIsEnd DEF Compare, Ended
  <2> QED
    BY <1>1, <1>5, <2>1, <2>2, <2>5, SameTree DEF Compare, Promised!Judge
<1> QED
  BY <1>2, <1>3, <1>4, <1>5

(* A kill is a kill.                                                        *)
LEMMA CrashIsCrash ==
    ASSUME TypeOK, NEW p \in Procs, Crash(p)
    PROVE  Promised!Crash(p)
<1>1. pc'[p] = "idle"
  BY DEF Crash, TypeOK
<1>2. Saw' = [Saw EXCEPT ![p] = Promised!Nothing]
  BY <1>1, SawNothing, SawStep DEF Active, Running
<1> QED
  BY <1>2, SameActive DEF Crash, Promised!Crash

(* Initial states map to initial states, steps to steps or stutters.        *)
LEMMA RefinementUnfair == Init /\ [][Next]_vars => ImplementsContract
<1>1. Init => Promised!Init
  <2> SUFFICES ASSUME Init PROVE Promised!Init
    OBVIOUS
  <2>1. \A p \in Procs : Saw[p] = Promised!Nothing
    BY DEF Init, Saw, Promised!Nothing, Active, Running
  <2>2. Saw = [p \in Procs |-> Promised!Nothing]
    BY <2>1 DEF Saw
  <2> QED
    BY <2>2, SameTree DEF Init, Promised!Init
<1>2. ASSUME IInv, [Next]_vars PROVE [Promised!Next]_(Promised!vars)
  <2> USE <1>2 DEF IInv
  <2>1. ASSUME NEW f \in Locked, NEW c \in Bytes, Edit(f, c) PROVE Promised!Next
    <3>1. Saw' = Saw
      BY <2>1 DEF Edit, local, Saw, Active
    <3>2. Promised!Edit(f, c)
      BY <2>1, <3>1 DEF Edit, local, Promised!Edit
    <3> QED
      BY <2>1, <3>2, SameTree DEF Promised!Next
  <2>2. ASSUME NEW v \in StrayTables \cup {NoFile}, ReplaceLock(v) PROVE Promised!Next
    <3>1. \A p \in Procs : Saw'[p] = Saw[p]
      BY <2>2 DEF ReplaceLock, Saw, Active, Running
    <3>2. Saw' = Saw
      BY <3>1 DEF Saw
    <3>3. Promised!ReplaceLock(v)
      BY <2>2, <3>2 DEF ReplaceLock, Promised!ReplaceLock
    <3> QED
      BY <2>2, <3>3 DEF Promised!Next
  <2>3. ASSUME NEW p \in Procs, Start(p) PROVE Promised!Next
    BY <2>3, StartIsStart DEF Promised!Next
  <2>4. ASSUME NEW p \in Procs, NEW f \in Locked, List(p, f)
        PROVE  Promised!Next \/ UNCHANGED Promised!vars
    BY <2>4, ListIsLook DEF Promised!Next, ProcInv
  <2>5. ASSUME NEW p \in Procs, NEW f \in Locked, ReadFile(p, f) PROVE Promised!Next
    BY <2>5, ReadIsLook DEF Promised!Next
  <2>6. ASSUME NEW p \in Procs, NEW f \in Locked, ReadVanished(p, f) PROVE Promised!Next
    <3>1. Promised!End(p, "error")
      BY <2>6, EndIsEnd DEF ReadVanished, Step, Ended, disk
    <3>2. pc[p] = "scan" /\ f \in listed[p] /\ files[f] = NoFile
      BY <2>6 DEF ReadVanished, Readable
    <3>3. f \notin DOMAIN Saw[p]
      BY <3>2 DEF Saw
    <3>4. Promised!GiveUp(p, f)
      BY <2>6, <3>1, <3>2, <3>3 DEF ReadVanished, disk, Promised!GiveUp
    <3> QED
      BY <3>4 DEF Promised!Next
  <2>7. ASSUME NEW p \in Procs, OpenLock(p) \/ WriteLock(p) \/ WriteOrphan(p) \/ Compare(p)
        PROVE  Promised!Next
    BY <2>7, LateStepIsPromised DEF Promised!Next, ProcInv
  <2>8. ASSUME NEW p \in Procs, Crash(p) PROVE Promised!Next
    BY <2>8, CrashIsCrash DEF Promised!Next
  <2>9. CASE UNCHANGED vars
    <3>1. Saw' = Saw
      BY <2>9 DEF vars, Saw, Active
    <3> QED
      BY <2>9, <3>1 DEF vars, Promised!vars
  <2> QED
    BY <2>1, <2>2, <2>3, <2>4, <2>5, <2>6, <2>7, <2>8, <2>9 DEF Next, Author, Step
<1> QED
  BY <1>1, <1>2, InvarianceUnfair, PTL DEF ImplementsContract, Promised!Spec

(* Every command looks at every path once, and its verdict or its document  *)
(* follows from what it saw: the listing, the second look at read time and  *)
(* the two ways to compare are invisible.                                   *)
THEOREM LockRefinement == Spec => ImplementsContract
  BY RefinementUnfair, PTL DEF Spec
============================================================================
