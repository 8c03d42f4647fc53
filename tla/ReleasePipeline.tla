-------------------------- MODULE ReleasePipeline --------------------------
(***************************************************************************)
(* A release: `sabi lock`, `sabi certify`, `sabi verify-lock` and          *)
(* `sabi verify-certificate` run one after the other on one skill          *)
(* directory, each only if the one before it exited with 0, while the      *)
(* author may go on editing files.  The commands are those of SkillLock    *)
(* and SkillCertify; what is new here is only the order of the commands.   *)
(***************************************************************************)
EXTENDS SkillLock, Naturals

CONSTANTS
    Engineer,   \* the process that runs the release
    SkillMd, Abi, Invariants, Effects, Degradation, Bindings, Schemas, Broken,
    Cases, CoverCases, Profiled, Own, Listed, Passes(_, _, _), NoCert, Missing,
    Initial,    \* what each file can hold at first
    Choices,    \* what the author can make of it
    MaxEdits    \* bound on the edits during a release

VARIABLES
    cert, cpc, unbound, profile, untried, trying, unread, held, pins, draft,
    basis, vpc, subject, objection, vseen, changes,
    stage,      \* the command the release is at
    restored    \* history: the files somebody has given the pinned content
                \* back, after `sabi lock` had pinned it

Certify == INSTANCE SkillCertify
    WITH Runtimes <- {}, EvidenceFiles <- {},
         LockChoices <- {}, MaxChanges <- MaxEdits

ASSUME ReleaseAssumption ==
    /\ Procs = {Engineer}
    /\ MaxEdits \in Nat
    /\ Certify!CertifyAssumption

certifyVars == <<cpc, unbound, profile, untried, trying, unread, held, pins, draft, basis>>
verifyVars == <<vpc, subject, objection, vseen>>
releaseVars == <<vars, cert, certifyVars, verifyVars, changes, stage, restored>>

Stages == <<"lock", "certify", "verify-lock", "verify-certificate", "released">>
Going == {Stages[i] : i \in 1..4}

ReleaseInit ==
    /\ Init
    /\ files \in {d \in [Locked -> Bytes] : \A f \in Locked : d[f] \in Initial[f]}
    /\ lock = NoFile
    /\ Certify!CertInit
    /\ changes = 0
    /\ stage = "lock"
    /\ restored = {}

----------------------------------------------------------------------------
(* The author edits contract files; nobody else touches skill.lock.         *)
AuthorEdits(f, c) ==
    /\ changes < MaxEdits
    /\ c \in Choices[f]
    /\ Edit(f, c)
    /\ restored' = IF stage # "lock" /\ lock \in Tables /\ lock[f] = c
                   THEN restored \cup {f} ELSE restored
    /\ changes' = changes + 1
    /\ Certify!VerifyNotices
    /\ UNCHANGED <<cert, certifyVars, vpc, subject, objection, stage>>

LockIdle == pc[Engineer] \notin Running
CertifyIdle == cpc \notin Certify!CertifyRunning /\ vpc \notin Certify!VerifyRunning

(* sabi lock, and later sabi verify-lock.                                   *)
RunLockCommand ==
    /\ \/ stage = "lock" /\ pc[Engineer] = "idle" /\ StartLock(Engineer)
       \/ /\ stage = "verify-lock" /\ cmd[Engineer] = "lock"
          /\ StartVerify(Engineer, "verify_lock")
       \/ Step(Engineer)
    /\ UNCHANGED <<cert, certifyVars, verifyVars, changes, stage, restored>>

(* sabi certify, and later sabi verify-certificate.                         *)
RunCertifyCommand ==
    /\ \/ stage = "certify" /\ cpc = "idle" /\ Certify!StartCertify
       \/ Certify!CertifyStep
       \/ stage = "verify-certificate" /\ vpc = "idle" /\ Certify!StartVerifyCertificate
       \/ Certify!VerifyStep
    /\ UNCHANGED <<local, seen, owner, changes, stage, restored>>

(* How the command of this stage ended.                                     *)
Exited ==
    CASE stage = "lock" -> pc[Engineer] \in Ended
      [] stage = "certify" -> CertifyIdle /\ cpc # "idle"
      [] stage = "verify-lock" -> cmd[Engineer] # "lock" /\ pc[Engineer] \in Ended
      [] stage = "verify-certificate" -> CertifyIdle /\ vpc # "idle"
      [] OTHER -> FALSE

ExitedWithZero ==
    CASE stage = "lock" -> pc[Engineer] = "ok"
      [] stage = "certify" -> cpc = "certified"
      [] stage = "verify-lock" -> pc[Engineer] = "ok"
      [] OTHER -> vpc = "valid"

NextStage == CHOOSE s \in {Stages[i] : i \in 2..5} :
                \E i \in 1..4 : Stages[i] = stage /\ Stages[i + 1] = s

Proceed ==
    /\ stage \in Going
    /\ Exited
    /\ stage' = IF ExitedWithZero THEN NextStage ELSE "stopped"
    /\ UNCHANGED <<vars, cert, certifyVars, verifyVars, changes, restored>>

ReleaseNext ==
    \/ \E f \in Locked, c \in Bytes : AuthorEdits(f, c)
    \/ RunLockCommand
    \/ RunCertifyCommand
    \/ Proceed

ReleaseSpec ==
    /\ ReleaseInit
    /\ [][ReleaseNext]_releaseVars
    /\ WF_releaseVars(RunLockCommand \/ RunCertifyCommand \/ Proceed)

----------------------------------------------------------------------------
(* What must hold.                                                          *)

Released == stage = "released"

(* What the certificate says of f is what skill.lock pins; a profile was    *)
(* evaluated if and only if it is pinned.                                   *)
Agrees(c, f) ==
    /\ f = SkillMd => c.skill_digest = lock[f]
    /\ f = Abi => c.abi_digest = lock[f]
    /\ f \in Certify!Judged => c.basis[f] \subseteq {lock[f]}
    /\ f \in Bindings => (f \in c.bound <=> lock[f] # NoFile)

(* A finished release is about one state of the skill, although no command  *)
(* ever saw it at one instant: what certify judged and what it digested is  *)
(* what skill.lock pins.  The exception is a file that was changed after    *)
(* `sabi lock` and then given the pinned content back (ABA): certify can    *)
(* have used what it held between.  One such file spoils no other.          *)
ReleaseIsConsistent ==
    Released =>
        /\ lock \in Tables /\ subject.lock_digest = lock
        /\ \A f \in Locked \ restored : Agrees(subject, f)

(* The case is true of what the lock pins.  The schemas that it should pin  *)
(* are those on disk, of which verify-lock makes sure.                      *)
HoldsOfLock(b, k) ==
    IF k \in CoverCases
    THEN \A f \in {Abi, Effects, Degradation} : lock[f] # NoFile
    ELSE Certify!Holds(k, lock[b], lock)

(* And STATIC_CONFORMANT is true of what the lock pins, as far as anything  *)
(* was evaluated: each listed case of each pinned profile passes, with the  *)
(* same exception.  certify alone loads degradation.yaml anew for each case *)
(* and can mix two versions of it; verify-lock leaves no room for that.     *)
EvaluatedReleaseConforms ==
    Released
        => /\ subject.evidence_class = "STATIC_CONFORMANT"
           /\ \A b \in Bindings :
                lock[b] # NoFile /\ {b, Invariants, Effects} \cap restored = {}
                  => \A k \in Listed[lock[Invariants]] :
                        Own[k] \cap restored = {} => HoldsOfLock(b, k)

(* The same where no profile was evaluated, for the cases that need neither *)
(* a profile nor skill.lock: verification-model.md:169-170 says that        *)
(* STATIC_CONFORMANT stands for "static invariants pass", SPEC_VALID for    *)
(* "static evaluation did not fully pass".                                  *)
StaticConformantIsTrue ==
    Released /\ subject.evidence_class = "STATIC_CONFORMANT" /\ lock[Invariants] \in Contents
        => \A k \in Listed[lock[Invariants]] \ (CoverCases \cup Profiled) :
              Certify!View(k) \cap restored = {} => Certify!Holds(k, NoFile, lock)

(* A release comes to an end: every command of it ends, and an exit code    *)
(* other than 0 stops it.                                                   *)
ReleaseEnds == <>(stage \in {"released", "stopped"})
============================================================================
