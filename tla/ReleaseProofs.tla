--------------------------- MODULE ReleaseProofs ---------------------------
(***************************************************************************)
(* A release that goes through is about one version of the skill, for any  *)
(* number of files, contents, cases and edits.                             *)
(*                                                                         *)
(* The lock pins what each file held at some instant of `sabi lock`; when  *)
(* verify-lock accepts, each file held the pinned content at some instant  *)
(* of that command too.  If it never comes back, the file held it all      *)
(* the time between, which is when certify judged and digested.  The       *)
(* invariant says this forwards and file by file: once a file has lost the *)
(* pinned content, verify-lock can not see it there any more, unless       *)
(* somebody restores it.                                                   *)
(***************************************************************************)
EXTENDS ReleasePipeline, SkillLockProofs

(* What is proved of certify and verify-certificate on their own.           *)
P == INSTANCE SkillCertifyProofs
    WITH Runtimes <- {}, EvidenceFiles <- {},
         LockChoices <- {}, MaxChanges <- MaxEdits

----------------------------------------------------------------------------
(* The commands of a release are those of SkillCertify.                     *)

(* What is assumed there of the constants.                                  *)
LEMMA Assumed == P!TreeAssumption /\ P!CertifyAssumption
<1>1. Certify!Bytes = P!Bytes /\ Certify!Judged = P!Judged /\ Certify!LockStates = P!LockStates
  BY DEF Certify!Bytes, P!Bytes, Certify!Judged, P!Judged, Certify!LockStates, P!LockStates,
         Certify!Tables, P!Tables, Certify!Paths, P!Paths
<1>2. P!CertifyAssumption
  BY <1>1, ReleaseAssumption DEF P!CertifyAssumption, Certify!CertifyAssumption
<1> QED BY <1>2, TreeAssumption DEF P!TreeAssumption

LEMMA SameTerms ==
    /\ Certify!CertifyRunning = P!CertifyRunning /\ Certify!VerifyRunning = P!VerifyRunning
    /\ Certify!Judged = P!Judged
    /\ \A k, b, v : Certify!Holds(k, b, v) = P!Holds(k, b, v)
    /\ \A k : Certify!View(k) = P!View(k)
    /\ Certify!CertInit <=> P!CertInit
    /\ Certify!VerifyNotices <=> P!VerifyNotices
    /\ Certify!GoesForward <=> P!GoesForward
<1>1. Certify!CertifyRunning = P!CertifyRunning /\ Certify!VerifyRunning = P!VerifyRunning
  BY DEF Certify!CertifyRunning, P!CertifyRunning, Certify!Evaluating, P!Evaluating,
         Certify!VerifyRunning, P!VerifyRunning
<1>2. Certify!Judged = P!Judged BY DEF Certify!Judged, P!Judged
<1>3. \A k : Certify!View(k) = P!View(k) BY DEF Certify!View, P!View
<1>4. \A k, b, v : Certify!Holds(k, b, v) = P!Holds(k, b, v)
  BY DEF Certify!Holds, P!Holds, Certify!View, P!View
<1>5. Certify!CertInit <=> P!CertInit
  BY DEF Certify!CertInit, P!CertInit, Certify!NoDraft, P!NoDraft, Certify!NoBasis, P!NoBasis,
         Certify!NothingHeld, P!NothingHeld, Certify!NoCase, P!NoCase, Certify!Judged, P!Judged
<1>6. Certify!VerifyNotices <=> P!VerifyNotices
  BY DEF Certify!VerifyNotices, P!VerifyNotices, Certify!VerifyRunning, P!VerifyRunning
<1>7. Certify!GoesForward <=> P!GoesForward
  BY <1>1 DEF Certify!GoesForward, P!GoesForward, Certify!Phase, P!Phase, Certify!PhaseOf,
         P!PhaseOf, Certify!Place, P!Place, Certify!PlaceOf, P!PlaceOf, Certify!Smaller,
         P!Smaller, Certify!Evaluating, P!Evaluating
<1> QED BY <1>1, <1>2, <1>3, <1>4, <1>5, <1>6, <1>7

LEMMA SameStarts ==
    /\ Certify!StartCertify <=> P!StartCertify
    /\ Certify!StartVerifyCertificate <=> P!StartVerifyCertificate
<1>1. Certify!StartCertify <=> P!StartCertify
  BY DEF Certify!StartCertify, P!StartCertify, Certify!CertifyRunning, P!CertifyRunning,
         Certify!Evaluating, P!Evaluating, Certify!StopEvaluating, P!StopEvaluating,
         Certify!NoBasis, P!NoBasis, Certify!NoDraft, P!NoDraft, Certify!NothingHeld,
         P!NothingHeld, Certify!NoCase, P!NoCase, Certify!Judged, P!Judged, Certify!dir, P!dir,
         Certify!verifyVars, P!verifyVars
<1>2. Certify!StartVerifyCertificate <=> P!StartVerifyCertificate
  BY DEF Certify!StartVerifyCertificate, P!StartVerifyCertificate, Certify!VerifyRunning,
         P!VerifyRunning, Certify!IsDocument, P!IsDocument, Certify!ClaimProblem,
         P!ClaimProblem, Certify!CountProblem, P!CountProblem, Certify!ReceiptsProblem,
         P!ReceiptsProblem, Certify!SignatureProblem, P!SignatureProblem, Certify!dir, P!dir,
         Certify!certifyVars, P!certifyVars, Certify!caseVars, P!caseVars
<1> QED BY <1>1, <1>2

LEMMA SameSteps ==
    ASSUME NEW b, NEW k, NEW f
    PROVE  /\ Certify!CertifyError <=> P!CertifyError
           /\ Certify!ReadDegradation <=> P!ReadDegradation
           /\ Certify!ListBindings <=> P!ListBindings
           /\ Certify!ReadBinding(b) <=> P!ReadBinding(b)
           /\ Certify!ReadInvariants <=> P!ReadInvariants
           /\ Certify!ReadEffects <=> P!ReadEffects
           /\ Certify!TryCase(k) <=> P!TryCase(k)
           /\ Certify!LookForLock(k) <=> P!LookForLock(k)
           /\ Certify!ReadOwn(f) <=> P!ReadOwn(f)
           /\ Certify!JudgeCase <=> P!JudgeCase
           /\ Certify!ReadPins <=> P!ReadPins
           /\ Certify!ListSchemas <=> P!ListSchemas
           /\ Certify!EndBinding <=> P!EndBinding
           /\ Certify!EndEvaluation <=> P!EndEvaluation
           /\ Certify!ParseAbi <=> P!ParseAbi
           /\ Certify!DigestSkill <=> P!DigestSkill
           /\ Certify!DigestAbi <=> P!DigestAbi
           /\ Certify!LookLock <=> P!LookLock
           /\ Certify!DigestLock <=> P!DigestLock
           /\ Certify!OpenCert <=> P!OpenCert
           /\ Certify!WriteCert <=> P!WriteCert
<1>1. Certify!CertifyError <=> P!CertifyError
  BY DEF Certify!CertifyError, P!CertifyError,
         Certify!Tables, P!Tables, Certify!Paths, P!Paths, Certify!Bytes, P!Bytes,
         Certify!Unable, P!Unable, Certify!Loadable,
         P!Loadable, Certify!NextOwn, P!NextOwn, Certify!StopEvaluating, P!StopEvaluating,
         Certify!NoDraft, P!NoDraft, Certify!NoBasis, P!NoBasis, Certify!NothingHeld, P!NothingHeld,
         Certify!NoCase, P!NoCase, Certify!Judged, P!Judged, Certify!dir, P!dir, Certify!caseVars,
         P!caseVars, Certify!verifyVars, P!verifyVars
<1>2. Certify!ReadDegradation <=> P!ReadDegradation
  BY DEF Certify!ReadDegradation, P!ReadDegradation, Certify!Loadable, P!Loadable, Certify!dir,
         P!dir, Certify!caseVars, P!caseVars, Certify!verifyVars, P!verifyVars
<1>3. Certify!ListBindings <=> P!ListBindings
  BY DEF Certify!ListBindings, P!ListBindings, Certify!dir, P!dir, Certify!caseVars, P!caseVars,
         Certify!verifyVars, P!verifyVars
<1>4. Certify!ReadBinding(b) <=> P!ReadBinding(b)
  BY DEF Certify!ReadBinding, P!ReadBinding, Certify!Loadable, P!Loadable, Certify!Judge, P!Judge,
         Certify!dir, P!dir, Certify!caseVars, P!caseVars, Certify!verifyVars, P!verifyVars
<1>5. Certify!ReadInvariants <=> P!ReadInvariants
  BY DEF Certify!ReadInvariants, P!ReadInvariants, Certify!Loadable, P!Loadable, Certify!Judge,
         P!Judge, Certify!dir, P!dir, Certify!caseVars, P!caseVars, Certify!verifyVars, P!verifyVars
<1>6. Certify!ReadEffects <=> P!ReadEffects
  BY DEF Certify!ReadEffects, P!ReadEffects, Certify!Loadable, P!Loadable, Certify!Judge, P!Judge,
         Certify!dir, P!dir, Certify!caseVars, P!caseVars, Certify!verifyVars, P!verifyVars
<1>7. Certify!TryCase(k) <=> P!TryCase(k)
  BY DEF Certify!TryCase, P!TryCase, Certify!dir, P!dir, Certify!caseVars, P!caseVars,
         Certify!verifyVars, P!verifyVars
<1>8. Certify!LookForLock(k) <=> P!LookForLock(k)
  BY DEF Certify!LookForLock, P!LookForLock, Certify!CoverVerdict, P!CoverVerdict, Certify!Covers,
         P!Covers, Certify!Count, P!Count, Certify!Present, P!Present, Certify!NoCase, P!NoCase,
         Certify!dir, P!dir, Certify!caseVars, P!caseVars, Certify!verifyVars, P!verifyVars
<1>9. Certify!ReadOwn(f) <=> P!ReadOwn(f)
  BY DEF Certify!ReadOwn, P!ReadOwn, Certify!NextOwn, P!NextOwn, Certify!Loadable, P!Loadable,
         Certify!Judge, P!Judge, Certify!dir, P!dir, Certify!caseVars, P!caseVars,
         Certify!verifyVars, P!verifyVars
<1>10. Certify!JudgeCase <=> P!JudgeCase
  BY DEF Certify!JudgeCase, P!JudgeCase, Certify!Count, P!Count, Certify!Holds, P!Holds,
         Certify!View, P!View, Certify!Judged, P!Judged, Certify!NoCase, P!NoCase, Certify!dir,
         P!dir, Certify!caseVars, P!caseVars, Certify!verifyVars, P!verifyVars
<1>11. Certify!ReadPins <=> P!ReadPins
  BY DEF Certify!ReadPins, P!ReadPins,
         Certify!Tables, P!Tables, Certify!Paths, P!Paths, Certify!Bytes, P!Bytes,
         Certify!dir, P!dir, Certify!caseVars, P!caseVars,
         Certify!verifyVars, P!verifyVars
<1>12. Certify!ListSchemas <=> P!ListSchemas
  BY DEF Certify!ListSchemas, P!ListSchemas, Certify!CoverVerdict, P!CoverVerdict, Certify!Covers,
         P!Covers, Certify!Count, P!Count, Certify!Present, P!Present, Certify!NoCase, P!NoCase,
         Certify!dir, P!dir, Certify!caseVars, P!caseVars, Certify!verifyVars, P!verifyVars
<1>13. Certify!EndBinding <=> P!EndBinding
  BY DEF Certify!EndBinding, P!EndBinding, Certify!StopEvaluating, P!StopEvaluating,
         Certify!NothingHeld, P!NothingHeld, Certify!NoCase, P!NoCase, Certify!Judged, P!Judged,
         Certify!dir, P!dir, Certify!caseVars, P!caseVars, Certify!verifyVars, P!verifyVars
<1>14. Certify!EndEvaluation <=> P!EndEvaluation
  BY DEF Certify!EndEvaluation, P!EndEvaluation, Certify!dir, P!dir, Certify!caseVars, P!caseVars,
         Certify!verifyVars, P!verifyVars
<1>15. Certify!ParseAbi <=> P!ParseAbi
  BY DEF Certify!ParseAbi, P!ParseAbi, Certify!Loadable, P!Loadable, Certify!dir, P!dir,
         Certify!caseVars, P!caseVars, Certify!verifyVars, P!verifyVars
<1>16. Certify!DigestSkill <=> P!DigestSkill
  BY DEF Certify!DigestSkill, P!DigestSkill, Certify!dir, P!dir, Certify!caseVars, P!caseVars,
         Certify!verifyVars, P!verifyVars
<1>17. Certify!DigestAbi <=> P!DigestAbi
  BY DEF Certify!DigestAbi, P!DigestAbi, Certify!dir, P!dir, Certify!caseVars, P!caseVars,
         Certify!verifyVars, P!verifyVars
<1>18. Certify!LookLock <=> P!LookLock
  BY DEF Certify!LookLock, P!LookLock, Certify!dir, P!dir, Certify!caseVars, P!caseVars,
         Certify!verifyVars, P!verifyVars
<1>19. Certify!DigestLock <=> P!DigestLock
  BY DEF Certify!DigestLock, P!DigestLock, Certify!dir, P!dir, Certify!caseVars, P!caseVars,
         Certify!verifyVars, P!verifyVars
<1>20. Certify!OpenCert <=> P!OpenCert
  BY DEF Certify!OpenCert, P!OpenCert, Certify!dir, P!dir, Certify!caseVars, P!caseVars,
         Certify!verifyVars, P!verifyVars
<1>21. Certify!WriteCert <=> P!WriteCert
  BY DEF Certify!WriteCert, P!WriteCert, Certify!BuildCertificate, P!BuildCertificate,
         Certify!ClassifyEvidence, P!ClassifyEvidence, Certify!StopEvaluating, P!StopEvaluating,
         Certify!NoDraft, P!NoDraft, Certify!NoBasis, P!NoBasis, Certify!NothingHeld, P!NothingHeld,
         Certify!NoCase, P!NoCase, Certify!Judged, P!Judged, Certify!dir, P!dir, Certify!caseVars,
         P!caseVars, Certify!verifyVars, P!verifyVars
<1> QED
  BY <1>1, <1>2, <1>3, <1>4, <1>5, <1>6, <1>7, <1>8, <1>9, <1>10, <1>11, <1>12, <1>13, <1>14, <1>15,
     <1>16, <1>17, <1>18, <1>19, <1>20, <1>21

LEMMA SameVerifySteps == Certify!VerifyStep <=> P!VerifyStep
<1>1. Certify!LookSkill <=> P!LookSkill
  BY DEF Certify!LookSkill, P!LookSkill, Certify!dir, P!dir, Certify!certifyVars, P!certifyVars,
         Certify!caseVars, P!caseVars
<1>2. Certify!LookAbi <=> P!LookAbi
  BY DEF Certify!LookAbi, P!LookAbi, Certify!dir, P!dir, Certify!certifyVars, P!certifyVars,
         Certify!caseVars, P!caseVars
<1>3. Certify!LookAtLock <=> P!LookAtLock
  BY DEF Certify!LookAtLock, P!LookAtLock, Certify!Concluded, P!Concluded, Certify!dir, P!dir,
         Certify!certifyVars, P!certifyVars, Certify!caseVars, P!caseVars
<1>4. Certify!VanishedDigest <=> P!VanishedDigest
  BY DEF Certify!VanishedDigest, P!VanishedDigest, Certify!dir, P!dir, Certify!certifyVars,
         P!certifyVars, Certify!caseVars, P!caseVars
<1>5. Certify!VerifySkill <=> P!VerifySkill
  BY DEF Certify!VerifySkill, P!VerifySkill, Certify!dir, P!dir, Certify!certifyVars, P!certifyVars,
         Certify!caseVars, P!caseVars
<1>6. Certify!VerifyAbi <=> P!VerifyAbi
  BY DEF Certify!VerifyAbi, P!VerifyAbi, Certify!dir, P!dir, Certify!certifyVars, P!certifyVars,
         Certify!caseVars, P!caseVars
<1>7. Certify!VerifyLockDigest <=> P!VerifyLockDigest
  BY DEF Certify!VerifyLockDigest, P!VerifyLockDigest, Certify!Concluded, P!Concluded, Certify!dir,
         P!dir, Certify!certifyVars, P!certifyVars, Certify!caseVars, P!caseVars
<1> QED
  BY <1>1, <1>2, <1>3, <1>4, <1>5, <1>6, <1>7
     DEF Certify!VerifyStep, P!VerifyStep

LEMMA SameCommands ==
    /\ Certify!CertifyStep <=> P!CertifyStep
    /\ Certify!VerifyStep <=> P!VerifyStep
<1>1. Certify!CertifyStep <=> P!CertifyStep
  BY SameSteps, SameTerms DEF Certify!CertifyStep, P!CertifyStep
<1> QED BY <1>1, SameVerifySteps

----------------------------------------------------------------------------
(* The invariant.                                                           *)

(* The commands that run after the lock has been written.                   *)
Locking == {"certify", "verify-lock", "verify-certificate", "released"}

(* Where the commands are at each stage; nobody else touches skill.lock.    *)
LockInOrder ==
    /\ stage \in {"lock", "stopped"} \cup Locking
    /\ pc[Engineer] \in Running => stage \in {"lock", "verify-lock"}
    /\ cmd[Engineer] \in {"lock", "verify_lock"}
    /\ stage \in {"lock", "certify"} => cmd[Engineer] = "lock"
    /\ stage \in Locking /\ cmd[Engineer] = "lock" => pc[Engineer] = "ok"
    /\ stage \in {"verify-certificate", "released"}
         => cmd[Engineer] = "verify_lock" /\ pc[Engineer] = "ok"
    /\ pc[Engineer] # "orphan"
    /\ cmd[Engineer] = "lock" /\ pc[Engineer] \in {"write", "ok"} => owner = Engineer
    /\ cmd[Engineer] = "verify_lock" => pinned[Engineer] = lock

CertifyInOrder ==
    /\ stage = "lock" => P!CertInit
    /\ cpc = "idle" => draft = P!NoDraft /\ basis = P!NoBasis
    /\ cpc \in P!CertifyRunning => stage = "certify"
    /\ stage \in {"verify-lock", "verify-certificate", "released"} => cpc = "certified"
    /\ cpc = "certified" => cert.evidence_class = "STATIC_CONFORMANT"
    /\ stage = "released" => vpc = "valid"
    /\ vpc \in P!VerifyRunning => stage = "verify-certificate"
    /\ vpc # "idle" => /\ subject = cert
                       /\ stage \in {"verify-certificate", "released", "stopped"}

(* Once `sabi lock` has ended well, skill.lock is one whole document.       *)
LockIsTable == stage \in Locking => lock \in Tables

(* The file does not hold what is pinned; only a restoration brings it back.*)
Lost(f) == files[f] # lock[f]
Excused(f) == f \in restored \/ Lost(f)

(* What certify judged and digested is pinned, or lost, or was restored;    *)
(* and skill.lock, which nobody changes, was the one it looked at.          *)
DraftIsPinned ==
    stage = "certify" =>
        /\ \A f \in P!Judged : basis[f] \subseteq {lock[f]} \/ Excused(f)
        /\ \A x \in draft.covers : x.lock = lock
        /\ cpc = "schemas" => pins = lock
        /\ cpc \in P!CertifyRunning \ {"degradation", "bindings"} =>
             \A b \in Bindings : (b \in draft.bound <=> lock[b] # NoFile) \/ Excused(b)
        /\ cpc \in {"abi", "look", "lock", "open", "write"}
             => draft.skill = lock[SkillMd] \/ Excused(SkillMd)
        /\ cpc \in {"look", "lock", "open", "write"} => draft.abi = lock[Abi] \/ Excused(Abi)
        /\ cpc \in {"open", "write"} => draft.lock = lock

(* The same of the certificate; what is lost verify-lock has not seen.      *)
CertIsPinned ==
    stage \in Locking /\ cpc = "certified" =>
        /\ cert.lock_digest = lock
        /\ \A x \in cert.covers : x.lock = lock
        /\ \A f \in Locked \ restored : ~Agrees(cert, f) =>
              Lost(f) /\ (cmd[Engineer] = "verify_lock" => lock[f] \notin seen[Engineer][f])

RInv ==
    /\ restored \subseteq Locked
    /\ LockInOrder
    /\ CertifyInOrder
    /\ LockIsTable
    /\ DraftIsPinned
    /\ CertIsPinned

----------------------------------------------------------------------------
(* Frames.                                                                  *)

LEMMA CertifyLeavesTheDirectory ==
    ASSUME RunCertifyCommand
    PROVE  UNCHANGED vars /\ UNCHANGED <<changes, stage, restored>>
<1>1. UNCHANGED <<files, lock>>
  <2>1. CASE Certify!CertifyStep
    <3>1. UNCHANGED P!dir BY <2>1, SameCommands, Assumed, P!CertifyStepFacts
    <3> QED BY <3>1 DEF P!dir
  <2>2. CASE Certify!VerifyStep
    <3>1. P!VerifyStep BY <2>2, SameCommands
    <3>2. UNCHANGED changes BY DEF RunCertifyCommand
    <3>3. UNCHANGED P!dir BY <3>1, <3>2, Assumed, P!VerifyStepFacts
    <3> QED BY <3>3 DEF P!dir
  <2>3. CASE Certify!StartCertify BY <2>3 DEF Certify!StartCertify, Certify!dir
  <2>4. CASE Certify!StartVerifyCertificate
    BY <2>4 DEF Certify!StartVerifyCertificate, Certify!dir
  <2> QED BY <2>1, <2>2, <2>3, <2>4 DEF RunCertifyCommand
<1> QED BY <1>1 DEF RunCertifyCommand, local, vars

(* What a lock command leaves alone.                                        *)
LEMMA LockCommandFrame ==
    ASSUME RunLockCommand
    PROVE  /\ UNCHANGED <<files, cert, changes, stage, restored>>
           /\ UNCHANGED <<certifyVars, verifyVars>>
           /\ UNCHANGED <<cpc, draft, basis, pins, vpc, subject>>
           /\ P!CertInit => P!CertInit'
<1>1. UNCHANGED <<files, cert, changes, stage, restored>> /\ UNCHANGED <<certifyVars, verifyVars>>
  BY DEF RunLockCommand, StartLock, StartVerify, BeginScan, Begin,
     Step, List, ReadFile, ReadVanished, OpenLock, WriteLock, WriteOrphan, Compare, End, disk
<1>2. UNCHANGED <<cpc, draft, basis, pins, vpc, subject>>
  BY <1>1 DEF certifyVars, verifyVars
<1>3. P!CertInit => P!CertInit'
  BY <1>1 DEF P!CertInit, certifyVars, verifyVars
<1> QED BY <1>1, <1>2, <1>3

(* A release is a behaviour of SkillLock: certify and verify-certificate    *)
(* write neither the files nor skill.lock, and the author only edits.       *)
LEMMA ReleaseRunsLockCommands == ReleaseSpec => Init /\ [][Next]_vars
<1>1. ReleaseInit => Init BY DEF ReleaseInit
<1>2. [ReleaseNext]_releaseVars => [Next]_vars
  <2> SUFFICES ASSUME [ReleaseNext]_releaseVars PROVE [Next]_vars
    OBVIOUS
  <2>1. CASE \E f \in Locked, c \in Bytes : AuthorEdits(f, c)
    BY <2>1 DEF AuthorEdits, Next, Author
  <2>2. CASE RunLockCommand
    BY <2>2, ReleaseAssumption DEF RunLockCommand, Next, Start, Verifiers
  <2>3. CASE RunCertifyCommand BY <2>3, CertifyLeavesTheDirectory
  <2>4. CASE Proceed BY <2>4 DEF Proceed
  <2>5. CASE UNCHANGED releaseVars BY <2>5 DEF releaseVars
  <2> QED BY <2>1, <2>2, <2>3, <2>4, <2>5 DEF ReleaseNext
<1> QED BY <1>1, <1>2, PTL DEF ReleaseSpec

----------------------------------------------------------------------------
(* What SkillCertifyProofs says of the commands on their own holds here:    *)
(* `sabi lock` writes before they start, and the author's edits are changes.*)

LEMMA SameShapes ==
    /\ P!Bytes = Bytes /\ P!LockStates = LockStates /\ P!Tables = Tables
    /\ \A t, s : P!Covers(t, s) <=>
         t # NoFile /\ \A f \in {Abi, Effects, Degradation} \cup s : t[f] # NoFile
<1>1. P!Bytes = Bytes BY DEF P!Bytes, Bytes
<1>2. P!Tables = Tables BY DEF P!Tables, Tables, P!Paths, Paths, P!Bytes, Bytes
<1>3. P!LockStates = LockStates BY <1>2 DEF P!LockStates, LockStates
<1> QED BY <1>1, <1>2, <1>3 DEF P!Covers

LEMMA FreshIsSound ==
    P!CertInit /\ TypeOK /\ changes \in 0..MaxEdits => P!IInv
<1> SUFFICES ASSUME P!CertInit, TypeOK, changes \in 0..MaxEdits PROVE P!IInv
  OBVIOUS
<1>1. files \in [Locked -> P!Bytes] /\ lock \in P!LockStates BY SameShapes DEF TypeOK
<1> QED BY <1>1, Assumed, P!FirstInv

LEMMA FreshStaysSound ==
    (P!CertInit /\ TypeOK /\ changes \in 0..MaxEdits)' => P!IInv'
BY FreshIsSound, PTL

LEMMA ChangesInRange ==
    ASSUME P!IInv PROVE changes \in 0..MaxEdits
BY DEF P!IInv, P!TypeOK

LEMMA CommandsStaySound ==
    ASSUME IInv, RInv, P!IInv, TypeOK', [ReleaseNext]_releaseVars
    PROVE  P!IInv'
<1>1. ASSUME NEW f \in Locked, NEW c \in Bytes, AuthorEdits(f, c) PROVE P!IInv'
  <2>1. files' \in [Locked -> P!Bytes] /\ lock' \in P!LockStates BY SameShapes DEF TypeOK
  <2>2. P!Change
    BY <1>1, SameTerms DEF AuthorEdits, P!Change, certifyVars, P!certifyVars, P!caseVars
  <2> QED BY <2>1, <2>2, Assumed, P!ChangeKeepsInv
<1>2. CASE RunLockCommand
  <2>1. CASE lock' = lock
    <3>1. UNCHANGED <<P!dir, changes, cert, P!certifyVars, P!verifyVars>>
      BY <1>2, <2>1, LockCommandFrame
         DEF P!dir, P!certifyVars, P!caseVars, P!verifyVars, certifyVars, verifyVars
    <3> QED BY <3>1, Assumed, P!StutterKeepsInv
  <2>2. CASE lock' # lock
    <3>1. Step(Engineer) /\ pc[Engineer] \in Running /\ cmd[Engineer] = "lock"
      <4>1. Engineer \in Procs /\ ProcInv(Engineer) BY ReleaseAssumption DEF IInv
      <4> QED BY <1>2, <2>2, <4>1 DEF RunLockCommand, StartLock, StartVerify, BeginScan, Begin,
            Step, List, ReadFile, ReadVanished, OpenLock, WriteLock, WriteOrphan, Compare, disk,
            AllRead, Running, ProcInv, WriterReady
    <3>2. stage = "lock"
      BY <3>1 DEF RInv, LockInOrder, Locking, Running
    <3>3. P!CertInit' /\ changes' \in 0..MaxEdits
      BY <1>2, <3>2, LockCommandFrame, ChangesInRange DEF RInv, CertifyInOrder
    <3> QED BY <3>3, FreshStaysSound
  <2> QED BY <2>1, <2>2
<1>3. CASE RunCertifyCommand
  <2>1. UNCHANGED changes BY <1>3 DEF RunCertifyCommand
  <2>2. P!StartCertify \/ P!CertifyStep \/ P!StartVerifyCertificate \/ P!VerifyStep
    BY <1>3, SameStarts, SameCommands DEF RunCertifyCommand
  <2> QED BY <2>1, <2>2, Assumed, P!StartKeepsInv, P!CertifyStepKeepsInv, P!StartVerifyKeepsInv,
        P!VerifyStepKeepsInv
<1>4. CASE Proceed \/ UNCHANGED releaseVars
  <2>1. UNCHANGED <<P!dir, changes, cert, P!certifyVars, P!verifyVars>>
    BY <1>4 DEF Proceed, releaseVars, vars, certifyVars, verifyVars, P!dir, P!certifyVars,
       P!caseVars, P!verifyVars
  <2> QED BY <2>1, Assumed, P!StutterKeepsInv
<1> QED BY <1>1, <1>2, <1>3, <1>4 DEF ReleaseNext

----------------------------------------------------------------------------
(* The author.                                                              *)

(* An edit brings lost content back only in a file that is restored by it.  *)
LEMMA AuthorKeepsInv ==
    ASSUME IInv, RInv, NEW f \in Locked, NEW c \in Bytes, AuthorEdits(f, c)
    PROVE  RInv'
<1>1. /\ files' = [files EXCEPT ![f] = c] /\ files \in [Locked -> Bytes]
      /\ UNCHANGED <<lock, cmd, pc, pinned, owner, cert, certifyVars, vpc, subject, objection>>
      /\ UNCHANGED <<stage, cpc, draft, basis, pins>>
  BY DEF AuthorEdits, Edit, local, certifyVars, IInv, TypeOK
<1>2. \A g \in Locked : seen'[Engineer][g] \subseteq
            seen[Engineer][g] \cup (IF g = f THEN {c} ELSE {})
  BY ReleaseAssumption DEF AuthorEdits, Edit, IInv, TypeOK
<1>3. restored \subseteq restored' /\ restored' \subseteq Locked
  BY DEF AuthorEdits, RInv
<1>4. stage \in Locking => f \in restored' \/ lock[f] # c
  BY DEF AuthorEdits, RInv, LockIsTable, Locking
<1>5. LockInOrder' BY <1>1 DEF RInv, LockInOrder
<1>6. CertifyInOrder'
  <2>1. P!CertInit => P!CertInit'
    <3>1. P!VerifyNotices BY SameTerms DEF AuthorEdits
    <3> QED BY <1>1, <3>1 DEF P!CertInit, P!VerifyNotices, P!VerifyRunning, certifyVars
  <2> QED BY <1>1, <2>1 DEF RInv, CertifyInOrder
<1>7. LockIsTable' BY <1>1 DEF RInv, LockIsTable
<1>8. DraftIsPinned'
  <2>1. SkillMd \in Locked /\ Abi \in Locked /\ P!Judged \subseteq Locked /\ Bindings \subseteq Locked
    BY Assumed DEF P!CertifyAssumption, P!Judged
  <2>2. ASSUME stage = "certify", NEW g \in Locked, Excused(g) PROVE Excused(g)'
    BY <1>1, <1>3, <1>4, <2>2 DEF Excused, Lost, Locking
  <2> QED BY <1>1, <2>1, <2>2 DEF RInv, DraftIsPinned
<1>9. CertIsPinned'
  <2>1. ASSUME stage \in Locking, NEW g \in Locked \ restored' PROVE Lost(g) => Lost(g)'
    BY <1>1, <1>4, <2>1 DEF Lost
  <2>2. ASSUME stage \in Locking, NEW g \in Locked \ restored',
               lock[g] \notin seen[Engineer][g]
        PROVE  lock[g] \notin seen'[Engineer][g]
    BY <1>2, <1>4, <2>2
  <2> QED BY <1>1, <1>3, <2>1, <2>2 DEF RInv, CertIsPinned, Agrees
<1> QED BY <1>3, <1>5, <1>6, <1>7, <1>8, <1>9 DEF RInv

----------------------------------------------------------------------------
(* sabi lock and sabi verify-lock.                                          *)

(* Neither touches what certify works on.                                   *)
LEMMA LockCommandKeepsRest ==
    ASSUME RInv, RunLockCommand
    PROVE  restored' \subseteq Locked /\ CertifyInOrder'
BY LockCommandFrame DEF RInv, CertifyInOrder

(* Where skill.lock and the history stay, so does what is pinned.           *)
LEMMA SameLockKeepsPinned ==
    ASSUME RInv, RunLockCommand, lock' = lock,
           \/ UNCHANGED <<cmd, seen>>
           \/ seen'[Engineer] = [f \in Locked |-> {files[f]}]
    PROVE  LockIsTable' /\ DraftIsPinned' /\ CertIsPinned'
BY LockCommandFrame DEF RInv, LockIsTable, DraftIsPinned, CertIsPinned, Agrees, Excused, Lost

LEMMA StartLockKeepsInv ==
    ASSUME IInv, RInv, RunLockCommand, stage = "lock", StartLock(Engineer)
    PROVE  RInv'
<1>1. cmd'[Engineer] = "lock" /\ pc'[Engineer] = "scan" /\ UNCHANGED <<lock, owner>>
  BY ReleaseAssumption DEF StartLock, BeginScan, Begin, disk, IInv, TypeOK
<1>2. stage' = "lock" BY LockCommandFrame
<1>3. LockInOrder' BY <1>1, <1>2 DEF LockInOrder, Locking
<1>4. LockIsTable' /\ DraftIsPinned' /\ CertIsPinned'
  BY <1>2 DEF LockIsTable, DraftIsPinned, CertIsPinned, Locking
<1> QED BY <1>3, <1>4, LockCommandKeepsRest DEF RInv

(* verify-lock starts with what is on disk: a content that is lost is not   *)
(* there.                                                                   *)
LEMMA StartVerifyKeepsInv ==
    ASSUME IInv, RInv, RunLockCommand, stage = "verify-lock",
           StartVerify(Engineer, "verify_lock")
    PROVE  RInv'
<1>1. /\ cmd'[Engineer] = "verify_lock" /\ pc'[Engineer] = "scan" /\ pinned'[Engineer] = lock
      /\ seen'[Engineer] = [f \in Locked |-> {files[f]}]
      /\ UNCHANGED <<lock, owner>>
  BY ReleaseAssumption DEF StartVerify, BeginScan, Begin, disk, IInv, TypeOK
<1>2. stage' = "verify-lock" BY LockCommandFrame
<1>3. LockInOrder' BY <1>1, <1>2 DEF LockInOrder, Locking
<1> QED BY <1>1, <1>3, SameLockKeepsPinned, LockCommandKeepsRest DEF RInv

(* A step changes skill.lock only on the way of `sabi lock`.                *)
LEMMA StepKeepsInv ==
    ASSUME IInv, RInv, RunLockCommand, Step(Engineer)
    PROVE  RInv'
<1>1. /\ cmd' = cmd /\ pinned' = pinned /\ seen' = seen /\ stage' = stage
      /\ pc[Engineer] \in Running
  BY LockCommandFrame
     DEF Step, List, ReadFile, ReadVanished, OpenLock, WriteLock, WriteOrphan, Compare, End,
         disk, Readable, AllRead, Running
<1>2. Engineer \in Procs /\ ProcInv(Engineer) /\ pc[Engineer] # "orphan"
  BY ReleaseAssumption DEF IInv, RInv, LockInOrder
<1>3. CASE cmd[Engineer] = "lock"
  <2>1. stage = "lock"
    BY <1>1, <1>3 DEF RInv, LockInOrder, Running, Locking
  <2>2. /\ pc'[Engineer] # "orphan"
        /\ pc'[Engineer] \in {"write", "ok"} => owner' = Engineer
    BY <1>2, <1>3, ReleaseAssumption DEF RInv, LockInOrder, IInv, TypeOK, Step, List, ReadFile,
       ReadVanished, OpenLock, WriteLock, WriteOrphan, Compare, End, disk, Readable, AllRead,
       Verifiers, OwnerAfterWrite
  <2>3. LockInOrder'
    BY <1>1, <1>3, <2>1, <2>2 DEF RInv, LockInOrder, Locking
  <2>4. LockIsTable' /\ DraftIsPinned' /\ CertIsPinned'
    BY <1>1, <2>1 DEF LockIsTable, DraftIsPinned, CertIsPinned, Locking
  <2> QED BY <2>3, <2>4, LockCommandKeepsRest DEF RInv
<1>4. CASE cmd[Engineer] = "verify_lock"
  <2>1. pc[Engineer] # "write"
    BY <1>2, <1>4 DEF ProcInv, WriterReady
  <2>2. lock' = lock /\ pc'[Engineer] # "orphan"
    BY <1>2, <1>4, <2>1 DEF IInv, TypeOK, Step, List, ReadFile,
       ReadVanished, OpenLock, WriteLock, WriteOrphan, Compare, End, disk
  <2>3. stage = "verify-lock"
    BY <1>1, <1>4 DEF RInv, LockInOrder, Running
  <2>4. LockInOrder'
    BY <1>1, <1>4, <2>2, <2>3 DEF RInv, LockInOrder, Locking
  <2> QED BY <1>1, <2>2, <2>4, SameLockKeepsPinned, LockCommandKeepsRest DEF RInv
<1> QED BY <1>3, <1>4 DEF RInv, LockInOrder

----------------------------------------------------------------------------
(* sabi certify.                                                            *)

LEMMA SameExcuses ==
    ASSUME RunCertifyCommand
    PROVE  lock' = lock /\ files' = files /\ \A f : Excused(f)' <=> Excused(f)
BY CertifyLeavesTheDirectory DEF vars, Excused, Lost

(* A step of certify that does not end it well.                             *)
LEMMA CertifyFrame ==
    ASSUME RInv, RunCertifyCommand, stage = "certify", UNCHANGED <<vpc, subject>>,
           cpc' \notin {"idle", "certified"}, DraftIsPinned'
    PROVE  RInv'
<1>1. UNCHANGED vars /\ UNCHANGED <<changes, stage, restored>>
  BY CertifyLeavesTheDirectory
<1>2. restored' \subseteq Locked /\ LockInOrder' /\ LockIsTable'
  BY <1>1 DEF RInv, LockInOrder, LockIsTable, vars
<1>3. CertifyInOrder' /\ CertIsPinned'
  BY <1>1 DEF RInv, CertifyInOrder, CertIsPinned
<1> QED BY <1>2, <1>3 DEF RInv

LEMMA Types ==
    ASSUME P!IInv
    PROVE  /\ draft \in P!Drafts /\ draft.covers \subseteq P!CoverLooks
           /\ basis \in [P!Judged -> SUBSET Contents] /\ pins \in P!LockStates
           /\ lock \in P!LockStates /\ P!Present \in SUBSET Schemas
           /\ Bindings \subseteq P!Judged
           /\ cpc \notin {"open", "write"} => draft.lock = NoFile
<1>1. P!TypeOK BY DEF P!IInv
<1>2. P!Present \in SUBSET Schemas BY DEF P!Present
<1>3. cpc \notin {"open", "write"} => draft.lock = NoFile
  BY DEF P!IInv, P!DraftInv, P!DigestInv
<1> QED BY <1>1, <1>2, <1>3 DEF P!TypeOK, P!Drafts, P!Judged

(* A certify command that starts or gives up has judged nothing.            *)
LEMMA ResetKeepsInv ==
    ASSUME RInv, RunCertifyCommand, stage = "certify", P!StartCertify \/ P!CertifyError
    PROVE  RInv'
<1>1. /\ cpc' \in {"refused", "degradation", "error"}
      /\ basis' = P!NoBasis /\ draft'.covers = {}
      /\ UNCHANGED <<vpc, subject>>
  BY DEF P!StartCertify, P!CertifyError, P!verifyVars, P!NoDraft
<1>2. \A f \in P!Judged : basis'[f] = {} BY <1>1 DEF P!NoBasis
<1>3. DraftIsPinned'
  BY <1>1, <1>2 DEF DraftIsPinned, P!CertifyRunning, P!Evaluating
<1> QED BY <1>1, <1>3, CertifyFrame

(* The evaluation judges what is on disk: what is pinned, or that is lost.  *)
LEMMA EvaluationKeepsInv ==
    ASSUME RInv, RunCertifyCommand, stage = "certify", UNCHANGED <<vpc, subject>>,
           cpc \in P!Evaluating, cpc' \in P!Evaluating,
           draft'.bound = draft.bound, \A x \in draft'.covers : x.lock = lock,
           cpc' = "schemas" => pins' = lock,
           \A f \in P!Judged : basis'[f] \subseteq basis[f] \cup {files[f]}
    PROVE  RInv'
<1>1. \A f \in P!Judged : basis'[f] \subseteq {lock[f]} \/ Excused(f)
  BY DEF RInv, DraftIsPinned, Excused, Lost
<1>2. cpc \in P!CertifyRunning \ {"degradation", "bindings"}
  BY DEF P!Evaluating, P!CertifyRunning
<1>3. cpc' \notin {"abi", "look", "lock", "open", "write", "idle", "certified"}
  BY DEF P!Evaluating
<1>4. \A b \in Bindings : (b \in draft'.bound <=> lock[b] # NoFile) \/ Excused(b)
  BY <1>2 DEF RInv, DraftIsPinned
<1>5. DraftIsPinned'
  BY <1>1, <1>3, <1>4, SameExcuses DEF DraftIsPinned
<1> QED BY <1>3, <1>5, CertifyFrame

LEMMA ReadsKeepInv ==
    ASSUME RInv, P!IInv, RunCertifyCommand, stage = "certify",
           \/ \E b \in Bindings : P!ReadBinding(b)
           \/ P!ReadInvariants \/ P!ReadEffects
           \/ \E f \in P!Judged : P!ReadOwn(f)
    PROVE  RInv'
<1>1. \A x \in draft.covers : x.lock = lock BY DEF RInv, DraftIsPinned
<1>2. PICK f \in P!Judged : basis' = [basis EXCEPT ![f] = @ \cup {files[f]}]
  BY DEF P!ReadBinding, P!ReadInvariants, P!ReadEffects, P!ReadOwn, P!Judge, P!Judged
<1>3. \A g \in P!Judged : basis'[g] \subseteq basis[g] \cup {files[g]}
  BY <1>2, Types
<1>4. /\ cpc \in P!Evaluating /\ cpc' \in P!Evaluating \ {"schemas"}
      /\ UNCHANGED <<draft, vpc, subject>>
  BY DEF P!ReadBinding, P!ReadInvariants, P!ReadEffects, P!ReadOwn, P!Evaluating, P!verifyVars
<1> QED BY <1>1, <1>3, <1>4, EvaluationKeepsInv

LEMMA CasesKeepInv ==
    ASSUME RInv, P!IInv, RunCertifyCommand, stage = "certify",
           \/ \E k \in Cases : P!TryCase(k) \/ P!LookForLock(k)
           \/ P!JudgeCase \/ P!ReadPins \/ P!ListSchemas \/ P!EndBinding
    PROVE  RInv'
<1>1. /\ \A x \in draft.covers : x.lock = lock
      /\ cpc = "schemas" => pins = lock
  BY DEF RInv, DraftIsPinned
<1>2. /\ cpc \in P!Evaluating /\ cpc' \in P!Evaluating
      /\ UNCHANGED <<basis, vpc, subject>>
      /\ cpc' = "schemas" => pins' = lock
  BY DEF P!TryCase, P!LookForLock, P!JudgeCase, P!ReadPins, P!ListSchemas, P!EndBinding,
         P!Evaluating, P!verifyVars
<1>3. draft'.bound = draft.bound /\ \A x \in draft'.covers : x.lock = lock
  <2>1. CASE UNCHANGED draft BY <1>1, <2>1
  <2>2. CASE P!JudgeCase
    <3>1. draft' = P!Count(draft, P!Holds(trying, profile, held)) BY <2>2 DEF P!JudgeCase
    <3>2. draft'.bound = draft.bound /\ draft'.covers = draft.covers
      BY <3>1, Types DEF P!Count, P!Drafts
    <3> QED BY <1>1, <3>2
  <2>3. ASSUME NEW t \in P!LockStates, t = lock, P!CoverVerdict(t, P!Present)
        PROVE  draft'.bound = draft.bound /\ \A x \in draft'.covers : x.lock = lock
    <3>1. P!TypeOK BY DEF P!IInv
    <3>2. P!Present \in SUBSET Schemas BY Types
    <3>3. /\ draft'.covers = draft.covers \cup {[lock |-> t, schemas |-> P!Present]}
          /\ draft'.bound = draft.bound
      BY <2>3, <3>1, <3>2, Assumed, P!CoverConcludes
    <3> QED BY <1>1, <2>3, <3>3
  <2>4. CASE \E k \in Cases : P!LookForLock(k)
    <3>1. CASE lock = NoFile
      <4>1. P!CoverVerdict(NoFile, P!Present) BY <2>4, <3>1 DEF P!LookForLock
      <4> QED BY <2>3, <3>1, <4>1, Types
    <3>2. CASE lock # NoFile BY <2>1, <2>4, <3>2 DEF P!LookForLock
    <3> QED BY <3>1, <3>2
  <2>5. CASE P!ListSchemas
    <3>1. pins = lock /\ P!CoverVerdict(pins, P!Present) BY <1>1, <2>5 DEF P!ListSchemas
    <3> QED BY <2>3, <3>1, Types
  <2>6. CASE (\E k \in Cases : P!TryCase(k)) \/ P!ReadPins \/ P!EndBinding
    BY <2>1, <2>6 DEF P!TryCase, P!ReadPins, P!EndBinding
  <2> QED BY <2>2, <2>4, <2>5, <2>6
<1> QED BY <1>2, <1>3, EvaluationKeepsInv

(* Around the evaluation certify reads without judging.                     *)
LEMMA MovingOnKeepsInv ==
    ASSUME RInv, P!IInv, RunCertifyCommand, stage = "certify",
           \/ P!ReadDegradation \/ P!EndEvaluation \/ P!ParseAbi \/ P!LookLock \/ P!OpenCert
    PROVE  RInv'
<1>1. UNCHANGED <<draft, basis, vpc, subject>>
  BY DEF P!ReadDegradation, P!EndEvaluation, P!ParseAbi, P!LookLock, P!OpenCert, P!verifyVars
<1>2. \/ cpc = "degradation" /\ cpc' = "bindings"
      \/ cpc = "evaluate" /\ cpc' = "parse"
      \/ cpc = "parse" /\ cpc' = "skill"
      \/ cpc = "look" /\ cpc' = "lock"
      \/ cpc = "look" /\ cpc' = "open" /\ lock = NoFile
      \/ cpc = "open" /\ cpc' = "write"
  BY DEF P!ReadDegradation, P!EndEvaluation, P!ParseAbi, P!LookLock, P!OpenCert
<1>3. cpc = "look" => draft.lock = NoFile BY Types
<1>4. cpc' \in P!CertifyRunning \ {"degradation", "bindings"}
        => cpc \in P!CertifyRunning \ {"degradation", "bindings"}
  BY <1>2 DEF P!CertifyRunning, P!Evaluating
<1>5. DraftIsPinned'
  BY <1>1, <1>2, <1>3, <1>4, SameExcuses DEF RInv, DraftIsPinned
<1> QED BY <1>1, <1>2, <1>5, CertifyFrame

LEMMA ListBindingsKeepsInv ==
    ASSUME RInv, P!IInv, RunCertifyCommand, stage = "certify", P!ListBindings
    PROVE  RInv'
<1>1. /\ cpc' = "evaluate" /\ UNCHANGED <<basis, vpc, subject>>
      /\ draft' = [draft EXCEPT !.bound = {b \in Bindings : files[b] # NoFile}]
  BY DEF P!ListBindings, P!verifyVars
<1>2. draft'.covers = draft.covers /\ draft'.bound = {b \in Bindings : files[b] # NoFile}
  BY <1>1, Types DEF P!Drafts
<1>3. \A b \in Bindings : (b \in draft'.bound <=> lock[b] # NoFile) \/ Excused(b)
  BY <1>2 DEF Excused, Lost
<1>4. DraftIsPinned'
  BY <1>1, <1>2, <1>3, SameExcuses DEF RInv, DraftIsPinned
<1> QED BY <1>1, <1>4, CertifyFrame

(* The digests are of what is pinned, or else that is lost.                 *)
LEMMA DigestsKeepInv ==
    ASSUME RInv, P!IInv, RunCertifyCommand, stage = "certify",
           P!DigestSkill \/ P!DigestAbi \/ P!DigestLock
    PROVE  RInv'
<1>1. UNCHANGED <<basis, vpc, subject>>
  BY DEF P!DigestSkill, P!DigestAbi, P!DigestLock, P!verifyVars
<1>2. /\ draft'.bound = draft.bound /\ draft'.covers = draft.covers
      /\ \/ cpc = "skill" /\ cpc' = "abi" /\ draft'.skill = files[SkillMd]
         \/ /\ cpc = "abi" /\ cpc' = "look"
            /\ draft'.skill = draft.skill /\ draft'.abi = files[Abi]
         \/ /\ cpc = "lock" /\ cpc' = "open" /\ draft'.skill = draft.skill
            /\ draft'.abi = draft.abi /\ draft'.lock = lock
  <2>1. draft \in P!Drafts BY Types
  <2>2. CASE P!DigestSkill
    <3>1. /\ cpc = "skill" /\ cpc' = "abi"
          /\ draft' = [draft EXCEPT !.skill = files[SkillMd], !.at = changes]
      BY <2>2 DEF P!DigestSkill
    <3> QED BY <2>1, <3>1 DEF P!Drafts
  <2>3. CASE P!DigestAbi
    <3>1. cpc = "abi" /\ cpc' = "look" /\ draft' = [draft EXCEPT !.abi = files[Abi]]
      BY <2>3 DEF P!DigestAbi
    <3> QED BY <2>1, <3>1 DEF P!Drafts
  <2>4. CASE P!DigestLock
    <3>1. cpc = "lock" /\ cpc' = "open" /\ draft' = [draft EXCEPT !.lock = lock]
      BY <2>4 DEF P!DigestLock
    <3> QED BY <2>1, <3>1 DEF P!Drafts
  <2> QED BY <2>2, <2>3, <2>4
<1>3. cpc \in P!CertifyRunning \ {"degradation", "bindings"}
  BY <1>2 DEF P!CertifyRunning, P!Evaluating
<1>4. DraftIsPinned'
  BY <1>1, <1>2, <1>3, SameExcuses DEF RInv, DraftIsPinned, Excused, Lost
<1> QED BY <1>1, <1>2, <1>4, CertifyFrame

(* The certificate inherits what is known of the draft.                     *)
LEMMA WriteCertKeepsInv ==
    ASSUME RInv, P!IInv, RunCertifyCommand, stage = "certify", P!WriteCert
    PROVE  RInv'
<1>1. /\ cpc = "write" /\ cpc' \in {"certified", "failing"}
      /\ cpc' = "certified" => draft.failed = 0
      /\ cert' = P!BuildCertificate(draft, basis)
      /\ draft' = P!NoDraft /\ basis' = P!NoBasis
      /\ UNCHANGED <<vpc, subject>>
  BY DEF P!WriteCert, P!verifyVars
<1>2. UNCHANGED vars /\ UNCHANGED <<changes, stage, restored>>
  BY CertifyLeavesTheDirectory
<1>3. restored' \subseteq Locked /\ LockInOrder' /\ LockIsTable'
  BY <1>2 DEF RInv, LockInOrder, LockIsTable, vars
<1>4. /\ cert'.skill_digest = draft.skill /\ cert'.abi_digest = draft.abi
      /\ cert'.lock_digest = draft.lock /\ cert'.basis = basis /\ cert'.bound = draft.bound
      /\ cert'.covers = draft.covers
      /\ draft.failed = 0 => cert'.evidence_class = "STATIC_CONFORMANT"
  BY <1>1 DEF P!BuildCertificate, P!ClassifyEvidence
<1>5. CertifyInOrder'
  BY <1>1, <1>2, <1>4 DEF RInv, CertifyInOrder, P!CertifyRunning, P!Evaluating
<1>6. DraftIsPinned'
  <2>1. draft'.covers = {} /\ \A f \in P!Judged : basis'[f] = {}
    BY <1>1 DEF P!NoDraft, P!NoBasis
  <2> QED BY <1>1, <2>1 DEF DraftIsPinned, P!CertifyRunning, P!Evaluating
<1>7. CertIsPinned'
  <2>1. /\ \A f \in P!Judged : basis[f] \subseteq {lock[f]} \/ Excused(f)
        /\ \A b \in Bindings : (b \in draft.bound <=> lock[b] # NoFile) \/ Excused(b)
        /\ draft.skill = lock[SkillMd] \/ Excused(SkillMd)
        /\ draft.abi = lock[Abi] \/ Excused(Abi)
        /\ draft.lock = lock /\ \A x \in draft.covers : x.lock = lock
    BY <1>1 DEF RInv, DraftIsPinned, P!CertifyRunning, P!Evaluating
  <2>2. lock' = lock /\ cmd'[Engineer] = "lock" /\ restored' = restored
        /\ \A f \in Locked : Lost(f)' <=> Lost(f)
    BY <1>2 DEF RInv, LockInOrder, vars, Lost
  <2>3. ASSUME NEW f \in Locked \ restored, ~Agrees(cert, f)' PROVE Lost(f)
    <3>1. Certify!Judged = P!Judged BY SameTerms
    <3> QED BY <1>4, <2>1, <2>2, <2>3, <3>1 DEF Agrees, Excused
  <2> QED BY <1>4, <2>1, <2>2, <2>3 DEF CertIsPinned
<1> QED BY <1>3, <1>5, <1>6, <1>7 DEF RInv

LEMMA CertifyStepKeepsInv ==
    ASSUME RInv, P!IInv, RunCertifyCommand, Certify!CertifyStep
    PROVE  RInv'
<1>1. P!CertifyStep BY SameCommands
<1>2. stage = "certify"
  <2>1. cpc \in P!CertifyRunning BY <1>1, Assumed, P!CertifyStepFacts
  <2> QED BY <2>1 DEF RInv, CertifyInOrder
<1> QED
  BY <1>1, <1>2, ResetKeepsInv, ReadsKeepInv, CasesKeepInv, MovingOnKeepsInv,
     ListBindingsKeepsInv, DigestsKeepInv, WriteCertKeepsInv DEF P!CertifyStep

----------------------------------------------------------------------------
(* sabi verify-certificate writes nothing and takes the certificate once.   *)

LEMMA VerifyCertificateKeepsInv ==
    ASSUME RInv, RunCertifyCommand,
           \/ stage = "verify-certificate" /\ Certify!StartVerifyCertificate
           \/ Certify!VerifyStep
    PROVE  RInv'
<1>1. /\ UNCHANGED <<cert, cpc, pins, draft, basis>>
      /\ vpc' # "idle" /\ stage = "verify-certificate"
      /\ subject' = cert
  <2>1. CASE stage = "verify-certificate" /\ Certify!StartVerifyCertificate
    BY <2>1 DEF Certify!StartVerifyCertificate, Certify!certifyVars, Certify!caseVars
  <2>2. CASE Certify!VerifyStep
    <3>1. P!VerifyStep /\ UNCHANGED changes
      BY <2>2, SameCommands DEF RunCertifyCommand
    <3>2. /\ vpc \in P!VerifyRunning /\ vpc' # "idle"
          /\ UNCHANGED <<cert, P!certifyVars>> /\ UNCHANGED subject
      BY <3>1, Assumed, P!VerifyStepFacts
    <3>3. vpc # "idle" BY <3>2 DEF P!VerifyRunning
    <3> QED BY <3>2, <3>3 DEF RInv, CertifyInOrder, P!certifyVars, P!caseVars
  <2> QED BY <2>1, <2>2
<1>2. UNCHANGED vars /\ UNCHANGED <<changes, stage, restored>>
  BY CertifyLeavesTheDirectory
<1>3. restored' \subseteq Locked /\ LockInOrder' /\ LockIsTable'
  BY <1>2 DEF RInv, LockInOrder, LockIsTable, vars
<1>4. CertifyInOrder'
  BY <1>1, <1>2 DEF RInv, CertifyInOrder
<1>5. DraftIsPinned' /\ CertIsPinned'
  BY <1>1, <1>2 DEF RInv, DraftIsPinned, CertIsPinned, Agrees, Lost, vars
<1> QED BY <1>3, <1>4, <1>5 DEF RInv

----------------------------------------------------------------------------
(* The next command.                                                        *)

LEMMA StagesInOrder ==
    /\ Going = {"lock", "certify", "verify-lock", "verify-certificate"}
    /\ stage = "lock" => NextStage = "certify"
    /\ stage = "certify" => NextStage = "verify-lock"
    /\ stage = "verify-lock" => NextStage = "verify-certificate"
    /\ stage = "verify-certificate" => NextStage = "released"
<1>1. /\ Stages[1] = "lock" /\ Stages[2] = "certify" /\ Stages[3] = "verify-lock"
      /\ Stages[4] = "verify-certificate" /\ Stages[5] = "released"
  BY DEF Stages
<1>2. /\ 1..4 = {1, 2, 3, 4} /\ 2..5 = {2, 3, 4, 5}
      /\ 1 + 1 = 2 /\ 2 + 1 = 3 /\ 3 + 1 = 4 /\ 4 + 1 = 5
  OBVIOUS
<1>3. Going = {"lock", "certify", "verify-lock", "verify-certificate"}
  BY <1>1, <1>2 DEF Going
<1>4. ASSUME NEW i \in 1..4, stage = Stages[i] PROVE NextStage = Stages[i + 1]
  <2>1. Stages[i + 1] \in {Stages[j] : j \in 2..5}
    OBVIOUS
  <2>2. \A j \in 1..4 : Stages[j] = stage => j = i
    BY <1>1, <1>2, <1>4
  <2>3. \A s \in {Stages[j] : j \in 2..5} :
           (\E j \in 1..4 : Stages[j] = stage /\ Stages[j + 1] = s) <=> s = Stages[i + 1]
    BY <1>4, <2>2
  <2> QED BY <2>1, <2>3 DEF NextStage
<1> QED BY <1>1, <1>2, <1>3, <1>4

(* What is pinned stays so when nothing but the stage changes.              *)
LEMMA SameStateKeepsPinned ==
    ASSUME RInv, UNCHANGED <<vars, cert, certifyVars, restored>>,
           stage' \in Locking => stage \in Locking, stage' = "certify" => stage = "certify"
    PROVE  restored' \subseteq Locked /\ LockIsTable' /\ DraftIsPinned' /\ CertIsPinned'
BY DEF RInv, LockIsTable, DraftIsPinned, CertIsPinned, Agrees, Excused, Lost, vars, certifyVars

(* `sabi lock` ended well: skill.lock pins what it saw.                     *)
LEMMA ProceedKeepsInv ==
    ASSUME IInv, RInv, Proceed
    PROVE  RInv'
<1>1. /\ UNCHANGED <<vars, cert, certifyVars, verifyVars, changes, restored>>
      /\ UNCHANGED <<cmd, pc, owner, pinned, lock, cpc, draft, basis, vpc, subject>>
      /\ P!CertInit => P!CertInit'
      /\ stage \in Going /\ Exited
      /\ stage' = IF ExitedWithZero THEN NextStage ELSE "stopped"
  BY DEF Proceed, vars, certifyVars, verifyVars, P!CertInit
<1>2. Engineer \in Procs /\ ProcInv(Engineer)
  BY ReleaseAssumption DEF IInv
<1>3. pc[Engineer] \notin Running
  BY <1>1, StagesInOrder DEF Exited, Running, Ended, RInv, LockInOrder
<1>4. cpc \notin P!CertifyRunning /\ vpc \notin P!VerifyRunning
  BY <1>1, StagesInOrder, SameTerms DEF Exited, CertifyIdle, RInv, CertifyInOrder
<1>5. CASE ~ExitedWithZero
  <2>1. stage' = "stopped" BY <1>1, <1>5
  <2>2. LockInOrder' BY <1>1, <1>3, <2>1 DEF RInv, LockInOrder, Locking
  <2>3. CertifyInOrder' BY <1>1, <1>4, <2>1 DEF RInv, CertifyInOrder
  <2> QED BY <1>1, <2>1, <2>2, <2>3, SameStateKeepsPinned DEF RInv, Locking
<1>6. CASE stage = "lock" /\ ExitedWithZero
  <2>1. /\ stage' = "certify" /\ pc[Engineer] = "ok" /\ cmd[Engineer] = "lock"
        /\ P!CertInit
    BY <1>1, <1>6, StagesInOrder DEF ExitedWithZero, RInv, LockInOrder, CertifyInOrder
  <2>2. cpc = "idle" /\ vpc = "idle" /\ draft.covers = {} /\ \A f \in P!Judged : basis[f] = {}
    BY <2>1 DEF P!CertInit, P!NoDraft, P!NoBasis
  <2>3. owner = Engineer /\ lock \in Tables
    BY <1>2, <2>1 DEF RInv, LockInOrder, ProcInv, OwnedLock
  <2>4. LockInOrder' BY <1>1, <1>3, <2>1 DEF RInv, LockInOrder, Locking
  <2>5. CertifyInOrder' BY <1>1, <1>4, <2>1, <2>2 DEF RInv, CertifyInOrder
  <2>6. LockIsTable' BY <1>1, <2>3 DEF LockIsTable
  <2>7. DraftIsPinned' /\ CertIsPinned'
    BY <1>1, <2>2 DEF DraftIsPinned, CertIsPinned, P!CertifyRunning, P!Evaluating
  <2> QED BY <1>1, <2>4, <2>5, <2>6, <2>7 DEF RInv
<1>7. CASE stage # "lock" /\ ExitedWithZero
  <2>1. /\ stage \in {"certify", "verify-lock", "verify-certificate"}
        /\ stage = "certify" => stage' = "verify-lock" /\ cpc = "certified"
        /\ stage = "verify-lock" => /\ stage' = "verify-certificate" /\ pc[Engineer] = "ok"
                                    /\ cmd[Engineer] # "lock"
        /\ stage = "verify-certificate" => stage' = "released" /\ vpc = "valid"
    BY <1>1, <1>7, StagesInOrder DEF ExitedWithZero, Exited
  <2>2. LockInOrder' BY <1>1, <1>3, <2>1 DEF RInv, LockInOrder, Locking
  <2>3. CertifyInOrder' BY <1>1, <1>4, <2>1 DEF RInv, CertifyInOrder
  <2> QED BY <1>1, <2>1, <2>2, <2>3, SameStateKeepsPinned DEF RInv, Locking
<1> QED BY <1>5, <1>6, <1>7

----------------------------------------------------------------------------
(* The invariant, and what it says.                                         *)

(* In every state of every release the invariants of the lock, of certify   *)
(* and verify-certificate and of the release hold together: after `sabi     *)
(* lock` the table pins contents the files have held, and what certify      *)
(* judged or digested is pinned or lost for good (cmd_lock, cmd_certify,    *)
(* cmd_verify_lock, cmd_verify_certificate).                                *)
THEOREM ReleaseInvariance == ReleaseSpec => [](IInv /\ P!IInv /\ RInv)
<1>1. ReleaseSpec => []IInv
  BY ReleaseRunsLockCommands, InvarianceUnfair, PTL
<1>2. IInv => TypeOK BY DEF IInv
<1>3. ReleaseInit /\ TypeOK => P!IInv /\ RInv
  <2> SUFFICES ASSUME ReleaseInit, TypeOK PROVE P!IInv /\ RInv
    OBVIOUS
  <2>1. /\ restored = {} /\ cmd[Engineer] = "lock" /\ pc[Engineer] = "idle" /\ stage = "lock"
        /\ P!CertInit /\ changes = 0 /\ MaxEdits \in Nat
    BY ReleaseAssumption, SameTerms DEF ReleaseInit, Init
  <2>2. cpc = "idle" /\ vpc = "idle" /\ draft = P!NoDraft /\ basis = P!NoBasis
    BY <2>1 DEF P!CertInit
  <2>3. P!IInv BY <2>1, FreshIsSound
  <2>4. LockInOrder /\ LockIsTable BY <2>1 DEF LockInOrder, LockIsTable, Locking, Running
  <2>5. CertifyInOrder
    BY <2>1, <2>2 DEF CertifyInOrder, P!CertifyRunning, P!Evaluating, P!VerifyRunning
  <2>6. DraftIsPinned /\ CertIsPinned BY <2>1 DEF DraftIsPinned, CertIsPinned, Locking
  <2> QED BY <2>1, <2>3, <2>4, <2>5, <2>6 DEF RInv
<1>4. IInv /\ P!IInv /\ RInv /\ [ReleaseNext]_releaseVars => RInv'
  <2> SUFFICES ASSUME IInv, P!IInv, RInv, [ReleaseNext]_releaseVars PROVE RInv'
    OBVIOUS
  <2>1. CASE \E f \in Locked, c \in Bytes : AuthorEdits(f, c)
    BY <2>1, AuthorKeepsInv
  <2>2. CASE RunLockCommand
    <3>1. \/ stage = "lock" /\ StartLock(Engineer)
          \/ stage = "verify-lock" /\ StartVerify(Engineer, "verify_lock")
          \/ Step(Engineer)
      BY <2>2 DEF RunLockCommand
    <3> QED BY <2>2, <3>1, StartLockKeepsInv, StartVerifyKeepsInv, StepKeepsInv
  <2>3. CASE RunCertifyCommand
    <3>1. \/ stage = "certify" /\ P!StartCertify
          \/ Certify!CertifyStep
          \/ stage = "verify-certificate" /\ Certify!StartVerifyCertificate
          \/ Certify!VerifyStep
      BY <2>3, SameStarts DEF RunCertifyCommand
    <3> QED BY <2>3, <3>1, ResetKeepsInv, CertifyStepKeepsInv, VerifyCertificateKeepsInv
  <2>4. CASE Proceed BY <2>4, ProceedKeepsInv
  <2>5. CASE UNCHANGED releaseVars
    <3>1. UNCHANGED <<vars, cert, certifyVars, verifyVars, restored>> /\ stage' = stage
      BY <2>5 DEF releaseVars
    <3>2. LockInOrder' BY <3>1 DEF RInv, LockInOrder, vars
    <3>3. CertifyInOrder'
      <4>1. P!CertInit => P!CertInit'
        BY <3>1 DEF P!CertInit, certifyVars, verifyVars
      <4> QED BY <3>1, <4>1 DEF RInv, CertifyInOrder, certifyVars, verifyVars
    <3> QED BY <3>1, <3>2, <3>3, SameStateKeepsPinned DEF RInv
  <2> QED BY <2>1, <2>2, <2>3, <2>4, <2>5 DEF ReleaseNext
<1>5. IInv /\ P!IInv /\ RInv /\ TypeOK' /\ [ReleaseNext]_releaseVars => P!IInv'
  BY CommandsStaySound
<1> QED BY <1>1, <1>2, <1>3, <1>4, <1>5, PTL DEF ReleaseSpec

(* When verify-lock has accepted, nothing that certify used is lost: each   *)
(* file held what is pinned at some instant of verify-lock.                 *)
LEMMA NothingIsLost ==
    ASSUME IInv, RInv, Released
    PROVE  /\ lock \in Tables /\ subject = cert /\ cert.lock_digest = lock
           /\ \A x \in cert.covers : x.lock = lock
           /\ \A f \in Locked \ restored : Agrees(cert, f)
           /\ cert.evidence_class = "STATIC_CONFORMANT" /\ vpc = "valid"
<1>1. /\ stage = "released" /\ cmd[Engineer] = "verify_lock" /\ pc[Engineer] = "ok"
      /\ pinned[Engineer] = lock /\ cpc = "certified" /\ vpc = "valid"
  BY DEF Released, RInv, LockInOrder, CertifyInOrder
<1>2. subject = cert /\ cert.evidence_class = "STATIC_CONFORMANT"
  BY <1>1 DEF RInv, CertifyInOrder
<1>3. \A f \in Locked : lock[f] \in seen[Engineer][f]
  BY <1>1, ReleaseAssumption DEF IInv, ProcInv, Verdicts, Verifiers, Witnessed
<1> QED BY <1>1, <1>2, <1>3 DEF RInv, LockIsTable, CertIsPinned, Locking

(* A finished release is about one version of the skill, for any number of  *)
(* files, bindings, contents and edits: in every file that nobody has given *)
(* the pinned content back, what certify judged first and digested last is  *)
(* what `sabi lock` pinned before and verify-lock still finds afterwards.   *)
THEOREM ReleaseIsAlwaysConsistent == ReleaseSpec => []ReleaseIsConsistent
<1>1. IInv /\ RInv => ReleaseIsConsistent
  BY NothingIsLost DEF ReleaseIsConsistent
<1> QED BY <1>1, ReleaseInvariance, PTL

(* What passed on contents that are those of the lock holds of the lock.    *)
LEMMA PassedOnPinned ==
    ASSUME NEW c, NEW b \in Bindings, NEW k, NEW l, P!CouldPass(c, b, k, l),
           \A x \in c.covers : x.lock = lock,
           k \notin CoverCases => /\ c.basis[b] \subseteq {lock[b]}
                                  /\ \A f \in P!View(k) : c.basis[f] \subseteq {lock[f]}
    PROVE  HoldsOfLock(b, k)
<1>1. CASE k \in CoverCases
  <2>1. PICK x \in c.covers : P!Covers(x.lock, x.schemas) BY <1>1 DEF P!CouldPass
  <2> QED BY <1>1, <2>1, SameShapes DEF HoldsOfLock
<1>2. CASE k \notin CoverCases
  <2>1. PICK p \in c.basis[b], v \in P!Readings(c, k, l) : P!Holds(k, p, v)
    BY <1>2 DEF P!CouldPass
  <2>2. p = lock[b] BY <1>2, <2>1
  <2>3. [f \in P!View(k) |-> v[f]] = [f \in P!View(k) |-> lock[f]]
    <3>1. \A f \in P!View(k) : v[f] \in c.basis[f] BY <2>1 DEF P!Readings
    <3> QED BY <1>2, <3>1
  <2>4. P!Holds(k, lock[b], lock) BY <2>1, <2>2, <2>3 DEF P!Holds
  <2> QED BY <1>2, <2>4, SameTerms DEF HoldsOfLock
<1> QED BY <1>1, <1>2

(* And STATIC_CONFORMANT is true of what the lock pins: every listed case   *)
(* of every pinned profile passes on the pinned files, except those that    *)
(* use a file given its content back (cmd_certify, evaluate_invariants).    *)
THEOREM EvaluatedReleaseAlwaysConforms == ReleaseSpec => []EvaluatedReleaseConforms
<1>1. IInv /\ P!IInv /\ RInv => EvaluatedReleaseConforms
  <2> SUFFICES ASSUME IInv, P!IInv, RInv, Released
               PROVE  /\ subject.evidence_class = "STATIC_CONFORMANT"
                      /\ \A b \in Bindings :
                           lock[b] # NoFile /\ {b, Invariants, Effects} \cap restored = {} =>
                             \A k \in Listed[lock[Invariants]] :
                               Own[k] \cap restored = {} => HoldsOfLock(b, k)
    BY DEF EvaluatedReleaseConforms
  <2>1. P!SoundDocument(cert)
    BY NothingIsLost DEF P!IInv, P!VerifyInv
  <2>2. \A b \in cert.bound : P!EveryCasePassed(cert, b)
    BY <2>1, NothingIsLost DEF P!SoundDocument, P!Justified
  <2>3. P!Judged \subseteq Locked /\ Bindings \subseteq P!Judged
    BY Assumed DEF P!CertifyAssumption, P!Judged
  <2>4. \A f \in P!Judged \ restored : cert.basis[f] \subseteq {lock[f]}
    BY <2>3, NothingIsLost, SameTerms DEF Agrees
  <2>5. ASSUME NEW b \in Bindings, lock[b] # NoFile, {b, Invariants, Effects} \cap restored = {},
               NEW k \in Listed[lock[Invariants]], Own[k] \cap restored = {}
        PROVE  HoldsOfLock(b, k)
    <3>1. b \in cert.bound BY <2>3, <2>5, NothingIsLost DEF Agrees
    <3>2. PICK l \in cert.basis[Invariants] : \A j \in Listed[l] : P!CouldPass(cert, b, j, l)
      BY <2>2, <3>1 DEF P!EveryCasePassed
    <3>3. l = lock[Invariants] /\ l \in Contents
      <4>1. Invariants \in P!Judged \ restored BY <2>5 DEF P!Judged
      <4>2. cert.basis \in [P!Judged -> SUBSET Contents]
        BY <2>1 DEF P!SoundDocument, P!Certificates
      <4> QED BY <2>4, <3>2, <4>1, <4>2
    <3>4. k \in Cases /\ Own[k] \subseteq P!Judged
      BY <2>5, <3>3, Assumed DEF P!CertifyAssumption, P!Judged
    <3>5. P!View(k) \cup {b} \subseteq P!Judged \ restored
      BY <2>3, <2>5, <3>4 DEF P!View, P!Judged
    <3> QED BY <2>4, <3>2, <3>3, <3>5, NothingIsLost, PassedOnPinned
  <2> QED BY <2>5, NothingIsLost
<1> QED BY <1>1, ReleaseInvariance, PTL

(* In a release, with certify and verify-certificate in between, `lock` and *)
(* `verify-lock` still keep their contract, and neither starts over         *)
(* (cmd_lock, cmd_verify_lock).                                             *)
THEOREM ReleaseKeepsContract == ReleaseSpec => ImplementsContract /\ NeverStartsOver
  BY ReleaseRunsLockCommands, RefinementUnfair, NeverStartsOverUnfair

----------------------------------------------------------------------------
(* What a release has left to do.                                           *)

(* How far the release is, and whether its command has yet to be started.   *)
Position == IF stage = "stopped" THEN 5 ELSE CHOOSE i \in 1..5 : Stages[i] = stage

Waiting ==
    \/ stage = "lock" /\ pc[Engineer] = "idle"
    \/ stage = "certify" /\ cpc = "idle"
    \/ stage = "verify-lock" /\ cmd[Engineer] = "lock"
    \/ stage = "verify-certificate" /\ vpc = "idle"

VerifyOrder == <<"skill", "skill_digest", "abi", "abi_digest", "lock", "lock_digest">>
VerifyLeft == {i \in 1..6 : \E j \in 1..i : VerifyOrder[j] = vpc}

(* Nearer to the end: at a later command, or this one has started, or there *)
(* is less left of it.                                                      *)
ReleaseGoesForward ==
    \/ Position' > Position
    \/ Position' = Position /\ Waiting /\ ~Waiting'
    \/ /\ Position' = Position /\ ~Waiting /\ ~Waiting'
       /\ \/ /\ stage \in {"lock", "verify-lock"}
             /\ Certify!Smaller(Todo(Engineer)', Todo(Engineer))
          \/ stage = "certify" /\ cpc \in Certify!CertifyRunning /\ Certify!GoesForward
          \/ stage = "verify-certificate" /\ Certify!Smaller(VerifyLeft', VerifyLeft)

(* What of this rests on the code and not on the scheduler: every step of a *)
(* release brings it nearer to its end, and no edit, at whatever moment it  *)
(* comes, takes it back (cmd_lock, cmd_certify, cmd_verify_lock,            *)
(* cmd_verify_certificate).                                                 *)
ReleaseNeverStartsOver ==
    [][IF RunLockCommand \/ RunCertifyCommand \/ Proceed
       THEN ReleaseGoesForward
       ELSE UNCHANGED <<stage, cmd, pc, unlisted, listed, cpc, unbound, untried, unread,
                        vpc>>]_releaseVars

LEMMA StagePositions ==
    ASSUME NEW s
    PROVE  /\ s = "lock" => (CHOOSE i \in 1..5 : Stages[i] = s) = 1
           /\ s = "certify" => (CHOOSE i \in 1..5 : Stages[i] = s) = 2
           /\ s = "verify-lock" => (CHOOSE i \in 1..5 : Stages[i] = s) = 3
           /\ s = "verify-certificate" => (CHOOSE i \in 1..5 : Stages[i] = s) = 4
           /\ s = "released" => (CHOOSE i \in 1..5 : Stages[i] = s) = 5
<1>1. /\ Stages[1] = "lock" /\ Stages[2] = "certify" /\ Stages[3] = "verify-lock"
      /\ Stages[4] = "verify-certificate" /\ Stages[5] = "released"
  BY DEF Stages
<1>2. 1..5 = {1, 2, 3, 4, 5}
  OBVIOUS
<1> QED BY <1>1, <1>2

(* A lock command runs only at the two stages that start one, verify-       *)
(* certificate only at the last.                                            *)
LEMMA WhereCommandsRun ==
    ASSUME RInv
    PROVE  /\ pc[Engineer] \in Running => stage \in {"lock", "verify-lock"} /\ ~Waiting
           /\ cpc \in P!CertifyRunning => stage = "certify" /\ ~Waiting
           /\ vpc \in P!VerifyRunning => stage = "verify-certificate" /\ ~Waiting
<1>1. "idle" \notin P!CertifyRunning /\ "idle" \notin P!VerifyRunning
  BY DEF P!CertifyRunning, P!Evaluating, P!VerifyRunning
<1> QED BY <1>1 DEF RInv, LockInOrder, CertifyInOrder, Locking, Waiting, Running

(* verify-certificate looks and digests in this order and never goes back.  *)
LEMMA VerifyStepGoesForward ==
    ASSUME P!VerifyStep
    PROVE  Certify!Smaller(VerifyLeft', VerifyLeft)
<1> DEFINE Left(v) == {i \in 1..6 : \E j \in 1..i : VerifyOrder[j] = v}
<1>1. \/ vpc = "skill" /\ vpc' \in {"invalid", "skill_digest"}
      \/ vpc = "skill_digest" /\ vpc' \in {"error", "abi"}
      \/ vpc = "abi" /\ vpc' \in {"lock", "abi_digest"}
      \/ vpc = "abi_digest" /\ vpc' \in {"error", "lock"}
      \/ vpc = "lock" /\ vpc' \in {"valid", "invalid", "lock_digest"}
      \/ vpc = "lock_digest" /\ vpc' \in {"error", "valid", "invalid"}
  BY DEF P!VerifyStep, P!LookSkill, P!LookAbi, P!LookAtLock, P!VanishedDigest, P!VerifySkill,
     P!VerifyAbi, P!VerifyLockDigest, P!Concluded
<1>2. /\ Left("skill") = 1..6 /\ Left("skill_digest") = 2..6 /\ Left("abi") = 3..6
      /\ Left("abi_digest") = 4..6 /\ Left("lock") = 5..6 /\ Left("lock_digest") = 6..6
      /\ \A v \in {"error", "valid", "invalid"} : Left(v) = {}
  <2>1. /\ VerifyOrder[1] = "skill" /\ VerifyOrder[2] = "skill_digest" /\ VerifyOrder[3] = "abi"
        /\ VerifyOrder[4] = "abi_digest" /\ VerifyOrder[5] = "lock"
        /\ VerifyOrder[6] = "lock_digest"
    BY DEF VerifyOrder
  <2>2. 1..6 = {1, 2, 3, 4, 5, 6}
    OBVIOUS
  <2> HIDE DEF VerifyOrder
  <2>3. Left("skill") = 1..6 /\ Left("skill_digest") = 2..6 BY <2>1, <2>2
  <2>4. Left("abi") = 3..6 /\ Left("abi_digest") = 4..6 BY <2>1, <2>2
  <2>5. Left("lock") = 5..6 /\ Left("lock_digest") = 6..6 BY <2>1, <2>2
  <2>6. \A v \in {"error", "valid", "invalid"} : Left(v) = {} BY <2>1, <2>2
  <2> QED BY <2>3, <2>4, <2>5, <2>6
<1>3. VerifyLeft = Left(vpc) /\ VerifyLeft' = Left(vpc') BY DEF VerifyLeft
<1> HIDE DEF Left
<1> QED BY <1>1, <1>2, <1>3 DEF Certify!Smaller

LEMMA LockCommandGoesForward ==
    ASSUME IInv, RInv, RunLockCommand
    PROVE  ReleaseGoesForward
<1>1. /\ Position' = Position /\ stage' = stage /\ Engineer \in Procs /\ TypeOK
  BY LockCommandFrame, ReleaseAssumption DEF Position, IInv
<1>2. CASE stage = "lock" /\ pc[Engineer] = "idle" /\ StartLock(Engineer)
  <2>1. pc'[Engineer] = "scan" BY <1>1, <1>2 DEF StartLock, BeginScan, TypeOK
  <2> QED BY <1>1, <1>2, <2>1 DEF ReleaseGoesForward, Waiting
<1>3. CASE stage = "verify-lock" /\ cmd[Engineer] = "lock" /\ StartVerify(Engineer, "verify_lock")
  <2>1. cmd'[Engineer] = "verify_lock"
    BY <1>1, <1>3 DEF StartVerify, BeginScan, Begin, TypeOK
  <2> QED BY <1>1, <1>3, <2>1 DEF ReleaseGoesForward, Waiting
<1>4. CASE Step(Engineer)
  <2>1. Active(Engineer)
    BY <1>4 DEF Step, List, ReadFile, ReadVanished, OpenLock, WriteLock, WriteOrphan, Compare,
       Readable, AllRead, Running, Active
  <2>2. stage \in {"lock", "verify-lock"} /\ ~Waiting
    BY <2>1, WhereCommandsRun DEF Active
  <2>3. Certify!Smaller(Todo(Engineer)', Todo(Engineer))
    BY <1>1, <1>4, <2>1, StepShrinksTodo DEF Certify!Smaller
  <2>4. cmd' = cmd /\ pc'[Engineer] # "idle"
    BY <1>1, <1>4, <2>1
       DEF Step, List, ReadFile, ReadVanished, OpenLock, WriteLock, WriteOrphan, Compare, End,
           TypeOK, Active, Running
  <2> QED BY <1>1, <2>2, <2>3, <2>4 DEF ReleaseGoesForward, Waiting
<1> QED BY <1>2, <1>3, <1>4 DEF RunLockCommand

LEMMA CertifyCommandGoesForward ==
    ASSUME RInv, RunCertifyCommand
    PROVE  ReleaseGoesForward
<1>1. Position' = Position /\ stage' = stage
  BY DEF RunCertifyCommand, Position
<1>2. CASE stage = "certify" /\ cpc = "idle" /\ Certify!StartCertify
  BY <1>1, <1>2 DEF Certify!StartCertify, ReleaseGoesForward, Waiting
<1>3. CASE Certify!CertifyStep
  <2>1. P!CertifyStep BY <1>3, SameCommands
  <2>2. cpc \in Certify!CertifyRunning /\ stage = "certify" /\ ~Waiting /\ cpc' # "idle"
    BY <2>1, Assumed, P!CertifyStepFacts, WhereCommandsRun, SameTerms
  <2>3. Certify!GoesForward BY <2>1, Assumed, P!CertifyStepGoesForward, SameTerms
  <2> QED BY <1>1, <2>2, <2>3 DEF ReleaseGoesForward, Waiting
<1>4. CASE stage = "verify-certificate" /\ vpc = "idle" /\ Certify!StartVerifyCertificate
  BY <1>1, <1>4 DEF Certify!StartVerifyCertificate, ReleaseGoesForward, Waiting
<1>5. CASE Certify!VerifyStep
  <2>1. P!VerifyStep /\ UNCHANGED changes BY <1>5, SameCommands DEF RunCertifyCommand
  <2>2. stage = "verify-certificate" /\ ~Waiting /\ vpc' # "idle"
    BY <2>1, Assumed, P!VerifyStepFacts, WhereCommandsRun
  <2> QED BY <1>1, <2>1, <2>2, VerifyStepGoesForward DEF ReleaseGoesForward, Waiting
<1> QED BY <1>2, <1>3, <1>4, <1>5 DEF RunCertifyCommand

LEMMA ProceedGoesForward ==
    ASSUME Proceed
    PROVE  ReleaseGoesForward
<1>1. \/ stage = "lock" /\ stage' \in {"certify", "stopped"}
      \/ stage = "certify" /\ stage' \in {"verify-lock", "stopped"}
      \/ stage = "verify-lock" /\ stage' \in {"verify-certificate", "stopped"}
      \/ stage = "verify-certificate" /\ stage' \in {"released", "stopped"}
  BY StagesInOrder DEF Proceed
<1>2. /\ stage = "lock" => Position = 1
      /\ stage = "certify" => Position = 2
      /\ stage = "verify-lock" => Position = 3
      /\ stage = "verify-certificate" => Position = 4
  BY StagePositions DEF Position
<1>3. /\ stage' = "certify" => Position' = 2
      /\ stage' = "verify-lock" => Position' = 3
      /\ stage' = "verify-certificate" => Position' = 4
      /\ stage' \in {"released", "stopped"} => Position' = 5
  BY StagePositions DEF Position
<1> QED BY <1>1, <1>2, <1>3 DEF ReleaseGoesForward

(* However many files and bindings there are and whatever is edited, each   *)
(* step of a release leaves less of it to do, so that for ReleaseEnds there *)
(* is nothing left but that the steps are taken (cmd_lock, cmd_certify,     *)
(* cmd_verify_lock, cmd_verify_certificate).                                *)
THEOREM ReleaseAlwaysGoesForward == ReleaseSpec => ReleaseNeverStartsOver
<1> DEFINE Onward == IF RunLockCommand \/ RunCertifyCommand \/ Proceed
                     THEN ReleaseGoesForward
                     ELSE UNCHANGED <<stage, cmd, pc, unlisted, listed, cpc, unbound, untried,
                                      unread, vpc>>
<1>1. IInv /\ RInv /\ [ReleaseNext]_releaseVars => [Onward]_releaseVars
  <2>1. ASSUME NEW f \in Locked, NEW c \in Bytes, AuthorEdits(f, c)
        PROVE  UNCHANGED <<stage, cmd, pc, unlisted, listed, cpc, unbound, untried, unread, vpc>>
    BY <2>1 DEF AuthorEdits, Edit, local, certifyVars
  <2> QED
    BY <2>1, LockCommandGoesForward, CertifyCommandGoesForward, ProceedGoesForward
       DEF ReleaseNext
<1> QED BY <1>1, ReleaseInvariance, PTL DEF ReleaseSpec, ReleaseNeverStartsOver
=============================================================================
