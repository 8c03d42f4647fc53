---------------------------- MODULE SkillCertify ----------------------------
(***************************************************************************)
(* `sabi certify` and `sabi verify-certificate` over one skill directory.  *)
(* Both read it file by file and neither takes a lock; the files and       *)
(* skill.lock belong to somebody else, the author or `sabi lock`.          *)
(*                                                                         *)
(* certify evaluates the cases of conformance/invariants.yaml once for     *)
(* each binding profile, and takes the digests last.  The cases load       *)
(* degradation.yaml and the profile of their base runtime anew, each for   *)
(* itself, so that two cases can judge two versions of a file.             *)
(***************************************************************************)
EXTENDS SkillTree, EvidenceClass

CONSTANTS
    SkillMd,        \* SKILL.md
    Abi,            \* skill.abi.yaml
    Invariants,     \* conformance/invariants.yaml
    Effects,        \* effects.yaml
    Degradation,    \* degradation.yaml
    Bindings,       \* bindings/*.yaml
    Schemas,        \* schemas/*.json
    Broken,         \* contents that do not load as YAML of the right shape
    Cases,          \* entries an invariants.yaml can have
    CoverCases,     \* the entries lock-covers-contract
    Profiled,       \* the entries whose capabilities are those of the profile
    Own,            \* the files that a case loads itself
    Listed,         \* the entries of an invariants.yaml, by its content
    Passes(_, _, _),  \* whether a case passes with a profile on what was read
    NoCert,         \* there is no certificate document
    Initial,        \* what each file can hold at first
    Choices,        \* what the environment can make of it
    LockChoices,    \* what the environment can make of skill.lock
    MaxChanges      \* bound on the changes the environment makes

(* What certify judges; SKILL.md and skill.abi.yaml are only digested.      *)
Judged == {Invariants, Effects, Degradation} \cup Bindings

ASSUME CertifyAssumption ==
    /\ {SkillMd, Abi} \cup Judged \cup Schemas \subseteq Locked
    /\ {Invariants, Effects, Degradation} \cap Bindings = {}
    /\ Invariants # Effects /\ Degradation \notin {Invariants, Effects}
    /\ CoverCases \cup Profiled \subseteq Cases
    /\ Own \in [Cases -> SUBSET ({Degradation} \cup Bindings)]
    /\ Listed \in [Contents -> SUBSET Cases]
    /\ Broken \subseteq Contents
    /\ Initial \in [Locked -> SUBSET Bytes]
    /\ Choices \in [Locked -> SUBSET Bytes]
    /\ LockChoices \subseteq LockStates
    /\ MaxChanges \in Nat

VARIABLES
    files, lock,
    cert,       \* attestations/portability.json
    cpc,        \* where certify is, or how it ended
    unbound,    \* binding files certify has still to evaluate
    profile,    \* the content of the one it is evaluating
    untried,    \* cases still to be evaluated for it
    trying,     \* the case it is at
    unread,     \* files still to be loaded for this case
    held,       \* what evaluate_invariants has in memory
    pins,       \* the table that lock-covers-contract has read
    draft,      \* the certificate certify is building
    basis,      \* history: the contents certify judged, per path
    vpc,        \* where verify-certificate is, or how it ended
    subject,    \* the certificate it verifies
    objection,  \* it has found a problem
    vseen,      \* history: what the digested files held while it ran
    changes     \* how often the environment has changed something

dir == <<files, lock>>
caseVars == <<profile, untried, trying, unread, held, pins>>
certifyVars == <<cpc, unbound, caseVars, draft, basis>>
verifyVars == <<vpc, subject, objection, vseen>>
certVars == <<cert, certifyVars, verifyVars>>
allVars == <<dir, certVars, changes>>

NoCase == "none"
NoBasis == [f \in Judged |-> {}]
NothingHeld == [f \in Judged |-> NoFile]

(* "bound" and "covers" are history: the profiles that were listed, and     *)
(* what lock-covers-contract looked at.  "start" and "at" count the changes *)
(* there had been when certify started and when it took the first digest.   *)
NoDraft == [skill |-> NoFile, abi |-> NoFile, lock |-> NoFile, passed |-> 0, failed |-> 0,
            bound |-> {}, covers |-> {}, start |-> 0, at |-> 0]

(* The document certify writes.  Its run_receipts are empty and it is       *)
(* unsigned.  The last five fields are not in the file: they remember what  *)
(* was judged, and when.                                                    *)
BuildCertificate(d, b) ==
    [skill_digest |-> d.skill, abi_digest |-> d.abi, lock_digest |-> d.lock,
     cases |-> d.passed + d.failed, passed |-> d.passed, failed |-> d.failed,
     evidence_class |-> ClassifyEvidence(<<>>, FALSE, d.failed = 0),
     run_receipts |-> <<>>, signed |-> FALSE,
     basis |-> b, bound |-> d.bound, covers |-> d.covers, start |-> d.start, at |-> d.at]

IsDocument(c) == c \notin {NoCert, Empty}

Evaluating == {"evaluate", "invariants", "effects", "cases", "case", "pins", "schemas"}
CertifyRunning == {"degradation", "bindings", "parse", "skill", "abi", "look", "lock",
                   "open", "write"} \cup Evaluating
VerifyRunning == {"skill", "skill_digest", "abi", "abi_digest", "lock", "lock_digest"}

(* The local variables of evaluate_invariants go.                           *)
StopEvaluating ==
    /\ profile' = NoFile /\ untried' = {} /\ trying' = NoCase /\ unread' = {}
    /\ held' = NothingHeld /\ pins' = NoFile

CertInit ==
    /\ cert = NoCert
    /\ cpc = "idle" /\ unbound = {} /\ draft = NoDraft /\ basis = NoBasis
    /\ profile = NoFile /\ untried = {} /\ trying = NoCase /\ unread = {}
    /\ held = NothingHeld /\ pins = NoFile
    /\ vpc = "idle" /\ subject = NoCert /\ objection = FALSE
    /\ vseen = [skill |-> {}, abi |-> {}, lock |-> {}]

----------------------------------------------------------------------------
(* The cases.                                                               *)

View(k) == {Invariants, Effects} \cup Own[k]

(* The case passes with a profile that holds p, on the contents v.          *)
Holds(k, p, v) ==
    Passes(k, IF k \in Profiled THEN p ELSE NoFile, [f \in View(k) |-> v[f]])

(* lock-covers-contract looks at the names in the lock, not at the digests. *)
Covers(table, schemas) ==
    table # NoFile /\ \A f \in {Abi, Effects, Degradation} \cup schemas : table[f] # NoFile

(* The schemas that a glob finds.                                           *)
Present == {f \in Schemas : files[f] # NoFile}

----------------------------------------------------------------------------
(* sabi certify.                                                            *)

(* Mutated: open the certificate before the evaluation.                     *)
StartCertifyOpensFirst ==
    /\ cpc \notin CertifyRunning
    /\ cpc' = IF lock = NoFile THEN "refused" ELSE "degradation"
    /\ cert' = IF lock = NoFile THEN cert ELSE Empty
    /\ unbound' = {} /\ StopEvaluating /\ basis' = NoBasis
    /\ draft' = [NoDraft EXCEPT !.start = changes]
    /\ UNCHANGED <<dir, verifyVars>>

(* It asks only that a skill.lock exists.                                   *)
StartCertify ==
    /\ cpc \notin CertifyRunning
    /\ cpc' = IF lock = NoFile THEN "refused" ELSE "degradation"
    /\ unbound' = {} /\ StopEvaluating /\ basis' = NoBasis
    /\ draft' = [NoDraft EXCEPT !.start = changes]
    /\ UNCHANGED <<dir, cert, verifyVars>>

Loadable(f) == files[f] \in Contents \ Broken

(* What a case loads itself: a profile before degradation.yaml.             *)
NextOwn(f) == f \in unread /\ (f = Degradation => unread = {f})

(* Mutated: a case waits for its files.                                     *)
UnableOutsideCases ==
    \/ cpc = "degradation" /\ ~Loadable(Degradation)
    \/ cpc = "evaluate" /\ \E b \in unbound : ~Loadable(b)
    \/ cpc = "invariants" /\ ~Loadable(Invariants)
    \/ cpc = "effects" /\ ~Loadable(Effects)
    \/ cpc = "pins" /\ lock \notin Tables
    \/ cpc = "parse" /\ ~Loadable(Abi)
    \/ cpc = "skill" /\ files[SkillMd] = NoFile
    \/ cpc = "abi" /\ files[Abi] = NoFile
    \/ cpc = "lock" /\ lock = NoFile

(* A file that certify needs now is not there or does not load.             *)
Unable ==
    \/ cpc = "degradation" /\ ~Loadable(Degradation)
    \/ cpc = "evaluate" /\ \E b \in unbound : ~Loadable(b)
    \/ cpc = "invariants" /\ ~Loadable(Invariants)
    \/ cpc = "effects" /\ ~Loadable(Effects)
    \/ cpc = "case" /\ \E f \in Judged : NextOwn(f) /\ ~Loadable(f)
    \/ cpc = "pins" /\ lock \notin Tables
    \/ cpc = "parse" /\ ~Loadable(Abi)
    \/ cpc = "skill" /\ files[SkillMd] = NoFile
    \/ cpc = "abi" /\ files[Abi] = NoFile
    \/ cpc = "lock" /\ lock = NoFile

(* An exception, exit code 2: the certificate on disk stays as it was.      *)
CertifyError ==
    /\ Unable
    /\ cpc' = "error"
    /\ unbound' = {} /\ StopEvaluating /\ draft' = NoDraft /\ basis' = NoBasis
    /\ UNCHANGED <<dir, cert, verifyVars>>

(* This read only selects the tier that the certificate mentions.           *)
ReadDegradation ==
    /\ cpc = "degradation"
    /\ Loadable(Degradation)
    /\ cpc' = "bindings"
    /\ UNCHANGED <<dir, cert, unbound, caseVars, draft, basis, verifyVars>>

ListBindings ==
    /\ cpc = "bindings"
    /\ unbound' = {b \in Bindings : files[b] # NoFile}
    /\ draft' = [draft EXCEPT !.bound = unbound']
    /\ cpc' = "evaluate"
    /\ UNCHANGED <<dir, cert, caseVars, basis, verifyVars>>

Judge(f) == [basis EXCEPT ![f] = @ \cup {files[f]}]

(* Mutated: the results of a binding replace those of the ones before.      *)
ReadBindingReplaces(b) ==
    /\ cpc = "evaluate"
    /\ b \in unbound
    /\ Loadable(b)
    /\ unbound' = unbound \ {b}
    /\ profile' = files[b]
    /\ basis' = Judge(b)
    /\ draft' = [draft EXCEPT !.passed = 0, !.failed = 0]
    /\ cpc' = "invariants"
    /\ UNCHANGED <<dir, cert, untried, trying, unread, held, pins, verifyVars>>

(* The profiles come in the order of their names, which can be any.         *)
ReadBinding(b) ==
    /\ cpc = "evaluate"
    /\ b \in unbound
    /\ Loadable(b)
    /\ unbound' = unbound \ {b}
    /\ profile' = files[b]
    /\ basis' = Judge(b)
    /\ cpc' = "invariants"
    /\ UNCHANGED <<dir, cert, untried, trying, unread, held, pins, draft, verifyVars>>

(* evaluate_invariants reads the two files once for each binding ...        *)
ReadInvariants ==
    /\ cpc = "invariants"
    /\ Loadable(Invariants)
    /\ held' = [held EXCEPT ![Invariants] = files[Invariants]]
    /\ untried' = Listed[files[Invariants]]
    /\ basis' = Judge(Invariants)
    /\ cpc' = "effects"
    /\ UNCHANGED <<dir, cert, unbound, profile, trying, unread, pins, draft, verifyVars>>

ReadEffects ==
    /\ cpc = "effects"
    /\ Loadable(Effects)
    /\ held' = [held EXCEPT ![Effects] = files[Effects]]
    /\ basis' = Judge(Effects)
    /\ cpc' = "cases"
    /\ UNCHANGED <<dir, cert, unbound, profile, untried, trying, unread, pins, draft, verifyVars>>

(* ... and then each case loads its own.                                    *)
TryCase(k) ==
    /\ cpc = "cases"
    /\ k \in untried \ CoverCases
    /\ untried' = untried \ {k}
    /\ trying' = k
    /\ unread' = Own[k]
    /\ cpc' = "case"
    /\ UNCHANGED <<dir, cert, unbound, profile, held, pins, draft, basis, verifyVars>>

ReadOwn(f) ==
    /\ cpc = "case"
    /\ NextOwn(f)
    /\ Loadable(f)
    /\ unread' = unread \ {f}
    /\ held' = [held EXCEPT ![f] = files[f]]
    /\ basis' = Judge(f)
    /\ UNCHANGED <<dir, cert, cpc, unbound, profile, untried, trying, pins, draft, verifyVars>>

Count(d, ok) == IF ok THEN [d EXCEPT !.passed = @ + 1] ELSE [d EXCEPT !.failed = @ + 1]

JudgeCase ==
    /\ cpc = "case"
    /\ unread = {}
    /\ draft' = Count(draft, Holds(trying, profile, held))
    /\ held' = [f \in Judged |-> IF f \in {Invariants, Effects} THEN held[f] ELSE NoFile]
    /\ trying' = NoCase
    /\ cpc' = "cases"
    /\ UNCHANGED <<dir, cert, unbound, profile, untried, unread, pins, basis, verifyVars>>

(* lock-covers-contract fails without a skill.lock, reads one that is there *)
(* and globs the schemas last.                                              *)
CoverVerdict(table, schemas) ==
    draft' = Count([draft EXCEPT !.covers = @ \cup {[lock |-> table, schemas |-> schemas]}],
                   Covers(table, schemas))

LookForLock(k) ==
    /\ cpc = "cases"
    /\ k \in untried \cap CoverCases
    /\ untried' = untried \ {k}
    /\ IF lock = NoFile
       THEN cpc' = "cases" /\ trying' = NoCase /\ CoverVerdict(NoFile, Present)
       ELSE cpc' = "pins" /\ trying' = k /\ draft' = draft
    /\ UNCHANGED <<dir, cert, unbound, profile, unread, held, pins, basis, verifyVars>>

ReadPins ==
    /\ cpc = "pins"
    /\ lock \in Tables
    /\ pins' = lock
    /\ cpc' = "schemas"
    /\ UNCHANGED <<dir, cert, unbound, profile, untried, trying, unread, held, draft, basis,
                   verifyVars>>

ListSchemas ==
    /\ cpc = "schemas"
    /\ CoverVerdict(pins, Present)
    /\ pins' = NoFile
    /\ trying' = NoCase
    /\ cpc' = "cases"
    /\ UNCHANGED <<dir, cert, unbound, profile, untried, unread, held, basis, verifyVars>>

(* Mutated: the loop lists the bindings again after each of them.           *)
EndBindingRelists ==
    /\ cpc = "cases"
    /\ untried = {}
    /\ unbound' = {b \in Bindings : files[b] # NoFile}
    /\ cpc' = "evaluate"
    /\ StopEvaluating
    /\ UNCHANGED <<dir, cert, draft, basis, verifyVars>>

EndBinding ==
    /\ cpc = "cases"
    /\ untried = {}
    /\ cpc' = "evaluate"
    /\ StopEvaluating
    /\ UNCHANGED <<dir, cert, unbound, draft, basis, verifyVars>>

EndEvaluation ==
    /\ cpc = "evaluate"
    /\ unbound = {}
    /\ cpc' = "parse"
    /\ UNCHANGED <<dir, cert, unbound, caseVars, draft, basis, verifyVars>>

(* build_certificate parses skill.abi.yaml for its version, and digests it  *)
(* later.                                                                   *)
ParseAbi ==
    /\ cpc = "parse"
    /\ Loadable(Abi)
    /\ cpc' = "skill"
    /\ UNCHANGED <<dir, cert, unbound, caseVars, draft, basis, verifyVars>>

(* It digests what is on disk now, not what was judged.                     *)
DigestSkill ==
    /\ cpc = "skill"
    /\ files[SkillMd] # NoFile
    /\ draft' = [draft EXCEPT !.skill = files[SkillMd], !.at = changes]
    /\ cpc' = "abi"
    /\ UNCHANGED <<dir, cert, unbound, caseVars, basis, verifyVars>>

(* Mutated: the digest of a file that is not there is null.                 *)
DigestAbiOrNull ==
    /\ cpc = "abi"
    /\ draft' = [draft EXCEPT !.abi = files[Abi]]
    /\ cpc' = "look"
    /\ UNCHANGED <<dir, cert, unbound, caseVars, basis, verifyVars>>

(* Mutated: the digest of the wrong file.                                   *)
DigestAbiOfSkill ==
    /\ cpc = "abi"
    /\ files[Abi] # NoFile
    /\ draft' = [draft EXCEPT !.abi = draft.skill]
    /\ cpc' = "look"
    /\ UNCHANGED <<dir, cert, unbound, caseVars, basis, verifyVars>>

DigestAbi ==
    /\ cpc = "abi"
    /\ files[Abi] # NoFile
    /\ draft' = [draft EXCEPT !.abi = files[Abi]]
    /\ cpc' = "look"
    /\ UNCHANGED <<dir, cert, unbound, caseVars, basis, verifyVars>>

(* lock_digest stays null when skill.lock has gone since certify started.   *)
LookLock ==
    /\ cpc = "look"
    /\ cpc' = IF lock = NoFile THEN "open" ELSE "lock"
    /\ UNCHANGED <<dir, cert, unbound, caseVars, draft, basis, verifyVars>>

DigestLock ==
    /\ cpc = "lock"
    /\ lock # NoFile
    /\ draft' = [draft EXCEPT !.lock = lock]
    /\ cpc' = "open"
    /\ UNCHANGED <<dir, cert, unbound, caseVars, basis, verifyVars>>

OpenCert ==
    /\ cpc = "open"
    /\ cert' = Empty
    /\ cpc' = "write"
    /\ UNCHANGED <<dir, unbound, caseVars, draft, basis, verifyVars>>

(* Mutated: exit code 0 whatever was found.                                 *)
WriteCertExitZero ==
    /\ cpc = "write"
    /\ cert' = BuildCertificate(draft, basis)
    /\ cpc' = "certified"
    /\ unbound' = {} /\ StopEvaluating /\ draft' = NoDraft /\ basis' = NoBasis
    /\ UNCHANGED <<dir, verifyVars>>

(* Exit code 0, or 1 when a case failed.                                    *)
WriteCert ==
    /\ cpc = "write"
    /\ cert' = BuildCertificate(draft, basis)
    /\ cpc' = IF draft.failed = 0 THEN "certified" ELSE "failing"
    /\ unbound' = {} /\ StopEvaluating /\ draft' = NoDraft /\ basis' = NoBasis
    /\ UNCHANGED <<dir, verifyVars>>

(* The process is killed; one that was writing leaves a truncated file.     *)
CrashCertify ==
    /\ cpc \in CertifyRunning
    /\ cpc' = "idle"
    /\ unbound' = {} /\ StopEvaluating /\ draft' = NoDraft /\ basis' = NoBasis
    /\ UNCHANGED <<dir, cert, verifyVars>>

CertifyStep ==
    \/ CertifyError
    \/ ReadDegradation \/ ListBindings
    \/ \E b \in Bindings : ReadBinding(b)
    \/ ReadInvariants \/ ReadEffects
    \/ \E k \in Cases : TryCase(k) \/ LookForLock(k)
    \/ \E f \in Judged : ReadOwn(f)
    \/ JudgeCase \/ ReadPins \/ ListSchemas
    \/ EndBinding \/ EndEvaluation
    \/ ParseAbi \/ DigestSkill \/ DigestAbi \/ LookLock \/ DigestLock
    \/ OpenCert \/ WriteCert

----------------------------------------------------------------------------
(* sabi verify-certificate.                                                 *)

(* A certificate that is missing or is not JSON: an exception, exit code 2. *)
(* One that certify wrote has no receipts to look into.                     *)
StartVerifyCertificate ==
    /\ vpc \notin VerifyRunning
    /\ subject' = cert
    /\ vpc' = IF IsDocument(cert) THEN "skill" ELSE "error"
    /\ objection' = (IsDocument(cert) /\ ClaimProblem(cert))
    /\ vseen' = [skill |-> {files[SkillMd]}, abi |-> {files[Abi]}, lock |-> {lock}]
    /\ UNCHANGED <<dir, cert, certifyVars>>

Concluded(found) == IF found THEN "invalid" ELSE "valid"

(* Without SKILL.md the other digests are not looked at.                    *)
LookSkill ==
    /\ vpc = "skill"
    /\ vpc' = IF files[SkillMd] = NoFile THEN "invalid" ELSE "skill_digest"
    /\ objection' = (objection \/ files[SkillMd] = NoFile)
    /\ UNCHANGED <<dir, cert, certifyVars, subject, vseen>>

(* A skill.abi.yaml that is missing is not an objection ...                 *)
LookAbi ==
    /\ vpc = "abi"
    /\ vpc' = IF files[Abi] = NoFile THEN "lock" ELSE "abi_digest"
    /\ UNCHANGED <<dir, cert, certifyVars, subject, objection, vseen>>

(* ... nor is a missing skill.lock, nor a certificate without a lock digest.*)
LookAtLock ==
    /\ vpc = "lock"
    /\ vpc' = IF NoFile \in {lock, subject.lock_digest} THEN Concluded(objection)
              ELSE "lock_digest"
    /\ UNCHANGED <<dir, cert, certifyVars, subject, objection, vseen>>

(* The digest of a file that has gone since the look: an exception.         *)
VanishedDigest ==
    /\ \/ vpc = "skill_digest" /\ files[SkillMd] = NoFile
       \/ vpc = "abi_digest" /\ files[Abi] = NoFile
       \/ vpc = "lock_digest" /\ lock = NoFile
    /\ vpc' = "error"
    /\ UNCHANGED <<dir, cert, certifyVars, subject, objection, vseen>>

VerifySkill ==
    /\ vpc = "skill_digest"
    /\ files[SkillMd] # NoFile
    /\ vpc' = "abi"
    /\ objection' = (objection \/ subject.skill_digest # files[SkillMd])
    /\ UNCHANGED <<dir, cert, certifyVars, subject, vseen>>

VerifyAbi ==
    /\ vpc = "abi_digest"
    /\ files[Abi] # NoFile
    /\ vpc' = "lock"
    /\ objection' = (objection \/ subject.abi_digest # files[Abi])
    /\ UNCHANGED <<dir, cert, certifyVars, subject, vseen>>

(* Mutated: the last comparison decides alone.                              *)
VerifyLockDigestForgets ==
    /\ vpc = "lock_digest"
    /\ lock # NoFile
    /\ objection' = (subject.lock_digest # lock)
    /\ vpc' = Concluded(objection')
    /\ UNCHANGED <<dir, cert, certifyVars, subject, vseen>>

VerifyLockDigest ==
    /\ vpc = "lock_digest"
    /\ lock # NoFile
    /\ objection' = (objection \/ subject.lock_digest # lock)
    /\ vpc' = Concluded(objection')
    /\ UNCHANGED <<dir, cert, certifyVars, subject, vseen>>

VerifyStep ==
    \/ LookSkill \/ LookAbi \/ LookAtLock
    \/ VanishedDigest \/ VerifySkill \/ VerifyAbi \/ VerifyLockDigest

----------------------------------------------------------------------------
(* The commands on their own, in a directory that others change.            *)

(* The history of a running verify-certificate takes every change in.       *)
VerifyNotices ==
    vseen' = IF vpc \in VerifyRunning
             THEN [skill |-> vseen.skill \cup {files'[SkillMd]},
                   abi |-> vseen.abi \cup {files'[Abi]},
                   lock |-> vseen.lock \cup {lock'}]
             ELSE vseen

Change ==
    /\ changes < MaxChanges
    /\ changes' = changes + 1
    /\ VerifyNotices
    /\ UNCHANGED <<cert, certifyVars, vpc, subject, objection>>

ChangeFile(f, c) ==
    /\ files[f] # c
    /\ c \in Choices[f]
    /\ files' = [files EXCEPT ![f] = c]
    /\ lock' = lock
    /\ Change

ChangeLock(v) ==
    /\ lock # v
    /\ lock' = v
    /\ files' = files
    /\ Change

Init ==
    /\ files \in {d \in [Locked -> Bytes] : \A f \in Locked : d[f] \in Initial[f]}
    /\ lock \in LockChoices
    /\ CertInit
    /\ changes = 0

Next ==
    \/ \E f \in Locked, c \in Bytes : ChangeFile(f, c)
    \/ \E v \in LockChoices : ChangeLock(v)
    \/ /\ \/ StartCertify \/ CertifyStep \/ CrashCertify
          \/ StartVerifyCertificate \/ VerifyStep
       /\ UNCHANGED changes

(* A command that has started goes on; nobody has to start one.             *)
Spec ==
    /\ Init
    /\ [][Next]_allVars
    /\ WF_allVars(CertifyStep /\ UNCHANGED changes)
    /\ WF_allVars(VerifyStep /\ UNCHANGED changes)

----------------------------------------------------------------------------
(* What must hold.                                                          *)

CoverLooks == [lock : LockStates, schemas : SUBSET Schemas]

Drafts ==
    [skill : Bytes, abi : Bytes, lock : LockStates, passed : Nat, failed : Nat,
     bound : SUBSET Bindings, covers : SUBSET CoverLooks, start : 0..MaxChanges, at : 0..MaxChanges]

Certificates ==
    [skill_digest : Contents, abi_digest : Contents, lock_digest : LockStates,
     cases : Nat, passed : Nat, failed : Nat, evidence_class : ClassNames,
     run_receipts : {<<>>}, signed : {FALSE}, basis : [Judged -> SUBSET Contents],
     bound : SUBSET Bindings, covers : SUBSET CoverLooks, start : 0..MaxChanges, at : 0..MaxChanges]

CertFile == Certificates \cup {NoCert, Empty}

(* Every variable keeps its type; in particular no certificate is written   *)
(* with the digest of a file that was not there.                            *)
TypeOK ==
    /\ files \in [Locked -> Bytes]
    /\ lock \in LockStates
    /\ cert \in CertFile
    /\ cpc \in {"idle", "refused", "error", "certified", "failing"} \cup CertifyRunning
    /\ unbound \subseteq Bindings
    /\ profile \in Bytes
    /\ untried \subseteq Cases
    /\ trying \in Cases \cup {NoCase}
    /\ unread \subseteq Judged
    /\ held \in [Judged -> Bytes]
    /\ pins \in LockStates
    /\ draft \in Drafts
    /\ basis \in [Judged -> SUBSET Contents]
    /\ vpc \in {"idle", "error", "valid", "invalid"} \cup VerifyRunning
    /\ subject \in CertFile
    /\ objection \in BOOLEAN
    /\ vseen \in [skill : SUBSET Bytes, abi : SUBSET Bytes, lock : SUBSET LockStates]
    /\ changes \in 0..MaxChanges

(* What case k can have been judged on, when the invariants.yaml that lists *)
(* it was l, by a certify that has judged the contents c.basis.             *)
Readings(c, k, l) ==
    {v \in [View(k) -> Contents] :
        v[Invariants] = l /\ \A f \in View(k) : v[f] \in c.basis[f]}

CouldPass(c, b, k, l) ==
    IF k \in CoverCases THEN \E x \in c.covers : Covers(x.lock, x.schemas)
    ELSE \E p \in c.basis[b], v \in Readings(c, k, l) : Holds(k, p, v)

CouldFail(c, b, k, l) ==
    IF k \in CoverCases THEN \E x \in c.covers : ~Covers(x.lock, x.schemas)
    ELSE \E p \in c.basis[b], v \in Readings(c, k, l) : ~Holds(k, p, v)

EveryCasePassed(c, b) ==
    \E l \in c.basis[Invariants] : \A k \in Listed[l] : CouldPass(c, b, k, l)

SomeCaseFailed(c) ==
    \E b \in c.bound, l \in c.basis[Invariants] : \E k \in Listed[l] : CouldFail(c, b, k, l)

(* Every case passes with every profile on the directory as it is now.      *)
DirectoryConforms ==
    \A b \in {g \in Bindings : files[g] # NoFile} : \A k \in Listed[files[Invariants]] :
        IF k \in CoverCases THEN Covers(lock, Present) ELSE Holds(k, files[b], files)

(* The class of a certificate (cmd_certify, evaluate_invariants,            *)
(* build_certificate): STATIC_CONFORMANT if every listed case of every      *)
(* binding passed on contents that were read for it or for the other cases, *)
(* another class if one failed on such contents.  Where each file was read  *)
(* in one version only, that is the verdict on this version; where a file   *)
(* changed between two cases it need not be the verdict on any.  And if     *)
(* nothing has changed since certify started, the class is true of the      *)
(* directory: no failure in the middle of the cases of several bindings is  *)
(* lost on the way to it, and none is made up.                              *)
ClassReflectsJudgement ==
    IsDocument(cert) =>
        /\ IF cert.evidence_class = "STATIC_CONFORMANT"
           THEN \A b \in cert.bound : EveryCasePassed(cert, b)
           ELSE SomeCaseFailed(cert)
        /\ changes = cert.start =>
               (cert.evidence_class = "STATIC_CONFORMANT" <=> DirectoryConforms)

(* verify-certificate says VALID only if SKILL.md had the certified content *)
(* at some instant of the run, and skill.abi.yaml and skill.lock each had   *)
(* theirs or were missing.                                                  *)
ValidWitnessed ==
    vpc = "valid"
        => /\ subject.skill_digest \in vseen.skill
           /\ vseen.abi \cap {subject.abi_digest, NoFile} # {}
           /\ \/ subject.lock_digest = NoFile
              \/ vseen.lock \cap {subject.lock_digest, NoFile} # {}

(* It says INVALID of a certificate that certify wrote only if somebody     *)
(* changed the skill since the first digest was taken, and one of the three *)
(* files differed from the certificate during the run: build_certificate    *)
(* and verify_certificate digest the same files the same way.               *)
InvalidJustified ==
    vpc = "invalid"
        => /\ changes # subject.at
           /\ \/ vseen.skill # {subject.skill_digest}
              \/ vseen.abi # {subject.abi_digest}
              \/ vseen.lock # {subject.lock_digest}

(* A certificate that was there stays in place until a certify run has read *)
(* everything it needs: every failure on the way leaves it alone.           *)
OnlyCompleteRunsReplace ==
    [][cert' # cert => /\ cpc \in {"open", "write"}
                       /\ cpc = "open" => draft.skill # NoFile /\ draft.abi # NoFile
                       /\ cpc' \notin {"error", "refused"}]_allVars

(* How far certify has come ...                                             *)
PhaseOf == [degradation |-> 1, bindings |-> 2, parse |-> 4, skill |-> 5, abi |-> 6,
            look |-> 7, lock |-> 8, open |-> 9, write |-> 10]
Phase == IF cpc \in Evaluating THEN 3
         ELSE IF cpc \in CertifyRunning THEN PhaseOf[cpc] ELSE 11

(* ... and how far with one binding, as long as the cases left to be tried  *)
(* are the same.                                                            *)
PlaceOf == [invariants |-> 1, effects |-> 2, case |-> 3, pins |-> 3, schemas |-> 4,
            cases |-> 5, evaluate |-> 6]
Place == IF cpc \in Evaluating THEN PlaceOf[cpc] ELSE 0

Smaller(S, T) == S \subseteq T /\ S # T

(* Less to do: a later phase, or fewer bindings, or their list of cases has *)
(* been read, or fewer cases, or less of this one.                          *)
GoesForward ==
    \/ Phase' > Phase
    \/ Phase' = Phase /\ Smaller(unbound', unbound)
    \/ /\ Phase' = Phase /\ unbound' = unbound
       /\ \/ cpc = "invariants" /\ cpc' = "effects"
          \/ Smaller(untried', untried)
          \/ untried' = untried /\ Place' > Place
          \/ untried' = untried /\ Place' = Place /\ Smaller(unread', unread)

(* certify never starts over: each of its own steps leaves it less to do,   *)
(* and nothing anybody else does adds to it, such as a binding profile that *)
(* appears in the middle of the evaluation (cmd_certify).                   *)
CertifyNeverStartsOver ==
    [][\/ cpc \notin CertifyRunning
       \/ GoesForward
       \/ ~CertifyStep /\ UNCHANGED <<cpc, unbound, untried, unread>>]_allVars
============================================================================
