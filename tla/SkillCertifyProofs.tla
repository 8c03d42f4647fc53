------------------------- MODULE SkillCertifyProofs -------------------------
(***************************************************************************)
(* What certify and verify-certificate promise, for any directory and any  *)
(* number of cases, bindings and changes.  The invariant says what the     *)
(* cases evaluated so far are worth while the files go on changing, and    *)
(* that what certify read and digested can only be out of date when        *)
(* something has changed since.                                            *)
(***************************************************************************)
EXTENDS SkillCertify, TLAPS

----------------------------------------------------------------------------
(* The invariant: the cases.                                                *)

(* The part of a certificate that tells what was judged, as it is now.      *)
Sofar == [basis |-> basis, covers |-> draft.covers, bound |-> draft.bound]

(* evaluate_invariants runs, and where it has its contents.                 *)
CaseRunning == {"case", "pins", "schemas"}
ListRead == {"effects", "cases"} \cup CaseRunning
InBinding == {"invariants"} \cup ListRead

(* The cases of the list still to be concluded.                             *)
Pending == untried \cup (IF cpc \in CaseRunning THEN {trying} ELSE {})

(* What evaluate_invariants has in memory was read from the directory.      *)
HeldInv ==
    /\ unbound \subseteq draft.bound
    /\ cpc \in {"degradation", "bindings"} => draft.failed = 0
    /\ cpc \in CertifyRunning \ Evaluating => unbound = {}
    /\ cpc \in ListRead => /\ held[Invariants] \in basis[Invariants]
                           /\ Pending \subseteq Listed[held[Invariants]]
    /\ cpc \in ListRead \ {"effects"} => held[Effects] \in basis[Effects]
    /\ cpc = "case" => /\ trying \in Cases \ CoverCases
                       /\ unread \subseteq Own[trying]
                       /\ \A f \in Own[trying] \ unread : held[f] \in basis[f]
    /\ cpc \in {"pins", "schemas"} => trying \in CoverCases

(* g is the binding being evaluated: those before it passed, and so did the *)
(* cases tried with it.                                                     *)
Underway(g) ==
    /\ profile \in basis[g]
    /\ \A b \in (draft.bound \ unbound) \ {g} : EveryCasePassed(Sofar, b)
    /\ cpc \in ListRead =>
         \A k \in Listed[held[Invariants]] \ Pending :
            CouldPass(Sofar, g, k, held[Invariants])

(* One failure stays; as long as there is none, everything has passed.      *)
JudgedInv ==
    /\ draft.failed # 0 => SomeCaseFailed(Sofar)
    /\ draft.failed = 0 =>
         IF cpc \in InBinding
         THEN \E g \in draft.bound \ unbound : Underway(g)
         ELSE \A b \in draft.bound \ unbound : EveryCasePassed(Sofar, b)

----------------------------------------------------------------------------
(* The invariant: what was read and digested, and what has changed since.   *)

(* Nothing changed since certify started: it read what is on disk.          *)
OnDisk(c) ==
    /\ \A f \in Judged : c.basis[f] \subseteq {files[f]}
    /\ c.covers \subseteq {[lock |-> lock, schemas |-> Present]}

BoundOnDisk(c) == c.bound = {b \in Bindings : files[b] # NoFile}

QuietInv ==
    /\ draft.start <= changes
    /\ changes = draft.start =>
         /\ OnDisk(Sofar)
         /\ cpc = "schemas" => pins = lock
         /\ cpc \in CertifyRunning \ {"degradation", "bindings"} => BoundOnDisk(draft)

DigestInv ==
    /\ cpc \in {"abi", "look", "lock", "open", "write"} =>
         /\ draft.skill \in Contents
         /\ draft.at <= changes
         /\ changes = draft.at => draft.skill = files[SkillMd]
    /\ cpc \in {"look", "lock", "open", "write"} =>
         draft.abi \in Contents /\ (changes = draft.at => draft.abi = files[Abi])
    /\ cpc \notin {"open", "write"} => draft.lock = NoFile
    /\ cpc \in {"open", "write"} => (changes = draft.at => draft.lock = lock)

(* Nothing changed since the first digest: the digests are those on disk.   *)
Fresh(c) ==
    /\ c.at <= changes
    /\ changes = c.at => /\ c.skill_digest = files[SkillMd]
                         /\ c.abi_digest = files[Abi]
                         /\ c.lock_digest = lock

Undisturbed(c) ==
    /\ c.start <= changes
    /\ changes = c.start => OnDisk(c) /\ BoundOnDisk(c)

Justified(c) ==
    IF c.evidence_class = "STATIC_CONFORMANT"
    THEN \A b \in c.bound : EveryCasePassed(c, b)
    ELSE SomeCaseFailed(c)

(* What certify leaves on disk.                                             *)
SoundDocument(c) ==
    /\ c \in Certificates
    /\ ~ClaimProblem(c)
    /\ Justified(c)
    /\ Undisturbed(c)
    /\ Fresh(c)

DocumentInv == IsDocument(cert) => SoundDocument(cert)

(* One of the three files was seen to differ from the certificate.          *)
Differs ==
    \/ \E x \in vseen.skill : x # subject.skill_digest
    \/ \E x \in vseen.abi : x # subject.abi_digest
    \/ \E x \in vseen.lock : x # subject.lock_digest

SkillSeen == subject.skill_digest \in vseen.skill
AbiSeen == \E x \in vseen.abi : x \in {subject.abi_digest, NoFile}
LockSeen == subject.lock_digest = NoFile \/ \E x \in vseen.lock : x \in {subject.lock_digest, NoFile}

VerifyInv ==
    /\ vpc \in VerifyRunning \cup {"valid", "invalid"} => SoundDocument(subject)
    /\ vpc \in VerifyRunning =>
         files[SkillMd] \in vseen.skill /\ files[Abi] \in vseen.abi /\ lock \in vseen.lock
    /\ vpc \in {"abi", "abi_digest", "lock", "lock_digest"} /\ ~objection => SkillSeen
    /\ vpc \in {"lock", "lock_digest"} /\ ~objection => AbiSeen
    /\ vpc = "valid" => SkillSeen /\ AbiSeen /\ LockSeen
    /\ (vpc \in VerifyRunning /\ objection) \/ vpc = "invalid"
         => changes # subject.at /\ Differs

DraftInv == HeldInv /\ JudgedInv /\ QuietInv /\ DigestInv

IInv == TypeOK /\ DraftInv /\ DocumentInv /\ VerifyInv

----------------------------------------------------------------------------
(* Shapes.                                                                  *)

LEMMA WhereFilesAre ==
    ASSUME TypeOK
    PROVE  /\ files[SkillMd] \in Bytes /\ files[Abi] \in Bytes
           /\ \A f \in Judged : files[f] \in Bytes
           /\ NoFile \notin Contents
           /\ Present \in SUBSET Schemas
BY CertifyAssumption, TreeAssumption DEF TypeOK, Judged, Present

LEMMA Shapes ==
    ASSUME TypeOK
    PROVE  /\ draft.skill \in Bytes /\ draft.abi \in Bytes /\ draft.lock \in LockStates
           /\ draft.passed \in Nat /\ draft.failed \in Nat
           /\ draft.bound \subseteq Bindings /\ draft.covers \subseteq CoverLooks
           /\ draft.start \in 0..MaxChanges /\ draft.at \in 0..MaxChanges
           /\ basis \in [Judged -> SUBSET Contents]
           /\ Sofar.basis = basis /\ Sofar.covers = draft.covers /\ Sofar.bound = draft.bound
           /\ Invariants \in Judged /\ Effects \in Judged /\ Bindings \subseteq Judged
           /\ \A k \in Cases : View(k) \subseteq Judged
           /\ \A c \in Contents : Listed[c] \subseteq Cases
<1>1. draft \in Drafts BY DEF TypeOK
<1>2. /\ draft.skill \in Bytes /\ draft.abi \in Bytes /\ draft.lock \in LockStates
      /\ draft.passed \in Nat /\ draft.failed \in Nat
      /\ draft.bound \subseteq Bindings /\ draft.covers \subseteq CoverLooks
      /\ draft.start \in 0..MaxChanges /\ draft.at \in 0..MaxChanges
  BY <1>1 DEF Drafts
<1>3. \A k \in Cases : View(k) \subseteq Judged BY CertifyAssumption DEF View, Judged
<1>4. \A c \in Contents : Listed[c] \subseteq Cases BY CertifyAssumption
<1> QED BY <1>2, <1>3, <1>4 DEF TypeOK, Sofar, Judged

LEMMA EmptyDraft ==
    ASSUME NEW n \in 0..MaxChanges
    PROVE  /\ [NoDraft EXCEPT !.start = n] \in Drafts /\ NoDraft \in Drafts
           /\ NoBasis \in [Judged -> SUBSET Contents]
           /\ NothingHeld \in [Judged -> Bytes]
<1>1. MaxChanges \in Nat BY CertifyAssumption
<1>2. NoDraft \in Drafts BY <1>1 DEF NoDraft, Drafts, Bytes, LockStates
<1>3. [NoDraft EXCEPT !.start = n] \in Drafts BY <1>2 DEF Drafts
<1> QED BY <1>2, <1>3 DEF NoBasis, NothingHeld, Bytes

----------------------------------------------------------------------------
(* What was judged stays judged.                                            *)

(* More contents read, and more looks at skill.lock, take nothing back.     *)
LEMMA Grows ==
    ASSUME NEW c, NEW d,
           \A f \in Judged : c.basis[f] \subseteq d.basis[f],
           c.covers \subseteq d.covers
    PROVE  /\ \A b \in Bindings, k \in Cases : \A l :
                /\ CouldPass(c, b, k, l) => CouldPass(d, b, k, l)
                /\ CouldFail(c, b, k, l) => CouldFail(d, b, k, l)
           /\ c.basis[Invariants] \subseteq d.basis[Invariants]
<1>1. ASSUME NEW k \in Cases, NEW l PROVE Readings(c, k, l) \subseteq Readings(d, k, l)
  <2>1. View(k) \subseteq Judged BY CertifyAssumption DEF View, Judged
  <2> QED BY <2>1 DEF Readings
<1>2. \A b \in Bindings : c.basis[b] \subseteq d.basis[b] BY DEF Judged
<1>3. ASSUME NEW b \in Bindings, NEW k \in Cases, NEW l
      PROVE  /\ CouldPass(c, b, k, l) => CouldPass(d, b, k, l)
             /\ CouldFail(c, b, k, l) => CouldFail(d, b, k, l)
  BY <1>1, <1>2 DEF CouldPass, CouldFail
<1> QED BY <1>3 DEF Judged

LEMMA GrowsOn ==
    ASSUME NEW c, NEW d,
           \A f \in Judged : c.basis[f] \subseteq d.basis[f],
           c.covers \subseteq d.covers,
           c.basis[Invariants] \subseteq Contents, c.bound \subseteq Bindings
    PROVE  /\ \A b \in Bindings : EveryCasePassed(c, b) => EveryCasePassed(d, b)
           /\ c.bound \subseteq d.bound /\ SomeCaseFailed(c) => SomeCaseFailed(d)
<1>1. \A l \in Contents : Listed[l] \subseteq Cases BY CertifyAssumption
<1>2. ASSUME NEW b \in Bindings, EveryCasePassed(c, b) PROVE EveryCasePassed(d, b)
  BY <1>1, <1>2, Grows DEF EveryCasePassed
<1>3. ASSUME c.bound \subseteq d.bound, SomeCaseFailed(c) PROVE SomeCaseFailed(d)
  BY <1>1, <1>3, Grows DEF SomeCaseFailed
<1> QED BY <1>2, <1>3

(* A content that is judged enters the basis.                               *)
LEMMA JudgeGrows ==
    ASSUME TypeOK, NEW f \in Judged, Loadable(f)
    PROVE  /\ files[f] \in Contents
           /\ Judge(f) \in [Judged -> SUBSET Contents]
           /\ Judge(f)[f] = basis[f] \cup {files[f]}
           /\ \A g \in Judged : g # f => Judge(f)[g] = basis[g]
           /\ \A g \in Judged : basis[g] \subseteq Judge(f)[g]
<1>1. files[f] \in Contents BY DEF Loadable
<1>2. basis \in [Judged -> SUBSET Contents] BY DEF TypeOK
<1> QED BY <1>1, <1>2 DEF Judge

(* A case is judged on contents that are in the basis.                      *)
LEMMA Concludes ==
    ASSUME TypeOK, NEW k \in Cases \ CoverCases, NEW b \in Bindings, profile \in basis[b],
           \A f \in View(k) : held[f] \in basis[f]
    PROVE  /\ Holds(k, profile, held) => CouldPass(Sofar, b, k, held[Invariants])
           /\ ~Holds(k, profile, held) => CouldFail(Sofar, b, k, held[Invariants])
<1> DEFINE v == [f \in View(k) |-> held[f]]
<1>1. View(k) \subseteq Judged /\ Sofar.basis = basis /\ basis \in [Judged -> SUBSET Contents]
  BY Shapes
<1>2. Invariants \in View(k) BY DEF View
<1>3. v \in Readings(Sofar, k, held[Invariants])
  BY <1>1, <1>2 DEF Readings
<1>4. [f \in View(k) |-> v[f]] = [f \in View(k) |-> held[f]]
  OBVIOUS
<1>5. Holds(k, profile, v) <=> Holds(k, profile, held)
  <2> HIDE DEF v
  <2> QED BY <1>4 DEF Holds
<1> HIDE DEF v
<1> QED BY <1>1, <1>3, <1>5 DEF CouldPass, CouldFail

(* Another case counts.                                                     *)
LEMMA CountConcludes ==
    ASSUME NEW e \in Drafts, NEW ok \in BOOLEAN
    PROVE  /\ Count(e, ok) \in Drafts
           /\ Count(e, ok).covers = e.covers /\ Count(e, ok).bound = e.bound
           /\ Count(e, ok).start = e.start /\ Count(e, ok).at = e.at
           /\ Count(e, ok).lock = e.lock
           /\ Count(e, ok).failed = IF ok THEN e.failed ELSE e.failed + 1
BY DEF Drafts, Count

(* skill.lock was looked at for lock-covers-contract.                       *)
LEMMA CoverConcludes ==
    ASSUME TypeOK, NEW t \in LockStates, NEW s \in SUBSET Schemas, CoverVerdict(t, s)
    PROVE  /\ draft' \in Drafts
           /\ draft'.covers = draft.covers \cup {[lock |-> t, schemas |-> s]}
           /\ draft'.bound = draft.bound /\ draft'.start = draft.start
           /\ draft'.at = draft.at /\ draft'.lock = draft.lock
           /\ draft'.failed = IF Covers(t, s) THEN draft.failed ELSE draft.failed + 1
<1> DEFINE e == [draft EXCEPT !.covers = @ \cup {[lock |-> t, schemas |-> s]}]
<1>1. draft \in Drafts BY DEF TypeOK
<1>2. [lock |-> t, schemas |-> s] \in CoverLooks BY DEF CoverLooks
<1>3. /\ e \in Drafts /\ e.covers = draft.covers \cup {[lock |-> t, schemas |-> s]}
      /\ e.bound = draft.bound /\ e.start = draft.start /\ e.at = draft.at
      /\ e.lock = draft.lock /\ e.failed = draft.failed
  BY <1>1, <1>2 DEF Drafts
<1>4. draft' = Count(e, Covers(t, s)) BY DEF CoverVerdict
<1> HIDE DEF e
<1>5. Covers(t, s) \in BOOLEAN BY DEF Covers
<1> QED BY <1>3, <1>4, <1>5, CountConcludes

LEMMA SofarGrows ==
    ASSUME TypeOK, \A f \in Judged : basis[f] \subseteq basis'[f],
           draft.covers \subseteq draft'.covers, draft.bound \subseteq draft'.bound
    PROVE  /\ \A b \in Bindings : EveryCasePassed(Sofar, b) => EveryCasePassed(Sofar, b)'
           /\ SomeCaseFailed(Sofar) => SomeCaseFailed(Sofar)'
           /\ \A b \in Bindings, k \in Cases : \A l :
                CouldPass(Sofar, b, k, l) => CouldPass(Sofar, b, k, l)'
<1> DEFINE c == Sofar
           d == [basis |-> basis', covers |-> draft'.covers, bound |-> draft'.bound]
<1>1. Sofar' = d BY DEF Sofar
<1>2. /\ \A f \in Judged : c.basis[f] \subseteq d.basis[f]
      /\ c.covers \subseteq d.covers /\ c.bound \subseteq d.bound
      /\ c.basis[Invariants] \subseteq Contents /\ c.bound \subseteq Bindings
  BY Shapes
<1> HIDE DEF c, d
<1>3. /\ \A b \in Bindings : EveryCasePassed(c, b) => EveryCasePassed(d, b)
      /\ SomeCaseFailed(c) => SomeCaseFailed(d)
      /\ \A b \in Bindings, k \in Cases : \A l : CouldPass(c, b, k, l) => CouldPass(d, b, k, l)
  <2>1. \A b \in Bindings, k \in Cases : \A l : CouldPass(c, b, k, l) => CouldPass(d, b, k, l)
    BY <1>2, Grows
  <2>2. /\ \A b \in Bindings : EveryCasePassed(c, b) => EveryCasePassed(d, b)
        /\ SomeCaseFailed(c) => SomeCaseFailed(d)
    BY <1>2, GrowsOn
  <2> QED BY <2>1, <2>2
<1> QED BY <1>1, <1>3 DEF c

(* A step in the evaluation of a binding after which there is no failure    *)
(* more than before: what it concludes has passed.                          *)
LEMMA PassKeepsJudged ==
    ASSUME TypeOK, TypeOK', HeldInv, JudgedInv,
           \A f \in Judged : basis[f] \subseteq basis'[f],
           draft.covers \subseteq draft'.covers, draft'.bound = draft.bound,
           draft'.failed = draft.failed,
           unbound' = unbound, profile' = profile, held'[Invariants] = held[Invariants],
           cpc \in ListRead, cpc' \in ListRead,
           \A g \in Bindings, k \in Pending : profile \in basis[g] =>
              k \in Pending' \/ CouldPass(Sofar, g, k, held[Invariants])'
    PROVE  JudgedInv'
<1>1. CASE draft.failed # 0
  BY <1>1, SofarGrows DEF JudgedInv
<1>2. CASE draft.failed = 0
  <2>1. PICK g \in draft.bound \ unbound : Underway(g)
    BY <1>2 DEF JudgedInv, InBinding
  <2>2. g \in Bindings /\ g \in Judged /\ draft.bound \subseteq Bindings
    BY <2>1, Shapes
  <2>3. profile' \in basis'[g] BY <2>1, <2>2 DEF Underway
  <2>4. \A b \in (draft.bound \ unbound) \ {g} : EveryCasePassed(Sofar, b)'
    BY <2>1, <2>2, SofarGrows DEF Underway
  <2>5. ASSUME NEW k \in Listed[held[Invariants]], k \notin Pending'
        PROVE  CouldPass(Sofar, g, k, held[Invariants])'
    <3>1. k \in Cases
      BY Shapes DEF HeldInv, TypeOK
    <3>2. CASE k \in Pending BY <2>1, <2>2, <2>5, <3>2 DEF Underway
    <3>3. CASE k \notin Pending
      BY <2>1, <2>2, <3>1, <3>3, SofarGrows DEF Underway
    <3> QED BY <3>2, <3>3
  <2>6. Underway(g)' BY <2>3, <2>4, <2>5 DEF Underway
  <2> QED BY <1>2, <2>1, <2>6 DEF JudgedInv, InBinding
<1>3. draft.failed \in Nat BY Shapes
<1> QED BY <1>1, <1>2, <1>3

(* A case that fails.                                                       *)
LEMMA FailureKeepsJudged ==
    ASSUME TypeOK, TypeOK', HeldInv, JudgedInv,
           \A f \in Judged : basis[f] \subseteq basis'[f],
           draft.covers \subseteq draft'.covers, draft'.bound = draft.bound,
           draft'.failed = draft.failed + 1,
           held'[Invariants] = held[Invariants], cpc \in ListRead, NEW k \in Pending,
           \A g \in Bindings : profile \in basis[g] => CouldFail(Sofar, g, k, held[Invariants])'
    PROVE  JudgedInv'
<1>1. SomeCaseFailed(Sofar)'
  <2>1. CASE draft.failed # 0 BY <2>1, SofarGrows DEF JudgedInv
  <2>2. CASE draft.failed = 0
    <3>1. PICK g \in draft.bound \ unbound : Underway(g)
      BY <2>2 DEF JudgedInv, InBinding
    <3>2. g \in Bindings /\ profile \in basis[g] BY <3>1, Shapes DEF Underway
    <3>3. k \in Listed[held[Invariants]] /\ held[Invariants] \in basis'[Invariants]
      BY Shapes DEF HeldInv
    <3>4. g \in Sofar'.bound /\ held[Invariants] \in Sofar'.basis[Invariants]
      BY <3>1, <3>3 DEF Sofar
    <3>5. CouldFail(Sofar, g, k, held[Invariants])' BY <3>2
    <3> QED BY <3>3, <3>4, <3>5 DEF SomeCaseFailed
  <2>3. draft.failed \in Nat BY Shapes
  <2> QED BY <2>1, <2>2, <2>3
<1>2. draft'.failed # 0 BY Shapes
<1> QED BY <1>1, <1>2 DEF JudgedInv
----------------------------------------------------------------------------
(* One command leaves what the other knows alone, as long as the directory  *)
(* does not change.                                                         *)

LEMMA DocumentUndisturbed ==
    ASSUME DocumentInv, UNCHANGED <<dir, changes, cert>>
    PROVE  DocumentInv'
<1>1. CASE IsDocument(cert)
  <2>1. SoundDocument(cert) BY <1>1 DEF DocumentInv
  <2>2. /\ cert \in Certificates /\ ~ClaimProblem(cert) /\ Justified(cert)
        /\ Undisturbed(cert)' /\ Fresh(cert)'
    BY <2>1 DEF SoundDocument, Undisturbed, Fresh, OnDisk, BoundOnDisk, Present, dir
  <2>3. SoundDocument(cert)'
    BY <2>2 DEF SoundDocument
  <2> QED BY <2>3 DEF DocumentInv
<1>2. CASE ~IsDocument(cert) BY <1>2 DEF DocumentInv
<1> QED BY <1>1, <1>2

LEMMA VerifyUndisturbed ==
    ASSUME VerifyInv, UNCHANGED <<dir, changes, verifyVars>>
    PROVE  VerifyInv'
<1> USE DEF dir, verifyVars
<1>1. SoundDocument(subject) => SoundDocument(subject)'
  <2> SUFFICES ASSUME SoundDocument(subject) PROVE SoundDocument(subject)'
    OBVIOUS
  <2>1. /\ subject \in Certificates /\ ~ClaimProblem(subject) /\ Justified(subject)
        /\ Undisturbed(subject)' /\ Fresh(subject)'
    BY DEF SoundDocument, Undisturbed, Fresh, OnDisk, BoundOnDisk, Present
  <2> QED BY <2>1 DEF SoundDocument
<1>2. (Differs => Differs') /\ (SkillSeen => SkillSeen') /\ (AbiSeen => AbiSeen')
        /\ (LockSeen => LockSeen')
  BY DEF Differs, SkillSeen, AbiSeen, LockSeen
<1> QED BY <1>1, <1>2 DEF VerifyInv

LEMMA DraftUndisturbed ==
    ASSUME DraftInv, UNCHANGED <<dir, changes, certifyVars>>
    PROVE  DraftInv'
<1> USE DEF dir, certifyVars, caseVars
<1>1. Sofar' = Sofar /\ Pending' = Pending BY DEF Sofar, Pending
<1>2. HeldInv' BY <1>1 DEF DraftInv, HeldInv
<1>3. JudgedInv' BY <1>1 DEF DraftInv, JudgedInv, Underway
<1>4. QuietInv' /\ DigestInv'
  BY <1>1 DEF DraftInv, QuietInv, DigestInv, OnDisk, BoundOnDisk, Present
<1> QED BY <1>2, <1>3, <1>4 DEF DraftInv

LEMMA CertifyFrame ==
    ASSUME IInv, TypeOK', DraftInv', UNCHANGED <<dir, changes, cert, verifyVars>>
    PROVE  IInv'
BY VerifyUndisturbed, DocumentUndisturbed DEF IInv

----------------------------------------------------------------------------
(* The steps of certify outside the cases.                                  *)

(* A start, an exception or a kill: nothing is under construction.          *)
LEMMA ResetKeepsDraft ==
    ASSUME cpc' \notin Evaluating \cup {"parse", "skill", "abi", "look", "lock", "open", "write",
                                        "bindings"},
           unbound' = {}, StopEvaluating, basis' = NoBasis, NEW n \in 0..MaxChanges,
           n <= changes, draft' = [NoDraft EXCEPT !.start = n], UNCHANGED changes
    PROVE  DraftInv'
<1>1. /\ draft'.bound = {} /\ draft'.covers = {} /\ draft'.failed = 0 /\ draft'.lock = NoFile
      /\ draft'.start = n
  BY DEF NoDraft
<1>2. HeldInv'
  BY <1>1 DEF HeldInv, ListRead, CaseRunning, Evaluating
<1>3. JudgedInv'
  BY <1>1 DEF JudgedInv, InBinding, ListRead, CaseRunning, Evaluating
<1>4. QuietInv'
  <2>1. OnDisk(Sofar)' BY <1>1 DEF OnDisk, Sofar, NoBasis
  <2> QED BY <1>1, <2>1 DEF QuietInv, CertifyRunning, Evaluating
<1>5. DigestInv' BY <1>1 DEF DigestInv
<1> QED BY <1>2, <1>3, <1>4, <1>5 DEF DraftInv

LEMMA ResetKeepsInv ==
    ASSUME IInv, cpc' \in {"idle", "refused", "error", "degradation"},
           unbound' = {}, StopEvaluating, basis' = NoBasis, NEW n \in 0..MaxChanges,
           n <= changes, draft' = [NoDraft EXCEPT !.start = n],
           UNCHANGED <<dir, changes, cert, verifyVars>>
    PROVE  IInv'
<1>1. DraftInv' BY ResetKeepsDraft DEF Evaluating
<1>2. draft' \in Drafts /\ basis' \in [Judged -> SUBSET Contents] /\ held' \in [Judged -> Bytes]
  BY EmptyDraft DEF StopEvaluating
<1>3. /\ profile' \in Bytes /\ untried' = {} /\ trying' = NoCase /\ unread' = {}
      /\ pins' \in LockStates
  BY DEF StopEvaluating, Bytes, LockStates
<1>4. TypeOK'
  BY <1>2, <1>3 DEF IInv, TypeOK, CertifyRunning, dir, verifyVars
<1> QED BY <1>1, <1>4, CertifyFrame

LEMMA StopKeepsInv ==
    ASSUME IInv, CertifyError \/ CrashCertify, UNCHANGED changes
    PROVE  IInv'
<1>1. /\ cpc' \in {"idle", "error"} /\ unbound' = {} /\ StopEvaluating
      /\ draft' = NoDraft /\ basis' = NoBasis /\ UNCHANGED <<dir, changes, cert, verifyVars>>
  BY DEF CertifyError, CrashCertify
<1>2. NoDraft = [NoDraft EXCEPT !.start = 0] BY DEF NoDraft
<1>3. 0 \in 0..MaxChanges /\ 0 <= changes
  BY CertifyAssumption DEF IInv, TypeOK
<1> QED BY <1>1, <1>2, <1>3, ResetKeepsInv

LEMMA StartKeepsInv ==
    ASSUME IInv, StartCertify, UNCHANGED changes
    PROVE  IInv'
<1>1. changes \in 0..MaxChanges /\ changes <= changes BY CertifyAssumption DEF IInv, TypeOK
<1> QED BY <1>1, ResetKeepsInv DEF StartCertify

(* Steps that only look.                                                    *)
LEMMA MovingOnKeepsInv ==
    ASSUME IInv, ReadDegradation \/ EndEvaluation \/ ParseAbi \/ LookLock, UNCHANGED changes
    PROVE  IInv'
<1>1. /\ \/ cpc = "degradation" /\ cpc' = "bindings"
         \/ cpc = "evaluate" /\ cpc' = "parse" /\ unbound = {}
         \/ cpc = "parse" /\ cpc' = "skill"
         \/ cpc = "look" /\ cpc' = "lock"
         \/ cpc = "look" /\ cpc' = "open" /\ lock = NoFile
      /\ unbound' = unbound /\ draft' = draft /\ basis' = basis /\ UNCHANGED caseVars
      /\ UNCHANGED <<dir, changes, cert, verifyVars>>
  BY DEF ReadDegradation, EndEvaluation, ParseAbi, LookLock
<1>2. TypeOK' BY <1>1 DEF IInv, TypeOK, CertifyRunning, Evaluating, dir, verifyVars, caseVars
<1>3. Sofar' = Sofar BY <1>1 DEF Sofar
<1>4. HeldInv'
  BY <1>1 DEF IInv, DraftInv, HeldInv, ListRead, CaseRunning, CertifyRunning, Evaluating
<1>5. JudgedInv'
  BY <1>1, <1>3 DEF IInv, DraftInv, JudgedInv, InBinding, ListRead, CaseRunning
<1>6. QuietInv'
  BY <1>1, <1>3
     DEF IInv, DraftInv, QuietInv, OnDisk, BoundOnDisk, Present, CertifyRunning, Evaluating, dir
<1>7. DigestInv' BY <1>1 DEF IInv, DraftInv, DigestInv, dir
<1> QED BY <1>1, <1>2, <1>4, <1>5, <1>6, <1>7, CertifyFrame DEF DraftInv

LEMMA ListBindingsKeepsInv ==
    ASSUME IInv, ListBindings, UNCHANGED changes
    PROVE  IInv'
<1>1. /\ cpc = "bindings" /\ cpc' = "evaluate" /\ unbound' = {b \in Bindings : files[b] # NoFile}
      /\ draft' = [draft EXCEPT !.bound = unbound'] /\ basis' = basis /\ UNCHANGED caseVars
      /\ UNCHANGED <<dir, changes, cert, verifyVars>>
  BY DEF ListBindings
<1>2. draft \in Drafts /\ draft.failed = 0
  BY <1>1 DEF IInv, TypeOK, DraftInv, HeldInv
<1>3. /\ draft' \in Drafts /\ draft'.bound = unbound' /\ draft'.failed = 0
      /\ draft'.start = draft.start /\ draft'.covers = draft.covers /\ draft'.lock = draft.lock
  BY <1>1, <1>2 DEF Drafts
<1>4. TypeOK'
  BY <1>1, <1>3 DEF IInv, TypeOK, CertifyRunning, Evaluating, dir, verifyVars, caseVars
<1>5. HeldInv'
  BY <1>1, <1>3 DEF HeldInv, ListRead, CaseRunning, CertifyRunning, Evaluating
<1>6. JudgedInv' BY <1>1, <1>3 DEF JudgedInv, InBinding, ListRead, CaseRunning
<1>7. QuietInv'
  <2>1. OnDisk(Sofar) => OnDisk(Sofar)'
    BY <1>1, <1>3 DEF OnDisk, Sofar, Present, dir
  <2>2. BoundOnDisk(draft)' BY <1>1, <1>3 DEF BoundOnDisk, dir
  <2> QED BY <1>1, <1>3, <2>1, <2>2 DEF IInv, DraftInv, QuietInv
<1>8. DigestInv' BY <1>1, <1>3 DEF IInv, DraftInv, DigestInv
<1> QED BY <1>1, <1>4, <1>5, <1>6, <1>7, <1>8, CertifyFrame DEF DraftInv
----------------------------------------------------------------------------
(* The steps of the evaluation.                                             *)

(* None of them has to do with the digests.                                 *)
LEMMA EvaluationFrame ==
    ASSUME IInv, cpc \in Evaluating, cpc' \in Evaluating, TypeOK', HeldInv', JudgedInv',
           draft'.bound = draft.bound, draft'.start = draft.start, draft'.lock = draft.lock,
           changes = draft.start => OnDisk(Sofar)' /\ (cpc' = "schemas" => pins' = lock),
           UNCHANGED <<dir, changes, cert, verifyVars>>
    PROVE  IInv'
<1>1. DigestInv' BY DEF IInv, DraftInv, DigestInv, Evaluating
<1>2. BoundOnDisk(draft) => BoundOnDisk(draft)' BY DEF BoundOnDisk, dir
<1>3. QuietInv'
  BY <1>2 DEF IInv, DraftInv, QuietInv, CertifyRunning, Evaluating, dir
<1> QED BY <1>1, <1>3, CertifyFrame DEF DraftInv

(* A content that is judged is the one on disk.                             *)
LEMMA JudgeOnDisk ==
    ASSUME IInv, NEW f \in Judged, Loadable(f), basis' = Judge(f),
           draft'.covers = draft.covers, UNCHANGED dir
    PROVE  changes = draft.start => OnDisk(Sofar)'
<1> SUFFICES ASSUME OnDisk(Sofar) PROVE OnDisk(Sofar)'
  BY DEF IInv, DraftInv, QuietInv
<1>1. \A g \in Judged : Sofar'.basis[g] \subseteq {files[g]}
  BY JudgeGrows DEF IInv, OnDisk, Sofar
<1> QED BY <1>1 DEF OnDisk, Sofar, Present, dir

LEMMA ReadBindingKeepsInv ==
    ASSUME IInv, NEW b \in Bindings, ReadBinding(b), UNCHANGED changes
    PROVE  IInv'
<1>1. /\ cpc = "evaluate" /\ cpc' = "invariants" /\ Loadable(b) /\ b \in unbound
      /\ unbound' = unbound \ {b} /\ profile' = files[b] /\ basis' = Judge(b)
      /\ UNCHANGED <<untried, trying, unread, held, pins, draft>>
      /\ UNCHANGED <<dir, changes, cert, verifyVars>>
  BY DEF ReadBinding
<1>2. b \in Judged BY DEF Judged
<1>3. /\ files[b] \in Contents /\ basis' \in [Judged -> SUBSET Contents]
      /\ files[b] \in basis'[b] /\ \A f \in Judged : basis[f] \subseteq basis'[f]
  BY <1>1, <1>2, JudgeGrows DEF IInv
<1>4. TypeOK'
  BY <1>1, <1>3 DEF IInv, TypeOK, CertifyRunning, Evaluating, Bytes, dir, verifyVars
<1>5. HeldInv'
  BY <1>1 DEF IInv, DraftInv, HeldInv, ListRead, CaseRunning, CertifyRunning, Evaluating
<1>6. JudgedInv'
  <2>1. /\ \A g \in Bindings : EveryCasePassed(Sofar, g) => EveryCasePassed(Sofar, g)'
        /\ SomeCaseFailed(Sofar) => SomeCaseFailed(Sofar)'
    BY <1>1, <1>3, SofarGrows DEF IInv
  <2>2. CASE draft.failed # 0
    BY <1>1, <2>1, <2>2 DEF IInv, DraftInv, JudgedInv
  <2>3. CASE draft.failed = 0
    <3>1. \A g \in draft.bound \ unbound : EveryCasePassed(Sofar, g)'
      BY <1>1, <2>1, <2>3, Shapes DEF IInv, DraftInv, JudgedInv, InBinding, ListRead, CaseRunning
    <3>2. Underway(b)'
      BY <1>1, <1>3, <3>1 DEF Underway, ListRead, CaseRunning
    <3>3. b \in draft'.bound \ unbound'
      BY <1>1 DEF IInv, DraftInv, HeldInv
    <3> QED BY <1>1, <2>3, <3>2, <3>3 DEF JudgedInv, InBinding
  <2> QED BY <2>2, <2>3
<1> QED
  BY <1>1, <1>2, <1>4, <1>5, <1>6, EvaluationFrame, JudgeOnDisk DEF Evaluating, dir

LEMMA ReadInvariantsKeepsInv ==
    ASSUME IInv, ReadInvariants, UNCHANGED changes
    PROVE  IInv'
<1>1. /\ cpc = "invariants" /\ cpc' = "effects" /\ Loadable(Invariants)
      /\ held' = [held EXCEPT ![Invariants] = files[Invariants]]
      /\ untried' = Listed[files[Invariants]] /\ basis' = Judge(Invariants)
      /\ UNCHANGED <<unbound, profile, trying, unread, pins, draft>>
      /\ UNCHANGED <<dir, changes, cert, verifyVars>>
  BY DEF ReadInvariants
<1>2. Invariants \in Judged BY DEF Judged
<1>3. /\ files[Invariants] \in Contents /\ basis' \in [Judged -> SUBSET Contents]
      /\ files[Invariants] \in basis'[Invariants] /\ \A f \in Judged : basis[f] \subseteq basis'[f]
  BY <1>1, <1>2, JudgeGrows DEF IInv
<1>4. held' \in [Judged -> Bytes] /\ held'[Invariants] = files[Invariants]
  BY <1>1, <1>2, <1>3 DEF IInv, TypeOK, Bytes
<1>5. TypeOK'
  BY <1>1, <1>3, <1>4, Shapes
     DEF IInv, TypeOK, CertifyRunning, Evaluating, dir, verifyVars
<1>6. Pending' = Listed[held'[Invariants]] BY <1>1, <1>4 DEF Pending, CaseRunning
<1>7. HeldInv'
  BY <1>1, <1>3, <1>4, <1>6
     DEF IInv, DraftInv, HeldInv, ListRead, CaseRunning, CertifyRunning, Evaluating
<1>8. JudgedInv'
  <2>1. /\ \A g \in Bindings : EveryCasePassed(Sofar, g) => EveryCasePassed(Sofar, g)'
        /\ SomeCaseFailed(Sofar) => SomeCaseFailed(Sofar)'
    BY <1>1, <1>3, SofarGrows DEF IInv
  <2>2. CASE draft.failed # 0
    BY <1>1, <2>1, <2>2 DEF IInv, DraftInv, JudgedInv
  <2>3. CASE draft.failed = 0
    <3>1. PICK g \in draft.bound \ unbound : Underway(g)
      BY <1>1, <2>3 DEF IInv, DraftInv, JudgedInv, InBinding
    <3>2. g \in Judged /\ draft.bound \subseteq Bindings
      BY <3>1, Shapes DEF IInv
    <3>3. Underway(g)' BY <1>1, <1>3, <1>6, <2>1, <3>1, <3>2 DEF Underway
    <3> QED BY <1>1, <2>3, <3>1, <3>3 DEF JudgedInv, InBinding, ListRead
  <2> QED BY <2>2, <2>3
<1> QED
  BY <1>1, <1>2, <1>5, <1>7, <1>8, EvaluationFrame, JudgeOnDisk DEF Evaluating, dir

LEMMA ReadEffectsKeepsInv ==
    ASSUME IInv, ReadEffects, UNCHANGED changes
    PROVE  IInv'
<1>1. /\ cpc = "effects" /\ cpc' = "cases" /\ Loadable(Effects)
      /\ held' = [held EXCEPT ![Effects] = files[Effects]] /\ basis' = Judge(Effects)
      /\ UNCHANGED <<unbound, profile, untried, trying, unread, pins, draft>>
      /\ UNCHANGED <<dir, changes, cert, verifyVars>>
  BY DEF ReadEffects
<1>2. Effects \in Judged /\ Invariants \in Judged BY DEF Judged
<1>3. /\ files[Effects] \in Contents /\ basis' \in [Judged -> SUBSET Contents]
      /\ files[Effects] \in basis'[Effects] /\ \A f \in Judged : basis[f] \subseteq basis'[f]
  BY <1>1, <1>2, JudgeGrows DEF IInv
<1>4. /\ held' \in [Judged -> Bytes] /\ held'[Effects] = files[Effects]
      /\ held'[Invariants] = held[Invariants]
  BY <1>1, <1>2, <1>3, CertifyAssumption DEF IInv, TypeOK, Bytes
<1>5. TypeOK'
  BY <1>1, <1>3, <1>4 DEF IInv, TypeOK, CertifyRunning, Evaluating, dir, verifyVars
<1>6. Pending' = Pending BY <1>1 DEF Pending, CaseRunning
<1>7. HeldInv'
  BY <1>1, <1>2, <1>3, <1>4, <1>6
     DEF IInv, DraftInv, HeldInv, ListRead, CaseRunning, CertifyRunning, Evaluating
<1>8. JudgedInv'
  BY <1>1, <1>3, <1>4, <1>5, <1>6, PassKeepsJudged DEF IInv, DraftInv, ListRead
<1> QED
  BY <1>1, <1>2, <1>5, <1>7, <1>8, EvaluationFrame, JudgeOnDisk DEF Evaluating, dir

LEMMA TryCaseKeepsInv ==
    ASSUME IInv, NEW k \in Cases, TryCase(k), UNCHANGED changes
    PROVE  IInv'
<1>1. /\ cpc = "cases" /\ cpc' = "case" /\ k \in untried \ CoverCases
      /\ untried' = untried \ {k} /\ trying' = k /\ unread' = Own[k]
      /\ UNCHANGED <<unbound, profile, held, pins, draft, basis>>
      /\ UNCHANGED <<dir, changes, cert, verifyVars>>
  BY DEF TryCase
<1>2. Own[k] \subseteq Judged BY CertifyAssumption DEF Judged
<1>3. TypeOK'
  BY <1>1, <1>2 DEF IInv, TypeOK, CertifyRunning, Evaluating, dir, verifyVars
<1>4. Pending' = Pending BY <1>1 DEF Pending, CaseRunning
<1>5. HeldInv'
  BY <1>1, <1>4
     DEF IInv, DraftInv, HeldInv, ListRead, CaseRunning, CertifyRunning, Evaluating
<1>6. JudgedInv'
  BY <1>1, <1>3, <1>4, PassKeepsJudged DEF IInv, DraftInv, ListRead, CaseRunning
<1>7. OnDisk(Sofar) => OnDisk(Sofar)' BY <1>1 DEF OnDisk, Sofar, Present, dir
<1> QED
  BY <1>1, <1>3, <1>5, <1>6, <1>7, EvaluationFrame DEF IInv, DraftInv, QuietInv, Evaluating, dir

LEMMA ReadOwnKeepsInv ==
    ASSUME IInv, NEW f \in Judged, ReadOwn(f), UNCHANGED changes
    PROVE  IInv'
<1>1. /\ cpc = "case" /\ cpc' = "case" /\ Loadable(f) /\ f \in unread
      /\ unread' = unread \ {f} /\ held' = [held EXCEPT ![f] = files[f]] /\ basis' = Judge(f)
      /\ UNCHANGED <<unbound, profile, untried, trying, pins, draft>>
      /\ UNCHANGED <<dir, changes, cert, verifyVars>>
  BY DEF ReadOwn, NextOwn
<1>2. /\ trying \in Cases /\ f \in Own[trying] /\ f \notin {Invariants, Effects}
      /\ Own[trying] \subseteq Judged /\ {Invariants, Effects} \subseteq Judged
  BY <1>1, CertifyAssumption DEF IInv, DraftInv, HeldInv, Judged
<1>3. /\ files[f] \in Contents /\ basis' \in [Judged -> SUBSET Contents]
      /\ files[f] \in basis'[f] /\ \A g \in Judged : basis[g] \subseteq basis'[g]
  BY <1>1, JudgeGrows DEF IInv
<1>4. /\ held' \in [Judged -> Bytes] /\ held'[f] = files[f]
      /\ \A g \in Judged \ {f} : held'[g] = held[g]
  BY <1>1, <1>3 DEF IInv, TypeOK, Bytes
<1>5. TypeOK'
  BY <1>1, <1>3, <1>4 DEF IInv, TypeOK, CertifyRunning, Evaluating, dir, verifyVars
<1>6. Pending' = Pending BY <1>1 DEF Pending, CaseRunning
<1>7. HeldInv'
  <2>1. \A g \in Own[trying] \ unread' : held'[g] \in basis'[g]
    BY <1>1, <1>2, <1>3, <1>4 DEF IInv, DraftInv, HeldInv
  <2>2. held'[Invariants] \in basis'[Invariants] /\ held'[Effects] \in basis'[Effects]
    BY <1>1, <1>2, <1>3, <1>4 DEF IInv, DraftInv, HeldInv, ListRead, CaseRunning
  <2> QED
    BY <1>1, <1>2, <1>4, <1>6, <2>1, <2>2
       DEF IInv, DraftInv, HeldInv, ListRead, CaseRunning, CertifyRunning, Evaluating
<1>8. JudgedInv'
  BY <1>1, <1>2, <1>3, <1>4, <1>5, <1>6, PassKeepsJudged
     DEF IInv, DraftInv, ListRead, CaseRunning
<1> QED
  BY <1>1, <1>5, <1>7, <1>8, EvaluationFrame, JudgeOnDisk DEF Evaluating, dir

LEMMA JudgeCaseKeepsInv ==
    ASSUME IInv, JudgeCase, UNCHANGED changes
    PROVE  IInv'
<1> DEFINE ok == Holds(trying, profile, held)
<1>1. /\ cpc = "case" /\ cpc' = "cases" /\ unread = {} /\ draft' = Count(draft, ok)
      /\ held' = [f \in Judged |-> IF f \in {Invariants, Effects} THEN held[f] ELSE NoFile]
      /\ trying' = NoCase
      /\ UNCHANGED <<unbound, profile, untried, unread, pins, basis>>
      /\ UNCHANGED <<dir, changes, cert, verifyVars>>
  BY DEF JudgeCase
<1>2. /\ held' \in [Judged -> Bytes]
      /\ held'[Invariants] = held[Invariants] /\ held'[Effects] = held[Effects]
  BY <1>1 DEF IInv, TypeOK, Bytes, Judged
<1>4. /\ draft' \in Drafts /\ draft'.covers = draft.covers /\ draft'.bound = draft.bound
      /\ draft'.start = draft.start /\ draft'.lock = draft.lock
      /\ ok => draft'.failed = draft.failed
      /\ ~ok => draft'.failed = draft.failed + 1
  <2> HIDE DEF ok
  <2>1. CASE ok
    <3>1. draft' = Count(draft, TRUE) BY <1>1, <2>1 DEF Count
    <3> QED BY <2>1, <3>1, CountConcludes DEF IInv, TypeOK
  <2>2. CASE ~ok
    <3>1. draft' = Count(draft, FALSE) BY <1>1, <2>2 DEF Count
    <3> QED BY <2>2, <3>1, CountConcludes DEF IInv, TypeOK
  <2> QED BY <2>1, <2>2
<1>5. TypeOK'
  BY <1>1, <1>2, <1>4 DEF IInv, TypeOK, CertifyRunning, Evaluating, dir, verifyVars
<1>6. Pending = untried \cup {trying} /\ Pending' = untried
  BY <1>1 DEF Pending, CaseRunning
<1>7. HeldInv'
  BY <1>1, <1>2, <1>4, <1>6
     DEF IInv, DraftInv, HeldInv, ListRead, CaseRunning, CertifyRunning, Evaluating
<1>8. /\ trying \in Cases \ CoverCases
      /\ \A f \in View(trying) : held[f] \in basis[f]
  BY <1>1 DEF IInv, DraftInv, HeldInv, View, ListRead, CaseRunning
<1>9. Sofar' = Sofar BY <1>1, <1>4 DEF Sofar
<1>10. \A f \in Judged : basis[f] \subseteq basis'[f] BY <1>1
<1>11. JudgedInv'
  <2>1. CASE ok
    <3>1. \A g \in Bindings : profile \in basis[g] =>
             CouldPass(Sofar, g, trying, held[Invariants])
      BY <1>8, <2>1, Concludes DEF IInv
    <3>2. \A g \in Bindings, k \in Pending : profile \in basis[g] =>
             k \in Pending' \/ CouldPass(Sofar, g, k, held[Invariants])'
      BY <1>2, <1>6, <1>9, <3>1
    <3> HIDE DEF ok
    <3> QED
      BY <1>1, <1>2, <1>4, <1>5, <1>10, <2>1, <3>2, PassKeepsJudged
         DEF IInv, DraftInv, ListRead, CaseRunning
  <2>2. CASE ~ok
    <3>1. PICK k \in Pending : k = trying BY <1>6
    <3>2. \A g \in Bindings : profile \in basis[g] => CouldFail(Sofar, g, k, held[Invariants])
      BY <1>8, <2>2, <3>1, Concludes DEF IInv
    <3>3. \A g \in Bindings : profile \in basis[g] => CouldFail(Sofar, g, k, held[Invariants])'
      BY <1>2, <1>9, <3>2
    <3> HIDE DEF ok
    <3> QED
      BY <1>1, <1>2, <1>4, <1>5, <1>10, <2>2, <3>3, FailureKeepsJudged
         DEF IInv, DraftInv, ListRead, CaseRunning
  <2> QED BY <2>1, <2>2
<1>12. OnDisk(Sofar) => OnDisk(Sofar)' BY <1>1, <1>9 DEF OnDisk, Present, dir
<1> QED
  BY <1>1, <1>4, <1>5, <1>7, <1>11, <1>12, EvaluationFrame
     DEF IInv, DraftInv, QuietInv, Evaluating, dir

(* A case lock-covers-contract is concluded, after a look at the lock table *)
(* t and at the schemas.                                                    *)
LEMMA CoverKeepsInv ==
    ASSUME IInv, TypeOK', UNCHANGED <<unbound, profile, held, basis>>,
           NEW k \in CoverCases, k \in Pending, Pending' \subseteq Pending,
           Pending \subseteq Pending' \cup {k},
           NEW t \in LockStates, CoverVerdict(t, Present),
           changes = draft.start => t = lock,
           cpc \in {"cases", "schemas"}, cpc' = "cases",
           UNCHANGED <<dir, changes, cert, verifyVars>>
    PROVE  IInv'
<1>1. Present \in SUBSET Schemas BY WhereFilesAre DEF IInv
<1>2. /\ draft'.covers = draft.covers \cup {[lock |-> t, schemas |-> Present]}
      /\ draft'.bound = draft.bound /\ draft'.start = draft.start /\ draft'.lock = draft.lock
      /\ Covers(t, Present) => draft'.failed = draft.failed
      /\ ~Covers(t, Present) => draft'.failed = draft.failed + 1
  BY <1>1, CoverConcludes DEF IInv
<1>3. HeldInv'
  BY <1>2 DEF IInv, DraftInv, HeldInv, ListRead, CaseRunning, CertifyRunning, Evaluating
<1>4. \A f \in Judged : basis[f] \subseteq basis'[f] OBVIOUS
<1>5. PICK x \in draft'.covers : x = [lock |-> t, schemas |-> Present] BY <1>2
<1>6. x \in Sofar'.covers /\ x.lock = t /\ x.schemas = Present BY <1>5 DEF Sofar
<1>7. JudgedInv'
  <2>1. CASE Covers(t, Present)
    <3>1. \E y \in Sofar'.covers : Covers(y.lock, y.schemas) BY <1>6, <2>1
    <3>2. \A g \in Bindings : CouldPass(Sofar, g, k, held[Invariants])'
      BY <3>1 DEF CouldPass, Covers
    <3> QED
      BY <1>2, <1>4, <2>1, <3>2, PassKeepsJudged DEF IInv, DraftInv, ListRead, CaseRunning
  <2>2. CASE ~Covers(t, Present)
    <3>1. \E y \in Sofar'.covers : ~Covers(y.lock, y.schemas) BY <1>6, <2>2
    <3>2. \A g \in Bindings : CouldFail(Sofar, g, k, held[Invariants])'
      BY <3>1 DEF CouldFail, Covers
    <3> QED
      BY <1>2, <1>4, <2>2, <3>2, FailureKeepsJudged DEF IInv, DraftInv, ListRead, CaseRunning
  <2> QED BY <2>1, <2>2
<1>8. changes = draft.start => OnDisk(Sofar)'
  <2> SUFFICES ASSUME OnDisk(Sofar), t = lock PROVE OnDisk(Sofar)'
    BY DEF IInv, DraftInv, QuietInv
  <2> QED BY <1>2 DEF OnDisk, Sofar, Present, dir
<1> QED BY <1>2, <1>3, <1>7, <1>8, EvaluationFrame DEF Evaluating

LEMMA LookForLockKeepsInv ==
    ASSUME IInv, NEW k \in Cases, LookForLock(k), UNCHANGED changes
    PROVE  IInv'
<1>1. /\ cpc = "cases" /\ k \in untried /\ k \in CoverCases /\ untried' = untried \ {k}
      /\ UNCHANGED <<unbound, profile, unread, held, pins, basis>>
      /\ UNCHANGED <<dir, changes, cert, verifyVars>>
  BY DEF LookForLock
<1>2. CASE lock = NoFile
  <2>1. cpc' = "cases" /\ trying' = NoCase /\ CoverVerdict(NoFile, Present)
    BY <1>2 DEF LookForLock
  <2>2. NoFile \in LockStates /\ Present \in SUBSET Schemas
    BY WhereFilesAre DEF LockStates, IInv
  <2>3. draft' \in Drafts BY <2>1, <2>2, CoverConcludes DEF IInv
  <2>4. TypeOK'
    BY <1>1, <2>1, <2>3 DEF IInv, TypeOK, CertifyRunning, Evaluating, dir, verifyVars
  <2>5. Pending = untried /\ Pending' = untried \ {k} BY <1>1, <2>1 DEF Pending, CaseRunning
  <2> QED BY <1>1, <1>2, <2>1, <2>2, <2>4, <2>5, CoverKeepsInv
<1>3. CASE lock # NoFile
  <2>1. cpc' = "pins" /\ trying' = k /\ draft' = draft BY <1>3 DEF LookForLock
  <2>2. TypeOK'
    BY <1>1, <2>1 DEF IInv, TypeOK, CertifyRunning, Evaluating, dir, verifyVars
  <2>3. Pending' = Pending BY <1>1, <2>1 DEF Pending, CaseRunning
  <2>4. HeldInv'
    BY <1>1, <2>1, <2>3
       DEF IInv, DraftInv, HeldInv, ListRead, CaseRunning, CertifyRunning, Evaluating
  <2>5. JudgedInv'
    BY <1>1, <2>1, <2>2, <2>3, PassKeepsJudged DEF IInv, DraftInv, ListRead, CaseRunning
  <2>6. OnDisk(Sofar) => OnDisk(Sofar)' BY <1>1, <2>1 DEF OnDisk, Sofar, Present, dir
  <2> QED
    BY <1>1, <2>1, <2>2, <2>4, <2>5, <2>6, EvaluationFrame
       DEF IInv, DraftInv, QuietInv, Evaluating, dir
<1> QED BY <1>2, <1>3

LEMMA ReadPinsKeepsInv ==
    ASSUME IInv, ReadPins, UNCHANGED changes
    PROVE  IInv'
<1>1. /\ cpc = "pins" /\ cpc' = "schemas" /\ pins' = lock
      /\ UNCHANGED <<unbound, profile, untried, trying, unread, held, draft, basis>>
      /\ UNCHANGED <<dir, changes, cert, verifyVars>>
  BY DEF ReadPins
<1>2. TypeOK'
  BY <1>1 DEF IInv, TypeOK, CertifyRunning, Evaluating, dir, verifyVars
<1>3. Pending' = Pending BY <1>1 DEF Pending, CaseRunning
<1>4. HeldInv'
  BY <1>1, <1>3 DEF IInv, DraftInv, HeldInv, ListRead, CaseRunning, CertifyRunning, Evaluating
<1>5. JudgedInv'
  BY <1>1, <1>2, <1>3, PassKeepsJudged DEF IInv, DraftInv, ListRead, CaseRunning
<1>6. OnDisk(Sofar) => OnDisk(Sofar)' BY <1>1 DEF OnDisk, Sofar, Present, dir
<1> QED
  BY <1>1, <1>2, <1>4, <1>5, <1>6, EvaluationFrame
     DEF IInv, DraftInv, QuietInv, Evaluating, dir

LEMMA ListSchemasKeepsInv ==
    ASSUME IInv, ListSchemas, UNCHANGED changes
    PROVE  IInv'
<1>1. /\ cpc = "schemas" /\ cpc' = "cases" /\ CoverVerdict(pins, Present)
      /\ pins' = NoFile /\ trying' = NoCase
      /\ UNCHANGED <<unbound, profile, untried, unread, held, basis>>
      /\ UNCHANGED <<dir, changes, cert, verifyVars>>
  BY DEF ListSchemas
<1>2. /\ pins \in LockStates /\ NoFile \in LockStates /\ Present \in SUBSET Schemas
      /\ changes = draft.start => pins = lock
  BY <1>1, WhereFilesAre DEF IInv, TypeOK, LockStates, DraftInv, QuietInv
<1>3. draft' \in Drafts BY <1>1, <1>2, CoverConcludes DEF IInv
<1>4. TypeOK'
  BY <1>1, <1>2, <1>3 DEF IInv, TypeOK, CertifyRunning, Evaluating, dir, verifyVars
<1>5. Pending = untried \cup {trying} /\ Pending' = untried
  BY <1>1 DEF Pending, CaseRunning
<1>6. PICK k \in CoverCases : k = trying BY <1>1 DEF IInv, DraftInv, HeldInv
<1>7. PICK t \in LockStates : t = pins BY <1>2
<1>8. CoverVerdict(t, Present) BY <1>1, <1>7
<1> QED BY <1>1, <1>2, <1>4, <1>5, <1>6, <1>7, <1>8, CoverKeepsInv

(* No case is left: the binding has passed, or there was a failure.         *)
LEMMA EndBindingKeepsInv ==
    ASSUME IInv, EndBinding, UNCHANGED changes
    PROVE  IInv'
<1>1. /\ cpc = "cases" /\ untried = {} /\ cpc' = "evaluate" /\ StopEvaluating
      /\ UNCHANGED <<unbound, draft, basis>> /\ UNCHANGED <<dir, changes, cert, verifyVars>>
  BY DEF EndBinding
<1>2. /\ profile' = NoFile /\ untried' = {} /\ trying' = NoCase /\ unread' = {}
      /\ held' = NothingHeld /\ pins' = NoFile
  BY <1>1 DEF StopEvaluating
<1>3. NothingHeld \in [Judged -> Bytes] BY DEF NothingHeld, Bytes
<1>4. TypeOK'
  BY <1>1, <1>2, <1>3
     DEF IInv, TypeOK, CertifyRunning, Evaluating, Bytes, LockStates, dir, verifyVars
<1>5. HeldInv'
  BY <1>1 DEF IInv, DraftInv, HeldInv, ListRead, CaseRunning, CertifyRunning, Evaluating
<1>6. Sofar' = Sofar BY <1>1 DEF Sofar
<1>7. JudgedInv'
  <2>1. CASE draft.failed # 0
    BY <1>1, <1>6, <2>1 DEF IInv, DraftInv, JudgedInv
  <2>2. CASE draft.failed = 0
    <3>1. PICK g \in draft.bound \ unbound : Underway(g)
      BY <1>1, <2>2 DEF IInv, DraftInv, JudgedInv, InBinding, ListRead
    <3>2. Pending = {} BY <1>1 DEF Pending, CaseRunning
    <3>3. EveryCasePassed(Sofar, g)
      <4>1. held[Invariants] \in Sofar.basis[Invariants]
        BY <1>1 DEF IInv, DraftInv, HeldInv, ListRead, Sofar
      <4>2. \A k \in Listed[held[Invariants]] : CouldPass(Sofar, g, k, held[Invariants])
        BY <1>1, <3>1, <3>2 DEF Underway, ListRead
      <4> QED BY <4>1, <4>2 DEF EveryCasePassed
    <3>4. \A b \in draft.bound \ unbound : EveryCasePassed(Sofar, b)
      BY <3>1, <3>3 DEF Underway
    <3> QED
      BY <1>1, <1>6, <2>2, <3>4 DEF JudgedInv, InBinding, ListRead, CaseRunning
  <2> QED BY <2>1, <2>2
<1>8. OnDisk(Sofar) => OnDisk(Sofar)' BY <1>1, <1>6 DEF OnDisk, Present, dir
<1> QED
  BY <1>1, <1>4, <1>5, <1>7, <1>8, EvaluationFrame DEF IInv, DraftInv, QuietInv, Evaluating, dir

----------------------------------------------------------------------------
(* The digests and the document.                                            *)

LEMMA DigestsKeepInv ==
    ASSUME IInv, DigestSkill \/ DigestAbi \/ DigestLock, UNCHANGED changes
    PROVE  IInv'
<1>1. /\ cpc \in {"skill", "abi", "lock"} /\ cpc' \in {"abi", "look", "open"}
      /\ UNCHANGED <<unbound, caseVars, basis>> /\ UNCHANGED <<dir, changes, cert, verifyVars>>
  BY DEF DigestSkill, DigestAbi, DigestLock
<1>2. draft \in Drafts /\ changes \in 0..MaxChanges /\ lock \in LockStates
  BY DEF IInv, TypeOK
<1>3. files[SkillMd] \in Bytes /\ files[Abi] \in Bytes BY WhereFilesAre DEF IInv
<1>4. /\ draft' \in Drafts
      /\ draft'.failed = draft.failed /\ draft'.bound = draft.bound
      /\ draft'.covers = draft.covers /\ draft'.start = draft.start
  <2>1. CASE DigestSkill
    BY <1>2, <1>3, <2>1 DEF DigestSkill, Drafts
  <2>2. CASE DigestAbi
    BY <1>2, <1>3, <2>2 DEF DigestAbi, Drafts
  <2>3. CASE DigestLock
    BY <1>2, <2>3 DEF DigestLock, Drafts
  <2> QED BY <2>1, <2>2, <2>3
<1>5. TypeOK'
  BY <1>1, <1>4 DEF IInv, TypeOK, CertifyRunning, Evaluating, dir, verifyVars, caseVars
<1>6. Sofar' = Sofar BY <1>1, <1>4 DEF Sofar
<1>7. HeldInv'
  BY <1>1, <1>4 DEF IInv, DraftInv, HeldInv, ListRead, CaseRunning, CertifyRunning, Evaluating
<1>8. JudgedInv'
  BY <1>1, <1>4, <1>6 DEF IInv, DraftInv, JudgedInv, InBinding, ListRead, CaseRunning
<1>9. QuietInv'
  BY <1>1, <1>4, <1>6
     DEF IInv, DraftInv, QuietInv, OnDisk, BoundOnDisk, Present, CertifyRunning, Evaluating, dir
<1>10. DigestInv'
  <2>1. CASE DigestSkill
    <3>1. /\ cpc' = "abi" /\ files[SkillMd] \in Contents
          /\ draft' = [draft EXCEPT !.skill = files[SkillMd], !.at = changes]
          /\ cpc = "skill"
      BY <1>3, <2>1 DEF DigestSkill, Bytes
    <3>2. draft'.skill = files[SkillMd] /\ draft'.at = changes /\ draft'.lock = draft.lock
      BY <1>2, <3>1 DEF Drafts
    <3> QED BY <1>1, <1>2, <3>1, <3>2 DEF IInv, DraftInv, DigestInv, dir
  <2>2. CASE DigestAbi
    <3>1. /\ cpc' = "look" /\ files[Abi] \in Contents /\ draft' = [draft EXCEPT !.abi = files[Abi]]
          /\ cpc = "abi"
      BY <1>3, <2>2 DEF DigestAbi, Bytes
    <3>2. /\ draft'.abi = files[Abi] /\ draft'.skill = draft.skill /\ draft'.at = draft.at
          /\ draft'.lock = draft.lock
      BY <1>2, <3>1 DEF Drafts
    <3> QED BY <1>1, <1>2, <3>1, <3>2 DEF IInv, DraftInv, DigestInv, dir
  <2>3. CASE DigestLock
    <3>1. cpc = "lock" /\ cpc' = "open" /\ draft' = [draft EXCEPT !.lock = lock]
      BY <2>3 DEF DigestLock
    <3>2. /\ draft'.lock = lock /\ draft'.skill = draft.skill /\ draft'.abi = draft.abi
          /\ draft'.at = draft.at
      BY <1>2, <3>1 DEF Drafts
    <3> QED BY <1>1, <1>2, <3>1, <3>2 DEF IInv, DraftInv, DigestInv, dir
  <2> QED BY <2>1, <2>2, <2>3
<1> QED BY <1>1, <1>5, <1>7, <1>8, <1>9, <1>10, CertifyFrame DEF DraftInv

LEMMA OpenKeepsInv ==
    ASSUME IInv, OpenCert, UNCHANGED changes
    PROVE  IInv'
<1>1. /\ cert' = Empty /\ cpc = "open" /\ cpc' = "write"
      /\ UNCHANGED <<unbound, caseVars, draft, basis>> /\ UNCHANGED <<dir, changes, verifyVars>>
  BY DEF OpenCert
<1>2. TypeOK'
  BY <1>1 DEF IInv, TypeOK, CertFile, CertifyRunning, Evaluating, dir, verifyVars, caseVars
<1>3. Sofar' = Sofar BY <1>1 DEF Sofar
<1>4. HeldInv'
  BY <1>1 DEF IInv, DraftInv, HeldInv, ListRead, CaseRunning, CertifyRunning, Evaluating
<1>5. JudgedInv'
  BY <1>1, <1>3 DEF IInv, DraftInv, JudgedInv, InBinding, ListRead, CaseRunning
<1>6. QuietInv'
  BY <1>1, <1>3
     DEF IInv, DraftInv, QuietInv, OnDisk, BoundOnDisk, Present, CertifyRunning, Evaluating, dir
<1>7. DigestInv' BY <1>1 DEF IInv, DraftInv, DigestInv, dir
<1>8. DocumentInv' BY <1>1 DEF DocumentInv, IsDocument
<1> QED BY <1>1, <1>2, <1>4, <1>5, <1>6, <1>7, <1>8, VerifyUndisturbed DEF IInv, DraftInv

(* The document is what the invariants of the evaluation say of the draft.  *)
LEMMA BuiltDocument ==
    ASSUME TypeOK, DraftInv, cpc = "write"
    PROVE  SoundDocument(BuildCertificate(draft, basis))
<1> DEFINE c == BuildCertificate(draft, basis)
<1>1. c.evidence_class = IF draft.failed = 0 THEN "STATIC_CONFORMANT" ELSE "SPEC_VALID"
  BY DEF BuildCertificate, ClassifyEvidence
<1>2. {"STATIC_CONFORMANT", "SPEC_VALID"} \subseteq ClassNames
  BY DEF ClassNames, EvidenceClasses
<1>3. draft.skill \in Contents /\ draft.abi \in Contents BY DEF DraftInv, DigestInv
<1>4. /\ c.skill_digest = draft.skill /\ c.abi_digest = draft.abi /\ c.lock_digest = draft.lock
      /\ c.cases = draft.passed + draft.failed /\ c.passed = draft.passed
      /\ c.failed = draft.failed /\ c.run_receipts = <<>> /\ c.signed = FALSE
      /\ c.basis = basis /\ c.bound = draft.bound /\ c.covers = draft.covers
      /\ c.start = draft.start /\ c.at = draft.at
  BY DEF BuildCertificate
<1>5. c.evidence_class \in ClassNames BY <1>1, <1>2
<1>6. c \in Certificates
  <2>1. ClassifyEvidence(<<>>, FALSE, draft.failed = 0) \in ClassNames
    BY <1>5 DEF BuildCertificate
  <2>2. draft.passed + draft.failed \in Nat BY Shapes
  <2>3. /\ draft.lock \in LockStates /\ draft.passed \in Nat /\ draft.failed \in Nat
        /\ draft.bound \in SUBSET Bindings /\ draft.covers \in SUBSET CoverLooks
        /\ draft.start \in 0..MaxChanges /\ draft.at \in 0..MaxChanges
        /\ basis \in [Judged -> SUBSET Contents]
    BY Shapes
  <2> HIDE DEF c
  <2>4. c = [skill_digest |-> draft.skill, abi_digest |-> draft.abi,
             lock_digest |-> draft.lock, cases |-> draft.passed + draft.failed,
             passed |-> draft.passed, failed |-> draft.failed,
             evidence_class |-> ClassifyEvidence(<<>>, FALSE, draft.failed = 0),
             run_receipts |-> <<>>, signed |-> FALSE, basis |-> basis, bound |-> draft.bound,
             covers |-> draft.covers, start |-> draft.start, at |-> draft.at]
    BY DEF c, BuildCertificate
  <2> QED BY <1>3, <2>1, <2>2, <2>3, <2>4, Zenon DEF Certificates
<1> HIDE DEF c
<1>7. ~ClaimProblem(c)
  BY <1>1, <1>4 DEF ClaimProblem, CountProblem, ReceiptsProblem, SignatureProblem
<1>8. Justified(c)
  <2>1. /\ c.basis = Sofar.basis /\ c.covers = Sofar.covers /\ c.bound = Sofar.bound
    BY <1>4 DEF Sofar
  <2>2. /\ \A b \in Bindings : EveryCasePassed(Sofar, b) => EveryCasePassed(c, b)
        /\ SomeCaseFailed(Sofar) => SomeCaseFailed(c)
    BY <2>1, GrowsOn, Shapes
  <2>3. draft.failed = 0 => \A b \in draft.bound : EveryCasePassed(Sofar, b)
    BY DEF DraftInv, HeldInv, JudgedInv, InBinding, ListRead, CaseRunning, CertifyRunning,
           Evaluating
  <2>4. draft.failed # 0 => SomeCaseFailed(Sofar) BY DEF DraftInv, JudgedInv
  <2>5. draft.bound \subseteq Bindings BY Shapes
  <2> QED BY <1>1, <1>4, <2>2, <2>3, <2>4, <2>5 DEF Justified
<1>9. Undisturbed(c)
  BY <1>4 DEF DraftInv, QuietInv, Undisturbed, OnDisk, BoundOnDisk, Sofar, CertifyRunning,
              Evaluating
<1>10. Fresh(c) BY <1>4 DEF DraftInv, DigestInv, Fresh
<1> QED BY <1>6, <1>7, <1>8, <1>9, <1>10 DEF SoundDocument, c

LEMMA WriteKeepsInv ==
    ASSUME IInv, WriteCert, UNCHANGED changes
    PROVE  IInv'
<1> DEFINE c == BuildCertificate(draft, basis)
<1>1. /\ cert' = c /\ cpc = "write" /\ cpc' \in {"certified", "failing"}
      /\ unbound' = {} /\ StopEvaluating /\ draft' = NoDraft /\ basis' = NoBasis
      /\ UNCHANGED <<dir, changes, verifyVars>>
  BY DEF WriteCert
<1>2. SoundDocument(c) BY <1>1, BuiltDocument DEF IInv
<1> HIDE DEF c
<1>3. 0 \in 0..MaxChanges /\ 0 <= changes /\ NoDraft = [NoDraft EXCEPT !.start = 0]
  <2>1. 0 \in 0..MaxChanges /\ 0 <= changes BY CertifyAssumption DEF IInv, TypeOK
  <2>2. NoDraft = [NoDraft EXCEPT !.start = 0] BY DEF NoDraft
  <2> QED BY <2>1, <2>2
<1>4. TypeOK'
  <2>1. draft' \in Drafts /\ basis' \in [Judged -> SUBSET Contents] /\ held' \in [Judged -> Bytes]
    BY <1>1, <1>3, EmptyDraft DEF StopEvaluating
  <2>2. /\ profile' \in Bytes /\ untried' = {} /\ trying' = NoCase /\ unread' = {}
        /\ pins' \in LockStates
    BY <1>1 DEF StopEvaluating, Bytes, LockStates
  <2>3. cert' \in CertFile BY <1>1, <1>2 DEF SoundDocument, CertFile
  <2> QED BY <1>1, <2>1, <2>2, <2>3 DEF IInv, TypeOK, CertifyRunning, dir, verifyVars
<1>5. DraftInv' BY <1>1, <1>3, ResetKeepsDraft DEF Evaluating
<1>6. DocumentInv'
  <2>1. /\ cert' \in Certificates /\ ~ClaimProblem(cert') /\ Justified(cert')
        /\ Undisturbed(c) /\ Fresh(c)
    BY <1>1, <1>2 DEF SoundDocument
  <2>2. Undisturbed(cert)' /\ Fresh(cert)'
    BY <1>1, <2>1 DEF Undisturbed, Fresh, OnDisk, BoundOnDisk, Present, dir
  <2> QED BY <2>1, <2>2 DEF DocumentInv, SoundDocument
<1> QED BY <1>1, <1>4, <1>5, <1>6, VerifyUndisturbed DEF IInv
----------------------------------------------------------------------------
(* The steps of verify-certificate.                                         *)

LEMMA VerifyFrame ==
    ASSUME IInv, TypeOK', VerifyInv', UNCHANGED <<dir, changes, cert, certifyVars>>
    PROVE  IInv'
BY DraftUndisturbed, DocumentUndisturbed DEF IInv

(* A sound document stays sound while the directory stays the same.         *)
LEMMA SoundStaysSound ==
    ASSUME NEW c, SoundDocument(c), UNCHANGED <<dir, changes>>
    PROVE  SoundDocument(c)'
<1>1. /\ c \in Certificates /\ ~ClaimProblem(c) /\ Justified(c)
      /\ Undisturbed(c) /\ Fresh(c)
  BY DEF SoundDocument
<1>2. Undisturbed(c)' /\ Fresh(c)'
  BY <1>1 DEF Undisturbed, Fresh, OnDisk, BoundOnDisk, Present, dir
<1> QED BY <1>1, <1>2 DEF SoundDocument

LEMMA StartVerifyKeepsInv ==
    ASSUME IInv, StartVerifyCertificate, UNCHANGED changes
    PROVE  IInv'
<1>1. /\ subject' = cert
      /\ vpc' = IF IsDocument(cert) THEN "skill" ELSE "error"
      /\ vseen' = [skill |-> {files[SkillMd]}, abi |-> {files[Abi]}, lock |-> {lock}]
      /\ UNCHANGED <<dir, changes, cert, certifyVars>>
  BY DEF StartVerifyCertificate
<1>2. objection' = FALSE
  BY DEF StartVerifyCertificate, IInv, DocumentInv, SoundDocument
<1>3. TypeOK'
  <2>1. vseen' \in [skill : SUBSET Bytes, abi : SUBSET Bytes, lock : SUBSET LockStates]
    BY <1>1, WhereFilesAre DEF IInv, TypeOK
  <2> QED BY <1>1, <1>2, <2>1 DEF IInv, TypeOK, VerifyRunning, dir, certifyVars, caseVars
<1>4. VerifyInv'
  <2>1. CASE ~IsDocument(cert)
    BY <1>1, <2>1 DEF VerifyInv, VerifyRunning
  <2>2. CASE IsDocument(cert)
    <3>1. DocumentInv' BY <1>1, DocumentUndisturbed DEF IInv
    <3>2. SoundDocument(subject)' BY <1>1, <2>2, <3>1 DEF DocumentInv, SoundDocument
    <3> QED BY <1>1, <1>2, <2>2, <3>2 DEF VerifyInv, VerifyRunning, dir
  <2> QED BY <2>1, <2>2
<1> QED BY <1>1, <1>3, <1>4, VerifyFrame

(* What a verification that is under way may rely on.                       *)
LEMMA UnderWay ==
    ASSUME IInv, vpc \in VerifyRunning
    PROVE  /\ subject \in Certificates /\ SoundDocument(subject)
           /\ subject.skill_digest \in Contents /\ subject.abi_digest \in Contents
           /\ files[SkillMd] \in vseen.skill /\ files[Abi] \in vseen.abi /\ lock \in vseen.lock
           /\ files[SkillMd] # subject.skill_digest => changes # subject.at /\ Differs
           /\ files[Abi] # subject.abi_digest => changes # subject.at /\ Differs
           /\ lock # subject.lock_digest => changes # subject.at /\ Differs
<1>1. SoundDocument(subject) BY DEF IInv, VerifyInv
<1>2. subject \in Certificates BY <1>1 DEF SoundDocument
<1>3. subject.skill_digest \in Contents /\ subject.abi_digest \in Contents
  BY <1>2 DEF Certificates
<1>4. files[SkillMd] \in vseen.skill /\ files[Abi] \in vseen.abi /\ lock \in vseen.lock
  BY DEF IInv, VerifyInv
<1> QED BY <1>1, <1>2, <1>3, <1>4 DEF SoundDocument, Fresh, Differs

(* A step of verify-certificate that keeps the history straight.            *)
LEMMA VerifyGoesOn ==
    ASSUME IInv, vpc \in VerifyRunning, UNCHANGED <<dir, changes, cert, certifyVars>>,
           UNCHANGED <<subject, vseen>>, objection' \in BOOLEAN,
           vpc' \in VerifyRunning \cup {"error", "valid", "invalid"},
           objection' => changes # subject.at /\ Differs,
           vpc' = "invalid" => objection',
           vpc' \in {"abi", "abi_digest", "lock", "lock_digest"} /\ ~objection' => SkillSeen,
           vpc' \in {"lock", "lock_digest"} /\ ~objection' => AbiSeen,
           vpc' = "valid" => SkillSeen /\ AbiSeen /\ LockSeen
    PROVE  IInv'
<1>1. TypeOK' BY DEF IInv, TypeOK, VerifyRunning, dir, certifyVars, caseVars
<1>2. SoundDocument(subject)'
  <2>1. PICK c : c = subject OBVIOUS
  <2>2. SoundDocument(c)' BY <2>1, UnderWay, SoundStaysSound
  <2> QED BY <2>1, <2>2 DEF SoundDocument
<1>3. /\ Differs' = Differs /\ SkillSeen' = SkillSeen
      /\ AbiSeen' = AbiSeen /\ LockSeen' = LockSeen
  BY DEF Differs, SkillSeen, AbiSeen, LockSeen
<1>4. /\ files[SkillMd] \in vseen.skill /\ files[Abi] \in vseen.abi /\ lock \in vseen.lock
      /\ files' = files /\ lock' = lock
  BY UnderWay DEF dir
<1>5. VerifyInv' BY <1>2, <1>3, <1>4 DEF VerifyInv, VerifyRunning
<1> QED BY <1>1, <1>5, VerifyFrame

LEMMA VerifyStepFacts ==
    ASSUME VerifyStep, UNCHANGED changes
    PROVE  /\ vpc \in VerifyRunning
           /\ UNCHANGED <<dir, changes, cert, certifyVars>> /\ UNCHANGED <<subject, vseen>>
           /\ vpc' # "idle"
BY DEF VerifyStep, LookSkill, LookAbi, LookAtLock, VanishedDigest, VerifySkill, VerifyAbi,
       VerifyLockDigest, Concluded, VerifyRunning

(* Each look and each comparison: an objection has a cause, none means that *)
(* a content of the certificate was seen.                                   *)
LEMMA VerifyStepKeepsInv ==
    ASSUME IInv, VerifyStep, UNCHANGED changes
    PROVE  IInv'
<1>1. /\ vpc \in VerifyRunning
      /\ UNCHANGED <<dir, changes, cert, certifyVars>> /\ UNCHANGED <<subject, vseen>>
  BY VerifyStepFacts
<1>2. objection \in BOOLEAN /\ NoFile \notin Contents
  BY TreeAssumption DEF IInv, TypeOK
<1>3. /\ subject.skill_digest \in Contents /\ subject.abi_digest \in Contents
      /\ files[SkillMd] \in vseen.skill /\ files[Abi] \in vseen.abi /\ lock \in vseen.lock
      /\ files[SkillMd] # subject.skill_digest => changes # subject.at /\ Differs
      /\ files[Abi] # subject.abi_digest => changes # subject.at /\ Differs
      /\ lock # subject.lock_digest => changes # subject.at /\ Differs
  BY <1>1, UnderWay
<1>4. /\ objection => changes # subject.at /\ Differs
      /\ vpc \in {"abi", "abi_digest", "lock", "lock_digest"} /\ ~objection => SkillSeen
      /\ vpc \in {"lock", "lock_digest"} /\ ~objection => AbiSeen
  BY <1>1 DEF IInv, VerifyInv
<1>5. CASE LookSkill
  <2>1. /\ vpc' = IF files[SkillMd] = NoFile THEN "invalid" ELSE "skill_digest"
        /\ objection' = (objection \/ files[SkillMd] = NoFile)
    BY <1>5 DEF LookSkill
  <2> QED BY <1>1, <1>2, <1>3, <1>4, <2>1, VerifyGoesOn DEF VerifyRunning
<1>6. CASE LookAbi
  <2>1. /\ vpc = "abi" /\ vpc' = IF files[Abi] = NoFile THEN "lock" ELSE "abi_digest"
        /\ objection' = objection
    BY <1>6 DEF LookAbi
  <2>2. vpc' = "lock" => AbiSeen BY <1>3, <2>1 DEF AbiSeen
  <2> QED BY <1>1, <1>2, <1>4, <2>1, <2>2, VerifyGoesOn DEF VerifyRunning
<1>7. CASE LookAtLock
  <2>1. /\ vpc = "lock" /\ objection' = objection
        /\ vpc' = IF NoFile \in {lock, subject.lock_digest} THEN Concluded(objection)
                  ELSE "lock_digest"
    BY <1>7 DEF LookAtLock
  <2>2. vpc' = "valid" => ~objection /\ LockSeen
    BY <1>3, <2>1 DEF Concluded, LockSeen
  <2>3. vpc' = "invalid" => objection BY <2>1 DEF Concluded
  <2>4. vpc' \in {"valid", "invalid", "lock_digest"} BY <2>1 DEF Concluded
  <2> QED BY <1>1, <1>2, <1>4, <2>1, <2>2, <2>3, <2>4, VerifyGoesOn DEF VerifyRunning
<1>8. CASE VanishedDigest
  <2>1. vpc' = "error" /\ objection' = objection BY <1>8 DEF VanishedDigest
  <2> QED BY <1>1, <1>2, <1>4, <2>1, VerifyGoesOn
<1>9. CASE VerifySkill
  <2>1. /\ vpc' = "abi" /\ objection' = (objection \/ subject.skill_digest # files[SkillMd])
    BY <1>9 DEF VerifySkill
  <2>2. ~objection' => SkillSeen BY <1>3, <2>1 DEF SkillSeen
  <2> QED BY <1>1, <1>2, <1>3, <1>4, <2>1, <2>2, VerifyGoesOn DEF VerifyRunning
<1>10. CASE VerifyAbi
  <2>1. /\ vpc = "abi_digest" /\ vpc' = "lock"
        /\ objection' = (objection \/ subject.abi_digest # files[Abi])
    BY <1>10 DEF VerifyAbi
  <2>2. ~objection' => AbiSeen BY <1>3, <2>1 DEF AbiSeen
  <2> QED BY <1>1, <1>2, <1>3, <1>4, <2>1, <2>2, VerifyGoesOn DEF VerifyRunning
<1>11. CASE VerifyLockDigest
  <2>1. /\ vpc = "lock_digest" /\ vpc' = Concluded(objection')
        /\ objection' = (objection \/ subject.lock_digest # lock)
    BY <1>11 DEF VerifyLockDigest
  <2>2. ~objection' => LockSeen BY <1>3, <2>1 DEF LockSeen
  <2>3. /\ vpc' = "valid" => ~objection' /\ SkillSeen /\ AbiSeen /\ LockSeen
        /\ vpc' = "invalid" => objection' /\ vpc' \in {"valid", "invalid"}
        /\ vpc' \in {"valid", "invalid"}
    BY <1>4, <2>1, <2>2 DEF Concluded
  <2> QED BY <1>1, <1>2, <1>3, <1>4, <2>1, <2>2, <2>3, VerifyGoesOn
<1> QED BY <1>5, <1>6, <1>7, <1>8, <1>9, <1>10, <1>11 DEF VerifyStep

----------------------------------------------------------------------------
(* Others change the directory.  From then on nothing was read or digested  *)
(* "just now", and the history of a verification takes the change in.       *)
LEMMA ChangeKeepsInv ==
    ASSUME IInv, Change, files' \in [Locked -> Bytes], lock' \in LockStates
    PROVE  IInv'
<1>1. /\ changes < MaxChanges /\ changes' = changes + 1
      /\ UNCHANGED <<cert, certifyVars, vpc, subject, objection>>
  BY DEF Change
<1>2. changes \in Nat /\ changes' \in 0..MaxChanges
  BY <1>1, CertifyAssumption DEF IInv, TypeOK
<1>3. vseen \in [skill : SUBSET Bytes, abi : SUBSET Bytes, lock : SUBSET LockStates]
  BY DEF IInv, TypeOK
<1>4. /\ vseen' \in [skill : SUBSET Bytes, abi : SUBSET Bytes, lock : SUBSET LockStates]
      /\ vseen.skill \subseteq vseen'.skill /\ vseen.abi \subseteq vseen'.abi
      /\ vseen.lock \subseteq vseen'.lock
      /\ vpc \in VerifyRunning => /\ files'[SkillMd] \in vseen'.skill
                                  /\ files'[Abi] \in vseen'.abi /\ lock' \in vseen'.lock
  <2>1. files'[SkillMd] \in Bytes /\ files'[Abi] \in Bytes
    BY CertifyAssumption
  <2>2. CASE vpc \in VerifyRunning
    BY <1>3, <2>1, <2>2 DEF Change, VerifyNotices
  <2>3. CASE vpc \notin VerifyRunning
    BY <1>3, <2>3 DEF Change, VerifyNotices
  <2> QED BY <2>2, <2>3
<1>5. TypeOK' BY <1>1, <1>2, <1>4 DEF IInv, TypeOK, certifyVars, caseVars
<1>6. DraftInv'
  <2>1. UNCHANGED certifyVars BY <1>1
  <2>2. Sofar' = Sofar /\ Pending' = Pending
    BY <2>1 DEF Sofar, Pending, certifyVars, caseVars
  <2>3. HeldInv' BY <2>1, <2>2 DEF IInv, DraftInv, HeldInv, certifyVars, caseVars
  <2>4. JudgedInv' BY <2>1, <2>2 DEF IInv, DraftInv, JudgedInv, Underway, certifyVars, caseVars
  <2>5. draft.start \in Nat /\ draft.at \in Nat /\ draft.start <= changes
    BY Shapes, CertifyAssumption DEF IInv, DraftInv, QuietInv
  <2>6. QuietInv' BY <1>1, <1>2, <2>1, <2>5 DEF QuietInv, certifyVars
  <2>7. DigestInv'
    BY <1>1, <1>2, <2>1, <2>5 DEF IInv, DraftInv, DigestInv, certifyVars
  <2> QED BY <2>3, <2>4, <2>6, <2>7 DEF DraftInv
<1>7. ASSUME NEW c, SoundDocument(c)
      PROVE  SoundDocument(c)' /\ changes' # c.at /\ c.at \in Nat
  <2>1. /\ c \in Certificates /\ ~ClaimProblem(c) /\ Justified(c)
        /\ c.at <= changes /\ c.start <= changes
    BY <1>7 DEF SoundDocument, Undisturbed, Fresh
  <2>2. c.at \in Nat /\ c.start \in Nat
    BY <2>1, CertifyAssumption DEF Certificates
  <2>3. c.at <= changes' /\ c.start <= changes' /\ changes' # c.at /\ changes' # c.start
    BY <1>1, <1>2, <2>1, <2>2
  <2>4. Undisturbed(c)' /\ Fresh(c)' BY <2>3 DEF Undisturbed, Fresh
  <2> QED BY <2>1, <2>2, <2>3, <2>4 DEF SoundDocument
<1>8. DocumentInv'
  <2> SUFFICES ASSUME IsDocument(cert)' PROVE SoundDocument(cert)'
    BY DEF DocumentInv
  <2>1. PICK c : c = cert OBVIOUS
  <2>2. SoundDocument(c) BY <1>1, <2>1 DEF IInv, DocumentInv, IsDocument
  <2> QED BY <1>1, <1>7, <2>1, <2>2 DEF SoundDocument
<1>9. VerifyInv'
  <2>1. vpc' = vpc /\ objection' = objection /\ subject' = subject BY <1>1
  <2>2. vpc \in VerifyRunning \cup {"valid", "invalid"} =>
          SoundDocument(subject)' /\ changes' # subject.at
    <3> SUFFICES ASSUME SoundDocument(subject)
                 PROVE  SoundDocument(subject)' /\ changes' # subject.at
      BY DEF IInv, VerifyInv
    <3>1. PICK c : c = subject OBVIOUS
    <3> QED BY <1>7, <2>1, <3>1 DEF SoundDocument
  <2>3. (Differs => Differs') /\ (SkillSeen => SkillSeen') /\ (AbiSeen => AbiSeen')
          /\ (LockSeen => LockSeen')
    BY <1>4, <2>1 DEF Differs, SkillSeen, AbiSeen, LockSeen
  <2>4. /\ vpc \in {"abi", "abi_digest", "lock", "lock_digest"} /\ ~objection => SkillSeen
        /\ vpc \in {"lock", "lock_digest"} /\ ~objection => AbiSeen
        /\ vpc = "valid" => SkillSeen /\ AbiSeen /\ LockSeen
        /\ (vpc \in VerifyRunning /\ objection) \/ vpc = "invalid" => Differs
    BY DEF IInv, VerifyInv
  <2>5. vpc \in VerifyRunning =>
          files'[SkillMd] \in vseen'.skill /\ files'[Abi] \in vseen'.abi /\ lock' \in vseen'.lock
    BY <1>4
  <2> QED BY <2>1, <2>2, <2>3, <2>4, <2>5 DEF VerifyInv
<1> QED BY <1>5, <1>6, <1>8, <1>9 DEF IInv

----------------------------------------------------------------------------
(* The inductive invariant, and what it says.                               *)

LEMMA CertifyStepKeepsInv ==
    ASSUME IInv, CertifyStep, UNCHANGED changes
    PROVE  IInv'
<1>1. CASE CertifyError BY <1>1, StopKeepsInv
<1>2. CASE ReadDegradation \/ EndEvaluation \/ ParseAbi \/ LookLock BY <1>2, MovingOnKeepsInv
<1>3. CASE ListBindings BY <1>3, ListBindingsKeepsInv
<1>4. CASE \E b \in Bindings : ReadBinding(b) BY <1>4, ReadBindingKeepsInv
<1>5. CASE ReadInvariants BY <1>5, ReadInvariantsKeepsInv
<1>6. CASE ReadEffects BY <1>6, ReadEffectsKeepsInv
<1>7. CASE \E k \in Cases : TryCase(k) \/ LookForLock(k)
  BY <1>7, TryCaseKeepsInv, LookForLockKeepsInv
<1>8. CASE \E f \in Judged : ReadOwn(f) BY <1>8, ReadOwnKeepsInv
<1>9. CASE JudgeCase BY <1>9, JudgeCaseKeepsInv
<1>10. CASE ReadPins BY <1>10, ReadPinsKeepsInv
<1>11. CASE ListSchemas BY <1>11, ListSchemasKeepsInv
<1>12. CASE EndBinding BY <1>12, EndBindingKeepsInv
<1>13. CASE DigestSkill \/ DigestAbi \/ DigestLock BY <1>13, DigestsKeepInv
<1>14. CASE OpenCert BY <1>14, OpenKeepsInv
<1>15. CASE WriteCert BY <1>15, WriteKeepsInv
<1> QED
  BY <1>1, <1>2, <1>3, <1>4, <1>5, <1>6, <1>7, <1>8, <1>9, <1>10, <1>11, <1>12, <1>13, <1>14,
     <1>15 DEF CertifyStep

(* With no certificate and nothing under way there is nothing to answer for.*)
LEMMA FirstInv ==
    ASSUME CertInit, files \in [Locked -> Bytes], lock \in LockStates, changes \in 0..MaxChanges
    PROVE  IInv
<1>1. 0 \in 0..MaxChanges /\ 0 <= changes BY CertifyAssumption
<1>2. NoDraft \in Drafts /\ NoBasis \in [Judged -> SUBSET Contents]
      /\ NothingHeld \in [Judged -> Bytes]
  BY <1>1, EmptyDraft
<1>3. vseen \in [skill : SUBSET Bytes, abi : SUBSET Bytes, lock : SUBSET LockStates]
  BY DEF CertInit
<1>4. TypeOK
  BY <1>1, <1>2, <1>3 DEF CertInit, TypeOK, CertFile, Bytes, LockStates
<1>5. NoDraft.bound = {} /\ NoDraft.covers = {} /\ NoDraft.failed = 0 /\ NoDraft.start = 0
      /\ NoDraft.lock = NoFile
  BY DEF NoDraft
<1>6. HeldInv /\ JudgedInv
  BY <1>5 DEF CertInit, HeldInv, JudgedInv, InBinding, ListRead, CaseRunning
<1>7. QuietInv /\ DigestInv
  <2>1. OnDisk(Sofar) BY <1>5 DEF CertInit, OnDisk, Sofar, NoBasis
  <2> QED BY <1>1, <1>5, <2>1 DEF CertInit, QuietInv, DigestInv, CertifyRunning, Evaluating
<1>8. DocumentInv /\ VerifyInv
  BY DEF CertInit, DocumentInv, IsDocument, VerifyInv, VerifyRunning
<1> QED BY <1>4, <1>6, <1>7, <1>8 DEF IInv, DraftInv

LEMMA StutterKeepsInv ==
    ASSUME IInv, UNCHANGED <<dir, changes, cert, certifyVars, verifyVars>>
    PROVE  IInv'
<1>1. TypeOK' BY DEF IInv, TypeOK, dir, certifyVars, caseVars, verifyVars
<1> QED BY <1>1, CertifyFrame, DraftUndisturbed DEF IInv

THEOREM Invariance == Spec => []IInv
<1>1. Init => IInv
  <2> SUFFICES ASSUME Init PROVE IInv
    OBVIOUS
  <2>1. lock \in LockStates BY CertifyAssumption DEF Init
  <2>2. CertInit /\ files \in [Locked -> Bytes] /\ changes \in 0..MaxChanges
    BY CertifyAssumption DEF Init
  <2> QED BY <2>1, <2>2, FirstInv
<1>2. IInv /\ [Next]_allVars => IInv'
  <2> SUFFICES ASSUME IInv, [Next]_allVars PROVE IInv'
    OBVIOUS
  <2>1. CASE \E f \in Locked, c \in Bytes : ChangeFile(f, c)
    <3>1. PICK f \in Locked, c \in Bytes : ChangeFile(f, c) BY <2>1
    <3>2. Change /\ files' \in [Locked -> Bytes] /\ lock' \in LockStates
      BY <3>1 DEF ChangeFile, IInv, TypeOK
    <3> QED BY <3>2, ChangeKeepsInv
  <2>2. CASE \E v \in LockChoices : ChangeLock(v)
    <3>1. Change /\ files' \in [Locked -> Bytes] /\ lock' \in LockStates
      BY <2>2, CertifyAssumption DEF ChangeLock, IInv, TypeOK
    <3> QED BY <3>1, ChangeKeepsInv
  <2>3. CASE StartCertify /\ UNCHANGED changes BY <2>3, StartKeepsInv
  <2>4. CASE CrashCertify /\ UNCHANGED changes BY <2>4, StopKeepsInv
  <2>5. CASE CertifyStep /\ UNCHANGED changes BY <2>5, CertifyStepKeepsInv
  <2>6. CASE StartVerifyCertificate /\ UNCHANGED changes BY <2>6, StartVerifyKeepsInv
  <2>7. CASE VerifyStep /\ UNCHANGED changes BY <2>7, VerifyStepKeepsInv
  <2>8. CASE UNCHANGED allVars
    <3>1. UNCHANGED <<dir, changes, cert, certifyVars, verifyVars>>
      BY <2>8 DEF allVars, certVars
    <3> QED BY <3>1, StutterKeepsInv
  <2> QED BY <2>1, <2>2, <2>3, <2>4, <2>5, <2>6, <2>7, <2>8 DEF Next
<1> QED BY <1>1, <1>2, PTL DEF Spec

(* Every variable keeps its type (SkillCertify.TypeOK).                     *)
THEOREM TypeCorrect == Spec => []TypeOK
<1>1. IInv => TypeOK BY DEF IInv
<1> QED BY <1>1, Invariance, PTL

(* If what was judged is what is on disk, so is the verdict.                *)
LEMMA VerdictOnDisk ==
    ASSUME NEW c \in Certificates, OnDisk(c), NEW b \in Bindings, NEW k \in Cases, NEW l
    PROVE  /\ CouldPass(c, b, k, l) =>
                IF k \in CoverCases THEN Covers(lock, Present) ELSE Holds(k, files[b], files)
           /\ CouldFail(c, b, k, l) =>
                ~IF k \in CoverCases THEN Covers(lock, Present) ELSE Holds(k, files[b], files)
<1>1. /\ View(k) \subseteq Judged /\ b \in Judged
      /\ \A f \in Judged : c.basis[f] \subseteq {files[f]}
  BY CertifyAssumption DEF View, Judged, OnDisk
<1>2. CASE k \in CoverCases
  <2>1. \A x \in c.covers : x.lock = lock /\ x.schemas = Present BY DEF OnDisk
  <2>2. CouldPass(c, b, k, l) => Covers(lock, Present)
    BY <1>2, <2>1 DEF CouldPass
  <2>3. CouldFail(c, b, k, l) => ~Covers(lock, Present)
    BY <1>2, <2>1 DEF CouldFail
  <2> QED BY <1>2, <2>2, <2>3
<1>3. CASE k \notin CoverCases
  <2>1. ASSUME NEW p \in c.basis[b], NEW v \in Readings(c, k, l)
        PROVE  Holds(k, p, v) <=> Holds(k, files[b], files)
    <3>1. p = files[b] BY <1>1
    <3>2. \A f \in View(k) : v[f] = files[f] BY <1>1 DEF Readings
    <3>3. [f \in View(k) |-> v[f]] = [f \in View(k) |-> files[f]] BY <3>2
    <3> QED BY <3>1, <3>3 DEF Holds
  <2>2. CouldPass(c, b, k, l) => Holds(k, files[b], files) BY <1>3, <2>1 DEF CouldPass
  <2>3. CouldFail(c, b, k, l) => ~Holds(k, files[b], files) BY <1>3, <2>1 DEF CouldFail
  <2> QED BY <1>3, <2>2, <2>3
<1> QED BY <1>2, <1>3

LEMMA ClassOnDisk ==
    ASSUME NEW c, SoundDocument(c), changes = c.start
    PROVE  c.evidence_class = "STATIC_CONFORMANT" <=> DirectoryConforms
<1>1. c \in Certificates /\ Justified(c) /\ OnDisk(c) /\ BoundOnDisk(c)
  BY DEF SoundDocument, Undisturbed
<1>2. /\ c.bound = {g \in Bindings : files[g] # NoFile}
      /\ c.basis[Invariants] \subseteq {files[Invariants]}
      /\ c.basis[Invariants] \subseteq Contents
      /\ \A l \in Contents : Listed[l] \subseteq Cases
  BY <1>1, CertifyAssumption DEF BoundOnDisk, OnDisk, Judged, Certificates
<1>3. CASE c.evidence_class = "STATIC_CONFORMANT"
  <2>1. ASSUME NEW b \in c.bound, NEW k \in Listed[files[Invariants]]
        PROVE  IF k \in CoverCases THEN Covers(lock, Present) ELSE Holds(k, files[b], files)
    <3>1. EveryCasePassed(c, b) BY <1>1, <1>3 DEF Justified
    <3>2. PICK l \in c.basis[Invariants] : \A j \in Listed[l] : CouldPass(c, b, j, l)
      BY <3>1 DEF EveryCasePassed
    <3>3. l = files[Invariants] /\ k \in Cases /\ b \in Bindings BY <1>2
    <3> QED BY <1>1, <3>2, <3>3, VerdictOnDisk
  <2> QED BY <1>2, <1>3, <2>1 DEF DirectoryConforms
<1>4. CASE c.evidence_class # "STATIC_CONFORMANT"
  <2>1. SomeCaseFailed(c) BY <1>1, <1>4 DEF Justified
  <2>2. PICK b \in c.bound, l \in c.basis[Invariants] : \E k \in Listed[l] : CouldFail(c, b, k, l)
    BY <2>1 DEF SomeCaseFailed
  <2>3. PICK k \in Listed[l] : CouldFail(c, b, k, l) BY <2>2
  <2>4. l = files[Invariants] /\ k \in Cases /\ b \in Bindings BY <1>2
  <2>5. ~IF k \in CoverCases THEN Covers(lock, Present) ELSE Holds(k, files[b], files)
    BY <1>1, <2>3, <2>4, VerdictOnDisk
  <2>6. b \in {g \in Bindings : files[g] # NoFile} /\ k \in Listed[files[Invariants]]
    BY <1>2, <2>4
  <2>7. ~DirectoryConforms BY <2>5, <2>6 DEF DirectoryConforms
  <2> QED BY <1>4, <2>7
<1> QED BY <1>3, <1>4

(* However many cases and bindings there are, and whatever changes between  *)
(* any two reads: one failure reaches the class, STATIC_CONFORMANT means    *)
(* that every listed case passed on contents that were read, and in a       *)
(* directory that nobody has touched the class is the verdict on it         *)
(* (cmd_certify, evaluate_invariants, classify_evidence).                   *)
THEOREM ClassAlwaysReflectsJudgement == Spec => []ClassReflectsJudgement
<1>1. IInv => ClassReflectsJudgement
  <2> SUFFICES ASSUME IInv, IsDocument(cert) PROVE ClassReflectsJudgement
    BY DEF ClassReflectsJudgement
  <2>1. SoundDocument(cert) BY DEF IInv, DocumentInv
  <2>2. IF cert.evidence_class = "STATIC_CONFORMANT"
        THEN \A b \in cert.bound : EveryCasePassed(cert, b)
        ELSE SomeCaseFailed(cert)
    BY <2>1 DEF SoundDocument, Justified
  <2>3. changes = cert.start => (cert.evidence_class = "STATIC_CONFORMANT" <=> DirectoryConforms)
    BY <2>1, ClassOnDisk
  <2> QED BY <2>2, <2>3 DEF ClassReflectsJudgement
<1> QED BY <1>1, Invariance, PTL

(* VALID is witnessed by what the files held meanwhile                      *)
(* (verify_certificate).                                                    *)
THEOREM ValidIsWitnessed == Spec => []ValidWitnessed
<1>1. IInv => ValidWitnessed
  <2> SUFFICES ASSUME IInv, vpc = "valid" PROVE ValidWitnessed
    BY DEF ValidWitnessed
  <2>1. SkillSeen /\ AbiSeen /\ LockSeen BY DEF IInv, VerifyInv
  <2>2. vseen.abi \cap {subject.abi_digest, NoFile} # {} BY <2>1 DEF AbiSeen
  <2>3. subject.lock_digest = NoFile \/ vseen.lock \cap {subject.lock_digest, NoFile} # {}
    BY <2>1 DEF LockSeen
  <2> QED BY <2>1, <2>2, <2>3 DEF ValidWitnessed, SkillSeen
<1> QED BY <1>1, Invariance, PTL

(* INVALID has a cause: a change since the first digest, and a file that    *)
(* differed (build_certificate, verify_certificate).                        *)
THEOREM InvalidIsJustified == Spec => []InvalidJustified
<1>1. IInv => InvalidJustified
  <2> SUFFICES ASSUME IInv, vpc = "invalid" PROVE InvalidJustified
    BY DEF InvalidJustified
  <2>1. changes # subject.at /\ Differs BY DEF IInv, VerifyInv
  <2>2. \/ vseen.skill # {subject.skill_digest}
        \/ vseen.abi # {subject.abi_digest}
        \/ vseen.lock # {subject.lock_digest}
    BY <2>1 DEF Differs
  <2> QED BY <2>1, <2>2 DEF InvalidJustified
<1> QED BY <1>1, Invariance, PTL

(* A failure on the way leaves the old certificate alone (cmd_certify).     *)
THEOREM OnlyCompleteRunsEverReplace == Spec => OnlyCompleteRunsReplace
<1> DEFINE Replaces == cert' # cert => /\ cpc \in {"open", "write"}
                                       /\ cpc = "open" => draft.skill # NoFile /\ draft.abi # NoFile
                                       /\ cpc' \notin {"error", "refused"}
<1>1. IInv /\ [Next]_allVars => [Replaces]_allVars
  <2> SUFFICES ASSUME IInv, Next, cert' # cert PROVE Replaces
    BY DEF allVars, certVars
  <2>1. OpenCert \/ WriteCert
    <3>1. CertifyStep
      BY DEF Next, ChangeFile, ChangeLock, Change, StartCertify, CrashCertify,
         StartVerifyCertificate, VerifyStep, LookSkill, LookAbi, LookAtLock, VanishedDigest,
         VerifySkill, VerifyAbi, VerifyLockDigest
    <3> QED
      BY <3>1 DEF CertifyStep, CertifyError, ReadDegradation, ListBindings, ReadBinding,
         ReadInvariants, ReadEffects, TryCase, LookForLock, ReadOwn, JudgeCase, ReadPins,
         ListSchemas, EndBinding, EndEvaluation, ParseAbi, DigestSkill, DigestAbi, LookLock,
         DigestLock
  <2>2. cpc \in {"open", "write"} /\ cpc' \notin {"error", "refused"}
    BY <2>1 DEF OpenCert, WriteCert
  <2>3. draft.skill # NoFile /\ draft.abi # NoFile
    BY <2>2, TreeAssumption DEF IInv, DraftInv, DigestInv
  <2> QED BY <2>2, <2>3
<1> QED BY <1>1, Invariance, PTL DEF Spec, OnlyCompleteRunsReplace

----------------------------------------------------------------------------
(* certify comes to an end.                                                 *)

(* The phases in their order, and the places within one binding.            *)
LEMMA PhaseIs ==
    ASSUME NEW pc
    PROVE  /\ pc \in CertifyRunning \ Evaluating => PhaseOf[pc] \in 1..10
           /\ PhaseOf["degradation"] = 1 /\ PhaseOf["bindings"] = 2 /\ PhaseOf["parse"] = 4
           /\ PhaseOf["skill"] = 5 /\ PhaseOf["abi"] = 6 /\ PhaseOf["look"] = 7
           /\ PhaseOf["lock"] = 8 /\ PhaseOf["open"] = 9 /\ PhaseOf["write"] = 10
           /\ PlaceOf["invariants"] = 1 /\ PlaceOf["effects"] = 2 /\ PlaceOf["case"] = 3
           /\ PlaceOf["pins"] = 3 /\ PlaceOf["schemas"] = 4 /\ PlaceOf["cases"] = 5
           /\ PlaceOf["evaluate"] = 6
BY DEF PhaseOf, PlaceOf, CertifyRunning, Evaluating

(* A step to a later phase.                                                 *)
LEMMA LaterPhase ==
    ASSUME \/ cpc \in CertifyRunning /\ cpc' \notin CertifyRunning
           \/ cpc = "degradation" /\ cpc' = "bindings"
           \/ cpc = "bindings" /\ cpc' = "evaluate"
           \/ cpc = "evaluate" /\ cpc' = "parse"
           \/ cpc = "parse" /\ cpc' = "skill"
           \/ cpc = "skill" /\ cpc' = "abi"
           \/ cpc = "abi" /\ cpc' = "look"
           \/ cpc = "look" /\ cpc' \in {"lock", "open"}
           \/ cpc = "lock" /\ cpc' = "open"
           \/ cpc = "open" /\ cpc' = "write"
    PROVE  GoesForward
<1>1. CASE cpc \in CertifyRunning /\ cpc' \notin CertifyRunning
  BY <1>1, PhaseIs DEF GoesForward, Phase, CertifyRunning, Evaluating
<1>2. CASE cpc' \in CertifyRunning
  <2>1. CASE cpc' \in Evaluating
    <3>1. cpc = "bindings" /\ cpc' = "evaluate" BY <1>2, <2>1 DEF Evaluating, CertifyRunning
    <3>2. Phase = 2 /\ Phase' = 3 BY <3>1, PhaseIs DEF Phase, Evaluating, CertifyRunning
    <3> QED BY <3>2 DEF GoesForward
  <2>2. CASE cpc' \notin Evaluating
    <3>1. Phase' = PhaseOf[cpc'] BY <1>2, <2>2 DEF Phase
    <3>2. Phase = IF cpc = "evaluate" THEN 3 ELSE PhaseOf[cpc]
      BY <1>2, <2>2 DEF Phase, Evaluating, CertifyRunning
    <3>3. Phase' > Phase BY <1>2, <2>2, <3>1, <3>2, PhaseIs DEF CertifyRunning, Evaluating
    <3> QED BY <3>3 DEF GoesForward
  <2> QED BY <2>1, <2>2
<1> QED BY <1>1, <1>2 DEF CertifyRunning, Evaluating

(* A step within the cases of one binding.                                  *)
LEMMA SamePhase ==
    ASSUME cpc \in Evaluating, cpc' \in Evaluating
    PROVE  /\ Phase' = Phase
           /\ Place = PlaceOf[cpc] /\ Place' = PlaceOf[cpc']
BY DEF Phase, Place

(* Only a certify that runs takes steps, and none of them writes anything   *)
(* but the certificate.                                                     *)
LEMMA CertifyStepFacts ==
    ASSUME CertifyStep
    PROVE  cpc \in CertifyRunning /\ cpc' # "idle" /\ UNCHANGED <<dir, verifyVars>>
<1>1. CASE CertifyError
  BY <1>1 DEF CertifyError, Unable, CertifyRunning, Evaluating
<1>2. CASE ~CertifyError
  BY <1>2 DEF CertifyStep, ReadDegradation, ListBindings, ReadBinding, ReadInvariants,
     ReadEffects, TryCase, LookForLock, ReadOwn, JudgeCase, ReadPins, ListSchemas, EndBinding,
     EndEvaluation, ParseAbi, DigestSkill, DigestAbi, LookLock, DigestLock, OpenCert, WriteCert,
     CertifyRunning, Evaluating
<1> QED BY <1>1, <1>2

(* Each step of certify leaves it less to do.                               *)
LEMMA CertifyStepGoesForward ==
    ASSUME CertifyStep
    PROVE  GoesForward
<1>1. CASE CertifyError
  BY <1>1, LaterPhase DEF CertifyError, Unable, CertifyRunning, Evaluating
<1>2. CASE ReadDegradation \/ ListBindings \/ EndEvaluation \/ ParseAbi
  BY <1>2, LaterPhase DEF ReadDegradation, ListBindings, EndEvaluation, ParseAbi
<1>3. CASE DigestSkill \/ DigestAbi \/ LookLock \/ DigestLock \/ OpenCert
  BY <1>3, LaterPhase DEF DigestSkill, DigestAbi, LookLock, DigestLock, OpenCert
<1>4. CASE WriteCert
  BY <1>4, LaterPhase DEF WriteCert, CertifyRunning, Evaluating
<1>5. ASSUME NEW b \in Bindings, ReadBinding(b) PROVE GoesForward
  <2>1. cpc = "evaluate" /\ cpc' = "invariants" /\ b \in unbound /\ unbound' = unbound \ {b}
    BY <1>5 DEF ReadBinding
  <2>2. Phase' = Phase BY <2>1, SamePhase DEF Evaluating
  <2>3. Smaller(unbound', unbound) BY <2>1 DEF Smaller
  <2> QED BY <2>2, <2>3 DEF GoesForward
<1>6. CASE ReadInvariants
  <2>1. cpc = "invariants" /\ cpc' = "effects" /\ unbound' = unbound BY <1>6 DEF ReadInvariants
  <2>2. Phase' = Phase BY <2>1, SamePhase DEF Evaluating
  <2> QED BY <2>1, <2>2 DEF GoesForward
<1>7. ASSUME NEW k \in Cases, TryCase(k) \/ LookForLock(k) PROVE GoesForward
  <2>1. /\ cpc = "cases" /\ cpc' \in {"case", "cases", "pins"} /\ unbound' = unbound
        /\ k \in untried /\ untried' = untried \ {k}
    BY <1>7 DEF TryCase, LookForLock
  <2>2. Phase' = Phase BY <2>1, SamePhase DEF Evaluating
  <2>3. Smaller(untried', untried) BY <2>1 DEF Smaller
  <2> QED BY <2>1, <2>2, <2>3 DEF GoesForward
<1>8. ASSUME NEW f \in Judged, ReadOwn(f) PROVE GoesForward
  <2>1. /\ cpc = "case" /\ cpc' = cpc /\ unbound' = unbound /\ untried' = untried
        /\ f \in unread /\ unread' = unread \ {f}
    BY <1>8 DEF ReadOwn, NextOwn
  <2>2. Phase' = Phase /\ Place' = Place BY <2>1, SamePhase DEF Evaluating
  <2>3. Smaller(unread', unread) BY <2>1 DEF Smaller
  <2> QED BY <2>1, <2>2, <2>3 DEF GoesForward
<1>9. CASE ReadEffects \/ JudgeCase \/ ReadPins \/ ListSchemas \/ EndBinding
  <2>1. /\ \/ cpc = "effects" /\ cpc' = "cases"
           \/ cpc = "case" /\ cpc' = "cases"
           \/ cpc = "pins" /\ cpc' = "schemas"
           \/ cpc = "schemas" /\ cpc' = "cases"
           \/ cpc = "cases" /\ cpc' = "evaluate"
        /\ unbound' = unbound /\ untried' = untried
    BY <1>9 DEF ReadEffects, JudgeCase, ReadPins, ListSchemas, EndBinding, StopEvaluating
  <2>2. Phase' = Phase /\ Place = PlaceOf[cpc] /\ Place' = PlaceOf[cpc']
    BY <2>1, SamePhase DEF Evaluating
  <2>3. Place' > Place BY <2>1, <2>2, PhaseIs
  <2> QED BY <2>1, <2>2, <2>3 DEF GoesForward
<1> QED
  BY <1>1, <1>2, <1>3, <1>4, <1>5, <1>6, <1>7, <1>8, <1>9 DEF CertifyStep

(* Whatever changes around it and whoever verifies meanwhile, a certify     *)
(* that has started has less to do after each of its steps, and never more: *)
(* over finitely many bindings and cases it ends if only it is scheduled    *)
(* (cmd_certify, evaluate_invariants).                                      *)
THEOREM CertifyAlwaysGoesForward == Spec => CertifyNeverStartsOver
<1> DEFINE Onward == \/ cpc \notin CertifyRunning
                     \/ GoesForward
                     \/ ~CertifyStep /\ UNCHANGED <<cpc, unbound, untried, unread>>
<1>1. ASSUME [Next]_allVars, cpc \in CertifyRunning, ~CertifyStep PROVE Onward
  <2>1. CASE CrashCertify
    <3>1. cpc' \notin CertifyRunning BY <2>1 DEF CrashCertify, CertifyRunning, Evaluating
    <3> QED BY <1>1, <3>1, LaterPhase
  <2>2. CASE UNCHANGED certifyVars BY <1>1, <2>2 DEF certifyVars, caseVars
  <2>3. CASE UNCHANGED allVars BY <2>2, <2>3 DEF allVars, certVars
  <2> QED
    BY <1>1, <2>1, <2>2, <2>3
       DEF Next, ChangeFile, ChangeLock, Change, StartCertify, StartVerifyCertificate,
           VerifyStep, LookSkill, LookAbi, LookAtLock, VanishedDigest, VerifySkill, VerifyAbi,
           VerifyLockDigest
<1>2. [Next]_allVars => [Onward]_allVars
  BY <1>1, CertifyStepGoesForward
<1> QED BY <1>2, PTL DEF Spec, CertifyNeverStartsOver
============================================================================
