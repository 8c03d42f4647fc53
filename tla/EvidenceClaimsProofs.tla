------------------------ MODULE EvidenceClaimsProofs ------------------------
(***************************************************************************)
(* What verify-certificate promises about certificates with receipts, for  *)
(* any runtimes, evidence files and number of receipts.  The invariant     *)
(* says what a verification that is under way knows about the receipts it  *)
(* has already looked at, and what the class of a certificate that nobody  *)
(* edited is made of.                                                      *)
(***************************************************************************)
EXTENDS EvidenceClaims, TLAPS

(* The class is the one classify_evidence gives, unless somebody edited.    *)
Honest(c) ==
    ~c.amended => c.evidence_class = ClassifyEvidence(c.run_receipts, c.signed, c.failed = 0)

(* What the history says for and against a receipt.                         *)
Earned(r) == r.runtime # Missing /\ (r.evidence # Missing => "there" \in eseen[r.evidence])
Unearned(r) == r.runtime = Missing \/ (r.evidence # Missing /\ "gone" \in eseen[r.evidence])

HonestUnlessAmended ==
    /\ cert # NoCert => Honest(cert)
    /\ subject # NoCert => Honest(subject)

(* Evidence as it is now belongs to the history of a running verification.  *)
HistoryCurrent ==
    vpc = "receipts" =>
        \A e \in EvidenceFiles : /\ e \in evidence => "there" \in eseen[e]
                                 /\ e \notin evidence => "gone" \in eseen[e]

Progress ==
    vpc = "receipts" =>
        /\ subject # NoCert
        /\ ~objection => /\ ~ClaimProblem(subject)
                         /\ \A i \in 1..Len(subject.run_receipts) :
                               i < next => Earned(subject.run_receipts[i])
        /\ objection => ClaimProblem(subject) \/ \E r \in Items(subject) : Unearned(r)

Verdicts ==
    /\ vpc = "valid" => /\ subject # NoCert
                        /\ ~ClaimProblem(subject)
                        /\ \A r \in Items(subject) : Earned(r)
    /\ vpc = "invalid" => /\ subject # NoCert
                          /\ ClaimProblem(subject) \/ \E r \in Items(subject) : Unearned(r)

IInv == TypeOK /\ HonestUnlessAmended /\ HistoryCurrent /\ Progress /\ Verdicts

----------------------------------------------------------------------------
(* Sequences of receipts, and the classes.                                  *)

LEMMA BoundedReceipts ==
    ASSUME NEW s
    PROVE  s \in BoundedSeq(Receipts, MaxReceipts)
             <=> s \in Seq(Receipts) /\ Len(s) <= MaxReceipts
<1>1. BoundedSeq(Receipts, MaxReceipts) = UNION {[1..m -> Receipts] : m \in 0..MaxReceipts}
  BY DEF BoundedSeq, SeqOf
<1>2. ASSUME s \in BoundedSeq(Receipts, MaxReceipts)
      PROVE  s \in Seq(Receipts) /\ Len(s) <= MaxReceipts
  <2>1. PICK m \in 0..MaxReceipts : s \in [1..m -> Receipts] BY <1>1, <1>2
  <2> QED BY <2>1, ClaimsAssumption
<1>3. ASSUME s \in Seq(Receipts), Len(s) <= MaxReceipts
      PROVE  s \in BoundedSeq(Receipts, MaxReceipts)
  <2>1. Len(s) \in 0..MaxReceipts /\ s \in [1..Len(s) -> Receipts]
    BY <1>3, ClaimsAssumption
  <2> QED BY <1>1, <2>1
<1> QED BY <1>2, <1>3

LEMMA RemoveAtBounded ==
    ASSUME NEW s \in Seq(Receipts), NEW i \in 1..Len(s)
    PROVE  RemoveAt(s, i) \in Seq(Receipts) /\ Len(RemoveAt(s, i)) = Len(s) - 1
<1>1. SubSeq(s, 1, i - 1) \in Seq(Receipts) /\ Len(SubSeq(s, 1, i - 1)) = i - 1
  OBVIOUS
<1>2. /\ SubSeq(s, i + 1, Len(s)) \in Seq(Receipts)
      /\ Len(SubSeq(s, i + 1, Len(s))) = Len(s) - i
  OBVIOUS
<1>3. ASSUME NEW a \in Seq(Receipts), NEW b \in Seq(Receipts)
      PROVE  a \o b \in Seq(Receipts) /\ Len(a \o b) = Len(a) + Len(b)
  OBVIOUS
<1>4. RemoveAt(s, i) = SubSeq(s, 1, i - 1) \o SubSeq(s, i + 1, Len(s))
  BY DEF RemoveAt
<1>5. (i - 1) + (Len(s) - i) = Len(s) - 1 OBVIOUS
<1> HIDE DEF RemoveAt
<1> QED BY <1>1, <1>2, <1>3, <1>4, <1>5

LEMMA StandingType ==
    \A e, now : Standing(e, now) \in {"there", "gone"}
  BY DEF Standing

LEMMA ClassNamesAre ==
    ClassNames = {"SPEC_VALID", "STATIC_CONFORMANT", "RUNTIME_TESTED",
                  "MULTI_RUNTIME_TESTED", "ATTESTED"}
  BY DEF ClassNames, EvidenceClasses

LEMMA RankIs ==
    /\ Rank("SPEC_VALID") = 1 /\ Rank("STATIC_CONFORMANT") = 2
    /\ Rank("RUNTIME_TESTED") = 3
<1>1. \A i \in 1..5 : /\ EvidenceClasses[i] = "SPEC_VALID" <=> i = 1
                      /\ EvidenceClasses[i] = "STATIC_CONFORMANT" <=> i = 2
                      /\ EvidenceClasses[i] = "RUNTIME_TESTED" <=> i = 3
  BY DEF EvidenceClasses
<1>2. Len(EvidenceClasses) = 5 BY DEF EvidenceClasses
<1> QED BY <1>1, <1>2 DEF Rank

LEMMA ClassifyType ==
    ASSUME NEW s, NEW signed, NEW ok
    PROVE  ClassifyEvidence(s, signed, ok) \in ClassNames
  BY ClassNamesAre DEF ClassifyEvidence

(* An objection to what an unedited certificate claims is its signature:    *)
(* classify_evidence and verify_certificate agree about the rest.           *)
LEMMA HonestObjection ==
    ASSUME NEW c \in Certificates, Honest(c), ~c.amended, ClaimProblem(c)
    PROVE  c.signed
<1>1. /\ c.run_receipts \in Seq(Receipts) /\ c.cases = c.passed + c.failed
      /\ c.signed \in BOOLEAN
  BY BoundedReceipts DEF Certificates
<1>2. ~CountProblem(c) BY <1>1 DEF CountProblem, Certificates
<1>3. CASE ReceiptsProblem(c)
  <2>1. Len(c.run_receipts) = 0 BY <1>3 DEF ReceiptsProblem
  <2> QED BY <1>3, <2>1 DEF Honest, ClassifyEvidence, ReceiptsProblem
<1>4. CASE SignatureProblem(c)
  <2>1. c.evidence_class = "ATTESTED" => c.signed
    BY DEF Honest, ClassifyEvidence
  <2> QED BY <1>4, <2>1 DEF SignatureProblem
<1> QED BY <1>2, <1>3, <1>4 DEF ClaimProblem

(* A certificate without an objection claims to be neither signed nor       *)
(* ATTESTED, and lists a receipt if it claims a runtime.                    *)
LEMMA UnobjectedClass ==
    ASSUME NEW c \in Certificates, ~ClaimProblem(c)
    PROVE  /\ c.evidence_class # "ATTESTED" /\ ~c.signed
           /\ Rank(c.evidence_class) >= Rank("RUNTIME_TESTED") => c.run_receipts # <<>>
<1>1. c.evidence_class # "ATTESTED" /\ ~c.signed
  BY DEF ClaimProblem, SignatureProblem
<1>2. ASSUME Rank(c.evidence_class) >= Rank("RUNTIME_TESTED") PROVE c.run_receipts # <<>>
  <2>1. c.evidence_class \in ClassNames BY DEF Certificates
  <2>2. c.evidence_class \in {"RUNTIME_TESTED", "MULTI_RUNTIME_TESTED"}
    BY <1>1, <1>2, <2>1, ClassNamesAre, RankIs
  <2> QED BY <2>2 DEF ClaimProblem, ReceiptsProblem
<1> QED BY <1>1, <1>2

----------------------------------------------------------------------------
(* Certificates that are built or edited.                                   *)

LEMMA BuiltCertificate ==
    ASSUME TypeOK, NEW failures \in 0..1, NEW signed \in BOOLEAN
    PROVE  Certificate(failures, signed) \in Certificates /\ Honest(Certificate(failures, signed))
<1> DEFINE c == Certificate(failures, signed)
<1>1. c.evidence_class \in ClassNames BY ClassifyType DEF Certificate
<1>2. c \in [cases : 1..2, passed : {1}, failed : 0..1, evidence_class : ClassNames,
             run_receipts : BoundedSeq(Receipts, MaxReceipts), signed : BOOLEAN,
             amended : BOOLEAN]
  BY <1>1 DEF Certificate, TypeOK
<1>3. c.cases = c.passed + c.failed BY DEF Certificate
<1>4. Honest(c) BY DEF Honest, Certificate
<1> QED BY <1>2, <1>3, <1>4 DEF Certificates

LEMMA AmendedCertificate ==
    ASSUME TypeOK, Amend
    PROVE  cert' \in Certificates /\ Honest(cert')
<1>1. cert \in Certificates BY DEF Amend, TypeOK
<1>2. CASE \E c \in ClassNames : cert' = [cert EXCEPT !.evidence_class = c, !.amended = TRUE]
  BY <1>1, <1>2 DEF Certificates, Honest
<1>3. CASE \E i \in 1..Len(cert.run_receipts) :
             cert' = [cert EXCEPT !.run_receipts = RemoveAt(@, i), !.amended = TRUE]
  <2>1. PICK i \in 1..Len(cert.run_receipts) :
          cert' = [cert EXCEPT !.run_receipts = RemoveAt(@, i), !.amended = TRUE]
    BY <1>3
  <2>2. cert.run_receipts \in Seq(Receipts) /\ Len(cert.run_receipts) <= MaxReceipts
    BY <1>1, BoundedReceipts DEF Certificates
  <2>3. /\ RemoveAt(cert.run_receipts, i) \in Seq(Receipts)
        /\ Len(RemoveAt(cert.run_receipts, i)) <= MaxReceipts
    BY <2>2, RemoveAtBounded, ClaimsAssumption
  <2>4. RemoveAt(cert.run_receipts, i) \in BoundedSeq(Receipts, MaxReceipts)
    BY <2>3, BoundedReceipts
  <2> HIDE DEF RemoveAt
  <2> QED BY <1>1, <2>1, <2>4 DEF Certificates, Honest
<1> QED BY <1>2, <1>3 DEF Amend

----------------------------------------------------------------------------
(* One lemma for each kind of step.                                         *)

(* Evidence that comes or goes: the history only grows, so what counted for *)
(* or against a receipt still does.                                         *)
LEMMA EvidenceKeepsInv ==
    ASSUME IInv, receipts' \in BoundedSeq(Receipts, MaxReceipts),
           evidence' \subseteq EvidenceFiles, Notice(evidence'),
           UNCHANGED <<cert, vpc, subject, objection, next>>
    PROVE  IInv'
<1>1. eseen' \in [EvidenceFiles -> SUBSET {"there", "gone"}]
  BY StandingType DEF IInv, TypeOK, Notice
<1>2. TypeOK' BY <1>1 DEF IInv, TypeOK
<1>3. HonestUnlessAmended' BY DEF IInv, HonestUnlessAmended, Honest
<1>4. \A e \in EvidenceFiles : eseen[e] \subseteq eseen'[e] BY DEF Notice
<1>5. HistoryCurrent' BY DEF HistoryCurrent, Notice, Standing
<1>6. ASSUME NEW r \in Receipts PROVE (Earned(r) => Earned(r)') /\ (Unearned(r) => Unearned(r)')
  BY <1>4 DEF Receipts, Earned, Unearned
<1>7. subject # NoCert => subject.run_receipts \in Seq(Receipts)
  BY BoundedReceipts DEF IInv, TypeOK, Certificates
<1>8. subject # NoCert =>
        /\ \A r \in Items(subject) : r \in Receipts
        /\ \A i \in 1..Len(subject.run_receipts) : subject.run_receipts[i] \in Receipts
  BY <1>7 DEF Items
<1>9. Progress'
  <2> SUFFICES ASSUME vpc = "receipts" PROVE Progress'
    BY DEF Progress
  <2> QED BY <1>6, <1>8 DEF IInv, Progress, ClaimProblem, CountProblem, ReceiptsProblem,
                            SignatureProblem, Items
<1>10. Verdicts'
  BY <1>6, <1>8 DEF IInv, Verdicts, ClaimProblem, CountProblem, ReceiptsProblem,
                    SignatureProblem, Items
<1> QED BY <1>2, <1>3, <1>5, <1>9, <1>10 DEF IInv

LEMMA RunHarnessKeepsInv ==
    ASSUME IInv, NEW r \in Receipts, RunHarness(r)
    PROVE  IInv'
<1>1. receipts \in Seq(Receipts) BY BoundedReceipts DEF IInv, TypeOK
<1>2. receipts' \in Seq(Receipts) /\ Len(receipts') <= MaxReceipts
  BY <1>1, ClaimsAssumption DEF RunHarness
<1>3. evidence' \subseteq EvidenceFiles BY DEF RunHarness, IInv, TypeOK, Receipts
<1> QED BY <1>2, <1>3, BoundedReceipts, EvidenceKeepsInv DEF RunHarness

(* A new document leaves a running verification with its own.               *)
LEMMA DocumentKeepsInv ==
    ASSUME IInv, cert' \in Certificates, Honest(cert'),
           UNCHANGED <<evidence, receipts, verifyVars>>
    PROVE  IInv'
<1> USE DEF verifyVars
<1>1. TypeOK' BY DEF IInv, TypeOK
<1>2. HonestUnlessAmended' BY DEF IInv, HonestUnlessAmended, Honest
<1>3. HistoryCurrent' BY DEF IInv, HistoryCurrent
<1>4. Progress'
  BY DEF IInv, Progress, ClaimProblem, CountProblem, ReceiptsProblem, SignatureProblem,
         Items, Earned, Unearned
<1>5. Verdicts'
  BY DEF IInv, Verdicts, ClaimProblem, CountProblem, ReceiptsProblem, SignatureProblem,
         Items, Earned, Unearned
<1> QED BY <1>1, <1>2, <1>3, <1>4, <1>5 DEF IInv

LEMMA StartVerifyKeepsInv ==
    ASSUME IInv, StartVerify
    PROVE  IInv'
<1>1. cert \in Certificates BY DEF IInv, TypeOK, StartVerify
<1>2. ClaimProblem(cert) \in BOOLEAN
  BY DEF ClaimProblem, CountProblem, ReceiptsProblem, SignatureProblem
<1>3. TypeOK'
  BY <1>1, <1>2, StandingType, ClaimsAssumption DEF IInv, TypeOK, StartVerify
<1>4. HonestUnlessAmended' BY DEF IInv, HonestUnlessAmended, Honest, StartVerify
<1>5. HistoryCurrent' BY DEF HistoryCurrent, StartVerify, Standing
<1>6. Progress'
  <2>1. subject' = cert /\ cert # NoCert /\ objection' = ClaimProblem(cert) /\ next' = 1
    BY DEF StartVerify
  <2>2. \A i \in 1..Len(cert.run_receipts) : ~(i < next') BY <2>1
  <2>3. ClaimProblem(subject)' = ClaimProblem(cert)
    BY <2>1 DEF ClaimProblem, CountProblem, ReceiptsProblem, SignatureProblem
  <2> QED BY <2>1, <2>2, <2>3 DEF Progress
<1>7. Verdicts' BY DEF Verdicts, StartVerify
<1> QED BY <1>3, <1>4, <1>5, <1>6, <1>7 DEF IInv

LEMMA VerifyReceiptKeepsInv ==
    ASSUME IInv, VerifyReceipt
    PROVE  IInv'
<1> DEFINE r == subject.run_receipts[next]
<1>1. /\ subject \in Certificates /\ subject # NoCert /\ vpc = "receipts"
      /\ subject.run_receipts \in Seq(Receipts) /\ Len(subject.run_receipts) <= MaxReceipts
  BY BoundedReceipts DEF IInv, TypeOK, VerifyReceipt, Progress, Certificates
<1>2. next \in 1..Len(subject.run_receipts) /\ r \in Receipts /\ r \in Items(subject)
  BY <1>1 DEF IInv, TypeOK, VerifyReceipt, Items
<1>3. (ReceiptProblem(r, evidence) => Unearned(r)) /\ (~ReceiptProblem(r, evidence) => Earned(r))
  <2>1. r.evidence # Missing => r.evidence \in EvidenceFiles BY <1>2 DEF Receipts
  <2> QED BY <1>1, <2>1 DEF IInv, HistoryCurrent, ReceiptProblem, Earned, Unearned
<1>4. ReceiptProblem(r, evidence) \in BOOLEAN BY DEF ReceiptProblem
<1>5. TypeOK' BY <1>1, <1>2, <1>4, ClaimsAssumption DEF IInv, TypeOK, VerifyReceipt
<1>6. HonestUnlessAmended' BY DEF IInv, HonestUnlessAmended, Honest, VerifyReceipt
<1>7. HistoryCurrent' BY DEF IInv, HistoryCurrent, VerifyReceipt
<1>8. /\ subject' = subject /\ eseen' = eseen /\ vpc' = vpc /\ next' = next + 1
      /\ objection' = (objection \/ ReceiptProblem(r, evidence))
  BY DEF VerifyReceipt
<1>9. Progress'
  <2>1. ASSUME NEW q PROVE Earned(q)' = Earned(q) /\ Unearned(q)' = Unearned(q)
    BY <1>8 DEF Earned, Unearned
  <2>2. ClaimProblem(subject)' = ClaimProblem(subject) /\ Items(subject)' = Items(subject)
    BY <1>8 DEF ClaimProblem, CountProblem, ReceiptsProblem, SignatureProblem, Items
  <2>3. ASSUME ~objection'
        PROVE  /\ ~ClaimProblem(subject)
               /\ \A i \in 1..Len(subject.run_receipts) :
                     i < next + 1 => Earned(subject.run_receipts[i])
    <3>1. ~objection /\ Earned(r) BY <1>3, <1>4, <1>8, <2>3 DEF IInv, TypeOK
    <3>2. \A i \in 1..Len(subject.run_receipts) :
            i < next => Earned(subject.run_receipts[i])
      BY <1>1, <3>1 DEF IInv, Progress
    <3>3. \A i \in 1..Len(subject.run_receipts) : i < next + 1 => i < next \/ i = next
      BY <1>1, <1>2
    <3>4. ~ClaimProblem(subject) BY <1>1, <3>1 DEF IInv, Progress
    <3> QED BY <3>1, <3>2, <3>3, <3>4
  <2>4. ASSUME objection'
        PROVE  ClaimProblem(subject) \/ \E q \in Items(subject) : Unearned(q)
    <3>1. CASE objection BY <1>1, <3>1 DEF IInv, Progress
    <3>2. CASE ReceiptProblem(r, evidence) BY <1>2, <1>3, <3>2
    <3> QED BY <1>8, <2>4, <3>1, <3>2
  <2> QED BY <1>1, <1>8, <2>1, <2>2, <2>3, <2>4 DEF Progress
<1>10. Verdicts' BY <1>1, <1>8 DEF Verdicts
<1> QED BY <1>5, <1>6, <1>7, <1>9, <1>10 DEF IInv

LEMMA ConcludeKeepsInv ==
    ASSUME IInv, Conclude
    PROVE  IInv'
<1>1. /\ subject \in Certificates /\ subject # NoCert /\ vpc = "receipts"
      /\ subject.run_receipts \in Seq(Receipts)
  BY BoundedReceipts DEF IInv, TypeOK, Conclude, Progress, Certificates
<1>2. /\ subject' = subject /\ eseen' = eseen /\ evidence' = evidence /\ receipts' = receipts
      /\ cert' = cert /\ next' = 1 /\ objection' = FALSE
      /\ vpc' = IF objection THEN "invalid" ELSE "valid"
  BY DEF Conclude
<1>3. TypeOK'
  <2>1. vpc' \in {"idle", "receipts", "valid", "invalid"} BY <1>2
  <2>2. next' \in 1..MaxReceipts + 1 BY <1>2, ClaimsAssumption
  <2> QED BY <1>2, <2>1, <2>2 DEF IInv, TypeOK
<1>4. HonestUnlessAmended' BY <1>2 DEF IInv, HonestUnlessAmended, Honest
<1>5. HistoryCurrent' /\ Progress' BY <1>2 DEF HistoryCurrent, Progress
<1>6. Verdicts'
  <2>1. ASSUME NEW q PROVE Earned(q)' = Earned(q) /\ Unearned(q)' = Unearned(q)
    BY <1>2 DEF Earned, Unearned
  <2>2. ClaimProblem(subject)' = ClaimProblem(subject) /\ Items(subject)' = Items(subject)
    BY <1>2 DEF ClaimProblem, CountProblem, ReceiptsProblem, SignatureProblem, Items
  <2>3. ~objection => ~ClaimProblem(subject) /\ \A q \in Items(subject) : Earned(q)
    <3>1. \A i \in 1..Len(subject.run_receipts) : i < next
      BY <1>1 DEF Conclude, IInv, TypeOK
    <3> QED BY <1>1, <3>1 DEF IInv, Progress, Items
  <2>4. objection => ClaimProblem(subject) \/ \E q \in Items(subject) : Unearned(q)
    BY <1>1 DEF IInv, Progress
  <2> QED BY <1>1, <1>2, <2>1, <2>2, <2>3, <2>4 DEF Verdicts
<1> QED BY <1>3, <1>4, <1>5, <1>6 DEF IInv

----------------------------------------------------------------------------
(* The inductive invariant, and what it says.                               *)
THEOREM Invariance == Spec => []IInv
<1>1. Init => IInv
  <2> SUFFICES ASSUME Init PROVE IInv
    OBVIOUS
  <2>1. <<>> \in BoundedSeq(Receipts, MaxReceipts)
    <3>1. <<>> \in Seq(Receipts) /\ Len(<<>>) <= MaxReceipts BY ClaimsAssumption
    <3> QED BY <3>1, BoundedReceipts
  <2>2. next \in 1..MaxReceipts + 1 BY ClaimsAssumption DEF Init
  <2>3. eseen \in [EvidenceFiles -> SUBSET {"there", "gone"}] BY DEF Init
  <2>4. TypeOK BY <2>1, <2>2, <2>3 DEF Init, TypeOK
  <2>5. HonestUnlessAmended BY DEF Init, HonestUnlessAmended
  <2>6. HistoryCurrent /\ Progress /\ Verdicts
    BY DEF Init, HistoryCurrent, Progress, Verdicts
  <2> QED BY <2>4, <2>5, <2>6 DEF IInv
<1>2. IInv /\ [Next]_vars => IInv'
  <2> SUFFICES ASSUME IInv, [Next]_vars PROVE IInv'
    OBVIOUS
  <2>1. CASE \E r \in Receipts : RunHarness(r)
    BY <2>1, RunHarnessKeepsInv
  <2>2. CASE \E e \in EvidenceFiles : RemoveEvidence(e)
    <3>1. evidence' \subseteq EvidenceFiles /\ receipts' = receipts
      BY <2>2 DEF RemoveEvidence, IInv, TypeOK
    <3>2. receipts' \in BoundedSeq(Receipts, MaxReceipts) BY <3>1 DEF IInv, TypeOK
    <3> QED BY <2>2, <3>1, <3>2, EvidenceKeepsInv DEF RemoveEvidence
  <2>3. CASE Amend
    <3>1. UNCHANGED <<evidence, receipts, verifyVars>> BY <2>3 DEF Amend
    <3> QED BY <2>3, <3>1, AmendedCertificate, DocumentKeepsInv DEF IInv
  <2>4. CASE \E failures \in 0..1, signed \in BOOLEAN : Build(failures, signed)
    <3>1. PICK failures \in 0..1, signed \in BOOLEAN : Build(failures, signed)
      BY <2>4
    <3>2. cert' \in Certificates /\ Honest(cert')
      BY <3>1, BuiltCertificate DEF Build, IInv
    <3>3. UNCHANGED <<evidence, receipts, verifyVars>> BY <3>1 DEF Build
    <3> QED BY <3>2, <3>3, DocumentKeepsInv
  <2>5. CASE StartVerify BY <2>5, StartVerifyKeepsInv
  <2>6. CASE VerifyReceipt BY <2>6, VerifyReceiptKeepsInv
  <2>7. CASE Conclude BY <2>7, ConcludeKeepsInv
  <2>8. CASE UNCHANGED vars
    <3>1. TypeOK' BY <2>8 DEF IInv, TypeOK, vars, verifyVars
    <3>2. HonestUnlessAmended' /\ HistoryCurrent'
      BY <2>8 DEF IInv, HonestUnlessAmended, Honest, HistoryCurrent, vars, verifyVars
    <3>3. Progress' /\ Verdicts'
      BY <2>8 DEF IInv, Progress, Verdicts, ClaimProblem, CountProblem, ReceiptsProblem,
                  SignatureProblem, Items, Earned, Unearned, vars, verifyVars
    <3> QED BY <3>1, <3>2, <3>3 DEF IInv
  <2> QED BY <2>1, <2>2, <2>3, <2>4, <2>5, <2>6, <2>7, <2>8 DEF Next
<1> QED BY <1>1, <1>2, PTL DEF Spec

(* Every variable keeps its type (EvidenceClaims.TypeOK).                   *)
THEOREM TypeCorrect == Spec => []TypeOK
<1>1. IInv => TypeOK BY DEF IInv
<1> QED BY <1>1, Invariance, PTL

(* A VALID certificate has only receipts that name a runtime and whose      *)
(* evidence was there during the verification (verify_certificate).         *)
THEOREM VerifiedEvidenceWasSeen == Spec => []VerifiedEvidenceSeen
<1>1. IInv => VerifiedEvidenceSeen
  BY DEF IInv, Verdicts, VerifiedEvidenceSeen, Earned
<1> QED BY <1>1, Invariance, PTL

(* build_certificate and verify_certificate agree about every class that    *)
(* the receipts support.                                                    *)
THEOREM HonestClaimsAlwaysVerify == Spec => []HonestClaimsVerify
<1>1. IInv => HonestClaimsVerify
  <2> SUFFICES ASSUME IInv, vpc = "invalid", ~subject.amended, ~subject.signed
      PROVE \E r \in Items(subject) : Unearned(r)
    BY DEF HonestClaimsVerify, Unearned
  <2>1. subject \in Certificates /\ Honest(subject)
    BY DEF IInv, TypeOK, Verdicts, HonestUnlessAmended
  <2> QED BY <2>1, HonestObjection DEF IInv, Verdicts
<1> QED BY <1>1, Invariance, PTL

(* A VALID certificate is never signed or ATTESTED, and claims a runtime    *)
(* class only with a receipt that names a runtime, whoever edited it (two   *)
(* of the rules of certify.py:57-60; the third, about MULTI_RUNTIME_TESTED, *)
(* does not hold).                                                          *)
THEOREM ClassIsAlwaysEarned == Spec => []ClassIsEarned
<1>1. IInv => ClassIsEarned
  <2> SUFFICES ASSUME IInv, vpc = "valid" PROVE ClassIsEarned
    BY DEF ClassIsEarned
  <2>1. /\ subject \in Certificates /\ ~ClaimProblem(subject)
        /\ \A r \in Items(subject) : Earned(r)
    BY DEF IInv, TypeOK, Verdicts
  <2>2. subject.run_receipts # <<>> => \E r \in Items(subject) : r.runtime # Missing
    <3>1. subject.run_receipts \in Seq(Receipts)
      BY <2>1, BoundedReceipts DEF Certificates
    <3>2. subject.run_receipts # <<>> => subject.run_receipts[1] \in Items(subject)
      BY <3>1 DEF Items
    <3> QED BY <2>1, <3>2 DEF Earned
  <2> QED BY <2>1, <2>2, UnobjectedClass DEF ClassIsEarned
<1> QED BY <1>1, Invariance, PTL
=============================================================================
