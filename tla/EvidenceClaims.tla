--------------------------- MODULE EvidenceClaims ---------------------------
(***************************************************************************)
(* Certificates that claim more than a static evaluation: harnesses hand   *)
(* in run receipts, build_certificate makes a certificate of them, the     *)
(* document travels and can be edited, evidence files come and go, and     *)
(* verify_certificate looks at one receipt after the other.                *)
(*                                                                         *)
(* The digests are SkillCertify's business: the files of the skill are     *)
(* those that were certified.                                              *)
(***************************************************************************)
EXTENDS EvidenceClass, SequencesExt

CONSTANTS NoCert, MaxReceipts  \* MaxReceipts bounds the receipts handed in

ASSUME ClaimsAssumption == MaxReceipts \in Nat

VARIABLES
    evidence,   \* the evidence files on disk
    receipts,   \* the receipts handed in so far
    cert,       \* the certificate document
    vpc,        \* where verify-certificate is, or how it ended
    subject,    \* the certificate it verifies
    objection,  \* it has found a problem
    next,       \* the receipt it looks at next
    eseen       \* history: whether each evidence file was there meanwhile

verifyVars == <<vpc, subject, objection, next, eseen>>
vars == <<evidence, receipts, cert, verifyVars>>

Init ==
    /\ evidence = {} /\ receipts = <<>> /\ cert = NoCert
    /\ vpc = "idle" /\ subject = NoCert /\ objection = FALSE /\ next = 1
    /\ eseen = [e \in EvidenceFiles |-> {}]

----------------------------------------------------------------------------
(* Outside the program.                                                     *)

Standing(e, now) == IF e \in now THEN "there" ELSE "gone"

Notice(now) ==
    eseen' = [e \in EvidenceFiles |->
                IF vpc = "receipts" THEN eseen[e] \cup {Standing(e, now)} ELSE eseen[e]]

(* A harness runs the skill in a runtime: it leaves its evidence, if any,   *)
(* and a receipt, with or without the name of the runtime.                  *)
RunHarness(receipt) ==
    /\ Len(receipts) < MaxReceipts
    /\ receipts' = Append(receipts, receipt)
    /\ evidence' = evidence \cup ({receipt.evidence} \ {Missing})
    /\ Notice(evidence')
    /\ UNCHANGED <<cert, vpc, subject, objection, next>>

RemoveEvidence(e) ==
    /\ e \in evidence
    /\ evidence' = evidence \ {e}
    /\ Notice(evidence')
    /\ UNCHANGED <<receipts, cert, vpc, subject, objection, next>>

(* The document is edited: its class, or one receipt taken out.             *)
Amend ==
    /\ cert # NoCert
    /\ \/ \E c \in ClassNames : cert' = [cert EXCEPT !.evidence_class = c, !.amended = TRUE]
       \/ \E i \in 1..Len(cert.run_receipts) :
             cert' = [cert EXCEPT !.run_receipts = RemoveAt(@, i), !.amended = TRUE]
    /\ UNCHANGED <<evidence, receipts, verifyVars>>

----------------------------------------------------------------------------
(* The program.                                                             *)

(* Mutated: only the invariants that passed are counted.                    *)
CertificateCountsPassed(failures, signed) ==
    [cases |-> 1, passed |-> 1, failed |-> failures,
     evidence_class |-> ClassifyEvidence(receipts, signed, failures = 0),
     run_receipts |-> receipts, signed |-> signed, amended |-> FALSE]

(* build_certificate for one invariant that passed and some that failed.    *)
(* "amended" is not in the document.                                        *)
Certificate(failures, signed) ==
    [cases |-> 1 + failures, passed |-> 1, failed |-> failures,
     evidence_class |-> ClassifyEvidence(receipts, signed, failures = 0),
     run_receipts |-> receipts, signed |-> signed, amended |-> FALSE]

(* The caller says whether a signing sidecar is at work.                    *)
Build(failures, signed) ==
    /\ cert' = Certificate(failures, signed)
    /\ UNCHANGED <<evidence, receipts, verifyVars>>

StartVerify ==
    /\ vpc # "receipts"
    /\ cert # NoCert
    /\ subject' = cert
    /\ objection' = ClaimProblem(cert)
    /\ vpc' = "receipts" /\ next' = 1
    /\ eseen' = [e \in EvidenceFiles |-> {Standing(e, evidence)}]
    /\ UNCHANGED <<evidence, receipts, cert>>

(* Mutated: only the last receipt counts.                                   *)
VerifyReceiptForgets ==
    /\ vpc = "receipts"
    /\ next <= Len(subject.run_receipts)
    /\ objection' = ReceiptProblem(subject.run_receipts[next], evidence)
    /\ next' = next + 1
    /\ UNCHANGED <<evidence, receipts, cert, vpc, subject, eseen>>

VerifyReceipt ==
    /\ vpc = "receipts"
    /\ next <= Len(subject.run_receipts)
    /\ objection' = (objection \/ ReceiptProblem(subject.run_receipts[next], evidence))
    /\ next' = next + 1
    /\ UNCHANGED <<evidence, receipts, cert, vpc, subject, eseen>>

Conclude ==
    /\ vpc = "receipts"
    /\ next > Len(subject.run_receipts)
    /\ vpc' = IF objection THEN "invalid" ELSE "valid"
    /\ next' = 1 /\ objection' = FALSE
    /\ UNCHANGED <<evidence, receipts, cert, subject, eseen>>

Next ==
    \/ \E r \in Receipts : RunHarness(r)
    \/ \E e \in EvidenceFiles : RemoveEvidence(e)
    \/ Amend
    \/ \E failures \in 0..1, signed \in BOOLEAN : Build(failures, signed)
    \/ StartVerify \/ VerifyReceipt \/ Conclude

Spec == Init /\ [][Next]_vars

----------------------------------------------------------------------------
(* What must hold.                                                          *)

Certificates ==
    {c \in [cases : 1..2, passed : {1}, failed : 0..1, evidence_class : ClassNames,
            run_receipts : BoundedSeq(Receipts, MaxReceipts), signed : BOOLEAN,
            amended : BOOLEAN] : c.cases = c.passed + c.failed}

(* Every variable keeps its type, and the counts of a certificate add up.   *)
TypeOK ==
    /\ evidence \subseteq EvidenceFiles
    /\ receipts \in BoundedSeq(Receipts, MaxReceipts)
    /\ cert \in Certificates \cup {NoCert}
    /\ vpc \in {"idle", "receipts", "valid", "invalid"}
    /\ subject \in Certificates \cup {NoCert}
    /\ objection \in BOOLEAN
    /\ next \in 1..MaxReceipts + 1
    /\ eseen \in [EvidenceFiles -> SUBSET {"there", "gone"}]

Items(c) == {c.run_receipts[i] : i \in 1..Len(c.run_receipts)}

(* A certificate is VALID only if every receipt in it names a runtime and   *)
(* all the evidence it refers to was on disk at some instant of the         *)
(* verification, whoever wrote or edited the document.                      *)
VerifiedEvidenceSeen ==
    vpc = "valid"
        => \A r \in Items(subject) :
              /\ r.runtime # Missing
              /\ r.evidence # Missing => "there" \in eseen[r.evidence]

(* A certificate that nobody edited is INVALID only because it was built as *)
(* signed, with a nameless receipt, or because evidence was missing during  *)
(* the verification: build_certificate and verify_certificate agree about   *)
(* every class that the receipts support.                                   *)
HonestClaimsVerify ==
    vpc = "invalid" /\ ~subject.amended
        => \/ subject.signed
           \/ \E r \in Items(subject) :
                 r.runtime = Missing \/ (r.evidence # Missing /\ "gone" \in eseen[r.evidence])

(* Whoever edited it, a VALID certificate claims a runtime class only with  *)
(* a receipt that names a runtime, and never claims ATTESTED or to be       *)
(* signed: two of the rules of certify.py:57-60, static-only evidence never *)
(* gives a runtime class and unsigned evidence never ATTESTED.  The third,  *)
(* that a single runtime never gives MULTI_RUNTIME_TESTED, does not hold:   *)
(* classify_evidence counts receipts and not the runtimes they name, and    *)
(* verify_certificate asks for one receipt (api.py:254) where its message   *)
(* says two (api.py:255).                                                   *)
ClassIsEarned ==
    vpc = "valid"
        => /\ subject.evidence_class # "ATTESTED" /\ ~subject.signed
           /\ Rank(subject.evidence_class) >= Rank("RUNTIME_TESTED")
                => \E r \in Items(subject) : r.runtime # Missing
=============================================================================
