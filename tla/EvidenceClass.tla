--------------------------- MODULE EvidenceClass ---------------------------
(***************************************************************************)
(* The rules of portability certificates: which evidence class a           *)
(* certificate is given when it is built, and which claims of a            *)
(* certificate verify-certificate objects to without looking at digests.   *)
(***************************************************************************)
EXTENDS Naturals, Sequences

CONSTANTS
    Runtimes,       \* runtime identifiers
    EvidenceFiles,  \* paths of evidence, relative to the skill
    Missing         \* "the receipt has no such key" (for evidence: or it is "")

(* A run receipt is a JSON object: each key can be missing.  Nothing looks  *)
(* at the harness it names.                                                 *)
Receipts == [runtime : Runtimes \cup {Missing},
             evidence : EvidenceFiles \cup {Missing}]

(* Weakest to strongest.                                                    *)
EvidenceClasses == <<"SPEC_VALID", "STATIC_CONFORMANT", "RUNTIME_TESTED",
                     "MULTI_RUNTIME_TESTED", "ATTESTED">>
ClassNames == {EvidenceClasses[i] : i \in 1..Len(EvidenceClasses)}
Rank(c) == CHOOSE i \in 1..Len(EvidenceClasses) : EvidenceClasses[i] = c

(* certify.classify_evidence: it counts receipts, whatever runtimes they    *)
(* name.                                                                    *)
ClassifyEvidence(receipts, signed, staticOk) ==
    IF Len(receipts) >= 2
    THEN IF signed THEN "ATTESTED" ELSE "MULTI_RUNTIME_TESTED"
    ELSE IF Len(receipts) = 1 THEN "RUNTIME_TESTED"
    ELSE IF staticOk THEN "STATIC_CONFORMANT" ELSE "SPEC_VALID"

----------------------------------------------------------------------------
(* verify_certificate, up to the digests.                                   *)

CountProblem(cert) == cert.passed + cert.failed # cert.cases

(* Mutated: the thresholds of the two classes are swapped.                  *)
ReceiptsProblemSwapped(cert) ==
    \/ cert.evidence_class = "RUNTIME_TESTED" /\ Len(cert.run_receipts) < 2
    \/ cert.evidence_class = "MULTI_RUNTIME_TESTED" /\ cert.run_receipts = <<>>

(* Mutated: the second check is missing.                                    *)
ReceiptsProblemOneClass(cert) ==
    cert.evidence_class = "RUNTIME_TESTED" /\ cert.run_receipts = <<>>

(* Both runtime classes ask only for a list that is not empty.              *)
ReceiptsProblem(cert) ==
    /\ cert.evidence_class \in {"RUNTIME_TESTED", "MULTI_RUNTIME_TESTED"}
    /\ cert.run_receipts = <<>>

SignatureProblem(cert) ==
    \/ cert.evidence_class = "ATTESTED" /\ ~cert.signed
    \/ cert.signed    \* "requires a signature block", whether there is one or not

(* What the document alone shows.                                           *)
ClaimProblem(cert) ==
    CountProblem(cert) \/ ReceiptsProblem(cert) \/ SignatureProblem(cert)

(* A receipt without a runtime, or with evidence that is not on disk.       *)
ReceiptProblem(receipt, existing) ==
    \/ receipt.runtime = Missing
    \/ receipt.evidence # Missing /\ receipt.evidence \notin existing
============================================================================
