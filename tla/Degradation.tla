---------------------------- MODULE Degradation ----------------------------
(***************************************************************************)
(* The degradation model of a skill: an ordered list of tiers, the         *)
(* resolver that selects one of them for a set of capabilities, and what   *)
(* the validator demands of the list at level P3.  Pure operators.         *)
(*                                                                         *)
(* A tier is named by its position: the names are keys of one mapping.     *)
(***************************************************************************)
EXTENDS Naturals, Sequences

CONSTANTS
    Capabilities,  \* every capability a tier or a runtime can name
    Vocabulary     \* those of vocab.VOCAB

ASSUME VocabularyAssumption == Vocabulary \subseteq Capabilities

Tier == [requires : SUBSET Capabilities, terminal : BOOLEAN]

(* The resolver's None.                                                     *)
NoTier == 0

(* A terminal tier matches whatever it requires.                            *)
Matches(tier, caps) == tier.terminal \/ tier.requires \subseteq caps

Matching(tiers, caps) == {i \in 1..Len(tiers) : Matches(tiers[i], caps)}

(* Mutated: a larger tier that comes later overrides an earlier one.        *)
ResolveTierLast(tiers, caps) ==
    IF Matching(tiers, caps) = {} THEN NoTier
    ELSE CHOOSE i \in Matching(tiers, caps) : \A j \in Matching(tiers, caps) : j <= i

(* The first tier, in declaration order, that matches.                      *)
ResolveTier(tiers, caps) ==
    IF Matching(tiers, caps) = {} THEN NoTier
    ELSE CHOOSE i \in Matching(tiers, caps) : \A j \in Matching(tiers, caps) : i <= j

(* Mutated: the required capabilities of the ABI are not compared.          *)
DegradationErrorsNotFull(tiers, required) ==
    {e \in {"too few", "not terminal", "unknown"} :
       \/ e = "too few" /\ Len(tiers) < 2
       \/ e = "not terminal" /\ Len(tiers) >= 2 /\ ~tiers[Len(tiers)].terminal
       \/ e = "unknown" /\ Len(tiers) >= 2
            /\ \E i \in 1..Len(tiers) - 1 : ~ (tiers[i].requires \subseteq Vocabulary)}

(* Mutated: the last tier is not looked at.                                 *)
DegradationErrorsNoFloor(tiers, required) ==
    IF Len(tiers) < 2 THEN {"too few"}
    ELSE {e \in {"unknown", "not full"} :
            \/ e = "unknown"
                 /\ \E i \in 1..Len(tiers) - 1 : ~ (tiers[i].requires \subseteq Vocabulary)
            \/ e = "not full" /\ ~ (required \subseteq tiers[1].requires)}

(* Mutated: the vocabulary is not looked up.                                *)
DegradationErrorsAnyName(tiers, required) ==
    IF Len(tiers) < 2 THEN {"too few"}
    ELSE {e \in {"not terminal", "not full"} :
            \/ e = "not terminal" /\ ~tiers[Len(tiers)].terminal
            \/ e = "not full" /\ ~ (required \subseteq tiers[1].requires)}

(* The P3 findings of validate_skill.  It does not look at how many tiers   *)
(* are terminal, nor at the order of the others.                            *)
DegradationErrors(tiers, required) ==
    IF Len(tiers) < 2 THEN {"too few"}
    ELSE {e \in {"not terminal", "unknown", "not full"} :
            \/ e = "not terminal" /\ ~tiers[Len(tiers)].terminal
            \/ e = "unknown"
                 /\ \E i \in 1..Len(tiers) - 1 : ~ (tiers[i].requires \subseteq Vocabulary)
            \/ e = "not full" /\ ~ (required \subseteq tiers[1].requires)}

Conformant(tiers, required) == DegradationErrors(tiers, required) = {}
============================================================================
