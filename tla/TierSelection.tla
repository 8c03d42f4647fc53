--------------------------- MODULE TierSelection ---------------------------
(***************************************************************************)
(* What the degradation model promises, without saying how a tier is       *)
(* found: an answer is a maximal tier among those whose requirements the   *)
(* runtime meets, and the terminal tier when it meets none.                *)
(***************************************************************************)
EXTENDS Degradation

CONSTANTS
    Models,     \* degradation models
    Profiles,   \* sets of capabilities of runtimes
    NoAnswer

VARIABLE answer

(* "Tb provides at least the functionality of Ta": it requires more.        *)
Above(a, b) == b.requires \subseteq a.requires /\ a.requires # b.requires

Met(tiers, caps) ==
    {i \in 1..Len(tiers) : ~tiers[i].terminal /\ tiers[i].requires \subseteq caps}

Maximal(tiers, caps) ==
    {i \in Met(tiers, caps) : \A j \in Met(tiers, caps) : ~Above(tiers[j], tiers[i])}

Best(tiers, caps) ==
    IF Met(tiers, caps) # {} THEN Maximal(tiers, caps)
                             ELSE {i \in 1..Len(tiers) : tiers[i].terminal}

Init == answer = NoAnswer

Answers == [tiers : Models, caps : Profiles, tier : Nat]

Select ==
    /\ answer' \in Answers
    /\ answer'.tier \in Best(answer'.tiers, answer'.caps)

(* Nothing is promised about a model that is not well declared.             *)
Decline == answer' = NoAnswer

Next == Select \/ Decline

Spec == Init /\ [][Next]_answer
============================================================================
