------------------------ MODULE SkillBindingProofs ------------------------
(***************************************************************************)
(* What a binding promises for every vocabulary, every degradation model   *)
(* and every runtime.  The resolver's CHOOSE is taken apart once; after    *)
(* that a binding is explained by the three values it was made from.       *)
(***************************************************************************)
EXTENDS SkillBinding, WellFoundedInduction, TLAPS

----------------------------------------------------------------------------
(* The resolver and the P3 checks.                                          *)

(* A set of naturals that is not empty has a least element.                 *)
LEMMA LeastElement ==
    ASSUME NEW T \in SUBSET Nat, T # {}
    PROVE  \E i \in T : \A j \in T : i <= j
<1>1. \E i \in T : \A j \in T : <<j, i>> \notin OpToRel(<, Nat)
  BY NatLessThanWellFounded, WFMin
<1>2. PICK i \in T : \A j \in T : <<j, i>> \notin OpToRel(<, Nat)
  BY <1>1
<1>3. ASSUME NEW j \in T PROVE i <= j
  <2>1. ~ (j < i) BY <1>2 DEF OpToRel
  <2> QED BY <2>1
<1> QED BY <1>3

(* resolve_tier returns the first tier that matches, and None exactly when  *)
(* no tier matches.                                                         *)
THEOREM ResolverTakesFirst ==
    ASSUME NEW tiers \in Seq(Tier), NEW caps
    PROVE  /\ ResolveTier(tiers, caps) \in 0..Len(tiers)
           /\ ResolveTier(tiers, caps) = NoTier <=> Matching(tiers, caps) = {}
           /\ ResolveTier(tiers, caps) # NoTier
                => /\ ResolveTier(tiers, caps) \in Matching(tiers, caps)
                   /\ \A j \in Matching(tiers, caps) : ResolveTier(tiers, caps) <= j
<1> DEFINE M == Matching(tiers, caps)
<1>1. M \in SUBSET (1..Len(tiers)) BY DEF Matching
<1>2. CASE M = {} BY <1>2 DEF ResolveTier, NoTier
<1>3. CASE M # {}
  <2>1. \E i \in M : \A j \in M : i <= j BY <1>1, <1>3, LeastElement
  <2>2. ResolveTier(tiers, caps) = CHOOSE i \in M : \A j \in M : i <= j
    BY <1>3 DEF ResolveTier
  <2>3. ResolveTier(tiers, caps) \in M /\ \A j \in M : ResolveTier(tiers, caps) <= j
    BY <2>1, <2>2
  <2> QED BY <1>1, <1>3, <2>3 DEF NoTier
<1> QED BY <1>2, <1>3

(* What tiers without a P3 finding are like.                                *)
LEMMA ConformantTiers ==
    ASSUME NEW tiers, NEW req, Conformant(tiers, req)
    PROVE  /\ ~ (Len(tiers) < 2)
           /\ tiers[Len(tiers)].terminal
           /\ \A i \in 1..Len(tiers) - 1 : tiers[i].requires \subseteq Vocabulary
           /\ req \subseteq tiers[1].requires
<1>1. ~ (Len(tiers) < 2) BY DEF Conformant, DegradationErrors
<1>2. \A e \in {"not terminal", "unknown", "not full"} :
        ~ (\/ e = "not terminal" /\ ~tiers[Len(tiers)].terminal
           \/ e = "unknown"
                /\ \E i \in 1..Len(tiers) - 1 : ~ (tiers[i].requires \subseteq Vocabulary)
           \/ e = "not full" /\ ~ (req \subseteq tiers[1].requires))
  BY <1>1 DEF Conformant, DegradationErrors
<1> QED BY <1>1, <1>2

(* Such tiers have a tier for every runtime.                                *)
LEMMA ConformantResolves ==
    ASSUME NEW tiers \in Seq(Tier), NEW req, NEW caps, Conformant(tiers, req)
    PROVE  ResolveTier(tiers, caps) # NoTier
<1>1. Len(tiers) \in 1..Len(tiers) BY ConformantTiers
<1>2. Len(tiers) \in Matching(tiers, caps)
  BY <1>1, ConformantTiers DEF Matching, Matches
<1> QED BY <1>2, ResolverTakesFirst

(* More capabilities never lead to a later tier.                            *)
THEOREM ResolverIsMonotone ==
    ASSUME NEW tiers \in Seq(Tier), NEW caps, NEW more, caps \subseteq more,
           ResolveTier(tiers, caps) # NoTier
    PROVE  /\ ResolveTier(tiers, more) # NoTier
           /\ ResolveTier(tiers, more) <= ResolveTier(tiers, caps)
<1>1. Matching(tiers, caps) \subseteq Matching(tiers, more) BY DEF Matching, Matches
<1>2. ResolveTier(tiers, caps) \in Matching(tiers, more) BY <1>1, ResolverTakesFirst
<1> QED BY <1>2, ResolverTakesFirst

(* For tiers declared in order, the first match is a best one.              *)
THEOREM FirstMatchIsBest ==
    ASSUME NEW tiers \in Seq(Tier), NEW caps, WellDeclared(tiers)
    PROVE  ResolveTier(tiers, caps) \in Selection!Best(tiers, caps)
<1> DEFINE t == ResolveTier(tiers, caps)
<1>1. /\ Len(tiers) \in Nat /\ Len(tiers) >= 2
      /\ \A i \in 1..Len(tiers) : tiers[i].terminal <=> i = Len(tiers)
  BY DEF WellDeclared
<1>2. Len(tiers) \in Matching(tiers, caps) BY <1>1 DEF Matching, Matches
<1>3. t \in Matching(tiers, caps) /\ \A j \in Matching(tiers, caps) : t <= j
  BY <1>2, ResolverTakesFirst
<1>4. t \in 1..Len(tiers) BY <1>3 DEF Matching
<1>5. CASE t = Len(tiers)
  <2>1. Selection!Met(tiers, caps) = {}
    <3> SUFFICES ASSUME NEW i \in Selection!Met(tiers, caps) PROVE FALSE
      OBVIOUS
    <3>1. i \in 1..Len(tiers) /\ ~tiers[i].terminal /\ i \in Matching(tiers, caps)
      BY DEF Selection!Met, Matching, Matches
    <3>2. i # Len(tiers) /\ t <= i BY <1>1, <1>3, <3>1
    <3> QED BY <1>1, <1>5, <3>1, <3>2
  <2> QED BY <1>1, <1>4, <1>5, <2>1 DEF Selection!Best
<1>6. CASE t # Len(tiers)
  <2>1. t \in Selection!Met(tiers, caps)
    BY <1>1, <1>3, <1>4, <1>6 DEF Selection!Met, Matching, Matches
  <2>2. ASSUME NEW j \in Selection!Met(tiers, caps), Selection!Above(tiers[j], tiers[t])
        PROVE FALSE
    <3>1. j \in 1..Len(tiers) /\ ~tiers[j].terminal /\ j \in Matching(tiers, caps)
      BY <2>2 DEF Selection!Met, Matching, Matches
    <3>2. t <= j /\ j # Len(tiers) BY <1>1, <1>3, <3>1
    <3>3. t # j BY <2>2 DEF Selection!Above
    <3>4. t \in 1..Len(tiers) - 1 /\ j \in 1..Len(tiers) - 1 /\ t < j
      BY <1>1, <1>4, <1>6, <3>1, <3>2, <3>3
    <3>5. tiers[t].requires \subseteq tiers[j].requires
            /\ tiers[t].requires # tiers[j].requires
      BY <2>2 DEF Selection!Above
    <3> QED BY <3>4, <3>5 DEF WellDeclared
  <2>3. t \in Selection!Maximal(tiers, caps) BY <2>1, <2>2 DEF Selection!Maximal
  <2> QED BY <2>1, <2>3 DEF Selection!Best
<1> QED BY <1>5, <1>6

----------------------------------------------------------------------------
(* The invariant: a bind that is under way holds what it has read, and the  *)
(* record is what the resolver and cmd_bind make of its own three inputs.   *)
MidRun ==
    /\ bpc # "idle" => profile \in Profiles
    /\ bpc = "degradation" => required \in Requirements

Explained ==
    binding # NoBinding =>
        /\ binding.tier = ResolveTier(binding.tiers, binding.caps)
        /\ binding.unresolved = Unresolved(binding.required, binding.caps)
        /\ binding.exit = ExitCode(binding.json, binding.tier, binding.unresolved)

IInv == TypeOK /\ MidRun /\ Explained

(* The tiers bind works on are a model, whatever is on disk.                *)
LEMMA TiersReadType ==
    ASSUME TypeOK
    PROVE  TiersRead \in Models /\ TiersRead \in Seq(Tier)
BY BindingAssumption DEF TypeOK, TiersRead

(* A finished bind leaves a well-formed record that explains itself.        *)
LEMMA FinishedBinding ==
    ASSUME IInv, NEW json \in BOOLEAN, FinishBind(json)
    PROVE  /\ binding' \in Bindings
           /\ binding'.tier = ResolveTier(binding'.tiers, binding'.caps)
           /\ binding'.unresolved = Unresolved(binding'.required, binding'.caps)
           /\ Explained'
<1> DEFINE tier == ResolveTier(TiersRead, profile)
           missing == Unresolved(required, profile)
<1>1. bpc = "degradation" /\ profile \in Profiles /\ required \in Requirements
  BY DEF IInv, MidRun, FinishBind
<1>2. tier \in Nat BY TiersReadType, ResolverTakesFirst DEF IInv
<1>3. missing \in SUBSET Capabilities /\ missing \subseteq required
  BY <1>1, BindingAssumption DEF Unresolved
<1>4. ExitCode(json, tier, missing) \in 0..2 BY DEF ExitCode
<1>5. binding' = [required |-> required, tiers |-> TiersRead, caps |-> profile,
                  tier |-> tier, unresolved |-> missing, json |-> json,
                  exit |-> ExitCode(json, tier, missing)]
  BY DEF FinishBind
<1>6. binding' \in Bindings
  <2>1. TiersRead \in Models BY TiersReadType DEF IInv
  <2> HIDE DEF tier, missing
  <2> QED BY <1>1, <1>2, <1>3, <1>4, <1>5, <2>1 DEF Bindings
<1> QED BY <1>5, <1>6 DEF Explained

(* Every step keeps the invariant.                                          *)
LEMMA StepKeepsInv ==
    ASSUME IInv, [Next]_vars
    PROVE  IInv'
<1>1. CASE \E r \in Requirements : EditAbi(r)
  BY <1>1 DEF IInv, TypeOK, MidRun, Explained, EditAbi
<1>2. CASE LoseDegradation
  BY <1>2 DEF IInv, TypeOK, MidRun, Explained, LoseDegradation
<1>3. CASE \E caps \in Profiles : LoadProfile(caps)
  BY <1>3 DEF IInv, TypeOK, MidRun, Explained, LoadProfile, skill
<1>4. CASE ReadAbi
  BY <1>4 DEF IInv, TypeOK, MidRun, Explained, ReadAbi, skill
<1>5. ASSUME NEW json \in BOOLEAN, FinishBind(json) PROVE IInv'
  <2>1. binding' \in Bindings /\ Explained' BY <1>5, FinishedBinding
  <2>2. /\ abi' = abi /\ deg' = deg
        /\ bpc' = "idle" /\ profile' = {} /\ required' = {}
    BY <1>5 DEF FinishBind, skill
  <2> QED BY <2>1, <2>2 DEF IInv, TypeOK, MidRun
<1>6. CASE UNCHANGED vars
  BY <1>6 DEF IInv, TypeOK, MidRun, Explained, vars
<1> QED BY <1>1, <1>2, <1>3, <1>4, <1>5, <1>6 DEF Next, BindStep

(* The invariant holds in every state of every behaviour.                   *)
THEOREM Invariance == Spec => []IInv
<1>1. Init => IInv
  BY BindingAssumption DEF Init, IInv, TypeOK, MidRun, Explained
<1>2. IInv /\ [Next]_vars => IInv' BY StepKeepsInv
<1> QED BY <1>1, <1>2, PTL DEF Spec

(* Every variable keeps its type: in particular the tier of a binding is a  *)
(* position of the tiers that bind read, or none.                           *)
THEOREM TypeCorrect == Spec => []TypeOK
<1>1. IInv => TypeOK BY DEF IInv
<1> QED BY <1>1, Invariance, PTL

(* An accepted binding, taken apart.                                        *)
LEMMA AcceptedBinding ==
    ASSUME IInv, Accepted
    PROVE  /\ binding \in Bindings /\ binding.tiers \in Seq(Tier)
           /\ binding.json \in BOOLEAN
           /\ binding.tier = ResolveTier(binding.tiers, binding.caps)
           /\ binding.tier # NoTier
           /\ binding.unresolved = Unresolved(binding.required, binding.caps)
           /\ binding.exit = ExitCode(binding.json, binding.tier, binding.unresolved)
<1>1. binding # NoBinding /\ Conformant(binding.tiers, binding.required)
  BY DEF Accepted, Bound
<1>2. binding \in Bindings BY <1>1 DEF IInv, TypeOK
<1>3. binding.tiers \in Seq(Tier) /\ binding.json \in BOOLEAN
  BY <1>2, BindingAssumption DEF Bindings
<1>4. /\ binding.tier = ResolveTier(binding.tiers, binding.caps)
      /\ binding.unresolved = Unresolved(binding.required, binding.caps)
      /\ binding.exit = ExitCode(binding.json, binding.tier, binding.unresolved)
  BY <1>1 DEF IInv, Explained
<1> QED BY <1>1, <1>2, <1>3, <1>4, ConformantResolves

(* A skill that passes the P3 checks is bound to some tier by every runtime.*)
THEOREM AcceptedAlwaysHasTier == Spec => []AcceptedHasTier
<1>1. ASSUME IInv PROVE AcceptedHasTier
  <2> SUFFICES ASSUME Accepted
               PROVE  binding.tier # NoTier /\ (~binding.json => binding.exit # 2)
    BY DEF AcceptedHasTier
  <2> QED BY <1>1, AcceptedBinding DEF ExitCode
<1> QED BY <1>1, Invariance, PTL

(* Its first tier, unless that is the terminal one, leaves nothing          *)
(* unresolved.                                                              *)
THEOREM FullTierAlwaysResolved == Spec => []FullTierIsResolved
<1>1. ASSUME IInv PROVE FullTierIsResolved
  <2> SUFFICES ASSUME Accepted, binding.tier = 1, ~binding.tiers[1].terminal
               PROVE  binding.unresolved = {} /\ binding.exit # 1
    BY DEF FullTierIsResolved
  <2>1. 1 \in Matching(binding.tiers, binding.caps)
    BY <1>1, AcceptedBinding, ResolverTakesFirst
  <2>2. binding.tiers[1].requires \subseteq binding.caps BY <2>1 DEF Matching, Matches
  <2>3. binding.required \subseteq binding.tiers[1].requires
    BY ConformantTiers DEF Accepted
  <2>4. binding.unresolved = {} BY <1>1, <2>2, <2>3, AcceptedBinding DEF Unresolved
  <2> QED BY <1>1, <2>4, AcceptedBinding DEF ExitCode
<1> QED BY <1>1, Invariance, PTL

(* A runtime with the whole vocabulary gets the first tier.                 *)
THEOREM VocabularyAlwaysGetsFull == Spec => []VocabularyGetsFull
<1>1. ASSUME IInv PROVE VocabularyGetsFull
  <2> SUFFICES ASSUME Accepted, Vocabulary \subseteq binding.caps
               PROVE  binding.tier = 1
    BY DEF VocabularyGetsFull
  <2>1. 1 \in 1..Len(binding.tiers) - 1 /\ Len(binding.tiers) \in Nat
    BY <1>1, AcceptedBinding, ConformantTiers DEF Accepted
  <2>2. binding.tiers[1].requires \subseteq Vocabulary
    BY <2>1, ConformantTiers DEF Accepted
  <2>3. 1 \in Matching(binding.tiers, binding.caps)
    BY <2>1, <2>2 DEF Matching, Matches
  <2>4. binding.tier \in 1..Len(binding.tiers) /\ binding.tier <= 1
    BY <1>1, <2>3, AcceptedBinding, ResolverTakesFirst DEF NoTier
  <2> QED BY <2>4
<1> QED BY <1>1, Invariance, PTL

(* The first tier is the full one.                                          *)
THEOREM FullTierIsAlwaysFull == Spec => []FullTierIsFull
<1>1. FullTierIsResolved /\ VocabularyGetsFull => FullTierIsFull BY DEF FullTierIsFull
<1> QED BY <1>1, FullTierAlwaysResolved, VocabularyAlwaysGetsFull, PTL

(* Between two binds of the same tiers, more capabilities never lead to a   *)
(* later tier or to more that is unresolved.                                *)
THEOREM CapabilitiesNeverHurt == Spec => MoreCapabilitiesNeverHurt
<1> DEFINE Better ==
      Bound /\ binding'.tiers = binding.tiers /\ binding.caps \subseteq binding'.caps
        => /\ binding.tier # NoTier => binding'.tier <= binding.tier /\ binding'.tier # NoTier
           /\ binding'.required = binding.required
                => binding'.unresolved \subseteq binding.unresolved
<1>1. ASSUME IInv, [Next]_vars PROVE Better
  <2> SUFFICES ASSUME Bound, binding'.tiers = binding.tiers, binding.caps \subseteq binding'.caps
               PROVE  /\ binding.tier # NoTier
                            => binding'.tier <= binding.tier /\ binding'.tier # NoTier
                      /\ binding'.required = binding.required
                            => binding'.unresolved \subseteq binding.unresolved
    OBVIOUS
  <2>1. /\ binding \in Bindings
        /\ binding.tier = ResolveTier(binding.tiers, binding.caps)
        /\ binding.unresolved = Unresolved(binding.required, binding.caps)
    BY <1>1 DEF IInv, TypeOK, Explained, Bound
  <2>2. binding.tiers \in Seq(Tier) /\ binding.tier \in Nat
    BY <2>1, BindingAssumption DEF Bindings
  <2>3. CASE binding' = binding BY <2>2, <2>3
  <2>4. ASSUME NEW json \in BOOLEAN, FinishBind(json)
        PROVE  /\ binding.tier # NoTier
                     => binding'.tier <= binding.tier /\ binding'.tier # NoTier
               /\ binding'.required = binding.required
                     => binding'.unresolved \subseteq binding.unresolved
    <3>1. /\ binding'.tier = ResolveTier(binding.tiers, binding'.caps)
          /\ binding'.unresolved = Unresolved(binding'.required, binding'.caps)
      BY <1>1, <2>4, FinishedBinding
    <3>2. binding.tier # NoTier => binding'.tier <= binding.tier /\ binding'.tier # NoTier
      BY <2>1, <2>2, <3>1, ResolverIsMonotone
    <3> QED BY <2>1, <3>1, <3>2 DEF Unresolved
  <2> QED
    BY <1>1, <2>3, <2>4
    DEF Next, BindStep, EditAbi, LoseDegradation, LoadProfile, ReadAbi, vars
<1>2. IInv /\ [Next]_vars => [Better]_vars BY <1>1
<1> QED BY <1>2, Invariance, PTL DEF Spec, MoreCapabilitiesNeverHurt

(* The tier that bind selects for tiers declared in order is the maximum of *)
(* the specification: bind implements TierSelection.                        *)
THEOREM Refinement == Spec => ImplementsSelection
<1>1. Init => Selection!Init
  BY DEF Init, Selection!Init, Answer, NoAnswer, Bound
<1>2. ASSUME IInv, [Next]_vars PROVE [Selection!Next]_Answer
  <2>1. CASE binding' = binding
    <3>1. Answer' = Answer BY <2>1 DEF Answer, Bound, NoAnswer
    <3> QED BY <3>1
  <2>2. ASSUME NEW json \in BOOLEAN, FinishBind(json) PROVE Selection!Next
    <3>1. CASE ~ (binding' # NoBinding /\ WellDeclared(binding'.tiers))
      <4>1. Answer' = NoAnswer BY <3>1 DEF Answer, Bound, NoAnswer
      <4> QED BY <4>1 DEF Selection!Next, Selection!Decline
    <3>2. CASE binding' # NoBinding /\ WellDeclared(binding'.tiers)
      <4>1. Answer' = [tiers |-> binding'.tiers, caps |-> binding'.caps,
                       tier |-> binding'.tier]
        BY <3>2 DEF Answer, Bound
      <4>2. /\ binding' \in Bindings
            /\ binding'.tier = ResolveTier(binding'.tiers, binding'.caps)
        BY <1>2, <2>2, FinishedBinding
      <4>3. /\ binding'.tiers \in Models /\ binding'.caps \in Profiles
            /\ binding'.tier \in Nat /\ binding'.tiers \in Seq(Tier)
        BY <4>2, BindingAssumption DEF Bindings
      <4>4. binding'.tier \in Selection!Best(binding'.tiers, binding'.caps)
        BY <3>2, <4>2, <4>3, FirstMatchIsBest
      <4>5. Answer' \in Selection!Answers
        BY <4>1, <4>3 DEF Selection!Answers
      <4> QED BY <4>1, <4>4, <4>5 DEF Selection!Next, Selection!Select
    <3> QED BY <3>1, <3>2
  <2> QED
    BY <1>2, <2>1, <2>2
    DEF Next, BindStep, EditAbi, LoseDegradation, LoadProfile, ReadAbi, vars
<1> QED BY <1>1, <1>2, Invariance, PTL DEF Spec, ImplementsSelection, Selection!Spec
============================================================================
