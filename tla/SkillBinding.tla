---------------------------- MODULE SkillBinding ----------------------------
(***************************************************************************)
(* `sabi bind`: a runtime profile is loaded, then skill.abi.yaml, then     *)
(* degradation.yaml, and the three are joined into a binding record.  The  *)
(* author can rewrite skill.abi.yaml, and break or remove degradation.yaml,*)
(* at any time.  Other tiers are another initial state: a bind reads       *)
(* degradation.yaml once and compares it with nothing it read before.      *)
(***************************************************************************)
EXTENDS Degradation

CONSTANTS
    Models,       \* degradation models the skill can have
    Profiles,     \* capability sets of the runtimes it is bound to
    Requirements, \* required capabilities the ABI can list
    Unusable,     \* degradation.yaml is missing or does not parse
    NoBinding

ASSUME BindingAssumption ==
    /\ Models \subseteq Seq(Tier)
    /\ Profiles \subseteq SUBSET Capabilities
    /\ Requirements \subseteq SUBSET Capabilities
    /\ Unusable \notin Models
    /\ <<>> \in Models

VARIABLES
    abi,        \* the required capabilities of skill.abi.yaml
    deg,        \* the tiers of degradation.yaml
    bpc,        \* where bind is
    profile,    \* the capabilities of the profile it loaded
    required,   \* the requirements it read
    binding     \* the record of the last bind, with its exit code

skill == <<abi, deg>>
vars == <<abi, deg, bpc, profile, required, binding>>

Init ==
    /\ abi \in Requirements
    /\ deg \in Models
    /\ bpc = "idle"
    /\ profile = {} /\ required = {}
    /\ binding = NoBinding

EditAbi(r) ==
    /\ abi' = r /\ r # abi
    /\ UNCHANGED <<deg, bpc, profile, required, binding>>

(* The author breaks or removes degradation.yaml.                           *)
LoseDegradation ==
    /\ deg' = Unusable /\ deg # Unusable
    /\ UNCHANGED <<abi, bpc, profile, required, binding>>

LoadProfile(caps) ==
    /\ bpc = "idle"
    /\ profile' = caps
    /\ bpc' = "abi"
    /\ UNCHANGED <<skill, required, binding>>

ReadAbi ==
    /\ bpc = "abi"
    /\ required' = abi
    /\ bpc' = "degradation"
    /\ UNCHANGED <<skill, profile, binding>>

(* Mutated: the difference the wrong way round.                             *)
UnresolvedSwapped(req, caps) == caps \ req

Unresolved(req, caps) == req \ caps

(* cmd_bind sets "unresolved" only when it prints text, and uppercases the  *)
(* tier there: with --json, and without a tier, main reports an exception.  *)
ExitCode(json, tier, unresolved) ==
    IF json \/ tier = NoTier THEN 2
    ELSE IF unresolved = {} THEN 0 ELSE 1

(* A degradation.yaml that cannot be used counts as one without tiers.      *)
TiersRead == IF deg = Unusable THEN <<>> ELSE deg

FinishBind(json) ==
    /\ bpc = "degradation"
    /\ LET tier == ResolveTier(TiersRead, profile)
           missing == Unresolved(required, profile)
       IN binding' = [required |-> required, tiers |-> TiersRead, caps |-> profile,
                      tier |-> tier, unresolved |-> missing, json |-> json,
                      exit |-> ExitCode(json, tier, missing)]
    /\ bpc' = "idle" /\ profile' = {} /\ required' = {}
    /\ UNCHANGED skill

BindStep == ReadAbi \/ \E json \in BOOLEAN : FinishBind(json)

Next ==
    \/ \E r \in Requirements : EditAbi(r)
    \/ LoseDegradation
    \/ \E caps \in Profiles : LoadProfile(caps)
    \/ BindStep

(* A bind that has started goes on.                                         *)
Spec == Init /\ [][Next]_vars /\ WF_vars(BindStep)

----------------------------------------------------------------------------
(* What must hold.                                                          *)

Bindings ==
    {b \in [required : Requirements, tiers : Models, caps : Profiles, tier : Nat,
            unresolved : SUBSET Capabilities, json : BOOLEAN, exit : 0..2] :
       b.unresolved \subseteq b.required}

(* Every variable keeps its type, and a binding leaves nothing unresolved   *)
(* that the skill does not require.                                         *)
TypeOK ==
    /\ abi \in Requirements
    /\ deg \in Models \cup {Unusable}
    /\ bpc \in {"idle", "abi", "degradation"}
    /\ profile \in Profiles \cup {{}}
    /\ required \in Requirements \cup {{}}
    /\ binding \in Bindings \cup {NoBinding}

Bound == binding # NoBinding
Accepted == Bound /\ Conformant(binding.tiers, binding.required)

(* A skill whose tiers pass the P3 checks is bound to some tier by every    *)
(* runtime, even one without any capability, and bind in text mode never    *)
(* ends in an exception (validate_skill guarantees what resolve_tier and    *)
(* cmd_bind rely on).                                                       *)
AcceptedHasTier == Accepted => binding.tier # NoTier /\ (~binding.json => binding.exit # 2)

(* When such a skill is bound to its first tier, and that tier is not the   *)
(* terminal one, then nothing it requires is unresolved: a bind that exits  *)
(* with 1 has selected a degraded tier.                                     *)
FullTierIsResolved ==
    Accepted /\ binding.tier = 1 /\ ~binding.tiers[1].terminal
        => binding.unresolved = {} /\ binding.exit # 1

(* A runtime with the whole vocabulary gets the first tier of every skill   *)
(* that passes the P3 checks: no tier names a capability that none can have.*)
VocabularyGetsFull == Accepted /\ Vocabulary \subseteq binding.caps => binding.tier = 1

(* So the first tier is the full one: who has everything gets it, and who   *)
(* gets it lacks nothing (validate_skill, resolve_tier, bind).              *)
FullTierIsFull == FullTierIsResolved /\ VocabularyGetsFull

(* Two binds of the same tiers: the runtime with more capabilities never    *)
(* gets a later tier, and never leaves more unresolved.                     *)
MoreCapabilitiesNeverHurt ==
    [][ Bound /\ binding'.tiers = binding.tiers /\ binding.caps \subseteq binding'.caps
          => /\ binding.tier # NoTier => binding'.tier <= binding.tier /\ binding'.tier # NoTier
             /\ binding'.required = binding.required
                  => binding'.unresolved \subseteq binding.unresolved ]_vars

(* The tiers are declared as degradation-model.md asks: one terminal tier,  *)
(* the last one, and no tier after one that it is above.                    *)
WellDeclared(tiers) ==
    /\ Len(tiers) >= 2
    /\ \A i \in 1..Len(tiers) : tiers[i].terminal <=> i = Len(tiers)
    /\ \A i, j \in 1..Len(tiers) - 1 :
          i < j /\ tiers[i].requires \subseteq tiers[j].requires
             => tiers[i].requires = tiers[j].requires

NoAnswer == NoBinding
Answer ==
    IF Bound /\ WellDeclared(binding.tiers)
    THEN [tiers |-> binding.tiers, caps |-> binding.caps, tier |-> binding.tier]
    ELSE NoAnswer

Selection == INSTANCE TierSelection WITH answer <- Answer

(* For tiers declared in order, taking the first match implements the       *)
(* maximum of the specification.                                            *)
ImplementsSelection == Selection!Spec

(* resolver.py:3 and degradation-model.md:34 give the rule as               *)
(* T* = max{Ti | requires(Ti) subset of R}, for every skill that validates. *)
SelectsMaximal ==
    Accepted => binding.tier \in Selection!Best(binding.tiers, binding.caps)
============================================================================
