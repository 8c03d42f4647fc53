---------------------------- MODULE SemanticDiff ----------------------------
(***************************************************************************)
(* `sabi diff`: how two versions of a skill contract are compared and the  *)
(* difference classified as MAJOR, MINOR or PATCH.  Pure operators.        *)
(***************************************************************************)
EXTENDS Degradation, FiniteSets

CONSTANTS
    Obligations,  \* what verification.required can list
    SchemaBytes,  \* contents of the schema files
    Categories,   \* effect categories
    Bounds,       \* what an effect declares, apart from its note
    Notes,        \* the texts of a note, "no note" among them
    Undeclared,   \* the envelope does not name this category
    TierNames

ASSUME DiffAssumption == Undeclared \notin [bound : Bounds, note : Notes]

NamedTier == [name : TierNames, requires : SUBSET Capabilities, terminal : BOOLEAN]

(* A contract whose two schema references can be read: the others are left  *)
(* out here, and the diff compares schemas only when both versions have     *)
(* them.                                                                    *)
Contract ==
    [required : SUBSET Capabilities, optional : SUBSET Capabilities,
     obligations : SUBSET Obligations, inputs : SchemaBytes, outputs : SchemaBytes,
     effects : [Categories -> [bound : Bounds, note : Notes] \cup {Undeclared}],
     tiers : Seq(NamedTier)]

Names(c) == {c.tiers[i].name : i \in 1..Len(c.tiers)}

(* _deep_diff, apart from paths that end in ".note".  A category that       *)
(* appears or goes is one difference, whatever is below it.                 *)
EffectChange(old, new, k) ==
    /\ old.effects[k] # new.effects[k]
    /\ (old.effects[k] # Undeclared /\ new.effects[k] # Undeclared)
         => old.effects[k].bound # new.effects[k].bound

(* Mutated: an optional capability that becomes required breaks nobody.     *)
BreakingUnlessPromoted(old, new) ==
    {<<"required", c>> : c \in (old.required \ new.required)
                                 \cup (new.required \ (old.required \cup old.optional))}
    \cup {<<"effect", k>> : k \in {k \in Categories : EffectChange(old, new, k)}}
    \cup {<<"tier", t>> : t \in Names(old) \ Names(new)}
    \cup {<<"obligation", v>> : v \in old.obligations \ new.obligations}

(* Mutated: the tiers are counted, not compared.                            *)
BreakingFewerTiers(old, new) ==
    {<<"required", c>> : c \in (old.required \ new.required) \cup (new.required \ old.required)}
    \cup {<<"effect", k>> : k \in {k \in Categories : EffectChange(old, new, k)}}
    \cup {<<"tier", t>> : t \in IF Len(new.tiers) < Len(old.tiers)
                                THEN Names(old) \ Names(new) ELSE {}}
    \cup {<<"obligation", v>> : v \in old.obligations \ new.obligations}

(* Any change of what is required, any change of the effects, a tier name   *)
(* or an obligation that is gone.                                           *)
Breaking(old, new) ==
    {<<"required", c>> : c \in (old.required \ new.required) \cup (new.required \ old.required)}
    \cup {<<"effect", k>> : k \in {k \in Categories : EffectChange(old, new, k)}}
    \cup {<<"tier", t>> : t \in Names(old) \ Names(new)}
    \cup {<<"obligation", v>> : v \in old.obligations \ new.obligations}

(* Additions, and schemas whose bytes differ.  Not compared: an optional    *)
(* capability that is gone, and what a tier of the same name requires,      *)
(* where it stands and whether it is terminal.                              *)
Minor(old, new) ==
    {<<"optional", c>> : c \in new.optional \ old.optional}
    \cup {<<"tier", t>> : t \in Names(new) \ Names(old)}
    \cup {<<"schema", r>> : r \in {r \in {"inputs", "outputs"} : old[r] # new[r]}}
    \cup {<<"obligation", v>> : v \in new.obligations \ old.obligations}

Bumps == {"MAJOR", "MINOR", "PATCH"}

Bump(old, new) ==
    IF Breaking(old, new) # {} THEN "MAJOR"
    ELSE IF Minor(old, new) # {} THEN "MINOR" ELSE "PATCH"
============================================================================
