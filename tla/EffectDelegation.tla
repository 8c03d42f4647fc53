-------------------------- MODULE EffectDelegation --------------------------
(***************************************************************************)
(* How the envelope semantics is used: a skill declares an envelope, a     *)
(* runtime and whoever it delegates to narrow it step by step, each step   *)
(* checked by envelope_contains against the one before it, and what is     *)
(* observed in the end is checked only against the last one.               *)
(***************************************************************************)
EXTENDS EffectEnvelope

CONSTANTS
    Envelopes,     \* envelopes that can be declared or granted
    Observations,  \* effects that can be observed
    Nothing        \* nothing has been accepted yet

ASSUME DelegationAssumption ==
    /\ Envelopes \subseteq Envelope
    /\ \A o \in Observations : IsObservation(o)
    /\ Nothing \notin Observations

VARIABLES
    declared,  \* the envelope in effects.yaml
    granted,   \* the last envelope that passed the containment check
    accepted,  \* the last observation that was found to be clean
    clear      \* history: no grant has compared patterns that are Confused

vars == <<declared, granted, accepted, clear>>

(* The pairs of patterns that _glob_covers gets wrong: it takes "p/**" to   *)
(* be covered by "p/*", and "*" by a bare "**", which covers no path.       *)
Confused(p, q) ==
    /\ p.path = q.path
    /\ \/ p.wild = "*" /\ q.wild = "**" /\ p.path # <<>>
       \/ p.wild = "**" /\ q.wild = "*" /\ p.path = <<>>

PatternsOf(env) ==
    UNION {env[i].spec.lists[key] : i \in 1..Len(env), key \in ListConstraints}

Clear(outer, inner) ==
    \A p \in PatternsOf(outer), q \in PatternsOf(inner) : ~Confused(p, q)

----------------------------------------------------------------------------
(* Level P2: the declared envelope has passed validate_envelope.            *)
Init ==
    /\ declared \in {e \in Envelopes : WellFormed(e)}
    /\ granted = declared
    /\ accepted = Nothing
    /\ clear = TRUE

(* Mutated: what is granted is added to what was granted before.            *)
GrantMerged(e) ==
    /\ EnvelopeContains(granted, e)
    /\ granted' = granted \o e
    /\ clear' = (clear /\ Clear(granted, e))
    /\ UNCHANGED <<declared, accepted>>

(* A grant that widens is refused: nothing changes.                         *)
Grant(e) ==
    /\ EnvelopeContains(granted, e)
    /\ granted' = e
    /\ clear' = (clear /\ Clear(granted, e))
    /\ UNCHANGED <<declared, accepted>>

Observe(o) ==
    /\ Within(granted, o)
    /\ accepted' = o
    /\ UNCHANGED <<declared, granted, clear>>

Next ==
    \/ \E e \in Envelopes : Grant(e)
    \/ \E o \in Observations : Observe(o)

Spec == Init /\ [][Next]_vars

----------------------------------------------------------------------------
(* What must hold.                                                          *)

(* Every variable keeps its type; in particular what is in force is one of  *)
(* the envelopes that were granted.                                         *)
TypeOK ==
    /\ declared \in Envelopes
    /\ granted \in Envelopes
    /\ accepted \in Observations \cup {Nothing}
    /\ clear \in BOOLEAN

(* However often the envelope was narrowed, what was accepted in the end    *)
(* stays inside the envelope the skill declared: "empty list means inner    *)
(* is contained in outer" (envelope_contains), effects.py:282.  The code    *)
(* does not do this, see the two properties after it.                       *)
AcceptedWithinDeclared == accepted # Nothing => Within(declared, accepted)

(* A record with a currency has an amount.  envelope_contains compares      *)
(* currencies only when there is an amount, check_observed always           *)
(* (effects.py:334).                                                        *)
Priced(o) ==
    \A name \in DOMAIN o.effects :
        Canonical[name] = "money" /\ o.effects[name].currency # Unset
            => Bound(o.effects[name].amount) > 0

(* Apart from confused patterns and currencies without an amount it does:   *)
(* the observation accepted at the end of a chain of grants of any length   *)
(* passes check_observed against the envelope the skill declared.           *)
AcceptedWithinDeclaredIfClear ==
    accepted # Nothing /\ clear /\ Priced(accepted) => Within(declared, accepted)

(* How far a pattern can reach when grants confuse it: itself, and with a   *)
(* wildcard everything below its path.                                      *)
Reaches(p, v) == p = v \/ (p.wild # "none" /\ Below(v.path, p.path))

OutOfReach(cat, s, rec) ==
    \/ ~Allowed(s)
    \/ rec.count > Bound(s.max_operations)
    \/ \E key \in ObservedKeys[cat] : \E v \in rec.lists[key] :
          \A p \in PatternsFor(s, cat, key) : ~Reaches(p, v)
    \/ cat = "money" /\ Bound(rec.amount) > Bound(s.amount)
    \/ cat = "money" /\ Bound(rec.amount) > 0 /\ rec.currency \notin {Unset, s.currency}
    \/ cat = "credential" /\ rec.expose_to_model /\ s.expose_to_model # TRUE

WithinReach(env, obs) ==
    /\ ~obs.credentials_exposed
    /\ \A name \in DOMAIN obs.effects :
          LET cat == Canonical[name]
              rec == obs.effects[name]
          IN /\ cat # Unknown
             /\ IsActive(cat, rec)
                  => Declares(env, cat) /\ ~OutOfReach(cat, SpecOf(env, cat), rec)

(* And whatever the chain confused, an effect that was accepted is of a     *)
(* category the skill declared and allows, within the numbers it declared,  *)
(* below the paths it named, and no money is spent in another currency      *)
(* (envelope_contains, check_observed).                                     *)
AcceptedWithinReach == accepted # Nothing => WithinReach(declared, accepted)

(* No grant ever lets an effect through that the one before it stopped.     *)
GrantsNeverWiden ==
    [][Clear(granted, granted')
         => \A o \in Observations :
               Priced(o) /\ Within(granted', o) => Within(granted, o)]_vars

(* Narrowing composes: checked directly against the declared envelope, what *)
(* is granted after any number of grants passes too, although each delegate *)
(* compared only two neighbours, and those in between need not validate.    *)
(* With no grants at all: an envelope that validates can be restated.       *)
NarrowingComposes ==
    clear /\ WellFormed(granted) => EnvelopeContains(declared, granted)
============================================================================
