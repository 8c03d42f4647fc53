------------------------ MODULE SkillRevisionProofs ------------------------
(***************************************************************************)
(* Proofs about SkillRevision, for any set of contracts and histories of   *)
(* any length.  The core is that "not MAJOR" and "PATCH" compose: two      *)
(* harmless steps are together harmless.                                   *)
(***************************************************************************)
EXTENDS SkillRevision, WellFoundedInduction, TLAPS

(* What it means that a difference breaks nothing.                          *)
Harmless(x, y) ==
    /\ x.required = y.required
    /\ \A k \in Categories : ~EffectChange(x, y, k)
    /\ Names(x) \subseteq Names(y)
    /\ x.obligations \subseteq y.obligations

(* What it means that, moreover, nothing is added.                          *)
NothingNew(x, y) ==
    /\ y.optional \subseteq x.optional
    /\ Names(y) \subseteq Names(x)
    /\ x.inputs = y.inputs
    /\ x.outputs = y.outputs
    /\ y.obligations \subseteq x.obligations

(* semantic_diff finds nothing breaking exactly when the difference is      *)
(* harmless.                                                                *)
LEMMA BreakingIsHarm ==
    ASSUME NEW x \in Contract, NEW y \in Contract
    PROVE  Breaking(x, y) = {} <=> Harmless(x, y)
<1>1. x.required \subseteq Capabilities /\ y.required \subseteq Capabilities
  BY DEF Contract
<1>2. Breaking(x, y) = {} => Harmless(x, y)
  <2> SUFFICES ASSUME Breaking(x, y) = {} PROVE Harmless(x, y)
    OBVIOUS
  <2>1. \A c : c \notin (x.required \ y.required) \cup (y.required \ x.required)
    BY Zenon DEF Breaking
  <2>2. \A k \in Categories : ~EffectChange(x, y, k)
    BY Zenon DEF Breaking
  <2>3. \A t : t \notin Names(x) \ Names(y)
    BY Zenon DEF Breaking
  <2>4. \A v : v \notin x.obligations \ y.obligations
    BY Zenon DEF Breaking
  <2> QED BY <2>1, <2>2, <2>3, <2>4, <1>1 DEF Harmless
<1>3. Harmless(x, y) => Breaking(x, y) = {}
  BY DEF Harmless, Breaking
<1> QED BY <1>2, <1>3

(* ... and nothing minor exactly when nothing is new.                       *)
LEMMA MinorIsNew ==
    ASSUME NEW x \in Contract, NEW y \in Contract
    PROVE  Minor(x, y) = {} <=> NothingNew(x, y)
<1>1. ASSUME Minor(x, y) = {} PROVE NothingNew(x, y)
  <2>1. \A c : c \notin y.optional \ x.optional
    BY <1>1, Zenon DEF Minor
  <2>2. \A t : t \notin Names(y) \ Names(x)
    BY <1>1, Zenon DEF Minor
  <2>3. \A r \in {"inputs", "outputs"} : ~(x[r] # y[r])
    BY <1>1, Zenon DEF Minor
  <2>4. \A v : v \notin y.obligations \ x.obligations
    BY <1>1, Zenon DEF Minor
  <2> QED BY <2>1, <2>2, <2>3, <2>4 DEF NothingNew
<1>2. NothingNew(x, y) => Minor(x, y) = {}
  BY DEF NothingNew, Minor
<1> QED BY <1>1, <1>2

(* Effects that do not change twice do not change.                          *)
LEMMA EffectChangeTransitive ==
    ASSUME NEW x \in Contract, NEW y \in Contract, NEW z \in Contract,
           NEW k \in Categories, ~EffectChange(x, y, k), ~EffectChange(y, z, k)
    PROVE  ~EffectChange(x, z, k)
  BY DEF EffectChange

LEMMA HarmlessTransitive ==
    ASSUME NEW x \in Contract, NEW y \in Contract, NEW z \in Contract,
           Harmless(x, y), Harmless(y, z)
    PROVE  Harmless(x, z)
  BY EffectChangeTransitive DEF Harmless

LEMMA NothingNewTransitive ==
    ASSUME NEW x \in Contract, NEW y \in Contract, NEW z \in Contract,
           NothingNew(x, y), NothingNew(y, z)
    PROVE  NothingNew(x, z)
  BY DEF NothingNew

(* Bumps compose: what two diffs in a row allow, the diff of the ends       *)
(* allows (semantic_diff).                                                  *)
THEOREM BumpsCompose ==
    ASSUME NEW x \in Contract, NEW y \in Contract, NEW z \in Contract
    PROVE  /\ Bump(x, y) # "MAJOR" /\ Bump(y, z) # "MAJOR" => Bump(x, z) # "MAJOR"
           /\ Bump(x, y) = "PATCH" /\ Bump(y, z) = "PATCH" => Bump(x, z) = "PATCH"
<1>1. Bump(x, y) # "MAJOR" /\ Bump(y, z) # "MAJOR" => Bump(x, z) # "MAJOR"
  BY BreakingIsHarm, HarmlessTransitive DEF Bump
<1>2. Bump(x, y) = "PATCH" /\ Bump(y, z) = "PATCH" => Bump(x, z) = "PATCH"
  BY BreakingIsHarm, MinorIsNew, HarmlessTransitive, NothingNewTransitive DEF Bump
<1> QED BY <1>1, <1>2

----------------------------------------------------------------------------
(* The history.  Each bump is the diff of the two versions around it.       *)
Labelled == \A k \in 1..Len(bumps) : bumps[k] = Bump(released[k], released[k + 1])

IInv == TypeOK /\ Labelled /\ ChainsNeverAddUp /\ UpgradesKeepResolution

(* ChainsNeverAddUp without its sets of bumps.                              *)
LEMMA ChainsRestated ==
    ASSUME TypeOK
    PROVE  ChainsNeverAddUp <=>
             \A j \in 1..Len(released) : \A i \in 1..j - 1 :
               /\ (\A k \in i..j - 1 : bumps[k] # "MAJOR")
                    => Bump(released[i], released[j]) # "MAJOR"
               /\ (\A k \in i..j - 1 : bumps[k] = "PATCH")
                    => Bump(released[i], released[j]) = "PATCH"
<1>1. ASSUME NEW j \in 1..Len(released), NEW i \in 1..j - 1
      PROVE  /\ "MAJOR" \in {bumps[k] : k \in i..j - 1}
                  <=> \E k \in i..j - 1 : bumps[k] = "MAJOR"
             /\ {bumps[k] : k \in i..j - 1} = {"PATCH"}
                  <=> \A k \in i..j - 1 : bumps[k] = "PATCH"
  <2>1. i \in i..j - 1 BY DEF TypeOK
  <2>2. {bumps[k] : k \in i..j - 1} = {"PATCH"}
          <=> \A k \in i..j - 1 : bumps[k] = "PATCH"
    BY <2>1, Zenon
  <2> QED BY <2>2
<1> QED BY <1>1 DEF ChainsNeverAddUp

(* ChainsNeverAddUp, of any history.                                        *)
Composes(history, labels) ==
    \A j \in 1..Len(history) : \A i \in 1..j - 1 :
        LET onTheWay == {labels[k] : k \in i..j - 1}
            ends == Bump(history[i], history[j])
        IN /\ ends = "MAJOR" => "MAJOR" \in onTheWay
           /\ onTheWay = {"PATCH"} => ends = "PATCH"

(* Steps of the consumer leave the history alone.                           *)
LEMMA HistoryKept ==
    ASSUME Labelled, ChainsNeverAddUp, UNCHANGED <<released, bumps>>
    PROVE  Labelled' /\ ChainsNeverAddUp'
<1>1. Labelled' BY DEF Labelled
<1>2. ChainsNeverAddUp'
  <2>1. ChainsNeverAddUp <=> Composes(released, bumps)
    BY Zenon DEF ChainsNeverAddUp, Composes
  <2>2. ChainsNeverAddUp' <=> Composes(released', bumps')
    BY Zenon DEF ChainsNeverAddUp, Composes
  <2> QED BY <2>1, <2>2
<1> QED BY <1>1, <1>2

LEMMA VersionsAreContracts ==
    ASSUME TypeOK, NEW i \in 1..Len(released)
    PROVE  released[i] \in Contract
  BY RevisionAssumption DEF TypeOK

(* A version that is appended leaves the others and their bumps in place.   *)
LEMMA PublishAppends ==
    ASSUME TypeOK, NEW c \in Versions, Publish(c)
    PROVE  /\ Len(released) \in Nat \ {0}
           /\ Len(released') = Len(released) + 1
           /\ \A i \in 1..Len(released) : released'[i] = released[i]
           /\ released'[Len(released) + 1] = c
           /\ Len(bumps') = Len(released)
           /\ \A k \in 1..Len(released) - 1 : bumps'[k] = bumps[k]
           /\ bumps'[Len(released)] = Bump(released[Len(released)], c)
<1>1. Bump(Latest, c) \in Bumps BY DEF Bump, Bumps
<1>2. Len(released) \in Nat \ {0} BY DEF TypeOK
<1>3. /\ Len(released') = Len(released) + 1
      /\ \A i \in 1..Len(released) : released'[i] = released[i]
      /\ released'[Len(released) + 1] = c
  BY DEF Publish, TypeOK
<1>4. /\ Len(bumps') = Len(bumps) + 1
      /\ \A k \in 1..Len(bumps) : bumps'[k] = bumps[k]
      /\ bumps'[Len(bumps) + 1] = Bump(Latest, c)
  BY <1>1 DEF Publish, TypeOK
<1> QED BY <1>2, <1>3, <1>4 DEF TypeOK, Latest

LEMMA PublishKeepsTypes ==
    ASSUME TypeOK, NEW c \in Versions, Publish(c)
    PROVE  TypeOK'
<1>1. Bump(Latest, c) \in Bumps BY DEF Bump, Bumps
<1>2. released' \in Seq(Versions) /\ bumps' \in Seq(Bumps)
  BY <1>1 DEF Publish, TypeOK
<1>3. Len(released') \in 1..MaxVersions /\ Len(bumps') = Len(released') - 1
  BY PublishAppends, RevisionAssumption DEF TypeOK, Publish
<1>4. ASSUME consumer # NoConsumer
      PROVE  consumer \in [version : 1..Len(released'), caps : SUBSET Capabilities,
                tier : {{}} \cup {{n} : n \in TierNames}, unresolved : SUBSET Capabilities]
  <2>1. 1..Len(released) \subseteq 1..Len(released') BY PublishAppends
  <2> QED BY <1>4, <2>1 DEF TypeOK
<1> QED BY <1>2, <1>3, <1>4 DEF TypeOK, Publish

(* The step in which chains could add up: by what holds between an older    *)
(* version and the latest one, and BumpsCompose.                            *)
LEMMA PublishKeepsChains ==
    ASSUME TypeOK, TypeOK', ChainsNeverAddUp, NEW c \in Versions, Publish(c)
    PROVE  ChainsNeverAddUp'
<1> DEFINE n == Len(released)
<1>1. \A j \in 1..n : \A i \in 1..j - 1 :
        /\ (\A k \in i..j - 1 : bumps[k] # "MAJOR")
             => Bump(released[i], released[j]) # "MAJOR"
        /\ (\A k \in i..j - 1 : bumps[k] = "PATCH")
             => Bump(released[i], released[j]) = "PATCH"
  BY ChainsRestated
<1>2. \A j \in 1..n + 1 : \A i \in 1..j - 1 :
        /\ (\A k \in i..j - 1 : bumps'[k] # "MAJOR")
             => Bump(released'[i], released'[j]) # "MAJOR"
        /\ (\A k \in i..j - 1 : bumps'[k] = "PATCH")
             => Bump(released'[i], released'[j]) = "PATCH"
  <2> SUFFICES ASSUME NEW j \in 1..n + 1, NEW i \in 1..j - 1
      PROVE /\ (\A k \in i..j - 1 : bumps'[k] # "MAJOR")
                 => Bump(released'[i], released'[j]) # "MAJOR"
            /\ (\A k \in i..j - 1 : bumps'[k] = "PATCH")
                 => Bump(released'[i], released'[j]) = "PATCH"
    OBVIOUS
  <2>0. n \in Nat \ {0} BY PublishAppends
  <2>1. CASE j # n + 1
    <3>1. j \in 1..n /\ i \in 1..n /\ \A k \in i..j - 1 : k \in 1..n - 1
      BY <2>0, <2>1
    <3>2. /\ released'[i] = released[i] /\ released'[j] = released[j]
          /\ \A k \in i..j - 1 : bumps'[k] = bumps[k]
      BY <3>1, PublishAppends
    <3> QED BY <1>1, <3>1, <3>2
  <2>2. CASE j = n + 1 /\ i = n
    <3>1. n \in i..j - 1 BY <2>0, <2>2
    <3>2. /\ released'[i] = released[n] /\ released'[j] = c
          /\ bumps'[n] = Bump(released[n], c)
      BY <2>0, <2>2, PublishAppends
    <3> QED BY <2>2, <3>1, <3>2
  <2>3. CASE j = n + 1 /\ i # n
    <3>1. i \in 1..n - 1 /\ n \in 1..n /\ n \in i..j - 1
            /\ \A k \in i..n - 1 : k \in 1..n - 1 /\ k \in i..j - 1
      BY <2>0, <2>3
    <3>2. /\ released'[i] = released[i] /\ released'[j] = c
          /\ bumps'[n] = Bump(released[n], c)
          /\ \A k \in i..n - 1 : bumps'[k] = bumps[k]
      BY <2>0, <2>3, <3>1, PublishAppends
    <3>3. /\ (\A k \in i..n - 1 : bumps[k] # "MAJOR")
               => Bump(released[i], released[n]) # "MAJOR"
          /\ (\A k \in i..n - 1 : bumps[k] = "PATCH")
               => Bump(released[i], released[n]) = "PATCH"
      BY <1>1, <3>1
    <3>4. released[i] \in Contract /\ released[n] \in Contract /\ c \in Contract
      <4>1. i \in 1..Len(released) BY <2>0, <3>1
      <4> QED BY <3>1, <4>1, VersionsAreContracts, RevisionAssumption
    <3>5. /\ Bump(released[i], released[n]) # "MAJOR" /\ Bump(released[n], c) # "MAJOR"
               => Bump(released[i], c) # "MAJOR"
          /\ Bump(released[i], released[n]) = "PATCH" /\ Bump(released[n], c) = "PATCH"
               => Bump(released[i], c) = "PATCH"
      BY <3>4, BumpsCompose
    <3>6. ASSUME \A k \in i..j - 1 : bumps'[k] # "MAJOR"
          PROVE  Bump(released'[i], released'[j]) # "MAJOR"
      BY <3>1, <3>2, <3>3, <3>5, <3>6
    <3>7. ASSUME \A k \in i..j - 1 : bumps'[k] = "PATCH"
          PROVE  Bump(released'[i], released'[j]) = "PATCH"
      BY <3>1, <3>2, <3>3, <3>5, <3>7
    <3> QED BY <3>6, <3>7
  <2> QED BY <2>1, <2>2, <2>3
<1>3. Len(released') = n + 1 BY PublishAppends
<1>4. (\A j \in 1..Len(released) : \A i \in 1..j - 1 :
               /\ (\A k \in i..j - 1 : bumps[k] # "MAJOR")
                    => Bump(released[i], released[j]) # "MAJOR"
               /\ (\A k \in i..j - 1 : bumps[k] = "PATCH")
                    => Bump(released[i], released[j]) = "PATCH")'
  BY <1>2, <1>3
<1>5. (TypeOK => (ChainsNeverAddUp <=>
             \A j \in 1..Len(released) : \A i \in 1..j - 1 :
               /\ (\A k \in i..j - 1 : bumps[k] # "MAJOR")
                    => Bump(released[i], released[j]) # "MAJOR"
               /\ (\A k \in i..j - 1 : bumps[k] = "PATCH")
                    => Bump(released[i], released[j]) = "PATCH"))'
  BY ChainsRestated, PTL
<1> QED BY <1>4, <1>5

LEMMA PublishKeepsTheRest ==
    ASSUME IInv, NEW c \in Versions, Publish(c)
    PROVE  Labelled' /\ UpgradesKeepResolution'
<1> USE DEF IInv
<1>1. Labelled'
  <2> SUFFICES ASSUME NEW k \in 1..Len(bumps')
      PROVE bumps'[k] = Bump(released'[k], released'[k + 1])
    BY DEF Labelled
  <2>1. CASE k = Len(released) BY <2>1, PublishAppends
  <2>2. CASE k # Len(released)
    <3>1. k \in 1..Len(released) - 1 /\ k + 1 \in 1..Len(released)
            /\ k \in 1..Len(released) /\ k \in 1..Len(bumps)
      BY <2>2, PublishAppends DEF TypeOK
    <3> QED BY <3>1, PublishAppends DEF Labelled
  <2> QED BY <2>1, <2>2
<1>2. UpgradesKeepResolution'
  <2>1. consumer' = consumer BY DEF Publish
  <2>2. consumer # NoConsumer => released'[consumer.version] = released[consumer.version]
    BY PublishAppends DEF TypeOK
  <2> QED BY <2>1, <2>2 DEF UpgradesKeepResolution
<1> QED BY <1>1, <1>2

----------------------------------------------------------------------------
(* The consumer.                                                            *)

(* resolve_tier returns a tier that is there.                               *)
LEMMA ResolvedTierExists ==
    ASSUME NEW tiers \in Seq(NamedTier), NEW caps, ResolveTier(tiers, caps) # NoTier
    PROVE  ResolveTier(tiers, caps) \in 1..Len(tiers)
<1> DEFINE M == Matching(tiers, caps)
<1>1. M # {} BY DEF ResolveTier, NoTier
<1>2. M \in SUBSET Nat /\ M \subseteq 1..Len(tiers) BY DEF Matching
<1>3. \E i \in M : \A j \in M : <<j, i>> \notin OpToRel(<, Nat)
  BY <1>1, <1>2, NatLessThanWellFounded, WFMin
<1>4. PICK i \in M : \A j \in M : <<j, i>> \notin OpToRel(<, Nat)
  BY <1>3
<1>5. \A j \in M : i <= j
  <2> SUFFICES ASSUME NEW j \in M PROVE i <= j
    OBVIOUS
  <2>1. ~ (j < i) BY <1>2, <1>4 DEF OpToRel
  <2> QED BY <1>2, <2>1
<1>6. \E m \in M : \A j \in M : m <= j BY <1>5
<1>7. ResolveTier(tiers, caps) = CHOOSE m \in M : \A j \in M : m <= j
  BY <1>1 DEF ResolveTier
<1>8. ResolveTier(tiers, caps) \in M BY <1>6, <1>7
<1> QED BY <1>2, <1>8

LEMMA BindKeepsInv ==
    ASSUME IInv, NEW caps \in SUBSET Capabilities, Bind(caps)
    PROVE  IInv'
<1> DEFINE i == ResolveTier(Latest.tiers, caps)
           name == IF i = NoTier THEN {} ELSE {Latest.tiers[i].name}
<1>1. Len(released) \in 1..Len(released) BY DEF IInv, TypeOK
<1>2. Latest \in Contract BY <1>1, VersionsAreContracts DEF IInv, Latest
<1>3. Latest.tiers \in Seq(NamedTier) /\ Latest.required \in SUBSET Capabilities
  BY <1>2 DEF Contract
<1>4. name \subseteq Names(Latest) /\ name \in {{}} \cup {{n} : n \in TierNames}
  <2>1. CASE i = NoTier BY <2>1
  <2>2. CASE i # NoTier
    <3>1. i \in 1..Len(Latest.tiers) BY <1>3, <2>2, ResolvedTierExists
    <3>2. Latest.tiers[i] \in NamedTier BY <1>3, <3>1
    <3>3. Latest.tiers[i].name \in TierNames BY <3>2 DEF NamedTier
    <3> HIDE DEF i
    <3> QED BY <2>2, <3>1, <3>3 DEF Names
  <2> QED BY <2>1, <2>2
<1>5. consumer' = [version |-> Len(released), caps |-> caps, tier |-> name,
                   unresolved |-> Latest.required \ caps]
  BY DEF Bind
<1>6. released' = released /\ bumps' = bumps BY DEF Bind
<1> HIDE DEF name
<1>7. TypeOK' BY <1>1, <1>3, <1>4, <1>5, <1>6 DEF IInv, TypeOK
<1>8. Labelled' /\ ChainsNeverAddUp'
  BY <1>6, HistoryKept DEF IInv
<1>9. UpgradesKeepResolution'
  BY <1>4, <1>5, <1>6 DEF UpgradesKeepResolution, Latest
<1> QED BY <1>7, <1>8, <1>9 DEF IInv

(* Following the history is harmless: nothing on the way was MAJOR, hence   *)
(* neither is the diff of the ends.                                         *)
LEMMA UpgradeKeepsInv ==
    ASSUME IInv, Upgrade
    PROVE  IInv'
<1> DEFINE v == consumer.version
           n == Len(released)
<1>1. /\ v \in 1..n - 1 /\ n \in 1..n /\ v \in 1..n
      /\ consumer \in [version : 1..n, caps : SUBSET Capabilities,
            tier : {{}} \cup {{t} : t \in TierNames}, unresolved : SUBSET Capabilities]
  BY DEF IInv, TypeOK, Upgrade
<1>2. Bump(released[v], released[n]) # "MAJOR"
  <2>1. \A k \in v..n - 1 : bumps[k] # "MAJOR" BY DEF IInv, TypeOK, Upgrade
  <2> QED BY <1>1, <2>1, ChainsRestated DEF IInv
<1>3. released[v] \in Contract /\ released[n] \in Contract
  BY <1>1, VersionsAreContracts DEF IInv
<1>4. Harmless(released[v], released[n]) BY <1>2, <1>3, BreakingIsHarm DEF Bump
<1>5. /\ consumer' = [consumer EXCEPT !.version = n]
      /\ released' = released /\ bumps' = bumps
  BY DEF Upgrade
<1>6. TypeOK' BY <1>1, <1>5 DEF IInv, TypeOK
<1>7. Labelled' /\ ChainsNeverAddUp'
  BY <1>5, HistoryKept DEF IInv
<1>8. UpgradesKeepResolution'
  <2>1. /\ consumer'.version = n /\ consumer'.caps = consumer.caps
        /\ consumer'.tier = consumer.tier /\ consumer'.unresolved = consumer.unresolved
    BY <1>1, <1>5
  <2>2. /\ released[v].required \ consumer.caps = consumer.unresolved
        /\ consumer.tier \subseteq Names(released[v])
    BY DEF IInv, UpgradesKeepResolution, Upgrade
  <2> QED BY <1>4, <1>5, <2>1, <2>2 DEF Harmless, UpgradesKeepResolution
<1> QED BY <1>6, <1>7, <1>8 DEF IInv

----------------------------------------------------------------------------
(* The inductive invariant, and what it says.                               *)
THEOREM Invariance == Spec => []IInv
<1>1. Init => IInv
  <2> SUFFICES ASSUME Init PROVE IInv
    OBVIOUS
  <2>1. PICK c \in Versions : released = <<c>> BY DEF Init
  <2>2. Len(released) = 1 /\ bumps = <<>> /\ consumer = NoConsumer
    BY <2>1 DEF Init
  <2>3. TypeOK BY <2>1, <2>2, RevisionAssumption DEF TypeOK
  <2> QED BY <2>2, <2>3 DEF IInv, Labelled, ChainsNeverAddUp, UpgradesKeepResolution
<1>2. IInv /\ [Next]_vars => IInv'
  <2> SUFFICES ASSUME IInv, [Next]_vars PROVE IInv'
    OBVIOUS
  <2>1. CASE \E c \in Versions : Publish(c)
    <3>1. PICK c \in Versions : Publish(c) BY <2>1
    <3>2. TypeOK' BY <3>1, PublishKeepsTypes DEF IInv
    <3>3. ChainsNeverAddUp' BY <3>1, <3>2, PublishKeepsChains DEF IInv
    <3> QED BY <3>1, <3>2, <3>3, PublishKeepsTheRest DEF IInv
  <2>2. CASE \E caps \in SUBSET Capabilities : Bind(caps)
    BY <2>2, BindKeepsInv
  <2>3. CASE Upgrade
    BY <2>3, UpgradeKeepsInv
  <2>4. CASE UNCHANGED vars
    <3>1. Labelled' /\ ChainsNeverAddUp' BY <2>4, HistoryKept DEF IInv, vars
    <3> QED BY <2>4, <3>1 DEF IInv, TypeOK, UpgradesKeepResolution, vars
  <2> QED BY <2>1, <2>2, <2>3, <2>4 DEF Next
<1> QED BY <1>1, <1>2, PTL DEF Spec

(* The history and the consumer keep their type (SkillRevision.TypeOK).     *)
THEOREM TypeCorrect == Spec => []TypeOK
<1>1. IInv => TypeOK BY DEF IInv
<1> QED BY <1>1, Invariance, PTL

(* However long the history, no break is hidden by intermediate versions    *)
(* (semantic_diff).                                                         *)
THEOREM ChainsAlwaysCompose == Spec => []ChainsNeverAddUp
<1>1. IInv => ChainsNeverAddUp BY DEF IInv
<1> QED BY <1>1, Invariance, PTL

(* A consumer who follows MINOR and PATCH diffs never loses what bind       *)
(* reported (semantic_diff, api.bind).                                      *)
THEOREM UpgradesAlwaysKeepResolution == Spec => []UpgradesKeepResolution
<1>1. IInv => UpgradesKeepResolution BY DEF IInv
<1> QED BY <1>1, Invariance, PTL
============================================================================
