# skill-abi in TLA+

Skill ABI (`sabi`) turns a directory with a `SKILL.md` into a *skill with a
contract*: a manifest of required capabilities (`skill.abi.yaml`), degradation
tiers, effect envelopes, invariants and runtime bindings. Its commands validate
the contract, pin it (`skill.lock`), evaluate it into a certificate
(`attestations/portability.json`), verify both, and bind the skill to a runtime.

The reference implementation is a command line program without a database, a
server or a lock. Its state is a directory that several commands and several
people share. So the questions that are hard to answer with tests are of four
kinds, and they are what these modules are about:

1. A command reads files one after the other while somebody edits them. What
   does its verdict say about the directory, which it never saw at one instant?
2. `write_text` truncates before it writes and a process can be killed at any
   point. What is on disk then, and what do the other commands make of it?
3. A check is repeated in two places (`check_lock` and `verify_lock`,
   `build_certificate` and `verify_certificate`, validator and resolver). Do the
   two agree about every input?
4. Small algorithms (first matching tier, envelope containment) are claimed to
   compute something else (a maximum, a subset relation) and are used in chains.
   Does the claim hold, and does it compose?

Paths below are relative to the repository; the Python package is `src/sabi/`.

## 1. Inventory

| component | code | state it keeps | operations |
|---|---|---|---|
| lock | `src/sabi/lockfile.py`, `cmd_lock` | `skill.lock` | `locked_files`, `compute_digests`, `write_lock`, `check_lock` |
| verify-lock | `api.verify_lock`, `cmd_verify_lock` | none | compare digests with the pinned table, reject ephemeral pins |
| certify | `certify.py`, `cmd_certify`, `api.certify` | `attestations/portability.json` | `evaluate_invariants` for each binding, `build_certificate`, write |
| verify-certificate | `api.verify_certificate` | none | class rules, receipts and their evidence, three digests |
| receipts, classes | `certify.py` (`classify_evidence`, `make_run_receipt`) | receipts, evidence files | class from the static result, receipts and signature |
| release | `cmd_lock`, `cmd_certify`, `cmd_verify_lock`, `cmd_verify_certificate` one after the other | the exit codes | run each if the one before it exited with 0 |
| tiers | `resolver.py`, P3 of `validator.py` | none | `resolve_tier`, `unresolved_capabilities`, tier checks |
| bind | `api.bind`, `cmd_bind` | none (prints a record) | read manifest, read tiers, build the record, choose the exit code |
| effects | `effects.py` | none | `validate_envelope`, `envelope_contains`, `check_observed` |
| validator ladder | `validator.py`, `parser.py`, `agentskills.py` | none | six files read in turn, levels P0 to P3 with early returns, then the lock check |
| semantic diff | `diff.py` | none | MAJOR / MINOR / PATCH of two contracts |
| export | `api.export_requirement_object`, `cmd_export` | `requirement-object.json` | four files read, two of them a second time for a digest, one object written |
| schema validator | `schema.py` | none | recursive check of a JSON document |
| tables | `vocab.py`, `errors.py`, `canon.py`, `__init__.py` | none | capability names, exit codes, canonical JSON |
| scripts, data | `scripts/`, workflows, `adapters/`, `conformance/` | none | repository hygiene, inputs and vectors |

How they interact. Everything goes through the skill directory. `lock` digests
the contract files and replaces `skill.lock`; `verify-lock` and `validate` read
the table and then digest the same files; `certify` refuses to start without
`skill.lock`, its invariant `lock-covers-contract` reads it, and its digest goes
into the certificate next to two others; `verify-certificate` digests `SKILL.md`, `skill.abi.yaml` and
`skill.lock` and compares. `bind` reads the manifest and the tiers and trusts
what `validate` demanded of them. Nobody takes a file lock and no file is
replaced atomically.

What makes each component correct:

* lock and verify-lock: an accepted lock agrees with the directory; a rejection
  has a reason; an interrupted or overtaken `lock` never leaves a document that
  mixes two runs; the two checks agree; commands end while edits go on.
* certify and verify-certificate: the class follows from every case, and is true
  of a directory left alone; VALID is
  witnessed by what was on disk, INVALID by a change; a failed run leaves the
  old certificate alone; the classes one side gives are those the other accepts.
* release: what was judged, what was digested and what is pinned is one version.
* tiers and bind: a skill that passes P3 gets a tier on every runtime, the full
  tier means nothing is unresolved, more capabilities never hurt, the tier is
  the maximal one.
* effects: containment composes with observation along any chain of grants.
* validator: a level is claimed only on what the files held, never skips a lower
  level, and is the highest one an unchanged directory deserves; only a file that
  goes, or an unparsable ABI, costs the findings by an exception.
* diff: going through intermediate versions hides no break, and a consumer who
  follows what is not MAJOR keeps what bind told it.
* export: each field is what its file held during the export, and an exported
  object keeps what P3 promised of the contract.

`PROJECT.json` lists the hazards behind these at their lines, with the
properties that would notice each of them going wrong.

## 2. Modules

```
SkillTree ------ SkillLock ------ MCSkillLock, SkillLockProofs
    |             |  \
    |             |   (implements LockContract, abstract)
    |             |  \
    |             |   ReleasePipeline ------ MCReleasePipeline, ReleaseProofs
    |             |  /  (INSTANCE SkillCertify)
    +---------- SkillCertify ------ MCSkillCertify, SkillCertifyProofs
EvidenceClass --/ |
    \-------- EvidenceClaims ------ MCEvidenceClaims, EvidenceClaimsProofs
                  |
AgentSkills ---- SkillValidation ------ SkillSession -- MCSkillSession, SessionProofs
                 /  (EXTENDS SkillLock)    /  (INSTANCE SkillExport)
Degradation ----+        SkillExport -----/
    |\
    | \-- SkillBinding ------ MCSkillBinding, SkillBindingProofs
    |  \----- TierSelection (abstract; SkillBinding implements it)
    \---- SemanticDiff ------ SkillRevision ------ MCSkillRevision, SkillRevisionProofs

EffectEnvelope - EffectDelegation -- MCEffectDelegation, EffectDelegationProofs
```

**SkillTree** has the values: paths, contents, digest tables, what `skill.lock`
can hold and what a write over another document leaves (`Overwrite`), and the two
comparisons `CheckLockErrors` (`lockfile.check_lock`) and `VerifyLockErrors`
(`api.verify_lock`).

**SkillLock**: any number of processes run `lock`, `verify-lock` and the lock
check of `validate` over one directory. `List` is one look of `locked_files`,
`ReadFile` one `file_digest` (`ReadVanished` the exception when the file is gone),
`OpenLock` the truncation, `WriteLock` the write, `Compare` the verdict and exit
code. `WriteOrphan` is a write to a `skill.lock` whose name another process or the
author has since replaced or removed. `Edit` and `ReplaceLock` are the author,
`Crash` a kill; a kill in the middle of the write leaves nothing, part (`Torn`)
or all of the document. `seen` and `owner` are history variables.

**LockContract** is the same commands for someone who does not know how they read
the directory. A command takes one `Look` at each path, in any order; it may
`GiveUp` only at a path that is absent and that it has not looked at; a verifying
command accepts exactly when the table it read equals `AsTable` of what it saw
(`Judge`), a lock command publishes that document. There is no list, no second
look, one comparison instead of two, and no history. SkillLock implements it
(`ImplementsContract`) under the mapping `Saw`: a path counts as looked at when it
is settled, that is when the listing finds it absent or when its digest is taken.

**SkillCertify**: `cmd_certify` with each look and each read a step, and
`verify_certificate` next to it. For each binding `evaluate_invariants` reads
`invariants.yaml` and `effects.yaml` (`ReadInvariants`, `ReadEffects`) and then tries
the cases that the first lists. A case loads `degradation.yaml`, and the profile of
its `base_runtime`, anew (`TryCase`, `ReadOwn`, `JudgeCase`), so two cases can judge two
versions; `lock-covers-contract` looks for the lock, reads it and globs the schemas
(`LookForLock`, `ReadPins`, `ListSchemas`). `build_certificate` parses the ABI
(`ParseAbi`) and takes the three digests. Every file can go between a look and the
read (`CertifyError`, `VanishedDigest`). `basis`, `bound`, `covers`, `start`, `at` and
`vseen` are history. Which case looks at which files is the constants `Own`,
`Profiled` and `CoverCases`; whether it passes on them is the constant `Passes`.

**ReleasePipeline** runs the four commands in sequence. Their steps are those of
SkillLock and of an INSTANCE of SkillCertify over the same variables; the
module adds only the order of the commands and the author. `restored` is history:
the files somebody gave the pinned content back after `sabi lock`.

**EvidenceClass** is `classify_evidence` and the rules of `verify_certificate`
that need no file. **EvidenceClaims** is the life of a certificate with
receipts: handed in, built, possibly signed or edited, then verified receipt by
receipt while evidence files come and go.

**Degradation** is `resolve_tier`, `unresolved_capabilities` and the P3 checks.
**TierSelection** says what degradation-model.md promises, the maximum, without
saying how. **SkillBinding** is `bind` as three reads with edits between them: the
author rewrites the ABI and breaks or removes `degradation.yaml`.

**EffectEnvelope** is `effects.py` as operators, defaults and glob covering
included. **EffectDelegation** uses it: an envelope is declared, narrowed by
grants that each pass `envelope_contains` against the one before, and the
observation is checked only against the last. `clear` is history: no grant of the
chain compared two patterns that `_glob_covers` confuses (`Confused`).

**AgentSkills** is a frontmatter as the three sets of rules see it that judge it at
P0: `agentskills.py` on the normalized name, the frontmatter schema and
`parser.py` on the name as written, `validator.py` on the stripped one.
**SkillValidation** is `validate_skill`: one action for each read (`LookManifest`,
`ReadManifest`, `ReadBody`, `LookAbi`, `ReadAbi`, `CheckSchema`, `ReadEffects`,
`ReadDegradation`), each with its early return or exception and the
`if not errors: level = ...` that the code puts there (`Proven`). It ends in the
lock check, which is SkillLock's own, run by the shell's process in the order of
`LOCKED_GLOBS` (`TakesFirst`). `vseen` is history.

**SkillExport** is `export_requirement_object` field by field, a look and a read
each, and `cmd_export`'s truncation and write. **SkillSession** puts the two in
one shell, `sabi validate && sabi export`, while the author edits.

**SemanticDiff** is `semantic_diff` as sets of differences. **SkillRevision** is a
history of versions labelled by it, and a consumer who binds one version and
follows every upgrade that is not MAJOR without binding again.

Operators whose comment begins with *Mutated* are plausible slips in the code
they stand next to (a dropped loop, an off-by-one, a swapped order). No
specification uses them. `PROJECT.json` pairs each property of a passing run
with one: put in the place of the real definition, it makes the property fail.

### Abstractions

* A digest is the content it was taken of (SHA-256 is taken to be collision
  free), so canonical JSON, hashing and encoding disappear.
* Contents are a few values. For certify, a case passes or not on the contents it
  looks at (`Passes`); the expressions of `invariants.yaml` are not there.
* A glob and the `is_file` after it are one look at one path.
* A lock document fits one write. Two documents with the same keys have the
  same length, so a later write of an orphan or of a second process replaces
  the bytes; with other keys the result may be no JSON (`Torn`).
* A pattern is a path and one last wildcard (none, `*` or `**`); `?`, `[...]` and
  wildcards inside a path are left out and `${workspace}` is expanded.
* Amounts, counts and currencies are small values; a value that was not given is
  `Unset`. Values of a wrong type are left out.
* `bind` meets a `skill.abi.yaml` that parses, and a `degradation.yaml` that
  parses or not (`Unusable`). Tiers are named by their positions.
* The harness name of a receipt is not modelled: no code looks at it.
* A frontmatter that parses is the set of flaws it has; each rule is the set of
  flaws it notices. A file of the contract is unparsable (`Broken`), breaks a rule
  about itself alone (`Faulty`) or does not, apart from what the tiers and the
  required capabilities say. `check_directories`, documents of a wrong YAML type and
  the legacy export are left out.
* An effect of a contract is a bound and a note (the diff skips notes). Contracts
  name both schemas. A tier has a name here, because the diff compares names.
* `requirement-object.json` is missing, truncated or partly written (`Empty`), or an
  object.

## 3. What the runs check

| run | instance | states it must reach |
|---|---|---|
| LockTwoProcs | 2 processes, 1 locked file, 1 ephemeral path, 2 contents | two writers, overtaking, kills, checkouts of partial and ephemeral locks |
| LockTwoFiles | 1 process, 2 locked files | a scan spread over several edits, files that vanish |
| Certify | seven files, two bindings, three cases (on the profile given, on a profile it loads, on the lock), 2 contents and one that does not load, 2 changes | `degradation.yaml` changed between two cases and two bindings, a change before and after each digest, files and locks that go between a look and the read |
| Release | the same with one binding, two cases and a schema, 2 edits | an edit in each of the four commands, a content that goes and comes back |
| ReleaseVacuous | the same | counterexample, see 5 |
| EvidenceClaims | 2 runtimes, 2 evidence files, up to 2 receipts | every class on both sides of its threshold, two receipts of one runtime and of two |
| Session | five files, contents with each flaw, a tier outside the vocabulary, 2 edits, one validate and one export | every early return and exception, a lock check over edits, an export that mixes versions |
| Revision | the 60 contracts that differ from a base in at most two places, 3 versions | every label, a break spread over two versions, binds before and after it |
| Binding | all models of up to 3 tiers over {a, b, x}, vocabulary {a, b} | no tier, one tier, tiers in every order, an impossible requirement |
| BindingMaximal | the same | counterexample |
| Effects | single- and two-category envelopes, aliases, duplicates, unset and misplaced bounds, `c/**` next to `c/*`, the bare wildcards, money with and without an amount or a currency | chains of grants of any length over the listed envelopes, clear and confused |
| EffectsGlob | the same, with records that have an amount where they have a currency | counterexample |

What the passing runs show:

* **LockTwoProcs, LockTwoFiles.** `AcceptanceSound`: an accepted lock is witnessed
  path by path by what was on disk during the command (not at one instant: no
  such instant need exist). `RejectionJustified` and `ErrorOnlyOnRace`: rejections
  and exceptions have a cause. `LockPinsItsRun`: the last process that opened
  `skill.lock`, if nobody interfered, leaves one readable document of what it
  saw, whatever writers before it did. `CommandsEnd`, and `NeverStartsOver`, which
  says why: what a command has left to do (`Todo`) shrinks with each of its steps
  and nothing else adds to it. `ImplementsContract`: the commands refine
  LockContract, so neither the time between listing and reading nor the two
  further checks of `verify_lock` ever decide anything.
* **Certify.** `ClassReflectsJudgement`: STATIC_CONFORMANT means that each listed case
  of each binding passed on contents that were read, another class that one failed;
  on a directory that has not changed since certify started, the class is true.
  It does not mean that one version of the skill passes every case: TLC reaches a
  certificate where one case passed on the old `degradation.yaml` and another on
  the new one, which is what `certify.py:103` allows. `ValidWitnessed`,
  `InvalidJustified`, `OnlyCompleteRunsReplace`. `CertifyNeverStartsOver`: each step of
  `certify` leaves it a later phase, or fewer bindings, or fewer cases of the present
  one, or less of the present case, and nothing that changes around it, a new
  binding profile included, adds to that.
* **Release.** `ReleaseIsConsistent`: although `certify` judges first and digests
  last, and `verify-lock` looks later still, a release that goes through is
  about one version of the skill. The exception is a file that was changed after
  `sabi lock` and then given the pinned content back (`restored`): certify may have
  read or digested what it held between, and no later check can notice. The
  property excuses that file alone; without the exception TLC finds the ABA in
  two edits. `EvaluatedReleaseConforms`: each case passes on what the lock pins, with
  the same exception for the files the case looks at. So a release has none of the
  mixtures that certify alone allows between two cases: of a file that certify read
  in two versions one was not the pinned one, so either `verify-lock` objects or
  the file was given the pinned content back. `ReleaseEnds`.
* **EvidenceClaims.** `VerifiedEvidenceSeen`, `HonestClaimsVerify`. `ClassIsEarned` is
  what the rules of `certify.py:57-60` come to for a certificate that anybody may
  have edited: VALID is never ATTESTED or signed, and a runtime class has a receipt
  that names a runtime. The third of these rules, that a single runtime never
  yields MULTI_RUNTIME_TESTED, is not true of the code and not stated (section 5);
  the run has both kinds of pairs of receipts.
* **Session.** `LevelProven`: each level is witnessed by what the files held during
  this run, P3 with tiers that cover an ABI of the same run and a lock that each
  file agreed with. `HighestLevel`: on a directory nobody touches the level is
  exactly the one its files deserve, whichever checks an early return cut short.
  Between the three sets of frontmatter rules there is one gap, the final newline
  of a name (`Unnoticed`, section 5), which the files are not charged with; any other
  would make the level differ.
  `ObjectWitnessed` and `PublishedObjectConforms`: a skill that validates and is
  exported, with its ABI and tiers left alone meanwhile, is published with
  tiers that cover what it requires. `ExceptionJustified`: validate ends with an
  exception, and loses its findings, only if a file went away while it ran or the
  ABI does not parse.
* **Revision.** `ChainsNeverAddUp` and `UpgradesKeepResolution`: labels compose, and a
  consumer who follows them keeps its tier and has nothing new unresolved. Not
  true, and not claimed: that a new bind would give the same tier (a tier may
  change its requirements in a PATCH, see section 5).
* **Binding.** `AcceptedHasTier`, `FullTierIsFull` (an accepted record names the full
  tier only if nothing is unresolved, and does name it on a runtime that has the
  whole vocabulary), `MoreCapabilitiesNeverHurt`, and `ImplementsSelection`: for tiers declared as the
  document asks (`WellDeclared`), `bind` implements TierSelection.
* **Effects.** What `envelope_contains` promises is false (EffectsGlob), so the run
  says how far it is true. `AcceptedWithinDeclaredIfClear`: what is accepted at the
  end of a chain of grants is within the declared envelope, unless some grant
  compared patterns that are confused or the record has a currency and no amount
  (`Priced`; containment compares currencies only with an amount, observation
  always). `GrantsNeverWiden` is the same of one grant and of every effect.
  `AcceptedWithinReach` is what remains without any condition: categories, numbers,
  the currency of money that is spent, and paths below those that were declared.
  `NarrowingComposes`: at the end of a clear chain `envelope_contains` would accept
  what was granted directly against what was declared; with no grant at all, that
  an envelope that validates can be restated. This asks that the last envelope
  validates: a bound that does not belong to its category is compared with nothing
  (`Misplaced`), so through an envelope that does not validate the relation is not
  transitive. The envelopes in between need not validate.

Why the bounds are enough. *Lock*: each path is treated alone by every step, and
the properties speak of one path and one process at a time, so the interesting
cases are two writers of `skill.lock` (two processes) and a scan over two paths
(two files); two contents tell "the same" from "different". The proofs of
section 4 remove the bound for everything but the liveness properties. Commands and edits
are not counted: the state space is finite without a bound. *Certify, Release*:
two bindings and three cases, one of each kind that reads something, put a file
between two cases of one binding and between two bindings; a third adds
iterations of the same loops. `MaxChanges` and `MaxEdits` (2) allow a change before
and one after any read, and an ABA, which takes two. The lock in Certify is missing
or complete, in Release whatever `sabi lock` leaves. Which file changes how is in
the MC modules: in Certify `SKILL.md`, `degradation.yaml` and one profile are
rewritten, the other profile breaks, the ABI goes, `invariants.yaml` and
`effects.yaml` stay; in Release every file can go, and come back. The proofs let every
file change. *EvidenceClaims*: every threshold of `classify_evidence` is at 0, 1 or 2
receipts, and `MaxReceipts` is 2; two runtimes tell receipts of one from receipts
of two. *Binding*: degraded tiers need three tiers to be
out of order with a terminal one, and two capabilities to be incomparable; `x` is
outside the vocabulary. *Effects*: four segments make one-level and two-level
paths in two directories, two currencies and amounts 1 and 2 put a value on
either side of each bound. *Session*: one edit between two reads separates any two of them, two make a change
and its return; an edit before the first command is another initial directory
and is not repeated. *Revision*: every rule of the diff is about one field, so two
fields that differ show each pair of rules; a break that adds up needs three
versions. Symmetry is declared where nothing distinguishes the
values: processes in LockTwoProcs (no liveness property is checked there),
evidence files and runtimes in EvidenceClaims.

Deadlock is checked except in the two release runs, in Session and in Revision,
where a release or a session that has ended and an author without edits or
versions left really do stop.

Fairness. A command that has been started is not suspended for ever: weak
fairness on its own steps, per process in SkillLock, per command in SkillCertify,
on the one running shell in ReleasePipeline. Nobody has to start a command,
edit, remove evidence or kill anything. Weak fairness is what the operating
system's scheduler gives an ordinary process; nothing in the code waits for
another process, so the steps of a started command stay enabled until taken.
That the commands end rests on the code reading each listing once; this part is
`NeverStartsOver` for the lock commands, `CertifyNeverStartsOver` for `certify` and
`ReleaseNeverStartsOver` for a whole release, action properties that need no
fairness and are proved.

## 4. What is proved

`tlapm` checks the proofs for every value of the constants that satisfies their
assumptions: any number of processes, paths, contents, tiers, envelopes.

* **SkillLockProofs.** `TypeCorrect`, `AcceptanceIsSound`, `RejectionIsJustified`,
  `ErrorsAreRaces`, `LockPinsWhatItsRunSaw`. The properties speak of commands that have
  ended, so the invariant `IInv` has to say what a command knows on its way:
  `HistoryCurrent` (the disk as it is belongs to the history of everybody who is
  running), `ScanProgress` (each path is still to be looked for, or found once, or
  settled with a value it held), `HasTable` (of the commands that scan, exactly the
  verifiers have read a lock), `WriterReady` (whoever has truncated `skill.lock` has settled every path),
  `OwnedLock` (what the last undisturbed writer left) and `Verdicts` (what the ways
  to end promise). One lemma per action, one step per conjunct.
  `LockRefinement` (`Spec => ImplementsContract`) maps every step to a step of
  LockContract or to a stutter (`ListIsLook`: a path that is listed as a file is not
  looked at yet). Two pure lemmas carry the verdict: `ChecksEquivalent` (the two
  implementations of the check object to the same pairs) and `CleanIsDocument`
  (no objection if and only if the lock is the document `write_lock` would build
  from the same digests). `CommandsNeverStartOver` takes the set `Todo` as the
  measure: with finitely many paths a command takes at most two steps for each
  and two more, so all that `CommandsEnd` adds is that the steps are taken. Neither
  theorem uses fairness, so both hold wherever the lock commands are composed:
  `ReleaseKeepsContract` and `SessionKeepsContract`.
* **SkillBindingProofs.** `TypeCorrect`, `AcceptedAlwaysHasTier`,
  `FullTierAlwaysResolved` and `VocabularyAlwaysGetsFull` (together
  `FullTierIsAlwaysFull`), `CapabilitiesNeverHurt` and
  `Refinement` (`Spec => Selection!Spec`). The invariant adds to the types that the
  inputs read so far are well formed (`MidRun`) and that each record is explained
  by the inputs it carries (`Explained`). `ResolverTakesFirst`, `ResolverIsMonotone`
  and `FirstMatchIsBest` are about the resolver alone.
* **EffectDelegationProofs.** No theorem assumes anything of the envelopes and
  observations but their types (and one of them that there is a path at all). `WrongExactlyWhenConfused` says what `_glob_covers`
  gets wrong: where it says that `p` covers `q`, some value of `q` is missed by `p` if and
  only if the two are `Confused`; covering without confusion is transitive
  (`SoundTransitive`). From it `ContainmentIsSound` (one clear comparison: what stays
  within the inner envelope stays within the outer one) and `ContainmentKeepsReach`
  (any comparison keeps the reach). The chain needs an invariant about what is in
  force, not only about what was accepted: `ClearInsideDeclared` (after a clear
  chain, what the granted envelope lets through the declared one lets through) and
  `ReachInsideDeclared` (what is within reach of the one is within reach of the other,
  after any chain). It gives `AcceptedIsWithinDeclared` and `AcceptedIsWithinReach`;
  `GrantsNeverWidenAnything` is about single steps. `NarrowingAlwaysComposes` needs
  another one, `AllowedInsideDeclared`, which compares specifications and not
  observations, and only in the categories in which the granted envelope allows
  something: in the others a grant can carry bounds that are compared with nothing,
  which is why the property asks that the last envelope validates
  (`WellFormedAllows`). `RestatingNeverWidens` is the chain without grants.
* **SkillCertifyProofs.** `TypeCorrect`, `ClassAlwaysReflectsJudgement`,
  `ValidIsWitnessed`, `InvalidIsJustified`, `OnlyCompleteRunsEverReplace`. The
  invariant says what the draft is worth at each stage. `HeldInv`: what a case has in
  memory was read. `JudgedInv`: a failure stays, and without one the bindings before
  this one passed and so did the cases before this one (`Underway`). `QuietInv`: if
  nothing has changed since certify started, what it read is on disk.
  `DigestInv`: a digest is of a file that was there, and still of what is on disk
  unless something changed. `DocumentInv` says the same of the document and
  `VerifyInv` what a verifier knows: an objection has a cause, no objection means
  that the content was seen. What was read only grows (`Grows`), so a verdict once
  reached stays one; where it is a single version, it is the verdict on that
  version (`VerdictOnDisk`, `ClassOnDisk`). `CertifyAlwaysGoesForward` has a
  lexicographic measure: the phase, the bindings to come, the cases left, the place
  in the present one and the files it has still to load.
* **EvidenceClaimsProofs.** `TypeCorrect`, `VerifiedEvidenceWasSeen`,
  `HonestClaimsAlwaysVerify`, `ClassIsAlwaysEarned`. `Progress` says what the receipts
  looked at so far amount to, `HonestUnlessAmended` that the class of a document
  nobody edited is that of `classify_evidence`. `ClassIsAlwaysEarned` holds for
  documents that anybody edited, so it claims no more than the structural rules
  and the receipts give (`UnobjectedClass`): one receipt that names a runtime, not two.
* **SkillRevisionProofs.** `BumpsCompose` (differences that break nothing, and those
  that add nothing, are transitive), from it `ChainsAlwaysCompose` by induction over
  the history: the new diff extends the chain that ended in the version before.
  `UpgradesAlwaysKeepResolution` and `TypeCorrect` follow.

* **ReleaseProofs.** `ReleaseIsAlwaysConsistent` and `EvaluatedReleaseAlwaysConforms`, for
  any number of edits. A release is a behaviour of SkillLock (a step of certify
  stutters there), so `IInv` of SkillLockProofs holds in it and `Verdicts` says what
  `verify-lock` saw. That something was on disk *before* says nothing about the
  future, so the invariant is stated forwards and file by file: what certify judged
  or digested is the pinned content, or the file is `Lost`, or it was restored. A
  lost file that nobody restores never holds the pinned content again, and
  `verify-lock` could not have seen it there. There is no hypothesis on the edits.
  `ReleaseAlwaysGoesForward` (`ReleaseNeverStartsOver`, stated there) puts the measures
  of the commands together: every step of a release takes it to a later command,
  starts the present one or leaves less of it, and no edit takes it back. It needs
  the invariant, for a command to run at its own stage only, and one more conjunct,
  `Quiet`: nothing runs on in a release that is over.
* **SessionProofs.** `SessionTypeCorrect`, `LevelAlwaysProven`, `LevelIsHighest`,
  `ExceptionAlwaysJustified`, `ObjectAlwaysWitnessed`, `PublishedObjectAlwaysConforms`. A session is a behaviour of
  SkillLock as well, so the lock check of `validate` inherits `IInv`. `Knowledge` says
  what a validation without findings has seen at each stage, `Claimed` the same of
  the level it has given, `Exact` that on a directory nobody has touched its
  findings are empty exactly if the files deserve what has been checked so far.
  `LevelIsHighest` rests on three lemmas about the rules: `FrontmatterComplete` (the
  three sets of frontmatter rules together miss no flaw but the final newline), `DegradationComplete` (the
  tier checks find nothing exactly in tiers that cover the ABI) and
  `LockCheckExact` (on a quiet directory the lock check accepts exactly the lock of
  what the files hold).

Only model-checked: the liveness properties `CommandsEnd` and `ReleaseEnds`. The
prover does not reason about fairness. Of both liveness properties the part that is about the code is proved
(`CommandsNeverStartOver`, `ReleaseAlwaysGoesForward`); that a set which shrinks with
every step becomes empty is an induction on its size.

## 5. Where the code and its documents disagree

Three runs end in a counterexample, each to a sentence of a doc, a docstring or a
message of the program:

* **ReleaseVacuous**: without a binding profile `certify` evaluates nothing, and
  `failed == 0` makes the class STATIC_CONFORMANT (`certify.py:139`), against
  `spec/verification-model.md:169`.
* **BindingMaximal**: the first tier that matches is not the maximal one
  (`resolver.py:19`) for tiers that `validate` accepts, against `resolver.py:3`.
* **EffectsGlob**: `p/**` counts as covered by `p/*` (`effects.py:157`), against the
  docstring above it.

Seen while reading, and modelled as the code does it unless it says otherwise.

Certificates: an edited MULTI_RUNTIME_TESTED certificate is VALID with one receipt
(`api.py:254`), against the message on the next line; two receipts of one runtime
make one that is VALID without any edit, because `classify_evidence` counts
receipts (`certify.py:62`), against its docstring (`certify.py:59`: a single runtime
never yields MULTI_RUNTIME_TESTED) and `spec/verification-model.md:171`; two cases of
one certify can judge two versions of `degradation.yaml` or of a profile
(`certify.py:102-109`); `verify_certificate` rejects every signed
certificate (`api.py:258`) and does not look at the harness of a receipt
(`api.py:263`); failed static cases do not keep receipts from making the class
RUNTIME_TESTED; `verify_certificate` skips a digest whose file is missing, or, for
the lock, whose value is null; aliases of one category are counted apart
(`effects.py:381`); `envelope_contains` says that the currency must match
(`effects.py:284`) and compares it only when there is an amount (`effects.py:334`), so
an observation in another currency that costs nothing passes the grant and not
the declaration; an envelope that names a category twice is judged by the first
entry (`effects.py:188`). `ValidWitnessed`, `ClassIsEarned` and `HonestClaimsVerify`
are stated so as to be true of this behaviour.

Bind: `bind --json` ends with 2 because `unresolved` is never assigned
(`cli/sabi.py:227`), against the exit codes of `cli/sabi.py:5-12`.

Bind reads `skill.abi.yaml` before `degradation.yaml` (`api.py:159`), and `validate`
five files one after the other (`validator.py:50`): a record or a level can mix
versions that were never on disk together. Both are modelled and no property
excludes them.

Validate: a frontmatter name with a final newline, as a YAML block scalar gives it,
breaks the rule of `parser.py:5` and passes all of P0: `check_name` strips it
(`agentskills.py:47`), and the `$` of `NAME_RE` (`parser.py:22`, used in `parser.py:89` and
`validator.py:74`) and of the schema's pattern (`schema.py:101`) matches before it. A
frontmatter name that is lower-case outside ASCII or padded with blanks
passes `agentskills.check_name`, which follows the Agent Skills specification, and
fails `NAME_RE`, although the specification is said to win; an unreadable
`skill.abi.yaml` raises instead of being reported (`validator.py:104`);
`write_lock=True` never reaches P3, because the message about the written lock is
itself a finding (`lockfile.py:68`, docstring on line 62); the message "run with
--write-lock" names no flag (`lockfile.py:73`). The lock check comes last, so P3 can
rest on a lock that pins a version nobody judged.

Export: `skill.abi.yaml` is parsed (`api.py:43`) before it is digested (`api.py:55`), so
an object whose digests match the files can carry the capabilities of the version
before (`spec/cross-repo-contract.md`, rule 2); `version` is the one of the ABI
(`api.py:82`), the document says `metadata.version` of `SKILL.md`.

Diff: a tier that changes its requirements, its place or its `terminal`, and an
optional capability that goes, are a PATCH (`diff.py:70-77`,
`spec/versioning.md:172-173`); a schema reference that is dropped in one PATCH and
brought back changed in the next never shows (`diff.py:82`, not modelled).

## 6. What is not modelled, and why

* `api.certify` differs from `cmd_certify` in tolerating a missing
  `degradation.yaml`, asking for no lock and writing nothing; only `cmd_certify` is
  modelled.
* `check_directories`, the legacy shape of the export, the implementations that
  `bind` copies from the profile: data passed through.
* `schema.py`: a recursive function over arbitrary documents, with no state.
* `vocab.py`, `errors.py`, `canon.py`, `__init__.py`: tables and canonical JSON. They
  appear as constants, as outcomes, and as the identity of digest and content.
* `inspect`, `resolve`, `test` commands: print results of modelled parts.
* `scripts/`, workflows, adapters, schemas, conformance vectors: text searches and
  data. The vectors were used to read the semantics of tiers and effects.

## 7. Plan

Done: the modules of section 2 and the proofs of section 4. Every invariant and
action property of the runs is a theorem, and so are both refinements, except for
what section 4 lists. What is left, in this order:

1. The implementations in a binding record, and `api.certify`, which would let
   `SkillBinding` and `SkillCertify` cover their components in full.
2. `check_directories` and the legacy shape of the export, as further reads of
   `SkillValidation` and `SkillExport`.
3. A wildcard inside a path in `EffectEnvelope`, once the sets of paths that such
   patterns denote stay small enough for `GrantsNeverWiden`.
