-------------------------- MODULE SkillValidation --------------------------
(***************************************************************************)
(* `sabi validate`: validate_skill climbs from P0 to P3 over five files of *)
(* one skill directory and then checks (or, for a library caller, writes)  *)
(* skill.lock.  It reads the files one after the other, SKILL.md twice, so *)
(* the author can change any of them between two reads.  The lock part is  *)
(* check_lock of SkillLock, run by the shell's own process.                *)
(***************************************************************************)
EXTENDS SkillLock, AgentSkills, Degradation

CONSTANTS
    Shell,                             \* the process that validates
    SkillMd, Abi, Effects, Degrade,    \* files of the contract ...
    Schemas,                           \* ... and those abi.inputs/outputs name
    Broken,      \* contents that are not a YAML mapping or a JSON object
    Faulty,      \* contents that are, and break a rule about that file alone
    ManifestOf,  \* a content of SKILL.md, as the P0 checks see it
    RequiredOf,  \* the required capabilities of a content of skill.abi.yaml
    TiersOf,     \* the tiers of a content of degradation.yaml
    Position     \* the place of a path in the order of LOCKED_GLOBS

ASSUME ValidationAssumption ==
    /\ Procs = {Shell}
    /\ {SkillMd, Abi, Effects, Degrade} \cup Schemas \subseteq Locked
    /\ Broken \cup Faulty \subseteq Contents
    /\ ManifestOf \in [Contents -> Manifests]
    /\ RequiredOf \in [Contents -> SUBSET Capabilities]
    /\ TiersOf \in [Contents -> Seq(Tier)]
    /\ Position \in [Locked -> Nat]

VARIABLES
    vpc,        \* where validate_skill is, or how it ended
    findings,   \* the levels it has findings about
    level,      \* the highest level proven so far
    abi,        \* the skill.abi.yaml it parsed, NoFile before that
    unchecked,  \* the schema files it has still to check
    relock,     \* called with write_lock=True
    vseen       \* history: what each file held since the validation began

validateVars == <<vpc, findings, level, abi, unchecked, relock, vseen>>

Levels == {"INVALID", "P0", "P1", "P2", "P3"}
(* Returned with a level, or an exception (exit code 1 or 2).               *)
ValidateEnded == {"returned", "raised"}
ValidateRunning == {"look manifest", "manifest", "body", "look abi", "abi", "schemas",
                    "degradation", "check lock", "lock"}
Validating == vpc \in ValidateRunning

ValidateInit ==
    /\ vpc = "idle"
    /\ findings = {}
    /\ level = "INVALID"
    /\ abi = NoFile
    /\ unchecked = {}
    /\ relock = FALSE
    /\ vseen = [f \in Locked |-> {files[f]}]

(* The author's edit enters the history, also after the verdict.            *)
ValidationNotices(f, c) ==
    vseen' = IF Validating \/ vpc = "returned"
             THEN [vseen EXCEPT ![f] = @ \cup {c}] ELSE vseen

StartValidate(r) ==
    /\ vpc = "idle"
    /\ vpc' = "look manifest"
    /\ relock' = r
    /\ vseen' = [f \in Locked |-> {files[f]}]
    /\ UNCHANGED <<vars, findings, level, abi, unchecked>>

----------------------------------------------------------------------------
(* One read, and what follows from it.                                      *)

Go(here, next, found) ==
    /\ vpc = here
    /\ vpc' = next
    /\ findings' = findings \cup found
    /\ UNCHANGED <<vars, relock, vseen>>

(* A step that does not look at the level and keeps what was parsed.        *)
Pass(here, next, found) ==
    Go(here, next, found) /\ UNCHANGED <<level, abi, unchecked>>

(* Mutated: a level is gated on its own findings only.                      *)
ProvenByOwnFindings(l) == level' = IF l \notin findings THEN l ELSE level

(* `if not errors: level = ...`, at the end of a level.                     *)
Proven(l) == level' = IF findings = {} THEN l ELSE level

Found(l, cond) == IF cond THEN {l} ELSE {}

LookManifest ==
    IF files[SkillMd] = NoFile
    THEN Pass("look manifest", "returned", {"P0"})
    ELSE Pass("look manifest", "manifest", {})

(* Mutated: load_manifest's ValidationError is not caught.                  *)
ReadManifestUncaught ==
    LET md == files[SkillMd] IN
    IF md = NoFile \/ ~ManifestOf[md].parses THEN Pass("manifest", "raised", {})
    ELSE Pass("manifest", "body",
              Found("P0", FrontmatterFindings(ManifestOf[md].flaws) # {}))

(* SKILL.md can vanish after is_file(): read_text raises.                   *)
ReadManifest ==
    LET md == files[SkillMd] IN
    IF md = NoFile THEN Pass("manifest", "raised", {})
    ELSE IF ~ManifestOf[md].parses THEN Pass("manifest", "returned", {"P0"})
    ELSE Pass("manifest", "body",
              Found("P0", FrontmatterFindings(ManifestOf[md].flaws) # {}))

(* The second read of SKILL.md, by then perhaps another version.            *)
ReadBody ==
    LET md == files[SkillMd] IN
    IF md = NoFile THEN Pass("body", "raised", {})
    ELSE Pass("body", "look abi", Found("P0", ~ManifestOf[md].body))

LookAbi ==
    /\ IF files[Abi] = NoFile
       THEN Go("look abi", "returned", {"P1"})
       ELSE Go("look abi", "abi", {})
    /\ Proven("P0")
    /\ UNCHANGED <<abi, unchecked>>

(* Mutated: a file that does not parse is one more finding.                 *)
ReadAbiTolerant ==
    /\ Go("abi", "schemas", Found("P1", files[Abi] \in Faulty \cup Broken))
    /\ abi' = files[Abi]
    /\ unchecked' = Schemas
    /\ UNCHANGED level

(* parse_abi_yaml raises when the file is not a mapping or has vanished.    *)
ReadAbi ==
    IF files[Abi] \in Broken \cup {NoFile}
    THEN Pass("abi", "raised", {})
    ELSE /\ Go("abi", "schemas", Found("P1", files[Abi] \in Faulty))
         /\ abi' = files[Abi]
         /\ unchecked' = Schemas
         /\ UNCHANGED level

CheckSchema(f) ==
    /\ f \in unchecked
    /\ Go("schemas", "schemas", Found("P1", files[f] \in Broken \cup Faulty \cup {NoFile}))
    /\ unchecked' = unchecked \ {f}
    /\ UNCHANGED <<level, abi>>

(* A missing or unreadable effects.yaml ends the validation; one that       *)
(* breaks its rules is a finding.                                           *)
ReadEffects ==
    /\ unchecked = {}
    /\ IF files[Effects] \in Broken \cup {NoFile}
       THEN Go("schemas", "returned", {"P2"})
       ELSE Go("schemas", "degradation", Found("P2", files[Effects] \in Faulty))
    /\ Proven("P1")
    /\ UNCHANGED <<abi, unchecked>>

(* The tiers are compared with the ABI that was parsed at P1.               *)
ReadDegradation ==
    LET deg == files[Degrade] IN
    /\ Proven("P2")
    /\ IF deg \in Broken \cup {NoFile}
       THEN Go("degradation", "returned", {"P3"})
       ELSE LET errors == DegradationErrors(TiersOf[deg], RequiredOf[abi]) IN
            Go("degradation", IF "too few" \in errors THEN "returned" ELSE "check lock",
               Found("P3", errors # {} \/ deg \in Faulty))
    /\ UNCHANGED <<abi, unchecked>>

(* check_lock, in SkillLock.                                                *)
StartLockCheck ==
    /\ vpc = "check lock"
    /\ vpc' = "lock"
    /\ IF relock THEN StartLock(Shell)
       ELSE StartVerify(Shell, "check_lock") \/ RejectUnreadable(Shell, "check_lock")
    /\ UNCHANGED <<findings, level, abi, unchecked, relock, vseen>>

(* The scan takes the paths in the order of LOCKED_GLOBS.                   *)
TakesFirst(before, after) ==
    \A f \in before \ after, g \in after : Position[f] <= Position[g]

LockStep ==
    /\ vpc = "lock"
    /\ Step(Shell)
    /\ TakesFirst(unlisted[Shell], unlisted'[Shell])
    /\ TakesFirst(listed[Shell], listed'[Shell])
    /\ UNCHANGED validateVars

(* Writing the lock adds its own message to the findings, so a validation   *)
(* that relocks never proves P3.                                            *)
LockFindings == Found("LOCK", pc[Shell] = "rejected" \/ relock)

(* Mutated: P3 by the outcome of the lock check alone.                      *)
EndValidationByLock ==
    /\ ~Active(Shell)
    /\ IF pc[Shell] = "error" THEN Go("lock", "raised", {}) ELSE Go("lock", "returned", LockFindings)
    /\ level' = IF pc[Shell] = "ok" THEN "P3" ELSE level
    /\ UNCHANGED <<abi, unchecked>>

EndValidation ==
    /\ ~Active(Shell)
    /\ IF pc[Shell] = "error" THEN Go("lock", "raised", {}) ELSE Go("lock", "returned", LockFindings)
    /\ level' = IF pc[Shell] = "ok" /\ findings \cup LockFindings = {} THEN "P3" ELSE level
    /\ UNCHANGED <<abi, unchecked>>

(* The shell is killed while it validates.                                  *)
KillValidation ==
    /\ Validating
    /\ vpc' = "killed"
    /\ IF Active(Shell) THEN Crash(Shell) ELSE UNCHANGED vars
    /\ UNCHANGED <<findings, level, abi, unchecked, relock, vseen>>

ValidateStep ==
    \/ LookManifest
    \/ ReadManifest
    \/ ReadBody
    \/ LookAbi
    \/ ReadAbi
    \/ \E f \in Schemas : CheckSchema(f)
    \/ ReadEffects
    \/ ReadDegradation
    \/ StartLockCheck
    \/ LockStep
    \/ EndValidation

----------------------------------------------------------------------------
(* What must hold.                                                          *)

ValidationTypeOK ==
    /\ vpc \in {"idle", "killed"} \cup ValidateRunning \cup ValidateEnded
    /\ findings \subseteq {"P0", "P1", "P2", "P3", "LOCK"}
    /\ level \in Levels
    /\ abi \in (Contents \ Broken) \cup {NoFile}
    /\ unchecked \subseteq Schemas
    /\ relock \in BOOLEAN
    /\ vseen \in [Locked -> SUBSET Bytes]

(* A frontmatter as the Agent Skills specification wants it, but for what   *)
(* no rule of the code notices.                                             *)
FrontConforms(c) == ManifestOf[c].parses /\ ManifestOf[c].flaws \subseteq Unnoticed

(* A content that breaks no rule about its file alone.                      *)
Sound(c) == c \in Contents \ (Broken \cup Faulty)

(* What P3 promises of the tiers: a first one that covers the required      *)
(* capabilities, a last one that always matches, and before that only       *)
(* capabilities that have a meaning.                                        *)
Covers(tiers, required) ==
    /\ Len(tiers) >= 2
    /\ required \subseteq tiers[1].requires
    /\ tiers[Len(tiers)].terminal
    /\ \A i \in 1..Len(tiers) - 1 : tiers[i].requires \subseteq Vocabulary

AtLeast(l) ==
    level \in CASE l = "P0" -> {"P0", "P1", "P2", "P3"}
                [] l = "P1" -> {"P1", "P2", "P3"}
                [] l = "P2" -> {"P2", "P3"}
                [] l = "P3" -> {"P3"}

(* A level is claimed only on what the files held while validate_skill ran: *)
(* a frontmatter with no flaw but a final newline and a body, an ABI and    *)
(* schemas that keep their rules, effects that do, and at P3 tiers that     *)
(* cover an ABI seen in this very run, under a lock each file agreed with   *)
(* (validate_skill).  It does not say that these were on disk together.     *)
LevelProven ==
    vpc = "returned" =>
      /\ AtLeast("P0") =>
           /\ \E c \in vseen[SkillMd] \ {NoFile} : FrontConforms(c)
           /\ \E c \in vseen[SkillMd] \ {NoFile} : ManifestOf[c].body
      /\ AtLeast("P1") =>
           \A f \in Schemas \cup {Abi} : \E c \in vseen[f] : Sound(c)
      /\ AtLeast("P2") => \E c \in vseen[Effects] : Sound(c)
      /\ AtLeast("P3") =>
           /\ \E a \in vseen[Abi], d \in vseen[Degrade] :
                Sound(a) /\ Sound(d) /\ Covers(TiersOf[d], RequiredOf[a])
           /\ pinned[Shell] # NoTable
           /\ Witnessed(Shell, pinned[Shell])

(* The level a directory deserves, computed from its files alone.           *)
DeservedLevel(t, pins) ==
    LET p0 == /\ t[SkillMd] # NoFile
              /\ FrontConforms(t[SkillMd]) /\ ManifestOf[t[SkillMd]].body
        p1 == \A f \in Schemas \cup {Abi} : Sound(t[f])
        p2 == Sound(t[Effects])
        p3 == Sound(t[Degrade]) /\ Covers(TiersOf[t[Degrade]], RequiredOf[t[Abi]])
    IN CASE ~p0 -> "INVALID"
         [] p0 /\ ~p1 -> "P0"
         [] p0 /\ p1 /\ ~p2 -> "P1"
         [] p0 /\ p1 /\ p2 /\ ~(p3 /\ pins = AsTable(t)) -> "P2"
         [] OTHER -> "P3"

(* Nobody touched the directory since the validation began: the level is    *)
(* the one the directory deserves, neither more nor less, whichever checks  *)
(* were cut short by an early return (validate_skill).  The frontmatter     *)
(* rules of the three modules leave one gap, which the directory is not     *)
(* charged with: a name with a final newline breaks the rule parser.py:5    *)
(* states and passes (parser.py:89, validator.py:74, schema.py:101).        *)
HighestLevel ==
    vpc = "returned" /\ ~relock /\ (\A f \in Locked : vseen[f] = {files[f]})
        => level = DeservedLevel(files, pinned[Shell])

(* validate_skill ends with an exception, and loses the findings it had,    *)
(* only if a file disappeared while it ran or if the skill.abi.yaml it met  *)
(* does not parse: whatever else is missing, broken or replaced, a lock     *)
(* included, ends in findings and a level (validate_skill, check_lock).     *)
ExceptionJustified ==
    vpc = "raised"
        => \/ \E f \in Locked : NoFile \in vseen[f] /\ vseen[f] # {NoFile}
           \/ vseen[Abi] \cap Broken # {}
============================================================================
