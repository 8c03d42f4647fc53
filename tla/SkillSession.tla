---------------------------- MODULE SkillSession ----------------------------
(***************************************************************************)
(* `sabi validate && sabi export`, or one of them alone, in one shell on a *)
(* skill directory that its author edits meanwhile.  The commands are      *)
(* those of SkillValidation and SkillExport.  Each runs once: a later run  *)
(* starts like a first one on the files it finds.                          *)
(***************************************************************************)
EXTENDS SkillValidation

CONSTANTS
    InitialFiles,   \* the directories a session starts from
    Drafts,         \* what the author can write to each file
    MaxEdits        \* bound on the author's changes

ASSUME SessionAssumption ==
    /\ InitialFiles \subseteq [Locked -> Bytes]
    /\ Drafts \in [Locked -> SUBSET Bytes]
    /\ MaxEdits \in Nat

VARIABLES edits, xpc, part, draft, object, xseen

(* load_manifest and parse_abi_yaml raise, yaml.safe_load raises.           *)
ParsesAs(f, c) == IF f = SkillMd THEN ManifestOf[c].parses ELSE c \notin Broken

Export == INSTANCE SkillExport WITH Parses <- ParsesAs

exportLocal == <<xpc, part, draft, object, xseen>>
sessionVars == <<vars, validateVars, exportLocal, edits>>

SessionInit ==
    /\ files \in InitialFiles
    /\ Init
    /\ ValidateInit
    /\ Export!ExportInit
    /\ edits = 0

(* An edit before the first command is another start, and nobody looks any  *)
(* more after the last.                                                     *)
Validated == vpc = "returned" /\ findings = {}
Going == Validating \/ Export!Exporting \/ (Validated /\ xpc = "idle")

EditFile(f, c) ==
    /\ Going /\ edits < MaxEdits
    /\ edits' = edits + 1
    /\ Edit(f, c)
    /\ ValidationNotices(f, c)
    /\ Export!ExportNotices(f, c)
    /\ UNCHANGED <<vpc, findings, level, abi, unchecked, relock, xpc, part, draft, object>>

EditLock(v) ==
    /\ Going /\ edits < MaxEdits
    /\ edits' = edits + 1
    /\ ReplaceLock(v)
    /\ UNCHANGED <<validateVars, exportLocal>>

BeginValidation(r) ==
    /\ xpc = "idle"
    /\ StartValidate(r)
    /\ UNCHANGED <<exportLocal, edits>>

(* The shell goes on after exit code 0, that is after no findings.          *)
BeginExport ==
    /\ vpc = "idle" \/ Validated
    /\ Export!StartExport
    /\ UNCHANGED <<lock, local, seen, owner, validateVars, edits>>

Validate == ValidateStep /\ UNCHANGED <<exportLocal, edits>>

ExportOn == Export!ExportStep /\ UNCHANGED <<lock, local, seen, owner, validateVars, edits>>

Kill ==
    \/ KillValidation /\ UNCHANGED <<exportLocal, edits>>
    \/ Export!KillExport /\ UNCHANGED <<lock, local, seen, owner, validateVars, edits>>

SessionNext ==
    \/ \E f \in Locked : \E c \in Drafts[f] : EditFile(f, c)
    \/ \E v \in StrayTables \cup {NoFile} : EditLock(v)
    \/ \E r \in BOOLEAN : BeginValidation(r)
    \/ BeginExport
    \/ Validate
    \/ ExportOn
    \/ Kill

SessionSpec == SessionInit /\ [][SessionNext]_sessionVars

----------------------------------------------------------------------------
(* Every variable of the session keeps its type, across both commands and   *)
(* the lock (SkillLock, SkillValidation and SkillExport).                   *)
SessionTypeOK ==
    /\ TypeOK
    /\ ValidationTypeOK
    /\ Export!ExportTypeOK
    /\ edits \in 0..MaxEdits

(* Each field of an exported object is what its own file held at some       *)
(* instant of that export, or is left out because the file was not there:   *)
(* no field comes from an earlier command or another file                   *)
(* (api.export_requirement_object).                                         *)
ObjectWitnessed ==
    xpc = "written" =>
        \A x \in Export!FieldNames : object[x] \in xseen[Export!SourceOf[x]]

(* A skill that validated as P3 and was then exported, with ABI and tiers   *)
(* left alone since the validation began, is published with tiers whose     *)
(* first one covers the published required capabilities: the consumer gets  *)
(* what P3 promised, whatever happened to the other files and the lock.     *)
PublishedObjectConforms ==
    /\ xpc = "written"
    /\ Validated
    /\ \A f \in {Abi, Degrade} : vseen[f] = {files[f]}
    => /\ object.tiers # NoFile
       /\ Covers(TiersOf[object.tiers], RequiredOf[object.capabilities])
       /\ object.abi = object.capabilities
============================================================================
