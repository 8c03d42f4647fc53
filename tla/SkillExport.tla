---------------------------- MODULE SkillExport ----------------------------
(***************************************************************************)
(* `sabi export`: export_requirement_object derives the requirement object *)
(* of a skill from four of its files and the command writes it to          *)
(* requirement-object.json.  Every file is looked for and read on its own, *)
(* and skill.abi.yaml is read twice: parsed for what it says, and then     *)
(* digested.                                                               *)
(***************************************************************************)
EXTENDS Naturals, Sequences

CONSTANTS
    SkillMd, Abi, Effects, Degrade,   \* the files it reads
    Contents, NoFile,
    Empty,                            \* truncated, perhaps with a part written
    Parses(_, _)                      \* a file with this content can be parsed

VARIABLES
    files,   \* what each file holds; this module only reads it
    xpc,     \* where the export is, or how it ended
    part,    \* the field it is at, an index into Fields
    draft,   \* the object under construction
    object,  \* what requirement-object.json holds
    xseen    \* history: what each file held since the export began

exportVars == <<xpc, part, draft, object, xseen>>

(* The fields in the order they are computed, and the file each comes from: *)
(* the name, the capabilities (with version, spec and obligations), the two *)
(* digests, the effect envelope and the tiers.                              *)
Fields == <<"name", "capabilities", "skill_md", "abi", "effects", "tiers">>
SourceOf == [name |-> SkillMd, capabilities |-> Abi, skill_md |-> SkillMd,
             abi |-> Abi, effects |-> Effects, tiers |-> Degrade]
FieldNames == DOMAIN SourceOf

(* A field that was left out, or stays empty, is NoFile.                    *)
Objects == [FieldNames -> Contents \cup {NoFile}]
NoObject == [x \in FieldNames |-> NoFile]

ExportRunning == {"look", "read", "open", "write"}
Exporting == xpc \in ExportRunning

ExportInit ==
    /\ xpc = "idle"
    /\ part = 1
    /\ draft = NoObject
    /\ object = NoFile
    /\ xseen = [f \in DOMAIN files |-> {files[f]}]

ExportNotices(f, c) ==
    xseen' = IF Exporting THEN [xseen EXCEPT ![f] = @ \cup {c}] ELSE xseen

StartExport ==
    /\ xpc = "idle"
    /\ xpc' = "look"
    /\ part' = 1
    /\ draft' = NoObject
    /\ xseen' = [f \in DOMAIN files |-> {files[f]}]
    /\ UNCHANGED <<files, object>>

Field == Fields[part]
Source == files[SourceOf[Field]]

(* SKILL.md and skill.abi.yaml must be there when they are parsed (the ABI  *)
(* is read without a look; a missing one ends the same way).  The other     *)
(* reads are skipped when is_file() says no.                                *)
Mandatory == {"name", "capabilities"}
Parsed == FieldNames \ {"skill_md", "abi"}

(* Mutated: the digest of the ABI is not read from the ABI.                 *)
KeepDigestOfSkill(c) ==
    /\ draft' = [draft EXCEPT ![Field] = IF Field = "abi" THEN draft.skill_md ELSE c]
    /\ part' = part + 1
    /\ xpc' = IF part < Len(Fields) THEN "look" ELSE "open"

Keep(c) ==
    /\ draft' = [draft EXCEPT ![Field] = c]
    /\ part' = part + 1
    /\ xpc' = IF part < Len(Fields) THEN "look" ELSE "open"

Raise == xpc' = "raised" /\ part' = 1 /\ draft' = NoObject

Look ==
    /\ xpc = "look"
    /\ CASE Source # NoFile -> xpc' = "read" /\ UNCHANGED <<part, draft>>
         [] Source = NoFile /\ Field \in Mandatory -> Raise
         [] OTHER -> Keep(NoFile)
    /\ UNCHANGED <<files, object, xseen>>

(* A file that vanished after the look raises, and so does one that does    *)
(* not parse; nothing has been written.                                     *)
Read ==
    /\ xpc = "read"
    /\ IF Source = NoFile \/ (Field \in Parsed /\ ~Parses(SourceOf[Field], Source))
       THEN Raise
       ELSE Keep(Source)
    /\ UNCHANGED <<files, object, xseen>>

(* write_text truncates the object file and then writes it; with --json the *)
(* object is printed instead.                                               *)
OpenObject ==
    /\ xpc = "open"
    /\ xpc' = "write"
    /\ object' = Empty
    /\ UNCHANGED <<files, part, draft, xseen>>

WriteObject ==
    /\ xpc = "write"
    /\ xpc' = "written"
    /\ object' = draft
    /\ draft' = NoObject
    /\ UNCHANGED <<files, part, xseen>>

PrintObject ==
    /\ xpc = "open"
    /\ xpc' = "printed"
    /\ draft' = NoObject
    /\ UNCHANGED <<files, part, object, xseen>>

KillExport ==
    /\ Exporting
    /\ xpc' = "killed"
    /\ part' = 1
    /\ draft' = NoObject
    /\ UNCHANGED <<files, object, xseen>>

ExportStep == Look \/ Read \/ OpenObject \/ WriteObject \/ PrintObject

ExportTypeOK ==
    /\ xpc \in {"idle", "raised", "written", "printed", "killed"} \cup ExportRunning
    /\ part \in 1..Len(Fields) + 1
    /\ draft \in Objects
    /\ object \in Objects \cup {NoFile, Empty}
============================================================================
