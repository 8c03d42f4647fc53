---------------------------- MODULE AgentSkills ----------------------------
(***************************************************************************)
(* SKILL.md as the P0 checks see it.  Three sets of rules look at the same *)
(* frontmatter: the ones of the Agent Skills specification                 *)
(* (agentskills.py), those of validator.py with the frontmatter schema,    *)
(* and those of parser.py.  A frontmatter that parses is abstracted to     *)
(* what can be wrong with it; each rule is the set of flaws it notices.    *)
(***************************************************************************)

(* "other script": lower-case letters or digits outside ASCII; "final       *)
(* newline": the name ends with one line break, as YAML's `name: |` gives   *)
(* it; "padded": other blanks around it; "other directory": not the name of *)
(* the directory.                                                           *)
NameFlaws == {"long name", "upper case", "edge hyphen", "double hyphen", "symbol",
              "other script", "final newline", "padded", "other directory"}
(* Wrong types and sizes; "blank license": a license of blanks only;        *)
(* "metadata keys", "metadata values": some that are not strings.           *)
FieldFlaws == {"license", "blank license", "compatibility", "metadata",
               "metadata keys", "metadata values", "allowed-tools", "version"}
Flaws == NameFlaws \cup FieldFlaws \cup {"long description"}

(* parses: load_manifest returns, so there is a name and a description;     *)
(* body: something follows the frontmatter.                                 *)
Manifests == [parses : BOOLEAN, flaws : SUBSET Flaws, body : BOOLEAN]

(* agentskills.check_name strips and normalizes the name first.             *)
CheckName(flaws) ==
    flaws \cap (NameFlaws \ {"other script", "final newline", "padded"})

CheckDescription(flaws) == flaws \cap {"long description"}

CheckOptionalFields(flaws) == flaws \cap (FieldFlaws \ {"version"})

CheckFrontmatter(flaws) ==
    CheckName(flaws) \cup CheckDescription(flaws) \cup CheckOptionalFields(flaws)

(* The name rule of validator.py, on the stripped name.                     *)
NameRule(flaws) ==
    flaws \cap {"long name", "upper case", "edge hyphen", "double hyphen", "symbol",
                "other script"}

(* parser.validate_name looks at the name as it is written, and so does the *)
(* schema; but the `$` of both patterns also matches before a final line    *)
(* break.                                                                   *)
ValidateName(flaws) == NameRule(flaws) \cup (flaws \cap {"padded"})

FrontmatterSchema(flaws) ==
    ValidateName(flaws) \cup CheckDescription(flaws)
        \cup (flaws \cap (FieldFlaws \ {"blank license", "metadata keys"}))

(* Of the optional fields, parser.py looks at the type of metadata only.    *)
ValidateFrontmatter(flaws) ==
    ValidateName(flaws) \cup CheckDescription(flaws) \cup (flaws \cap {"metadata"})

(* What validate_skill notices in a frontmatter at P0.                      *)
FrontmatterFindings(flaws) ==
    CheckFrontmatter(flaws) \cup NameRule(flaws) \cup CheckDescription(flaws)
        \cup FrontmatterSchema(flaws) \cup ValidateFrontmatter(flaws)

(* What none of the three notices.                                          *)
Unnoticed == {"final newline"}
============================================================================
