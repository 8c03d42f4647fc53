--------------------------- MODULE SessionProofs ---------------------------
(***************************************************************************)
(* What `sabi validate` claims and `sabi export` publishes, for any files, *)
(* contents, tiers and number of edits.                                    *)
(*                                                                         *)
(* The invariant has three parts: what a validation has seen when it has   *)
(* found nothing yet (Knowledge), that on a directory nobody touches its   *)
(* findings are exactly what the files deserve up to this stage (Exact),   *)
(* and where the fields of an object come from (ExportInv).                *)
(***************************************************************************)
EXTENDS SkillSession, SkillLockProofs

AfterTiers == {"check lock", "lock"}
AfterEffects == {"degradation"} \cup AfterTiers
AfterAbi == {"schemas"} \cup AfterEffects
AfterBody == {"look abi", "abi"} \cup AfterAbi
AfterManifest == {"body"} \cup AfterBody

Judging == Validating \/ vpc = "returned"

SessionTypes ==
    /\ ValidationTypeOK
    /\ Export!ExportTypeOK
    /\ xseen \in [Locked -> SUBSET Bytes]
    /\ edits \in 0..MaxEdits

----------------------------------------------------------------------------
(* A validation.                                                            *)

(* What a file held during the validation.                                  *)
FrontSeen == \E c \in vseen[SkillMd] \ {NoFile} : FrontConforms(c)
BodySeen == \E c \in vseen[SkillMd] \ {NoFile} : ManifestOf[c].body
SoundSeen(f) == \E c \in vseen[f] : Sound(c)
CoverSeen(a) == \E d \in vseen[Degrade] : Sound(d) /\ Covers(TiersOf[d], RequiredOf[a])

HistoryComplete == Judging => \A f \in Locked : files[f] \in vseen[f]

(* A validation without findings has seen what it was looking for.          *)
Knowledge ==
    /\ vpc \in AfterAbi => abi \in vseen[Abi] /\ abi \in Contents \ Broken
    /\ findings = {} =>
         /\ vpc \in AfterManifest => FrontSeen
         /\ vpc \in AfterBody => BodySeen
         /\ vpc \in AfterAbi => Sound(abi)
         /\ vpc = "schemas" => \A f \in Schemas \ unchecked : SoundSeen(f)
         /\ vpc \in AfterEffects => \A f \in Schemas \cup {Effects} : SoundSeen(f)
         /\ vpc \in AfterTiers => CoverSeen(abi)

(* The level it has given is covered by what it has seen.                   *)
Claimed ==
    Judging =>
      /\ level # "INVALID" => FrontSeen /\ BodySeen
      /\ level \in {"P1", "P2", "P3"} => \A f \in Schemas \cup {Abi} : SoundSeen(f)
      /\ level \in {"P2", "P3"} => SoundSeen(Effects)
      /\ level = "P3" =>
           /\ vpc = "returned"
           /\ \E a \in vseen[Abi] : Sound(a) /\ CoverSeen(a)
           /\ pinned[Shell] # NoTable /\ Witnessed(Shell, pinned[Shell])

(* The lock check is the last part, and the shell does nothing else with    *)
(* skill.lock.                                                              *)
LockLast ==
    /\ vpc # "lock" => ~Active(Shell)
    /\ vpc = "lock" =>
         /\ pc[Shell] \in Running \cup Ended
         /\ ~relock => cmd[Shell] = "check_lock"
         /\ \A f \in Locked : seen[Shell][f] # {} /\ seen[Shell][f] \subseteq vseen[f]
    /\ vpc = "returned" /\ findings = {} => level = "P3"

(* Before it starts it has found nothing.                                   *)
Fresh == vpc = "idle" => findings = {} /\ level = "INVALID"

ValidInv == Fresh /\ HistoryComplete /\ Knowledge /\ Claimed /\ LockLast

(* Nobody has touched the directory since the validation began.             *)
Quiet == \A f \in Locked : vseen[f] = {files[f]}

FrontDeserved == LET md == files[SkillMd] IN
    md # NoFile /\ FrontConforms(md)
P0Deserved == FrontDeserved /\ ManifestOf[files[SkillMd]].body
P1Deserved == \A f \in Schemas \cup {Abi} : Sound(files[f])
P2Deserved == Sound(files[Effects])
P3Deserved == Sound(files[Degrade]) /\ Covers(TiersOf[files[Degrade]], RequiredOf[files[Abi]])

(* Then what it has found and proven so far is exactly what there is.       *)
ExactFindings ==
    /\ vpc \in {"look manifest", "manifest"} => findings = {}
    /\ vpc = "body" => (findings = {} <=> FrontDeserved)
    /\ vpc \in {"look abi", "abi"} => (findings = {} <=> P0Deserved)
    /\ vpc = "schemas" =>
         (findings = {} <=>
            P0Deserved /\ \A f \in (Schemas \ unchecked) \cup {Abi} : Sound(files[f]))
    /\ vpc = "degradation" => (findings = {} <=> P0Deserved /\ P1Deserved /\ P2Deserved)
    /\ vpc \in AfterTiers =>
         (findings = {} <=> P0Deserved /\ P1Deserved /\ P2Deserved /\ P3Deserved)

ExactLevel ==
    /\ vpc \in {"look manifest", "manifest", "body", "look abi"} => level = "INVALID"
    /\ vpc \in {"abi", "schemas"} => level = IF P0Deserved THEN "P0" ELSE "INVALID"
    /\ vpc \in AfterEffects => level = IF ~P0Deserved THEN "INVALID"
                                       ELSE IF ~P1Deserved THEN "P0"
                                       ELSE IF ~P2Deserved \/ vpc = "degradation" THEN "P1"
                                       ELSE "P2"
    /\ vpc \in AfterAbi => abi = files[Abi]
    /\ vpc = "returned" /\ ~relock => level = DeservedLevel(files, pinned[Shell])

Exact == Judging /\ Quiet => ExactFindings /\ ExactLevel

----------------------------------------------------------------------------
(* An export.                                                               *)

ExportInv ==
    /\ Export!Exporting =>
         /\ \A f \in Locked : files[f] \in xseen[f]
         /\ \A i \in 1..part - 1 :
              draft[Export!Fields[i]] \in xseen[Export!SourceOf[Export!Fields[i]]]
    /\ xpc \in {"look", "read"} => part \in 1..6
    /\ xpc \in {"open", "write"} => part = 7
    /\ xpc = "written" =>
         /\ object \in Export!Objects
         /\ \A x \in Export!FieldNames : object[x] \in xseen[Export!SourceOf[x]]

(* It comes after the validation, if there is one.                          *)
ExportLater ==
    /\ xpc # "idle" => vpc = "idle" \/ Validated
    /\ xpc # "idle" /\ vpc = "returned" => \A f \in Locked : xseen[f] \subseteq vseen[f]

SInv == SessionTypes /\ ValidInv /\ Exact /\ ExportInv /\ ExportLater

----------------------------------------------------------------------------
(* A session is a behaviour of SkillLock.                                   *)

(* No step of a validation changes a file of the contract; only its lock    *)
(* check does anything in SkillLock.                                        *)
LEMMA ValidateStepLocks ==
    ASSUME ValidateStep
    PROVE  /\ files' = files
           /\ \/ UNCHANGED vars
              \/ vpc = "check lock" /\ Start(Shell)
              \/ vpc = "lock" /\ Step(Shell)
<1>1. files' = files
  BY DEF ValidateStep, LookManifest, ReadManifest, ReadBody, LookAbi, ReadAbi, CheckSchema,
     ReadEffects, ReadDegradation, Pass, Go, vars, StartLockCheck, StartLock, StartVerify,
     RejectUnreadable, BeginScan, Begin, disk, LockStep, Step, List, ReadFile, ReadVanished,
     OpenLock, WriteLock, WriteOrphan, Compare, EndValidation
<1>2. CASE StartLockCheck
  BY <1>1, <1>2 DEF StartLockCheck, Start, Verifiers
<1>3. CASE LockStep BY <1>1, <1>3 DEF LockStep
<1>4. CASE ~StartLockCheck /\ ~LockStep
  <2>1. UNCHANGED vars
    BY <1>4 DEF ValidateStep, LookManifest, ReadManifest, ReadBody, LookAbi, ReadAbi,
       CheckSchema, ReadEffects, ReadDegradation, EndValidation, Pass, Go
  <2> QED BY <1>1, <2>1
<1> QED BY <1>2, <1>3, <1>4

(* An export changes nothing that SkillLock or a validation looks at.       *)
LEMMA ExportFrame ==
    ASSUME BeginExport \/ ExportOn
             \/ (Export!KillExport /\ UNCHANGED <<lock, local, seen, owner, validateVars, edits>>)
    PROVE  UNCHANGED <<vars, validateVars, edits>>
<1>1. UNCHANGED <<files, lock, local, seen, owner, validateVars, edits>>
  <2>1. CASE BeginExport
    BY <2>1 DEF BeginExport, Export!StartExport
  <2>2. CASE ExportOn
    BY <2>2 DEF ExportOn, Export!ExportStep, Export!Look, Export!Read, Export!OpenObject,
       Export!WriteObject, Export!PrintObject
  <2>3. CASE Export!KillExport /\ UNCHANGED <<lock, local, seen, owner, validateVars, edits>>
    BY <2>3 DEF Export!KillExport
  <2> QED BY <2>1, <2>2, <2>3
<1> QED BY <1>1 DEF local, vars

LEMMA SessionRunsLockCommands == SessionSpec => Init /\ [][Next]_vars
<1>1. SessionInit => Init BY DEF SessionInit
<1>2. [SessionNext]_sessionVars => [Next]_vars
  <2> SUFFICES ASSUME [SessionNext]_sessionVars PROVE [Next]_vars
    OBVIOUS
  <2>1. CASE \E f \in Locked : \E c \in Drafts[f] : EditFile(f, c)
    <3>1. PICK f \in Locked, c \in Bytes : Edit(f, c)
      BY <2>1, SessionAssumption DEF EditFile
    <3> QED BY <3>1 DEF Next, Author
  <2>2. CASE \E v \in StrayTables \cup {NoFile} : EditLock(v)
    BY <2>2 DEF EditLock, Next, Author
  <2>3. CASE \E r \in BOOLEAN : BeginValidation(r)
    BY <2>3 DEF BeginValidation, StartValidate
  <2>4. CASE BeginExport \/ ExportOn
    BY <2>4, ExportFrame
  <2>5. CASE Validate
    BY <2>5, ValidateStepLocks, ValidationAssumption DEF Validate, Next
  <2>6. CASE Kill
    <3>1. CASE KillValidation
      BY <3>1, ValidationAssumption DEF KillValidation, Next
    <3>2. CASE ~KillValidation
      BY <2>6, <3>2, ExportFrame DEF Kill
    <3> QED BY <3>1, <3>2
  <2>7. CASE UNCHANGED sessionVars
    BY <2>7 DEF sessionVars
  <2> QED BY <2>1, <2>2, <2>3, <2>4, <2>5, <2>6, <2>7 DEF SessionNext
<1> QED BY <1>1, <1>2, PTL DEF SessionSpec

----------------------------------------------------------------------------
(* The author.                                                              *)

(* A larger history keeps what was seen.                                    *)
LEMMA SeenGrows ==
    ASSUME \A f \in Locked : vseen[f] \subseteq vseen'[f]
    PROVE  /\ FrontSeen => FrontSeen'
           /\ BodySeen => BodySeen'
           /\ \A f \in Locked : SoundSeen(f) => SoundSeen(f)'
           /\ \A a : CoverSeen(a) => CoverSeen(a)'
BY ValidationAssumption DEF FrontSeen, BodySeen, SoundSeen, CoverSeen

(* A step that lets the validation be, and shows it at most more.           *)
LEMMA UndisturbedValidation ==
    ASSUME IInv, SInv, \A f \in Locked : vseen[f] \subseteq vseen'[f],
           UNCHANGED <<vpc, findings, level, abi, unchecked, relock, cmd, pinned>>,
           \A f \in Locked : seen[Shell][f] \subseteq seen'[Shell][f],
           \A f \in Locked : seen'[Shell][f] \subseteq seen[Shell][f] \cup vseen'[f]
    PROVE  Knowledge' /\ Claimed'
             /\ (vpc = "lock" => \A f \in Locked :
                    seen'[Shell][f] # {} /\ seen'[Shell][f] \subseteq vseen'[f])
<1> USE ValidationAssumption
<1>1. /\ FrontSeen => FrontSeen'
      /\ BodySeen => BodySeen'
      /\ \A f \in Locked : SoundSeen(f) => SoundSeen(f)'
      /\ \A a : CoverSeen(a) => CoverSeen(a)'
  BY SeenGrows
<1>2. Knowledge /\ Claimed /\ LockLast BY DEF SInv, ValidInv
<1>3. Knowledge'
  BY <1>1, <1>2 DEF Knowledge, AfterManifest, AfterBody, AfterAbi, AfterEffects, AfterTiers
<1>4. Witnessed(Shell, pinned[Shell]) => Witnessed(Shell, pinned[Shell])'
  BY DEF Witnessed
<1>5. Claimed'
  <2>1. CASE ~Judging BY <2>1 DEF Claimed, Judging, Validating
  <2>2. CASE Judging
    <3>1. level # "INVALID" => FrontSeen' /\ BodySeen'
      BY <1>1, <1>2, <2>2 DEF Claimed
    <3>2. level \in {"P1", "P2", "P3"} => \A f \in Schemas \cup {Abi} : SoundSeen(f)'
      BY <1>1, <1>2, <2>2 DEF Claimed
    <3>3. level \in {"P2", "P3"} => SoundSeen(Effects)'
      BY <1>1, <1>2, <2>2 DEF Claimed
    <3>4. level = "P3" => \E a \in vseen'[Abi] : Sound(a) /\ CoverSeen(a)'
      BY <1>1, <1>2, <2>2 DEF Claimed
    <3> QED BY <1>2, <1>4, <2>2, <3>1, <3>2, <3>3, <3>4 DEF Claimed
  <2> QED BY <2>1, <2>2
<1>6. vpc = "lock" => \A f \in Locked :
                    seen'[Shell][f] # {} /\ seen'[Shell][f] \subseteq vseen'[f]
  BY <1>2 DEF LockLast
<1> QED BY <1>3, <1>5, <1>6

(* Who edits during a validation ends its quiet.                            *)
LEMMA EditFileKeepsInv ==
    ASSUME IInv, SInv, NEW f \in Locked, NEW c \in Bytes, EditFile(f, c)
    PROVE  SInv'
<1> USE ValidationAssumption
<1>1. /\ files[f] # c /\ files' = [files EXCEPT ![f] = c] /\ files \in [Locked -> Bytes]
      /\ UNCHANGED <<lock, cmd, pc, pinned>>
      /\ UNCHANGED <<vpc, findings, level, abi, unchecked, relock, xpc, part, draft, object>>
  BY DEF EditFile, Edit, local, IInv, TypeOK
<1>2. /\ vseen \in [Locked -> SUBSET Bytes] /\ xseen \in [Locked -> SUBSET Bytes]
      /\ seen[Shell] \in [Locked -> SUBSET Bytes]
      /\ seen'[Shell] = IF Active(Shell) THEN [seen[Shell] EXCEPT ![f] = @ \cup {c}]
                                         ELSE seen[Shell]
  BY DEF SInv, SessionTypes, ValidationTypeOK, IInv, TypeOK, EditFile, Edit
<1>3. vseen' = IF Judging THEN [vseen EXCEPT ![f] = @ \cup {c}] ELSE vseen
  BY DEF EditFile, ValidationNotices, Judging
<1>4. xseen' = IF Export!Exporting THEN [xseen EXCEPT ![f] = @ \cup {c}] ELSE xseen
  BY DEF EditFile, Export!ExportNotices
<1>5. Active(Shell) => Judging
  BY DEF SInv, ValidInv, LockLast, Judging, Validating, ValidateRunning
<1>6. SessionTypes'
  <2>1. edits' \in 0..MaxEdits
    BY SessionAssumption DEF EditFile, SInv, SessionTypes
  <2>2. vseen' \in [Locked -> SUBSET Bytes] /\ xseen' \in [Locked -> SUBSET Bytes]
    BY <1>2, <1>3, <1>4
  <2> QED BY <1>1, <2>1, <2>2 DEF SInv, SessionTypes, ValidationTypeOK, Export!ExportTypeOK
<1>7. /\ \A g \in Locked : vseen[g] \subseteq vseen'[g]
      /\ \A g \in Locked : seen[Shell][g] \subseteq seen'[Shell][g]
      /\ \A g \in Locked : seen'[Shell][g] \subseteq seen[Shell][g] \cup vseen'[g]
  BY <1>2, <1>3, <1>5
<1>8. /\ Knowledge' /\ Claimed'
      /\ vpc = "lock" => \A g \in Locked :
            seen'[Shell][g] # {} /\ seen'[Shell][g] \subseteq vseen'[g]
  BY <1>1, <1>7, UndisturbedValidation
<1>9. HistoryComplete'
  BY <1>1, <1>2, <1>3 DEF SInv, ValidInv, HistoryComplete, Judging, Validating
<1>10. LockLast'
  BY <1>1, <1>8 DEF SInv, ValidInv, LockLast, Active
<1>11. Exact'
  <2>1. Judging => ~Quiet'
    <3> SUFFICES ASSUME Judging PROVE vseen'[f] # {files'[f]}
      BY DEF Quiet
    <3>1. files[f] \in vseen[f] BY DEF SInv, ValidInv, HistoryComplete
    <3> QED BY <1>1, <1>2, <1>3, <3>1
  <2> QED BY <1>1, <2>1 DEF Exact, Judging, Validating
<1>12. ExportInv'
  <2>1. \A g \in Locked : xseen[g] \subseteq xseen'[g] BY <1>2, <1>4
  <2>2. \A x \in Export!FieldNames : Export!SourceOf[x] \in Locked
    BY DEF Export!FieldNames, Export!SourceOf
  <2>3. ASSUME Export!Exporting, NEW i \in 1..part - 1
        PROVE  draft[Export!Fields[i]] \in xseen'[Export!SourceOf[Export!Fields[i]]]
    <3>1. i \in 1..6
      BY <2>3 DEF SInv, ExportInv, Export!Exporting, Export!ExportRunning
    <3>2. Export!SourceOf[Export!Fields[i]] \in Locked
      BY <3>1 DEF Export!SourceOf, Export!Fields
    <3> QED BY <2>1, <2>3, <3>2 DEF SInv, ExportInv
  <2>4. Export!Exporting => \A g \in Locked : files'[g] \in xseen'[g]
    BY <1>1, <1>2, <1>4 DEF SInv, ExportInv
  <2> QED BY <1>1, <2>1, <2>2, <2>3, <2>4 DEF SInv, ExportInv, Export!Exporting
<1>13. ExportLater'
  BY <1>1, <1>2, <1>3, <1>4 DEF SInv, ExportLater, Judging, Validated
<1>14. Fresh' BY <1>1 DEF SInv, ValidInv, Fresh
<1> QED BY <1>6, <1>8, <1>9, <1>10, <1>11, <1>12, <1>13, <1>14 DEF SInv, ValidInv

LEMMA EditLockKeepsInv ==
    ASSUME IInv, SInv, NEW v \in StrayTables \cup {NoFile}, EditLock(v)
    PROVE  SInv'
<1> USE ValidationAssumption
<1>1. /\ UNCHANGED <<files, cmd, pinned, seen>>
      /\ UNCHANGED <<vpc, findings, level, abi, unchecked, relock, vseen>>
      /\ UNCHANGED <<xpc, part, draft, object, xseen>>
      /\ pc'[Shell] = IF pc[Shell] = "write" THEN "orphan" ELSE pc[Shell]
  BY DEF EditLock, ReplaceLock, validateVars, exportLocal
<1>2. SessionTypes'
  <2>1. edits' \in 0..MaxEdits
    BY SessionAssumption DEF EditLock, SInv, SessionTypes
  <2> QED BY <1>1, <2>1 DEF SInv, SessionTypes, ValidationTypeOK, Export!ExportTypeOK
<1>3. Knowledge' /\ Claimed'
  BY <1>1, UndisturbedValidation
<1>4. Fresh' /\ HistoryComplete' /\ LockLast'
  BY <1>1 DEF SInv, ValidInv, Fresh, HistoryComplete, LockLast, Judging, Validating, Active,
     Running
<1>5. Exact'
  BY <1>1 DEF SInv, Exact, ExactFindings, ExactLevel, Judging, Validating, Quiet,
     FrontDeserved, P0Deserved, P1Deserved, P2Deserved, P3Deserved
<1>6. ExportInv' /\ ExportLater'
  BY <1>1 DEF SInv, ExportInv, ExportLater, Export!Exporting, Validated
<1> QED BY <1>2, <1>3, <1>4, <1>5, <1>6 DEF SInv, ValidInv

----------------------------------------------------------------------------
(* The shell, and the export.                                               *)

LEMMA BeginValidationKeepsInv ==
    ASSUME IInv, SInv, NEW r \in BOOLEAN, BeginValidation(r)
    PROVE  SInv'
<1>1. /\ vpc = "idle" /\ xpc = "idle" /\ vpc' = "look manifest" /\ relock' \in BOOLEAN
      /\ vseen' = [f \in Locked |-> {files[f]}]
      /\ UNCHANGED <<vars, findings, level, abi, unchecked>>
      /\ UNCHANGED <<xpc, part, draft, object, xseen, edits>>
  BY DEF BeginValidation, StartValidate, exportLocal
<1>2. files \in [Locked -> Bytes] BY DEF IInv, TypeOK
<1>3. vseen' \in [Locked -> SUBSET Bytes] BY <1>1, <1>2
<1>4. SessionTypes'
  BY <1>1, <1>3
     DEF SInv, SessionTypes, ValidationTypeOK, ValidateRunning, Export!ExportTypeOK
<1>5. findings = {} /\ level = "INVALID" /\ ~Active(Shell)
  BY <1>1 DEF SInv, Fresh, ValidInv, LockLast
<1>6. Fresh' /\ HistoryComplete' /\ Knowledge' /\ Claimed' /\ LockLast'
  BY <1>1, <1>5 DEF Fresh, HistoryComplete, Knowledge, Claimed, LockLast, vars, Active,
     AfterManifest, AfterBody, AfterAbi, AfterEffects, AfterTiers
<1>7. Exact'
  BY <1>1, <1>5 DEF Exact, ExactFindings, ExactLevel,
     AfterManifest, AfterBody, AfterAbi, AfterEffects, AfterTiers
<1>8. ExportInv' /\ ExportLater'
  BY <1>1 DEF SInv, ExportInv, ExportLater, Export!Exporting, Export!ExportRunning, vars
<1> QED BY <1>4, <1>6, <1>7, <1>8 DEF SInv, ValidInv

(* What an export does to the rest.                                         *)
LEMMA ExportKeepsValidation ==
    ASSUME IInv, SInv, UNCHANGED <<vars, validateVars, edits>>
    PROVE  ValidInv' /\ Exact' /\ ValidationTypeOK' /\ edits' \in 0..MaxEdits
<1>1. /\ UNCHANGED <<files, cmd, pc, pinned, seen>>
      /\ UNCHANGED <<vpc, findings, level, abi, unchecked, relock, vseen>>
  BY DEF vars, validateVars
<1>2. Knowledge' /\ Claimed'
  BY <1>1, UndisturbedValidation
<1>3. Fresh' /\ HistoryComplete' /\ LockLast'
  BY <1>1 DEF SInv, ValidInv, Fresh, HistoryComplete, LockLast, Judging, Validating, Active
<1>4. Exact'
  BY <1>1 DEF SInv, Exact, ExactFindings, ExactLevel, Judging, Validating, Quiet,
     FrontDeserved, P0Deserved, P1Deserved, P2Deserved, P3Deserved
<1>5. ValidationTypeOK' /\ edits' \in 0..MaxEdits
  BY <1>1 DEF SInv, SessionTypes, ValidationTypeOK
<1> QED BY <1>2, <1>3, <1>4, <1>5 DEF ValidInv

LEMMA BeginExportKeepsInv ==
    ASSUME IInv, SInv, BeginExport
    PROVE  SInv'
<1>1. UNCHANGED <<vars, validateVars, edits>> BY ExportFrame
<1>2. /\ vpc = "idle" \/ Validated
      /\ xpc' = "look" /\ part' = 1 /\ draft' = Export!NoObject /\ object' = object
      /\ xseen' = [f \in DOMAIN files |-> {files[f]}]
  BY DEF BeginExport, Export!StartExport
<1>3. files \in [Locked -> Bytes] /\ files' = files /\ DOMAIN files = Locked
  BY <1>1 DEF IInv, TypeOK, vars
<1>4. xseen' \in [Locked -> SUBSET Bytes] BY <1>2, <1>3
<1>5. Export!NoObject \in Export!Objects BY DEF Export!NoObject, Export!Objects
<1>6. SessionTypes'
  BY <1>2, <1>1, <1>4, <1>5, ExportKeepsValidation
     DEF SInv, SessionTypes, Export!ExportTypeOK, Export!ExportRunning, Export!Fields
<1>7. ExportInv'
  BY <1>2, <1>3 DEF ExportInv
<1>8. ExportLater'
  BY <1>1, <1>2, <1>3
     DEF SInv, ValidInv, HistoryComplete, ExportLater, Validated, Judging, validateVars
<1> QED BY <1>1, <1>6, <1>7, <1>8, ExportKeepsValidation DEF SInv

(* The fields and where they come from.                                     *)
LEMMA FieldFacts ==
    /\ Export!FieldNames = {"name", "capabilities", "skill_md", "abi", "effects", "tiers"}
    /\ Len(Export!Fields) = 6
    /\ \A i \in 1..6 : Export!Fields[i] \in Export!FieldNames
    /\ \A x \in Export!FieldNames : \E i \in 1..6 : Export!Fields[i] = x
    /\ \A i, j \in 1..6 : Export!Fields[i] = Export!Fields[j] => i = j
    /\ \A x \in Export!FieldNames : Export!SourceOf[x] \in Locked
<1>1. Export!FieldNames = {"name", "capabilities", "skill_md", "abi", "effects", "tiers"}
  BY DEF Export!FieldNames, Export!SourceOf
<1>2. /\ Export!Fields[1] = "name" /\ Export!Fields[2] = "capabilities"
      /\ Export!Fields[3] = "skill_md" /\ Export!Fields[4] = "abi"
      /\ Export!Fields[5] = "effects" /\ Export!Fields[6] = "tiers"
      /\ Len(Export!Fields) = 6
  BY DEF Export!Fields
<1>3. 1..6 = {1, 2, 3, 4, 5, 6} OBVIOUS
<1>4. \A x \in Export!FieldNames : Export!SourceOf[x] \in Locked
  BY <1>1, ValidationAssumption DEF Export!SourceOf
<1>5. \A x \in Export!FieldNames : \E i \in 1..6 : Export!Fields[i] = x
  BY <1>1, <1>2, <1>3
<1>6. \A i, j \in 1..6 : Export!Fields[i] = Export!Fields[j] => i = j
  BY <1>2, <1>3
<1> QED BY <1>1, <1>2, <1>3, <1>4, <1>5, <1>6

(* A field is kept as its file holds it now.                                *)
LEMMA KeepKeepsInv ==
    ASSUME IInv, SInv, UNCHANGED <<vars, validateVars, edits>>,
           xpc \in {"look", "read"}, Export!Keep(Export!Source), UNCHANGED <<object, xseen>>
    PROVE  SInv'
<1> DEFINE field == Export!Fields[part]
<1>1. files' = files /\ UNCHANGED <<vpc, findings, vseen>> BY DEF vars, validateVars
<1>2. /\ part \in 1..6 /\ field \in Export!FieldNames
      /\ draft \in Export!Objects
      /\ draft' = [draft EXCEPT ![field] = files[Export!SourceOf[field]]]
      /\ part' = part + 1
      /\ xpc' = IF part < 6 THEN "look" ELSE "open"
  BY FieldFacts DEF SInv, SessionTypes, ExportInv, Export!ExportTypeOK, Export!Keep,
     Export!Field, Export!Source
<1>3. Export!SourceOf[field] \in Locked BY <1>2, FieldFacts
<1>4. files[Export!SourceOf[field]] \in Bytes BY <1>3 DEF IInv, TypeOK
<1>5. draft' \in Export!Objects
  BY <1>2, <1>4 DEF Export!Objects, Bytes
<1>6. SessionTypes'
  BY <1>2, <1>5, FieldFacts, ExportKeepsValidation
     DEF SInv, SessionTypes, Export!ExportTypeOK, Export!ExportRunning
<1>7. \A f \in Locked : files[f] \in xseen[f]
  BY DEF SInv, ExportInv, Export!Exporting, Export!ExportRunning
<1>8. ASSUME NEW i \in 1..part' - 1
      PROVE  draft'[Export!Fields[i]] \in xseen[Export!SourceOf[Export!Fields[i]]]
  <2>1. CASE i = part
    <3>1. draft'[field] = files[Export!SourceOf[field]]
      BY <1>2 DEF Export!Objects
    <3> QED BY <1>3, <1>7, <2>1, <3>1
  <2>2. CASE i # part
    <3>1. i \in 1..part - 1 /\ i \in 1..6 BY <1>2, <1>8, <2>2
    <3>2. Export!Fields[i] # field /\ Export!Fields[i] \in Export!FieldNames
      BY <1>2, <2>2, <3>1, FieldFacts
    <3>3. draft'[Export!Fields[i]] = draft[Export!Fields[i]]
      BY <1>2, <3>2 DEF Export!Objects
    <3> QED BY <3>1, <3>3 DEF SInv, ExportInv, Export!Exporting, Export!ExportRunning
  <2> QED BY <2>1, <2>2
<1>9. ExportInv'
  BY <1>1, <1>2, <1>7, <1>8 DEF ExportInv
<1>10. ExportLater'
  BY <1>1, <1>2 DEF SInv, ExportLater, Validated
<1> QED BY <1>6, <1>9, <1>10, ExportKeepsValidation DEF SInv

(* An export that gives up or is killed has written nothing.                *)
LEMMA GiveUpKeepsInv ==
    ASSUME IInv, SInv, UNCHANGED <<vars, validateVars, edits>>, Export!Exporting,
           xpc' \in {"raised", "killed"}, part' = 1, draft' = Export!NoObject,
           UNCHANGED <<object, xseen>>
    PROVE  SInv'
<1>1. Export!NoObject \in Export!Objects BY DEF Export!NoObject, Export!Objects
<1>2. SessionTypes'
  BY <1>1, FieldFacts, ExportKeepsValidation DEF SInv, SessionTypes, Export!ExportTypeOK
<1>3. ExportInv' BY DEF ExportInv, Export!Exporting, Export!ExportRunning
<1>4. ExportLater'
  BY DEF SInv, ExportLater, Validated, validateVars, Export!Exporting, Export!ExportRunning
<1> QED BY <1>2, <1>3, <1>4, ExportKeepsValidation DEF SInv

LEMMA ExportOnKeepsInv ==
    ASSUME IInv, SInv, ExportOn
    PROVE  SInv'
<1>1. UNCHANGED <<vars, validateVars, edits>> BY ExportFrame
<1>2. CASE Export!Look
  <2>1. xpc = "look" /\ UNCHANGED <<object, xseen>> BY <1>2 DEF Export!Look
  <2>2. CASE Export!Raise
    BY <1>1, <2>1, <2>2, GiveUpKeepsInv DEF Export!Raise, Export!Exporting, Export!ExportRunning
  <2>3. CASE Export!Source # NoFile /\ xpc' = "read" /\ UNCHANGED <<part, draft>>
    <3>1. SessionTypes'
      BY <1>1, <2>1, <2>3, ExportKeepsValidation
         DEF SInv, SessionTypes, Export!ExportTypeOK, Export!ExportRunning
    <3>2. ExportInv' /\ ExportLater'
      BY <1>1, <2>1, <2>3 DEF SInv, ExportInv, ExportLater, Export!Exporting,
         Export!ExportRunning, Validated, vars, validateVars
    <3> QED BY <1>1, <3>1, <3>2, ExportKeepsValidation DEF SInv
  <2>4. CASE Export!Source = NoFile /\ Export!Keep(NoFile)
    BY <1>1, <2>1, <2>4, KeepKeepsInv
  <2> QED BY <1>2, <2>2, <2>3, <2>4 DEF Export!Look
<1>3. CASE Export!Read
  BY <1>1, <1>3, KeepKeepsInv, GiveUpKeepsInv
     DEF Export!Read, Export!Raise, Export!Exporting, Export!ExportRunning
<1>4. CASE Export!OpenObject
  <2>1. /\ xpc = "open" /\ xpc' = "write" /\ object' = Empty
        /\ UNCHANGED <<part, draft, xseen>>
    BY <1>4 DEF Export!OpenObject
  <2>2. SessionTypes'
    BY <1>1, <2>1, ExportKeepsValidation
       DEF SInv, SessionTypes, Export!ExportTypeOK, Export!ExportRunning
  <2>3. ExportInv' /\ ExportLater'
    BY <1>1, <2>1 DEF SInv, ExportInv, ExportLater, Export!Exporting,
       Export!ExportRunning, Validated, vars, validateVars
  <2> QED BY <1>1, <2>2, <2>3, ExportKeepsValidation DEF SInv
<1>5. CASE Export!WriteObject \/ Export!PrintObject
  <2>1. /\ draft' = Export!NoObject /\ UNCHANGED <<part, xseen>>
        /\ \/ xpc = "write" /\ xpc' = "written" /\ object' = draft
           \/ xpc = "open" /\ xpc' = "printed" /\ object' = object
    BY <1>5 DEF Export!WriteObject, Export!PrintObject
  <2>2. Export!NoObject \in Export!Objects BY DEF Export!NoObject, Export!Objects
  <2>3. SessionTypes'
    BY <1>1, <2>1, <2>2, ExportKeepsValidation
       DEF SInv, SessionTypes, Export!ExportTypeOK, Export!ExportRunning
  <2>4. ASSUME xpc' = "written", NEW x \in Export!FieldNames
        PROVE  object'[x] \in xseen[Export!SourceOf[x]]
    <3>1. xpc = "write" /\ object' = draft /\ part = 7
      BY <2>1, <2>4 DEF SInv, ExportInv
    <3>2. PICK i \in 1..6 : Export!Fields[i] = x BY FieldFacts
    <3>3. i \in 1..part - 1 BY <3>1
    <3> QED BY <3>1, <3>2, <3>3 DEF SInv, ExportInv, Export!Exporting, Export!ExportRunning
  <2>5. ExportInv'
    BY <2>1, <2>4 DEF SInv, SessionTypes, ExportInv, Export!ExportTypeOK, Export!Exporting,
       Export!ExportRunning
  <2>6. ExportLater'
    BY <1>1, <2>1 DEF SInv, ExportLater, Validated, validateVars
  <2> QED BY <1>1, <2>3, <2>5, <2>6, ExportKeepsValidation DEF SInv
<1> QED BY <1>2, <1>3, <1>4, <1>5 DEF ExportOn, Export!ExportStep

LEMMA KillKeepsInv ==
    ASSUME IInv, SInv, Kill
    PROVE  SInv'
<1>1. CASE Export!KillExport /\ UNCHANGED <<lock, local, seen, owner, validateVars, edits>>
  <2>1. UNCHANGED <<vars, validateVars, edits>> BY <1>1, ExportFrame
  <2> QED BY <1>1, <2>1, GiveUpKeepsInv DEF Export!KillExport
<1>2. CASE KillValidation /\ UNCHANGED <<exportLocal, edits>>
  <2>1. /\ Validating /\ vpc' = "killed"
        /\ UNCHANGED <<findings, level, abi, unchecked, relock, vseen>>
        /\ UNCHANGED <<xpc, part, draft, object, xseen, edits>>
        /\ files' = files /\ ~Active(Shell)'
    BY <1>2, ValidationAssumption
       DEF KillValidation, exportLocal, Crash, vars, Active, Running, IInv, TypeOK
  <2>2. SessionTypes'
    BY <2>1 DEF SInv, SessionTypes, ValidationTypeOK, Export!ExportTypeOK
  <2>3. ValidInv'
    BY <2>1 DEF ValidInv, Fresh, HistoryComplete, Knowledge, Claimed, LockLast, Judging, Validating,
       ValidateRunning, AfterManifest, AfterBody, AfterAbi, AfterEffects, AfterTiers
  <2>4. Exact' BY <2>1 DEF Exact, Judging, Validating, ValidateRunning
  <2>5. xpc = "idle"
    BY <2>1 DEF SInv, ExportLater, Validated, Validating, ValidateRunning
  <2>6. ExportInv' /\ ExportLater'
    BY <2>1, <2>5 DEF ExportInv, ExportLater, Export!Exporting, Export!ExportRunning
  <2> QED BY <2>2, <2>3, <2>4, <2>6 DEF SInv
<1> QED BY <1>1, <1>2 DEF Kill

----------------------------------------------------------------------------
(* The steps of a validation.                                               *)

(* The rules of P0 together miss no flaw of a frontmatter but one.          *)
LEMMA FrontmatterComplete ==
    ASSUME NEW c \in Contents
    PROVE  FrontmatterFindings(ManifestOf[c].flaws) = {}
             <=> ManifestOf[c].flaws \subseteq Unnoticed
<1>1. ManifestOf[c].flaws \subseteq Flaws
  BY ValidationAssumption DEF Manifests
<1> DEFINE flaws == ManifestOf[c].flaws
<1>2. flaws \ Unnoticed \subseteq FrontmatterFindings(flaws)
  BY <1>1 DEF Flaws, NameFlaws, FieldFlaws, FrontmatterFindings, CheckFrontmatter, CheckName,
     CheckDescription, CheckOptionalFields, NameRule, ValidateName, FrontmatterSchema,
     ValidateFrontmatter, Unnoticed
<1>3. FrontmatterFindings(flaws) \subseteq flaws \ Unnoticed
  BY <1>1 DEF Flaws, NameFlaws, FieldFlaws, FrontmatterFindings, CheckFrontmatter, CheckName,
     CheckDescription, CheckOptionalFields, NameRule, ValidateName, FrontmatterSchema,
     ValidateFrontmatter, Unnoticed
<1> QED BY <1>2, <1>3

(* The checks of P3 find nothing exactly in tiers that cover the ABI.       *)
LEMMA DegradationComplete ==
    ASSUME NEW tiers \in Seq(Tier), NEW required
    PROVE  DegradationErrors(tiers, required) = {} <=> Covers(tiers, required)
<1> DEFINE errors == DegradationErrors(tiers, required)
<1>1. Len(tiers) \in Nat OBVIOUS
<1>2. CASE Len(tiers) < 2
  <2>1. errors = {"too few"} BY <1>2 DEF DegradationErrors
  <2>2. ~Covers(tiers, required) BY <1>1, <1>2 DEF Covers
  <2> QED BY <2>1, <2>2
<1>3. CASE Len(tiers) >= 2
  <2> DEFINE unknown == \E i \in 1..Len(tiers) - 1 : ~ (tiers[i].requires \subseteq Vocabulary)
             partial == ~ (required \subseteq tiers[1].requires)
             open == ~tiers[Len(tiers)].terminal
  <2>1. errors = {e \in {"not terminal", "unknown", "not full"} :
                    \/ e = "not terminal" /\ open
                    \/ e = "unknown" /\ unknown
                    \/ e = "not full" /\ partial}
    <3>1. ~ (Len(tiers) < 2) BY <1>1, <1>3
    <3> QED BY <3>1, Zenon DEF DegradationErrors
  <2>2. Covers(tiers, required) <=> ~open /\ ~unknown /\ ~partial
    BY <1>1, <1>3 DEF Covers
  <2> HIDE DEF unknown, partial, open
  <2>3. errors = {} <=> ~open /\ ~unknown /\ ~partial BY <2>1
  <2> QED BY <2>2, <2>3
<1> QED BY <1>1, <1>2, <1>3

(* The level a directory deserves, part by part.                            *)
LEMMA DeservedFacts ==
    ASSUME files \in [Locked -> Bytes], NEW pins
    PROVE  DeservedLevel(files, pins) =
             IF ~P0Deserved THEN "INVALID"
             ELSE IF ~P1Deserved THEN "P0"
             ELSE IF ~P2Deserved THEN "P1"
             ELSE IF P3Deserved /\ pins = AsTable(files) THEN "P3" ELSE "P2"
<1> DEFINE md == files[SkillMd]
<1>1. P0Deserved <=> /\ md # NoFile
                     /\ FrontConforms(md) /\ ManifestOf[md].body
  BY DEF P0Deserved, FrontDeserved
<1> QED BY <1>1 DEF DeservedLevel, P1Deserved, P2Deserved, P3Deserved

(* What a validation has seen, and what the directory deserves, depend on   *)
(* the files and the history alone.                                         *)
LEMMA SameSights ==
    ASSUME UNCHANGED <<files, vseen>>
    PROVE  /\ FrontSeen' <=> FrontSeen
           /\ BodySeen' <=> BodySeen
           /\ \A f : SoundSeen(f)' <=> SoundSeen(f)
           /\ \A a : CoverSeen(a)' <=> CoverSeen(a)
           /\ Quiet' <=> Quiet
           /\ FrontDeserved' <=> FrontDeserved
           /\ P0Deserved' <=> P0Deserved
           /\ P1Deserved' <=> P1Deserved
           /\ P2Deserved' <=> P2Deserved
           /\ P3Deserved' <=> P3Deserved
BY DEF FrontSeen, BodySeen, SoundSeen, CoverSeen, Quiet, FrontDeserved, P0Deserved, P1Deserved,
   P2Deserved, P3Deserved

(* A step that proves no level keeps what the level rests on.               *)
LEMMA LevelKept ==
    ASSUME SInv, Validating, UNCHANGED <<files, vseen, level>>
    PROVE  Claimed'
<1>1. Claimed /\ Judging /\ level # "P3"
  BY DEF SInv, ValidInv, Claimed, Judging, Validating, ValidateRunning
<1> QED BY <1>1, SameSights, ValidationAssumption DEF Claimed

(* What a quiet validation knows of its directory before a step that only   *)
(* looks at a file.                                                         *)
LEMMA QuietBefore ==
    ASSUME IInv, SInv, UNCHANGED <<vars, vseen>>, Validating, Quiet'
    PROVE  /\ ExactFindings /\ ExactLevel
           /\ DeservedLevel(files', pinned'[Shell]) =
                IF ~P0Deserved THEN "INVALID"
                ELSE IF ~P1Deserved THEN "P0"
                ELSE IF ~P2Deserved THEN "P1"
                ELSE IF P3Deserved /\ pinned[Shell] = AsTable(files) THEN "P3" ELSE "P2"
<1>1. files' = files /\ pinned' = pinned BY DEF vars
<1>2. Quiet BY <1>1, SameSights
<1>3. files \in [Locked -> Bytes] BY DEF IInv, TypeOK
<1>4. DeservedLevel(files', pinned'[Shell]) = DeservedLevel(files, pinned[Shell]) BY <1>1
<1> QED BY <1>2, <1>3, <1>4, DeservedFacts DEF SInv, Exact, Judging

JudgeInv == ValidationTypeOK /\ Knowledge /\ Claimed /\ LockLast /\ Exact

LEMMA LookManifestKeeps ==
    ASSUME IInv, SInv, LookManifest
    PROVE  JudgeInv'
<1>1. /\ vpc = "look manifest"
      /\ UNCHANGED <<vars, relock, vseen, level, abi, unchecked>>
      /\ \/ files[SkillMd] = NoFile /\ vpc' = "returned" /\ findings' = findings \cup {"P0"}
         \/ vpc' = "manifest" /\ findings' = findings
  BY DEF LookManifest, Pass, Go
<1>2. UNCHANGED <<files, pc>> /\ Validating BY <1>1 DEF vars, Validating, ValidateRunning
<1>3. ValidationTypeOK'
  BY <1>1 DEF SInv, SessionTypes, ValidationTypeOK, ValidateEnded, ValidateRunning
<1>4. Knowledge'
  BY <1>1 DEF Knowledge, AfterManifest, AfterBody, AfterAbi, AfterEffects, AfterTiers
<1>5. Claimed' BY <1>1, <1>2, LevelKept
<1>6. LockLast' BY <1>1, <1>2 DEF SInv, ValidInv, LockLast, Active
<1>7. Exact'
  <2> SUFFICES ASSUME Quiet' PROVE ExactFindings' /\ ExactLevel'
    BY DEF Exact
  <2>1. files[SkillMd] = NoFile => ~P0Deserved BY DEF P0Deserved, FrontDeserved
  <2> QED BY <1>1, <1>2, <2>1, QuietBefore
          DEF ExactFindings, ExactLevel, AfterAbi, AfterEffects, AfterTiers
<1> QED BY <1>3, <1>4, <1>5, <1>6, <1>7 DEF JudgeInv

LEMMA ReadManifestKeeps ==
    ASSUME IInv, SInv, ReadManifest
    PROVE  JudgeInv'
<1> DEFINE md == files[SkillMd]
<1>1. /\ vpc = "manifest"
      /\ UNCHANGED <<vars, relock, vseen, level, abi, unchecked>>
      /\ \/ vpc' = "raised" /\ findings' = findings
         \/ /\ ~ManifestOf[md].parses
            /\ vpc' = "returned" /\ findings' = findings \cup {"P0"}
         \/ /\ md # NoFile /\ ManifestOf[md].parses
            /\ vpc' = "body"
            /\ findings' = findings
                 \cup Found("P0", FrontmatterFindings(ManifestOf[md].flaws) # {})
  BY DEF ReadManifest, Pass, Go
<1>2. UNCHANGED <<files, pc>> /\ Validating BY <1>1 DEF vars, Validating, ValidateRunning
<1>3. md \in Bytes BY ValidationAssumption DEF IInv, TypeOK
<1>4. vpc' = "body" => (findings' = {} <=> findings = {} /\ FrontDeserved)
  <2>1. ASSUME vpc' = "body"
        PROVE  FrontmatterFindings(ManifestOf[md].flaws) = {} <=> FrontConforms(md)
    BY <1>1, <1>3, <2>1, FrontmatterComplete DEF Bytes, FrontConforms
  <2> QED BY <1>1, <2>1 DEF Found, FrontDeserved
<1>5. ValidationTypeOK'
  BY <1>1 DEF SInv, SessionTypes, ValidationTypeOK, ValidateEnded, ValidateRunning, Found
<1>6. Knowledge'
  <2>1. FrontDeserved => FrontSeen'
    <3>1. md \in vseen[SkillMd]
      BY <1>2, ValidationAssumption DEF SInv, ValidInv, HistoryComplete, Judging
    <3> QED BY <1>1, <1>2, <3>1 DEF FrontDeserved, FrontSeen
  <2> QED BY <1>1, <1>4, <2>1
          DEF Knowledge, AfterManifest, AfterBody, AfterAbi, AfterEffects, AfterTiers
<1>7. Claimed' BY <1>1, <1>2, LevelKept
<1>8. LockLast' BY <1>1, <1>2 DEF SInv, ValidInv, LockLast, Active
<1>9. Exact'
  <2> SUFFICES ASSUME Quiet', Judging' PROVE ExactFindings' /\ ExactLevel'
    BY DEF Exact
  <2>1. ~ManifestOf[md].parses => ~P0Deserved
    BY DEF P0Deserved, FrontDeserved, FrontConforms
  <2>2. FrontDeserved' <=> FrontDeserved BY <1>1, <1>2, SameSights
  <2> QED BY <1>1, <1>2, <1>4, <2>1, <2>2, QuietBefore
          DEF ExactFindings, ExactLevel, AfterAbi, AfterEffects, AfterTiers, Judging,
              Validating, ValidateRunning
<1> QED BY <1>5, <1>6, <1>7, <1>8, <1>9 DEF JudgeInv

LEMMA ReadBodyKeeps ==
    ASSUME IInv, SInv, ReadBody
    PROVE  JudgeInv'
<1> DEFINE md == files[SkillMd]
<1>1. /\ vpc = "body"
      /\ UNCHANGED <<vars, relock, vseen, level, abi, unchecked>>
      /\ \/ vpc' = "raised" /\ findings' = findings
         \/ /\ md # NoFile /\ vpc' = "look abi"
            /\ findings' = findings \cup Found("P0", ~ManifestOf[md].body)
  BY DEF ReadBody, Pass, Go
<1>2. UNCHANGED <<files, pc>> /\ Validating BY <1>1 DEF vars, Validating, ValidateRunning
<1>3. vpc' = "look abi" => (findings' = {} <=> findings = {} /\ ManifestOf[md].body)
  BY <1>1 DEF Found
<1>4. ValidationTypeOK'
  BY <1>1 DEF SInv, SessionTypes, ValidationTypeOK, ValidateEnded, ValidateRunning, Found
<1>5. Knowledge'
  <2>1. ASSUME vpc' = "look abi", findings' = {}
        PROVE  FrontSeen' /\ BodySeen'
    <3>1. md \in vseen[SkillMd]
      BY <1>2, ValidationAssumption DEF SInv, ValidInv, HistoryComplete, Judging
    <3>2. BodySeen BY <1>1, <1>3, <2>1, <3>1 DEF BodySeen
    <3>3. FrontSeen BY <1>1, <1>3, <2>1 DEF SInv, ValidInv, Knowledge, AfterManifest
    <3> QED BY <1>1, <1>2, <3>2, <3>3, SameSights
  <2> QED BY <1>1, <2>1
          DEF Knowledge, AfterManifest, AfterBody, AfterAbi, AfterEffects, AfterTiers
<1>6. Claimed' BY <1>1, <1>2, LevelKept
<1>7. LockLast' BY <1>1, <1>2 DEF SInv, ValidInv, LockLast, Active
<1>8. Exact'
  <2> SUFFICES ASSUME Quiet', Judging' PROVE ExactFindings' /\ ExactLevel'
    BY DEF Exact
  <2>1. vpc' = "look abi" BY <1>1 DEF Judging, Validating, ValidateRunning
  <2>2. P0Deserved' <=> P0Deserved BY <1>1, <1>2, SameSights
  <2>3. findings' = {} <=> P0Deserved
    BY <1>1, <1>2, <1>3, <2>1, QuietBefore DEF ExactFindings, P0Deserved
  <2> QED BY <1>1, <1>2, <2>1, <2>2, <2>3, QuietBefore
          DEF ExactFindings, ExactLevel, AfterAbi, AfterEffects, AfterTiers
<1> QED BY <1>4, <1>5, <1>6, <1>7, <1>8 DEF JudgeInv

LEMMA LookAbiKeeps ==
    ASSUME IInv, SInv, LookAbi
    PROVE  JudgeInv'
<1>1. /\ vpc = "look abi"
      /\ UNCHANGED <<vars, relock, vseen, abi, unchecked>>
      /\ level' = IF findings = {} THEN "P0" ELSE level
      /\ \/ /\ files[Abi] = NoFile
            /\ vpc' = "returned" /\ findings' = findings \cup {"P1"}
         \/ vpc' = "abi" /\ findings' = findings
  BY DEF LookAbi, Go, Proven
<1>2. UNCHANGED <<files, pc>> /\ Validating BY <1>1 DEF vars, Validating, ValidateRunning
<1>3. findings = {} => FrontSeen' /\ BodySeen'
  BY <1>1, <1>2, SameSights DEF SInv, ValidInv, Knowledge, AfterManifest, AfterBody
<1>4. ValidationTypeOK'
  BY <1>1 DEF SInv, SessionTypes, ValidationTypeOK, ValidateEnded, ValidateRunning, Levels
<1>5. Knowledge'
  BY <1>1, <1>3 DEF Knowledge, AfterManifest, AfterBody, AfterAbi, AfterEffects, AfterTiers
<1>6. Claimed'
  <2>1. CASE findings = {} BY <1>1, <1>3, <2>1 DEF Claimed
  <2>2. CASE findings # {} BY <1>1, <1>2, <2>2, LevelKept
  <2> QED BY <2>1, <2>2
<1>7. LockLast' BY <1>1, <1>2 DEF SInv, ValidInv, LockLast, Active
<1>8. Exact'
  <2> SUFFICES ASSUME Quiet' PROVE ExactFindings' /\ ExactLevel'
    BY DEF Exact
  <2>1. P0Deserved' <=> P0Deserved BY <1>1, <1>2, SameSights
  <2>2. files[Abi] = NoFile => ~P1Deserved BY TreeAssumption DEF P1Deserved, Sound
  <2> QED BY <1>1, <1>2, <2>1, <2>2, QuietBefore
          DEF ExactFindings, ExactLevel, AfterAbi, AfterEffects, AfterTiers
<1> QED BY <1>4, <1>5, <1>6, <1>7, <1>8 DEF JudgeInv

LEMMA ReadAbiKeeps ==
    ASSUME IInv, SInv, ReadAbi
    PROVE  JudgeInv'
<1>1. /\ vpc = "abi"
      /\ UNCHANGED <<vars, relock, vseen, level>>
      /\ \/ vpc' = "raised" /\ UNCHANGED <<findings, abi, unchecked>>
         \/ /\ files[Abi] \notin Broken \cup {NoFile}
            /\ vpc' = "schemas" /\ findings' = findings \cup Found("P1", files[Abi] \in Faulty)
            /\ abi' = files[Abi] /\ unchecked' = Schemas
  BY DEF ReadAbi, Pass, Go
<1>2. UNCHANGED <<files, pc>> /\ Validating BY <1>1 DEF vars, Validating, ValidateRunning
<1>3. files[Abi] \in Bytes BY ValidationAssumption DEF IInv, TypeOK
<1>4. vpc' = "schemas" => /\ abi' \in Contents \ Broken
                          /\ findings' = {} <=> findings = {} /\ Sound(files[Abi])
  BY <1>1, <1>3 DEF Found, Sound, Bytes
<1>5. ValidationTypeOK'
  BY <1>1, <1>4
     DEF SInv, SessionTypes, ValidationTypeOK, ValidateEnded, ValidateRunning, Found
<1>6. Knowledge'
  <2>1. files[Abi] \in vseen[Abi]
    BY <1>2, ValidationAssumption DEF SInv, ValidInv, HistoryComplete, Judging
  <2>2. findings = {} => FrontSeen' /\ BodySeen'
    BY <1>1, <1>2, SameSights DEF SInv, ValidInv, Knowledge, AfterManifest, AfterBody
  <2> QED BY <1>1, <1>4, <2>1, <2>2
          DEF Knowledge, AfterManifest, AfterBody, AfterAbi, AfterEffects, AfterTiers
<1>7. Claimed' BY <1>1, <1>2, LevelKept
<1>8. LockLast' BY <1>1, <1>2 DEF SInv, ValidInv, LockLast, Active
<1>9. Exact'
  <2> SUFFICES ASSUME Quiet', Judging' PROVE ExactFindings' /\ ExactLevel'
    BY DEF Exact
  <2>1. vpc' = "schemas" BY <1>1 DEF Judging, Validating, ValidateRunning
  <2>2. P0Deserved' <=> P0Deserved BY <1>1, <1>2, SameSights
  <2>3. findings' = {} <=>
          P0Deserved' /\ \A f \in (Schemas \ unchecked') \cup {Abi} : Sound(files'[f])
    BY <1>1, <1>2, <1>4, <2>1, <2>2, QuietBefore DEF ExactFindings
  <2> QED BY <1>1, <1>2, <2>1, <2>2, <2>3, QuietBefore
          DEF ExactFindings, ExactLevel, AfterAbi, AfterEffects, AfterTiers
<1> QED BY <1>5, <1>6, <1>7, <1>8, <1>9 DEF JudgeInv

LEMMA CheckSchemaKeeps ==
    ASSUME IInv, SInv, NEW f \in Schemas, CheckSchema(f)
    PROVE  JudgeInv'
<1>1. /\ vpc = "schemas" /\ vpc' = "schemas" /\ f \in unchecked
      /\ UNCHANGED <<vars, relock, vseen, level, abi>>
      /\ findings' = findings \cup Found("P1", files[f] \in Broken \cup Faulty \cup {NoFile})
      /\ unchecked' = unchecked \ {f}
  BY DEF CheckSchema, Go
<1>2. UNCHANGED <<files, pc>> /\ Validating BY <1>1 DEF vars, Validating, ValidateRunning
<1>3. f \in Locked /\ files[f] \in Bytes BY ValidationAssumption DEF IInv, TypeOK
<1>4. findings' = {} <=> findings = {} /\ Sound(files[f])
  BY <1>1, <1>3, TreeAssumption, ValidationAssumption DEF Found, Sound, Bytes
<1>5. ValidationTypeOK'
  BY <1>1 DEF SInv, SessionTypes, ValidationTypeOK, ValidateRunning, Found
<1>6. Knowledge'
  <2>1. Knowledge BY DEF SInv, ValidInv
  <2>2. ASSUME findings' = {}, NEW g \in Schemas \ unchecked'
        PROVE  SoundSeen(g)'
    <3>1. CASE g = f
      <4>1. files[f] \in vseen[f]
        BY <1>2, <1>3 DEF SInv, ValidInv, HistoryComplete, Judging
      <4> QED BY <1>1, <1>4, <2>2, <3>1, <4>1 DEF SoundSeen
    <3>2. CASE g # f
      <4>1. SoundSeen(g) BY <1>1, <1>4, <2>1, <2>2, <3>2 DEF Knowledge
      <4> QED BY <1>1, <1>2, <4>1, SameSights
    <3> QED BY <3>1, <3>2
  <2>3. findings' = {} => FrontSeen' /\ BodySeen'
    BY <1>1, <1>2, <1>4, <2>1, SameSights DEF Knowledge, AfterManifest, AfterBody, AfterAbi
  <2> QED BY <1>1, <1>4, <2>1, <2>2, <2>3
          DEF Knowledge, AfterManifest, AfterBody, AfterAbi, AfterEffects, AfterTiers
<1>7. Claimed' BY <1>1, <1>2, LevelKept
<1>8. LockLast' BY <1>1, <1>2 DEF SInv, ValidInv, LockLast, Active
<1>9. Exact'
  <2> SUFFICES ASSUME Quiet' PROVE ExactFindings' /\ ExactLevel'
    BY DEF Exact
  <2>1. P0Deserved' <=> P0Deserved BY <1>1, <1>2, SameSights
  <2>2. Schemas \ unchecked' = (Schemas \ unchecked) \cup {f} BY <1>1
  <2>3. findings' = {} <=>
          P0Deserved' /\ \A g \in (Schemas \ unchecked') \cup {Abi} : Sound(files'[g])
    BY <1>1, <1>2, <1>4, <2>1, <2>2, QuietBefore DEF ExactFindings
  <2> QED BY <1>1, <1>2, <2>1, <2>3, QuietBefore
          DEF ExactFindings, ExactLevel, AfterAbi, AfterEffects, AfterTiers
<1> QED BY <1>5, <1>6, <1>7, <1>8, <1>9 DEF JudgeInv

LEMMA ReadEffectsKeeps ==
    ASSUME IInv, SInv, ReadEffects
    PROVE  JudgeInv'
<1>1. /\ vpc = "schemas" /\ unchecked = {}
      /\ UNCHANGED <<vars, relock, vseen, abi, unchecked>>
      /\ level' = IF findings = {} THEN "P1" ELSE level
      /\ \/ /\ files[Effects] \in Broken \cup {NoFile}
            /\ vpc' = "returned" /\ findings' = findings \cup {"P2"}
         \/ /\ files[Effects] \notin Broken \cup {NoFile}
            /\ vpc' = "degradation"
            /\ findings' = findings \cup Found("P2", files[Effects] \in Faulty)
  BY DEF ReadEffects, Go, Proven
<1>2. UNCHANGED <<files, pc>> /\ Validating BY <1>1 DEF vars, Validating, ValidateRunning
<1>3. files[Effects] \in Bytes BY ValidationAssumption DEF IInv, TypeOK
<1>4. /\ vpc' = "degradation" => (findings' = {} <=> findings = {} /\ Sound(files[Effects]))
      /\ vpc' = "returned" => ~Sound(files[Effects]) /\ findings' # {}
  BY <1>1, <1>3, TreeAssumption DEF Found, Sound, Bytes
<1>5. /\ abi \in vseen[Abi] /\ abi \in Contents \ Broken
      /\ findings = {} => /\ FrontSeen' /\ BodySeen' /\ Sound(abi)
                          /\ \A f \in Schemas : SoundSeen(f)'
  BY <1>1, <1>2, SameSights
     DEF SInv, ValidInv, Knowledge, AfterManifest, AfterBody, AfterAbi
<1>6. ValidationTypeOK'
  BY <1>1
     DEF SInv, SessionTypes, ValidationTypeOK, ValidateEnded, ValidateRunning, Found, Levels
<1>7. Knowledge'
  <2>1. Sound(files[Effects]) => SoundSeen(Effects)'
    <3>1. files[Effects] \in vseen[Effects]
      BY <1>2, ValidationAssumption DEF SInv, ValidInv, HistoryComplete, Judging
    <3> QED BY <1>1, <3>1 DEF SoundSeen
  <2> QED BY <1>1, <1>4, <1>5, <2>1
          DEF Knowledge, AfterManifest, AfterBody, AfterAbi, AfterEffects, AfterTiers
<1>8. Claimed'
  <2>1. CASE findings = {}
    <3>1. SoundSeen(Abi)' BY <1>1, <1>5, <2>1 DEF SoundSeen
    <3> QED BY <1>1, <1>5, <2>1, <3>1 DEF Claimed
  <2>2. CASE findings # {} BY <1>1, <1>2, <2>2, LevelKept
  <2> QED BY <2>1, <2>2
<1>9. LockLast' BY <1>1, <1>2, <1>4 DEF SInv, ValidInv, LockLast, Active
<1>10. Exact'
  <2> SUFFICES ASSUME Quiet' PROVE ExactFindings' /\ ExactLevel'
    BY DEF Exact
  <2>1. /\ P0Deserved' <=> P0Deserved
        /\ P1Deserved' <=> P1Deserved
        /\ P2Deserved' <=> P2Deserved
    BY <1>1, <1>2, SameSights
  <2>2. findings = {} <=> P0Deserved /\ P1Deserved
    BY <1>1, <1>2, QuietBefore DEF ExactFindings, P1Deserved
  <2>3. level = IF P0Deserved THEN "P0" ELSE "INVALID"
    BY <1>1, <1>2, QuietBefore DEF ExactLevel
  <2> QED BY <1>1, <1>2, <1>4, <2>1, <2>2, <2>3, QuietBefore
          DEF ExactFindings, ExactLevel, P2Deserved, AfterAbi, AfterEffects, AfterTiers
<1> QED BY <1>6, <1>7, <1>8, <1>9, <1>10 DEF JudgeInv

LEMMA ReadDegradationKeeps ==
    ASSUME IInv, SInv, ReadDegradation
    PROVE  JudgeInv'
<1> DEFINE deg == files[Degrade]
           errors == DegradationErrors(TiersOf[deg], RequiredOf[abi])
<1>1. /\ vpc = "degradation"
      /\ UNCHANGED <<vars, relock, vseen, abi, unchecked>>
      /\ level' = IF findings = {} THEN "P2" ELSE level
      /\ \/ /\ deg \in Broken \cup {NoFile}
            /\ vpc' = "returned" /\ findings' = findings \cup {"P3"}
         \/ /\ deg \notin Broken \cup {NoFile}
            /\ vpc' = IF "too few" \in errors THEN "returned" ELSE "check lock"
            /\ findings' = findings \cup Found("P3", errors # {} \/ deg \in Faulty)
  BY DEF ReadDegradation, Go, Proven
<1>2. UNCHANGED <<files, pc>> /\ Validating BY <1>1 DEF vars, Validating, ValidateRunning
<1>3. deg \in Bytes BY ValidationAssumption DEF IInv, TypeOK
<1>4. deg \in Contents => (errors = {} <=> Covers(TiersOf[deg], RequiredOf[abi]))
  BY ValidationAssumption, DegradationComplete
<1>5. /\ vpc' = "check lock" =>
           (findings' = {} <=> /\ findings = {} /\ Sound(deg)
                               /\ Covers(TiersOf[deg], RequiredOf[abi]))
      /\ vpc' = "returned" =>
           /\ ~ (Sound(deg) /\ Covers(TiersOf[deg], RequiredOf[abi]))
           /\ findings' # {}
      /\ vpc' \in {"check lock", "returned"}
  <2>1. CASE deg \in Broken \cup {NoFile}
    BY <1>1, <2>1, TreeAssumption DEF Sound
  <2>2. CASE deg \notin Broken \cup {NoFile}
    <3>1. deg \in Contents /\ (Sound(deg) <=> deg \notin Faulty)
      BY <1>3, <2>2 DEF Bytes, Sound
    <3>2. findings' = {} <=> findings = {} /\ errors = {} /\ Sound(deg)
      BY <1>1, <2>2, <3>1 DEF Found
    <3>3. vpc' = "returned" => errors # {} BY <1>1, <2>2
    <3> QED BY <1>1, <1>4, <2>2, <3>1, <3>2, <3>3
  <2> QED BY <2>1, <2>2
<1>6. /\ abi \in vseen[Abi] /\ abi \in Contents \ Broken
      /\ findings = {} => /\ FrontSeen' /\ BodySeen' /\ Sound(abi)
                          /\ \A f \in Schemas \cup {Effects} : SoundSeen(f)'
  BY <1>1, <1>2, SameSights
     DEF SInv, ValidInv, Knowledge, AfterManifest, AfterBody, AfterAbi, AfterEffects
<1>7. ValidationTypeOK'
  BY <1>1, <1>5
     DEF SInv, SessionTypes, ValidationTypeOK, ValidateEnded, ValidateRunning, Found, Levels
<1>8. Knowledge'
  <2>1. Sound(deg) /\ Covers(TiersOf[deg], RequiredOf[abi]) => CoverSeen(abi)'
    <3>1. deg \in vseen[Degrade]
      BY <1>2, ValidationAssumption DEF SInv, ValidInv, HistoryComplete, Judging
    <3> QED BY <1>1, <3>1 DEF CoverSeen
  <2> QED BY <1>1, <1>5, <1>6, <2>1
          DEF Knowledge, AfterManifest, AfterBody, AfterAbi, AfterEffects, AfterTiers
<1>9. Claimed'
  <2>1. CASE findings = {}
    <3>1. SoundSeen(Abi)' BY <1>1, <1>6, <2>1 DEF SoundSeen
    <3> QED BY <1>1, <1>6, <2>1, <3>1 DEF Claimed
  <2>2. CASE findings # {} BY <1>1, <1>2, <2>2, LevelKept
  <2> QED BY <2>1, <2>2
<1>10. LockLast' BY <1>1, <1>2, <1>5 DEF SInv, ValidInv, LockLast, Active
<1>11. Exact'
  <2> SUFFICES ASSUME Quiet' PROVE ExactFindings' /\ ExactLevel'
    BY DEF Exact
  <2>1. /\ P0Deserved' <=> P0Deserved
        /\ P1Deserved' <=> P1Deserved
        /\ P2Deserved' <=> P2Deserved
        /\ P3Deserved' <=> P3Deserved
    BY <1>1, <1>2, SameSights
  <2>2. findings = {} <=> P0Deserved /\ P1Deserved /\ P2Deserved
    BY <1>1, <1>2, QuietBefore DEF ExactFindings
  <2>3. /\ abi = files[Abi]
        /\ level = IF ~P0Deserved THEN "INVALID" ELSE IF ~P1Deserved THEN "P0" ELSE "P1"
    BY <1>1, <1>2, QuietBefore DEF ExactLevel, AfterAbi, AfterEffects
  <2>4. P3Deserved <=> Sound(deg) /\ Covers(TiersOf[deg], RequiredOf[abi])
    BY <2>3 DEF P3Deserved
  <2> QED BY <1>1, <1>2, <1>5, <2>1, <2>2, <2>3, <2>4, QuietBefore
          DEF ExactFindings, ExactLevel, AfterAbi, AfterEffects, AfterTiers
<1> QED BY <1>7, <1>8, <1>9, <1>10, <1>11 DEF JudgeInv

(* What a validation knows before the lock check stays true while it runs.  *)
LEMMA LockPartFrame ==
    ASSUME IInv, SInv, vpc \in AfterTiers, vpc' = "lock",
           UNCHANGED <<files, findings, level, abi, unchecked, relock, vseen>>
    PROVE  ValidationTypeOK' /\ Knowledge' /\ Claimed' /\ Exact'
<1>1. Validating BY DEF AfterTiers, Validating, ValidateRunning
<1>2. ValidationTypeOK'
  BY DEF SInv, SessionTypes, ValidationTypeOK, ValidateRunning
<1>3. Knowledge'
  <2>1. Knowledge BY DEF SInv, ValidInv
  <2>2. vpc # "schemas" BY DEF AfterTiers
  <2> QED BY <2>1, <2>2, SameSights
          DEF Knowledge, AfterManifest, AfterBody, AfterAbi, AfterEffects, AfterTiers
<1>4. Claimed' BY <1>1, LevelKept
<1>5. Exact'
  <2> SUFFICES ASSUME Quiet' PROVE ExactFindings' /\ ExactLevel'
    BY DEF Exact
  <2>1. ExactFindings /\ ExactLevel BY <1>1, SameSights DEF SInv, Exact, Judging
  <2> QED BY <2>1, SameSights
          DEF ExactFindings, ExactLevel, AfterAbi, AfterEffects, AfterTiers
<1> QED BY <1>2, <1>3, <1>4, <1>5

LEMMA StartLockCheckKeeps ==
    ASSUME IInv, SInv, StartLockCheck
    PROVE  JudgeInv'
<1>1. /\ vpc = "check lock" /\ vpc' = "lock"
      /\ UNCHANGED <<findings, level, abi, unchecked, relock, vseen>>
  BY DEF StartLockCheck
<1>2. /\ files' = files
      /\ seen'[Shell] = [f \in Locked |-> {files[f]}]
      /\ pc'[Shell] \in {"scan", "rejected"}
      /\ ~relock => cmd'[Shell] = "check_lock"
  BY ValidationAssumption DEF StartLockCheck, StartLock, StartVerify, RejectUnreadable,
     BeginScan, Begin, disk, IInv, TypeOK
<1>3. ValidationTypeOK' /\ Knowledge' /\ Claimed' /\ Exact'
  BY <1>1, <1>2, LockPartFrame DEF AfterTiers
<1>4. LockLast'
  <2>1. \A f \in Locked : files[f] \in vseen[f]
    BY <1>1 DEF SInv, ValidInv, HistoryComplete, Judging, Validating, ValidateRunning
  <2> QED BY <1>1, <1>2, <2>1 DEF LockLast, Running, Ended
<1> QED BY <1>3, <1>4 DEF JudgeInv

LEMMA LockStepKeeps ==
    ASSUME IInv, SInv, LockStep
    PROVE  JudgeInv'
<1>1. /\ vpc = "lock" /\ Step(Shell)
      /\ UNCHANGED <<vpc, findings, level, abi, unchecked, relock, vseen>>
  BY DEF LockStep, validateVars
<1>2. /\ files' = files /\ cmd' = cmd /\ seen' = seen
      /\ pc'[Shell] \in Running \cup Ended
  BY <1>1, ValidationAssumption DEF Step, List, ReadFile, ReadVanished, OpenLock, WriteLock,
     WriteOrphan, Compare, End, disk, Running, Ended, IInv, TypeOK, Readable, AllRead
<1>3. ValidationTypeOK' /\ Knowledge' /\ Claimed' /\ Exact'
  BY <1>1, <1>2, LockPartFrame DEF AfterTiers
<1>4. LockLast'
  BY <1>1, <1>2 DEF SInv, ValidInv, LockLast
<1> QED BY <1>3, <1>4 DEF JudgeInv

(* On a quiet directory the lock check accepts exactly the lock that pins   *)
(* what the files hold.                                                     *)
LEMMA LockCheckExact ==
    ASSUME IInv, SInv, vpc = "lock", ~relock, Quiet
    PROVE  /\ pc[Shell] = "ok" => pinned[Shell] = AsTable(files)
           /\ pc[Shell] = "rejected" => pinned[Shell] # AsTable(files)
<1>1. cmd[Shell] = "check_lock" /\ Verdicts(Shell)
  BY ValidationAssumption DEF SInv, ValidInv, LockLast, IInv, ProcInv
<1>2. \A f \in Locked : seen[Shell][f] = {files[f]}
  BY DEF SInv, ValidInv, LockLast, Quiet
<1>3. /\ files \in Digests /\ AsTable(files) \in Tables
      /\ \A f \in Locked : AsTable(files)[f] = files[f]
      /\ \A f \in Ephemeral : AsTable(files)[f] = NoFile
  BY AsTableType DEF IInv, TypeOK, Digests
<1>4. pinned[Shell] \in Tables \cup {NoTable}
  BY ValidationAssumption DEF IInv, TypeOK
<1>5. ASSUME pc[Shell] = "ok"
      PROVE  pinned[Shell] = AsTable(files)
  <2>1. pinned[Shell] # NoTable /\ Witnessed(Shell, pinned[Shell])
    BY <1>1, <1>5 DEF Verdicts, Verifiers
  <2>2. \A f \in Paths : pinned[Shell][f] = AsTable(files)[f]
    BY <1>2, <1>3, <2>1 DEF Witnessed, Paths
  <2> QED BY <1>3, <1>4, <2>1, <2>2 DEF Tables
<1>6. ASSUME pc[Shell] = "rejected", pinned[Shell] = AsTable(files)
      PROVE  FALSE
  <2>1. pinned[Shell] # NoTable BY <1>3, <1>6, LockAssumption
  <2>2. \/ \E f \in Locked : seen[Shell][f] # {pinned[Shell][f]}
        \/ PinnedEphemeral(pinned[Shell]) # {}
    BY <1>1, <1>6, <2>1 DEF Verdicts
  <2> QED BY <1>2, <1>3, <1>6, <2>2 DEF PinnedEphemeral
<1> QED BY <1>5, <1>6

LEMMA EndValidationKeeps ==
    ASSUME IInv, SInv, vpc = "lock", EndValidation
    PROVE  JudgeInv'
<1>1. /\ ~Active(Shell)
      /\ UNCHANGED <<vars, relock, vseen, abi, unchecked>>
      /\ \/ pc[Shell] = "error" /\ vpc' = "raised" /\ findings' = findings
         \/ /\ pc[Shell] # "error" /\ vpc' = "returned"
            /\ findings' = findings \cup LockFindings
      /\ level' = IF pc[Shell] = "ok" /\ findings \cup LockFindings = {} THEN "P3" ELSE level
  BY DEF EndValidation, Go
<1>2. /\ UNCHANGED <<files, pc, cmd, pinned, seen>>
      /\ Validating /\ pc[Shell] \in Ended
  BY <1>1 DEF vars, Validating, ValidateRunning, SInv, ValidInv, LockLast, Active
<1>3. LockFindings = {} <=> pc[Shell] # "rejected" /\ ~relock
  BY DEF LockFindings, Found
<1>4. ValidationTypeOK'
  BY <1>1 DEF SInv, SessionTypes, ValidationTypeOK, ValidateEnded, ValidateRunning, Levels,
     LockFindings, Found
<1>5. Knowledge'
  BY <1>1 DEF Knowledge, AfterManifest, AfterBody, AfterAbi, AfterEffects, AfterTiers
<1>6. Claimed'
  <2>1. CASE pc[Shell] = "ok" /\ findings \cup LockFindings = {}
    <3>1. /\ FrontSeen' /\ BodySeen'
          /\ abi \in vseen[Abi] /\ Sound(abi) /\ CoverSeen(abi)'
          /\ \A f \in Schemas \cup {Effects} : SoundSeen(f)'
      BY <1>1, <1>2, <2>1, SameSights
         DEF SInv, ValidInv, Knowledge, AfterManifest, AfterBody, AfterAbi, AfterEffects,
             AfterTiers
    <3>2. SoundSeen(Abi)' BY <1>1, <3>1 DEF SoundSeen
    <3>3. pinned[Shell] # NoTable /\ Witnessed(Shell, pinned[Shell])
      <4>1. cmd[Shell] = "check_lock" /\ Verdicts(Shell)
        BY <1>3, <2>1, ValidationAssumption DEF SInv, ValidInv, LockLast, IInv, ProcInv
      <4> QED BY <2>1, <4>1 DEF Verdicts, Verifiers
    <3>4. Witnessed(Shell, pinned[Shell])' BY <1>2, <3>3 DEF Witnessed
    <3>5. pinned'[Shell] # NoTable /\ vpc' = "returned" BY <1>1, <1>2, <2>1, <3>3
    <3>6. \E a \in vseen'[Abi] : Sound(a) /\ CoverSeen(a)'
      BY <1>1, <1>2, <3>1, SameSights
    <3> QED BY <3>1, <3>2, <3>4, <3>5, <3>6 DEF Claimed
  <2>2. CASE ~ (pc[Shell] = "ok" /\ findings \cup LockFindings = {})
    <3>1. level' = level BY <1>1, <2>2
    <3> QED BY <1>1, <1>2, <3>1, LevelKept
  <2> QED BY <2>1, <2>2
<1>7. LockLast'
  BY <1>1, <1>2, <1>3 DEF LockLast, Active, Ended
<1>8. Exact'
  <2> SUFFICES ASSUME Quiet', Judging' PROVE ExactFindings' /\ ExactLevel'
    BY DEF Exact
  <2>1. vpc' = "returned" /\ pc[Shell] \in {"ok", "rejected"}
    BY <1>1, <1>2 DEF Judging, Validating, ValidateRunning, Ended
  <2>2. Quiet BY <1>1, <1>2, SameSights
  <2>3. findings = {} <=> P0Deserved /\ P1Deserved /\ P2Deserved /\ P3Deserved
    BY <1>1, <1>2, QuietBefore DEF ExactFindings, AfterTiers
  <2>4. level = IF ~P0Deserved THEN "INVALID" ELSE IF ~P1Deserved THEN "P0"
                ELSE IF ~P2Deserved THEN "P1" ELSE "P2"
    BY <1>1, <1>2, QuietBefore DEF ExactLevel, AfterEffects, AfterTiers
  <2>5. ~relock => /\ pc[Shell] = "ok" <=> pinned[Shell] = AsTable(files)
                   /\ LockFindings = {} <=> pc[Shell] = "ok"
    BY <1>3, <2>1, <2>2, LockCheckExact
  <2>6. ~relock => level' = DeservedLevel(files', pinned'[Shell])
    BY <1>1, <1>2, <2>3, <2>4, <2>5, QuietBefore
  <2> QED BY <1>1, <2>1, <2>6
          DEF ExactFindings, ExactLevel, AfterAbi, AfterEffects, AfterTiers
<1> QED BY <1>4, <1>5, <1>6, <1>7, <1>8 DEF JudgeInv

LEMMA ValidateKeepsInv ==
    ASSUME IInv, SInv, Validate
    PROVE  SInv'
<1>1. /\ files' = files /\ vseen' = vseen
      /\ UNCHANGED <<xpc, part, draft, object, xseen, edits>>
      /\ Validating /\ vpc' # "idle"
  BY ValidateStepLocks
     DEF Validate, ValidateStep, exportLocal, LookManifest, ReadManifest, ReadBody, LookAbi,
         ReadAbi, CheckSchema, ReadEffects, ReadDegradation, Pass, Go, StartLockCheck,
         LockStep, EndValidation, validateVars, Validating, ValidateRunning
<1>2. JudgeInv'
  <2>1. EndValidation => vpc = "lock" BY DEF EndValidation, Go
  <2> QED BY <2>1, LookManifestKeeps, ReadManifestKeeps, ReadBodyKeeps, LookAbiKeeps,
             ReadAbiKeeps, CheckSchemaKeeps, ReadEffectsKeeps, ReadDegradationKeeps,
             StartLockCheckKeeps, LockStepKeeps, EndValidationKeeps
          DEF Validate, ValidateStep
<1>3. Fresh' /\ HistoryComplete'
  BY <1>1 DEF SInv, ValidInv, Fresh, HistoryComplete, Judging
<1>4. xpc = "idle"
  BY <1>1 DEF SInv, ExportLater, Validated, Validating, ValidateRunning
<1>5. ExportInv' /\ ExportLater'
  BY <1>1, <1>4 DEF SInv, ExportInv, ExportLater, Export!Exporting, Export!ExportRunning
<1>6. SessionTypes'
  BY <1>1, <1>2 DEF SInv, SessionTypes, JudgeInv, Export!ExportTypeOK
<1> QED BY <1>2, <1>3, <1>5, <1>6 DEF SInv, ValidInv, JudgeInv

----------------------------------------------------------------------------
(* The theorems.                                                            *)

LEMMA SessionStarts == SessionInit => SInv
<1> SUFFICES ASSUME SessionInit PROVE SInv
  OBVIOUS
<1>1. /\ vpc = "idle" /\ findings = {} /\ level = "INVALID" /\ abi = NoFile
      /\ unchecked = {} /\ relock = FALSE /\ vseen = [f \in Locked |-> {files[f]}]
      /\ xpc = "idle" /\ part = 1 /\ draft = Export!NoObject /\ object = NoFile
      /\ xseen = [f \in DOMAIN files |-> {files[f]}] /\ edits = 0
      /\ files \in [Locked -> Bytes] /\ pc[Shell] = "idle"
  BY ValidationAssumption DEF SessionInit, Init, ValidateInit, Export!ExportInit
<1>2. Export!NoObject \in Export!Objects BY DEF Export!NoObject, Export!Objects
<1>3. /\ vseen \in [Locked -> SUBSET Bytes] /\ xseen \in [Locked -> SUBSET Bytes]
  BY <1>1
<1>4. SessionTypes
  <2>1. ValidationTypeOK BY <1>1, <1>3 DEF ValidationTypeOK, Levels
  <2>2. Export!ExportTypeOK BY <1>1, <1>2, FieldFacts DEF Export!ExportTypeOK
  <2>3. edits \in 0..MaxEdits BY <1>1, SessionAssumption
  <2> QED BY <1>3, <2>1, <2>2, <2>3 DEF SessionTypes
<1>5. ~Judging /\ ~Export!Exporting
  BY <1>1 DEF Judging, Validating, ValidateRunning, Export!Exporting, Export!ExportRunning
<1>6. ValidInv
  BY <1>1, <1>5 DEF ValidInv, Fresh, HistoryComplete, Knowledge, Claimed, LockLast, Active,
     Running, AfterManifest, AfterBody, AfterAbi, AfterEffects, AfterTiers
<1>7. Exact /\ ExportInv /\ ExportLater
  BY <1>1, <1>5 DEF Exact, ExportInv, ExportLater
<1> QED BY <1>4, <1>6, <1>7 DEF SInv

(* In every state of every session, whatever is edited, checked out or      *)
(* killed, the lock's invariant and the session's hold together: what a     *)
(* validation knows and what an object holds come from what the files held  *)
(* while it ran.                                                            *)
THEOREM SessionInvariance == SessionSpec => [](IInv /\ SInv)
<1>1. SessionSpec => []IInv
  BY SessionRunsLockCommands, InvarianceUnfair
<1>2. SessionInit => SInv BY SessionStarts
<1>3. IInv /\ SInv /\ [SessionNext]_sessionVars => SInv'
  <2> SUFFICES ASSUME IInv, SInv, [SessionNext]_sessionVars PROVE SInv'
    OBVIOUS
  <2>1. CASE \E f \in Locked : \E c \in Drafts[f] : EditFile(f, c)
    <3>1. PICK f \in Locked, c \in Bytes : EditFile(f, c) BY <2>1, SessionAssumption
    <3> QED BY <3>1, EditFileKeepsInv
  <2>2. CASE \E v \in StrayTables \cup {NoFile} : EditLock(v)
    BY <2>2, EditLockKeepsInv
  <2>3. CASE \E r \in BOOLEAN : BeginValidation(r) BY <2>3, BeginValidationKeepsInv
  <2>4. CASE BeginExport BY <2>4, BeginExportKeepsInv
  <2>5. CASE Validate BY <2>5, ValidateKeepsInv
  <2>6. CASE ExportOn BY <2>6, ExportOnKeepsInv
  <2>7. CASE Kill BY <2>7, KillKeepsInv
  <2>8. CASE UNCHANGED sessionVars
    <3>1. UNCHANGED <<vars, validateVars, edits, xpc, part, draft, object, xseen>>
      BY <2>8 DEF sessionVars, exportLocal
    <3>2. ValidInv' /\ Exact' /\ ValidationTypeOK' /\ edits' \in 0..MaxEdits
      BY <3>1, ExportKeepsValidation
    <3>3. SessionTypes' /\ ExportInv' /\ ExportLater'
      BY <3>1, <3>2 DEF SInv, SessionTypes, ExportInv, ExportLater, Export!ExportTypeOK,
         Export!Exporting, Validated, vars, validateVars
    <3> QED BY <3>2, <3>3 DEF SInv
  <2> QED BY <2>1, <2>2, <2>3, <2>4, <2>5, <2>6, <2>7, <2>8 DEF SessionNext
<1> QED BY <1>1, <1>2, <1>3, PTL DEF SessionSpec

(* Every variable keeps its type through both commands, the author's edits  *)
(* and a kill at any step (validate_skill, export_requirement_object).      *)
THEOREM SessionTypeCorrect == SessionSpec => []SessionTypeOK
<1>1. IInv /\ SInv => SessionTypeOK
  BY DEF IInv, SInv, SessionTypes, SessionTypeOK
<1> QED BY <1>1, SessionInvariance, PTL

(* `sabi validate` never gives a level on the word of a file nobody saw:    *)
(* each part of the level rests on something that file held during this     *)
(* run, and P3 on tiers that cover an ABI of this run under a lock that     *)
(* every file agreed with (validate_skill).                                 *)
THEOREM LevelAlwaysProven == SessionSpec => []LevelProven
<1>1. IInv /\ SInv => LevelProven
  <2> SUFFICES ASSUME IInv, SInv, vpc = "returned" PROVE LevelProven
    BY DEF LevelProven
  <2>1. Claimed /\ Judging BY DEF SInv, ValidInv, Judging
  <2>2. level \in Levels BY DEF SInv, SessionTypes, ValidationTypeOK
  <2>3. AtLeast("P0") => level # "INVALID" BY DEF AtLeast
  <2>4. AtLeast("P1") => level \in {"P1", "P2", "P3"} BY DEF AtLeast
  <2>5. AtLeast("P2") => level \in {"P2", "P3"} BY DEF AtLeast
  <2>6. AtLeast("P3") => level = "P3" BY DEF AtLeast
  <2>7. \A a : CoverSeen(a) => \E d \in vseen[Degrade] :
                 Sound(d) /\ Covers(TiersOf[d], RequiredOf[a])
    BY DEF CoverSeen
  <2> QED BY <2>1, <2>3, <2>4, <2>5, <2>6, <2>7
          DEF LevelProven, Claimed, FrontSeen, BodySeen, SoundSeen
<1> QED BY <1>1, SessionInvariance, PTL

(* On a directory nobody touches, `sabi validate` gives exactly the level   *)
(* the directory deserves, whichever checks an early return cut short,      *)
(* except that no rule charges it with a final newline in its name          *)
(* (validate_skill, FrontmatterComplete).                                   *)
THEOREM LevelIsHighest == SessionSpec => []HighestLevel
<1>1. SInv => HighestLevel
  BY DEF SInv, Exact, ExactLevel, Quiet, Judging, HighestLevel
<1> QED BY <1>1, SessionInvariance, PTL

(* A file that is about to be read was there when is_file() looked.         *)
FoundFirst ==
    /\ vpc = "manifest" => vseen[SkillMd] # {NoFile}
    /\ vpc = "body" => vseen[SkillMd] # {NoFile}
    /\ vpc = "abi" => vseen[Abi] # {NoFile}

(* A read that raises met a file that was gone after it had been found, or  *)
(* an ABI that does not parse.                                              *)
LEMMA ValidateKeepsReasons ==
    ASSUME IInv, SInv, FoundFirst, ExceptionJustified, Validate
    PROVE  FoundFirst' /\ ExceptionJustified'
<1> USE ValidationAssumption
<1>1. vseen' = vseen /\ Validating
  BY DEF Validate, ValidateStep, LookManifest, ReadManifest, ReadBody, LookAbi, ReadAbi,
     CheckSchema, ReadEffects, ReadDegradation, StartLockCheck, LockStep, EndValidation,
     Pass, Go, validateVars, Validating, ValidateRunning
<1>2. \A f \in Locked : files[f] \in vseen[f]
  BY <1>1 DEF SInv, ValidInv, HistoryComplete, Judging
<1>3. CASE LookManifest
  <2>1. vpc' = "manifest" => files[SkillMd] # NoFile
    BY <1>3 DEF LookManifest, Pass, Go
  <2>2. vpc' \in {"manifest", "returned"} BY <1>3 DEF LookManifest, Pass, Go
  <2> QED BY <1>1, <1>2, <2>1, <2>2 DEF FoundFirst, ExceptionJustified
<1>4. CASE ReadManifest
  <2>1. /\ vpc = "manifest" /\ vpc' \in {"raised", "returned", "body"}
        /\ vpc' = "raised" => files[SkillMd] = NoFile
    BY <1>4 DEF ReadManifest, Pass, Go
  <2> QED BY <1>1, <1>2, <2>1 DEF FoundFirst, ExceptionJustified
<1>5. CASE ReadBody
  <2>1. /\ vpc = "body" /\ vpc' \in {"raised", "look abi"}
        /\ vpc' = "raised" => files[SkillMd] = NoFile
    BY <1>5 DEF ReadBody, Pass, Go
  <2> QED BY <1>1, <1>2, <2>1 DEF FoundFirst, ExceptionJustified
<1>6. CASE LookAbi
  <2>1. vpc' \in {"returned", "abi"} /\ (vpc' = "abi" => files[Abi] # NoFile)
    BY <1>6 DEF LookAbi, Go
  <2> QED BY <1>1, <1>2, <2>1 DEF FoundFirst, ExceptionJustified
<1>7. CASE ReadAbi
  <2>1. /\ vpc = "abi" /\ vpc' \in {"raised", "schemas"}
        /\ vpc' = "raised" => files[Abi] \in Broken \cup {NoFile}
    BY <1>7 DEF ReadAbi, Pass, Go
  <2> QED BY <1>1, <1>2, <2>1 DEF FoundFirst, ExceptionJustified
<1>8. CASE EndValidation
  <2>1. /\ vpc = "lock" /\ vpc' \in {"raised", "returned"}
        /\ vpc' = "raised" => pc[Shell] = "error"
    BY <1>8 DEF EndValidation, Go
  <2>2. ASSUME pc[Shell] = "error"
        PROVE  \E f \in Locked : NoFile \in vseen[f] /\ vseen[f] # {NoFile}
    <3>1. PICK f \in Locked : NoFile \in seen[Shell][f] /\ seen[Shell][f] # {NoFile}
      BY <2>2, ErrorIsRace DEF ErrorOnlyOnRace
    <3>2. seen[Shell][f] \subseteq vseen[f]
      BY <2>1 DEF SInv, ValidInv, LockLast
    <3> QED BY <3>1, <3>2
  <2> QED BY <1>1, <2>1, <2>2 DEF FoundFirst, ExceptionJustified
<1>9. CASE \/ \E f \in Schemas : CheckSchema(f)
           \/ ReadEffects \/ ReadDegradation \/ StartLockCheck \/ LockStep
  <2>1. vpc' \notin {"manifest", "body", "abi", "raised"}
    BY <1>9 DEF CheckSchema, ReadEffects, ReadDegradation, StartLockCheck, LockStep, Go,
       validateVars
  <2> QED BY <2>1 DEF FoundFirst, ExceptionJustified
<1> QED BY <1>3, <1>4, <1>5, <1>6, <1>7, <1>8, <1>9 DEF Validate, ValidateStep

(* `sabi validate` loses its findings in an exception only when a file      *)
(* disappears under it or skill.abi.yaml does not parse, whatever else is   *)
(* missing or broken (validate_skill, check_lock).                          *)
THEOREM ExceptionAlwaysJustified == SessionSpec => []ExceptionJustified
<1>1. SessionInit => FoundFirst /\ ExceptionJustified
  BY DEF SessionInit, ValidateInit, FoundFirst, ExceptionJustified
<1>2. /\ IInv /\ SInv /\ FoundFirst /\ ExceptionJustified
      /\ [SessionNext]_sessionVars
      => FoundFirst' /\ ExceptionJustified'
  <2> SUFFICES ASSUME IInv, SInv, FoundFirst, ExceptionJustified, [SessionNext]_sessionVars
               PROVE  FoundFirst' /\ ExceptionJustified'
    OBVIOUS
  <2> USE ValidationAssumption
  <2>1. CASE \E f \in Locked : \E c \in Drafts[f] : EditFile(f, c)
    <3>1. PICK f \in Locked, c \in Bytes : EditFile(f, c) BY <2>1, SessionAssumption
    <3>2. vpc' = vpc /\ (vpc = "raised" => vseen' = vseen)
      BY <3>1 DEF EditFile, ValidationNotices, Validating, ValidateRunning
    <3>3. \A g \in Locked : vseen[g] \subseteq vseen'[g]
      BY <3>1 DEF EditFile, ValidationNotices, SInv, SessionTypes, ValidationTypeOK
    <3>4. Validating => \A g \in Locked : files[g] \in vseen[g]
      BY DEF SInv, ValidInv, HistoryComplete, Judging
    <3>5. ASSUME NEW g \in Locked, Validating, vseen[g] # {NoFile} PROVE vseen'[g] # {NoFile}
      BY <3>3, <3>4, <3>5
    <3> QED BY <3>2, <3>5 DEF FoundFirst, ExceptionJustified, Validating, ValidateRunning
  <2>2. CASE \/ \E v \in StrayTables \cup {NoFile} : EditLock(v)
             \/ BeginExport \/ ExportOn
             \/ Export!KillExport /\ UNCHANGED <<lock, local, seen, owner, validateVars, edits>>
             \/ UNCHANGED sessionVars
    <3>1. UNCHANGED validateVars
      BY <2>2, ExportFrame DEF EditLock, sessionVars
    <3> QED BY <3>1 DEF validateVars, FoundFirst, ExceptionJustified
  <2>3. CASE (\E r \in BOOLEAN : BeginValidation(r)) \/ KillValidation
    <3>1. vpc' \in {"look manifest", "killed"}
      BY <2>3 DEF BeginValidation, StartValidate, KillValidation
    <3> QED BY <3>1 DEF FoundFirst, ExceptionJustified
  <2>4. CASE Validate BY <2>4, ValidateKeepsReasons
  <2> QED BY <2>1, <2>2, <2>3, <2>4 DEF SessionNext, Kill
<1> QED BY <1>1, <1>2, SessionInvariance, PTL DEF SessionSpec

(* Every field of an exported object is what its file held during that      *)
(* export (export_requirement_object).                                      *)
THEOREM ObjectAlwaysWitnessed == SessionSpec => []ObjectWitnessed
<1>1. SInv => ObjectWitnessed
  BY DEF SInv, ExportInv, ObjectWitnessed
<1> QED BY <1>1, SessionInvariance, PTL

(* `validate && export`: if the ABI and the tiers are left alone from the   *)
(* start of the validation, the published tiers cover the published         *)
(* required capabilities and the digest is the one of that ABI              *)
(* (validate_skill, export_requirement_object).                             *)
THEOREM PublishedObjectAlwaysConforms == SessionSpec => []PublishedObjectConforms
<1>1. IInv /\ SInv => PublishedObjectConforms
  <2> SUFFICES ASSUME IInv, SInv, xpc = "written", Validated,
                      \A f \in {Abi, Degrade} : vseen[f] = {files[f]}
               PROVE  /\ object.tiers # NoFile
                      /\ Covers(TiersOf[object.tiers], RequiredOf[object.capabilities])
                      /\ object.abi = object.capabilities
    BY DEF PublishedObjectConforms
  <2>1. level = "P3" /\ Judging
    BY DEF SInv, ValidInv, LockLast, Validated, Judging
  <2>2. PICK a \in vseen[Abi] : CoverSeen(a)
    BY <2>1 DEF SInv, ValidInv, Claimed
  <2>3. PICK d \in vseen[Degrade] : Sound(d) /\ Covers(TiersOf[d], RequiredOf[a])
    BY <2>2 DEF CoverSeen
  <2>4. a = files[Abi] /\ d = files[Degrade] /\ d # NoFile
    BY <2>2, <2>3, TreeAssumption DEF Sound
  <2>5. /\ object.tiers \in xseen[Degrade]
        /\ object.capabilities \in xseen[Abi]
        /\ object.abi \in xseen[Abi]
    BY DEF SInv, ExportInv, Export!FieldNames, Export!SourceOf
  <2>6. xseen[Abi] \subseteq vseen[Abi] /\ xseen[Degrade] \subseteq vseen[Degrade]
    BY ValidationAssumption DEF SInv, ExportLater, Validated
  <2>7. object.tiers = d /\ object.capabilities = a /\ object.abi = a
    BY <2>4, <2>5, <2>6
  <2> QED BY <2>3, <2>4, <2>7
<1> QED BY <1>1, SessionInvariance, PTL

(* The lock check at the end of validate keeps the contract of the lock     *)
(* commands, and never starts over, whatever the author edits or checks out *)
(* meanwhile (validate_skill, check_lock).                                  *)
THEOREM SessionKeepsContract == SessionSpec => ImplementsContract /\ NeverStartsOver
  BY SessionRunsLockCommands, RefinementUnfair, NeverStartsOverUnfair
=============================================================================
