----------------------------- MODULE SkillTree -----------------------------
(***************************************************************************)
(* The directory of one skill: the files of its contract and the table of  *)
(* digests that skill.lock pins.  Everything here is a value or a pure     *)
(* function of values; the modules that extend this one own the state.     *)
(*                                                                         *)
(* SHA-256 is taken to be collision free, so the digest of a file IS its   *)
(* content: "same digest" and "same content" are one predicate.            *)
(***************************************************************************)
EXTENDS FiniteSets

CONSTANTS
    Locked,     \* paths the LOCKED_GLOBS of lockfile.py can match
    Ephemeral,  \* paths under attestations/, evidence/ or .tmp/
    Contents,   \* contents a file can have
    NoFile,     \* "there is no such file", and "not a key of the table"
    Empty,      \* an open(..., "w") has truncated skill.lock
    Torn        \* skill.lock holds bytes that are not one JSON document

ASSUME TreeAssumption ==
    /\ Locked \cap Ephemeral = {}
    /\ NoFile \notin Contents

Paths == Locked \cup Ephemeral
Bytes == Contents \cup {NoFile}

(* The "files" object of a lock document: a path that is not a key of the   *)
(* object maps to NoFile.  A table may pin any path, because skill.lock is  *)
(* an ordinary file that can be edited or checked out.                      *)
Tables == [Paths -> Bytes]

(* What compute_digests returns: only paths that the globs match.           *)
Digests == [Locked -> Bytes]

(* The dictionary that compute_digests has before it reads any file.        *)
NoDigests == [f \in Locked |-> NoFile]

(* The operators whose comment says "Mutated" are plausible slips in the     *)
(* code they stand next to.  Nothing uses them: they replace the operator   *)
(* below them to show that the properties would notice.                     *)

(* Mutated: the digests themselves, without the paths outside the globs.    *)
AsTableBare(d) == d

(* The document write_lock builds from the digests it computed.             *)
AsTable(d) == [f \in Paths |-> IF f \in Locked THEN d[f] ELSE NoFile]

(* What skill.lock can hold.                                                *)
LockStates == Tables \cup {NoFile, Empty, Torn}

----------------------------------------------------------------------------
(* What skill.lock can hold after a document is written over another one.   *)
(* Documents with the same keys have the same length; over one with other   *)
(* keys, the tail of a longer document can survive.                         *)
Keys(t) == {f \in Paths : t[f] # NoFile}
Overwrite(old, new) ==
    IF old = Empty \/ (old \in Tables /\ Keys(old) = Keys(new))
    THEN {new}
    ELSE {new, Torn}

----------------------------------------------------------------------------
(* The comparisons.  Each returns the set of paths it complains about.      *)

(* A file on disk whose digest is not the pinned one: pinned.get(rel) is    *)
(* None for a path that is not pinned, so this covers unpinned files too.   *)
(* Mutated: a path without a pin counts as changed, even when it is absent.  *)
MismatchedIfUnpinned(current, pinned) ==
    {f \in Locked : pinned[f] = NoFile \/ pinned[f] # current[f]}

Mismatched(current, pinned) ==
    {f \in Locked : current[f] # NoFile /\ pinned[f] # current[f]}

(* A pinned path that is not among the files on disk.                       *)
Gone(current, pinned) ==
    {f \in Paths : pinned[f] # NoFile /\ (f \in Locked => current[f] = NoFile)}

(* A file on disk that is not pinned.                                       *)
Unpinned(current, pinned) ==
    {f \in Locked : current[f] # NoFile /\ pinned[f] = NoFile}

(* A pinned path under an ephemeral prefix.                                 *)
PinnedEphemeral(pinned) == {f \in Ephemeral : pinned[f] # NoFile}

(* Mutated: the names are compared, the digests are not.                    *)
VerifyLockErrorsNamesOnly(current, pinned) ==
    Gone(current, pinned) \cup Unpinned(current, pinned) \cup PinnedEphemeral(pinned)

(* api.verify_lock, the check behind `sabi verify-lock`.                    *)
VerifyLockErrors(current, pinned) ==
    Mismatched(current, pinned) \cup Gone(current, pinned)
        \cup Unpinned(current, pinned) \cup PinnedEphemeral(pinned)

(* Mutated: check_lock without its second loop.                             *)
CheckLockErrorsNoGone(current, pinned) == Mismatched(current, pinned)

(* lockfile.check_lock, the check behind `sabi validate`.                   *)
CheckLockErrors(current, pinned) ==
    Mismatched(current, pinned) \cup Gone(current, pinned)
============================================================================
