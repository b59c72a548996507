--------------------------- MODULE FileContinuity ---------------------------
(***************************************************************************)
(* Identities of files across edits, replacements and deletions, and the   *)
(* notes anchored in them: FileContinuityRegistry and AnnotationRegistry   *)
(* (fcb-source/src/reconciliation.rs).  The two are driven by one caller,  *)
(* which hands what the first decides to the second; each such pair of     *)
(* calls is one action, composed as in tests/scan_epochs.rs.               *)
(*                                                                         *)
(* Of a file's bytes only those under a note matter: a text per file, or   *)
(* none when the file is too short.                                        *)
(***************************************************************************)
EXTENDS Integers, FiniteSets

CONSTANTS
  Tracked,            \* paths
  Inodes, Texts, Notes,
  MaxIdentities, MaxRevisions,  \* bounds
  TooShort, NoInode

ASSUME ContinuityAssumption ==
  /\ MaxIdentities \in Nat \ {0} /\ MaxRevisions \in Nat \ {0}
  /\ TooShort \notin Texts

VARIABLES
  text,               \* external: the file's bytes at the anchors
  identity, revision, inode, tombstoned,  \* entry of a path; identity 0 if none
  nextIdentity,       \* next_file_id
  note,               \* owner, revision, expected digest and state of a note
  retired             \* history: identities whose file is gone

entry == <<identity, revision, inode, tombstoned, nextIdentity>>
continuityVars == <<text, entry, note, retired>>

ActiveNotes(n) == note[n].state = "active"

Orphaned(ns, reason) ==
  [n \in Notes |-> IF n \in ns THEN [note[n] EXCEPT !.state = reason] ELSE note[n]]

NotesOn(id) == {n \in Notes : ActiveNotes(n) /\ note[n].owner = id}

-----------------------------------------------------------------------------

\* Mutant: a recycled path takes an identity without counting it.
NextIdentityKept == nextIdentity

NextIdentityAfter == nextIdentity + 1

\* A path gets a fresh identity, at its first revision.
Fresh(f, i) ==
  /\ nextIdentity <= MaxIdentities
  /\ identity' = [identity EXCEPT ![f] = nextIdentity]
  /\ revision' = [revision EXCEPT ![f] = 1]
  /\ inode' = [inode EXCEPT ![f] = i]
  /\ tombstoned' = [tombstoned EXCEPT ![f] = FALSE]
  /\ nextIdentity' = NextIdentityAfter

ObserveNew(f, i) ==
  /\ identity[f] = 0
  /\ Fresh(f, i)
  /\ text' \in [Tracked -> Texts \cup {TooShort}]
  /\ \A g \in Tracked \ {f} : text'[g] = text[g]
  /\ UNCHANGED <<note, retired>>

\* The policy is asked only when both inodes are known and differ.
Recycles(f, i, policy) ==
  tombstoned[f] \/ (NoInode \notin {inode[f], i} /\ inode[f] # i /\ policy = "recycle")

\* handle_path_recycled: the notes of the old identity become orphans.
ObserveRecycled(f, i, policy) ==
  /\ identity[f] # 0
  /\ Recycles(f, i, policy)
  /\ Fresh(f, i)
  /\ note' = Orphaned(NotesOn(identity[f]), "recycled")
  /\ retired' = retired \cup {identity[f]}
  /\ text' \in [Tracked -> Texts \cup {TooShort}]
  /\ \A g \in Tracked \ {f} : text'[g] = text[g]

\* Mutant: the revision moves on under a note whose text has changed.
SurvivesAlways(n, t) == t # TooShort

Survives(n, t) == t # TooShort /\ t = note[n].expected

\* An edit or atomic save: reattach_for_file_modification moves the notes whose
\* text is still there to the new revision and orphans the others.
ObserveModified(f, i, policy) ==
  /\ identity[f] # 0
  /\ ~Recycles(f, i, policy)
  /\ revision[f] < MaxRevisions
  /\ revision' = [revision EXCEPT ![f] = @ + 1]
  /\ inode' = [inode EXCEPT ![f] = i]
  /\ \E t \in Texts \cup {TooShort} :
       /\ text' = [text EXCEPT ![f] = t]
       /\ note' = [n \in Notes |->
            IF n \notin NotesOn(identity[f]) THEN note[n]
            ELSE IF Survives(n, t) THEN [note[n] EXCEPT !.revision = revision[f] + 1]
            ELSE [note[n] EXCEPT !.state = IF t = TooShort THEN "outOfBounds" ELSE "diverged"]]
  /\ UNCHANGED <<identity, tombstoned, nextIdentity, retired>>

\* mark_tombstoned and handle_file_tombstoned, after a verified pass; marking
\* a path again changes nothing.
Tombstone(f) ==
  /\ identity[f] # 0
  /\ tombstoned' = [tombstoned EXCEPT ![f] = TRUE]
  /\ note' = Orphaned(NotesOn(identity[f]), "tombstoned")
  /\ retired' = retired \cup {identity[f]}
  /\ UNCHANGED <<text, identity, revision, inode, nextIdentity>>

\* handle_file_became_special: the registry of files is not told.
BecomeSpecial(f) ==
  /\ NotesOn(identity[f]) # {}
  /\ note' = Orphaned(NotesOn(identity[f]), "special")
  /\ UNCHANGED <<text, entry, retired>>

\* add_annotation, on a live file whose bytes the reader sees.
AddNote(n, f) ==
  /\ note[n].state = "none"
  /\ identity[f] # 0 /\ ~tombstoned[f]
  /\ text[f] # TooShort
  /\ note' = [note EXCEPT ![n] =
       [owner |-> identity[f], revision |-> revision[f], expected |-> text[f], state |-> "active"]]
  /\ UNCHANGED <<text, entry, retired>>

ContinuityInit ==
  /\ text = [f \in Tracked |-> TooShort]
  /\ identity = [f \in Tracked |-> 0] /\ revision = [f \in Tracked |-> 0]
  /\ inode = [f \in Tracked |-> NoInode] /\ tombstoned = [f \in Tracked |-> FALSE]
  /\ nextIdentity = 1 /\ retired = {}
  /\ note = [n \in Notes |->
       [owner |-> 0, revision |-> 0, expected |-> TooShort, state |-> "none"]]

ContinuityNext ==
  \E f \in Tracked :
    \/ Tombstone(f) \/ BecomeSpecial(f)
    \/ \E n \in Notes : AddNote(n, f)
    \/ \E i \in Inodes \cup {NoInode} :
         \/ ObserveNew(f, i)
         \/ \E policy \in {"preserve", "recycle"} :
              ObserveRecycled(f, i, policy) \/ ObserveModified(f, i, policy)

ContinuitySpec == ContinuityInit /\ [][ContinuityNext]_continuityVars

-----------------------------------------------------------------------------
(* Properties.                                                             *)

\* An identity names one file: no two paths share one, and one whose file was
\* tombstoned or replaced by a stranger is never that of a live path again.
IdentitiesNameOneFile ==
  /\ \A f, g \in Tracked : identity[f] = identity[g] /\ identity[f] # 0 => f = g
  /\ \A f \in Tracked : identity[f] # 0 /\ ~tombstoned[f] => identity[f] \notin retired

\* A note that is active belongs to a live file, is attached to that file's
\* current revision, and the text there is the one it was made on (8.8: a note
\* never passes to an unrelated file because a path was recycled).
NotesStayWithTheirText ==
  \A n \in Notes : ActiveNotes(n) =>
    \E f \in Tracked :
      /\ identity[f] = note[n].owner /\ ~tombstoned[f]
      /\ revision[f] = note[n].revision /\ text[f] = note[n].expected

\* Identities and notes follow files, not paths.
NotesFollowFiles == IdentitiesNameOneFile /\ NotesStayWithTheirText
=============================================================================
