--------------------------- MODULE Reconciliation ---------------------------
(***************************************************************************)
(* Dirty hints from a file watcher and the reconciliation passes that      *)
(* enumerate directories meanwhile (fcb-source/src/reconciliation.rs).     *)
(*                                                                         *)
(* Files change on disk at any time; the watcher reports a change later,   *)
(* as a hint on the file or on a directory above it.  A pass looks at each *)
(* file once, finishes completely or not, and its report updates what is   *)
(* recorded of the files; until a file's change is recorded some trace of  *)
(* it must remain.  Length, kind, inode and digest of a file are one       *)
(* "content"; paths are model values with their ancestors.                 *)
(***************************************************************************)
EXTENDS Integers, FiniteSets

CONSTANTS
  Files, Dirs, Root,
  Above,              \* strict ancestors of a path, Root excepted
  Contents, Absent,
  Passes,
  Scopes,             \* directories that are passed over, Root for all
  MaxSequence         \* bound: sequence numbers given to hints

ASSUME ReconciliationAssumption ==
  /\ Above \in [Files \cup Dirs -> SUBSET Dirs]
  /\ Scopes \subseteq Dirs \cup {Root}
  /\ Root \notin Files \cup Dirs /\ Files \cap Dirs = {}
  /\ \A path \in Files \cup Dirs : \A a, b \in Above[path] :
       a = b \/ a \in Above[b] \/ b \in Above[a]
  /\ Absent \notin Contents
  /\ MaxSequence \in Nat

Paths == Files \cup Dirs
States == Contents \cup {Absent}

VARIABLES
  content,            \* external: the files on disk
  unreported,         \* external: changes the watcher has yet to report
  sequence, hints,    \* next_sequence; pending <<path, sequence>>
  recorded,           \* what the last reports said of each file
  running,            \* passes that have started and not finished
  scope, start,       \* directory and start_hint_sequence of a pass
  known,              \* files it must find or explain
  looked, seen,       \* files it has enumerated; observed_entries
  excluded,           \* excluded directories it met, or Root
  falsely             \* history: files reported gone that nothing explains

watched == <<content, unreported>>
tracker == <<sequence, hints>>
pass == <<running, scope, start, known, looked, seen, excluded>>
reconciliationVars == <<watched, tracker, recorded, pass, falsely>>

Affects(h, path) == h = path \/ h \in Above[path] \/ path \in Above[h]
Within(f, d) == IF d = Root THEN TRUE ELSE d \in Above[f]

-----------------------------------------------------------------------------
(* The disk, its watcher and the hints.                                    *)

Change(f) ==
  /\ \E c \in States \ {content[f]} : content' = [content EXCEPT ![f] = c]
  /\ unreported' = unreported \cup {f}
  /\ UNCHANGED <<tracker, recorded, pass, falsely>>

\* The watcher reports a file, or everything below a directory, as changed.
RecordHint(path) ==
  LET covered == {f \in unreported : f = path \/ path \in Above[f]} IN
  /\ covered # {}
  /\ sequence < MaxSequence
  /\ hints' = hints \cup {<<path, sequence>>}
  /\ sequence' = sequence + 1
  /\ unreported' = unreported \ covered
  /\ UNCHANGED <<content, recorded, pass, falsely>>

HasHintsSince(n, d) == \E h \in hints : h[2] >= n /\ (d = Root \/ Affects(h[1], d))

-----------------------------------------------------------------------------
(* A pass.                                                                 *)

StartPass(p, d) ==
  /\ p \notin running
  /\ running' = running \cup {p}
  /\ scope' = [scope EXCEPT ![p] = d]
  /\ start' = [start EXCEPT ![p] = sequence]
  /\ known' = [known EXCEPT ![p] = {f \in Files : recorded[f] # Absent /\ Within(f, d)}]
  /\ looked' = [looked EXCEPT ![p] = {}]
  /\ seen' = [seen EXCEPT ![p] = [f \in Files |-> Absent]]
  /\ excluded' = [excluded EXCEPT ![p] = {}]
  /\ UNCHANGED <<watched, tracker, recorded, falsely>>

\* is_excluded_by_observation
Excludes(p, path) == Root \in excluded[p] \/ (Above[path] \cup {path}) \cap excluded[p] # {}

Look(p, f) ==
  /\ p \in running
  /\ Within(f, scope[p])
  /\ f \notin looked[p]
  /\ ~Excludes(p, f)
  /\ looked' = [looked EXCEPT ![p] = @ \cup {f}]
  /\ seen' = [seen EXCEPT ![p][f] = content[f]]
  /\ UNCHANGED <<watched, tracker, recorded, running, scope, start, known, excluded, falsely>>

\* An ignored directory, or an ignored root, is not entered.
Exclude(p, d) ==
  /\ p \in running
  /\ d \in {scope[p]} \cup {x \in Dirs : Within(x, scope[p])}
  /\ {f \in looked[p] : Within(f, d)} = {}
  /\ excluded' = [excluded EXCEPT ![p] = @ \cup {d}]
  /\ UNCHANGED <<watched, tracker, recorded, running, scope, start, known, looked, seen, falsely>>

Covered(p) == \A f \in Files : Within(f, scope[p]) => f \in looked[p] \/ Excludes(p, f)

Seen(p) == {f \in Files : seen[p][f] # Absent}

\* Mutant: a complete enumeration is taken as evidence, whatever came between.
ProvesAbsenceAlone(p, completed) == completed

\* Absence is evidence only after a complete pass with no hint in between.
ProvesAbsence(p, completed) == completed /\ ~HasHintsSince(start[p], scope[p])

Unexcluded(p, f) == ~Excludes(p, f)

Tombstoned(p, completed) ==
  {f \in known[p] \ Seen(p) : ProvesAbsence(p, completed) /\ Unexcluded(p, f)}

\* exclusion_affects_hint: the hint lies in an excluded directory or above one.
Shields(p, path) == Excludes(p, path) \/ \E d \in excluded[p] \cap Dirs : path \in Above[d]

\* Mutant: hints of excluded directories are cleared with the others.
KeptUnshielded(p, h) ==
  h[2] > start[p] \/ (scope[p] # Root /\ ~Affects(h[1], scope[p]))

\* A hint outlives a pass that was later, did not touch it or was kept off.
Kept(p, h) ==
  \/ h[2] > start[p]
  \/ scope[p] # Root /\ ~Affects(h[1], scope[p])
  \/ Shields(p, h[1])

\* finish, and the caller's records brought up to its report.
FinishPass(p, completed) ==
  LET gone == Tombstoned(p, completed) IN
  /\ p \in running
  /\ completed => Covered(p)
  /\ running' = running \ {p}
  /\ hints' = IF ProvesAbsence(p, completed) THEN {h \in hints : Kept(p, h)} ELSE hints
  /\ recorded' = [f \in Files |-> IF f \in Seen(p) THEN seen[p][f]
                                  ELSE IF f \in gone THEN Absent ELSE recorded[f]]
  /\ falsely' = falsely \cup {f \in gone : content[f] # Absent /\ f \notin unreported}
  /\ UNCHANGED <<watched, sequence, scope, start, known, looked, seen, excluded>>

ReconciliationInit ==
  /\ content \in [Files -> States] /\ recorded = [f \in Files |-> Absent]
  /\ unreported = {f \in Files : content[f] # Absent}
  /\ sequence = 1 /\ hints = {}
  /\ running = {} /\ falsely = {}
  /\ scope = [p \in Passes |-> Root] /\ start = [p \in Passes |-> 1]
  /\ known = [p \in Passes |-> {}] /\ looked = [p \in Passes |-> {}]
  /\ seen = [p \in Passes |-> [f \in Files |-> Absent]]
  /\ excluded = [p \in Passes |-> {}]

ReconciliationNext ==
  \/ \E f \in Files : Change(f)
  \/ \E path \in Paths : RecordHint(path)
  \/ \E p \in Passes :
       \/ \E d \in Scopes : StartPass(p, d)
       \/ \E f \in Files : Look(p, f)
       \/ \E d \in Dirs \cup {Root} : Exclude(p, d)
       \/ \E completed \in BOOLEAN : FinishPass(p, completed)

ReconciliationSpec == ReconciliationInit /\ [][ReconciliationNext]_reconciliationVars

-----------------------------------------------------------------------------
(* Properties.                                                             *)

\* A file is reported as deleted only if it is gone, or its return is still to
\* be reported by the watcher: a pass never turns an absence it happened to see
\* into a deletion while the tracker knew better.
NoFalseTombstone == falsely = {}

\* No change is lost: while the record of a file differs from the file, the
\* watcher has yet to report it, or a pending hint covers it.
ChangesStayPending ==
  \A f \in Files : recorded[f] # content[f] =>
    f \in unreported \/ \E h \in hints : Affects(h[1], f)

\* A pass takes neither an absence for a deletion nor a change for reported.
NothingIsMisreported == NoFalseTombstone /\ ChangesStayPending
=============================================================================
