------------------------------- MODULE MCHost -------------------------------
(***************************************************************************)
(* What a host drives on its main thread, on small instances: frame        *)
(* pacing, the glyph atlas, handle tables, the desk of readers.  They      *)
(* share no state, so a behaviour is one of a single subject while the     *)
(* others rest: the state spaces add up instead of multiplying.  The desk  *)
(* is taken twice, with two panes and no bookmarks, and with bookmarks     *)
(* and one pane.                                                           *)
(***************************************************************************)
EXTENDS FramePacing, GlyphAtlas, HandleTables, ReadingDesk, TLC

CONSTANTS
  Subjects,           \* the subjects of a run
  ga, gb, gc          \* glyphs

VARIABLE subject

\* Two low glyphs and a wide, tall one, on few small pages.
Alphabet == {ga, gb, gc}
Widths == ga :> 1 @@ gb :> 1 @@ gc :> 2
Heights == ga :> 1 @@ gb :> 1 @@ gc :> 2
\* A page that is no multiple of its shelves: a line, a dot, a tall letter.
UnevenWidths == ga :> 5 @@ gb :> 1 @@ gc :> 2
UnevenHeights == ga :> 1 @@ gb :> 1 @@ gc :> 3
OneKind == [g \in Alphabet |-> "mask"]

\* Two revisions of one file, a hit's bytes unchanged.
TwoRevisions == {[file |-> 1, revision |-> r, bytes |-> "same"] : r \in {1, 2}}

hostVars == <<subject, pacingVars, atlasVars, handleVars, deskVars>>

HostInit ==
  subject \in Subjects /\ PacingInit /\ AtlasInit /\ HandleInit /\ DeskInit

HostNext ==
  /\ UNCHANGED subject
  /\ \/ /\ subject = "pacing" /\ PacingNext
        /\ UNCHANGED <<atlasVars, handleVars, deskVars>>
     \/ /\ subject = "atlas" /\ AtlasNext
        /\ UNCHANGED <<pacingVars, handleVars, deskVars>>
     \/ /\ subject = "handles" /\ HandleNext
        /\ UNCHANGED <<pacingVars, atlasVars, deskVars>>
     \/ /\ subject = "visits" /\ DeskNext /\ marks' = <<>>
        /\ UNCHANGED <<pacingVars, atlasVars, handleVars>>
     \/ /\ subject = "bookmarks" /\ DeskNext /\ Len(deskPanes') <= 1
        /\ UNCHANGED <<pacingVars, atlasVars, handleVars>>

HostSpec == HostInit /\ [][HostNext]_hostVars

\* At rest nothing of the pacing is enabled, so its fairness asks for nothing.
FairHostSpec == HostSpec /\ PacingFairness
=============================================================================
