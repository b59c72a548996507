---------------------------- MODULE MCWorkspace -----------------------------
(***************************************************************************)
(* The stores, their sessions and the user interface on small instances.   *)
(* They share no state here, so a behaviour is one of a single subject     *)
(* while the others rest: the state spaces add up instead of multiplying.  *)
(***************************************************************************)
EXTENDS CacheNamespace, Reconciliation, FileContinuity, ObservedSnapshots,
        BridgeSessions, UiSearch, UiShell, MapNavigation, TLC

CONSTANTS
  Subjects,           \* the subjects of a run
  fa, fe, src, deep,  \* files and directories of a scan
  t1, t2              \* threads of the bridge

VARIABLE subject

TwoFiles == {fa, fe}
TwoDirs == {src, deep}
Tree == fa :> {src, deep} @@ fe :> {src} @@ src :> {} @@ deep :> {src}
TwoThreads == {t1, t2}
TwoSurfaces == <<"Atlas", "Inspector">>

SwapThreads == Permutations(TwoThreads)

storeVars == <<namespaceVars, reconciliationVars, continuityVars, snapshotVars,
               sessionVars>>
uiVars == <<searchVars, shellVars, navigationVars>>

StoresInit ==
  /\ NamespaceInit /\ ReconciliationInit /\ ContinuityInit
  /\ SnapshotInit /\ SessionsInit
  /\ subject # "reconciliation" => content = [f \in Files |-> Absent]

UiInit ==
  /\ SearchInit /\ ShellInit /\ NavigationInit
  /\ subject # "navigation" => currentEntry = Nowhere

StoresNext ==
  \/ /\ subject = "namespace" /\ NamespaceNext
     /\ UNCHANGED <<reconciliationVars, continuityVars, snapshotVars,
                    sessionVars>>
  \/ /\ subject = "reconciliation" /\ ReconciliationNext
     /\ UNCHANGED <<namespaceVars, continuityVars, snapshotVars,
                    sessionVars>>
  \/ /\ subject = "continuity" /\ ContinuityNext
     /\ UNCHANGED <<namespaceVars, reconciliationVars, snapshotVars,
                    sessionVars>>
  \/ /\ subject = "snapshots" /\ SnapshotNext
     /\ UNCHANGED <<namespaceVars, reconciliationVars, continuityVars,
                    sessionVars>>
  \/ /\ subject = "sessions" /\ SessionsNext
     /\ UNCHANGED <<namespaceVars, reconciliationVars, continuityVars,
                    snapshotVars>>

UiNext ==
  \/ /\ subject = "search" /\ SearchNext
     /\ UNCHANGED <<shellVars, navigationVars>>
  \/ /\ subject = "shell" /\ ShellNext
     /\ UNCHANGED <<searchVars, navigationVars>>
  \/ /\ subject = "navigation" /\ NavigationNext
     /\ UNCHANGED <<searchVars, shellVars>>

WorkspaceInit == subject \in Subjects /\ StoresInit /\ UiInit

WorkspaceNext ==
  /\ UNCHANGED subject
  /\ \/ StoresNext /\ UNCHANGED uiVars
     \/ UiNext /\ UNCHANGED storeVars

WorkspaceSpec == WorkspaceInit /\ [][WorkspaceNext]_<<subject, storeVars, uiVars>>
=============================================================================
