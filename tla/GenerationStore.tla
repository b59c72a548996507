-------------------------- MODULE GenerationStore --------------------------
(***************************************************************************)
(* What a cache namespace promises whoever shares its directory over time: *)
(* numbered generations of immutable entries.  Entries are added to the    *)
(* newest generation only; older generations are emptied and removed, but  *)
(* never while they are pinned; and a new generation is above all earlier  *)
(* ones, whatever was removed and however often the program restarted.     *)
(***************************************************************************)
EXTENDS Naturals, FiniteSets

CONSTANTS Generations, Names

VARIABLES
  newest,     \* the highest generation ever made, 0 before the first
  dirs,       \* generations that are there
  entries,    \* <<generation, name>> of the entries that are there
  whole,      \* those of them that were written to the end
  pins        \* pinned generations

store == <<newest, dirs, entries, whole, pins>>

Start ==
  /\ newest = 0
  /\ dirs = {} /\ entries = {} /\ whole = {} /\ pins = {}

NewGeneration ==
  \E g \in Generations :
    /\ g > newest
    /\ newest' = g /\ dirs' = dirs \cup {g}
    /\ UNCHANGED <<entries, whole, pins>>

AddEntry ==
  \E n \in Names :
    /\ newest \in dirs
    /\ <<newest, n>> \notin entries
    /\ entries' = entries \cup {<<newest, n>>}
    /\ UNCHANGED <<newest, dirs, whole, pins>>

CompleteEntry ==
  \E n \in Names :
    /\ <<newest, n>> \in entries \ whole
    /\ whole' = whole \cup {<<newest, n>>}
    /\ UNCHANGED <<newest, dirs, entries, pins>>

RemoveEntry ==
  \E e \in entries :
    /\ e[1] < newest
    /\ e[1] \notin pins
    /\ entries' = entries \ {e} /\ whole' = whole \ {e}
    /\ UNCHANGED <<newest, dirs, pins>>

RemoveGeneration ==
  \E g \in dirs :
    /\ g < newest
    /\ g \notin pins
    /\ \A e \in entries : e[1] # g
    /\ dirs' = dirs \ {g}
    /\ UNCHANGED <<newest, entries, whole, pins>>

ChangePin ==
  \E g \in Generations :
    /\ pins' \in {pins \cup {g}, pins \ {g}}
    /\ UNCHANGED <<newest, dirs, entries, whole>>

StoreNext ==
  \/ NewGeneration \/ AddEntry \/ CompleteEntry
  \/ RemoveEntry \/ RemoveGeneration \/ ChangePin

StoreSpec == Start /\ [][StoreNext]_store
=============================================================================
