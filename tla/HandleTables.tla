---------------------------- MODULE HandleTables ----------------------------
(***************************************************************************)
(* Generation-checked handle tables (fcb-core/src/handles.rs).  A table    *)
(* belongs to an owner and, if it is a DeviceTable, to a generation of a   *)
(* device; it has a domain of its own that no other table ever gets.  Any  *)
(* handle ever given may be presented to any table.                        *)
(*                                                                         *)
(* Abstracted: owner, device and device generation of a table are one      *)
(* qualifier; the free list is a set, since the order in which slots are   *)
(* taken again shows nowhere.                                              *)
(***************************************************************************)
EXTENDS Integers, FiniteSets

CONSTANTS
  Owners,             \* qualifiers of tables
  Resources,          \* values
  MaxSlots, MaxGeneration,   \* HandleLimits
  MaxDomains          \* bound: tables the process makes

ASSUME HandleAssumption ==
  /\ MaxSlots \in Nat \ {0} /\ MaxGeneration \in Nat \ {0} /\ MaxDomains \in Nat \ {0}
  /\ Owners # {} /\ Resources # {}

Slots == 1..MaxSlots
Domains == 1..MaxDomains

HandleSet ==
  [owner : Owners, domain : Domains, slot : Slots, generation : 1..MaxGeneration]

\* A slot the table has not come to yet is untouched.
States == {"untouched", "occupied", "vacant", "retired"}

VARIABLES
  nextDomain,         \* NEXT_TABLE_DOMAIN
  ownerOf,            \* the qualifier of each table that was made
  state, generation, value,   \* SlotState of each slot of each table
  freeSlots,          \* free_slots
  spentHandles        \* history: handles whose value was removed

slotVars == <<state, generation, value, freeSlots>>
handleVars == <<nextDomain, ownerOf, slotVars, spentHandles>>

Tables == 1..(nextDomain - 1)

\* TableDomainId::allocate, by compare and exchange.
NewTable(o) ==
  /\ nextDomain <= MaxDomains
  /\ ownerOf' = [ownerOf EXCEPT ![nextDomain] = o]
  /\ nextDomain' = nextDomain + 1
  /\ UNCHANGED <<slotVars, spentHandles>>

\* Mutant: a slot taken again keeps its generation.
KeptGeneration(t, s) == IF generation[t][s] = 0 THEN 1 ELSE generation[t][s]

\* The generation a vacant or untouched slot is taken at.
TakenGeneration(t, s) == generation[t][s] + 1

Occupy(t, s, v) ==
  /\ state' = [state EXCEPT ![t][s] = "occupied"]
  /\ generation' = [generation EXCEPT ![t][s] = TakenGeneration(t, s)]
  /\ value' = [value EXCEPT ![t][s] = v]
  /\ UNCHANGED <<nextDomain, ownerOf, spentHandles>>

\* A free slot is popped; if its generations are used up, it is lost.
InsertFree(t, s, v) ==
  /\ s \in freeSlots[t]
  /\ freeSlots' = [freeSlots EXCEPT ![t] = @ \ {s}]
  /\ IF TakenGeneration(t, s) <= MaxGeneration
       THEN Occupy(t, s, v)
       ELSE UNCHANGED <<nextDomain, ownerOf, state, generation, value, spentHandles>>

\* Without free slots the table grows.
InsertNew(t, s, v) ==
  /\ freeSlots[t] = {}
  /\ state[t][s] = "untouched"
  /\ \A r \in Slots : r < s => state[t][r] # "untouched"
  /\ Occupy(t, s, v)
  /\ UNCHANGED freeSlots

\* validate: qualifier and domain, then slot and generation.
Resolves(t, h) ==
  /\ h.owner = ownerOf[t]
  /\ h.domain = t
  /\ state[t][h.slot] = "occupied"
  /\ generation[t][h.slot] = h.generation

\* lookup_mut, and a store through it.
Update(t, h, v) ==
  /\ Resolves(t, h)
  /\ value' = [value EXCEPT ![t][h.slot] = v]
  /\ UNCHANGED <<nextDomain, ownerOf, state, generation, freeSlots, spentHandles>>

\* Mutant: the last generation of a slot is not noticed.
ReusableAlways(g) == TRUE

ReusableAfter(g) == g + 1 <= MaxGeneration

RemoveValue(t, h) ==
  /\ Resolves(t, h)
  /\ IF ReusableAfter(h.generation)
       THEN /\ state' = [state EXCEPT ![t][h.slot] = "vacant"]
            /\ freeSlots' = [freeSlots EXCEPT ![t] = @ \cup {h.slot}]
       ELSE /\ state' = [state EXCEPT ![t][h.slot] = "retired"]
            /\ UNCHANGED freeSlots
  /\ spentHandles' = spentHandles \cup {h}
  /\ UNCHANGED <<nextDomain, ownerOf, generation, value>>

HandleInit ==
  /\ nextDomain = 1
  /\ ownerOf = [t \in Domains |-> CHOOSE o \in Owners : TRUE]
  /\ state = [t \in Domains |-> [s \in Slots |-> "untouched"]]
  /\ generation = [t \in Domains |-> [s \in Slots |-> 0]]
  /\ value = [t \in Domains |-> [s \in Slots |-> CHOOSE v \in Resources : TRUE]]
  /\ freeSlots = [t \in Domains |-> {}]
  /\ spentHandles = {}

HandleNext ==
  \/ \E o \in Owners : NewTable(o)
  \/ \E t \in Tables, s \in Slots, v \in Resources : InsertFree(t, s, v) \/ InsertNew(t, s, v)
  \/ \E t \in Tables, h \in HandleSet :
       RemoveValue(t, h) \/ \E v \in Resources : Update(t, h, v)

HandleSpec == HandleInit /\ [][HandleNext]_handleVars

-----------------------------------------------------------------------------
(* Properties.                                                             *)

HandleTypeOK ==
  /\ nextDomain \in 1..(MaxDomains + 1)
  /\ ownerOf \in [Domains -> Owners]
  /\ state \in [Domains -> [Slots -> States]]
  /\ generation \in [Domains -> [Slots -> 0..MaxGeneration]]
  /\ value \in [Domains -> [Slots -> Resources]]
  /\ freeSlots \in [Domains -> SUBSET Slots]
  /\ spentHandles \subseteq HandleSet

\* The free list holds the vacant slots, and each of them can be taken again:
\* an insert that pops one succeeds, and no slot is lost on the way of errors.
FreeSlotsAreUsable ==
  \A t \in Domains :
    /\ freeSlots[t] = {s \in Slots : state[t][s] = "vacant"}
    /\ \A s \in freeSlots[t] : generation[t][s] < MaxGeneration

\* A handle whose value was removed resolves in no table any more, however often
\* its slot is taken again and whatever tables are made for the same owner.
SpentHandlesStaySpent ==
  \A h \in spentHandles, t \in Domains : ~Resolves(t, h)

\* The tables implement the registry of handles.
HandleAt(t, s) ==
  [owner |-> ownerOf[t], domain |-> t, slot |-> s, generation |-> generation[t][s]]

Occupied == {p \in Domains \X Slots : state[p[1]][p[2]] = "occupied"}

Bound == {<<HandleAt(p[1], p[2]), value[p[1]][p[2]]>> : p \in Occupied}

Registry == INSTANCE HandleRegistry WITH
              AllHandles <- HandleSet, AllValues <- Resources,
              bound <- Bound, spent <- spentHandles

ImplementsRegistry == Registry!RegistrySpec

\* Slots can be used again, handles cannot.
HandlesAreSpentOnce == FreeSlotsAreUsable /\ SpentHandlesStaySpent
=============================================================================
