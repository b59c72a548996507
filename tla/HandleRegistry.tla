--------------------------- MODULE HandleRegistry ---------------------------
(***************************************************************************)
(* What handles promise: a handle is given out once, with one value, and   *)
(* after the value is taken back the handle means nothing, for ever.       *)
(***************************************************************************)
CONSTANTS AllHandles, AllValues

VARIABLES
  bound,     \* <<handle, value>> that resolve
  spent      \* handles that did once

registry == <<bound, spent>>

Empty == bound = {} /\ spent = {}

Bind ==
  \E h \in AllHandles, v \in AllValues :
    /\ h \notin spent
    /\ \A p \in bound : p[1] # h
    /\ bound' = bound \cup {<<h, v>>}
    /\ spent' = spent

Rebind ==
  \E p \in bound, v \in AllValues :
    /\ bound' = (bound \ {p}) \cup {<<p[1], v>>}
    /\ spent' = spent

Release ==
  \E p \in bound :
    /\ bound' = bound \ {p}
    /\ spent' = spent \cup {p[1]}

RegistryNext == Bind \/ Rebind \/ Release

RegistrySpec == Empty /\ [][RegistryNext]_registry
=============================================================================
