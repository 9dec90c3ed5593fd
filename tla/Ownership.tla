----------------------------- MODULE Ownership -----------------------------
(***************************************************************************)
(* What a resource-owning wrapper promises (README.md:6, "RAII"): a system *)
(* resource is acquired once, has exactly one holder at every moment of    *)
(* its life, may be handed from holder to holder, and is released once,    *)
(* by its holder.  Nothing is said of numbers, objects or threads: the     *)
(* wrappers' modules map theirs onto this one.                             *)
(***************************************************************************)
CONSTANTS
  Resources,   \* identities of the resources ever acquired
  Places       \* where a resource can be held: a member, a local, ...

VARIABLES
  status,      \* status[r]: "unused", "held" or "released"
  holders      \* holders[r]: the places that hold r now

vars == <<status, holders>>

Held(r, p) == status[r] = "held" /\ holders[r] = {p}

Init ==
  /\ status = [r \in Resources |-> "unused"]
  /\ holders = [r \in Resources |-> {}]

Keep(r) == status'[r] = status[r] /\ holders'[r] = holders[r]

\* A fresh resource comes to one holder.
Acquire(r) ==
  /\ status[r] = "unused"
  /\ \E p \in Places : Held(r, p)'

\* The only holder hands the resource to another one.
Transfer(r) == \E p, q \in Places : Held(r, p) /\ Held(r, q)'

\* The only holder gives the resource back to the system, for good.
Release(r) ==
  /\ \E p \in Places : Held(r, p)
  /\ status'[r] = "released" /\ holders'[r] = {}

\* A step concerns any number of resources (a pipe's two ends are opened and
\* moved together, two holders exchange what they hold) and leaves every
\* place with at most one.
Next ==
  /\ status' \in [Resources -> {"unused", "held", "released"}]
  /\ holders' \in [Resources -> SUBSET Places]
  /\ \A r \in Resources : Keep(r) \/ Acquire(r) \/ Transfer(r) \/ Release(r)
  /\ \A r, s \in Resources : r # s => holders'[r] \cap holders'[s] = {}

Spec == Init /\ [][Next]_vars
=============================================================================
