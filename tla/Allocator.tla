----------------------------- MODULE Allocator -----------------------------
(***************************************************************************)
(* What a pool of objects promises: memory is made for an object once and  *)
(* never given back to the system, an object is in the hands of one user   *)
(* at a time, and the size the pool reports is the number of objects made. *)
(***************************************************************************)
EXTENDS Naturals

CONSTANT Objects

VARIABLES
  made,  \* the objects memory was allocated for
  held,  \* those that are in use, from construction to return
  size   \* what size() reports

vars == <<made, held, size>>

Init == made = {} /\ held = {} /\ size = 0

Make(o) ==
  /\ o \notin made
  /\ made' = made \cup {o}
  /\ size' = size + 1
  /\ UNCHANGED held

Acquire(o) ==
  /\ o \in made \ held
  /\ held' = held \cup {o}
  /\ UNCHANGED <<made, size>>

Release(o) ==
  /\ o \in held
  /\ held' = held \ {o}
  /\ UNCHANGED <<made, size>>

Next == \E o \in Objects : Make(o) \/ Acquire(o) \/ Release(o)

Spec == Init /\ [][Next]_vars
=============================================================================
