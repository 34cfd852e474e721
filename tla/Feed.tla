-------------------------------- MODULE Feed --------------------------------
(***************************************************************************)
(* What the server promises a connected client about the changes of the    *)
(* others: from some point on, every change that is published and is not   *)
(* the client's own is delivered to it once, in the order the changes were *)
(* made, for as long as the client stays.                                  *)
(***************************************************************************)
EXTENDS Naturals, Sequences

CONSTANTS Clients, Changes

VARIABLES
  log,     \* the changes, in the order they were made
  status,  \* of each client
  pos      \* the last change delivered to a client that is in

feedVars == <<log, status, pos>>

\* Others may have made changes and left before.
Init ==
  /\ log \in Seq(Changes)
  /\ status = [c \in Clients |-> "new"]
  /\ pos = [c \in Clients |-> 0]

Publish(change) ==
  log' = Append(log, change) /\ UNCHANGED <<status, pos>>

Join(c) ==
  /\ status[c] = "new"
  /\ status' = [status EXCEPT ![c] = "in"]
  /\ \E n \in 0..Len(log) : pos' = [pos EXCEPT ![c] = n]
  /\ UNCHANGED log

\* The next change for c: the first one after pos[c] that is not its own.
Due(c, n) ==
  /\ n \in pos[c] + 1 .. Len(log) /\ log[n].by # c
  /\ \A i \in pos[c] + 1 .. n - 1 : log[i].by = c

Deliver(c) ==
  /\ status[c] = "in"
  /\ \E n \in 1..Len(log) : Due(c, n) /\ pos' = [pos EXCEPT ![c] = n]
  /\ UNCHANGED <<log, status>>

Leave(c) ==
  /\ status[c] # "left"
  /\ status' = [status EXCEPT ![c] = "left"]
  /\ pos' = [pos EXCEPT ![c] = 0]
  /\ UNCHANGED log

Next ==
  \/ \E change \in Changes : Publish(change)
  \/ \E c \in Clients : Join(c) \/ Deliver(c) \/ Leave(c)

\* What it promises at every step, and that what is due is delivered.
SafeSpec == Init /\ [][Next]_feedVars

Spec ==
  /\ SafeSpec
  /\ \A c \in Clients : WF_feedVars(Deliver(c))
=============================================================================
