------------------------------ MODULE Acceptor ------------------------------
(***************************************************************************)
(* common/acceptor.hpp and the signal handler of server/main.cpp that      *)
(* drives it.                                                              *)
(*                                                                         *)
(* start(), stop() and is_open() put handlers on the acceptor's strand.    *)
(* start_impl() opens the socket and begins the accept chain: one          *)
(* async_accept() whose completion, on the same strand, runs the server's  *)
(* callback and begins the next.  A completion is handed to the strand some *)
(* time after the operation finished: close() cancels the accepts that are *)
(* outstanding, not those that have finished and are about to be handed on. *)
(* The callback may block (on_new_connection() waits for futures), so it   *)
(* spans two steps, and the strand runs nothing else in between.           *)
(*                                                                         *)
(* SIGUSR1 toggles accepting.  SIGUSR2 stops accepting, resets the         *)
(* sessions and the state, and starts again; what it resets is left to the *)
(* module that composes this one with them.  SIGINT and SIGTERM stop the   *)
(* whole io_context.                                                       *)
(***************************************************************************)
EXTENDS Naturals, Sequences, FiniteSets

CONSTANTS
  Signals,     \* the signals that may arrive
  MaxSignals,  \* bound: signals handled
  MaxConns,    \* bound: connections that arrive
  MaxErrors    \* bound: accepts that fail, for want of descriptors for example

ASSUME AcceptorAssumption ==
  /\ Signals \subseteq {"INT", "USR1", "USR2"}
  /\ MaxSignals \in Nat /\ MaxConns \in Nat /\ MaxErrors \in Nat

VARIABLES
  acc_open,    \* m_acc.is_open()
  acc_live,    \* async_accepts outstanding on the open socket
  landing,     \* finished accepts not yet handed to the strand, by result
  acc_strand,  \* the handlers queued on the strand, the oldest first
  serving,     \* is the server's callback running?
  sig,         \* where the signal handler is
  signals,     \* history: signals handled so far
  conns,       \* history: connections so far
  errors       \* history: failed accepts so far

vars == <<acc_open, acc_live, landing, acc_strand, serving, sig,
          signals, conns, errors>>

Results == {"ok", "aborted", "failed"}
Handlers == {"start", "stop", "stop_get", "is_open"} \cup Results

\* acceptor::start(), called by main() before any thread runs.
Init ==
  /\ acc_open = FALSE
  /\ acc_live = 0
  /\ landing = [r \in Results |-> 0]
  /\ acc_strand = <<"start">>
  /\ serving = FALSE
  /\ sig = "idle"
  /\ signals = 0 /\ conns = 0 /\ errors = 0

-----------------------------------------------------------------------------
(* The signal handler. *)

Enqueue(h) == acc_strand' = Append(acc_strand, h)

Signal(name) ==
  /\ sig = "idle" /\ name \in Signals /\ signals < MaxSignals
  /\ signals' = signals + 1
  /\ UNCHANGED <<acc_open, acc_live, landing, serving, conns, errors>>

Interrupt == Signal("INT") /\ sig' = "exit" /\ UNCHANGED acc_strand
AskIsOpen == Signal("USR1") /\ sig' = "asking" /\ Enqueue("is_open")
AskStop == Signal("USR2") /\ sig' = "stopping" /\ Enqueue("stop_get")

\* Slips: the two branches of SIGUSR1 are swapped, SIGUSR2 does not start again.
ToggleSwapped ==
  /\ \/ sig = "is_open" /\ Enqueue("start")
     \/ sig = "is_shut" /\ Enqueue("stop")
  /\ sig' = "idle"
  /\ UNCHANGED <<acc_open, acc_live, landing, serving, signals, conns, errors>>
RestartNothing ==
  /\ sig = "stopped"
  /\ sig' = "idle"
  /\ UNCHANGED <<acc_open, acc_live, landing, acc_strand, serving,
                 signals, conns, errors>>

\* SIGUSR1 once is_open() has answered; neither call is waited for.
Toggle ==
  /\ \/ sig = "is_open" /\ Enqueue("stop")
     \/ sig = "is_shut" /\ Enqueue("start")
  /\ sig' = "idle"
  /\ UNCHANGED <<acc_open, acc_live, landing, serving, signals, conns, errors>>

\* SIGUSR2 once stop() has been waited for, and the resets too.
Restart ==
  /\ sig = "stopped"
  /\ Enqueue("start")
  /\ sig' = "idle"
  /\ UNCHANGED <<acc_open, acc_live, landing, serving, signals, conns, errors>>

-----------------------------------------------------------------------------
(* The network and the reactor. *)

Land(r) ==
  /\ acc_live > 0
  /\ acc_live' = acc_live - 1
  /\ landing' = [landing EXCEPT ![r] = @ + 1]
  /\ UNCHANGED <<acc_open, acc_strand, serving, sig, signals>>

Connect == conns < MaxConns /\ Land("ok") /\ conns' = conns + 1 /\ UNCHANGED errors
AcceptError == errors < MaxErrors /\ Land("failed") /\ errors' = errors + 1 /\ UNCHANGED conns

Complete(r) ==
  /\ landing[r] > 0
  /\ landing' = [landing EXCEPT ![r] = @ - 1]
  /\ Enqueue(r)
  /\ UNCHANGED <<acc_open, acc_live, serving, sig, signals, conns, errors>>

-----------------------------------------------------------------------------
(* The handlers: each runs on the strand. *)

Runs(h) ==
  /\ acc_strand # <<>> /\ Head(acc_strand) = h
  /\ ~serving
  /\ acc_strand' = Tail(acc_strand)
  /\ UNCHANGED <<signals, conns, errors>>

\* async_accept() on a closed socket fails at once, with bad_descriptor.
StartAccept(open) ==
  IF open
    THEN acc_live' = acc_live + 1 /\ UNCHANGED landing
    ELSE landing' = [landing EXCEPT !["failed"] = @ + 1] /\ UNCHANGED acc_live

StartImpl ==
  /\ Runs("start")
  /\ acc_open' = TRUE
  /\ StartAccept(TRUE)
  /\ UNCHANGED <<serving, sig>>

\* A slip: stop() marks the acceptor closed, and its accept stays outstanding.
CloseWithoutCancel ==
  /\ acc_open' = FALSE
  /\ UNCHANGED <<acc_live, landing, serving>>

Close ==
  /\ acc_open' = FALSE
  /\ acc_live' = 0
  /\ landing' = [landing EXCEPT !["aborted"] = @ + acc_live]
  /\ UNCHANGED serving

Stop ==
  \/ Runs("stop") /\ Close /\ UNCHANGED sig
  \/ Runs("stop_get") /\ Close /\ sig' = "stopped"

IsOpen ==
  /\ Runs("is_open")
  /\ sig' = IF acc_open THEN "is_open" ELSE "is_shut"
  /\ UNCHANGED <<acc_open, acc_live, landing, serving>>

\* on_accepted() with a connection: the callback begins ...
OnAccepted ==
  /\ Runs("ok")
  /\ serving' = TRUE
  /\ UNCHANGED <<acc_open, acc_live, landing, sig>>

\* A slip: on_accepted() does not begin the next accept.
CallbackReturnsOnly ==
  /\ serving
  /\ serving' = FALSE
  /\ UNCHANGED <<acc_open, acc_live, landing, acc_strand, sig,
                 signals, conns, errors>>

\* ... and when it returns the next accept is begun, on whatever m_acc is now.
CallbackReturns ==
  /\ serving
  /\ serving' = FALSE
  /\ StartAccept(acc_open)
  /\ UNCHANGED <<acc_open, acc_strand, sig, signals, conns, errors>>

\* on_accepted() with an error: the chain ends, silently if it was aborted.
OnAcceptFailed ==
  /\ Runs("aborted") \/ Runs("failed")
  /\ UNCHANGED <<acc_open, acc_live, landing, serving, sig>>

Strand == StartImpl \/ Stop \/ IsOpen \/ OnAccepted \/ OnAcceptFailed
SignalHandler == Toggle \/ Restart

Next ==
  /\ sig # "exit"
  /\ \/ Interrupt \/ AskIsOpen \/ AskStop \/ SignalHandler
     \/ Connect \/ AcceptError
     \/ \E r \in Results : Complete(r)
     \/ Strand \/ CallbackReturns

Spec == Init /\ [][Next]_vars

\* The strand, the reactor, the signal handler and the callback make progress.
FairSpec ==
  /\ Spec
  /\ WF_vars(Strand) /\ WF_vars(CallbackReturns) /\ WF_vars(SignalHandler)
  /\ \A r \in Results : WF_vars(Complete(r))

-----------------------------------------------------------------------------
(* Properties *)

\* The strand holds handlers of this acceptor, the counters are counters, and an
\* accept is outstanding on an open socket only: stop() leaves none behind that
\* could take a connection after it (acceptor.hpp:53).
TypeOK ==
  /\ acc_open \in BOOLEAN /\ serving \in BOOLEAN
  /\ acc_live \in Nat /\ (acc_live > 0 => acc_open)
  /\ landing \in [Results -> Nat]
  /\ acc_strand \in Seq(Handlers)
  /\ sig \in {"idle", "asking", "is_open", "is_shut", "stopping", "stopped", "exit"}
  /\ signals \in Nat /\ conns \in Nat /\ errors \in Nat

\* start_impl() never finds the acceptor open: open() would throw already_open
\* out of the io_context's run() and end the server (acceptor.hpp:69).
NeverOpenTwice ==
  acc_strand # <<>> /\ Head(acc_strand) = "start" => ~acc_open

Queued(h) == \E i \in DOMAIN acc_strand : acc_strand[i] = h

\* While no accept has failed, an open acceptor that no one is stopping is
\* accepting: some accept is outstanding, on its way to the strand, on it, or
\* being served, whatever stops and starts went before.
StillListening ==
  acc_open /\ errors = 0 /\ ~Queued("stop") /\ ~Queued("stop_get")
    => acc_live > 0 \/ landing["ok"] > 0 \/ Queued("ok") \/ serving

\* SIGUSR2 always brings the acceptor back: its stop() is answered, and then the
\* server is open and accepting again, unless it is interrupted, also when a
\* failed accept had ended the accept chain and left an acceptor open that
\* accepts no one (acceptor.hpp:92).
ResetReopens ==
  /\ sig = "stopping" ~> sig = "stopped"
  /\ sig = "stopped" ~> (acc_open /\ acc_live > 0) \/ sig = "exit"
=============================================================================
