--------------------------- MODULE AcceptorProofs ---------------------------
(***************************************************************************)
(* Proofs about Acceptor, for any signals, connections and bounds.         *)
(***************************************************************************)
EXTENDS Acceptor, SequenceTheorems, TLAPS

\* What a queue holds when a handler is put behind the others.
LEMMA Behind ==
  ASSUME NEW S, NEW q \in Seq(S), NEW h \in S
  PROVE  /\ Append(q, h) \in Seq(S) /\ DOMAIN q = 1..Len(q) /\ Len(q) \in Nat
         /\ DOMAIN Append(q, h) = 1..Len(q) + 1
         /\ Append(q, h)[Len(q) + 1] = h
         /\ \A i \in 1..Len(q) : Append(q, h)[i] = q[i]
<1>1. /\ DOMAIN q = 1..Len(q) /\ Len(q) \in Nat
      /\ Append(q, h) \in Seq(S) /\ Len(Append(q, h)) = Len(q) + 1
      /\ Append(q, h)[Len(q) + 1] = h
      /\ \A i \in 1..Len(q) : Append(q, h)[i] = q[i]
  BY AppendProperties, LenProperties
<1> QED BY <1>1, LenProperties

\* What it holds when the first is taken off.
LEMMA Without ==
  ASSUME NEW S, NEW q \in Seq(S), q # <<>>
  PROVE  /\ Tail(q) \in Seq(S) /\ DOMAIN q = 1..Len(q) /\ Len(q) \in Nat \ {0}
         /\ DOMAIN Tail(q) = 1..Len(q) - 1 /\ Head(q) = q[1] /\ Head(q) \in S
         /\ \A i \in 1..Len(q) - 1 : Tail(q)[i] = q[i + 1]
<1>1. /\ DOMAIN q = 1..Len(q) /\ Len(q) \in Nat \ {0} /\ Head(q) = q[1] /\ Head(q) \in S
      /\ Tail(q) \in Seq(S) /\ Len(Tail(q)) = Len(q) - 1
      /\ \A i \in 1..Len(Tail(q)) : Tail(q)[i] = q[i + 1]
  BY HeadTailProperties, EmptySeq, LenProperties
<1> QED BY <1>1, LenProperties

-----------------------------------------------------------------------------
(* The invariant *)

\* The handlers that open, close or look at the acceptor.
Control == {"start", "stop", "stop_get", "is_open"}

\* A start finds the acceptor closed, and none of these runs before it; the
\* signal handler waits for the last of them, and has its answer when none is
\* left.
StartsClosed ==
  \A i \in DOMAIN acc_strand : acc_strand[i] = "start" =>
    ~acc_open /\ \A j \in DOMAIN acc_strand : j < i => acc_strand[j] \notin Control

WaitsForLast ==
  \A i \in DOMAIN acc_strand : acc_strand[i] \in {"is_open", "stop_get"} =>
    /\ sig = IF acc_strand[i] = "is_open" THEN "asking" ELSE "stopping"
    /\ \A j \in DOMAIN acc_strand : j > i => acc_strand[j] \notin Control

AnswerHolds ==
  /\ sig \in {"is_open", "is_shut", "stopped"} =>
       \A i \in DOMAIN acc_strand : acc_strand[i] \notin Control
  /\ sig \in {"is_shut", "stopped"} => ~acc_open

IInv == TypeOK /\ StartsClosed /\ WaitsForLast /\ AnswerHolds

LEMMA TypeInit == ASSUME AcceptorAssumption, Init PROVE TypeOK
<1>1. <<"start">> \in Seq(Handlers)
  BY DEF Handlers
<1>2. 0 \in Nat /\ ~(0 > 0)
  OBVIOUS
<1> QED BY <1>1, <1>2 DEF TypeOK, Init, Results

\* Close(), StartAccept() and Land() keep the counters natural, and no accept
\* outstanding on a closed socket.
Counts ==
  acc_live \in Nat /\ (acc_live > 0 => acc_open) /\ landing \in [Results -> Nat]

LEMMA CountsNext ==
  ASSUME TypeOK, Next
  PROVE  Counts'
<1> USE DEF TypeOK, Counts
<1>1. ASSUME NEW r \in Results, Land(r) PROVE Counts'
  BY <1>1 DEF Land
<1>2. ASSUME NEW r \in Results, Complete(r) PROVE Counts'
  BY <1>2 DEF Complete
<1>3. ASSUME StartAccept(acc_open'), acc_open' \in BOOLEAN, acc_open => acc_open' PROVE Counts'
  BY <1>3 DEF StartAccept, Results
<1>4. ASSUME Close PROVE Counts'
  BY <1>4 DEF Close, Results
<1>5. CASE Interrupt \/ AskIsOpen \/ AskStop \/ SignalHandler
  BY <1>5 DEF Interrupt, AskIsOpen, AskStop, Signal, SignalHandler, Toggle, Restart
<1>6. CASE Connect \/ AcceptError
  BY <1>6, <1>1 DEF Connect, AcceptError, Results
<1>7. CASE StartImpl \/ CallbackReturns
  BY <1>7, <1>3 DEF StartImpl, CallbackReturns
<1>8. CASE Stop
  BY <1>8, <1>4 DEF Stop
<1>9. CASE IsOpen \/ OnAccepted \/ OnAcceptFailed
  BY <1>9 DEF IsOpen, OnAccepted, OnAcceptFailed
<1> QED BY <1>2, <1>5, <1>6, <1>7, <1>8, <1>9 DEF Next, Strand

\* What a step puts on the strand, or takes off it.
Puts(h) == h \in Handlers /\ acc_strand' = Append(acc_strand, h)

LEMMA StrandNext ==
  ASSUME TypeOK, Next
  PROVE  \/ UNCHANGED acc_strand
         \/ \E h \in Handlers : Puts(h)
         \/ acc_strand # <<>> /\ acc_strand' = Tail(acc_strand)
<1>1. CASE Interrupt \/ AskIsOpen \/ AskStop \/ SignalHandler
  BY <1>1 DEF Interrupt, AskIsOpen, AskStop, SignalHandler, Toggle, Restart,
              Enqueue, Puts, Handlers
<1>2. CASE Connect \/ AcceptError \/ CallbackReturns
  BY <1>2 DEF Connect, AcceptError, Land, CallbackReturns
<1>3. CASE \E r \in Results : Complete(r)
  BY <1>3 DEF Complete, Enqueue, Puts, Handlers
<1>4. CASE Strand
  BY <1>4 DEF Strand, StartImpl, Stop, IsOpen, OnAccepted, OnAcceptFailed, Runs
<1> QED BY <1>1, <1>2, <1>3, <1>4 DEF Next

LEMMA TypeNext == ASSUME TypeOK, Next PROVE TypeOK'
<1>1. acc_strand' \in Seq(Handlers)
  <2>1. acc_strand \in Seq(Handlers)
    BY DEF TypeOK
  <2> QED BY <2>1, StrandNext, Behind, Without DEF Puts
<1>2. acc_open' \in BOOLEAN /\ serving' \in BOOLEAN
  BY DEF TypeOK, Next, Interrupt, AskIsOpen, AskStop, Signal, SignalHandler, Toggle,
         Restart, Connect, AcceptError, Land, Complete, Strand, StartImpl, Stop, Close,
         IsOpen, OnAccepted, OnAcceptFailed, CallbackReturns
<1>3. sig' \in {"idle", "asking", "is_open", "is_shut", "stopping", "stopped", "exit"}
  BY DEF TypeOK, Next, Interrupt, AskIsOpen, AskStop, Signal, SignalHandler, Toggle,
         Restart, Connect, AcceptError, Land, Complete, Strand, StartImpl, Stop,
         IsOpen, OnAccepted, OnAcceptFailed, CallbackReturns
<1>4. signals' \in Nat /\ conns' \in Nat /\ errors' \in Nat
  <2> USE DEF TypeOK
  <2>1. CASE Interrupt \/ AskIsOpen \/ AskStop \/ SignalHandler
    BY <2>1 DEF Interrupt, AskIsOpen, AskStop, Signal, SignalHandler, Toggle, Restart
  <2>2. CASE Connect \/ AcceptError
    BY <2>2 DEF Connect, AcceptError, Land
  <2>3. CASE (\E r \in Results : Complete(r)) \/ CallbackReturns
    BY <2>3 DEF Complete, CallbackReturns
  <2>4. CASE Strand
    BY <2>4 DEF Strand, StartImpl, Stop, IsOpen, OnAccepted, OnAcceptFailed, Runs
  <2> QED BY <2>1, <2>2, <2>3, <2>4 DEF Next
<1> QED BY <1>1, <1>2, <1>3, <1>4, CountsNext DEF TypeOK, Counts

\* What is left of the invariant when a handler is taken off the strand.
LEMMA Shifts ==
  ASSUME TypeOK, StartsClosed, WaitsForLast,
         acc_strand # <<>>, acc_strand' = Tail(acc_strand)
  PROVE  /\ ~acc_open' \/ UNCHANGED acc_open => StartsClosed'
         /\ UNCHANGED sig => WaitsForLast'
         /\ (\A i \in DOMAIN acc_strand : acc_strand[i] \notin Control) =>
              \A i \in DOMAIN acc_strand' : acc_strand'[i] \notin Control
         /\ Head(acc_strand) \in Control =>
              \E i \in DOMAIN acc_strand : acc_strand[i] \in Control
         /\ Head(acc_strand) = "start" =>
              \A i \in DOMAIN acc_strand' : acc_strand'[i] # "start"
         /\ Head(acc_strand) \in {"is_open", "stop_get"} =>
              \A i \in DOMAIN acc_strand' : acc_strand'[i] \notin Control
<1>1. /\ DOMAIN acc_strand = 1..Len(acc_strand) /\ Len(acc_strand) \in Nat \ {0}
      /\ DOMAIN acc_strand' = 1..Len(acc_strand) - 1
      /\ Head(acc_strand) = acc_strand[1]
      /\ \A i \in 1..Len(acc_strand) - 1 : acc_strand'[i] = acc_strand[i + 1]
  BY Without DEF TypeOK
<1>2. ASSUME ~acc_open' \/ UNCHANGED acc_open PROVE StartsClosed'
  <2> SUFFICES ASSUME NEW i \in DOMAIN acc_strand', acc_strand'[i] = "start",
                      NEW j \in DOMAIN acc_strand'
               PROVE  ~acc_open /\ (j < i => acc_strand'[j] \notin Control)
    <3>1. \A i \in DOMAIN acc_strand' : acc_strand'[i] = "start" => ~acc_open
      BY <1>1 DEF StartsClosed
    <3> QED BY <1>2, <3>1 DEF StartsClosed
  <2>1. /\ i + 1 \in DOMAIN acc_strand /\ j + 1 \in DOMAIN acc_strand
        /\ acc_strand[i + 1] = "start" /\ acc_strand'[j] = acc_strand[j + 1]
        /\ j < i => j + 1 < i + 1
    BY <1>1
  <2> QED BY <2>1 DEF StartsClosed
<1>3. ASSUME UNCHANGED sig PROVE WaitsForLast'
  <2> SUFFICES ASSUME NEW i \in DOMAIN acc_strand',
                      acc_strand'[i] \in {"is_open", "stop_get"},
                      NEW j \in DOMAIN acc_strand'
               PROVE  /\ sig = IF acc_strand'[i] = "is_open" THEN "asking" ELSE "stopping"
                      /\ j > i => acc_strand'[j] \notin Control
    BY <1>3 DEF WaitsForLast
  <2>1. /\ i + 1 \in DOMAIN acc_strand /\ j + 1 \in DOMAIN acc_strand
        /\ acc_strand'[i] = acc_strand[i + 1] /\ acc_strand'[j] = acc_strand[j + 1]
        /\ j > i => j + 1 > i + 1
    BY <1>1
  <2> QED BY <2>1 DEF WaitsForLast
<1>4. ASSUME Head(acc_strand) = "start", NEW i \in DOMAIN acc_strand'
      PROVE  acc_strand'[i] # "start"
  <2>1. i + 1 \in DOMAIN acc_strand /\ 1 \in DOMAIN acc_strand /\ 1 < i + 1
        /\ acc_strand'[i] = acc_strand[i + 1]
    BY <1>1
  <2> QED BY <2>1, <1>1, <1>4 DEF StartsClosed, Control
<1>5. ASSUME Head(acc_strand) \in {"is_open", "stop_get"}, NEW i \in DOMAIN acc_strand'
      PROVE  acc_strand'[i] \notin Control
  <2>1. i + 1 \in DOMAIN acc_strand /\ 1 \in DOMAIN acc_strand /\ i + 1 > 1
        /\ acc_strand'[i] = acc_strand[i + 1]
    BY <1>1
  <2> QED BY <2>1, <1>1, <1>5 DEF WaitsForLast
<1>6. /\ 1 \in DOMAIN acc_strand
      /\ \A i \in DOMAIN acc_strand' :
           i + 1 \in DOMAIN acc_strand /\ acc_strand'[i] = acc_strand[i + 1]
  BY <1>1
<1> QED BY <1>1, <1>2, <1>3, <1>4, <1>5, <1>6

\* A result may be put on the strand at any time.
LEMMA ResultsPass ==
  ASSUME TypeOK, StartsClosed, WaitsForLast, NEW r \in Results, Puts(r),
         UNCHANGED <<acc_open, sig>>
  PROVE  StartsClosed' /\ WaitsForLast'
<1>1. /\ DOMAIN acc_strand = 1..Len(acc_strand) /\ Len(acc_strand) \in Nat
      /\ DOMAIN acc_strand' = 1..Len(acc_strand) + 1
      /\ acc_strand'[Len(acc_strand) + 1] = r
      /\ \A i \in 1..Len(acc_strand) : acc_strand'[i] = acc_strand[i]
  BY Behind DEF TypeOK, Puts
<1>2. r \notin Control
  BY DEF Results, Control
<1>3. \A i \in DOMAIN acc_strand' : acc_strand'[i] \in Control =>
        i \in DOMAIN acc_strand /\ acc_strand'[i] = acc_strand[i]
  BY <1>1, <1>2
<1>4. StartsClosed'
  BY <1>3 DEF StartsClosed, Control
<1>5. WaitsForLast'
  BY <1>3 DEF WaitsForLast, Control
<1> QED BY <1>4, <1>5

\* The signal handler puts a question on the strand when it waits for none.
LEMMA Asks ==
  ASSUME TypeOK, StartsClosed, WaitsForLast, sig = "idle", UNCHANGED acc_open,
         NEW h \in {"is_open", "stop_get"}, Puts(h),
         sig' = IF h = "is_open" THEN "asking" ELSE "stopping"
  PROVE  StartsClosed' /\ WaitsForLast'
<1>1. /\ DOMAIN acc_strand = 1..Len(acc_strand) /\ Len(acc_strand) \in Nat
      /\ DOMAIN acc_strand' = 1..Len(acc_strand) + 1
      /\ acc_strand'[Len(acc_strand) + 1] = h
      /\ \A i \in 1..Len(acc_strand) : acc_strand'[i] = acc_strand[i]
  BY Behind DEF TypeOK, Puts
<1>2. \A i \in DOMAIN acc_strand : acc_strand[i] \notin {"is_open", "stop_get"}
  BY DEF WaitsForLast
<1>3. \A i \in DOMAIN acc_strand' :
        \/ i = Len(acc_strand) + 1 /\ acc_strand'[i] = h
        \/ i \in DOMAIN acc_strand /\ acc_strand'[i] = acc_strand[i]
  BY <1>1
<1>4. StartsClosed'
  <2> SUFFICES ASSUME NEW i \in DOMAIN acc_strand', acc_strand'[i] = "start",
                      NEW j \in DOMAIN acc_strand', j < i
               PROVE  ~acc_open /\ acc_strand'[j] \notin Control
    <3>1. \A i \in DOMAIN acc_strand' : acc_strand'[i] = "start" => ~acc_open
      BY <1>3 DEF StartsClosed
    <3> QED BY <3>1 DEF StartsClosed
  <2>1. i \in DOMAIN acc_strand /\ acc_strand[i] = "start"
    BY <1>3
  <2>2. j \in DOMAIN acc_strand /\ acc_strand'[j] = acc_strand[j]
    BY <2>1, <1>1
  <2> QED BY <2>1, <2>2 DEF StartsClosed
<1>5. WaitsForLast'
  <2> SUFFICES ASSUME NEW i \in DOMAIN acc_strand',
                      acc_strand'[i] \in {"is_open", "stop_get"}
               PROVE  /\ sig' = IF acc_strand'[i] = "is_open" THEN "asking" ELSE "stopping"
                      /\ \A j \in DOMAIN acc_strand' : ~(j > i)
    BY DEF WaitsForLast
  <2>1. i = Len(acc_strand) + 1 /\ acc_strand'[i] = h
    BY <1>2, <1>3
  <2> QED BY <2>1, <1>1
<1> QED BY <1>4, <1>5

\* With none of these handlers left, it may put a stop on the strand, and a start
\* if the acceptor is closed.
LEMMA Answers ==
  ASSUME TypeOK, AnswerHolds, UNCHANGED acc_open, NEW h \in {"start", "stop"}, Puts(h),
         sig \in {"is_open", "is_shut", "stopped"}, h = "start" => ~acc_open
  PROVE  StartsClosed' /\ WaitsForLast'
<1>1. /\ DOMAIN acc_strand = 1..Len(acc_strand) /\ Len(acc_strand) \in Nat
      /\ DOMAIN acc_strand' = 1..Len(acc_strand) + 1
      /\ acc_strand'[Len(acc_strand) + 1] = h
      /\ \A i \in 1..Len(acc_strand) : acc_strand'[i] = acc_strand[i]
  BY Behind DEF TypeOK, Puts
<1>2. \A i \in DOMAIN acc_strand : acc_strand[i] \notin Control
  BY DEF AnswerHolds
<1>3. \A i \in DOMAIN acc_strand' :
        acc_strand'[i] \in Control => i = Len(acc_strand) + 1 /\ acc_strand'[i] = h
  BY <1>1, <1>2
<1>4. StartsClosed'
  <2> SUFFICES ASSUME NEW i \in DOMAIN acc_strand', acc_strand'[i] = "start"
               PROVE  /\ ~acc_open
                      /\ \A j \in DOMAIN acc_strand' : j < i => acc_strand'[j] \notin Control
    BY DEF StartsClosed
  <2>1. i = Len(acc_strand) + 1 /\ h = "start"
    BY <1>3 DEF Control
  <2> QED BY <2>1, <1>1, <1>3
<1>5. WaitsForLast'
  BY <1>3 DEF WaitsForLast, Control
<1> QED BY <1>4, <1>5

LEMMA InvInit == ASSUME AcceptorAssumption, Init PROVE IInv
<1>1. TypeOK
  BY TypeInit
<1>2. acc_strand = <<"start">> /\ DOMAIN acc_strand = 1..1 /\ ~acc_open /\ sig = "idle"
  BY DEF Init
<1>3. StartsClosed /\ WaitsForLast /\ AnswerHolds
  BY <1>2 DEF StartsClosed, WaitsForLast, AnswerHolds
<1> QED BY <1>1, <1>3 DEF IInv

\* Each step keeps the invariant.
LEMMA InvNext == ASSUME IInv, Next PROVE IInv'
<1> SUFFICES StartsClosed' /\ WaitsForLast' /\ AnswerHolds'
  BY TypeNext DEF IInv
<1> USE DEF IInv
<1>1. CASE Interrupt
  <2>1. UNCHANGED <<acc_open, acc_strand>> /\ sig = "idle" /\ sig' = "exit"
    BY <1>1 DEF Interrupt, Signal
  <2> QED BY <2>1 DEF StartsClosed, WaitsForLast, AnswerHolds
<1>2. CASE AskIsOpen
  <2>1. UNCHANGED acc_open /\ sig = "idle" /\ sig' = "asking" /\ Puts("is_open")
    BY <1>2 DEF AskIsOpen, Signal, Enqueue, Puts, Handlers
  <2> QED BY <2>1, Asks DEF AnswerHolds
<1>3. CASE AskStop
  <2>1. UNCHANGED acc_open /\ sig = "idle" /\ sig' = "stopping" /\ Puts("stop_get")
    BY <1>3 DEF AskStop, Signal, Enqueue, Puts, Handlers
  <2> QED BY <2>1, Asks DEF AnswerHolds
<1>4. CASE SignalHandler
  <2>1. /\ UNCHANGED acc_open /\ sig \in {"is_open", "is_shut", "stopped"} /\ sig' = "idle"
        /\ \/ Puts("start") /\ sig # "is_open"
           \/ Puts("stop")
    BY <1>4 DEF SignalHandler, Toggle, Restart, Enqueue, Puts, Handlers
  <2>2. sig # "is_open" => ~acc_open
    BY <2>1 DEF AnswerHolds
  <2> QED BY <2>1, <2>2, Answers DEF AnswerHolds
<1>5. CASE Connect \/ AcceptError \/ CallbackReturns
  <2>1. UNCHANGED <<acc_open, acc_strand, sig>>
    BY <1>5 DEF Connect, AcceptError, Land, CallbackReturns
  <2> QED BY <2>1 DEF StartsClosed, WaitsForLast, AnswerHolds
<1>6. ASSUME NEW r \in Results, Complete(r)
      PROVE  StartsClosed' /\ WaitsForLast' /\ AnswerHolds'
  <2>1. UNCHANGED <<acc_open, sig>> /\ Puts(r)
    BY <1>6 DEF Complete, Enqueue, Puts, Handlers
  <2>2. AnswerHolds'
    <3> SUFFICES ASSUME sig \in {"is_open", "is_shut", "stopped"}
                 PROVE  \A i \in DOMAIN acc_strand' : acc_strand'[i] \notin Control
      BY <2>1 DEF AnswerHolds
    <3>1. \A i \in DOMAIN acc_strand' : acc_strand'[i] \in Results \/
            (i \in DOMAIN acc_strand /\ acc_strand'[i] = acc_strand[i])
      BY <2>1, Behind DEF TypeOK, Puts
    <3> QED BY <3>1 DEF AnswerHolds, Results, Control
  <2> QED BY <2>1, <2>2, ResultsPass
<1>7. CASE StartImpl
  <2>1. /\ acc_strand # <<>> /\ Head(acc_strand) = "start" /\ acc_strand' = Tail(acc_strand)
        /\ UNCHANGED sig
    BY <1>7 DEF StartImpl, Runs
  <2>2. WaitsForLast' /\ \A i \in DOMAIN acc_strand' : acc_strand'[i] # "start"
    BY <2>1, Shifts
  <2>3. sig \notin {"is_open", "is_shut", "stopped"}
    BY <2>1, Shifts DEF AnswerHolds, Control
  <2> QED BY <2>1, <2>2, <2>3 DEF StartsClosed, AnswerHolds
<1>8. CASE Stop
  <2>1. /\ acc_strand # <<>> /\ acc_strand' = Tail(acc_strand) /\ ~acc_open'
        /\ \/ Head(acc_strand) = "stop" /\ UNCHANGED sig
           \/ Head(acc_strand) = "stop_get" /\ sig' = "stopped"
    BY <1>8 DEF Stop, Runs, Close
  <2>2. StartsClosed'
    BY <2>1, Shifts
  <2>3. CASE Head(acc_strand) = "stop" /\ UNCHANGED sig
    BY <2>1, <2>3, Shifts DEF AnswerHolds
  <2>4. CASE Head(acc_strand) = "stop_get" /\ sig' = "stopped"
    <3>1. \A i \in DOMAIN acc_strand' : acc_strand'[i] \notin Control
      BY <2>1, <2>4, Shifts
    <3> QED BY <2>1, <2>2, <3>1 DEF WaitsForLast, AnswerHolds, Control
  <2> QED BY <2>1, <2>2, <2>3, <2>4
<1>9. CASE IsOpen
  <2>1. /\ acc_strand # <<>> /\ acc_strand' = Tail(acc_strand) /\ UNCHANGED acc_open
        /\ Head(acc_strand) = "is_open" /\ sig' \in {"is_open", "is_shut"}
        /\ sig' = "is_shut" => ~acc_open
    BY <1>9 DEF IsOpen, Runs
  <2>2. \A i \in DOMAIN acc_strand' : acc_strand'[i] \notin Control
    BY <2>1, Shifts
  <2> QED BY <2>1, <2>2 DEF StartsClosed, WaitsForLast, AnswerHolds, Control
<1>10. CASE OnAccepted \/ OnAcceptFailed
  <2>1. acc_strand # <<>> /\ acc_strand' = Tail(acc_strand) /\ UNCHANGED <<acc_open, sig>>
    BY <1>10 DEF OnAccepted, OnAcceptFailed, Runs
  <2> QED BY <2>1, Shifts DEF AnswerHolds
<1> QED BY <1>1, <1>2, <1>3, <1>4, <1>5, <1>6, <1>7, <1>8, <1>9, <1>10 DEF Next, Strand

\* The invariant holds in every reachable state.
THEOREM Invariance == Spec => []IInv
<1>1. Init => IInv
  BY AcceptorAssumption, InvInit
<1>2. IInv /\ [Next]_vars => IInv'
  <2>1. ASSUME IInv, UNCHANGED vars PROVE IInv'
    BY <2>1 DEF vars, IInv, TypeOK, StartsClosed, WaitsForLast, AnswerHolds
  <2> QED BY <2>1, InvNext
<1> QED BY <1>1, <1>2, PTL DEF Spec

\* The acceptor is type correct for any bounds (acceptor.hpp).
THEOREM TypeCorrect == Spec => []TypeOK
<1>1. IInv => TypeOK
  BY DEF IInv
<1> QED BY <1>1, Invariance, PTL

LEMMA StartsOnce == IInv => NeverOpenTwice
<1> SUFFICES ASSUME IInv, acc_strand # <<>>, Head(acc_strand) = "start"
             PROVE  ~acc_open
  BY DEF NeverOpenTwice
<1>1. 1 \in DOMAIN acc_strand /\ Head(acc_strand) = acc_strand[1]
  BY Without DEF IInv, TypeOK
<1> QED BY <1>1 DEF IInv, StartsClosed

\* However signals, connections and the answers to them are interleaved, open()
\* is never called on an open acceptor (acceptor.hpp:69).
THEOREM NeverOpensTwice == Spec => []NeverOpenTwice
BY StartsOnce, Invariance, PTL

-----------------------------------------------------------------------------
(* The accept chain *)

\* A handler that is put on the strand is on it, and what was on it stays, until
\* it is taken off the front.
LEMMA QueuedNext ==
  ASSUME TypeOK, NEW g \in Handlers
  PROVE  /\ \A h \in Handlers : Puts(h) => (Queued(g)' <=> Queued(g) \/ g = h)
         /\ acc_strand # <<>> /\ acc_strand' = Tail(acc_strand) /\ Head(acc_strand) # g
              => (Queued(g)' <=> Queued(g))
<1>1. ASSUME NEW h \in Handlers, Puts(h) PROVE Queued(g)' <=> Queued(g) \/ g = h
  <2>1. /\ DOMAIN acc_strand = 1..Len(acc_strand) /\ Len(acc_strand) \in Nat
        /\ DOMAIN acc_strand' = 1..Len(acc_strand) + 1
        /\ acc_strand'[Len(acc_strand) + 1] = h
        /\ \A i \in 1..Len(acc_strand) : acc_strand'[i] = acc_strand[i]
    BY <1>1, Behind DEF TypeOK, Puts
  <2>2. Len(acc_strand) + 1 \in DOMAIN acc_strand' /\ DOMAIN acc_strand \subseteq DOMAIN acc_strand'
    BY <2>1
  <2>3. \A i \in DOMAIN acc_strand' : i = Len(acc_strand) + 1 \/ i \in DOMAIN acc_strand
    BY <2>1
  <2> QED BY <2>1, <2>2, <2>3 DEF Queued
<1>2. ASSUME acc_strand # <<>>, acc_strand' = Tail(acc_strand), Head(acc_strand) # g
      PROVE  Queued(g)' <=> Queued(g)
  <2>1. /\ DOMAIN acc_strand = 1..Len(acc_strand) /\ Len(acc_strand) \in Nat \ {0}
        /\ DOMAIN acc_strand' = 1..Len(acc_strand) - 1
        /\ Head(acc_strand) = acc_strand[1]
        /\ \A i \in 1..Len(acc_strand) - 1 : acc_strand'[i] = acc_strand[i + 1]
    BY <1>2, Without DEF TypeOK
  <2>2. \A i \in DOMAIN acc_strand' :
          i + 1 \in DOMAIN acc_strand /\ acc_strand'[i] = acc_strand[i + 1]
    BY <2>1
  <2>3. \A i \in DOMAIN acc_strand : acc_strand[i] = g =>
          i - 1 \in DOMAIN acc_strand' /\ acc_strand'[i - 1] = acc_strand[i]
    BY <1>2, <2>1
  <2> QED BY <2>2, <2>3 DEF Queued
<1> QED BY <1>1, <1>2

LEMMA ListeningNext ==
  ASSUME TypeOK, StillListening, Next
  PROVE  StillListening'
<1> DEFINE Stopping == Queued("stop") \/ Queued("stop_get")
           Accepting == acc_live > 0 \/ landing["ok"] > 0 \/ Queued("ok") \/ serving
<1>1. acc_open /\ errors = 0 /\ ~Stopping => Accepting
  BY DEF StillListening
<1> SUFFICES ASSUME acc_open', errors' = 0, ~Stopping' PROVE Accepting'
  BY DEF StillListening
<1>2. "ok" \in Handlers /\ "stop" \in Handlers /\ "stop_get" \in Handlers /\ "ok" \in Results
  BY DEF Handlers, Results
<1>3. CASE Interrupt \/ AskIsOpen \/ AskStop \/ SignalHandler
  <2>1. /\ UNCHANGED <<acc_open, errors, acc_live, landing, serving>>
        /\ UNCHANGED acc_strand \/ \E h \in Handlers \ Results : Puts(h)
    BY <1>3 DEF Interrupt, AskIsOpen, AskStop, Signal, SignalHandler, Toggle, Restart,
                Enqueue, Puts, Handlers, Results
  <2>2. (Queued("ok") => Queued("ok")') /\ (Stopping => Stopping')
    <3>1. CASE UNCHANGED acc_strand
      BY <3>1 DEF Queued
    <3>2. CASE \E h \in Handlers : Puts(h)
      BY <3>2, <1>2, QueuedNext
    <3> QED BY <2>1, <3>1, <3>2
  <2> QED BY <2>1, <2>2, <1>1
<1>4. CASE Connect
  <2>1. landing'["ok"] > 0
    BY <1>4, <1>2 DEF Connect, Land, TypeOK
  <2> QED BY <2>1
<1>5. CASE AcceptError
  BY <1>5 DEF AcceptError, TypeOK
<1>6. ASSUME NEW r \in Results, Complete(r) PROVE Accepting'
  <2>1. UNCHANGED <<acc_open, errors, acc_live, serving>> /\ Puts(r)
        /\ landing' = [landing EXCEPT ![r] = @ - 1]
    BY <1>6 DEF Complete, Enqueue, Puts, Handlers
  <2>2. r \in Handlers
    BY <2>1 DEF Puts
  <2>3. /\ r = "ok" => Queued("ok")'
        /\ Queued("ok") => Queued("ok")'
        /\ Stopping => Stopping'
    BY <2>1, <2>2, <1>2, QueuedNext
  <2>4. r # "ok" => landing'["ok"] = landing["ok"]
    BY <2>1, <1>2 DEF TypeOK
  <2> QED BY <2>1, <2>3, <2>4, <1>1
<1>7. CASE StartImpl \/ CallbackReturns
  <2>1. acc_live' = acc_live + 1
    BY <1>7 DEF StartImpl, CallbackReturns, StartAccept
  <2> QED BY <2>1 DEF TypeOK
<1>8. CASE Stop
  BY <1>8 DEF Stop, Close
<1>9. CASE OnAccepted
  BY <1>9 DEF OnAccepted
<1>10. CASE IsOpen \/ OnAcceptFailed
  <2>1. /\ acc_strand # <<>> /\ acc_strand' = Tail(acc_strand)
        /\ Head(acc_strand) \in {"is_open", "aborted", "failed"}
        /\ UNCHANGED <<acc_open, errors, acc_live, landing, serving>>
    BY <1>10 DEF IsOpen, OnAcceptFailed, Runs
  <2>2. (Queued("ok")' <=> Queued("ok")) /\ (Stopping' <=> Stopping)
    BY <2>1, <1>2, QueuedNext
  <2> QED BY <2>1, <2>2, <1>1
<1> QED BY <1>3, <1>4, <1>5, <1>6, <1>7, <1>8, <1>9, <1>10 DEF Next, Strand

\* An acceptor that is open and not about to be stopped goes on accepting, as long
\* as no accept has failed (on_accepted, acceptor.hpp:97-99).
THEOREM KeepsListening == Spec => []StillListening
<1>1. Init => StillListening
  BY DEF Init, StillListening
<1>2. TypeOK /\ StillListening /\ [Next]_vars => StillListening'
  <2>1. ASSUME StillListening, UNCHANGED vars PROVE StillListening'
    BY <2>1 DEF vars, StillListening, Queued
  <2> QED BY <2>1, ListeningNext
<1> QED BY <1>1, <1>2, TypeCorrect, PTL DEF Spec
=============================================================================
