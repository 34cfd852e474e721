------------------------------- MODULE Server -------------------------------
(***************************************************************************)
(* The server of server/main.cpp: the acceptor, the sessions, the session  *)
(* manager and the state storage, and what they post on each other.        *)
(*                                                                         *)
(* A connection is accepted on the acceptor's strand, where the new        *)
(* session is listed, started, and sent the first pair of the map; every   *)
(* later pair is asked for on the session's strand, when the one before it *)
(* has been written.  A DATA line read on a session's strand becomes an    *)
(* update on the storage's strand, and, if it changed the map, a broadcast *)
(* on the manager's strand and a send on the strand of every other listed  *)
(* session.  The two streams of pairs a session is sent, the sync and the  *)
(* feed, meet on its strand.                                               *)
(*                                                                         *)
(* StateStorage and Acceptor are instantiated: their actions are conjoined *)
(* with what the callers do in the same handler.  Here inactivity_time is  *)
(* 0 (no timer), the memory of a destroyed session is not used again        *)
(* (Lifetime has both), and one async_write() hands its whole message to   *)
(* the connection in one step.                                             *)
(*                                                                         *)
(* The io_context runs on Threads threads.  A handler that waits for a      *)
(* future keeps its thread: the others need one that is left to begin on.  *)
(***************************************************************************)
EXTENDS Naturals, Sequences, FiniteSets

CONSTANTS
  Sessions,   \* the connections the clients make, a session each
  Keys, Values,
  Lines,      \* the lines the clients send
  MaxLines,   \* bound: lines read
  Leavers,    \* the sessions whose connection may break
  Signals,    \* the signals that may arrive
  MaxSignals, \* bound: signals handled
  Threads,    \* the number of threads in io_context::run()
  Stored      \* the pairs in the map at first: lines of clients that have left

LineRead == [in : {"ping", "bad", "error"}]
              \cup [in : {"data"}, key : Keys, val : Values]

ASSUME ServerAssumption ==
  /\ IsFiniteSet(Sessions)
  /\ Keys \subseteq Nat \ {0}
  /\ Lines \subseteq LineRead
  /\ Leavers \subseteq Sessions
  /\ Signals \subseteq {"INT", "USR1", "USR2"}
  /\ MaxLines \in Nat /\ MaxSignals \in Nat /\ Threads \in Nat
  /\ Stored \in Seq([by : Sessions, key : Keys, val : Values])
  /\ \A i, j \in DOMAIN Stored : Stored[i].key = Stored[j].key => i = j

VARIABLES
  m_map, m_gen, m_strand, fut, resetting, cursor, log, from, got,
  acc_open, acc_live, landing, acc_strand, serving, sig, signals, conns, errors,
  joining,     \* the session on_new_connection() is working on, if any
  created,     \* the sessions smgr.create() has made
  usr2,        \* what the SIGUSR2 handler is waiting for after acc.stop()
  m_list,      \* session_manager::m_list
  mgr_strand,  \* the handlers queued on session_manager::m_strand
  strand,      \* the handlers queued on each session's strand
  waiting,     \* the sessions whose strand is blocked in sync_next()
  reading,     \* the sessions with an async_read_until() outstanding
  writing,     \* the async_write()s outstanding on each session's socket
  on_stop,     \* the sessions with m_on_stop set: their socket is closed
  gone,        \* the sessions whose connection is broken
  released,    \* the sessions whose last session_ptr is gone
  destroyed,   \* those whose destructor has run
  wire,        \* what each connection has been handed, in order
  base,        \* history: the updates already broadcast when the session was listed
  lines        \* history: lines read so far

storageVars == <<m_map, m_gen, m_strand, fut, resetting, cursor, log, from, got>>
acceptorVars == <<acc_open, acc_live, landing, acc_strand, serving, sig,
                  signals, conns, errors>>
managerVars == <<m_list, mgr_strand, base>>
socketVars == <<reading, writing, on_stop, gone, wire>>
lifeVars == <<created, released, destroyed>>
vars == <<storageVars, acceptorVars, managerVars, socketVars, lifeVars,
          joining, usr2, strand, waiting, lines>>

\* The sessions that are over when a behaviour begins.
Before == {Stored[i].by : i \in DOMAIN Stored}

Storage == INSTANCE StateStorage
             WITH MaxUpdates <- MaxLines + Len(Stored), MaxResets <- MaxSignals
Acceptor == INSTANCE Acceptor
              WITH MaxConns <- Cardinality(Sessions \ Before), MaxErrors <- 0

\* A message on its way to a client: the number of its buffer in log (0: the
\* PING line itself), the callback to run once it is sent, and the session
\* whose session_ptr keeps it company.
Message == [n : Nat, cb : {"sync", "feed", "ping"}, holder : Sessions]
Handler == [op : {"start", "stop"}]
             \cup [op : {"readed"}, line : LineRead]
             \cup [op : {"send"}, msg : Message]
             \cup [op : {"wrote"}, msg : Message, ok : BOOLEAN]
Job == [op : {"push", "erase"}, s : Sessions]
         \cup [op : {"broadcast"}, n : Nat, holder : Sessions]
         \cup [op : {"reset"}]

\* The program begins with an empty map and no session before (Stored = <<>>);
\* else a behaviour begins where the authors of Stored have come, written and left.
InitStorage ==
  /\ m_map = [k \in {Stored[i].key : i \in DOMAIN Stored} |->
       LET i == CHOOSE i \in DOMAIN Stored : Stored[i].key = k
       IN  [key |-> i, val |-> i, key_val |-> i]]
  /\ m_gen = 0 /\ m_strand = <<>> /\ resetting = FALSE
  /\ fut = [s \in Sessions |-> IF s \in Before THEN "latest" ELSE "none"]
  /\ cursor = [s \in Sessions |-> [key |-> 0, gen |-> 0]]
  /\ log = Stored
  /\ from = [s \in Sessions |-> 0] /\ got = [s \in Sessions |-> <<>>]

Init ==
  /\ InitStorage
  /\ Acceptor!Init
  /\ joining = {}
  /\ usr2 = "no"
  /\ m_list = {} /\ mgr_strand = <<>>
  /\ base = [s \in Sessions |-> 0]
  /\ strand = [s \in Sessions |-> <<>>]
  /\ writing = [s \in Sessions |-> <<>>]
  /\ wire = [s \in Sessions |-> <<>>]
  /\ waiting = {} /\ reading = {} /\ on_stop = Before /\ gone = Before
  /\ created = Before /\ released = Before /\ destroyed = Before
  /\ lines = 0

-----------------------------------------------------------------------------
(* The strands. *)

\* The threads blocked in get() of a future: in on_new_connection(), in a
\* sync_next(), in the signal handler.
Blocked ==
  Cardinality(waiting) + Cardinality(joining)
    + IF sig \in {"idle", "exit"} THEN 0 ELSE 1
ThreadFree == Blocked < Threads

Post(s, h) == strand' = [strand EXCEPT ![s] = Append(@, h)]
PostManager(job) ==
  mgr_strand' = Append(mgr_strand, job) /\ UNCHANGED <<m_list, base>>

\* A session's next handler, unless an earlier one is still blocked.
Ready(s, op) ==
  /\ ThreadFree /\ s \notin waiting /\ s \notin destroyed
  /\ strand[s] # <<>> /\ Head(strand[s]).op = op
Runs(s, op) ==
  Ready(s, op) /\ strand' = [strand EXCEPT ![s] = Tail(@)]

ManagerRuns(op) ==
  /\ ThreadFree
  /\ mgr_strand # <<>> /\ Head(mgr_strand).op = op
  /\ mgr_strand' = Tail(mgr_strand)

Send(s, msg) == [op |-> "send", msg |-> msg]
SyncPair(s) ==
  [n |-> got[s][Len(got[s])], cb |-> "sync", holder |-> s]

-----------------------------------------------------------------------------
(* on_new_connection(), on the acceptor's strand. *)

\* state.size(), then block.
Accept(s) ==
  /\ ThreadFree
  /\ Acceptor!OnAccepted
  /\ Storage!PostSize(s)
  /\ joining' = {s}
  /\ UNCHANGED <<managerVars, socketVars, lifeVars, usr2, strand, waiting, lines>>

\* smgr.create() and session->start(): from here on the session reads ...
Create(s) ==
  /\ s \in joining /\ s \notin created /\ fut[s] = "sized"
  /\ created' = created \cup {s}
  /\ PostManager([op |-> "push", s |-> s])
  /\ Post(s, [op |-> "start"])
  /\ UNCHANGED <<storageVars, acceptorVars, socketVars, released, destroyed,
                 joining, usr2, waiting, lines>>

\* ... while start_sync() calls state.get_first(), and blocks again.
StartSync(s) ==
  /\ s \in joining \cap created
  /\ Storage!PostFirst(s)
  /\ UNCHANGED <<acceptorVars, managerVars, socketVars, lifeVars,
                 joining, usr2, strand, waiting, lines>>

\* It sends the first pair, if there is one; the accept chain goes on.
Joined(s) ==
  /\ s \in joining
  /\ \/ fut[s] = "found" /\ Post(s, [op |-> "send", msg |-> SyncPair(s)])
     \/ fut[s] = "latest" /\ UNCHANGED strand
  /\ Acceptor!CallbackReturns
  /\ joining' = {}
  /\ UNCHANGED <<storageVars, managerVars, socketVars, lifeVars, usr2, waiting, lines>>

-----------------------------------------------------------------------------
(* session: its socket ... *)

OnSocket == UNCHANGED <<storageVars, acceptorVars, managerVars, lifeVars,
                        joining, usr2, waiting>>

\* A line is read: it had arrived, or came in one piece with the line before
\* it, so that a read on a closed socket can still find it in the buffer.
ReadCompletes(s, line) ==
  /\ s \in reading /\ lines < MaxLines
  /\ lines' = lines + 1
  /\ reading' = reading \ {s}
  /\ Post(s, [op |-> "readed", line |-> line])
  /\ UNCHANGED <<writing, on_stop, gone, wire>> /\ OnSocket

ReadFails(s) ==
  /\ s \in reading /\ s \in on_stop \cup gone
  /\ reading' = reading \ {s}
  /\ Post(s, [op |-> "readed", line |-> [in |-> "error"]])
  /\ UNCHANGED <<lines, writing, on_stop, gone, wire>> /\ OnSocket

Wrote(s, ok) ==
  /\ writing[s] # <<>>
  /\ writing' = [writing EXCEPT ![s] = Tail(@)]
  /\ Post(s, [op |-> "wrote", msg |-> Head(writing[s]), ok |-> ok])
  /\ UNCHANGED <<lines, reading, on_stop, gone>> /\ OnSocket

WriteCompletes(s) ==
  /\ Wrote(s, TRUE)
  /\ s \notin on_stop \cup gone \cup destroyed
  /\ wire' = [wire EXCEPT ![s] = Append(@, Head(writing[s]))]

WriteFails(s) ==
  /\ Wrote(s, FALSE)
  /\ s \in on_stop \cup gone \cup destroyed
  /\ UNCHANGED wire

\* The peer leaves, or the network fails.
Break(s) ==
  /\ s \in Leavers /\ s \notin gone /\ fut[s] # "none"
  /\ gone' = gone \cup {s}
  /\ UNCHANGED <<strand, lines, reading, writing, on_stop, wire>> /\ OnSocket

-----------------------------------------------------------------------------
(* ... and its handlers. *)

OnStrand == UNCHANGED <<acceptorVars, managerVars, lifeVars, joining, usr2, lines>>
Handles(s, op) == Runs(s, op) /\ OnStrand
Privately == UNCHANGED <<storageVars, waiting>>

StartImpl(s) ==
  /\ Handles(s, "start")
  /\ reading' = reading \cup {s}
  /\ Privately /\ UNCHANGED <<writing, on_stop, gone, wire>>

\* on_readed() with a DATA line: handle_data() posts the update, and the next
\* read is begun.
ReadedData(s) ==
  LET line == Head(strand[s]).line
  IN  /\ Handles(s, "readed") /\ line.in = "data"
      /\ Storage!PostUpdate(s, line.key, line.val)
      /\ reading' = reading \cup {s}
      /\ UNCHANGED <<waiting, writing, on_stop, gone, wire>>

\* A PING line is sent back as it is.
ReadedPing(s) ==
  /\ Ready(s, "readed") /\ Head(strand[s]).line.in = "ping"
  /\ strand' = [strand EXCEPT ![s] =
       Append(Tail(@), [op |-> "send", msg |-> [n |-> 0, cb |-> "ping", holder |-> s]])]
  /\ reading' = reading \cup {s}
  /\ OnStrand /\ Privately /\ UNCHANGED <<writing, on_stop, gone, wire>>

\* A slip: the reading goes on after an error.
ReadedBadReadsOn(s) ==
  /\ Handles(s, "readed") /\ Head(strand[s]).line.in \in {"bad", "error"}
  /\ reading' = reading \cup {s}
  /\ Privately /\ UNCHANGED <<writing, on_stop, gone, wire>>

\* Any other line, and any failure to read, ends the reading: after stop() the
\* error is not looked at, but the line is empty then, which is a bad one.
ReadedBad(s) ==
  /\ Handles(s, "readed") /\ Head(strand[s]).line.in \in {"bad", "error"}
  /\ Privately /\ UNCHANGED socketVars

\* A slip: a message overtakes those still being written.
SendOvertaking(s) ==
  /\ Handles(s, "send")
  /\ writing' = [writing EXCEPT ![s] = <<Head(strand[s]).msg>> \o @]
  /\ Privately /\ UNCHANGED <<reading, on_stop, gone, wire>>

SendImpl(s) ==
  /\ Handles(s, "send")
  /\ writing' = [writing EXCEPT ![s] = Append(@, Head(strand[s]).msg)]
  /\ Privately /\ UNCHANGED <<reading, on_stop, gone, wire>>

\* The completion of async_write(): a message that could not be sent is dropped
\* with sent_cb(false), unless the session is being stopped: then it counts as
\* sent.  sent_cb(true) of a pair of the sync is sync_next(), which asks for the
\* next pair and blocks; the other callbacks do nothing.
WroteFailed(s) ==
  /\ Handles(s, "wrote")
  /\ ~Head(strand[s]).ok /\ s \notin on_stop
  /\ Privately /\ UNCHANGED socketVars

SentTrue(s) == Handles(s, "wrote") /\ (Head(strand[s]).ok \/ s \in on_stop)

WroteFeed(s) ==
  /\ SentTrue(s) /\ Head(strand[s]).msg.cb # "sync"
  /\ Privately /\ UNCHANGED socketVars

SyncNext(s) ==
  /\ SentTrue(s) /\ Head(strand[s]).msg.cb = "sync"
  /\ Storage!PostNext(s)
  /\ waiting' = waiting \cup {s}
  /\ UNCHANGED socketVars

\* A slip: sync_next() sends nothing when it was given a pair.
SyncResumeSilent(s) ==
  /\ s \in waiting /\ fut[s] \in {"found", "latest", "undefined"}
  /\ waiting' = waiting \ {s}
  /\ OnStrand /\ UNCHANGED <<storageVars, socketVars, strand>>

\* sync_next() once get_next() has answered.
SyncResume(s) ==
  /\ s \in waiting
  /\ \/ fut[s] = "found" /\ Post(s, [op |-> "send", msg |-> SyncPair(s)])
     \/ fut[s] \in {"latest", "undefined"} /\ UNCHANGED strand
  /\ waiting' = waiting \ {s}
  /\ OnStrand /\ UNCHANGED <<storageVars, socketVars>>

\* stop_impl() closes the socket; a second one finds m_on_stop set.
StopImpl(s) ==
  /\ Handles(s, "stop")
  /\ on_stop' = on_stop \cup {s}
  /\ Privately /\ UNCHANGED <<reading, writing, gone, wire>>

SessionStrand(s) ==
  \/ StartImpl(s) \/ ReadedData(s) \/ ReadedPing(s) \/ ReadedBad(s)
  \/ SendImpl(s) \/ WroteFailed(s) \/ WroteFeed(s)
  \/ SyncNext(s) \/ SyncResume(s) \/ StopImpl(s)

-----------------------------------------------------------------------------
(* session_manager: create(), broadcast(), reset() and the deleter. *)

OnManager == UNCHANGED <<storageVars, acceptorVars, socketVars, joining, waiting, lines>>

Queued(op) == {i \in DOMAIN mgr_strand : mgr_strand[i].op = op}

\* How many updates have been broadcast.
Announced == Len(log) - Cardinality(Queued("broadcast"))

PushBack ==
  /\ ManagerRuns("push")
  /\ m_list' = m_list \cup {Head(mgr_strand).s}
  /\ base' = [base EXCEPT ![Head(mgr_strand).s] = Announced]
  /\ UNCHANGED <<strand, usr2, lifeVars>> /\ OnManager

\* Post on the strand of every listed session but those in except.
PostAll(h, except) ==
  strand' = [s \in Sessions |->
    IF s \in m_list \ except THEN Append(strand[s], h) ELSE strand[s]]

\* Slips in broadcast_impl(): the author is not skipped, or the sessions whose
\* sync is not over are.
BroadcastBut(except) ==
  LET job == Head(mgr_strand)
  IN  /\ ManagerRuns("broadcast")
      /\ PostAll([op |-> "send",
                  msg |-> [n |-> job.n, cb |-> "feed", holder |-> job.holder]],
                 except)
      /\ UNCHANGED <<m_list, base, usr2, lifeVars>> /\ OnManager
BroadcastToAll == BroadcastBut({})
BroadcastToSynced ==
  /\ mgr_strand # <<>> /\ Head(mgr_strand).op = "broadcast"
  /\ BroadcastBut({Head(mgr_strand).holder} \cup {s \in Sessions : fut[s] # "latest"})

\* broadcast_impl() skips the session the update came from.
BroadcastImpl ==
  LET job == Head(mgr_strand)
  IN  /\ ManagerRuns("broadcast")
      /\ PostAll([op |-> "send",
                  msg |-> [n |-> job.n, cb |-> "feed", holder |-> job.holder]],
                 {job.holder})
      /\ UNCHANGED <<m_list, base, usr2, lifeVars>> /\ OnManager

\* A slip: the future of reset() is never made ready.
StopAllUnanswered ==
  /\ ManagerRuns("reset")
  /\ PostAll([op |-> "stop"], {})
  /\ UNCHANGED <<m_list, base, usr2, lifeVars>> /\ OnManager

\* reset() posts stop_impl() on every session and does not wait for it.
StopAll ==
  /\ ManagerRuns("reset")
  /\ PostAll([op |-> "stop"], {})
  /\ usr2' = "stopped"
  /\ UNCHANGED <<m_list, base, lifeVars>> /\ OnManager

Erase ==
  LET s == Head(mgr_strand).s
  IN  /\ ManagerRuns("erase")
      /\ m_list' = m_list \ {s}
      /\ destroyed' = destroyed \cup {s}
      /\ UNCHANGED <<base, strand, usr2, created, released>> /\ OnManager

Manager == PushBack \/ BroadcastImpl \/ StopAll \/ Erase

\* What holds a session_ptr to s: on_new_connection(), a handler or an
\* operation of its own, an update or a message it is the source of.
Carries(h, s) == h.op \in {"send", "wrote"} /\ h.msg.holder = s

Held(s) ==
  \/ s \in joining \cup reading \cup waiting
  \/ \E i \in DOMAIN strand[s] : strand[s][i].op \in {"start", "readed"}
  \/ \E t \in Sessions :
       \/ \E i \in DOMAIN strand[t] : Carries(strand[t][i], s)
       \/ \E i \in DOMAIN writing[t] : writing[t][i].holder = s
  \/ \E i \in DOMAIN m_strand : m_strand[i].op = "update" /\ m_strand[i].by = s
  \/ \E i \in Queued("broadcast") : mgr_strand[i].holder = s

Orphan(s) == s \in created \ released /\ ~Held(s)

\* session_deleter(), run by whatever handler lets the last session_ptr go.
Release(s) ==
  /\ Orphan(s)
  /\ released' = released \cup {s}
  /\ Post(s, [op |-> "stop"])
  /\ PostManager([op |-> "erase", s |-> s])
  /\ UNCHANGED <<created, destroyed, usr2>> /\ OnManager

\* A handler that was still queued when its session was destroyed works on
\* freed memory: what it does is undefined and is not followed.
RunDangling(s) ==
  /\ ThreadFree /\ s \in destroyed /\ strand[s] # <<>>
  /\ strand' = [strand EXCEPT ![s] = Tail(@)]
  /\ UNCHANGED <<managerVars, lifeVars, usr2>> /\ OnManager

-----------------------------------------------------------------------------
(* The storage's strand, and the signal handler. *)

\* A slip in the update's callback: the author is forgotten.
StoreAnonymously ==
  /\ Storage!InsertNew \/ Storage!ChangeValue
  /\ PostManager([op |-> "broadcast", n |-> Len(log')])

\* The update's callback broadcasts the stored buffer, in the same handler.
StoreAndBroadcast ==
  /\ Storage!InsertNew \/ Storage!ChangeValue
  /\ PostManager([op |-> "broadcast", n |-> Len(log'), holder |-> Head(m_strand).by])

OtherRequest ==
  /\ \/ Storage!KeepValue \/ Storage!SizeImpl \/ Storage!GetFirstImpl
     \/ Storage!GetNextImpl \/ Storage!GetNextDangling \/ Storage!ResetImpl
  /\ UNCHANGED managerVars

StorageStrand ==
  /\ ThreadFree
  /\ StoreAndBroadcast \/ OtherRequest
  /\ UNCHANGED <<acceptorVars, socketVars, lifeVars,
                 joining, usr2, strand, waiting, lines>>

OnSignal == UNCHANGED <<socketVars, lifeVars, joining, strand, waiting, lines>>

\* Once acc.stop() is done: smgr.reset(), then state.reset(), then acc.start().
ResetSessions ==
  /\ sig = "stopped" /\ usr2 = "no"
  /\ usr2' = "stopping"
  /\ PostManager([op |-> "reset"])
  /\ UNCHANGED <<storageVars, acceptorVars>> /\ OnSignal

ResetState ==
  /\ usr2 = "stopped"
  /\ usr2' = "resetting"
  /\ Storage!PostReset
  /\ UNCHANGED <<acceptorVars, managerVars>> /\ OnSignal

Restart ==
  /\ usr2 = "resetting" /\ ~resetting
  /\ usr2' = "no"
  /\ Acceptor!Restart
  /\ UNCHANGED <<storageVars, managerVars>> /\ OnSignal

SignalHandler == ResetSessions \/ ResetState \/ Restart

\* What the acceptor and the signal handler do without the rest of the server.
Alone(action) == action /\ UNCHANGED <<storageVars, managerVars, usr2>> /\ OnSignal

AcceptorStrand ==
  /\ ThreadFree
  /\ Alone(\/ Acceptor!StartImpl \/ Acceptor!Stop \/ Acceptor!IsOpen
           \/ Acceptor!OnAcceptFailed)

\* The signal handler goes on where it waited, a finished accept is handed over.
AcceptorGoesOn ==
  Alone(\/ Acceptor!Toggle
        \/ \E r \in Acceptor!Results : Acceptor!Complete(r))

SignalArrives ==
  /\ ThreadFree
  /\ Alone(Acceptor!Interrupt \/ Acceptor!AskIsOpen \/ Acceptor!AskStop)

AcceptorEvent == SignalArrives \/ Alone(Acceptor!Connect)

Socket(s) ==
  \/ \E line \in Lines : ReadCompletes(s, line)
  \/ ReadFails(s) \/ WriteCompletes(s) \/ WriteFails(s) \/ Break(s)

Step ==
  \/ \E s \in Sessions :
       \/ Accept(s) \/ Create(s) \/ StartSync(s) \/ Joined(s)
       \/ Socket(s) \/ SessionStrand(s) \/ RunDangling(s)
  \/ Manager \/ StorageStrand \/ SignalHandler
  \/ AcceptorStrand \/ AcceptorGoesOn \/ AcceptorEvent

Next ==
  /\ sig # "exit"
  /\ IF \E s \in Sessions : Orphan(s) THEN \E s \in Sessions : Release(s)
                                      ELSE Step

Spec == Init /\ [][Next]_vars

\* The server goes on as long as it can: a strand has a handler and a thread to
\* run it, or an operation on a socket ends, and the clients read what they are
\* sent.  Nothing obliges the clients to connect, to write or to leave, or a
\* signal to arrive.  With the bounds no run goes on for ever: every line, every
\* connection and every signal leads to finitely many handlers.  So a run that
\* stops only when nothing can go on is fair to each strand.
Progress ==
  /\ sig # "exit"
  /\ IF \E s \in Sessions : Orphan(s) THEN \E s \in Sessions : Release(s)
     ELSE \/ StorageStrand \/ Manager \/ SignalHandler
          \/ AcceptorStrand \/ AcceptorGoesOn
          \/ \E s \in Sessions :
               \/ Accept(s) \/ Create(s) \/ StartSync(s) \/ Joined(s)
               \/ SessionStrand(s) \/ RunDangling(s)
               \/ ReadFails(s) \/ WriteCompletes(s) \/ WriteFails(s)

FairSpec == Spec /\ WF_vars(Progress)

-----------------------------------------------------------------------------
(* Properties *)

TypeOK ==
  /\ Storage!TypeOK
  /\ Acceptor!TypeOK
  /\ joining \subseteq Sessions /\ Cardinality(joining) <= 1
  /\ usr2 \in {"no", "stopping", "stopped", "resetting"}
  /\ m_list \subseteq Sessions
  /\ mgr_strand \in Seq(Job)
  /\ strand \in [Sessions -> Seq(Handler)]
  /\ writing \in [Sessions -> Seq(Message)]
  /\ wire \in [Sessions -> Seq(Message)]
  /\ \A set \in {waiting, reading, on_stop, gone, created, released, destroyed} :
       set \subseteq Sessions
  /\ base \in [Sessions -> Nat]
  /\ lines \in 0..MaxLines

FeedStatus(s) ==
  IF s \in on_stop \cup gone \cup destroyed THEN "left"
  ELSE IF s \in m_list THEN "in" ELSE "new"
Up(s) == FeedStatus(s) = "in"

\* The messages session s has been handed, has in its socket and has queued, in
\* order; a handler that sends nothing stands among them for no message.
NoMessage == [n |-> 0, cb |-> "none"]
Sent(s) ==
  wire[s] \o writing[s] \o
    [i \in DOMAIN strand[s] |->
       IF strand[s][i].op = "send" THEN strand[s][i].msg ELSE NoMessage]

\* The feed of a session that is up is exactly the changes of the others since
\* it was listed: none is lost, sent twice, sent back to its author or out of
\* order, from the storage's strand through the manager's to the session's.
FeedIn(msgs) == {i \in DOMAIN msgs : msgs[i].cb = "feed"}

FeedExact ==
  \A s \in Sessions : Up(s) =>
    LET feed == FeedIn(Sent(s))
    IN  /\ {Sent(s)[i].n : i \in feed}
             = {n \in base[s] + 1 .. Announced : log[n].by # s}
        /\ \A i, j \in feed : i < j => Sent(s)[i].n < Sent(s)[j].n

\* A client that joins misses nothing, although it is listed, scans the map and
\* is fed on three strands: a stored pair that the scan has passed is its own,
\* or was sent to it by the sync or by the feed, or is about to be broadcast.
SyncPassed(s, k) == fut[s] = "latest" \/ (fut[s] # "undefined" /\ k < cursor[s].key)

NothingMissed ==
  \A s \in Sessions : Up(s) => \A k \in DOMAIN m_map :
    SyncPassed(s, k) =>
      LET n == m_map[k].key_val
      IN  \/ log[n].by = s
          \/ \E i \in DOMAIN Sent(s) : Sent(s)[i].n = n
          \/ \E i \in Queued("broadcast") : mgr_strand[i].n = n

\* The server implements the feed.
Delivered(s) ==
  LET fed == FeedIn(wire[s])
  IN  IF fed = {} THEN base[s]
      ELSE wire[s][CHOOSE i \in fed : \A j \in fed : j <= i].n

AbstractFeed == INSTANCE Feed WITH
  Clients <- Sessions \ Before,
  Changes <- Storage!Line,
  status <- [s \in Sessions \ Before |-> FeedStatus(s)],
  pos <- [s \in Sessions \ Before |-> IF FeedStatus(s) = "in" THEN Delivered(s) ELSE 0]

ImplementsFeed == AbstractFeed!Spec

\* Everyone waits: each thread is blocked on a future, and none has its answer.
\* Nothing goes on any more then.
AllBlocked ==
  /\ ~ThreadFree
  /\ \A s \in joining \cup waiting : fut[s] = "pending"
  /\ sig \notin {"is_open", "is_shut"}
  /\ sig = "stopped" => usr2 = "stopping" \/ (usr2 = "resetting" /\ resetting)
Halted == AllBlocked \/ sig = "exit"

\* Each pair of a sync blocks a strand and a thread; and still a server that is
\* given the time has no sync at work: each one has sent its last pair, also to a
\* session that was stopped and whose writes only seem to succeed
\* (session.hpp:89), or its client is gone; no handler, write or thread of it is
\* left.  (Runs are bounded: what holds again and again holds when all is quiet.)
SyncAtWork(s) ==
  \/ s \in joining \cup waiting
  \/ \E i \in DOMAIN strand[s] :
       strand[s][i].op \in {"send", "wrote"} /\ strand[s][i].msg.cb = "sync"
  \/ \E i \in DOMAIN writing[s] : writing[s][i].cb = "sync"
SyncEnded(s) ==
  ~SyncAtWork(s) /\ (fut[s] \in {"none", "latest", "undefined"} \/ s \in gone)

SyncEnds == []<>(Halted \/ \A s \in Sessions : SyncEnded(s))

\* A signal is handled to the end, although the handler of SIGUSR2 blocks on
\* three strands whose handlers block on one another.
SignalHandled == []<>(Halted \/ sig = "idle")

\* A session that is stopped is destroyed in the end: reset() posts the stop and
\* does not wait, and the reads, writes and syncs that hold its session_ptr find
\* out one by one.
StoppedDestroyed == []<>(Halted \/ on_stop \subseteq destroyed)

-----------------------------------------------------------------------------
(* What the repository says of the server, and the code does not keep. *)

\* The clients share the state (README.md:2): when all is quiet, the last thing
\* the server sent to a client about a key, if it is about another's change, is
\* what the map holds, unless the value there is the client's own.
Quiet == m_strand = <<>> /\ mgr_strand = <<>>
           /\ \A s \in Sessions : strand[s] = <<>> /\ writing[s] = <<>>
About(s, k) == SelectSeq(wire[s], LAMBDA m : m.n > 0 /\ log[m.n].key = k)
StateIsShared ==
  \A s \in Sessions : Quiet /\ Up(s) => \A k \in DOMAIN m_map :
    \/ About(s, k) = <<>>
    \/ log[m_map[k].key_val].by = s
    \/ About(s, k)[Len(About(s, k))].n = m_map[k].key_val

\* No simultaneous access to a resource from several threads (README.md:24):
\* a scan's iterator is never into a map that reset() has cleared.
IteratorsValid == \A s \in Sessions : fut[s] # "undefined"

\* "new connection from ..., will send N pairs..." (main.cpp:189): each pair that
\* is in the map when a connection is accepted is sent to it, if it stays.
PairsSent ==
  \A s \in Sessions \ Before, k \in Keys :
    s \in joining /\ k \in DOMAIN m_map ~>
      About(s, k) # <<>> \/ s \in on_stop \cup gone \/ sig = "exit"
=============================================================================
