------------------------------ MODULE Lifetime ------------------------------
(***************************************************************************)
(* The life of a session: common/session.hpp with its inactivity timer,    *)
(* intrusive_ptr and intrusive_base, the sessions' object_pool, and what   *)
(* session_manager and on_new_connection() do with a session's memory.     *)
(*                                                                         *)
(* A session lives in a cell, the memory the pool gave it.  Its m_counter   *)
(* counts the session_ptrs to it, which handlers, outstanding operations,   *)
(* updates and broadcasts carry.  Whoever drops the last one runs the       *)
(* deleter: it posts stop_impl() on the session's strand and the erase and  *)
(* the destructor on the manager's, pushes the cell on the pool's stack and *)
(* uncounts it, each a step of its own here.  stop_impl() and the sends of a *)
(* broadcast are posted with the session's address and nothing that holds   *)
(* it: they act on whatever session is in the cell when they run.           *)
(*                                                                         *)
(* Time is left out: a wait that is armed may expire at any moment.  The    *)
(* map is abstracted to whether an update changes it, and a sync to at most *)
(* one pair.  A handler that runs on a destroyed session and a session       *)
(* constructed over another one are undefined behaviour, and a connection    *)
(* that is gone before remote_endpoint() is asked for ends the server by an  *)
(* exception: each is the last step.                                         *)
(***************************************************************************)
EXTENDS Integers, Sequences, FiniteSets

CONSTANTS
  Conns,     \* the connections the clients make
  Cells,     \* the memory of sessions
  Inputs,    \* the kinds of lines the clients send
  MaxLines,  \* bound: lines read
  Leavers,   \* the clients that may leave
  Synced,    \* the connections for which the map has a pair to send
  Far        \* the connections whose first expiry, read from memory that is
             \* not initialised, is further away than any run

Nobody == "nobody"

\* Who runs handlers: the acceptor's, the manager's, the storage's strand, and
\* the strand of each connection.
Services == {"acceptor", "manager", "storage"}
Actors == Services \cup Conns

ASSUME LifetimeAssumption ==
  /\ IsFiniteSet(Conns) /\ IsFiniteSet(Cells) /\ Far \cup Leavers \cup Synced \subseteq Conns
  /\ Nobody \notin Conns \cup Cells /\ Services \cap Conns = {}
  /\ Inputs \subseteq {"data", "ping", "bad"}
  /\ MaxLines \in Nat

VARIABLES
  stack, m_size, m_in_use, used, pc, obj,  \* the pool of sessions
  m_counter,   \* the references counted in each cell
  tenant,      \* the connection whose session is in a cell, if any
  cell,        \* where each connection's session is, or was
  m_list,      \* session_manager::m_list: the cells linked in it
  mgr_strand,  \* the handlers queued on the manager's strand
  updates,     \* the updates queued on the storage's strand, by their author
  strand,      \* the handlers queued on each connection's strand
  joining,     \* the connection on_new_connection() is at work on, if any
  reading,     \* those with an async_read_until() outstanding
  writing,     \* the handlers of the async_write()s outstanding, by connection
  armed,       \* those with an async_wait() outstanding on the timer
  far,         \* those whose timer is set further away than any run
  on_stop,     \* those whose session has m_on_stop set
  gone,        \* those the client has left
  ended,       \* what ended the server, if anything
  lines        \* history: lines read so far

poolVars == <<stack, m_size, m_in_use, used, pc, obj>>
cellVars == <<tenant, cell>>
socketVars == <<reading, writing, armed, far, on_stop>>
clientVars == <<gone, lines>>
vars == <<poolVars, cellVars, socketVars, clientVars, m_counter, m_list,
          mgr_strand, updates, strand, joining, ended>>

Pool == INSTANCE ObjectPool WITH Threads <- Actors, Objects <- Cells

\* A message: its kind, and the session whose session_ptrs it carries.
Message == [kind : {"sync", "ping", "feed"}, holder : Conns]
Handler ==
  [op : {"start"}] \cup [op : {"readed"}, line : {"data", "ping", "bad", "error"}]
    \cup [op : {"timeout"}, aborted : BOOLEAN] \cup [op : {"stop"}, at : Cells]
    \cup [op : {"send"}, at : Cells, msg : Message]
    \cup [op : {"wrote"}, msg : Message]
Job == [op : {"push", "erase"}, at : Cells] \cup [op : {"broadcast"}, holder : Conns]

\* The callback of a pair of the sync holds its session too.
Weight(msg) == IF msg.kind = "sync" THEN 2 ELSE 1

Init ==
  /\ Pool!Init /\ obj = [a \in Actors |-> CHOOSE m \in Cells : TRUE]
  /\ m_counter = [m \in Cells |-> 0]
  /\ tenant = [m \in Cells |-> Nobody]
  /\ cell = [c \in Conns |-> Nobody]
  /\ m_list = {} /\ mgr_strand = <<>> /\ updates = <<>>
  /\ strand = [c \in Conns |-> <<>>]
  /\ writing = [c \in Conns |-> <<>>]
  /\ joining = {} /\ reading = {} /\ armed = {} /\ on_stop = {} /\ gone = {}
  /\ far = Far
  /\ ended = "no"
  /\ lines = 0

-----------------------------------------------------------------------------
(* The strands and the reference count. *)

Started(c) == cell[c] # Nobody
Alive(c) == Started(c) /\ tenant[cell[c]] = c

StopAt(m) == [op |-> "stop", at |-> m]
SendAt(m, msg) == [op |-> "send", at |-> m, msg |-> msg]
Timeout(aborted) == [op |-> "timeout", aborted |-> aborted]
Wrote(msg) == [op |-> "wrote", msg |-> msg]
Broadcast(c) == [op |-> "broadcast", holder |-> c]

Ready(c, op) == pc[c] = "idle" /\ strand[c] # <<>> /\ Head(strand[c]).op = op
ManagerReady(op) ==
  pc["manager"] = "idle" /\ mgr_strand # <<>> /\ Head(mgr_strand).op = op

\* What c's strand holds when its handler is off it and has posted more.
After(c, posted) == [strand EXCEPT ![c] = Tail(@) \o posted]

\* n session_ptrs more to c's session than there were.
Count(c, n) == m_counter' = [m_counter EXCEPT ![cell[c]] = @ + n]

\* A slip: the deleter posts the stop only.
EndsStopping(a, c, n, strands, jobs) ==
  /\ Count(c, n)
  /\ IF m_counter[cell[c]] + n = 0
       THEN /\ Pool!Discard(a, cell[c])
            /\ strand' = [strands EXCEPT ![c] = Append(@, StopAt(cell[c]))]
            /\ mgr_strand' = jobs
       ELSE strand' = strands /\ mgr_strand' = jobs /\ UNCHANGED poolVars

\* A handler of actor a ends.  It leaves these handlers queued, and counts n.  If
\* it let the last session_ptr go it runs the deleter: first session_deleter(),
\* which posts two handlers more.
Ends(a, c, n, strands, jobs) ==
  /\ Count(c, n)
  /\ IF m_counter[cell[c]] + n = 0
       THEN /\ Pool!Discard(a, cell[c])
            /\ strand' = [strands EXCEPT ![c] = Append(@, StopAt(cell[c]))]
            /\ mgr_strand' = Append(jobs, [op |-> "erase", at |-> cell[c]])
       ELSE strand' = strands /\ mgr_strand' = jobs /\ UNCHANGED poolVars

\* The rest of the deleter.
Recycle(a) ==
  /\ Pool!Push(a) \/ Pool!Uncount(a)
  /\ UNCHANGED <<cellVars, socketVars, clientVars, m_counter, m_list,
                 mgr_strand, updates, strand, joining, ended>>

-----------------------------------------------------------------------------
(* on_new_connection(), on the acceptor's strand. *)

OnAcceptor == UNCHANGED <<socketVars, clientVars, m_list, updates>>

\* remote_endpoint() throws if the connection is gone; else smgr.create() looks
\* at the pool ...
Accept(c) ==
  /\ joining = {} /\ ~Started(c) /\ pc["acceptor"] = "idle"
  /\ \/ c \in gone /\ ended' = "exception" /\ UNCHANGED <<poolVars, joining>>
     \/ c \notin gone /\ Pool!Look("acceptor") /\ joining' = {c} /\ UNCHANGED ended
  /\ UNCHANGED <<cellVars, m_counter, mgr_strand, strand>> /\ OnAcceptor

\* ... and gets memory from it, ...
GetCell ==
  /\ Pool!Pop("acceptor") \/ \E m \in Cells : Pool!Allocate("acceptor", m)
  /\ UNCHANGED <<cellVars, m_counter, mgr_strand, strand, joining, ended>>
  /\ OnAcceptor

\* ... where it constructs the session; it is put on the list and started.
Construct(c) ==
  LET m == obj["acceptor"]
  IN  /\ c \in joining
      /\ Pool!HandOut("acceptor")
      /\ ended' = IF tenant[m] = Nobody THEN ended ELSE "overwritten"
      /\ tenant' = [tenant EXCEPT ![m] = c]
      /\ cell' = [cell EXCEPT ![c] = m]
      /\ m_counter' = [m_counter EXCEPT ![m] = 2]
      /\ mgr_strand' = Append(mgr_strand, [op |-> "push", at |-> m])
      /\ strand' = [strand EXCEPT ![c] = Append(@, [op |-> "start"])]
      /\ UNCHANGED joining /\ OnAcceptor

\* start_sync() sends the first pair, if there is one.
Joined(c) ==
  /\ c \in joining /\ Started(c) /\ pc["acceptor"] = "idle"
  /\ IF c \in Synced
       THEN LET msg == [kind |-> "sync", holder |-> c]
            IN  Ends("acceptor", c, 1,
                     [strand EXCEPT ![c] = Append(@, SendAt(cell[c], msg))], mgr_strand)
       ELSE Ends("acceptor", c, -1, strand, mgr_strand)
  /\ joining' = {}
  /\ UNCHANGED <<cellVars, ended>> /\ OnAcceptor

-----------------------------------------------------------------------------
(* The network, the timer and the clients. *)

OnEvent == UNCHANGED <<poolVars, cellVars, m_counter, m_list, mgr_strand,
                       updates, joining, ended>>
Post(c, h) == strand' = [strand EXCEPT ![c] = Append(@, h)]

\* Closed by stop_impl(), or by the destructor.
Closed(c) == c \in on_stop \/ (Started(c) /\ ~Alive(c))

ReadCompletes(c, line) ==
  /\ c \in reading /\ lines < MaxLines
  /\ lines' = lines + 1
  /\ reading' = reading \ {c}
  /\ Post(c, [op |-> "readed", line |-> line])
  /\ UNCHANGED <<writing, armed, far, on_stop, gone>> /\ OnEvent

ReadFails(c) ==
  /\ c \in reading /\ (Closed(c) \/ c \in gone)
  /\ reading' = reading \ {c}
  /\ Post(c, [op |-> "readed", line |-> "error"])
  /\ UNCHANGED <<writing, armed, far, on_stop, clientVars>> /\ OnEvent

\* A write ends, by success as long as the client is there.
WriteEnds(c) ==
  /\ writing[c] # <<>>
  /\ writing' = [writing EXCEPT ![c] = Tail(@)]
  /\ Post(c, Head(writing[c]))
  /\ UNCHANGED <<reading, armed, far, on_stop, clientVars>> /\ OnEvent

TimerExpires(c) ==
  /\ c \in armed \ far
  /\ armed' = armed \ {c}
  /\ Post(c, Timeout(FALSE))
  /\ UNCHANGED <<reading, writing, far, on_stop, clientVars>> /\ OnEvent

Leave(c) ==
  /\ c \in Leavers \ gone
  /\ gone' = gone \cup {c}
  /\ UNCHANGED <<strand, socketVars, lines>> /\ OnEvent

-----------------------------------------------------------------------------
(* session: the handlers of a connection's strand. *)

OnStrand == UNCHANGED <<cellVars, clientVars, m_list, joining, ended>>

\* start_impl(): the timer gets a session_ptr of its own, the read the handler's.
StartImpl(c) ==
  /\ Ready(c, "start")
  /\ Ends(c, c, 1, After(c, <<>>), mgr_strand)
  /\ armed' = armed \cup {c}
  /\ reading' = reading \cup {c}
  /\ UNCHANGED <<writing, far, on_stop, updates>> /\ OnStrand

Line(c) == Head(strand[c]).line

\* on_readed() with an error and no stop: nothing is cancelled.
ReadedError(c) ==
  /\ Ready(c, "readed") /\ Line(c) = "error" /\ c \notin on_stop
  /\ Ends(c, c, -1, After(c, <<>>), mgr_strand)
  /\ UNCHANGED <<socketVars, updates>> /\ OnStrand

\* Otherwise expires_after() cancels the wait, if it has not expired: its handler
\* will find itself aborted.  If it has, the line is dropped as too late.
Readed(c) == Ready(c, "readed") /\ (Line(c) # "error" \/ c \in on_stop)
InTime(c) == Readed(c) /\ c \in armed /\ far' = far \ {c}

ReadedLate(c) ==
  /\ Readed(c) /\ c \notin armed
  /\ far' = far \ {c}
  /\ Ends(c, c, -1, After(c, <<>>), mgr_strand)
  /\ UNCHANGED <<reading, writing, armed, on_stop, updates>> /\ OnStrand

\* A slip: the session moves into the update, and the next read has none left.
ReadedDataMoved(c) ==
  /\ InTime(c) /\ Line(c) = "data"
  /\ updates' = Append(updates, c)
  /\ Ends(c, c, 1, After(c, <<Timeout(TRUE)>>), mgr_strand)
  /\ reading' = reading \cup {c}
  /\ UNCHANGED <<writing, armed, on_stop>> /\ OnStrand

\* A wait begun anew, a line handed on with the session, and the next read.
ReadedData(c) ==
  /\ InTime(c) /\ Line(c) = "data"
  /\ updates' = Append(updates, c)
  /\ Ends(c, c, 2, After(c, <<Timeout(TRUE)>>), mgr_strand)
  /\ reading' = reading \cup {c}
  /\ UNCHANGED <<writing, armed, on_stop>> /\ OnStrand

\* A slip: expires_after() is not followed by a new wait.
ReadedPingUnarmed(c) ==
  LET msg == [kind |-> "ping", holder |-> c]
  IN  /\ InTime(c) /\ Line(c) = "ping"
      /\ Ends(c, c, 1, After(c, <<Timeout(TRUE), SendAt(cell[c], msg)>>), mgr_strand)
      /\ reading' = reading \cup {c}
      /\ armed' = armed \ {c}
      /\ UNCHANGED <<writing, on_stop, updates>> /\ OnStrand

ReadedPing(c) ==
  LET msg == [kind |-> "ping", holder |-> c]
  IN  /\ InTime(c) /\ Line(c) = "ping"
      /\ Ends(c, c, 2, After(c, <<Timeout(TRUE), SendAt(cell[c], msg)>>), mgr_strand)
      /\ reading' = reading \cup {c}
      /\ UNCHANGED <<writing, armed, on_stop, updates>> /\ OnStrand

\* A bad line ends the reading, and the wait just begun is cancelled again.
ReadedBad(c) ==
  /\ InTime(c) /\ Line(c) \in {"bad", "error"}
  /\ Ends(c, c, 0, After(c, <<Timeout(TRUE), Timeout(TRUE)>>), mgr_strand)
  /\ armed' = armed \ {c}
  /\ UNCHANGED <<reading, writing, on_stop, updates>> /\ OnStrand

\* A slip: every expiry is taken for an aborted wait.
OnTimeoutIgnored(c) ==
  /\ Ready(c, "timeout")
  /\ Ends(c, c, -1, After(c, <<>>), mgr_strand)
  /\ UNCHANGED <<socketVars, updates>> /\ OnStrand

OnTimeout(c) ==
  /\ Ready(c, "timeout")
  /\ Ends(c, c, -1,
          After(c, IF Head(strand[c]).aborted THEN <<>> ELSE <<StopAt(cell[c])>>),
          mgr_strand)
  /\ UNCHANGED <<socketVars, updates>> /\ OnStrand

\* A handler that has nothing but the address of its session runs when there is
\* none any more: a stop, a send, or the completion of a send, which holds the
\* author of its message.
RunDangling(c) ==
  LET h == Head(strand[c])
  IN  /\ pc[c] = "idle" /\ strand[c] # <<>>
      /\ \/ h.op \in {"stop", "send"} /\ tenant[h.at] = Nobody
         \/ h.op = "wrote" /\ tenant[cell[c]] = Nobody
      /\ ended' = "dangling"
      /\ UNCHANGED <<poolVars, cellVars, socketVars, clientVars, m_counter, m_list,
                     mgr_strand, updates, strand, joining>>

\* stop_impl() on the session that is in the cell now, once.
StopImpl(c) ==
  LET s == tenant[Head(strand[c]).at]
  IN  /\ Ready(c, "stop") /\ s # Nobody
      /\ IF s \in on_stop
           THEN strand' = After(c, <<>>) /\ UNCHANGED socketVars
           ELSE /\ on_stop' = on_stop \cup {s}
                /\ armed' = armed \ {s}
                /\ strand' = IF s \in armed
                      THEN [After(c, <<>>) EXCEPT ![s] = Append(@, Timeout(TRUE))]
                      ELSE After(c, <<>>)
                /\ UNCHANGED <<reading, writing, far>>
      /\ UNCHANGED <<poolVars, m_counter, mgr_strand, updates>> /\ OnStrand

\* send_impl() likewise.
SendImpl(c) ==
  LET s == tenant[Head(strand[c]).at]
      msg == Head(strand[c]).msg
  IN  /\ Ready(c, "send") /\ s # Nobody
      /\ Ends(c, msg.holder, 0, After(c, <<>>), mgr_strand)
      /\ writing' = [writing EXCEPT ![s] = Append(@, Wrote(msg))]
      /\ UNCHANGED <<reading, armed, far, on_stop, updates>> /\ OnStrand

\* A slip: the callback and the completion both let the same session_ptr go.
OnWroteTwice(c) ==
  LET msg == Head(strand[c]).msg
  IN  /\ Ready(c, "wrote")
      /\ Ends(c, msg.holder, -2 * Weight(msg), After(c, <<>>), mgr_strand)
      /\ UNCHANGED <<socketVars, updates>> /\ OnStrand

\* The completion of a write; a sync finds no second pair.
OnWrote(c) ==
  LET msg == Head(strand[c]).msg
  IN  /\ Ready(c, "wrote") /\ tenant[cell[c]] # Nobody
      /\ Ends(c, msg.holder, -Weight(msg), After(c, <<>>), mgr_strand)
      /\ UNCHANGED <<socketVars, updates>> /\ OnStrand

Strand(c) ==
  \/ StartImpl(c) \/ ReadedError(c) \/ ReadedLate(c) \/ ReadedData(c)
  \/ ReadedPing(c) \/ ReadedBad(c) \/ OnTimeout(c) \/ StopImpl(c)
  \/ SendImpl(c) \/ OnWrote(c)

-----------------------------------------------------------------------------
(* session_manager's strand, and the storage's. *)

OnManager == UNCHANGED <<cell, socketVars, clientVars, updates, joining, ended>>
Jobs == Tail(mgr_strand)
At == Head(mgr_strand).at

PushBack ==
  /\ ManagerReady("push")
  /\ m_list' = m_list \cup {At}
  /\ mgr_strand' = Jobs
  /\ UNCHANGED <<poolVars, m_counter, tenant, strand>> /\ OnManager

\* A slip: the session is destroyed without being taken off the list.
EraseNothing ==
  /\ ManagerReady("erase")
  /\ tenant' = [tenant EXCEPT ![At] = Nobody]
  /\ mgr_strand' = Jobs
  /\ UNCHANGED <<poolVars, m_counter, m_list, strand>> /\ OnManager

Erase ==
  /\ ManagerReady("erase")
  /\ m_list' = m_list \ {At}
  /\ tenant' = [tenant EXCEPT ![At] = Nobody]
  /\ mgr_strand' = Jobs
  /\ UNCHANGED <<poolVars, m_counter, strand>> /\ OnManager

\* What the strands hold when each session in these cells was posted a handler.
Posted(cells, Handle(_)) ==
  [c \in Conns |-> IF Alive(c) /\ cell[c] \in cells
                     THEN Append(strand[c], Handle(cell[c])) ELSE strand[c]]

BroadcastImpl ==
  LET h == Head(mgr_strand).holder
      others == m_list \ {cell[h]}
      FeedTo(m) == SendAt(m, [kind |-> "feed", holder |-> h])
  IN  /\ ManagerReady("broadcast")
      /\ Ends("manager", h, Cardinality(others) - 1, Posted(others, FeedTo), Jobs)
      /\ UNCHANGED <<tenant, m_list>> /\ OnManager

Manager == PushBack \/ Erase \/ BroadcastImpl

\* An update that changes the map is broadcast with the author's session_ptr;
\* any other lets it go.
Update ==
  LET c == Head(updates)
  IN  /\ pc["storage"] = "idle" /\ updates # <<>>
      /\ \/ Ends("storage", c, 0, strand, Append(mgr_strand, Broadcast(c)))
         \/ Ends("storage", c, -1, strand, mgr_strand)
      /\ updates' = Tail(updates)
      /\ UNCHANGED <<cellVars, socketVars, clientVars, m_list, joining, ended>>

-----------------------------------------------------------------------------

Socket(c) ==
  \/ \E line \in Inputs : ReadCompletes(c, line)
  \/ ReadFails(c) \/ WriteEnds(c) \/ TimerExpires(c) \/ Leave(c)

\* No one but the acceptor pops cells, and an uncounting concerns nobody else:
\* these steps commute with those of the others, and are not interleaved here
\* (ObjectPool interleaves them all).
Private ==
  \/ GetCell \/ \E c \in Conns : Construct(c)
  \/ \E a \in Actors : pc[a] = "uncounting" /\ Recycle(a)

Public ==
  \/ \E c \in Conns : Accept(c) \/ Joined(c) \/ Socket(c) \/ Strand(c) \/ RunDangling(c)
  \/ Manager \/ Update
  \/ \E a \in Actors : Recycle(a)

InPool == \E a \in Actors : pc[a] \notin {"idle", "returning"}

Next == ended = "no" /\ IF InPool THEN Private ELSE Public

Spec == Init /\ [][Next]_vars

\* The server goes on as long as it has something to do: handlers to run, reads
\* and writes to end, timers to expire.  The clients take what they are sent, and
\* nothing obliges them to do more.  The bounds leave no infinite run but those that stop,
\* so fairness of the whole is fairness of each strand.
Progress ==
  /\ ended = "no"
  /\ IF InPool THEN Private
     ELSE \/ Manager \/ Update \/ \E a \in Actors : Recycle(a)
          \/ \E c \in Conns :
               \/ Joined(c) \/ Strand(c) \/ RunDangling(c)
               \/ ReadFails(c) \/ TimerExpires(c) \/ WriteEnds(c)

FairSpec == Spec /\ WF_vars(Progress)

-----------------------------------------------------------------------------
(* Properties *)

TypeOK ==
  /\ Pool!TypeOK
  /\ m_counter \in [Cells -> Nat]
  /\ tenant \in [Cells -> Conns \cup {Nobody}]
  /\ cell \in [Conns -> Cells \cup {Nobody}]
  /\ m_list \subseteq Cells
  /\ mgr_strand \in Seq(Job) /\ updates \in Seq(Conns)
  /\ strand \in [Conns -> Seq(Handler)]
  /\ writing \in [Conns -> Seq([op : {"wrote"}, msg : Message])]
  /\ \A set \in {joining, reading, armed, far, on_stop, gone} : set \subseteq Conns
  /\ ended \in {"no", "exception", "dangling", "overwritten"}
  /\ lines \in 0..MaxLines

\* The session_ptrs to c's session: on_new_connection()'s own, those of its
\* operations and handlers, and those in updates, broadcasts and messages.
PtrsIn(t, h, c) ==
  CASE h.op \in {"send", "wrote"} -> IF h.msg.holder = c THEN Weight(h.msg) ELSE 0
    [] h.op \in {"start", "readed", "timeout"} -> IF t = c THEN 1 ELSE 0
    [] OTHER -> 0

\* Where the handlers in these queues carry n of them or more: at each place one
\* for every such n, and there are two at most.
Places(queues) == UNION {{t} \X DOMAIN queues[t] : t \in Conns}
Carrying(queues, c, n) ==
  {p \in Places(queues) : PtrsIn(p[1], queues[p[1]][p[2]], c) >= n}
Carried(queues, c) ==
  Cardinality(Carrying(queues, c, 1)) + Cardinality(Carrying(queues, c, 2))

Times(queue, x) == Cardinality({i \in DOMAIN queue : queue[i] = x})
OneIf(holds) == IF holds THEN 1 ELSE 0

Ptrs(c) ==
  Carried(strand, c) + Carried(writing, c)
    + Times(mgr_strand, Broadcast(c)) + Times(updates, c)
    + OneIf(Started(c) /\ c \in joining) + OneIf(c \in reading) + OneIf(c \in armed)

\* The counter of a session is the number of session_ptrs there are to it, as
\* handlers on four kinds of strands copy, move and drop them; and while there is
\* one, the session is in its memory, not destroyed and not replaced.
RefCount ==
  \A c \in Conns : Started(c) /\ ended = "no" =>
    IF Alive(c) THEN m_counter[cell[c]] = Ptrs(c) ELSE Ptrs(c) = 0

\* The list links sessions, never memory that was given back and destroyed.
ListedAlive == ended = "no" => \A m \in m_list : tenant[m] # Nobody

\* A session is destroyed once: one erase is queued for it from when its last
\* session_ptr goes until it is destroyed, and at no other time, so that none is
\* left behind in the list and no erase meets a cell that is empty or in use.
DestroyedOnce ==
  ended = "no" =>
    \A m \in Cells : Times(mgr_strand, [op |-> "erase", at |-> m]) =
                      OneIf(tenant[m] # Nobody /\ m \notin used)

\* A session that is up and reads is watched: its timer is armed, or has expired
\* with the handler still to run, or the session is about to be stopped.
Queued(c, h) == \E i \in DOMAIN strand[c] : strand[c][i] = h
Watched ==
  \A c \in reading :
    \/ Closed(c) \/ c \in armed \/ Queued(c, Timeout(FALSE))
    \/ Queued(c, StopAt(cell[c]))

\* A client that leaves or says nothing more is dropped as dead (main.cpp:311)
\* and its session destroyed, whatever else still holds it, unless its first
\* expiry is the far one.
DeadDestroyed ==
  \A c \in Conns :
    Alive(c) ~> ~Alive(c) \/ ended # "no" \/ c \in far

-----------------------------------------------------------------------------
(* What the repository says, and the code does not keep. *)

\* No simultaneous access to a resource from several threads (README.md:24): no
\* handler runs on a session that another strand has destroyed, and no session is
\* constructed in memory of which something is left.
MemoryIntact == ended \notin {"dangling", "overwritten"}

\* A dead client is disconnected (main.cpp:311), however long its connection has
\* been silent from the start.
DeadDropped == \A c \in Conns : Alive(c) ~> ~Alive(c) \/ ended # "no"
=============================================================================
