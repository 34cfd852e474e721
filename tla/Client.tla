------------------------------- MODULE Client -------------------------------
(***************************************************************************)
(* client/main.cpp: one thread runs the io_context, and every handler of   *)
(* the socket, the two timers and the terminal runs on it, one at a time.  *)
(*                                                                         *)
(* Lines for the server, typed or PINGs, pass through m_queue: m_on_write   *)
(* says that an async_write() is outstanding, and on_sent() begins the     *)
(* next.  stop() closes the socket and clears m_on_write, whatever is       *)
(* outstanding.  It throws when the socket is not connected, and the       *)
(* exception ends run() and the program.  Lines are numbered in the order  *)
(* they are given to send().                                               *)
(***************************************************************************)
EXTENDS Naturals, Sequences, SequencesExt

CONSTANTS
  MaxLines,   \* bound: lines typed
  MaxPings,   \* bound: expiries of the ping timer
  MaxReads    \* bound: lines the server sends

ASSUME ClientAssumption == MaxLines \in Nat /\ MaxPings \in Nat /\ MaxReads \in Nat

VARIABLES
  sock,       \* m_socket: see Sockets
  queue,      \* m_queue
  on_write,   \* m_on_write
  writes,     \* the async_writes begun and not completed, the oldest first
  reading,    \* the outstanding async_read_until ("waiting"), or how it finished
  ping,       \* the waits on m_ping_timer, by what became of them
  timeout,    \* the waits on m_timeout_timer
  stdin,      \* the terminal: being read, or at its end
  over,       \* has an exception ended the program?
  sent,       \* history: lines given to send()
  wire,       \* history: the lines written to the connection
  done,       \* history: calls of on_sent()
  typed, pings, reads   \* history: what the bounds count

output == <<queue, on_write, writes, sent>>
history == <<wire, done, typed, pings, reads>>
vars == <<sock, output, reading, ping, timeout, stdin, over, history>>

\* "linked": the connection is made, on_connected() has not run; "dropped": it
\* was closed before on_connected() ran; "lost": the server is gone;
\* "unconnected": there never was a connection.
Sockets == {"connecting", "linked", "dropped", "open", "lost", "unconnected", "closed"}
Connections == {"linked", "open"}
Commands == {"PING", "DATA", "STOP", "bad"}
Waits == {"armed", "expired", "aborted"}
NoWaits == [w \in Waits |-> 0]

\* The constructor, client::start() and term_reader::start().
Init ==
  /\ sock = "connecting"
  /\ queue = <<>> /\ on_write = FALSE /\ writes = <<>>
  /\ reading = "none"
  /\ ping = NoWaits /\ timeout = NoWaits
  /\ stdin = "reading" /\ over = FALSE
  /\ sent = 0 /\ wire = <<>> /\ done = 0
  /\ typed = 0 /\ pings = 0 /\ reads = 0

-----------------------------------------------------------------------------
(* The write queue. *)

Write(line, st) == [line |-> line, st |-> st]

\* async_write() on a socket that cannot write fails at once; one begun while
\* the connect is outstanding waits for it.
Begin(line) ==
  Write(line, IF sock \in Connections \cup {"connecting"} THEN "pending" ELSE "failed")

Push == Append(queue, sent + 1)

\* A slip: push_to_queue() does not look at m_on_write.
SendUnguarded ==
  /\ sent' = sent + 1
  /\ on_write' = TRUE
  /\ queue' = queue
  /\ writes' = Append(writes, Begin(sent + 1))

\* client::send(): the dispatch runs push_to_queue() at once, on this thread.
Send ==
  /\ sent' = sent + 1
  /\ on_write' = TRUE
  /\ IF on_write
       THEN queue' = Push /\ UNCHANGED writes
       ELSE queue' = Tail(Push) /\ writes' = Append(writes, Begin(Head(Push)))

\* The kernel's side of a write: the line is on the connection, or cannot be.
Written(i) ==
  /\ sock \in Connections /\ writes[i].st = "pending"
  /\ writes' = [writes EXCEPT ![i].st = "written"]
  /\ wire' = Append(wire, writes[i].line)
  /\ UNCHANGED <<sock, queue, on_write, sent, reading, ping, timeout, stdin,
                 over, done, typed, pings, reads>>
NotWritten(i) ==
  /\ sock \in {"lost", "unconnected"} /\ writes[i].st = "pending"
  /\ writes' = [writes EXCEPT ![i].st = "failed"]
  /\ UNCHANGED <<sock, queue, on_write, sent, reading, ping, timeout, stdin,
                 over, history>>

\* A slip: on_sent() returns on an error.
OnSentGivesUp(i) ==
  /\ writes[i].st # "pending"
  /\ done' = done + 1
  /\ IF queue # <<>> /\ writes[i].st = "written"
       THEN /\ writes' = Append(RemoveAt(writes, i), Begin(Head(queue)))
            /\ queue' = Tail(queue) /\ UNCHANGED on_write
       ELSE /\ writes' = RemoveAt(writes, i)
            /\ on_write' = (queue # <<>>) /\ UNCHANGED queue
  /\ UNCHANGED <<sock, sent, reading, ping, timeout, stdin, over,
                 wire, typed, pings, reads>>

\* A slip: on_sent() does not look whether the queue is empty.
OnSentUnchecked(i) ==
  /\ writes[i].st # "pending"
  /\ done' = done + 1
  /\ writes' = Append(RemoveAt(writes, i), Begin(IF queue = <<>> THEN 0 ELSE Head(queue)))
  /\ queue' = IF queue = <<>> THEN queue ELSE Tail(queue)
  /\ UNCHANGED <<sock, on_write, sent, reading, ping, timeout, stdin, over,
                 wire, typed, pings, reads>>

\* on_sent() looks at the error only to print it.
OnSent(i) ==
  /\ writes[i].st # "pending"
  /\ done' = done + 1
  /\ IF queue # <<>>
       THEN /\ writes' = Append(RemoveAt(writes, i), Begin(Head(queue)))
            /\ queue' = Tail(queue) /\ UNCHANGED on_write
       ELSE /\ writes' = RemoveAt(writes, i)
            /\ on_write' = FALSE /\ UNCHANGED queue
  /\ UNCHANGED <<sock, sent, reading, ping, timeout, stdin, over,
                 wire, typed, pings, reads>>

-----------------------------------------------------------------------------
(* The socket. *)

\* expires_after() cancels the waits that have not expired, and arms one more.
Cancelled(waits) ==
  [waits EXCEPT !["armed"] = 0, !["aborted"] = @ + waits["armed"]]
Rearmed(waits) == [Cancelled(waits) EXCEPT !["armed"] = 1]

\* shutdown() throws when there is no connection, and may when the connect is
\* outstanding or the server is gone; otherwise what is outstanding is aborted.
Stop(read) ==
  \/ /\ sock \notin Connections /\ over' = TRUE
     /\ UNCHANGED <<sock, on_write, writes, reading>>
  \/ /\ \/ sock \in {"open", "lost"} /\ sock' = "closed"
        \/ sock = "linked" /\ sock' = "dropped"
        \/ sock = "connecting" /\ sock' = "unconnected"
     /\ on_write' = FALSE
     /\ writes' = [i \in DOMAIN writes |->
          IF writes[i].st = "pending" THEN Write(writes[i].line, "failed")
                                      ELSE writes[i]]
     /\ reading' = read
     /\ UNCHANGED over

\* The kernel connects, or cannot; on_connected() then does nothing.
Link ==
  /\ sock = "connecting" /\ sock' \in {"linked", "unconnected"}
  /\ UNCHANGED <<output, reading, ping, timeout, stdin, over, history>>

\* on_connected() without an error; start_read() fails, its buffer empty, if
\* stop() came first.
Connected ==
  /\ \/ sock = "linked" /\ sock' = "open" /\ reading' = "waiting"
     \/ sock = "dropped" /\ sock' = "closed" /\ reading' = "error"
  /\ ping' = Rearmed(ping)
  /\ timeout' = Rearmed(timeout)
  /\ UNCHANGED <<output, stdin, over, history>>
Lost ==
  /\ sock = "open" /\ sock' = "lost"
  /\ UNCHANGED <<output, reading, ping, timeout, stdin, over, history>>

\* start_read() looks in its buffer first, and then waits for the socket.
StartRead == reading' = "waiting"

\* The outstanding read finishes: with a line that arrived, or that came in one
\* piece with the line before it and is found in the buffer, whatever has become
\* of the socket since; or because the server is gone or the socket is closed.
Read(cmd) ==
  /\ reading = "waiting"
  /\ \/ cmd \in Commands /\ reads < MaxReads /\ reads' = reads + 1
     \/ cmd = "error" /\ sock \in {"lost", "closed"} /\ UNCHANGED reads
  /\ reading' = cmd
  /\ UNCHANGED <<sock, output, ping, timeout, stdin, over, wire, done, typed, pings>>

\* on_readed(), by the command; an error or a wrong command ends the reading.
HandlePing ==
  /\ reading = "PING" /\ StartRead
  /\ timeout' = Rearmed(timeout)
  /\ UNCHANGED <<sock, output, ping, stdin, over, history>>
HandleData ==
  /\ reading = "DATA" /\ StartRead
  /\ UNCHANGED <<sock, output, ping, timeout, stdin, over, history>>
\* STOP closes the socket, and on_readed() begins a read on it all the same.
HandleStop ==
  /\ reading = "STOP" /\ Stop("waiting")
  /\ UNCHANGED <<queue, sent, ping, timeout, stdin, history>>

ReadEnds ==
  /\ reading \in {"bad", "error"} /\ reading' = "none"
  /\ UNCHANGED <<sock, output, ping, timeout, stdin, over, history>>

-----------------------------------------------------------------------------
(* The timers and the terminal. *)

PingExpires ==
  /\ ping["armed"] > 0 /\ pings < MaxPings /\ pings' = pings + 1
  /\ ping' = [ping EXCEPT !["armed"] = @ - 1, !["expired"] = @ + 1]
  /\ UNCHANGED <<sock, output, reading, timeout, stdin, over, wire, done, typed, reads>>
TimeoutExpires ==
  /\ timeout["armed"] > 0
  /\ timeout' = [timeout EXCEPT !["armed"] = @ - 1, !["expired"] = @ + 1]
  /\ UNCHANGED <<sock, output, reading, ping, stdin, over, history>>

\* A slip: send_ping() does not arm the timer when the write queue is busy.
SendPingOnce ==
  /\ ping["expired"] > 0
  /\ Send
  /\ ping' = IF on_write THEN [ping EXCEPT !["expired"] = @ - 1]
             ELSE Rearmed([ping EXCEPT !["expired"] = @ - 1])
  /\ UNCHANGED <<sock, reading, timeout, stdin, over, history>>

\* send_ping(): without an error it sends, whatever the socket is, and arms
\* the timer again.
SendPing ==
  /\ ping["expired"] > 0
  /\ Send
  /\ ping' = Rearmed([ping EXCEPT !["expired"] = @ - 1])
  /\ UNCHANGED <<sock, reading, timeout, stdin, over, history>>
PingAborted ==
  /\ ping["aborted"] > 0
  /\ ping' = [ping EXCEPT !["aborted"] = @ - 1]
  /\ UNCHANGED <<sock, output, reading, timeout, stdin, over, history>>
OnTimeout(w) ==
  /\ w # "armed" /\ timeout[w] > 0
  /\ timeout' = [timeout EXCEPT ![w] = @ - 1]
  /\ UNCHANGED <<sock, output, reading, ping, stdin, over, history>>

TypeLine ==
  /\ stdin = "reading" /\ typed < MaxLines /\ typed' = typed + 1
  /\ Send
  /\ UNCHANGED <<sock, reading, ping, timeout, stdin, over, wire, done, pings, reads>>
TypeQuit ==
  /\ stdin = "reading" /\ typed < MaxLines /\ typed' = typed + 1
  /\ Stop(reading)
  /\ UNCHANGED <<queue, sent, ping, timeout, stdin, wire, done, pings, reads>>

\* The end of the terminal's input: stop_ping().
EndOfInput ==
  /\ stdin = "reading" /\ stdin' = "ended"
  /\ ping' = Cancelled(ping)
  /\ timeout' = Cancelled(timeout)
  /\ UNCHANGED <<sock, output, reading, over, history>>

-----------------------------------------------------------------------------
Writing == \E i \in DOMAIN writes : Written(i) \/ NotWritten(i)
Sending == \E i \in DOMAIN writes : OnSent(i)
Connecting == Link \/ Connected
Terminal == TypeLine \/ TypeQuit \/ EndOfInput
Timers == PingExpires \/ TimeoutExpires \/ SendPing \/ PingAborted
            \/ \E w \in Waits : OnTimeout(w)
Reader == \/ \E cmd \in Commands \cup {"error"} : Read(cmd)
          \/ HandlePing \/ HandleData \/ HandleStop \/ ReadEnds

Next ==
  /\ ~over
  /\ Connecting \/ Lost \/ Writing \/ Sending \/ Terminal \/ Timers \/ Reader

Spec == Init /\ [][Next]_vars

\* The connect finishes, the server reads what is written to it or is gone, and
\* the thread runs the completions.
FairSpec ==
  /\ Spec
  /\ WF_vars(~over /\ Connecting)
  /\ WF_vars(~over /\ Writing)
  /\ WF_vars(~over /\ Sending)

-----------------------------------------------------------------------------
(* Properties *)

\* The queue holds lines that were given to send().
TypeOK ==
  /\ sock \in Sockets /\ on_write \in BOOLEAN /\ over \in BOOLEAN
  /\ queue \in Seq(1..sent)
  /\ writes \in Seq([line : 1..sent, st : {"pending", "written", "failed"}])
  /\ reading \in Commands \cup {"none", "waiting", "error"}
  /\ ping \in [Waits -> Nat] /\ timeout \in [Waits -> Nat]
  /\ stdin \in {"reading", "ended"}
  /\ sent \in Nat /\ wire \in Seq(1..sent) /\ done \in Nat
  /\ typed \in Nat /\ pings \in Nat /\ reads \in Nat

\* The server is sent the lines in the order they were given to send(), each
\* once, and none after one that failed: what is on the connection is always a
\* prefix of them, with pings and typed lines mixed as they came.
InOrder == \A i \in DOMAIN wire : wire[i] = i

\* No two async_writes share the connection, where asio would let their bytes
\* alternate: of the two that stop() can leave outstanding both have finished.
OneWrite ==
  \A i, j \in DOMAIN writes :
    writes[i].st = "pending" /\ writes[j].st = "pending" => i = j

\* m_on_write never says a write is outstanding when none is, and what waits in
\* m_queue has a completion coming that takes it, stop() with a write
\* outstanding included.
NothingStuck ==
  /\ on_write \/ queue # <<>> => writes # <<>>
  /\ sent = done + Len(writes) + Len(queue)

\* There is one chain of pings: from the connect on exactly one wait or its
\* handler, until the end of the input cancels it, and no second one is begun.
Pending(waits) == waits["armed"] + waits["expired"]
OnePing ==
  /\ Pending(ping) + ping["aborted"] <= 1
  /\ sock \in {"open", "lost", "closed"} /\ stdin = "reading" => Pending(ping) = 1

\* Every line given to send() is written or fails in the end, stop() or not,
\* unless the program ends first.
LinesLeave ==
  \A n \in 1..(MaxLines + MaxPings) : sent >= n ~> over \/ done >= n
=============================================================================
