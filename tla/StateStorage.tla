---------------------------- MODULE StateStorage ----------------------------
(***************************************************************************)
(* common/state_storage.hpp: the ordered key-value map of the server.      *)
(*                                                                         *)
(* Every operation is a handler posted on the strand m_strand, which runs  *)
(* them one at a time in the order they were posted.  update() only posts; *)
(* size(), get_first(), get_next() and reset() hand back a future on which *)
(* the caller blocks.  A session that joins asks for the size, then for    *)
(* the first pair, then for one next pair at a time, holding an iterator   *)
(* between two requests (server/main.cpp, start_sync and sync_next).       *)
(*                                                                         *)
(* A received line lives in a pooled shared_buffer; here a buffer that was *)
(* stored is named by its position in log, the history of the updates that *)
(* changed the map.  A string_view is the number of the buffer it points   *)
(* into, a key its rank in the order of the boost::intrusive::set.         *)
(***************************************************************************)
EXTENDS Naturals, Sequences, FiniteSets

CONSTANTS
  Sessions,    \* the sessions, who write and who scan the map
  Keys,        \* ranks of the keys
  Values,      \* what the values compare equal on
  MaxUpdates,  \* bound: updates that change the map
  MaxResets    \* bound: calls of reset()

ASSUME StorageAssumption ==
  /\ Keys \subseteq Nat \ {0}
  /\ MaxUpdates \in Nat
  /\ MaxResets \in Nat

VARIABLES
  m_map,     \* key -> map_value: the buffers its two views and key_val name
  m_gen,     \* how many times reset() has deleted all the nodes
  m_strand,  \* the handlers posted on the strand, the oldest first
  fut,       \* what the future of each session's latest request holds
  resetting, \* is the future of reset() still pending?
  cursor,    \* the iterator each session holds; key 0 before the first pair
  log,       \* history: the updates that changed the map
  from,      \* history: Len(log) when the session's get_first() ran
  got        \* the buffers its scan has been given, the last one in the future

vars == <<m_map, m_gen, m_strand, fut, resetting, cursor, log, from, got>>

Line == [by : Sessions, key : Keys, val : Values]
MapValue == [key : Nat, val : Nat, key_val : Nat]
Iterator == [key : Keys \cup {0}, gen : Nat]
Request ==
  [op : {"update"}, by : Sessions, key : Keys, val : Values]
    \cup [op : {"size", "first"}, by : Sessions]
    \cup [op : {"next"}, by : Sessions, it : Iterator]
    \cup [op : {"reset"}]

\* The text a stored pair's val view reads.
ValueOf(k) == log[m_map[k].val].val
Contents == [k \in DOMAIN m_map |-> ValueOf(k)]

\* Slips in the walk: rbegin() for begin(), any other key for the next one.
IsFirstFromTheEnd(k) == k \in DOMAIN m_map /\ \A j \in DOMAIN m_map : j <= k
IsNextAnyOther(c, k) == k \in DOMAIN m_map /\ k # c

IsFirst(k) == k \in DOMAIN m_map /\ \A j \in DOMAIN m_map : k <= j
IsNext(c, k) ==
  /\ k \in DOMAIN m_map /\ c < k
  /\ \A j \in DOMAIN m_map : c < j => k <= j
IsLast(c) == \A j \in DOMAIN m_map : j <= c

Init ==
  /\ m_map = [k \in {} |-> [key |-> 0, val |-> 0, key_val |-> 0]]
  /\ m_gen = 0
  /\ m_strand = <<>>
  /\ fut = [s \in Sessions |-> "none"]
  /\ resetting = FALSE
  /\ cursor = [s \in Sessions |-> [key |-> 0, gen |-> 0]]
  /\ log = <<>>
  /\ from = [s \in Sessions |-> 0]
  /\ got = [s \in Sessions |-> <<>>]

-----------------------------------------------------------------------------
(* The callers: each posts one handler. *)

Post(r) ==
  /\ m_strand' = Append(m_strand, r)
  /\ UNCHANGED <<m_map, m_gen, cursor, log, from, got>>

PendingUpdates == Cardinality({i \in DOMAIN m_strand : m_strand[i].op = "update"})

\* update(): posted and forgotten.
PostUpdate(s, k, v) ==
  /\ Len(log) + PendingUpdates < MaxUpdates
  /\ Post([op |-> "update", by |-> s, key |-> k, val |-> v])
  /\ UNCHANGED <<fut, resetting>>

\* A slip: the caller does not wait for the answer to its last request.
AskWithoutWaiting(s, before, r) ==
  /\ fut[s] \in {before, "pending"}
  /\ fut' = [fut EXCEPT ![s] = "pending"]
  /\ Post(r)
  /\ UNCHANGED resetting

\* A request whose caller blocks on the future.
Ask(s, before, r) ==
  /\ fut[s] = before
  /\ fut' = [fut EXCEPT ![s] = "pending"]
  /\ Post(r)
  /\ UNCHANGED resetting

PostSize(s) == Ask(s, "none", [op |-> "size", by |-> s])
PostFirst(s) == Ask(s, "sized", [op |-> "first", by |-> s])
PostNext(s) == Ask(s, "found", [op |-> "next", by |-> s, it |-> cursor[s]])

PostReset ==
  /\ m_gen < MaxResets /\ ~resetting
  /\ resetting' = TRUE
  /\ Post([op |-> "reset"])
  /\ UNCHANGED fut

-----------------------------------------------------------------------------
(* The handlers: each runs on the strand. *)

Runs(op) ==
  /\ m_strand # <<>>
  /\ Head(m_strand).op = op
  /\ m_strand' = Tail(m_strand)

\* Slips in update_impl(): key or key_val is not moved to the new buffer, or val
\* views the buffer of another line.
StoreWith(r, new) ==
  /\ m_map' = [k \in DOMAIN m_map \cup {r.key} |->
                 IF k = r.key THEN new ELSE m_map[k]]
  /\ log' = Append(log, [by |-> r.by, key |-> r.key, val |-> r.val])
Old(r, n) == IF r.key \in DOMAIN m_map THEN m_map[r.key].key_val ELSE n
StoreKeepingKey(r) ==
  LET n == Len(log) + 1
  IN  StoreWith(r, [key |-> Old(r, n), val |-> n, key_val |-> n])
StoreKeepingBuffer(r) ==
  LET n == Len(log) + 1
  IN  StoreWith(r, [key |-> n, val |-> n, key_val |-> Old(r, n)])
StoreWrongView(r) ==
  LET n == Len(log) + 1
  IN  StoreWith(r, [key |-> n, val |-> n + 1, key_val |-> n])

\* update_impl() stores the line in a buffer: key, val and key_val all move
\* to it, and the callback is handed that buffer.
Store(r) ==
  LET n == Len(log) + 1
      new == [key |-> n, val |-> n, key_val |-> n]
  IN  /\ m_map' = [k \in DOMAIN m_map \cup {r.key} |->
                     IF k = r.key THEN new ELSE m_map[k]]
      /\ log' = Append(log, [by |-> r.by, key |-> r.key, val |-> r.val])

InsertNew ==
  /\ Runs("update")
  /\ Head(m_strand).key \notin DOMAIN m_map
  /\ Store(Head(m_strand))
  /\ UNCHANGED <<m_gen, fut, resetting, cursor, from, got>>

\* A slip: the values are not compared.
ChangeAnyValue ==
  /\ Runs("update")
  /\ Head(m_strand).key \in DOMAIN m_map
  /\ Store(Head(m_strand))
  /\ UNCHANGED <<m_gen, fut, resetting, cursor, from, got>>

ChangeValue ==
  /\ Runs("update")
  /\ Head(m_strand).key \in DOMAIN m_map
  /\ ValueOf(Head(m_strand).key) # Head(m_strand).val
  /\ Store(Head(m_strand))
  /\ UNCHANGED <<m_gen, fut, resetting, cursor, from, got>>

KeepValue ==
  /\ Runs("update")
  /\ Head(m_strand).key \in DOMAIN m_map
  /\ ValueOf(Head(m_strand).key) = Head(m_strand).val
  /\ UNCHANGED <<m_map, m_gen, fut, resetting, cursor, log, from, got>>

SizeImpl ==
  /\ Runs("size")
  /\ fut' = [fut EXCEPT ![Head(m_strand).by] = "sized"]
  /\ UNCHANGED <<m_map, m_gen, resetting, cursor, log, from, got>>

\* Hand the pair of key k to session s, with an iterator to it.
Give(s, k) ==
  /\ fut' = [fut EXCEPT ![s] = "found"]
  /\ cursor' = [cursor EXCEPT ![s] = [key |-> k, gen |-> m_gen]]
  /\ got' = [got EXCEPT ![s] = Append(@, m_map[k].key_val)]

\* A slip: no answer is given when there is no pair left.
LatestUnanswered(s) == s \in Sessions /\ UNCHANGED <<fut, cursor, got>>

Latest(s) ==
  /\ fut' = [fut EXCEPT ![s] = "latest"]
  /\ UNCHANGED <<cursor, got>>

GetFirstImpl ==
  /\ Runs("first")
  /\ LET s == Head(m_strand).by
     IN  /\ \/ \E k \in DOMAIN m_map : IsFirst(k) /\ Give(s, k)
            \/ DOMAIN m_map = {} /\ Latest(s)
         /\ from' = [from EXCEPT ![s] = Len(log)]
  /\ UNCHANGED <<m_map, m_gen, resetting, log>>

GetNextImpl ==
  /\ Runs("next")
  /\ LET s == Head(m_strand).by
         it == Head(m_strand).it
     IN  /\ it.gen = m_gen
         /\ \/ \E k \in DOMAIN m_map : IsNext(it.key, k) /\ Give(s, k)
            \/ IsLast(it.key) /\ Latest(s)
  /\ UNCHANGED <<m_map, m_gen, resetting, log, from>>

\* std::next() of an iterator whose node reset() has deleted: the behaviour is
\* undefined, so is what the future holds, and the scan is not followed further.
GetNextDangling ==
  /\ Runs("next")
  /\ Head(m_strand).it.gen # m_gen
  /\ fut' = [fut EXCEPT ![Head(m_strand).by] = "undefined"]
  /\ UNCHANGED <<m_map, m_gen, resetting, cursor, log, from, got>>

ResetImpl ==
  /\ Runs("reset")
  /\ m_map' = [k \in {} |-> m_map[k]]
  /\ m_gen' = m_gen + 1
  /\ resetting' = FALSE
  /\ UNCHANGED <<fut, cursor, log, from, got>>

Strand ==
  \/ InsertNew \/ ChangeValue \/ KeepValue \/ SizeImpl
  \/ GetFirstImpl \/ GetNextImpl \/ GetNextDangling \/ ResetImpl

Scan(s) == PostSize(s) \/ PostFirst(s) \/ PostNext(s)

Next ==
  \/ \E s \in Sessions, k \in Keys, v \in Values : PostUpdate(s, k, v)
  \/ \E s \in Sessions : Scan(s)
  \/ PostReset
  \/ Strand

Spec == Init /\ [][Next]_vars

\* The strand runs whatever is posted on it, and a session's sync goes on.
FairSpec ==
  /\ Spec
  /\ WF_vars(Strand)
  /\ \A s \in Sessions : WF_vars(Scan(s))

-----------------------------------------------------------------------------
(* Properties *)

\* The map, the requests on the strand and the sessions' scans are well formed,
\* and a stored pair views only buffers that were received.
TypeOK ==
  /\ DOMAIN m_map \subseteq Keys
  /\ m_map \in [DOMAIN m_map -> MapValue]
  /\ \A k \in DOMAIN m_map : m_map[k].val \in 1..Len(log)
  /\ m_gen \in Nat
  /\ m_strand \in Seq(Request)
  /\ fut \in [Sessions ->
       {"none", "pending", "sized", "found", "latest", "undefined"}]
  /\ resetting \in BOOLEAN
  /\ cursor \in [Sessions -> Iterator]
  /\ log \in Seq(Line)
  /\ from \in [Sessions -> Nat]
  /\ got \in [Sessions -> Seq(Nat)]

\* The key and val views of a stored pair point into the very buffer the pair
\* keeps alive in key_val, and that buffer is a line about this key: the views
\* never outlive the text they read (state_storage.hpp:109-111).
ViewsOwned ==
  \A k \in DOMAIN m_map :
    LET e == m_map[k]
    IN  /\ e.key = e.key_val /\ e.val = e.key_val
        /\ e.key_val \in DOMAIN log /\ log[e.key_val].key = k

\* What is stored under a key is the newest update of that key: no later line
\* about it was announced and then lost, whatever order the requests came in.
LatestWins ==
  \A k \in DOMAIN m_map : \A i \in DOMAIN log :
    i > m_map[k].key_val => log[i].key # k

\* A key is behind a session's scan when the scan is over or has gone past it.
Passed(s, k) == fut[s] = "latest" \/ k <= cursor[s].key

\* A scan misses nothing, although the map changes between any two of its
\* requests: a pair behind the iterator was handed to the session, or was
\* announced (the update's callback ran) after its get_first().
ScanCovers ==
  \A s \in Sessions : \A k \in DOMAIN m_map :
    Passed(s, k) => \/ \E i \in DOMAIN got[s] : got[s][i] = m_map[k].key_val
                    \/ m_map[k].key_val > from[s]

\* What the scans rest on: a session has at most one request on the strand, it
\* is blocked on its answer, and the iterator sent with the request is still the
\* one it holds; before the first pair it holds none.
Asks(i) == m_strand[i].op \in {"size", "first", "next"}
OneRequest ==
  \A i \in DOMAIN m_strand : Asks(i) =>
    /\ fut[m_strand[i].by] = "pending"
    /\ m_strand[i].op = "next" => m_strand[i].it = cursor[m_strand[i].by]
    /\ m_strand[i].op # "next" => cursor[m_strand[i].by].key = 0
    /\ \A j \in DOMAIN m_strand :
         Asks(j) /\ m_strand[j].by = m_strand[i].by => i = j
NotBegun ==
  \A s \in Sessions : fut[s] \in {"none", "sized"} => cursor[s].key = 0
FromLogged == \A s \in Sessions : from[s] <= Len(log)

\* The inductive invariant of the component.
IInv ==
  /\ TypeOK /\ ViewsOwned /\ LatestWins
  /\ OneRequest /\ NotBegun /\ FromLogged /\ ScanCovers

\* A scan only moves forward through the keys, so it ends and sends no pair of
\* the snapshot twice.
ScanAscends ==
  [][\A s \in Sessions :
       cursor'[s] # cursor[s] => cursor'[s].key > cursor[s].key]_vars

\* The callback runs exactly when the map really changed: "a new key-val pair
\* was added, or value for the concrete key was changed" (state_storage.hpp:38).
UpdateAnnounced ==
  [][m_gen' = m_gen => (log' # log <=> Contents' # Contents)]_vars

\* Every scan comes to an end, however the updates and resets interleave.
ScanEnds ==
  \A s \in Sessions : fut[s] # "none" ~> fut[s] \in {"latest", "undefined"}
=============================================================================
