------------------------------ MODULE JoinProofs ------------------------------
(***************************************************************************)
(* Proofs about Server: a client that joins misses nothing.  It is listed  *)
(* on the manager's strand, scans the map on the storage's, and is sent    *)
(* the sync and the feed on its own; what its scan has passed is its own,  *)
(* or was sent to it, or is about to be broadcast.                         *)
(***************************************************************************)
EXTENDS FeedProofs

-----------------------------------------------------------------------------
(* Who waits for an answer of the storage. *)

\* The acceptor serves the one session that joins.
ServingOne ==
  /\ serving <=> joining # {}
  /\ \A s, t \in joining : s = t

\* A session asks the storage from on_new_connection(), or from its sync_next().
Asking == \A s \in Sessions, op \in Kinds : Requested(s, op) => s \in joining \cup waiting

\* What a step does to those that wait.
LEMMA JoinSteps ==
  ASSUME [Next]_vars
  PROVE  \/ UNCHANGED <<joining, waiting, serving>>
         \/ \E s \in Sessions : /\ Accept(s) /\ ~serving /\ serving' = TRUE
                                /\ joining' = {s} /\ waiting' = waiting
         \/ \E s \in Sessions : /\ Joined(s) /\ serving' = FALSE
                                /\ joining' = {} /\ waiting' = waiting
         \/ \E s \in Sessions : /\ SyncNext(s) /\ waiting' = waiting \cup {s}
                                /\ UNCHANGED <<joining, serving>>
         \/ \E s \in Sessions : /\ SyncResume(s) /\ waiting' = waiting \ {s}
                                /\ UNCHANGED <<joining, serving>>
<1> DEFINE Goal ==
         \/ UNCHANGED <<joining, waiting, serving>>
         \/ \E s \in Sessions : /\ Accept(s) /\ ~serving /\ serving' = TRUE
                                /\ joining' = {s} /\ waiting' = waiting
         \/ \E s \in Sessions : /\ Joined(s) /\ serving' = FALSE
                                /\ joining' = {} /\ waiting' = waiting
         \/ \E s \in Sessions : /\ SyncNext(s) /\ waiting' = waiting \cup {s}
                                /\ UNCHANGED <<joining, serving>>
         \/ \E s \in Sessions : /\ SyncResume(s) /\ waiting' = waiting \ {s}
                                /\ UNCHANGED <<joining, serving>>
<1> SUFFICES Goal
  OBVIOUS
<1>1. ASSUME NEW s \in Sessions, Accept(s) PROVE Goal
  BY <1>1 DEF Accept, Acceptor!OnAccepted, Acceptor!Runs
<1>2. ASSUME NEW s \in Sessions, Joined(s) PROVE Goal
  BY <1>2 DEF Joined, Acceptor!CallbackReturns
<1>3. ASSUME NEW s \in Sessions, SyncNext(s) PROVE Goal
  BY <1>3 DEF SyncNext, SentTrue, Handles, OnStrand, acceptorVars
<1>4. ASSUME NEW s \in Sessions, SyncResume(s) PROVE Goal
  BY <1>4 DEF SyncResume, OnStrand, acceptorVars
<1> DEFINE Stays == UNCHANGED <<joining, waiting, serving>>
<1>5. ASSUME NEW s \in Sessions,
             Create(s) \/ StartSync(s) \/ Socket(s) \/ RunDangling(s) \/ Release(s)
      PROVE  Stays
  BY <1>5 DEF Create, StartSync, Socket, RunDangling, Release, ReadCompletes, ReadFails, WriteCompletes,
              WriteFails, Wrote, Break, OnSocket, OnManager, acceptorVars
<1>6. ASSUME NEW s \in Sessions, SessionStrand(s), ~SyncNext(s), ~SyncResume(s) PROVE Stays
  BY <1>6 DEF SessionStrand, StartImpl, ReadedData, ReadedPing, ReadedBad, SendImpl, WroteFailed,
              WroteFeed, StopImpl, Handles, SentTrue, OnStrand, Privately, acceptorVars
<1>7. ASSUME Manager PROVE Stays
  BY <1>7 DEF Manager, PushBack, BroadcastImpl, StopAll, Erase, OnManager, acceptorVars
<1>8. ASSUME StorageStrand \/ ResetSessions \/ ResetState PROVE Stays
  BY <1>8 DEF StorageStrand, ResetSessions, ResetState, OnSignal, acceptorVars
<1>9. ASSUME Restart PROVE Stays
  BY <1>9 DEF Restart, OnSignal, Acceptor!Restart, Acceptor!Enqueue
<1>10. ASSUME AcceptorStrand PROVE Stays
  BY <1>10 DEF AcceptorStrand, Alone, OnSignal, Acceptor!StartImpl, Acceptor!Stop,
               Acceptor!IsOpen, Acceptor!OnAcceptFailed, Acceptor!Close
<1>11. ASSUME AcceptorGoesOn \/ AcceptorEvent PROVE Stays
  BY <1>11 DEF AcceptorGoesOn, AcceptorEvent, SignalArrives, Alone, OnSignal,
               Acceptor!Toggle, Acceptor!Complete, Acceptor!Interrupt, Acceptor!AskIsOpen,
               Acceptor!AskStop, Acceptor!Connect, Acceptor!Signal, Acceptor!Enqueue, Acceptor!Land
<1>12. ASSUME UNCHANGED vars PROVE Stays
  BY <1>12 DEF vars, acceptorVars
<1>13. Stays => Goal
  OBVIOUS
<1> HIDE DEF Goal, Stays
<1> QED BY <1>1, <1>2, <1>3, <1>4, <1>5, <1>6, <1>7, <1>8, <1>9, <1>10, <1>11, <1>12, <1>13
       DEF Next, Step, SignalHandler

LEMMA ServingInit == Init => ServingOne /\ Asking
<1>1. Init => ServingOne
  BY DEF Init, Acceptor!Init, ServingOne
<1>2. Init => Asking
  BY DEF Init, InitStorage, Asking, Requested
<1> QED BY <1>1, <1>2

LEMMA ServingNext == ASSUME ServingOne, [Next]_vars PROVE ServingOne'
<1>1. CASE UNCHANGED <<joining, waiting, serving>>
  BY <1>1 DEF ServingOne
<1>2. ASSUME NEW s \in Sessions, serving' = TRUE, joining' = {s} PROVE ServingOne'
  BY <1>2 DEF ServingOne
<1>3. ASSUME serving' = FALSE, joining' = {} PROVE ServingOne'
  BY <1>3 DEF ServingOne
<1>4. ASSUME UNCHANGED <<joining, serving>> PROVE ServingOne'
  BY <1>4 DEF ServingOne
<1> QED BY <1>1, <1>2, <1>3, <1>4, JoinSteps

LEMMA AskingNext == ASSUME Basis, ServingOne, Asking, [Next]_vars PROVE Asking'
<1> SUFFICES ASSUME NEW s \in Sessions, NEW op \in Kinds, Requested(s, op)'
             PROVE  s \in joining' \cup waiting'
  BY DEF Asking
<1>1. CASE Requested(s, op)
  <2>1. s \in joining \cup waiting /\ fut[s] = "pending"
    BY <1>1, RequestsBlock DEF Asking
  <2>2. ~Joined(s) /\ ~SyncResume(s)
    BY <2>1 DEF Joined, SyncResume
  <2>3. \A t \in Sessions : Joined(t) => t \in joining
    BY DEF Joined
  <2> QED BY <2>1, <2>2, <2>3, JoinSteps DEF ServingOne
<1>2. CASE ~Requested(s, op)
  <2>1. Accept(s) \/ StartSync(s) \/ SyncNext(s)
    BY <1>2, ScanSteps DEF NoneAsks, AsksFor, Answers
  <2> QED BY <2>1 DEF Accept, StartSync, SyncNext
<1> QED BY <1>1, <1>2

-----------------------------------------------------------------------------
(* The pair of the sync that is under way. *)

\* A pair of the sync is queued, in the socket, or just sent.
OfSync(h) == h.op \in {"send", "wrote"} /\ h.msg.cb = "sync"
Syncs(s) ==
  \/ \E i \in DOMAIN strand[s] : OfSync(strand[s][i])
  \/ \E i \in DOMAIN writing[s] : writing[s][i].cb = "sync"

\* Before its first pair is sent a session neither syncs nor waits for the next.
Fresh ==
  \A s \in Sessions : s \in joining \/ fut[s] = "none" => s \notin waiting /\ ~Syncs(s)

\* A pair of the sync is sent only when there is one.
LEMMA SyncSteps ==
  ASSUME Basis, [Next]_vars, NEW s \in Sessions, Syncs(s)'
  PROVE  Syncs(s) \/ (fut[s] = "found" /\ (Joined(s) \/ SyncResume(s)))
<1> DEFINE Goal == Syncs(s) \/ (fut[s] = "found" /\ (Joined(s) \/ SyncResume(s)))
<1> SUFFICES Goal
  OBVIOUS
<1>a. /\ ShapeOK /\ PartsOK /\ strand \in [Sessions -> Seq(Handler)]
      /\ writing \in [Sessions -> Seq(Message)]
      /\ DOMAIN strand[s] = 1..Len(strand[s]) /\ Len(strand[s]) \in Nat
      /\ DOMAIN writing[s] = 1..Len(writing[s]) /\ Len(writing[s]) \in Nat
      /\ strand[s] \in Seq(Handler) /\ writing[s] \in Seq(Message)
  <2>1. /\ ShapeOK /\ PartsOK /\ strand \in [Sessions -> Seq(Handler)]
        /\ writing \in [Sessions -> Seq(Message)]
    BY DEF Basis, ShapeOK
  <2> QED BY <2>1, LenProperties
<1>0. ASSUME strand'[s] = strand[s], writing'[s] = writing[s] PROVE Goal
  BY <1>0 DEF Syncs
<1>p. ASSUME NEW h \in Handler, strand'[s] = strand[s] \/ strand'[s] = Append(strand[s], h),
             writing'[s] = writing[s] \/ (writing[s] # <<>> /\ writing'[s] = Tail(writing[s])),
             OfSync(h) => Goal
      PROVE  Goal
  <2>1. ASSUME NEW i \in DOMAIN strand'[s], OfSync(strand'[s][i]) PROVE Goal
    <3>1. strand'[s] = strand[s] => Goal
      BY <2>1 DEF Syncs
    <3>2. ASSUME strand'[s] = Append(strand[s], h) PROVE Goal
      <4>1. strand'[s][i] = h \/ (i \in DOMAIN strand[s] /\ strand'[s][i] = strand[s][i])
        BY <1>a, <2>1, <3>2, Posted
      <4> QED BY <1>p, <2>1, <4>1 DEF Syncs
    <3> QED BY <1>p, <3>1, <3>2
  <2>2. ASSUME NEW i \in DOMAIN writing'[s], writing'[s][i].cb = "sync" PROVE Goal
    <3>1. writing'[s] = writing[s] => Goal
      BY <2>2 DEF Syncs
    <3>2. ASSUME writing[s] # <<>>, writing'[s] = Tail(writing[s]) PROVE Goal
      <4>1. i + 1 \in DOMAIN writing[s] /\ writing'[s][i] = writing[s][i + 1]
        BY <1>a, <2>2, <3>2, Taken
      <4> QED BY <2>2, <4>1 DEF Syncs
    <3> QED BY <1>p, <3>1, <3>2
  <2> QED BY <2>1, <2>2 DEF Syncs
<1>r. ASSUME strand[s] # <<>>, strand'[s] = Tail(strand[s]),
             \/ writing'[s] = writing[s]
             \/ Head(strand[s]).op = "send" /\ writing'[s] = Append(writing[s], Head(strand[s]).msg)
      PROVE  Goal
  <2>0. /\ 1 \in DOMAIN strand[s] /\ Head(strand[s]) = strand[s][1] /\ Head(strand[s]) \in Handler
        /\ \A i \in DOMAIN strand'[s] :
             i + 1 \in DOMAIN strand[s] /\ strand'[s][i] = strand[s][i + 1]
    BY <1>a, <1>r, Taken
  <2>1. ASSUME NEW i \in DOMAIN strand'[s], OfSync(strand'[s][i]) PROVE Goal
    BY <2>0, <2>1 DEF Syncs
  <2>2. ASSUME NEW i \in DOMAIN writing'[s], writing'[s][i].cb = "sync" PROVE Goal
    <3>1. writing'[s] = writing[s] => Goal
      BY <2>2 DEF Syncs
    <3>2. ASSUME Head(strand[s]).op = "send", writing'[s] = Append(writing[s], Head(strand[s]).msg)
          PROVE  Goal
      <4> DEFINE m == Head(strand[s]).msg
      <4>1. m \in Message
        BY <2>0, <3>2, HandlerFields
      <4>2. writing'[s][i] = m \/ (i \in DOMAIN writing[s] /\ writing'[s][i] = writing[s][i])
        BY <1>a, <2>2, <3>2, <4>1, Posted
      <4> QED BY <2>0, <2>2, <3>2, <4>2 DEF Syncs, OfSync
    <3> QED BY <1>r, <3>1, <3>2
  <2> QED BY <2>1, <2>2 DEF Syncs
<1> HIDE DEF Goal
<1>n. /\ [op |-> "start"] \in Handler /\ [op |-> "stop"] \in Handler
      /\ ~OfSync([op |-> "start"]) /\ ~OfSync([op |-> "stop"])
  BY DEF Handler, OfSync
<1>q. ASSUME NEW t \in Sessions, NEW h \in Handler, Post(t, h), writing' = writing,
             t = s /\ OfSync(h) => Goal
      PROVE  Goal
  BY <1>0, <1>a, <1>p, <1>q DEF Post
<1>1. ASSUME NEW t \in Sessions, Create(t) \/ Release(t) PROVE Goal
  BY <1>1, <1>n, <1>q DEF Create, Release, OnManager, socketVars
<1>2. ASSUME NEW t \in Sessions, Joined(t) \/ SyncResume(t) PROVE Goal
  <2>0. writing' = writing
    BY <1>2 DEF Joined, SyncResume, socketVars
  <2>1. CASE UNCHANGED strand
    BY <1>0, <2>0, <2>1
  <2>2. ASSUME fut[t] = "found", Post(t, [op |-> "send", msg |-> SyncPair(t)]) PROVE Goal
    <3> DEFINE h == [op |-> "send", msg |-> SyncPair(t)]
    <3>1. SyncPair(t) \in Message
      BY <1>a, <2>2, SyncPairTyped
    <3>2. h \in Handler
      BY <3>1 DEF Handler
    <3> HIDE DEF h
    <3>3. t = s => Goal
      BY <1>2, <2>2 DEF Goal
    <3> QED BY <1>q, <2>0, <2>2, <3>2, <3>3 DEF h
  <2> QED BY <1>2, <2>1, <2>2 DEF Joined, SyncResume
<1>3. ASSUME NEW t \in Sessions, NEW line \in LineRead, ReadCompletes(t, line) PROVE Goal
  <2>1. [op |-> "readed", line |-> line] \in Handler /\ ~OfSync([op |-> "readed", line |-> line])
    BY DEF Handler, OfSync
  <2> QED BY <1>3, <1>q, <2>1 DEF ReadCompletes
<1>4. ASSUME NEW t \in Sessions, ReadFails(t) PROVE Goal
  <2> DEFINE h == [op |-> "readed", line |-> [in |-> "error"]]
  <2>1. h \in Handler /\ ~OfSync(h)
    BY DEF Handler, LineRead, OfSync
  <2>2. Post(t, h) /\ writing' = writing
    BY <1>4 DEF ReadFails
  <2> HIDE DEF h
  <2> QED BY <1>q, <2>1, <2>2
<1>5. ASSUME NEW t \in Sessions, NEW ok \in BOOLEAN, Wrote(t, ok) PROVE Goal
  <2> DEFINE h == [op |-> "wrote", msg |-> Head(writing[t]), ok |-> ok]
  <2>1. /\ writing[t] # <<>> /\ Post(t, h) /\ writing' = [writing EXCEPT ![t] = Tail(@)]
    BY <1>5 DEF Wrote
  <2>2. writing[t] \in Seq(Message) /\ Head(writing[t]) \in Message
    BY <1>a, <2>1, Taken
  <2>3. h \in Handler /\ (OfSync(h) => Head(writing[t]).cb = "sync")
    BY <2>2 DEF Handler, OfSync
  <2> HIDE DEF h
  <2>4. CASE t # s
    BY <1>0, <1>a, <2>1, <2>4 DEF Post
  <2>5. CASE t = s
    <3>1. 1 \in DOMAIN writing[s] /\ Head(writing[s]) = writing[s][1]
      BY <1>a, <2>1, <2>5, Taken
    <3>2. OfSync(h) => Goal
      BY <2>3, <2>5, <3>1 DEF Syncs, Goal
    <3>3. strand'[s] = Append(strand[s], h) /\ writing'[s] = Tail(writing[s]) /\ writing[s] # <<>>
      BY <1>a, <2>1, <2>5 DEF Post
    <3> QED BY <1>p, <2>3, <3>2, <3>3
  <2> QED BY <2>4, <2>5
<1>6. ASSUME NEW t \in Sessions, Break(t) \/ Accept(t) \/ StartSync(t) PROVE Goal
  BY <1>0, <1>6 DEF Break, Accept, StartSync, socketVars
<1>7. ASSUME NEW t \in Sessions, ReadedPing(t) PROVE Goal
  <2> DEFINE m == [n |-> 0, cb |-> "ping", holder |-> t]
             h == [op |-> "send", msg |-> m]
  <2>1. /\ strand[t] # <<>> /\ writing' = writing
        /\ strand' = [strand EXCEPT ![t] = Append(Tail(@), h)]
    BY <1>7 DEF ReadedPing, Ready
  <2>2. m \in Message /\ m.cb = "ping"
    BY DEF Message
  <2>3. h \in Handler /\ ~OfSync(h)
    BY <2>2 DEF Handler, OfSync
  <2> HIDE DEF h, m
  <2>4. CASE t # s
    BY <1>0, <1>a, <2>1, <2>4
  <2>5. CASE t = s
    <3>1. strand'[s] = Append(Tail(strand[s]), h) /\ writing'[s] = writing[s]
      BY <1>a, <2>1, <2>5
    <3>2. /\ Tail(strand[s]) \in Seq(Handler) /\ DOMAIN Tail(strand[s]) = 1..Len(strand[s]) - 1
          /\ \A i \in 1..Len(strand[s]) - 1 : Tail(strand[s])[i] = strand[s][i + 1]
      BY <1>a, <2>1, <2>5, Taken
    <3>3. \A i \in DOMAIN strand'[s] :
            \/ strand'[s][i] = h
            \/ i \in DOMAIN Tail(strand[s]) /\ strand'[s][i] = Tail(strand[s])[i]
      <4>1. /\ DOMAIN Append(Tail(strand[s]), h) = 1..Len(Tail(strand[s])) + 1
            /\ Append(Tail(strand[s]), h)[Len(Tail(strand[s])) + 1] = h
            /\ DOMAIN Tail(strand[s]) = 1..Len(Tail(strand[s])) /\ Len(Tail(strand[s])) \in Nat
            /\ \A i \in 1..Len(Tail(strand[s])) :
                 Append(Tail(strand[s]), h)[i] = Tail(strand[s])[i]
        BY <2>3, <3>2, Posted
      <4> QED BY <3>1, <4>1
    <3>4. \A i \in 1..Len(strand[s]) - 1 : i + 1 \in DOMAIN strand[s]
      BY <1>a
    <3>5. ASSUME NEW i \in DOMAIN strand'[s], OfSync(strand'[s][i]) PROVE Goal
      BY <2>3, <3>2, <3>3, <3>4, <3>5 DEF Syncs, Goal
    <3> QED BY <3>1, <3>5 DEF Syncs, Goal
  <2> QED BY <2>4, <2>5
<1>8. ASSUME NEW t \in Sessions, SendImpl(t) PROVE Goal
  <2>1. /\ strand[t] # <<>> /\ Head(strand[t]).op = "send"
        /\ strand' = [strand EXCEPT ![t] = Tail(@)]
        /\ writing' = [writing EXCEPT ![t] = Append(@, Head(strand[t]).msg)]
    BY <1>8 DEF SendImpl, Handles, Runs, Ready
  <2> QED BY <1>0, <1>a, <1>r, <2>1
<1>9. ASSUME NEW t \in Sessions, SessionStrand(t) \/ RunDangling(t),
             ~ReadedPing(t), ~SendImpl(t), ~SyncResume(t)
      PROVE  Goal
  <2>1. strand[t] # <<>> /\ strand' = [strand EXCEPT ![t] = Tail(@)] /\ writing' = writing
    BY <1>9
       DEF SessionStrand, RunDangling, StartImpl, ReadedData, ReadedBad, WroteFailed,
           WroteFeed, SyncNext, StopImpl, SentTrue, Handles, Runs, Ready, OnManager, socketVars,
           Privately
  <2> QED BY <1>0, <1>a, <1>r, <2>1
<1>10. ASSUME NEW h \in Handler, NEW except, PostAll(h, except), writing' = writing, ~OfSync(h)
       PROVE  Goal
  BY <1>0, <1>p, <1>10 DEF PostAll
<1>11. CASE Manager
  <2>1. writing' = writing
    BY <1>11 DEF Manager, PushBack, BroadcastImpl, StopAll, Erase, OnManager, socketVars
  <2>2. CASE BroadcastImpl
    <3> DEFINE m == [n |-> Head(mgr_strand).n, cb |-> "feed", holder |-> Head(mgr_strand).holder]
               h == [op |-> "send", msg |-> m]
    <3>1. Head(mgr_strand) \in Job /\ Head(mgr_strand).op = "broadcast"
      BY <1>a, <2>2, Taken DEF BroadcastImpl, ManagerRuns, ShapeOK
    <3>2. m \in Message /\ m.cb = "feed"
      BY <3>1, JobFields DEF Message
    <3>3. PostAll(h, {Head(mgr_strand).holder})
      BY <2>2 DEF BroadcastImpl
    <3> HIDE DEF m
    <3>4. h \in Handler /\ ~OfSync(h)
      BY <3>2 DEF Handler, OfSync
    <3> QED BY <1>10, <2>1, <3>3, <3>4
  <2>3. CASE StopAll
    BY <1>10, <1>n, <2>1, <2>3 DEF StopAll
  <2>4. CASE PushBack \/ Erase
    BY <1>0, <2>1, <2>4 DEF PushBack, Erase
  <2> QED BY <1>11, <2>2, <2>3, <2>4 DEF Manager
<1>12. ASSUME StorageStrand \/ SignalHandler PROVE UNCHANGED <<strand, writing>>
  BY <1>12 DEF StorageStrand, SignalHandler, ResetSessions, ResetState, Restart, OnSignal, socketVars
<1>13. ASSUME AcceptorStrand \/ AcceptorGoesOn \/ AcceptorEvent PROVE UNCHANGED <<strand, writing>>
  BY <1>13 DEF AcceptorStrand, AcceptorGoesOn, AcceptorEvent, SignalArrives, Alone, OnSignal, socketVars
<1>14. CASE UNCHANGED vars
  BY <1>0, <1>14 DEF vars, socketVars
<1>15. ASSUME NEW t \in Sessions, Socket(t) PROVE Goal
  BY <1>3, <1>4, <1>5, <1>6, <1>15, ServerAssumption
     DEF Socket, ServerAssumption, WriteCompletes, WriteFails
<1> QED BY <1>0, <1>1, <1>2, <1>6, <1>7, <1>8, <1>9, <1>11, <1>12, <1>13, <1>14, <1>15
       DEF Next, Step

LEMMA FreshInit == Init => Fresh
BY DEF Init, Fresh, Syncs

LEMMA FreshNext == ASSUME Basis, ServingOne, Fresh, [Next]_vars PROVE Fresh'
<1> SUFFICES ASSUME NEW s \in Sessions, s \in joining' \/ fut'[s] = "none"
             PROVE  s \notin waiting' /\ ~Syncs(s)'
  BY DEF Fresh
<1>1. fut'[s] = "none" => fut[s] = "none"
  <2>1. DOMAIN fut = Sessions
    BY DEF Basis, PartsOK, SP!IInv, SP!TypeOK
  <2> QED BY <2>1, ScanSteps DEF AsksFor, Answers, SP!Given
<1>2. s \in joining' => s \in joining \/ fut[s] = "none"
  <2>1. ASSUME NEW t \in Sessions, Accept(t) PROVE fut[t] = "none"
    BY <2>1, ScanIs DEF Accept, SP!PostSize, SP!Ask
  <2> QED BY <2>1, JoinSteps
<1>3. s \notin waiting /\ ~Syncs(s)
  BY <1>1, <1>2 DEF Fresh
<1>4. ~Joined(s)
  <2>1. ASSUME Joined(s) PROVE FALSE
    <3>1. fut' = fut /\ joining' = {} /\ fut[s] \in {"found", "latest"}
      BY <2>1 DEF Joined, storageVars
    <3> QED BY <3>1
  <2> QED BY <2>1
<1>5. ~SyncResume(s)
  BY <1>3 DEF SyncResume
<1>6. ~SyncNext(s)
  <2>1. ASSUME SyncNext(s) PROVE FALSE
    <3>1. strand[s] # <<>> /\ Head(strand[s]).op = "wrote" /\ Head(strand[s]).msg.cb = "sync"
      BY <2>1 DEF SyncNext, SentTrue, Handles, Runs, Ready
    <3>2. 1 \in DOMAIN strand[s] /\ Head(strand[s]) = strand[s][1]
      BY <3>1, Taken DEF Basis, ShapeOK
    <3> QED BY <1>3, <3>1, <3>2 DEF Syncs, OfSync
  <2> QED BY <2>1
<1>7. ~Syncs(s)'
  BY <1>3, <1>4, <1>5, SyncSteps
<1>8. s \notin waiting'
  BY <1>3, <1>6, JoinSteps
<1> QED BY <1>7, <1>8

-----------------------------------------------------------------------------
(* What a session has been sent. *)

\* A queue holds buffer n; a session has been sent it, or is about to be.
Holds(q, n) == \E i \in DOMAIN q : q[i].cb # "none" /\ q[i].n = n
HasSent(s, n) == Holds(wire[s], n) \/ Holds(writing[s], n) \/ Holds(Sends(s), n)

\* Every pair its scan was given was sent, but one it has not gone on with yet.
GotSent ==
  \A s \in Sessions : Live(s) => \A i \in DOMAIN got[s] :
    \/ HasSent(s, got[s][i])
    \/ i = Len(got[s]) /\ fut[s] = "found" /\ s \in joining \cup waiting

LEMMA HoldsAppended ==
  ASSUME NEW q \in Seq(Sendable), NEW m \in Sendable, NEW n
  PROVE  Holds(Append(q, m), n) <=> Holds(q, n) \/ (m.cb # "none" /\ m.n = n)
<1>1. /\ DOMAIN Append(q, m) = 1..Len(q) + 1 /\ DOMAIN q = 1..Len(q) /\ Len(q) \in Nat
      /\ Append(q, m)[Len(q) + 1] = m
      /\ \A i \in 1..Len(q) : Append(q, m)[i] = q[i]
  BY Posted
<1>2. 1..Len(q) + 1 = (1..Len(q)) \cup {Len(q) + 1}
  BY <1>1
<1> QED BY <1>1, <1>2 DEF Holds

LEMMA HoldsTaken ==
  ASSUME NEW q \in Seq(Sendable), q # <<>>, NEW n, Holds(q, n)
  PROVE  (Head(q).cb # "none" /\ Head(q).n = n) \/ Holds(Tail(q), n)
<1>1. /\ DOMAIN q = 1..Len(q) /\ Len(q) \in Nat \ {0}
      /\ DOMAIN Tail(q) = 1..Len(q) - 1 /\ Head(q) = q[1]
      /\ \A i \in 1..Len(q) - 1 : Tail(q)[i] = q[i + 1]
  BY Taken
<1>2. PICK i \in DOMAIN q : q[i].cb # "none" /\ q[i].n = n
  BY DEF Holds
<1>3. CASE i = 1
  BY <1>1, <1>2, <1>3
<1>4. CASE i # 1
  <2>1. i - 1 \in DOMAIN Tail(q) /\ i - 1 + 1 = i
    BY <1>1, <1>2, <1>4
  <2>2. Tail(q)[i - 1] = q[i]
    BY <1>1, <2>1
  <2> QED BY <1>2, <2>1, <2>2 DEF Holds
<1> QED BY <1>3, <1>4

LEMMA HoldsJoined ==
  ASSUME NEW a \in Seq(Sendable), NEW b \in Seq(Sendable), NEW n, Holds(a, n) \/ Holds(b, n)
  PROVE  Holds(a \o b, n)
<1> DEFINE p == a \o b
           k == Len(a)
<1>1. /\ p \in Seq(Sendable) /\ Len(p) = k + Len(b) /\ k \in Nat /\ Len(b) \in Nat
      /\ \A i \in 1 .. k + Len(b) : p[i] = IF i <= k THEN a[i] ELSE b[i - k]
  BY ConcatProperties, LenProperties
<1>2. DOMAIN p = 1 .. k + Len(b) /\ DOMAIN a = 1..k /\ DOMAIN b = 1..Len(b)
  BY <1>1, LenProperties
<1> HIDE DEF p, k
<1>3. ASSUME NEW i \in DOMAIN a PROVE i \in DOMAIN p /\ p[i] = a[i]
  <2>1. i \in 1 .. k + Len(b) /\ i <= k
    BY <1>1, <1>2, <1>3
  <2> QED BY <1>1, <1>2, <2>1
<1>4. ASSUME NEW i \in DOMAIN b PROVE i + k \in DOMAIN p /\ p[i + k] = b[i]
  <2>1. i + k \in 1 .. k + Len(b) /\ ~(i + k <= k) /\ i + k - k = i
    BY <1>1, <1>2, <1>4
  <2> QED BY <1>1, <1>2, <2>1
<1>5. Holds(p, n)
  BY <1>3, <1>4 DEF Holds
<1> QED BY <1>5 DEF p

\* What was sent to a session whose connection is up stays sent.
LEMMA SentStays ==
  ASSUME Basis, [Next]_vars, NEW s \in Sessions, Live(s)', NEW n, HasSent(s, n)
  PROVE  Holds(wire'[s], n) \/ Holds(writing'[s], n) \/ Holds(Sends(s)', n)
<1>1. /\ wire[s] \in Seq(Sendable) /\ writing[s] \in Seq(Sendable) /\ Sends(s) \in Seq(Sendable)
      /\ NoMessage \in Sendable /\ NoMessage.cb = "none"
  BY StreamsTyped DEF Basis, Sendable, NoMessage
<1>2. CASE Same(s)
  BY <1>2 DEF Same, HasSent
<1>3. ASSUME NEW m \in Sendable, Adds(s, m)
      PROVE  Holds(wire'[s], n) \/ Holds(writing'[s], n) \/ Holds(Sends(s)', n)
  BY <1>1, <1>3, HoldsAppended DEF Adds, HasSent
<1>4. CASE Drops(s)
  BY <1>1, <1>4, HoldsTaken DEF Drops, HasSent
<1>5. CASE Pings(s)
  <2>1. PICK m \in Sendable : Sends(s)' = Append(Tail(Sends(s)), m)
    BY <1>5 DEF Pings
  <2>2. /\ UNCHANGED <<wire[s], writing[s]>> /\ Tail(Sends(s)) \in Seq(Sendable)
        /\ Holds(Sends(s), n) => Holds(Tail(Sends(s)), n)
    BY <1>1, <1>5, HoldsTaken, Taken DEF Pings
  <2>3. Holds(Tail(Sends(s)), n) => Holds(Sends(s)', n)
    <3> DEFINE q == Tail(Sends(s))
    <3>1. q \in Seq(Sendable) /\ Sends(s)' = Append(q, m)
      BY <2>1, <2>2
    <3> HIDE DEF q
    <3>2. Holds(q, n) => Holds(Append(q, m), n)
      BY <3>1, HoldsAppended
    <3> QED BY <3>1, <3>2 DEF q
  <2> QED BY <2>2, <2>3 DEF HasSent
<1>6. CASE Writes(s)
  <2>1. Head(Sends(s)) \in Sendable /\ Sends(s) # <<>>
    BY <1>1, <1>6, Taken DEF Writes
  <2>2. CASE Holds(Sends(s), n)
    BY <1>1, <1>6, <2>1, <2>2, HoldsTaken, HoldsAppended DEF Writes
  <2>3. CASE Holds(wire[s], n) \/ Holds(writing[s], n)
    BY <1>1, <1>6, <2>1, <2>3, HoldsAppended DEF Writes
  <2> QED BY <2>2, <2>3 DEF HasSent
<1>7. CASE Delivers(s)
  <2>1. Head(writing[s]) \in Sendable /\ writing[s] # <<>>
    BY <1>1, <1>7, Taken DEF Delivers
  <2>2. CASE Holds(writing[s], n)
    <3>1. CASE Head(writing[s]).cb # "none" /\ Head(writing[s]).n = n
      BY <1>1, <1>7, <2>1, <3>1, HoldsAppended DEF Delivers
    <3>2. CASE Holds(Tail(writing[s]), n)
      BY <1>7, <3>2 DEF Delivers
    <3> QED BY <1>1, <2>1, <2>2, <3>1, <3>2, HoldsTaken
  <2>3. CASE Holds(wire[s], n)
    BY <1>1, <1>7, <2>1, <2>3, HoldsAppended DEF Delivers
  <2>4. CASE Holds(Sends(s), n)
    BY <1>1, <1>7, <2>4, HoldsAppended DEF Delivers
  <2> QED BY <2>2, <2>3, <2>4 DEF HasSent
<1> QED BY <1>2, <1>3, <1>4, <1>5, <1>6, <1>7, StreamSteps

\* A session that goes on with the pair it was given sends it.
LEMMA PairSent ==
  ASSUME Basis, NEW s \in Sessions, Joined(s) \/ SyncResume(s), fut[s] = "found"
  PROVE  HasSent(s, got[s][Len(got[s])])'
<1>1. Post(s, [op |-> "send", msg |-> SyncPair(s)]) /\ UNCHANGED <<got, fut>>
  BY DEF Joined, SyncResume, storageVars
<1>2. SyncPair(s) \in Message /\ SyncPair(s).cb = "sync" /\ SyncPair(s).n = got[s][Len(got[s])]
  BY SyncPairTyped DEF Basis
<1> DEFINE h == [op |-> "send", msg |-> SyncPair(s)]
           m == SyncPair(s)
<1>3. h \in Handler /\ MessageOf(h) = m
  BY <1>2 DEF Handler, MessageOf
<1>4. strand'[s] = Append(strand[s], h)
  BY <1>1 DEF Post, Basis, ShapeOK
<1> HIDE DEF h, m
<1>5. Sends(s)' = Append(Sends(s), m) /\ m \in Sendable
  BY <1>3, <1>4, StrandPosted DEF Basis
<1>6. Holds(Sends(s)', got[s][Len(got[s])])
  <2>1. Sends(s) \in Seq(Sendable)
    BY StreamsTyped DEF Basis
  <2> QED BY <1>2, <1>5, <2>1, HoldsAppended DEF m
<1> QED BY <1>1, <1>6 DEF HasSent

LEMMA GotInit == Init => GotSent
BY DEF Init, InitStorage, GotSent

LEMMA GotNext ==
  ASSUME Basis, ServingOne, Asking, Fresh, GotSent, [Next]_vars
  PROVE  GotSent'
<1> SUFFICES ASSUME NEW s \in Sessions, Live(s)', NEW i \in DOMAIN got'[s]
             PROVE  \/ HasSent(s, got[s][i])'
                    \/ i = Len(got'[s]) /\ fut'[s] = "found" /\ s \in joining' \cup waiting'
  BY DEF GotSent
<1>1. /\ \A j \in DOMAIN got[s] :
           \/ HasSent(s, got[s][j])
           \/ j = Len(got[s]) /\ fut[s] = "found" /\ s \in joining \cup waiting
      /\ got[s] \in Seq(Nat) /\ DOMAIN fut = Sessions
  BY LiveBefore DEF GotSent, Basis, PartsOK, SP!IInv, SP!TypeOK
<1>2. ASSUME NEW n, HasSent(s, n), got'[s][i] = n PROVE HasSent(s, got[s][i])'
  BY <1>2, SentStays DEF HasSent
<1>3. CASE Answers(s)
  <2>1. fut[s] = "pending" /\ StorageStrand
    BY <1>3 DEF Answers
  <2>2. s \in joining \cup waiting
    BY <1>3 DEF Answers, Asking, Kinds
  <2>3. UNCHANGED <<joining, waiting>>
    BY <2>1 DEF StorageStrand
  <2>4. CASE got'[s] = got[s]
    BY <1>1, <1>2, <2>1, <2>4
  <2>5. ASSUME NEW n \in Nat, fut'[s] = "found", got'[s] = Append(got[s], n)
        PROVE  \/ HasSent(s, got[s][i])'
               \/ i = Len(got'[s]) /\ fut'[s] = "found" /\ s \in joining' \cup waiting'
    <3>1. /\ DOMAIN got'[s] = 1..Len(got[s]) + 1 /\ DOMAIN got[s] = 1..Len(got[s])
          /\ Len(got[s]) \in Nat /\ \A j \in 1..Len(got[s]) : got'[s][j] = got[s][j]
          /\ Len(got'[s]) = Len(got[s]) + 1
      BY <1>1, <2>5, Posted, AppendProperties
    <3>2. CASE i = Len(got[s]) + 1
      BY <2>2, <2>3, <2>5, <3>1, <3>2
    <3>3. CASE i # Len(got[s]) + 1
      <4>1. i \in DOMAIN got[s] /\ got'[s][i] = got[s][i]
        BY <3>1, <3>3
      <4> QED BY <1>1, <1>2, <2>1, <4>1
    <3> QED BY <3>2, <3>3
  <2>6. \A k \in DOMAIN m_map : m_map[k].key_val \in Nat
    BY DEF Basis, PartsOK, SP!IInv, SP!TypeOK, SP!MapValue
  <2> QED BY <1>3, <2>4, <2>5, <2>6 DEF Answers, SP!Given
<1>4. CASE SyncNext(s)
  <2>1. s \notin waiting /\ strand[s] # <<>> /\ OfSync(Head(strand[s]))
    BY <1>4 DEF SyncNext, SentTrue, Handles, Runs, Ready, OfSync
  <2>2. 1 \in DOMAIN strand[s] /\ Head(strand[s]) = strand[s][1]
    BY <2>1, Taken DEF Basis, ShapeOK
  <2>3. s \notin joining
    BY <2>1, <2>2 DEF Fresh, Syncs
  <2>4. got' = got
    BY <1>4, ScanIs DEF SyncNext, SP!PostNext, SP!Ask, SP!Post
  <2> QED BY <1>1, <1>2, <2>1, <2>3, <2>4
<1>5. CASE ~Answers(s) /\ ~SyncNext(s)
  <2>1. got'[s] = got[s] /\ (fut[s] = "found" => fut'[s] = "found")
    BY <1>1, <1>5, ScanSteps DEF AsksFor, Answers
  <2>2. CASE HasSent(s, got[s][i])
    BY <1>2, <2>1, <2>2
  <2>3. CASE i = Len(got[s]) /\ fut[s] = "found" /\ s \in joining \cup waiting
    <3>1. CASE Joined(s) \/ SyncResume(s)
      BY <2>1, <2>3, <3>1, PairSent
    <3>2. CASE ~Joined(s) /\ ~SyncResume(s)
      <4>1. \A t \in Sessions : Joined(t) => t \in joining
        BY DEF Joined
      <4>2. s \in joining' \cup waiting'
        BY <2>3, <3>2, <4>1, JoinSteps DEF ServingOne
      <4> QED BY <2>1, <2>3, <4>2
    <3> QED BY <3>1, <3>2
  <2> QED BY <1>1, <2>1, <2>2, <2>3
<1> QED BY <1>3, <1>4, <1>5

-----------------------------------------------------------------------------
(* The feed begins where the scan does, or before. *)

\* A session's get_first() was answered.
Scanned(s) == fut[s] = "latest" \/ cursor[s].key # 0

\* Whatever was broadcast before the session was listed, or will be, was in the
\* map when its scan began: create() is called before get_first().
FromBase ==
  \A s \in Sessions : Scanned(s) =>
    /\ s \in m_list => base[s] <= from[s]
    /\ \A i \in Pushes(s) :
         /\ Announced <= from[s]
         /\ \A j \in Queued("broadcast") : j < i => mgr_strand[j].n <= from[s]

LEMMA FromInit == Init => FromBase
BY DEF Init, FromBase, Pushes, Queued

\* A scan begins when its get_first() is answered, from where the log is then.
LEMMA ScanBegins ==
  ASSUME Basis, [Next]_vars, NEW s \in Sessions, Scanned(s)'
  PROVE  \/ Scanned(s) /\ from'[s] = from[s] /\ ~Create(s)
         \/ from'[s] = Len(log) /\ UNCHANGED <<managerVars, log>>
<1>1. DOMAIN fut = Sessions
  BY DEF Basis, PartsOK, SP!IInv, SP!TypeOK
<1>2. ~Create(s)
  <2>1. ASSUME Create(s) PROVE FALSE
    <3>1. fut[s] = "sized" /\ UNCHANGED <<fut, cursor>>
      BY <2>1 DEF Create, storageVars
    <3>2. cursor[s].key = 0
      BY <3>1 DEF Basis, PartsOK, SP!IInv, SP!NotBegun
    <3> QED BY <3>1, <3>2 DEF Scanned
  <2> QED BY <2>1
<1>3. CASE Answers(s)
  <2>1. CASE Requested(s, "size") /\ fut'[s] = "sized" /\ UNCHANGED <<cursor, from, got>>
    <3>1. cursor[s].key = 0
      BY <2>1, RequestsBlock DEF Kinds
    <3> QED BY <2>1, <3>1 DEF Scanned
  <2>2. CASE from'[s] = Len(log)
    <3>1. StorageStrand /\ log' = log
      BY <1>3 DEF Answers
    <3>2. ASSUME StoreAndBroadcast PROVE FALSE
      <4>1. Len(log') = Len(log) + 1
        BY <3>2, Publishing DEF Basis
      <4>2. Len(log) \in Nat /\ Len(log') = Len(log)
        BY <3>1, LogTyped DEF Basis
      <4> QED BY <4>1, <4>2
    <3>3. UNCHANGED managerVars
      BY <3>1, <3>2 DEF StorageStrand, OtherRequest
    <3> QED BY <2>2, <3>1, <3>3
  <2>3. CASE cursor[s].key # 0 /\ from' = from
    BY <1>2, <2>3 DEF Scanned
  <2> QED BY <1>3, <2>1, <2>2, <2>3 DEF Answers
<1>4. CASE ~Answers(s)
  BY <1>1, <1>2, <1>4, ScanSteps DEF AsksFor, Answers, Scanned
<1> QED BY <1>3, <1>4

LEMMA FromNext ==
  ASSUME Basis, BroadcastsInOrder, ListedOnce, BaseKnown, FromBase, [Next]_vars
  PROVE  FromBase'
<1> SUFFICES ASSUME NEW s \in Sessions, Scanned(s)'
             PROVE  /\ s \in m_list' => base'[s] <= from'[s]
                    /\ \A i \in Pushes(s)' :
                         /\ Announced' <= from'[s]
                         /\ \A j \in Queued("broadcast")' : j < i => mgr_strand'[j].n <= from'[s]
  BY DEF FromBase
<1> DEFINE B == Queued("broadcast")
           f == from[s]
<1>1. /\ ShapeOK /\ PartsOK /\ Announced \in Nat /\ base[s] \in Nat /\ Len(log) \in Nat
      /\ Announced <= Len(log) /\ f \in Nat /\ mgr_strand \in Seq(Job) /\ m_list \subseteq Sessions
      /\ base \in [Sessions -> Nat]
  BY AnnouncedBounded, LogTyped DEF Basis, ShapeOK, PartsOK, SP!IInv, SP!TypeOK
<1>2. CASE from'[s] = Len(log) /\ UNCHANGED <<managerVars, log>>
  <2>1. UNCHANGED <<Announced, Pushes(s), B, m_list, base, mgr_strand>>
    BY <1>2 DEF managerVars, Announced, Pushes, Queued
  <2>2. \A j \in B : mgr_strand[j].n <= Len(log)
    BY <1>1 DEF BroadcastsInOrder
  <2>3. s \in m_list => base[s] <= Len(log)
    BY <1>1 DEF BaseKnown
  <2> QED BY <1>1, <1>2, <2>1, <2>2, <2>3
<1>3. CASE Scanned(s) /\ from'[s] = f /\ ~Create(s)
  <2>1. /\ s \in m_list => base[s] <= f
        /\ \A i \in Pushes(s) : Announced <= f /\ \A j \in B : j < i => mgr_strand[j].n <= f
    BY <1>3 DEF FromBase
  <2>2. CASE UNCHANGED <<managerVars, log>>
    <3>1. UNCHANGED <<Announced, Pushes(s), B, m_list, base, mgr_strand>>
      BY <2>2 DEF managerVars, Announced, Pushes, Queued
    <3> QED BY <1>3, <2>1, <3>1
  <2>3. ASSUME NEW job \in Job, mgr_strand' = Append(mgr_strand, job),
               UNCHANGED <<m_list, base, Announced>>
        PROVE  /\ s \in m_list' => base'[s] <= from'[s]
               /\ \A i \in Pushes(s)' :
                    /\ Announced' <= from'[s]
                    /\ \A j \in B' : j < i => mgr_strand'[j].n <= from'[s]
    <3> DEFINE n == Len(mgr_strand) + 1
    <3>1. /\ n \in Nat /\ mgr_strand'[n] = job /\ B' \subseteq B \cup {n}
          /\ \A i \in B : i < n /\ mgr_strand'[i] = mgr_strand[i]
      BY <1>1, <2>3, QueuedPosted
    <3>2. \A i \in Queued("push") : i < n /\ i \in Nat
      BY <1>1, QueuedFinite DEF Queued
    <3>3. Pushes(s)' = Pushes(s)
      <4>1. ~Create(s) => Pushes(s)' = Pushes(s) \/ Pushes(s)' = {i \in Nat \ {0} : i + 1 \in Pushes(s)}
        BY PushSteps
      <4>2. ASSUME NEW i \in Pushes(s) PROVE i \in Pushes(s)'
        <5>1. /\ DOMAIN mgr_strand = 1..Len(mgr_strand) /\ DOMAIN mgr_strand' = 1..Len(mgr_strand) + 1
              /\ Len(mgr_strand) \in Nat
              /\ \A j \in 1..Len(mgr_strand) : mgr_strand'[j] = mgr_strand[j]
          BY <1>1, <2>3, Posted
        <5> QED BY <4>2, <5>1 DEF Pushes, Queued
      <4>3. \A i \in Pushes(s) : i \in Queued("push") /\ \A j \in Pushes(s) : i = j
        BY DEF Pushes, ListedOnce
      <4>4. ASSUME Pushes(s)' = {i \in Nat \ {0} : i + 1 \in Pushes(s)} PROVE Pushes(s)' = Pushes(s)
        <5>1. ASSUME NEW i \in Pushes(s)' PROVE FALSE
          <6>1. i \in Nat /\ i + 1 \in Pushes(s)
            BY <4>4, <5>1
          <6>2. i + 1 \in Pushes(s)'
            BY <4>2, <6>1
          <6>3. i + 1 + 1 \in Pushes(s)
            BY <4>4, <6>2
          <6>4. i + 1 = i + 1 + 1
            BY <4>3, <6>1, <6>3
          <6> QED BY <6>1, <6>4
        <5>2. Pushes(s)' = {}
          BY <5>1
        <5> QED BY <4>2, <5>2
      <4> QED BY <1>3, <4>1, <4>4
    <3> HIDE DEF n, B
    <3>4. \A i \in Pushes(s), j \in B' : j < i => j \in B /\ mgr_strand'[j] = mgr_strand[j]
      <4>1. ASSUME NEW i \in Pushes(s), NEW j \in B', j < i PROVE j # n
        <5>1. i < n /\ i \in Nat
          BY <3>2, <4>1 DEF Pushes
        <5> QED BY <3>1, <4>1, <5>1
      <4> QED BY <3>1, <4>1
    <3> QED BY <1>3, <2>1, <2>3, <3>3, <3>4
  <2>4. ASSUME NEW job \in Job, job.op \in {"erase", "reset"}, PostsJob(job)
        PROVE  UNCHANGED <<m_list, base, Announced>> /\ mgr_strand' = Append(mgr_strand, job)
    <3>1. mgr_strand' # Tail(mgr_strand) \/ mgr_strand = <<>>
      <4>1. ASSUME mgr_strand # <<>> PROVE Len(Append(mgr_strand, job)) # Len(Tail(mgr_strand))
        BY <1>1, <4>1, AppendProperties, HeadTailProperties, LenProperties
      <4> QED BY <2>4, <4>1 DEF PostsJob
    <3> QED BY <1>1, <2>4, <3>1, AnnouncedNext DEF PostsJob
  <2>5. ASSUME NEW t \in Sessions, Create(t), PostsJob([op |-> "push", s |-> t])
        PROVE  UNCHANGED <<m_list, base, Announced>> /\ [op |-> "push", s |-> t] \in Job
               /\ mgr_strand' = Append(mgr_strand, [op |-> "push", s |-> t])
    <3> DEFINE job == [op |-> "push", s |-> t]
    <3>1. job \in Job
      BY DEF Job
    <3> HIDE DEF job
    <3>2. mgr_strand' # Tail(mgr_strand) \/ mgr_strand = <<>>
      <4>1. ASSUME mgr_strand # <<>> PROVE Len(Append(mgr_strand, job)) # Len(Tail(mgr_strand))
        BY <1>1, <3>1, <4>1, AppendProperties, HeadTailProperties, LenProperties
      <4> QED BY <2>5, <4>1 DEF PostsJob, job
    <3> QED BY <1>1, <2>5, <3>1, <3>2, AnnouncedNext DEF PostsJob, job
  <2>6. ASSUME StorageStrand, StoreAndBroadcast
        PROVE  UNCHANGED <<m_list, base, Announced>>
               /\ \E job \in Job : mgr_strand' = Append(mgr_strand, job)
    <3>1. /\ UNCHANGED <<m_list, base>> /\ log' # log
          /\ \E job \in Job : mgr_strand' = Append(mgr_strand, job)
      BY <1>1, <2>6, Publishing
    <3> QED BY <1>1, <3>1, AnnouncedNext
  <2>7. ASSUME Manager, mgr_strand # <<>>, mgr_strand' = Tail(mgr_strand), log' = log
        PROVE  /\ s \in m_list' => base'[s] <= from'[s]
               /\ \A i \in Pushes(s)' :
                    /\ Announced' <= from'[s]
                    /\ \A j \in B' : j < i => mgr_strand'[j].n <= from'[s]
    <3>1. /\ Announced' = IF Head(mgr_strand).op = "broadcast" THEN Announced + 1 ELSE Announced
      BY <1>1, <2>7, AnnouncedNext
    <3>2. /\ Head(mgr_strand).op = "broadcast" <=> 1 \in B
          /\ \A j \in B' : j \in Nat \ {0} /\ j + 1 \in B /\ mgr_strand'[j] = mgr_strand[j + 1]
          /\ Head(mgr_strand) = mgr_strand[1]
      BY <1>1, <2>7, QueuedTaken
    <3>3. \A i \in Pushes(s)' : i \in Nat \ {0} /\ i + 1 \in Pushes(s)
      <4>1. /\ \A i \in Queued("push")' : /\ i \in Nat \ {0} /\ i + 1 \in Queued("push")
                                           /\ mgr_strand'[i] = mgr_strand[i + 1]
        BY <1>1, <2>7, QueuedTaken
      <4> QED BY <4>1 DEF Pushes
    <3>4. Head(mgr_strand).op = "broadcast" => mgr_strand[1].n = Announced + 1
      BY <2>7, <3>2, NextAnnounced
    <3> HIDE DEF B
    <3>5. ASSUME NEW i \in Pushes(s)' PROVE Announced' <= f
      <4>1. i + 1 \in Pushes(s) /\ 1 < i + 1 /\ Announced <= f
        BY <2>1, <3>3
      <4>2. Head(mgr_strand).op = "broadcast" => mgr_strand[1].n <= f
        BY <2>1, <3>2, <4>1
      <4> QED BY <3>1, <3>4, <4>1, <4>2
    <3>6. ASSUME NEW i \in Pushes(s)', NEW j \in B', j < i PROVE mgr_strand'[j].n <= f
      <4>1. i + 1 \in Pushes(s) /\ j + 1 \in B /\ j + 1 < i + 1
        BY <3>2, <3>3, <3>6
      <4> QED BY <2>1, <3>2, <4>1
    <3>7. ASSUME s \in m_list' PROVE base'[s] <= f
      <4>1. CASE s \in m_list /\ base'[s] = base[s]
        BY <2>1, <4>1
      <4>2. CASE UNCHANGED <<m_list, base>> \/ (m_list' \subseteq m_list /\ base' = base)
        BY <3>7, <4>1, <4>2
      <4>3. CASE PushBack
        <5>1. /\ Head(mgr_strand).op = "push" /\ m_list' = m_list \cup {Head(mgr_strand).s}
              /\ base' = [base EXCEPT ![Head(mgr_strand).s] = Announced]
          BY <4>3 DEF PushBack, ManagerRuns
        <5>2. CASE Head(mgr_strand).s = s
          <6>1. 1 \in Pushes(s)
            BY <1>1, <2>7, <5>1, <5>2, QueuedTaken DEF Pushes
          <6> QED BY <1>1, <2>1, <5>1, <5>2, <6>1
        <5>3. CASE Head(mgr_strand).s # s
          BY <1>1, <3>7, <4>1, <5>1, <5>3
        <5> QED BY <5>2, <5>3
      <4> QED BY <1>1, <2>7, <4>2, <4>3, ManagerJob
    <3> QED BY <1>3, <3>5, <3>6, <3>7
  <2> HIDE DEF B
  <2> QED BY <1>1, <2>2, <2>3, <2>4, <2>5, <2>6, <2>7, ManagerSteps DEF B
<1> QED BY <1>2, <1>3, ScanBegins

-----------------------------------------------------------------------------
(* Nothing is missed. *)

\* The inductive invariant of a client that joins.
JoinInv ==
  FeedInv /\ ServingOne /\ Asking /\ Fresh /\ GotSent /\ FromBase

LEMMA JoinInvHolds == Spec => []JoinInv
<1>1. Init => JoinInv
  BY BasisInit, OrderInit, ListedInit, FeedInit, ServingInit, FreshInit, GotInit, FromInit
     DEF JoinInv, FeedInv
<1>2. JoinInv /\ [Next]_vars => JoinInv'
  <2> SUFFICES ASSUME JoinInv, [Next]_vars PROVE JoinInv'
    OBVIOUS
  <2>1. FeedInv'
    BY BasisNext, OrderNext, ListedNext, BaseNext, FeedNext DEF JoinInv, FeedInv
  <2>2. Basis /\ BroadcastsInOrder /\ ListedOnce /\ BaseKnown
    BY DEF JoinInv, FeedInv
  <2> QED BY <2>1, <2>2, ServingNext, AskingNext, FreshNext, GotNext, FromNext DEF JoinInv
<1> QED BY <1>1, <1>2, PTL DEF Spec

\* A client that joins misses nothing, whatever is updated between the requests
\* of its scan and wherever on the manager's strand it is listed.
THEOREM NothingIsMissed == Spec => []NothingMissed
<1>1. JoinInv => NothingMissed
  <2> SUFFICES ASSUME JoinInv, NEW s \in Sessions, Up(s), NEW k \in DOMAIN m_map,
                      SyncPassed(s, k)
               PROVE  LET n == m_map[k].key_val
                      IN  \/ log[n].by = s
                          \/ \E i \in DOMAIN Sent(s) : Sent(s)[i].n = n
                          \/ \E i \in Queued("broadcast") : mgr_strand[i].n = n
    BY DEF NothingMissed
  <2> DEFINE n == m_map[k].key_val
  <2>1. /\ Live(s) /\ s \in m_list /\ Basis /\ FeedInv /\ PartsOK /\ ShapeOK
        /\ Announced \in Nat /\ base[s] \in Nat
    BY DEF Up, FeedStatus, Live, JoinInv, FeedInv, Basis, ShapeOK
  <2>2. /\ n \in Nat /\ n \in DOMAIN log /\ log[n].key = k /\ k \in Nat \ {0}
        /\ cursor[s].key \in Nat /\ from[s] \in Nat /\ DOMAIN log = 1..Len(log) /\ Len(log) \in Nat
    <3>1. k \in Keys /\ Keys \subseteq Nat \ {0} /\ m_map[k] \in SP!MapValue
      BY <2>1, ServerAssumption DEF ServerAssumption, PartsOK, SP!IInv, SP!TypeOK
    <3>2. cursor[s] \in SP!Iterator
      BY <2>1 DEF PartsOK, SP!IInv, SP!TypeOK
    <3>3. cursor[s].key \in Keys \cup {0}
      BY <3>2 DEF SP!Iterator
    <3>4. from[s] \in Nat /\ n \in Nat
      BY <2>1, <3>1 DEF PartsOK, SP!IInv, SP!TypeOK, SP!MapValue
    <3>5. n \in DOMAIN log /\ log[n].key = k
      BY <2>1 DEF PartsOK, SP!IInv, SP!ViewsOwned
    <3> QED BY <2>1, <3>1, <3>3, <3>4, <3>5, LogTyped
  <2>3. Scanned(s) /\ SP!Passed(s, k)
    BY <2>2 DEF SyncPassed, Scanned, SP!Passed
  <2>4. HasSent(s, n) => \E i \in DOMAIN Sent(s) : Sent(s)[i].n = n
    <3>1. wire[s] \in Seq(Sendable) /\ writing[s] \in Seq(Sendable) /\ Sends(s) \in Seq(Sendable)
      BY <2>1, StreamsTyped
    <3>2. Sent(s) = (wire[s] \o writing[s]) \o Sends(s)
      BY DEF Sent, Sends, MessageOf
    <3>3. wire[s] \o writing[s] \in Seq(Sendable)
      BY <3>1, FedJoined
    <3>4. HasSent(s, n) => Holds(Sent(s), n)
      <4>1. Holds(wire[s], n) \/ Holds(writing[s], n) => Holds(wire[s] \o writing[s], n)
        BY <3>1, HoldsJoined
      <4> HIDE DEF n
      <4> QED BY <3>1, <3>2, <3>3, <4>1, HoldsJoined DEF HasSent
    <3> QED BY <3>4 DEF Holds
  <2>5. CASE \E i \in DOMAIN got[s] : got[s][i] = n
    <3>1. PICK i \in DOMAIN got[s] : got[s][i] = n
      BY <2>5
    <3>2. ASSUME i = Len(got[s]), fut[s] = "found" PROVE FALSE
      <4>1. cursor[s].key # 0 /\ log[n].key = cursor[s].key
        BY <2>1, <3>1, <3>2 DEF PartsOK, SP!Scanning
      <4> QED BY <2>2, <3>2, <4>1 DEF SyncPassed
    <3> QED BY <2>1, <2>4, <3>1, <3>2 DEF JoinInv, GotSent
  <2>6. CASE n > from[s]
    <3>1. base[s] <= from[s]
      BY <2>1, <2>3 DEF JoinInv, FromBase
    <3>2. CASE n > Announced
      <4>1. n \in Announced + 1 .. Len(log)
        BY <2>1, <2>2, <3>2
      <4> QED BY <2>1, <4>1 DEF FeedInv, BroadcastsInOrder
    <3>3. CASE n <= Announced /\ log[n].by # s
      <4>1. n \in base[s] + 1 .. Announced
        BY <2>1, <2>2, <2>6, <3>1, <3>3
      <4>2. n \in AllFed(s)
        BY <2>1, <3>3, <4>1 DEF FeedInv, FeedKept, Owed
      <4>3. \A q : n \in Fed(q) => Holds(q, n)
        BY DEF Fed, FeedIn, Holds
      <4> QED BY <2>4, <4>2, <4>3 DEF AllFed, HasSent
    <3> QED BY <2>1, <2>2, <3>2, <3>3
  <2>7. (\E i \in DOMAIN got[s] : got[s][i] = n) \/ n > from[s]
    BY <2>1, <2>3 DEF PartsOK, SP!IInv, SP!ScanCovers
  <2> QED BY <2>5, <2>6, <2>7
<1> QED BY <1>1, JoinInvHolds, PTL
=============================================================================
