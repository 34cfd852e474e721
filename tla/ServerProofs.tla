----------------------------- MODULE ServerProofs -----------------------------
(***************************************************************************)
(* Proofs about Server, for any sessions, keys, values, lines, signals,    *)
(* threads and bounds: its steps are steps of the storage and of the       *)
(* acceptor, whose invariants it therefore keeps, and its type invariant.  *)
(***************************************************************************)
EXTENDS Server, SequenceTheorems, FiniteSetTheorems, TLAPS

\* What is proved about the storage and the acceptor, as the server runs them.
SP == INSTANCE StateStorageProofs
        WITH MaxUpdates <- MaxLines + Len(Stored), MaxResets <- MaxSignals
AP == INSTANCE AcceptorProofs
        WITH MaxConns <- Cardinality(Sessions \ Before), MaxErrors <- 0

\* The constants of the server are constants of the storage and the acceptor.
LEMMA StorageConstants == SP!StorageAssumption
BY ServerAssumption, LenProperties DEF ServerAssumption, SP!StorageAssumption

LEMMA AcceptorConstants == AP!AcceptorAssumption
<1>1. IsFiniteSet(Sessions \ Before)
  BY ServerAssumption, FS_Subset DEF ServerAssumption
<1> QED BY <1>1, ServerAssumption, FS_CardinalityType
       DEF ServerAssumption, AP!AcceptorAssumption

-----------------------------------------------------------------------------
(* The steps of the server are steps of the storage ... *)

\* The server's own types: all of TypeOK but what it takes from its parts.
ShapeOK ==
  /\ joining \subseteq Sessions /\ Cardinality(joining) <= 1
  /\ usr2 \in {"no", "stopping", "stopped", "resetting"}
  /\ m_list \subseteq Sessions
  /\ mgr_strand \in Seq(Job)
  /\ strand \in [Sessions -> Seq(Handler)]
  /\ writing \in [Sessions -> Seq(Message)]
  /\ wire \in [Sessions -> Seq(Message)]
  /\ \A set \in {waiting, reading, on_stop, gone, created, released, destroyed} :
       set \subseteq Sessions
  /\ base \in [Sessions -> Nat]
  /\ lines \in 0..MaxLines

\* A handler has the fields its operation needs.
LEMMA HandlerFields ==
  ASSUME NEW h \in Handler
  PROVE  /\ h.op \in {"start", "stop", "readed", "send", "wrote"}
         /\ h.op = "readed" => h.line \in LineRead
         /\ h.op \in {"send", "wrote"} => h.msg \in Message
         /\ h.op = "wrote" => h.ok \in BOOLEAN
BY DEF Handler

LEMMA LineFields ==
  ASSUME NEW line \in LineRead
  PROVE  /\ line.in \in {"ping", "bad", "error", "data"}
         /\ line.in = "data" => line.key \in Keys /\ line.val \in Values
BY DEF LineRead

LEMMA JobFields ==
  ASSUME NEW job \in Job
  PROVE  /\ job.op \in {"push", "erase", "broadcast", "reset"}
         /\ job.op \in {"push", "erase"} => job.s \in Sessions
         /\ job.op = "broadcast" => job.n \in Nat /\ job.holder \in Sessions
BY DEF Job

LEMMA PostUpdateIs ==
  ASSUME NEW s, NEW k, NEW v, Storage!PostUpdate(s, k, v)
  PROVE  SP!PostUpdate(s, k, v)
BY DEF Storage!PostUpdate, Storage!Post, Storage!PendingUpdates,
       SP!PostUpdate, SP!Post, SP!PendingUpdates, Storage!Cardinality, SP!Cardinality

LEMMA ScanIs ==
  ASSUME NEW s
  PROVE  /\ Storage!PostSize(s) => SP!PostSize(s)
         /\ Storage!PostFirst(s) => SP!PostFirst(s)
         /\ Storage!PostNext(s) => SP!PostNext(s)
BY DEF Storage!PostSize, Storage!PostFirst, Storage!PostNext, Storage!Ask, Storage!Post,
       SP!PostSize, SP!PostFirst, SP!PostNext, SP!Ask, SP!Post

LEMMA PostResetIs == Storage!PostReset => SP!PostReset
BY DEF Storage!PostReset, Storage!Post, SP!PostReset, SP!Post

LEMMA StoreIs == 
  /\ Storage!InsertNew => SP!InsertNew
  /\ Storage!ChangeValue => SP!ChangeValue
  /\ Storage!KeepValue => SP!KeepValue
BY DEF Storage!InsertNew, Storage!ChangeValue, Storage!KeepValue, Storage!Runs,
       Storage!Store, Storage!ValueOf, SP!InsertNew, SP!ChangeValue, SP!KeepValue,
       SP!Runs, SP!Store, SP!ValueOf

LEMMA AnswerIs ==
  /\ Storage!SizeImpl => SP!SizeImpl
  /\ Storage!GetFirstImpl => SP!GetFirstImpl
  /\ Storage!GetNextImpl => SP!GetNextImpl
  /\ Storage!GetNextDangling => SP!GetNextDangling
  /\ Storage!ResetImpl => SP!ResetImpl
<1> USE DEF Storage!Runs, Storage!Give, Storage!Latest, Storage!IsFirst, Storage!IsNext,
            Storage!IsLast, SP!Runs, SP!Give, SP!Latest, SP!IsFirst, SP!IsNext, SP!IsLast
<1>1. Storage!SizeImpl => SP!SizeImpl
  BY DEF Storage!SizeImpl, SP!SizeImpl
<1>2. Storage!GetFirstImpl => SP!GetFirstImpl
  BY DEF Storage!GetFirstImpl, SP!GetFirstImpl
<1>3. Storage!GetNextImpl => SP!GetNextImpl
  BY DEF Storage!GetNextImpl, SP!GetNextImpl
<1>4. Storage!GetNextDangling => SP!GetNextDangling
  BY DEF Storage!GetNextDangling, SP!GetNextDangling
<1>5. Storage!ResetImpl => SP!ResetImpl
  BY DEF Storage!ResetImpl, SP!ResetImpl
<1> QED BY <1>1, <1>2, <1>3, <1>4, <1>5

\* What a session's next handler is.
LEMMA HeadOf ==
  ASSUME ShapeOK, NEW s \in Sessions, strand[s] # <<>>
  PROVE  Head(strand[s]) \in Handler
BY HeadTailProperties DEF ShapeOK

\* What each step of the server is for the storage ...
LEMMA StorageSteps ==
  ASSUME ShapeOK, [Next]_vars
  PROVE  \/ UNCHANGED storageVars
         \/ \E s \in Sessions : Accept(s) /\ SP!PostSize(s)
         \/ \E s \in Sessions : StartSync(s) /\ SP!PostFirst(s)
         \/ \E s \in Sessions : SyncNext(s) /\ SP!PostNext(s)
         \/ \E s \in Sessions, k \in Keys, v \in Values : ReadedData(s) /\ SP!PostUpdate(s, k, v)
         \/ ResetState /\ SP!PostReset
         \/ StorageStrand /\ SP!Strand
<1> DEFINE Goal ==
         \/ UNCHANGED storageVars
         \/ \E s \in Sessions : Accept(s) /\ SP!PostSize(s)
         \/ \E s \in Sessions : StartSync(s) /\ SP!PostFirst(s)
         \/ \E s \in Sessions : SyncNext(s) /\ SP!PostNext(s)
         \/ \E s \in Sessions, k \in Keys, v \in Values : ReadedData(s) /\ SP!PostUpdate(s, k, v)
         \/ ResetState /\ SP!PostReset
         \/ StorageStrand /\ SP!Strand
<1>0. UNCHANGED storageVars => Goal
  OBVIOUS
<1> SUFFICES ASSUME Next PROVE Goal
  BY <1>0 DEF vars
<1>1. ASSUME NEW s \in Sessions, Accept(s) \/ StartSync(s) \/ SyncNext(s) PROVE Goal
  BY <1>1, ScanIs DEF Accept, StartSync, SyncNext
<1>2. ASSUME NEW s \in Sessions, ReadedData(s) PROVE Goal
  <2>1. /\ strand[s] # <<>> /\ Head(strand[s]).op = "readed"
        /\ Head(strand[s]).line.in = "data"
        /\ Storage!PostUpdate(s, Head(strand[s]).line.key, Head(strand[s]).line.val)
    BY <1>2 DEF ReadedData, Handles, Runs, Ready
  <2>2. Head(strand[s]).line.key \in Keys /\ Head(strand[s]).line.val \in Values
    BY <2>1, HeadOf, HandlerFields, LineFields
  <2> QED BY <1>2, <2>1, <2>2, PostUpdateIs
<1>3. CASE ResetState
  BY <1>3, PostResetIs DEF ResetState
<1>4. CASE StorageStrand
  BY <1>4, StoreIs, AnswerIs DEF StorageStrand, StoreAndBroadcast, OtherRequest, SP!Strand
<1>5. ASSUME NEW s \in Sessions,
             Create(s) \/ Joined(s) \/ Socket(s) \/ RunDangling(s) \/ Release(s)
      PROVE  UNCHANGED storageVars
  BY <1>5 DEF Create, Joined, Socket, RunDangling, Release, ReadCompletes, ReadFails, WriteCompletes,
              WriteFails, Wrote, Break, OnSocket, OnManager
<1>6. ASSUME NEW s \in Sessions, SessionStrand(s), ~ReadedData(s), ~SyncNext(s)
      PROVE  UNCHANGED storageVars
  BY <1>6 DEF SessionStrand, StartImpl, ReadedPing, ReadedBad, SendImpl, WroteFailed,
              WroteFeed, SyncResume, StopImpl, Privately
<1>7. ASSUME Manager \/ ResetSessions \/ Restart PROVE UNCHANGED storageVars
  BY <1>7 DEF Manager, PushBack, BroadcastImpl, StopAll, Erase, OnManager,
              ResetSessions, Restart
<1>8. ASSUME AcceptorStrand \/ AcceptorGoesOn \/ AcceptorEvent PROVE UNCHANGED storageVars
  BY <1>8 DEF AcceptorStrand, AcceptorGoesOn, AcceptorEvent, SignalArrives, Alone
<1> HIDE DEF Goal
<1> QED BY <1>0, <1>1, <1>2, <1>3, <1>4, <1>5, <1>6, <1>7, <1>8
       DEF Next, Step, SignalHandler

\* ... so that every step is a step of the storage, or leaves it alone.
LEMMA StorageStep == ASSUME ShapeOK, [Next]_vars PROVE [SP!Next]_SP!vars
BY StorageSteps DEF SP!Next, SP!Scan, SP!vars, storageVars

-----------------------------------------------------------------------------
(* ... and steps of the acceptor. *)

LEMMA SignalIs ==
  /\ Acceptor!Interrupt => AP!Interrupt
  /\ Acceptor!AskIsOpen => AP!AskIsOpen
  /\ Acceptor!AskStop => AP!AskStop
  /\ Acceptor!Toggle => AP!Toggle
  /\ Acceptor!Restart => AP!Restart
BY DEF Acceptor!Interrupt, Acceptor!AskIsOpen, Acceptor!AskStop, Acceptor!Toggle,
       Acceptor!Restart, Acceptor!Signal, Acceptor!Enqueue, AP!Interrupt, AP!AskIsOpen,
       AP!AskStop, AP!Toggle, AP!Restart, AP!Signal, AP!Enqueue

LEMMA AcceptIs ==
  /\ Acceptor!Connect => AP!Connect
  /\ (\E r \in Acceptor!Results : Acceptor!Complete(r)) => \E r \in AP!Results : AP!Complete(r)
  /\ Acceptor!OnAccepted => AP!OnAccepted
  /\ Acceptor!OnAcceptFailed => AP!OnAcceptFailed
  /\ Acceptor!CallbackReturns => AP!CallbackReturns
BY DEF Acceptor!Connect, Acceptor!Land, Acceptor!Complete, Acceptor!OnAccepted,
       Acceptor!OnAcceptFailed, Acceptor!CallbackReturns, Acceptor!StartAccept,
       Acceptor!Runs, Acceptor!Results, Acceptor!Enqueue, AP!Connect, AP!Land,
       AP!Complete, AP!OnAccepted, AP!OnAcceptFailed, AP!CallbackReturns,
       AP!StartAccept, AP!Runs, AP!Results, AP!Enqueue

LEMMA ControlIs ==
  /\ Acceptor!StartImpl => AP!StartImpl
  /\ Acceptor!Stop => AP!Stop
  /\ Acceptor!IsOpen => AP!IsOpen
BY DEF Acceptor!StartImpl, Acceptor!Stop, Acceptor!IsOpen, Acceptor!Close,
       Acceptor!StartAccept, Acceptor!Runs, AP!StartImpl, AP!Stop, AP!IsOpen,
       AP!Close, AP!StartAccept, AP!Runs

\* Every step of the server is a step of the acceptor, or leaves it alone.
LEMMA AcceptorStep == ASSUME [Next]_vars PROVE [AP!Next]_AP!vars
<1> DEFINE Goal == [AP!Next]_AP!vars
<1>0. UNCHANGED acceptorVars => Goal
  BY DEF acceptorVars, AP!vars
<1> SUFFICES ASSUME Next PROVE Goal
  BY <1>0 DEF vars
<1>a. sig # "exit"
  BY DEF Next
<1>1. ASSUME NEW s \in Sessions, Accept(s) \/ Joined(s) PROVE Goal
  BY <1>a, <1>1, AcceptIs DEF Accept, Joined, AP!Next, AP!Strand
<1>2. CASE Restart
  BY <1>a, <1>2, SignalIs DEF Restart, AP!Next, AP!SignalHandler
<1>3. CASE AcceptorStrand
  BY <1>a, <1>3, ControlIs, AcceptIs DEF AcceptorStrand, Alone, AP!Next, AP!Strand
<1>4. CASE AcceptorGoesOn \/ AcceptorEvent
  BY <1>a, <1>4, SignalIs, AcceptIs
     DEF AcceptorGoesOn, AcceptorEvent, SignalArrives, Alone, AP!Next, AP!SignalHandler
<1>5. ASSUME NEW s \in Sessions,
             Create(s) \/ StartSync(s) \/ Socket(s) \/ RunDangling(s) \/ Release(s)
      PROVE  UNCHANGED acceptorVars
  BY <1>5 DEF Create, StartSync, Socket, RunDangling, Release, ReadCompletes, ReadFails, WriteCompletes,
              WriteFails, Wrote, Break, OnSocket, OnManager
<1>6. ASSUME NEW s \in Sessions, SessionStrand(s) PROVE UNCHANGED acceptorVars
  BY <1>6 DEF SessionStrand, StartImpl, ReadedData, ReadedPing, ReadedBad, SendImpl,
              WroteFailed, WroteFeed, SyncNext, SyncResume, StopImpl, Handles, SentTrue,
              OnStrand
<1>7. ASSUME Manager \/ StorageStrand \/ ResetSessions \/ ResetState
      PROVE  UNCHANGED acceptorVars
  BY <1>7 DEF Manager, PushBack, BroadcastImpl, StopAll, Erase, OnManager, StorageStrand,
              ResetSessions, ResetState
<1> HIDE DEF Goal
<1> QED BY <1>0, <1>1, <1>2, <1>3, <1>4, <1>5, <1>6, <1>7
       DEF Next, Step, SignalHandler

-----------------------------------------------------------------------------
(* Strands. *)

\* A strand after a handler has been posted.
LEMMA Posted ==
  ASSUME NEW S, NEW q \in Seq(S), NEW h \in S
  PROVE  /\ Append(q, h) \in Seq(S) /\ DOMAIN q = 1..Len(q) /\ Len(q) \in Nat
         /\ DOMAIN Append(q, h) = 1..Len(q) + 1
         /\ Append(q, h)[Len(q) + 1] = h
         /\ \A i \in 1..Len(q) : Append(q, h)[i] = q[i]
<1>1. /\ DOMAIN q = 1..Len(q) /\ Len(q) \in Nat
      /\ Append(q, h) \in Seq(S) /\ Len(Append(q, h)) = Len(q) + 1
      /\ Append(q, h)[Len(q) + 1] = h
      /\ \A i \in 1..Len(q) : Append(q, h)[i] = q[i]
  BY AppendProperties, LenProperties
<1>2. DOMAIN Append(q, h) = 1..Len(Append(q, h))
  BY <1>1, LenProperties
<1> QED BY <1>1, <1>2

\* A strand after its first handler has been taken off to run.
LEMMA Taken ==
  ASSUME NEW S, NEW q \in Seq(S), q # <<>>
  PROVE  /\ Tail(q) \in Seq(S) /\ DOMAIN q = 1..Len(q) /\ Len(q) \in Nat \ {0}
         /\ DOMAIN Tail(q) = 1..Len(q) - 1 /\ Head(q) = q[1] /\ Head(q) \in S
         /\ 1 \in DOMAIN q
         /\ \A i \in 1..Len(q) - 1 : Tail(q)[i] = q[i + 1]
<1>1. /\ DOMAIN q = 1..Len(q) /\ Len(q) \in Nat \ {0} /\ Head(q) = q[1] /\ Head(q) \in S
      /\ Tail(q) \in Seq(S) /\ Len(Tail(q)) = Len(q) - 1
      /\ \A i \in 1..Len(Tail(q)) : Tail(q)[i] = q[i + 1]
  BY HeadTailProperties, LenProperties, EmptySeq
<1>2. DOMAIN Tail(q) = 1..Len(Tail(q))
  BY <1>1, LenProperties
<1> QED BY <1>1, <1>2

\* The handlers of one kind on the manager's strand can be counted ...
LEMMA QueuedFinite ==
  ASSUME mgr_strand \in Seq(Job), NEW op
  PROVE  /\ IsFiniteSet(Queued(op)) /\ Cardinality(Queued(op)) \in Nat
         /\ DOMAIN mgr_strand = 1..Len(mgr_strand) /\ Len(mgr_strand) \in Nat
<1>1. DOMAIN mgr_strand = 1..Len(mgr_strand) /\ Len(mgr_strand) \in Nat
  BY LenProperties
<1>2. IsFiniteSet(1..Len(mgr_strand))
  BY <1>1, FS_Interval
<1>3. Queued(op) \subseteq 1..Len(mgr_strand)
  BY <1>1 DEF Queued
<1> QED BY <1>1, <1>2, <1>3, FS_Subset, FS_CardinalityType

\* ... and counted again when one more is posted, ...
LEMMA QueuedPosted ==
  ASSUME mgr_strand \in Seq(Job), NEW job \in Job, mgr_strand' = Append(mgr_strand, job), NEW op
  PROVE  LET n == Len(mgr_strand) + 1
         IN  /\ n \in Nat /\ n \notin Queued(op) /\ mgr_strand'[n] = job
             /\ Queued(op)' = IF job.op = op THEN Queued(op) \cup {n} ELSE Queued(op)
             /\ Cardinality(Queued(op))' = IF job.op = op THEN Cardinality(Queued(op)) + 1
                                                         ELSE Cardinality(Queued(op))
             /\ \A i \in Queued(op) : i < n /\ mgr_strand'[i] = mgr_strand[i]
<1> DEFINE n == Len(mgr_strand) + 1
<1>1. /\ DOMAIN mgr_strand = 1..Len(mgr_strand) /\ Len(mgr_strand) \in Nat
      /\ DOMAIN mgr_strand' = 1..Len(mgr_strand) + 1 /\ mgr_strand'[n] = job
      /\ \A i \in 1..Len(mgr_strand) : mgr_strand'[i] = mgr_strand[i]
  BY Posted
<1>2. n \in Nat /\ \A i \in Queued(op) : i < n /\ mgr_strand'[i] = mgr_strand[i]
  BY <1>1 DEF Queued
<1>3. Queued(op)' = IF job.op = op THEN Queued(op) \cup {n} ELSE Queued(op)
  BY <1>1 DEF Queued
<1> HIDE DEF n
<1>4. n \notin Queued(op)
  BY <1>2
<1> QED BY <1>1, <1>2, <1>3, <1>4, QueuedFinite, FS_AddElement DEF n

\* ... or the oldest one is taken off.
LEMMA QueuedTaken ==
  ASSUME mgr_strand \in Seq(Job), mgr_strand # <<>>, mgr_strand' = Tail(mgr_strand), NEW op
  PROVE  /\ Head(mgr_strand) = mgr_strand[1] /\ Head(mgr_strand) \in Job
         /\ Head(mgr_strand).op = op <=> 1 \in Queued(op)
         /\ \A i \in Queued(op)' : /\ i \in Nat \ {0} /\ i + 1 \in Queued(op)
                                   /\ mgr_strand'[i] = mgr_strand[i + 1]
         /\ \A i \in Queued(op) : i # 1 => /\ i - 1 \in Queued(op)' /\ i - 1 \in Nat \ {0}
                                          /\ mgr_strand'[i - 1] = mgr_strand[i]
         /\ Cardinality(Queued(op))' = IF Head(mgr_strand).op = op
                                         THEN Cardinality(Queued(op)) - 1
                                         ELSE Cardinality(Queued(op))
<1>1. /\ DOMAIN mgr_strand = 1..Len(mgr_strand) /\ Len(mgr_strand) \in Nat \ {0}
      /\ DOMAIN mgr_strand' = 1..Len(mgr_strand) - 1
      /\ Head(mgr_strand) = mgr_strand[1] /\ Head(mgr_strand) \in Job
      /\ \A i \in 1..Len(mgr_strand) - 1 : mgr_strand'[i] = mgr_strand[i + 1]
  BY Taken
<1>2. Head(mgr_strand).op = op <=> 1 \in Queued(op)
  BY <1>1 DEF Queued
<1>3. \A i \in Queued(op)' : /\ i \in Nat \ {0} /\ i + 1 \in Queued(op)
                            /\ mgr_strand'[i] = mgr_strand[i + 1]
  BY <1>1 DEF Queued
<1>4. \A i \in Queued(op) : i # 1 => /\ i - 1 \in Queued(op)' /\ i - 1 \in Nat \ {0}
                                   /\ mgr_strand'[i - 1] = mgr_strand[i]
  BY <1>1 DEF Queued
<1>5. Cardinality(Queued(op))' = Cardinality(Queued(op) \ {1})
  <2> DEFINE S == Queued(op) \ {1}
             T == Queued(op)'
             f == [i \in S |-> i - 1]
  <2>1. S \subseteq Nat \ {0, 1}
    BY <1>1 DEF Queued
  <2>2. f \in [S -> T] /\ \A i, j \in S : f[i] = f[j] => i = j
    BY <1>4, <2>1
  <2>3. \A j \in T : \E i \in S : f[i] = j
    <3>1. ASSUME NEW j \in T PROVE j + 1 \in S /\ f[j + 1] = j
      <4>1. j + 1 \in S /\ j \in Nat
        BY <1>3
      <4> QED BY <4>1
    <3> QED BY <3>1
  <2>4. ExistsBijection(S, T)
    BY <2>2, <2>3 DEF ExistsBijection, Bijection, Injection, Surjection, IsInjective
  <2>5. IsFiniteSet(S)
    BY QueuedFinite, FS_RemoveElement
  <2> QED BY <2>4, <2>5, FS_Bijection
<1> QED BY <1>1, <1>2, <1>3, <1>4, <1>5, QueuedFinite, FS_RemoveElement

-----------------------------------------------------------------------------
(* The invariants of the storage and the acceptor. *)

PartsOK == SP!IInv /\ SP!Scanning /\ AP!IInv

\* They hold where a behaviour begins, with the pairs of Stored in the map.
LEMMA StorageBegins == InitStorage => SP!IInv /\ SP!Scanning
<1> SUFFICES ASSUME InitStorage PROVE SP!IInv /\ SP!Scanning
  OBVIOUS
<1> DEFINE K == {Stored[i].key : i \in DOMAIN Stored}
           At(k) == CHOOSE i \in DOMAIN Stored : Stored[i].key = k
<1>1. /\ Stored \in Seq(SP!Line) /\ Keys \subseteq Nat \ {0}
      /\ \A i, j \in DOMAIN Stored : Stored[i].key = Stored[j].key => i = j
  BY ServerAssumption DEF ServerAssumption, SP!Line
<1>2. DOMAIN Stored = 1..Len(Stored) /\ Len(Stored) \in Nat
      /\ \A i \in DOMAIN Stored : Stored[i] \in SP!Line
  BY <1>1, LenProperties, ElementOfSeq
<1>3. /\ \A i \in DOMAIN Stored : Stored[i].key \in Keys /\ Stored[i].by \in Sessions
      /\ Before \subseteq Sessions
  BY <1>2 DEF SP!Line, Before
<1>4. \A k \in K : At(k) \in DOMAIN Stored /\ Stored[At(k)].key = k
  OBVIOUS
<1>5. /\ m_map = [k \in K |-> [key |-> At(k), val |-> At(k), key_val |-> At(k)]]
      /\ log = Stored /\ m_strand = <<>> /\ m_gen = 0 /\ resetting = FALSE
      /\ fut = [s \in Sessions |-> IF s \in Before THEN "latest" ELSE "none"]
      /\ cursor = [s \in Sessions |-> [key |-> 0, gen |-> 0]]
      /\ from = [s \in Sessions |-> 0] /\ got = [s \in Sessions |-> <<>>]
  BY DEF InitStorage
<1> HIDE DEF At
<1>6. K \subseteq Keys
  BY <1>3
<1> HIDE DEF K
<1>7. /\ DOMAIN m_map = K
      /\ \A k \in K : /\ m_map[k] = [key |-> At(k), val |-> At(k), key_val |-> At(k)]
                     /\ At(k) \in 1..Len(Stored) /\ Stored[At(k)].key = k
  BY <1>2, <1>4, <1>5
<1>8. SP!TypeOK
  <2>1. m_map \in [K -> SP!MapValue]
    BY <1>2, <1>4, <1>5 DEF SP!MapValue
  <2>2. m_strand \in Seq(SP!Request) /\ got \in [Sessions -> Seq(Nat)]
    BY <1>5
  <2>3. cursor \in [Sessions -> SP!Iterator]
    BY <1>5 DEF SP!Iterator
  <2>4. log \in Seq(SP!Line) /\ \A k \in DOMAIN m_map : m_map[k].val \in 1..Len(log)
    BY <1>1, <1>5, <1>7
  <2>5. resetting \in BOOLEAN /\ m_gen \in Nat
    BY <1>5
  <2>6. /\ fut \in [Sessions -> {"none", "pending", "sized", "found", "latest", "undefined"}]
        /\ from \in [Sessions -> Nat]
    BY <1>5
  <2> QED BY <1>6, <1>7, <2>1, <2>2, <2>3, <2>4, <2>5, <2>6 DEF SP!TypeOK
<1>9. SP!ViewsOwned /\ SP!LatestWins
  <2>1. SP!ViewsOwned
    BY <1>2, <1>5, <1>7 DEF SP!ViewsOwned
  <2>2. SP!LatestWins
    <3>1. ASSUME NEW k \in DOMAIN m_map, NEW i \in DOMAIN log,
                 i > m_map[k].key_val, log[i].key = k
          PROVE  FALSE
      <4>1. i = At(k) /\ m_map[k].key_val = At(k) /\ At(k) \in Nat
        BY <1>1, <1>2, <1>5, <1>7, <3>1
      <4> QED BY <3>1, <4>1
    <3> QED BY <3>1 DEF SP!LatestWins
  <2> QED BY <2>1, <2>2
<1>10. SP!OneRequest /\ SP!NotBegun /\ SP!FromLogged
  <2>1. DOMAIN m_strand = {}
    BY <1>5
  <2>2. \A s \in Sessions : cursor[s].key = 0 /\ from[s] = 0 /\ 0 <= Len(log)
    BY <1>2, <1>5
  <2> QED BY <2>1, <2>2 DEF SP!OneRequest, SP!NotBegun, SP!FromLogged
<1>11. SP!ScanCovers
  BY <1>5, <1>7 DEF SP!ScanCovers
<1>12. SP!Scanning
  <2>1. DOMAIN m_strand = {} /\ \A s \in Sessions : cursor[s].key = 0 /\ fut[s] # "found"
    BY <1>5
  <2> QED BY <2>1 DEF SP!Scanning
<1> QED BY <1>8, <1>9, <1>10, <1>11, <1>12 DEF SP!IInv

LEMMA AcceptorBegins == Acceptor!Init => AP!IInv
<1>1. Acceptor!Init => AP!Init
  BY DEF Acceptor!Init, Acceptor!Results, AP!Init, AP!Results
<1> QED BY <1>1, AcceptorConstants, AP!InvInit

LEMMA PartsNext == ASSUME ShapeOK, PartsOK, [Next]_vars PROVE PartsOK'
<1>1. [SP!Next]_SP!vars /\ [AP!Next]_AP!vars
  BY StorageStep, AcceptorStep
<1>2. SP!IInv'
  BY <1>1, StorageConstants, SP!InvNext DEF PartsOK
<1>3. SP!Scanning'
  <2>1. SP!TypeOK /\ SP!ViewsOwned /\ SP!OneRequest
    BY DEF PartsOK, SP!IInv
  <2> QED BY <1>1, <2>1, StorageConstants, SP!ScanningNext DEF PartsOK
<1>4. AP!IInv'
  <2>1. CASE AP!Next
    BY <2>1, AcceptorConstants, AP!InvNext DEF PartsOK
  <2>2. CASE UNCHANGED AP!vars
    BY <2>2 DEF PartsOK, AP!vars, AP!IInv, AP!TypeOK, AP!StartsClosed, AP!WaitsForLast, AP!AnswerHolds
  <2> QED BY <1>1, <2>1, <2>2
<1> QED BY <1>2, <1>3, <1>4 DEF PartsOK

-----------------------------------------------------------------------------
(* The server's own types. *)

\* A pair of the sync is sent only when there is one.
LEMMA SyncPairTyped ==
  ASSUME PartsOK, NEW s \in Sessions, fut[s] = "found"
  PROVE  /\ SyncPair(s) \in Message /\ SyncPair(s).cb = "sync"
         /\ got[s] # <<>> /\ SyncPair(s).n = got[s][Len(got[s])]
<1>1. got[s] \in Seq(Nat) /\ got[s] # <<>>
  BY DEF PartsOK, SP!IInv, SP!TypeOK, SP!Scanning
<1>2. got[s][Len(got[s])] \in Nat
  BY <1>1, EmptySeq, ElementOfSeq
<1> QED BY <1>1, <1>2 DEF SyncPair, Message

\* Posting on a session's strand, running its next handler.
LEMMA PostTyped ==
  ASSUME ShapeOK, NEW s \in Sessions, NEW h \in Handler, Post(s, h)
  PROVE  strand' \in [Sessions -> Seq(Handler)]
BY Posted DEF ShapeOK, Post

LEMMA RunsTyped ==
  ASSUME ShapeOK, NEW s \in Sessions, strand[s] # <<>>,
         strand' = [strand EXCEPT ![s] = Tail(@)]
  PROVE  /\ strand' \in [Sessions -> Seq(Handler)] /\ Head(strand[s]) \in Handler
BY Taken DEF ShapeOK

LEMMA PostAllTyped ==
  ASSUME ShapeOK, NEW h \in Handler, NEW except, PostAll(h, except)
  PROVE  strand' \in [Sessions -> Seq(Handler)]
BY Posted DEF ShapeOK, PostAll

LEMMA StrandTyped == ASSUME ShapeOK, PartsOK, Next PROVE strand' \in [Sessions -> Seq(Handler)]
<1> DEFINE Goal == strand' \in [Sessions -> Seq(Handler)]
<1>0. UNCHANGED strand => Goal
  BY DEF ShapeOK
<1> SUFFICES Goal
  OBVIOUS
<1> HIDE DEF Goal
<1>p. ASSUME NEW s \in Sessions, NEW h \in Handler, Post(s, h) PROVE Goal
  BY <1>p, PostTyped DEF Goal
<1>r. ASSUME NEW s \in Sessions, strand[s] # <<>>, strand' = [strand EXCEPT ![s] = Tail(@)]
      PROVE  Goal
  BY <1>r, RunsTyped DEF Goal
<1>1. ASSUME NEW s \in Sessions, Create(s) \/ StopImpl(s) \/ Release(s) PROVE Goal
  BY <1>1, <1>p, <1>r DEF Create, StopImpl, Handles, Runs, Ready, Release, Handler
<1>2. ASSUME NEW s \in Sessions, Joined(s) \/ SyncResume(s) PROVE Goal
  <2>1. ASSUME fut[s] = "found" PROVE [op |-> "send", msg |-> SyncPair(s)] \in Handler
    BY <2>1, SyncPairTyped DEF Handler
  <2> QED BY <1>0, <1>2, <1>p, <2>1 DEF Joined, SyncResume
<1>3. ASSUME NEW s \in Sessions, Socket(s) PROVE Goal
  <2>1. CASE \E line \in Lines : ReadCompletes(s, line)
    <3>1. PICK line \in Lines : ReadCompletes(s, line)
      BY <2>1
    <3>2. [op |-> "readed", line |-> line] \in Handler
      BY ServerAssumption DEF ServerAssumption, Handler
    <3> QED BY <1>p, <3>1, <3>2 DEF ReadCompletes
  <2>2. CASE ReadFails(s)
    <3>1. [op |-> "readed", line |-> [in |-> "error"]] \in Handler
      BY DEF Handler, LineRead
    <3> QED BY <1>p, <2>2, <3>1 DEF ReadFails
  <2>3. ASSUME NEW ok \in BOOLEAN, Wrote(s, ok) PROVE Goal
    <3>1. Head(writing[s]) \in Message
      BY <2>3, HeadTailProperties DEF Wrote, ShapeOK
    <3>2. [op |-> "wrote", msg |-> Head(writing[s]), ok |-> ok] \in Handler
      BY <3>1 DEF Handler
    <3> QED BY <1>p, <2>3, <3>2 DEF Wrote
  <2>4. CASE Break(s)
    BY <1>0, <2>4 DEF Break
  <2> QED BY <1>3, <2>1, <2>2, <2>3, <2>4 DEF Socket, WriteCompletes, WriteFails
<1>4. ASSUME NEW s \in Sessions, ReadedPing(s) PROVE Goal
  <2> DEFINE pong == [op |-> "send", msg |-> [n |-> 0, cb |-> "ping", holder |-> s]]
  <2>1. pong \in Handler
    BY DEF Handler, Message
  <2>2. strand[s] \in Seq(Handler) /\ strand[s] # <<>>
    BY <1>4 DEF ReadedPing, Ready, ShapeOK
  <2>3. Append(Tail(strand[s]), pong) \in Seq(Handler)
    BY <2>1, <2>2, Taken, Posted
  <2> QED BY <1>4, <2>3 DEF ReadedPing, ShapeOK, Goal
<1>5. ASSUME NEW s \in Sessions, SessionStrand(s) \/ RunDangling(s) PROVE Goal
  BY <1>1, <1>2, <1>4, <1>5, <1>r
     DEF SessionStrand, RunDangling, StartImpl, ReadedData, ReadedBad, SendImpl, WroteFailed,
         WroteFeed, SyncNext, SentTrue, Handles, Runs, Ready
<1>6. CASE Manager
  <2>1. CASE BroadcastImpl
    <3> DEFINE m == [n |-> Head(mgr_strand).n, cb |-> "feed", holder |-> Head(mgr_strand).holder]
    <3>1. Head(mgr_strand) \in Job /\ Head(mgr_strand).op = "broadcast"
      BY <2>1, Taken DEF BroadcastImpl, ManagerRuns, ShapeOK
    <3>2. m \in Message
      BY <3>1, JobFields DEF Message
    <3>3. [op |-> "send", msg |-> m] \in Handler
      BY <3>2 DEF Handler
    <3> QED BY <2>1, <3>3, PostAllTyped DEF BroadcastImpl, Goal
  <2>2. CASE StopAll
    <3>1. [op |-> "stop"] \in Handler
      BY DEF Handler
    <3> QED BY <2>2, <3>1, PostAllTyped DEF StopAll, Goal
  <2>3. ASSUME PushBack \/ Erase PROVE UNCHANGED strand
    BY <2>3 DEF PushBack, Erase
  <2> QED BY <1>0, <1>6, <2>1, <2>2, <2>3 DEF Manager
<1>7. ASSUME NEW s \in Sessions, Accept(s) \/ StartSync(s) PROVE Goal
  BY <1>0, <1>7 DEF Accept, StartSync
<1>8. ASSUME StorageStrand \/ SignalHandler PROVE UNCHANGED strand
  BY <1>8 DEF StorageStrand, SignalHandler, ResetSessions, ResetState, Restart, OnSignal
<1>9. ASSUME AcceptorStrand \/ AcceptorGoesOn \/ AcceptorEvent PROVE UNCHANGED strand
  BY <1>9 DEF AcceptorStrand, AcceptorGoesOn, AcceptorEvent, SignalArrives, Alone, OnSignal
<1> QED BY <1>0, <1>1, <1>2, <1>3, <1>5, <1>6, <1>7, <1>8, <1>9 DEF Next, Step

\* The history is a sequence of lines, and what is broadcast are some of them.
LEMMA LogTyped ==
  ASSUME PartsOK
  PROVE  /\ log \in Seq(SP!Line) /\ Len(log) \in Nat /\ DOMAIN log = 1..Len(log)
         /\ \A n \in DOMAIN log : log[n].by \in Sessions
<1>1. log \in Seq(SP!Line)
  BY DEF PartsOK, SP!IInv, SP!TypeOK
<1>2. Len(log) \in Nat /\ DOMAIN log = 1..Len(log)
  BY <1>1, LenProperties
<1>3. \A n \in DOMAIN log : log[n] \in SP!Line
  BY <1>1, <1>2, ElementOfSeq
<1> QED BY <1>1, <1>2, <1>3 DEF SP!Line

\* An update that changes the map is the newest in the history, and its author
\* is the session its broadcast will skip.
LEMMA Publishing ==
  ASSUME ShapeOK, PartsOK, StoreAndBroadcast
  PROVE  LET n == Len(log) + 1
             job == [op |-> "broadcast", n |-> n, holder |-> log'[n].by]
         IN  /\ job \in Job /\ mgr_strand' = Append(mgr_strand, job)
             /\ UNCHANGED <<m_list, base>> /\ Len(log') = n /\ n \in Nat \ {0}
             /\ DOMAIN log' = 1..n /\ log' \in Seq(SP!Line)
             /\ log'[n].by \in Sessions
             /\ \A i \in 1..Len(log) : log'[i] = log[i]
<1> DEFINE r == Head(m_strand)
<1>1. SP!InsertNew \/ SP!ChangeValue
  BY StoreIs DEF StoreAndBroadcast
<1>2. SP!TypeOK
  BY DEF PartsOK, SP!IInv
<1>3. r \in SP!Request /\ r.op = "update" /\ SP!Store(r)
  BY <1>1, <1>2, StorageConstants, SP!RunLeaves DEF SP!InsertNew, SP!ChangeValue, SP!TypeOK
<1>4. r.by \in Sessions
  BY <1>3, StorageConstants, SP!RequestFields
<1>5. /\ Len(log) \in Nat /\ Len(log') = Len(log) + 1 /\ DOMAIN log' = 1..Len(log) + 1
      /\ \A i \in 1..Len(log) : log'[i] = log[i]
      /\ log'[Len(log) + 1] = [by |-> r.by, key |-> r.key, val |-> r.val]
      /\ log' \in Seq(SP!Line)
  BY <1>2, <1>3, StorageConstants, SP!StoreLeaves
<1>6. /\ mgr_strand' = Append(mgr_strand, [op |-> "broadcast", n |-> Len(log'), holder |-> r.by])
      /\ UNCHANGED <<m_list, base>>
  BY DEF StoreAndBroadcast, PostManager
<1>7. [op |-> "broadcast", n |-> Len(log'), holder |-> r.by] \in Job
  BY <1>4, <1>5 DEF Job
<1> QED BY <1>4, <1>5, <1>6, <1>7

\* Nothing else adds to the history.
LEMMA LogSteps ==
  ASSUME [Next]_vars, ~(StorageStrand /\ StoreAndBroadcast)
  PROVE  log' = log
<1>0. UNCHANGED vars => log' = log
  BY DEF vars, storageVars
<1> SUFFICES ASSUME Next PROVE log' = log
  BY <1>0
<1>1. ASSUME NEW s \in Sessions, Accept(s) \/ Create(s) \/ StartSync(s) \/ Joined(s)
      PROVE  log' = log
  BY <1>1 DEF Accept, Create, StartSync, Joined, Storage!PostSize, Storage!PostFirst, Storage!Ask,
              Storage!Post, storageVars
<1>2. ASSUME NEW s \in Sessions, Socket(s) \/ RunDangling(s) \/ Release(s) PROVE log' = log
  BY <1>2 DEF Socket, RunDangling, Release, ReadCompletes, ReadFails, WriteCompletes,
              WriteFails, Wrote, Break, OnSocket, OnManager, storageVars
<1>3. ASSUME NEW s \in Sessions, SessionStrand(s) PROVE log' = log
  BY <1>3 DEF SessionStrand, StartImpl, ReadedData, ReadedPing, ReadedBad, SendImpl,
              WroteFailed, WroteFeed, SyncNext, SyncResume, StopImpl, Privately,
              Storage!PostUpdate, Storage!PostNext, Storage!Ask, Storage!Post, storageVars
<1>4. ASSUME Manager \/ SignalHandler PROVE log' = log
  BY <1>4 DEF Manager, PushBack, BroadcastImpl, StopAll, Erase, OnManager, SignalHandler,
              ResetSessions, ResetState, Restart, Storage!PostReset, Storage!Post, storageVars
<1>5. ASSUME StorageStrand PROVE log' = log
  BY <1>5 DEF StorageStrand, OtherRequest, Storage!KeepValue, Storage!SizeImpl,
              Storage!GetFirstImpl, Storage!GetNextImpl, Storage!GetNextDangling,
              Storage!ResetImpl
<1>6. ASSUME AcceptorStrand \/ AcceptorGoesOn \/ AcceptorEvent PROVE log' = log
  BY <1>6 DEF AcceptorStrand, AcceptorGoesOn, AcceptorEvent, SignalArrives, Alone, storageVars
<1> QED BY <1>1, <1>2, <1>3, <1>4, <1>5, <1>6 DEF Next, Step

\* What a step does to the manager's strand: it leaves it, posts on it or runs it.
PostsJob(job) == mgr_strand' = Append(mgr_strand, job) /\ UNCHANGED <<m_list, base, log>>

LEMMA ManagerSteps ==
  ASSUME ShapeOK, [Next]_vars
  PROVE  \/ UNCHANGED <<managerVars, log>>
         \/ \E job \in Job : job.op \in {"erase", "reset"} /\ PostsJob(job)
         \/ \E s \in Sessions : Create(s) /\ PostsJob([op |-> "push", s |-> s])
         \/ StorageStrand /\ StoreAndBroadcast
         \/ Manager /\ mgr_strand # <<>> /\ mgr_strand' = Tail(mgr_strand) /\ log' = log
<1> DEFINE Goal == \/ UNCHANGED <<managerVars, log>>
                   \/ \E job \in Job : job.op \in {"erase", "reset"} /\ PostsJob(job)
                   \/ \E s \in Sessions : Create(s) /\ PostsJob([op |-> "push", s |-> s])
                   \/ Manager /\ mgr_strand # <<>> /\ mgr_strand' = Tail(mgr_strand) /\ log' = log
<1> SUFFICES ASSUME ~(StorageStrand /\ StoreAndBroadcast) PROVE Goal
  OBVIOUS
<1>0. log' = log
  BY LogSteps
<1>1. UNCHANGED managerVars => Goal
  BY <1>0 DEF managerVars
<1>2. ASSUME NEW job \in Job, job.op \in {"erase", "reset"}, PostManager(job) PROVE Goal
  BY <1>0, <1>2 DEF PostManager, PostsJob
<1>3. ASSUME NEW s \in Sessions, Create(s) PROVE Goal
  BY <1>0, <1>3 DEF Create, PostManager, PostsJob
<1>4. CASE Manager
  BY <1>0, <1>4 DEF Manager, PushBack, BroadcastImpl, StopAll, Erase, ManagerRuns
<1> HIDE DEF Goal
<1>5. ASSUME NEW s \in Sessions, Release(s) PROVE Goal
  BY <1>2, <1>5 DEF Release, Job
<1>6. CASE ResetSessions
  BY <1>2, <1>6 DEF ResetSessions, Job
<1>7. ASSUME NEW s \in Sessions,
             \/ Accept(s) \/ StartSync(s) \/ Joined(s) \/ Socket(s)
             \/ SessionStrand(s) \/ RunDangling(s)
      PROVE  UNCHANGED managerVars
  BY <1>7 DEF Accept, StartSync, Joined, Socket, RunDangling, ReadCompletes, ReadFails, WriteCompletes,
              WriteFails, Wrote, Break, OnSocket, SessionStrand, StartImpl, ReadedData,
              ReadedPing, ReadedBad, SendImpl, WroteFailed, WroteFeed, SyncNext, SyncResume,
              StopImpl, Handles, SentTrue, OnStrand
<1>8. ASSUME StorageStrand \/ ResetState \/ Restart PROVE UNCHANGED managerVars
  BY <1>8 DEF StorageStrand, OtherRequest, ResetState, Restart
<1>9. ASSUME AcceptorStrand \/ AcceptorGoesOn \/ AcceptorEvent PROVE UNCHANGED managerVars
  BY <1>9 DEF AcceptorStrand, AcceptorGoesOn, AcceptorEvent, SignalArrives, Alone
<1>10. CASE UNCHANGED vars
  BY <1>1, <1>10 DEF vars
<1> QED BY <1>1, <1>3, <1>4, <1>5, <1>6, <1>7, <1>8, <1>9, <1>10 DEF Next, Step, SignalHandler

\* The number of updates that have been broadcast grows with every broadcast,
\* and with nothing else.
LEMMA AnnouncedNext ==
  ASSUME ShapeOK, PartsOK, [Next]_vars
  PROVE  LET first == Head(mgr_strand)
             runs == Manager /\ mgr_strand # <<>> /\ mgr_strand' = Tail(mgr_strand) /\ log' = log
         IN  \/ ~runs /\ Announced' = Announced
             \/ runs /\ Announced' = IF first.op = "broadcast" THEN Announced + 1 ELSE Announced
<1> DEFINE runs == Manager /\ mgr_strand # <<>> /\ mgr_strand' = Tail(mgr_strand) /\ log' = log
<1>1. /\ mgr_strand \in Seq(Job) /\ Len(log) \in Nat /\ Cardinality(Queued("broadcast")) \in Nat
      /\ Announced = Len(log) - Cardinality(Queued("broadcast"))
      /\ Announced' = Len(log') - Cardinality(Queued("broadcast"))'
  BY LogTyped, QueuedFinite DEF ShapeOK, Announced
<1>2. ASSUME runs
      PROVE  Announced' = IF Head(mgr_strand).op = "broadcast" THEN Announced + 1 ELSE Announced
  <2>1. Cardinality(Queued("broadcast"))' = IF Head(mgr_strand).op = "broadcast"
                                             THEN Cardinality(Queued("broadcast")) - 1
                                             ELSE Cardinality(Queued("broadcast"))
    BY <1>1, <1>2, QueuedTaken
  <2> QED BY <1>1, <1>2, <2>1
<1> HIDE DEF runs
<1>3. ASSUME UNCHANGED <<managerVars, log>> PROVE Announced' = Announced
  BY <1>3 DEF Announced, managerVars, Queued
<1>4. ASSUME NEW job \in Job, job.op # "broadcast", PostsJob(job) PROVE Announced' = Announced
  <2>1. Cardinality(Queued("broadcast"))' = Cardinality(Queued("broadcast")) /\ log' = log
    BY <1>1, <1>4, QueuedPosted DEF PostsJob
  <2> QED BY <1>1, <2>1
<1>5. ASSUME NEW s \in Sessions PROVE [op |-> "push", s |-> s] \in Job
  BY DEF Job
<1>6. ASSUME StoreAndBroadcast PROVE Announced' = Announced
  <2> DEFINE job == [op |-> "broadcast", n |-> Len(log) + 1, holder |-> log'[Len(log) + 1].by]
  <2>1. job \in Job /\ mgr_strand' = Append(mgr_strand, job) /\ Len(log') = Len(log) + 1
    BY <1>6, Publishing
  <2>2. Cardinality(Queued("broadcast"))' = Cardinality(Queued("broadcast")) + 1
    BY <1>1, <2>1, QueuedPosted
  <2> QED BY <1>1, <2>1, <2>2
<1> SUFFICES \/ ~runs /\ Announced' = Announced
             \/ runs /\ Announced' = IF Head(mgr_strand).op = "broadcast" THEN Announced + 1 ELSE Announced
  BY DEF runs
<1>7. ASSUME ~runs PROVE Announced' = Announced
  BY <1>3, <1>4, <1>5, <1>6, <1>7, ManagerSteps DEF runs
<1> QED BY <1>2, <1>7

\* The manager's list, its strand and the history of its broadcasts stay typed.
LEMMA ManagerTyped ==
  ASSUME ShapeOK, PartsOK, Announced \in Nat, [Next]_vars
  PROVE  /\ m_list' \subseteq Sessions /\ mgr_strand' \in Seq(Job)
         /\ base' \in [Sessions -> Nat]
<1>1. m_list \subseteq Sessions /\ mgr_strand \in Seq(Job) /\ base \in [Sessions -> Nat]
  BY DEF ShapeOK
<1>2. ASSUME NEW job \in Job, mgr_strand' = Append(mgr_strand, job) PROVE mgr_strand' \in Seq(Job)
  BY <1>1, <1>2, Posted
<1>3. ASSUME NEW s \in Sessions PROVE [op |-> "push", s |-> s] \in Job
  BY DEF Job
<1>4. CASE StoreAndBroadcast
  BY <1>1, <1>2, <1>4, Publishing
<1>5. CASE Manager /\ mgr_strand # <<>> /\ mgr_strand' = Tail(mgr_strand)
  <2>1. mgr_strand' \in Seq(Job) /\ Head(mgr_strand) \in Job
    BY <1>1, <1>5, Taken
  <2>2. CASE PushBack
    <3>1. Head(mgr_strand).s \in Sessions
      BY <2>1, <2>2, JobFields DEF PushBack, ManagerRuns
    <3> QED BY <1>1, <2>1, <2>2, <3>1 DEF PushBack
  <2> QED BY <1>1, <1>5, <2>1, <2>2 DEF Manager, BroadcastImpl, StopAll, Erase
<1> QED BY <1>1, <1>2, <1>3, <1>4, <1>5, ManagerSteps DEF PostsJob, managerVars

\* The socket's queues stay typed.
LEMMA SocketTyped ==
  ASSUME ShapeOK, PartsOK, Next
  PROVE  /\ writing' \in [Sessions -> Seq(Message)] /\ wire' \in [Sessions -> Seq(Message)]
<1> DEFINE Goal == /\ writing' \in [Sessions -> Seq(Message)]
                   /\ wire' \in [Sessions -> Seq(Message)]
<1>0. writing \in [Sessions -> Seq(Message)] /\ wire \in [Sessions -> Seq(Message)]
  BY DEF ShapeOK
<1>1. ASSUME NEW s \in Sessions, NEW ok, Wrote(s, ok)
      PROVE  Head(writing[s]) \in Message /\ writing' \in [Sessions -> Seq(Message)]
  BY <1>0, <1>1, Taken DEF Wrote
<1>2. ASSUME NEW s \in Sessions, Socket(s) PROVE Goal
  <2>1. CASE WriteCompletes(s)
    <3>1. Append(wire[s], Head(writing[s])) \in Seq(Message)
      BY <1>0, <1>1, <2>1, Posted DEF WriteCompletes
    <3> QED BY <1>0, <1>1, <2>1, <3>1 DEF WriteCompletes
  <2>2. CASE WriteFails(s)
    BY <1>0, <1>1, <2>2 DEF WriteFails
  <2> QED BY <1>0, <1>2, <2>1, <2>2 DEF Socket, ReadCompletes, ReadFails, Break
<1>3. ASSUME NEW s \in Sessions, SendImpl(s) PROVE Goal
  <2>1. Head(strand[s]) \in Handler /\ Head(strand[s]).op = "send"
    BY <1>3, HeadOf DEF SendImpl, Handles, Runs, Ready
  <2>2. Append(writing[s], Head(strand[s]).msg) \in Seq(Message)
    BY <1>0, <2>1, HandlerFields, Posted
  <2> QED BY <1>0, <1>3, <2>2 DEF SendImpl
<1>4. ASSUME UNCHANGED <<writing, wire>> PROVE Goal
  BY <1>0, <1>4
<1> SUFFICES Goal
  OBVIOUS
<1> HIDE DEF Goal
<1>5. ASSUME NEW s \in Sessions, SessionStrand(s), ~SendImpl(s) PROVE UNCHANGED <<writing, wire>>
  BY <1>5 DEF SessionStrand, StartImpl, ReadedData, ReadedPing, ReadedBad, WroteFailed,
              WroteFeed, SyncNext, SyncResume, StopImpl, socketVars
<1>6. ASSUME NEW s \in Sessions,
             Accept(s) \/ Create(s) \/ StartSync(s) \/ Joined(s) \/ RunDangling(s) \/ Release(s)
      PROVE  UNCHANGED <<writing, wire>>
  BY <1>6 DEF Accept, Create, StartSync, Joined, RunDangling, Release, OnManager, socketVars
<1>7. ASSUME Manager \/ StorageStrand \/ SignalHandler PROVE UNCHANGED <<writing, wire>>
  BY <1>7 DEF Manager, PushBack, BroadcastImpl, StopAll, Erase, OnManager, StorageStrand,
              SignalHandler, ResetSessions, ResetState, Restart, OnSignal, socketVars
<1>8. ASSUME AcceptorStrand \/ AcceptorGoesOn \/ AcceptorEvent PROVE UNCHANGED <<writing, wire>>
  BY <1>8 DEF AcceptorStrand, AcceptorGoesOn, AcceptorEvent, SignalArrives, Alone,
              OnSignal, socketVars
<1> QED BY <1>2, <1>3, <1>4, <1>5, <1>6, <1>7, <1>8 DEF Next, Step

\* The sets of sessions stay sets of sessions.
LEMMA SetsTyped ==
  ASSUME ShapeOK, Next
  PROVE  /\ joining' \subseteq Sessions /\ Cardinality(joining') <= 1
         /\ usr2' \in {"no", "stopping", "stopped", "resetting"}
         /\ \A set \in {waiting', reading', on_stop', gone', created', released', destroyed'} :
              set \subseteq Sessions
         /\ lines' \in 0..MaxLines
<1>1. joining' \subseteq Sessions /\ Cardinality(joining') <= 1
  <2>1. \/ joining' = joining \/ joining' = {} \/ \E s \in Sessions : joining' = {s}
    <3>1. ASSUME NEW s \in Sessions, Accept(s) \/ Create(s) \/ StartSync(s) \/ Joined(s)
          PROVE  joining' = joining \/ joining' = {} \/ joining' = {s}
      BY <3>1 DEF Accept, Create, StartSync, Joined
    <3>2. ASSUME NEW s \in Sessions,
                 Socket(s) \/ SessionStrand(s) \/ RunDangling(s) \/ Release(s)
          PROVE  joining' = joining
      BY <3>2 DEF Socket, RunDangling, Release, ReadCompletes, ReadFails, WriteCompletes,
                  WriteFails, Wrote, Break, OnSocket, OnManager, SessionStrand, StartImpl,
                  ReadedData, ReadedPing, ReadedBad, SendImpl, WroteFailed, WroteFeed, SyncNext,
                  SyncResume, StopImpl, Handles, SentTrue, OnStrand
    <3>3. ASSUME Manager \/ StorageStrand \/ SignalHandler PROVE joining' = joining
      BY <3>3 DEF Manager, PushBack, BroadcastImpl, StopAll, Erase, OnManager, StorageStrand,
                  SignalHandler, ResetSessions, ResetState, Restart, OnSignal
    <3>4. ASSUME AcceptorStrand \/ AcceptorGoesOn \/ AcceptorEvent PROVE joining' = joining
      BY <3>4 DEF AcceptorStrand, AcceptorGoesOn, AcceptorEvent, SignalArrives, Alone, OnSignal
    <3> QED BY <3>1, <3>2, <3>3, <3>4 DEF Next, Step
  <2>2. Cardinality({}) = 0 /\ \A s : Cardinality({s}) = 1
    BY FS_Singleton, FS_EmptySet
  <2>3. joining \subseteq Sessions /\ Cardinality(joining) <= 1
    BY DEF ShapeOK
  <2>4. CASE \E s \in Sessions : joining' = {s}
    <3>1. PICK s \in Sessions : joining' = {s}
      BY <2>4
    <3>2. Cardinality(joining') = 1
      BY <2>2, <3>1
    <3> QED BY <3>1, <3>2
  <2>5. CASE joining' = {}
    <3>1. Cardinality(joining') = 0
      BY <2>2, <2>5
    <3> QED BY <2>5, <3>1
  <2> QED BY <2>1, <2>3, <2>4, <2>5
<1>2. usr2' \in {"no", "stopping", "stopped", "resetting"}
  <2>1. ASSUME NEW s \in Sessions,
               \/ Accept(s) \/ Create(s) \/ StartSync(s) \/ Joined(s) \/ Socket(s) \/ SessionStrand(s)
               \/ RunDangling(s) \/ Release(s)
        PROVE  usr2' = usr2
    BY <2>1 DEF Accept, Create, StartSync, Joined, Socket, RunDangling, Release, ReadCompletes, ReadFails,
                WriteCompletes, WriteFails, Wrote, Break, OnSocket, SessionStrand, StartImpl,
                ReadedData, ReadedPing, ReadedBad, SendImpl, WroteFailed, WroteFeed, SyncNext,
                SyncResume, StopImpl, Handles, SentTrue, OnStrand
  <2>2. ASSUME Manager \/ SignalHandler
        PROVE  usr2' \in {usr2, "no", "stopping", "stopped", "resetting"}
    BY <2>2 DEF Manager, PushBack, BroadcastImpl, StopAll, Erase, SignalHandler,
                ResetSessions, ResetState, Restart, OnSignal
  <2>3. ASSUME StorageStrand \/ AcceptorStrand \/ AcceptorGoesOn \/ AcceptorEvent
        PROVE  usr2' = usr2
    BY <2>3 DEF StorageStrand, AcceptorStrand, AcceptorGoesOn, AcceptorEvent,
                SignalArrives, Alone
  <2> QED BY <2>1, <2>2, <2>3 DEF Next, Step, ShapeOK
<1>3. lines' \in 0..MaxLines
  <2>1. ASSUME NEW s \in Sessions, Socket(s)
        PROVE  lines' = lines \/ (lines < MaxLines /\ lines' = lines + 1)
    BY <2>1 DEF Socket, ReadCompletes, ReadFails, WriteCompletes, WriteFails, Wrote, Break
  <2>2. ASSUME NEW s \in Sessions,
               \/ Accept(s) \/ Create(s) \/ StartSync(s) \/ Joined(s) \/ SessionStrand(s)
               \/ RunDangling(s) \/ Release(s)
        PROVE  lines' = lines
    BY <2>2 DEF Accept, Create, StartSync, Joined, RunDangling, Release, OnManager, SessionStrand, StartImpl,
                ReadedData, ReadedPing, ReadedBad, SendImpl, WroteFailed, WroteFeed, SyncNext,
                SyncResume, StopImpl, Handles, SentTrue, OnStrand
  <2>3. ASSUME Manager \/ StorageStrand \/ SignalHandler PROVE lines' = lines
    BY <2>3 DEF Manager, PushBack, BroadcastImpl, StopAll, Erase, OnManager, StorageStrand,
                SignalHandler, ResetSessions, ResetState, Restart, OnSignal
  <2>4. ASSUME AcceptorStrand \/ AcceptorGoesOn \/ AcceptorEvent PROVE lines' = lines
    BY <2>4 DEF AcceptorStrand, AcceptorGoesOn, AcceptorEvent, SignalArrives, Alone, OnSignal
  <2>5. lines \in 0..MaxLines /\ MaxLines \in Nat
    BY ServerAssumption DEF ServerAssumption, ShapeOK
  <2>6. lines' = lines \/ (lines < MaxLines /\ lines' = lines + 1)
    BY <2>1, <2>2, <2>3, <2>4 DEF Next, Step
  <2> QED BY <2>5, <2>6
<1>4. /\ waiting' \subseteq Sessions /\ reading' \subseteq Sessions
      /\ on_stop' \subseteq Sessions /\ gone' \subseteq Sessions
      /\ created' \subseteq Sessions /\ released' \subseteq Sessions /\ destroyed' \subseteq Sessions
  <2> DEFINE Goal == /\ waiting' \subseteq Sessions /\ reading' \subseteq Sessions
                     /\ on_stop' \subseteq Sessions /\ gone' \subseteq Sessions
                     /\ created' \subseteq Sessions /\ released' \subseteq Sessions /\ destroyed' \subseteq Sessions
  <2>0. /\ waiting \subseteq Sessions /\ reading \subseteq Sessions
        /\ on_stop \subseteq Sessions /\ gone \subseteq Sessions
        /\ created \subseteq Sessions /\ released \subseteq Sessions /\ destroyed \subseteq Sessions
    BY DEF ShapeOK
  <2>1. ASSUME NEW s \in Sessions,
               Accept(s) \/ Create(s) \/ StartSync(s) \/ Joined(s) \/ RunDangling(s) \/ Release(s)
        PROVE  Goal
    BY <2>0, <2>1 DEF Accept, Create, StartSync, Joined, RunDangling, Release, OnManager,
                      socketVars, lifeVars
  <2>2. ASSUME NEW s \in Sessions, Socket(s) PROVE Goal
    BY <2>0, <2>2 DEF Socket, ReadCompletes, ReadFails, WriteCompletes, WriteFails, Wrote,
                      Break, OnSocket, lifeVars
  <2>3. ASSUME NEW s \in Sessions, SessionStrand(s) PROVE Goal
    BY <2>0, <2>3 DEF SessionStrand, StartImpl, ReadedData, ReadedPing, ReadedBad, SendImpl,
                      WroteFailed, WroteFeed, SyncNext, SyncResume, StopImpl, Handles, SentTrue,
                      OnStrand, Privately, socketVars, lifeVars
  <2>4. ASSUME Erase PROVE Goal
    <3>1. Head(mgr_strand).s \in Sessions
      BY <2>4, Taken, JobFields DEF Erase, ManagerRuns, ShapeOK
    <3> QED BY <2>0, <2>4, <3>1 DEF Erase, OnManager, socketVars
  <2>5. ASSUME PushBack \/ BroadcastImpl \/ StopAll \/ StorageStrand \/ SignalHandler
        PROVE  Goal
    BY <2>0, <2>5 DEF PushBack, BroadcastImpl, StopAll, OnManager, StorageStrand, SignalHandler,
                      ResetSessions, ResetState, Restart, OnSignal, socketVars, lifeVars
  <2>6. ASSUME AcceptorStrand \/ AcceptorGoesOn \/ AcceptorEvent PROVE Goal
    BY <2>0, <2>6 DEF AcceptorStrand, AcceptorGoesOn, AcceptorEvent, SignalArrives, Alone,
                      OnSignal, socketVars, lifeVars
  <2> HIDE DEF Goal
  <2>7. Goal
    BY <2>1, <2>2, <2>3, <2>4, <2>5, <2>6 DEF Next, Step, Manager
  <2> QED BY <2>7 DEF Goal
<1> QED BY <1>1, <1>2, <1>3, <1>4

\* What the rest rests on: every part is well formed and its invariant holds.
Basis == ShapeOK /\ PartsOK /\ Announced \in Nat

LEMMA ShapeNext == ASSUME Basis, [Next]_vars PROVE ShapeOK'
<1>1. CASE Next
  BY <1>1, ManagerTyped, SocketTyped, SetsTyped, StrandTyped DEF Basis, ShapeOK
<1>2. CASE UNCHANGED vars
  BY <1>2 DEF Basis, ShapeOK, vars, managerVars, socketVars, lifeVars
<1> QED BY <1>1, <1>2

LEMMA BasisInit == Init => Basis
<1> SUFFICES ASSUME Init PROVE Basis
  OBVIOUS
<1>1. PartsOK
  BY StorageBegins, AcceptorBegins DEF Init, PartsOK
<1>2. Before \subseteq Sessions
  <2>1. \A i \in DOMAIN Stored : Stored[i] \in [by : Sessions, key : Keys, val : Values]
    <3> DEFINE S == [by : Sessions, key : Keys, val : Values]
    <3>1. Stored \in Seq(S)
      BY ServerAssumption DEF ServerAssumption
    <3> HIDE DEF S
    <3>2. DOMAIN Stored = 1..Len(Stored)
      BY <3>1, LenProperties
    <3> QED BY <3>1, <3>2, ElementOfSeq DEF S
  <2> QED BY <2>1 DEF Before
<1>3. Cardinality({}) = 0 /\ MaxLines \in Nat
  BY FS_EmptySet, ServerAssumption DEF ServerAssumption
<1>4. ShapeOK
  BY <1>2, <1>3 DEF Init, ShapeOK
<1>5. Announced = Len(log) - Cardinality(Queued("broadcast")) /\ Queued("broadcast") = {}
  BY DEF Init, Announced, Queued
<1>6. Announced \in Nat
  BY <1>1, <1>3, <1>5, LogTyped
<1> QED BY <1>1, <1>4, <1>6 DEF Basis

LEMMA BasisNext == ASSUME Basis, [Next]_vars PROVE Basis'
<1>1. ShapeOK'
  BY ShapeNext
<1>2. PartsOK'
  BY PartsNext DEF Basis
<1>3. Announced' \in Nat
  BY AnnouncedNext DEF Basis
<1> QED BY <1>1, <1>2, <1>3 DEF Basis

LEMMA BasisHolds == Spec => []Basis
BY BasisInit, BasisNext, PTL DEF Spec

-----------------------------------------------------------------------------
(* The theorems. *)

\* The type invariant: whatever the strands do, every queue holds handlers and
\* messages of its kind, and every view of a stored pair is of a received line.
THEOREM TypeCorrect == Spec => []TypeOK
<1>1. Basis => TypeOK
  <2> SUFFICES ASSUME Basis PROVE TypeOK
    OBVIOUS
  <2>1. SP!TypeOK /\ AP!TypeOK /\ ShapeOK
    BY DEF Basis, PartsOK, SP!IInv, AP!IInv
  <2>2. Storage!TypeOK
    BY <2>1 DEF Storage!TypeOK, Storage!Line, Storage!MapValue, Storage!Iterator,
                Storage!Request, SP!TypeOK, SP!Line, SP!MapValue, SP!Iterator, SP!Request
  <2>3. Acceptor!TypeOK
    BY <2>1 DEF Acceptor!TypeOK, Acceptor!Results, Acceptor!Handlers, AP!TypeOK, AP!Results,
                AP!Handlers
  <2> QED BY <2>1, <2>2, <2>3 DEF TypeOK, ShapeOK
<1> QED BY <1>1, BasisHolds, PTL

\* The storage keeps what it promises when it is the server that calls it: the
\* newest update of a key is what is stored, and a scan misses no pair.
THEOREM StorageKeepsItsWord == Spec => [](Storage!ViewsOwned /\ Storage!LatestWins /\ Storage!ScanCovers)
<1>1. Basis => Storage!ViewsOwned /\ Storage!LatestWins /\ Storage!ScanCovers
  <2> SUFFICES ASSUME Basis PROVE Storage!ViewsOwned /\ Storage!LatestWins /\ Storage!ScanCovers
    OBVIOUS
  <2>1. SP!ViewsOwned /\ SP!LatestWins /\ SP!ScanCovers
    BY DEF Basis, PartsOK, SP!IInv
  <2> QED BY <2>1 DEF Storage!ViewsOwned, Storage!LatestWins, Storage!ScanCovers, Storage!Passed,
                      SP!ViewsOwned, SP!LatestWins, SP!ScanCovers, SP!Passed
<1> QED BY <1>1, BasisHolds, PTL

\* And so does the acceptor, whose callback now blocks on the storage and whose
\* restart waits for the manager and the storage: open() is never called twice,
\* and an acceptor that is open goes on accepting.
THEOREM AcceptorKeepsItsWord ==
  Spec => [](Acceptor!NeverOpenTwice /\ Acceptor!StillListening)
<1>1. Basis => Acceptor!NeverOpenTwice
  <2>1. AP!IInv => AP!NeverOpenTwice
    BY AcceptorConstants, AP!StartsOnce
  <2> QED BY <2>1 DEF Basis, PartsOK, AP!NeverOpenTwice, Acceptor!NeverOpenTwice
<1>2. Init => AP!StillListening
  BY DEF Init, Acceptor!Init, AP!StillListening
<1>3. Basis /\ AP!StillListening /\ [Next]_vars => AP!StillListening'
  <2> SUFFICES ASSUME Basis, AP!StillListening, [Next]_vars PROVE AP!StillListening'
    OBVIOUS
  <2>1. AP!TypeOK
    BY DEF Basis, PartsOK, AP!IInv
  <2>2. CASE AP!Next
    BY <2>1, <2>2, AcceptorConstants, AP!ListeningNext
  <2>3. CASE UNCHANGED AP!vars
    BY <2>3 DEF AP!vars, AP!StillListening, AP!Queued
  <2> QED BY <2>2, <2>3, AcceptorStep
<1>4. AP!StillListening => Acceptor!StillListening
  BY DEF AP!StillListening, AP!Queued, Acceptor!StillListening, Acceptor!Queued
<1> QED BY <1>1, <1>2, <1>3, <1>4, BasisHolds, PTL DEF Spec
=============================================================================
