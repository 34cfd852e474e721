------------------------------ MODULE FeedProofs ------------------------------
(***************************************************************************)
(* Proofs about Server: the feed of a session that is up is exactly the    *)
(* changes of the others since it was listed, and the server implements    *)
(* the feed of module Feed, as far as safety goes.                         *)
(***************************************************************************)
EXTENDS ServerProofs

-----------------------------------------------------------------------------
(* The broadcasts queued on the manager's strand. *)

\* They are the changes not announced yet, each once and the oldest first, and
\* each is queued with its author.
BroadcastsInOrder ==
  /\ \A i \in Queued("broadcast") :
       /\ mgr_strand[i].n \in Announced + 1 .. Len(log)
       /\ mgr_strand[i].holder = log[mgr_strand[i].n].by
  /\ \A i, j \in Queued("broadcast") : i < j => mgr_strand[i].n < mgr_strand[j].n
  /\ \A n \in Announced + 1 .. Len(log) : \E i \in Queued("broadcast") : mgr_strand[i].n = n

LEMMA AnnouncedBounded ==
  ASSUME ShapeOK, PartsOK, Announced \in Nat PROVE Announced <= Len(log)
<1>1. Len(log) \in Nat /\ Cardinality(Queued("broadcast")) \in Nat
  BY LogTyped, QueuedFinite DEF ShapeOK
<1> QED BY <1>1 DEF Announced

\* The oldest one is the next to be announced.
LEMMA NextAnnounced ==
  ASSUME Basis, BroadcastsInOrder, mgr_strand # <<>>, Head(mgr_strand).op = "broadcast"
  PROVE  /\ Head(mgr_strand) = mgr_strand[1] /\ 1 \in Queued("broadcast")
         /\ Head(mgr_strand).n = Announced + 1 /\ Announced + 1 \in DOMAIN log
         /\ Head(mgr_strand).holder = log[Announced + 1].by
<1>1. /\ mgr_strand[1] = Head(mgr_strand) /\ 1 \in Queued("broadcast")
      /\ DOMAIN mgr_strand = 1..Len(mgr_strand) /\ Len(mgr_strand) \in Nat
  BY Taken DEF Basis, ShapeOK, Queued
<1>2. Announced \in Nat /\ Len(log) \in Nat /\ DOMAIN log = 1..Len(log)
  BY LogTyped DEF Basis
<1>3. mgr_strand[1].n \in Announced + 1 .. Len(log)
  BY <1>1 DEF BroadcastsInOrder
<1>4. Announced + 1 \in Announced + 1 .. Len(log)
  BY <1>2, <1>3
<1>5. PICK i \in Queued("broadcast") : mgr_strand[i].n = Announced + 1
  BY <1>4 DEF BroadcastsInOrder
<1>6. i = 1
  <2>1. SUFFICES ASSUME 1 < i PROVE FALSE
    BY <1>1 DEF Queued
  <2>2. mgr_strand[1].n < Announced + 1
    BY <1>1, <1>5, <2>1 DEF BroadcastsInOrder
  <2> QED BY <1>2, <1>3, <2>2
<1> QED BY <1>1, <1>2, <1>3, <1>5, <1>6 DEF BroadcastsInOrder

LEMMA OrderNext == ASSUME Basis, BroadcastsInOrder, [Next]_vars PROVE BroadcastsInOrder'
<1> DEFINE B == Queued("broadcast")
<1>1. /\ Announced \in Nat /\ Len(log) \in Nat /\ mgr_strand \in Seq(Job)
      /\ DOMAIN log = 1..Len(log) /\ ShapeOK /\ PartsOK
  BY LogTyped DEF Basis, ShapeOK
<1>2. /\ \A i \in B : /\ mgr_strand[i].n \in Announced + 1 .. Len(log)
                      /\ mgr_strand[i].holder = log[mgr_strand[i].n].by
      /\ \A i, j \in B : i < j => mgr_strand[i].n < mgr_strand[j].n
      /\ \A n \in Announced + 1 .. Len(log) : \E i \in B : mgr_strand[i].n = n
      /\ B \subseteq Nat
  BY <1>1, QueuedFinite DEF BroadcastsInOrder, Queued
<1>3. CASE UNCHANGED <<managerVars, log>>
  BY <1>3 DEF BroadcastsInOrder, Announced, Queued, managerVars
<1>4. ASSUME NEW job \in Job, job.op # "broadcast", PostsJob(job), Announced' = Announced
      PROVE  BroadcastsInOrder'
  <2>1. B' = B /\ (\A i \in B : mgr_strand'[i] = mgr_strand[i]) /\ log' = log
    BY <1>1, <1>4, QueuedPosted DEF PostsJob
  <2> HIDE DEF B
  <2> QED BY <1>2, <1>4, <2>1 DEF BroadcastsInOrder, B
<1>5. ASSUME StoreAndBroadcast, Announced' = Announced PROVE BroadcastsInOrder'
  <2> DEFINE n == Len(log) + 1
             k == Len(mgr_strand) + 1
             job == [op |-> "broadcast", n |-> n, holder |-> log'[n].by]
  <2>1. /\ job \in Job /\ mgr_strand' = Append(mgr_strand, job) /\ Len(log') = n
        /\ \A i \in 1..Len(log) : log'[i] = log[i]
    BY <1>1, <1>5, Publishing
  <2>2. /\ k \in Nat /\ mgr_strand'[k] = job /\ B' = B \cup {k}
        /\ \A i \in B : i < k /\ mgr_strand'[i] = mgr_strand[i]
    BY <1>1, <2>1, QueuedPosted
  <2>3. mgr_strand'[k].n = n /\ mgr_strand'[k].holder = log'[n].by
    BY <2>2
  <2> HIDE DEF B, job, k
  <2>4. Announced < n
    BY <1>1, AnnouncedBounded
  <2>5. \A i \in B' : /\ mgr_strand'[i].n \in Announced' + 1 .. Len(log')
                      /\ mgr_strand'[i].holder = log'[mgr_strand'[i].n].by
    <3>1. ASSUME NEW i \in B
          PROVE  /\ mgr_strand'[i].n \in Announced + 1 .. n
                 /\ mgr_strand'[i].holder = log'[mgr_strand'[i].n].by
      <4>1. /\ mgr_strand'[i].n \in Announced + 1 .. Len(log)
            /\ mgr_strand'[i].holder = log[mgr_strand'[i].n].by
        BY <1>2, <2>2
      <4>2. mgr_strand'[i].n \in 1..Len(log)
        BY <1>1, <4>1
      <4>3. mgr_strand'[i].n \in Announced + 1 .. n
        BY <1>1, <4>1
      <4> QED BY <2>1, <4>1, <4>2, <4>3
    <3>2. n \in Announced + 1 .. n
      BY <1>1, <2>4
    <3> QED BY <1>5, <2>1, <2>2, <2>3, <3>1, <3>2
  <2>6. ASSUME NEW i \in B', NEW j \in B', i < j PROVE mgr_strand'[i].n < mgr_strand'[j].n
    <3>1. i \in B
      <4>1. ASSUME i = k PROVE FALSE
        <5>1. k < j /\ (j = k \/ j < k) /\ j \in Nat
          BY <1>2, <2>2, <2>6, <4>1
        <5> QED BY <2>2, <5>1
      <4> QED BY <2>2, <4>1
    <3>2. CASE j \in B
      BY <1>2, <2>2, <2>6, <3>1, <3>2
    <3>3. CASE j = k
      BY <1>1, <1>2, <2>2, <2>3, <3>1, <3>3
    <3> QED BY <2>2, <3>2, <3>3
  <2>7. \A p \in Announced' + 1 .. Len(log') : \E i \in B' : mgr_strand'[i].n = p
    <3>1. ASSUME NEW p \in Announced + 1 .. n PROVE \E i \in B' : mgr_strand'[i].n = p
      <4>1. CASE p = n
        BY <2>2, <2>3, <4>1
      <4>2. CASE p # n
        <5>1. p \in Announced + 1 .. Len(log)
          BY <1>1, <3>1, <4>2
        <5> QED BY <1>2, <2>2, <5>1
      <4> QED BY <4>1, <4>2
    <3>2. Announced' + 1 .. Len(log') = Announced + 1 .. n
      BY <1>5, <2>1
    <3> QED BY <3>1, <3>2
  <2> QED BY <2>5, <2>6, <2>7 DEF BroadcastsInOrder, B
<1>6. ASSUME mgr_strand # <<>>, mgr_strand' = Tail(mgr_strand), log' = log,
             Announced' = IF Head(mgr_strand).op = "broadcast" THEN Announced + 1 ELSE Announced
      PROVE  BroadcastsInOrder'
  <2>1. /\ Head(mgr_strand).op = "broadcast" <=> 1 \in B
        /\ \A i \in B' : i \in Nat \ {0} /\ i + 1 \in B /\ mgr_strand'[i] = mgr_strand[i + 1]
        /\ \A i \in B : i # 1 => i - 1 \in B' /\ mgr_strand'[i - 1] = mgr_strand[i]
    BY <1>1, <1>6, QueuedTaken
  <2>2. Head(mgr_strand).op = "broadcast" => mgr_strand[1].n = Announced + 1
    BY <1>6, NextAnnounced
  <2> HIDE DEF B
  <2>3. \A i \in B : i # 1 => mgr_strand[i].n \in Announced' + 1 .. Len(log)
    <3>1. CASE 1 \in B
      <4>1. ASSUME NEW i \in B, i # 1 PROVE mgr_strand[i].n \in Announced' + 1 .. Len(log)
        <5>1. 1 < i
          <6>1. \A j \in B : j \in Nat /\ j # 0
            BY <1>1, QueuedFinite DEF B, Queued
          <6> QED BY <4>1, <6>1
        <5>2. Announced + 1 < mgr_strand[i].n /\ mgr_strand[i].n \in Announced + 1 .. Len(log)
          BY <1>2, <2>1, <2>2, <3>1, <5>1
        <5>3. Announced' = Announced + 1
          BY <1>6, <2>1, <3>1
        <5> QED BY <1>1, <5>2, <5>3
      <4> QED BY <4>1
    <3>2. CASE 1 \notin B
      BY <1>2, <1>6, <2>1, <3>2
    <3> QED BY <3>1, <3>2
  <2>4. \A i \in B' : /\ mgr_strand'[i].n \in Announced' + 1 .. Len(log')
                      /\ mgr_strand'[i].holder = log'[mgr_strand'[i].n].by
    <3>1. ASSUME NEW i \in B'
          PROVE  i + 1 \in B /\ i + 1 # 1 /\ mgr_strand'[i] = mgr_strand[i + 1]
      BY <2>1
    <3> QED BY <1>2, <1>6, <2>3, <3>1
  <2>5. ASSUME NEW i \in B', NEW j \in B', i < j PROVE mgr_strand'[i].n < mgr_strand'[j].n
    <3>1. i + 1 \in B /\ j + 1 \in B /\ i + 1 < j + 1
      BY <2>1, <2>5
    <3> QED BY <1>2, <2>1, <3>1
  <2>6. \A p \in Announced' + 1 .. Len(log') : \E i \in B' : mgr_strand'[i].n = p
    <3>1. ASSUME NEW p \in Announced' + 1 .. Len(log') PROVE \E i \in B' : mgr_strand'[i].n = p
      <4>1. p \in Announced + 1 .. Len(log) /\ (Head(mgr_strand).op = "broadcast" => p # Announced + 1)
        BY <1>1, <1>6, <3>1
      <4>2. PICK i \in B : mgr_strand[i].n = p
        BY <1>2, <4>1
      <4>3. i # 1
        BY <2>1, <2>2, <4>1, <4>2
      <4> QED BY <2>1, <4>2, <4>3
    <3> QED BY <3>1
  <2> QED BY <2>4, <2>5, <2>6 DEF BroadcastsInOrder, B
<1>7. \A s \in Sessions : [op |-> "push", s |-> s] \in Job
  BY DEF Job
<1> QED BY <1>1, <1>3, <1>4, <1>5, <1>6, <1>7, ManagerSteps, AnnouncedNext

LEMMA OrderInit == Init => BroadcastsInOrder
<1> SUFFICES ASSUME Init PROVE BroadcastsInOrder
  OBVIOUS
<1>1. Queued("broadcast") = {}
  BY DEF Init, Queued
<1>a. Cardinality(Queued("broadcast")) = 0
  BY <1>1, FS_EmptySet
<1>2. Len(log) \in Nat
  BY BasisInit, LogTyped DEF Basis
<1>3. Announced = Len(log)
  BY <1>a, <1>2 DEF Announced
<1>4. Announced + 1 .. Len(log) = {}
  BY <1>2, <1>3
<1> QED BY <1>1, <1>4 DEF BroadcastsInOrder

-----------------------------------------------------------------------------
(* The requests of a session on the storage's strand, and their answers. *)

Kinds == {"size", "first", "next"}
Requested(s, op) == \E i \in DOMAIN m_strand : m_strand[i].op = op /\ m_strand[i].by = s

\* No session has a new request on the strand.
NoneAsks == \A s \in Sessions, op \in Kinds : Requested(s, op)' => Requested(s, op)

\* Session s asks, and blocks until it has its answer.
AsksFor(s, before, op) ==
  /\ fut[s] = before /\ fut' = [fut EXCEPT ![s] = "pending"]
  /\ UNCHANGED <<cursor, from, got, log, m_map>>
  /\ \A t \in Sessions, p \in Kinds : Requested(t, p)' => Requested(t, p) \/ (t = s /\ p = op)

\* Session s has its answer: the number of pairs, a pair, or that none is left.
Answers(s) ==
  /\ StorageStrand /\ NoneAsks /\ \A p \in Kinds : ~Requested(s, p)'
  /\ fut[s] = "pending" /\ UNCHANGED <<log, m_map>>
  /\ \A t \in Sessions : t # s =>
       /\ fut'[t] = fut[t] /\ cursor'[t] = cursor[t]
       /\ from'[t] = from[t] /\ got'[t] = got[t]
  /\ \/ /\ Requested(s, "size") /\ fut'[s] = "sized" /\ UNCHANGED <<cursor, from, got>>
     \/ /\ Requested(s, "first") /\ cursor[s].key = 0 /\ from'[s] = Len(log)
        /\ SP!Given(s) /\ fut'[s] # "undefined"
     \/ /\ Requested(s, "next") /\ cursor[s].key # 0 /\ from' = from /\ SP!Given(s)

\* A request on the strand is a session's that is blocked.
LEMMA RequestsBlock ==
  ASSUME Basis, NEW s \in Sessions, NEW op \in Kinds, Requested(s, op)
  PROVE  fut[s] = "pending" /\ (op # "next" => cursor[s].key = 0)
BY DEF Basis, PartsOK, SP!IInv, SP!OneRequest, SP!Asks, Requested, Kinds

LEMMA RequestPosted ==
  ASSUME Basis, NEW r \in SP!Request, SP!Post(r), NEW s, NEW op, Requested(s, op)'
  PROVE  Requested(s, op) \/ (r.op = op /\ r.by = s)
BY StorageConstants, SP!PostLeaves DEF Basis, PartsOK, SP!IInv, SP!TypeOK, Requested

LEMMA RequestRuns ==
  ASSUME Basis, m_strand # <<>>, m_strand' = Tail(m_strand)
  PROVE  /\ NoneAsks
         /\ \A s \in Sessions : Head(m_strand).by = s /\ Head(m_strand).op \in Kinds =>
              Requested(s, Head(m_strand).op) /\ \A p \in Kinds : ~Requested(s, p)'
<1>1. /\ DOMAIN m_strand = 1..Len(m_strand) /\ Len(m_strand) \in Nat \ {0}
      /\ DOMAIN m_strand' = 1..Len(m_strand) - 1
      /\ Head(m_strand) = m_strand[1] /\ Head(m_strand) \in SP!Request /\ 1 \in DOMAIN m_strand
      /\ \A i \in 1..Len(m_strand) - 1 : m_strand'[i] = m_strand[i + 1]
  BY Taken DEF Basis, PartsOK, SP!IInv, SP!TypeOK
<1>2. \A i \in DOMAIN m_strand' : i \in Nat /\ i + 1 \in DOMAIN m_strand /\ i + 1 # 1
                                    /\ m_strand'[i] = m_strand[i + 1]
  BY <1>1
<1>3. NoneAsks
  BY <1>2 DEF NoneAsks, Requested
<1>4. ASSUME NEW s \in Sessions, m_strand[1].by = s, m_strand[1].op \in Kinds,
             NEW p \in Kinds, Requested(s, p)'
      PROVE  FALSE
  <2>1. PICK i \in DOMAIN m_strand : i # 1 /\ m_strand[i].op = p /\ m_strand[i].by = s
    <3>1. PICK j \in DOMAIN m_strand' : m_strand'[j].op = p /\ m_strand'[j].by = s
      BY <1>1, <1>4 DEF Requested
    <3> QED BY <1>2, <3>1
  <2> QED BY <1>1, <1>4, <2>1 DEF Basis, PartsOK, SP!IInv, SP!OneRequest, SP!Asks, Kinds
<1> QED BY <1>1, <1>3, <1>4 DEF Requested

\* The three requests of a scan.
LEMMA ScanAsks ==
  ASSUME Basis, NEW s \in Sessions
  PROVE  /\ SP!PostSize(s) => AsksFor(s, "none", "size")
         /\ SP!PostFirst(s) => AsksFor(s, "sized", "first")
         /\ SP!PostNext(s) => AsksFor(s, "found", "next")
<1>1. ASSUME NEW before, NEW r \in SP!Request, SP!Ask(s, before, r), r.by = s
      PROVE  AsksFor(s, before, r.op)
  BY <1>1, RequestPosted DEF AsksFor, SP!Ask, SP!Post
<1>2. /\ [op |-> "size", by |-> s] \in SP!Request /\ [op |-> "first", by |-> s] \in SP!Request
      /\ [op |-> "next", by |-> s, it |-> cursor[s]] \in SP!Request
  BY DEF SP!Request, Basis, PartsOK, SP!IInv, SP!TypeOK
<1> QED BY <1>1, <1>2 DEF SP!PostSize, SP!PostFirst, SP!PostNext

\* What a step does to the scans.
LEMMA ScanSteps ==
  ASSUME Basis, [Next]_vars
  PROVE  \/ UNCHANGED <<fut, cursor, from, got>> /\ NoneAsks
         \/ \E s \in Sessions : Accept(s) /\ AsksFor(s, "none", "size")
         \/ \E s \in Sessions : StartSync(s) /\ AsksFor(s, "sized", "first")
         \/ \E s \in Sessions : SyncNext(s) /\ AsksFor(s, "found", "next")
         \/ \E s \in Sessions : Answers(s)
<1> DEFINE Goal ==
         \/ UNCHANGED <<fut, cursor, from, got>> /\ NoneAsks
         \/ \E s \in Sessions : Accept(s) /\ AsksFor(s, "none", "size")
         \/ \E s \in Sessions : StartSync(s) /\ AsksFor(s, "sized", "first")
         \/ \E s \in Sessions : SyncNext(s) /\ AsksFor(s, "found", "next")
         \/ \E s \in Sessions : Answers(s)
<1> SUFFICES Goal
  OBVIOUS
<1>0. CASE UNCHANGED storageVars
  BY <1>0 DEF storageVars, NoneAsks, Requested
<1>2. ASSUME NEW r \in SP!Request, r.op \notin Kinds, SP!Post(r), fut' = fut PROVE Goal
  BY <1>2, RequestPosted DEF SP!Post, NoneAsks
<1>3. ASSUME NEW s \in Sessions, NEW k \in Keys, NEW v \in Values, SP!PostUpdate(s, k, v)
      PROVE  Goal
  <2>1. [op |-> "update", by |-> s, key |-> k, val |-> v] \in SP!Request
    BY DEF SP!Request
  <2> HIDE DEF Goal
  <2> QED BY <1>2, <1>3, <2>1 DEF SP!PostUpdate, Kinds
<1>4. CASE SP!PostReset
  <2>1. [op |-> "reset"] \in SP!Request
    BY DEF SP!Request
  <2> HIDE DEF Goal
  <2> QED BY <1>2, <1>4, <2>1 DEF SP!PostReset, Kinds
<1>5. ASSUME StorageStrand, SP!Strand PROVE Goal
  <2>1. SP!TypeOK /\ SP!OneRequest /\ SP!Scanning
    BY DEF Basis, PartsOK, SP!IInv
  <2> DEFINE r == Head(m_strand)
  <2>2. /\ m_strand # <<>> /\ m_strand' = Tail(m_strand)
        /\ \/ UNCHANGED <<fut, cursor, from, got>> /\ r.op \in {"update", "reset"}
           \/ /\ log' = log /\ m_map' = m_map
              /\ r.op \in {"size", "first", "next"}
              /\ \E s \in Sessions :
                   /\ s = r.by /\ fut[s] = "pending"
                   /\ \A t \in Sessions : t # s =>
                        /\ fut'[t] = fut[t] /\ cursor'[t] = cursor[t]
                        /\ from'[t] = from[t] /\ got'[t] = got[t]
                   /\ \/ /\ r.op = "size" /\ fut'[s] = "sized"
                         /\ UNCHANGED <<cursor, from, got>>
                      \/ /\ r.op = "first" /\ cursor[s].key = 0
                         /\ from'[s] = Len(log) /\ SP!Given(s)
                         /\ fut'[s] # "undefined"
                      \/ /\ r.op = "next" /\ cursor[s].key # 0
                         /\ from' = from /\ SP!Given(s)
    BY <1>5, <2>1, StorageConstants, SP!Answered
  <2>3. /\ NoneAsks
        /\ \A s \in Sessions : r.by = s /\ r.op \in Kinds =>
             Requested(s, r.op) /\ \A p \in Kinds : ~Requested(s, p)'
    BY <2>2, RequestRuns
  <2> HIDE DEF r
  <2>4. CASE UNCHANGED <<fut, cursor, from, got>>
    BY <2>3, <2>4
  <2>5. ASSUME NEW s \in Sessions, r.by = s, r.op \in Kinds, ~UNCHANGED <<fut, cursor, from, got>>
        PROVE  Answers(s)
    BY <1>5, <2>2, <2>3, <2>5 DEF Answers, Kinds
  <2> QED BY <2>2, <2>4, <2>5 DEF Kinds
<1> HIDE DEF Goal
<1>6. ASSUME NEW s \in Sessions,
             \/ Accept(s) /\ SP!PostSize(s)
             \/ StartSync(s) /\ SP!PostFirst(s)
             \/ SyncNext(s) /\ SP!PostNext(s)
      PROVE  Goal
  BY <1>6, ScanAsks DEF Goal
<1> QED BY <1>0, <1>3, <1>4, <1>5, <1>6, StorageSteps DEF Basis

-----------------------------------------------------------------------------
(* The manager's list. *)

\* The handlers that will list session s.
Pushes(s) == {i \in Queued("push") : mgr_strand[i].s = s}

\* A session is listed once: only one that was made is, and it is made once.
ListedOnce ==
  \A s \in Sessions :
    /\ s \in m_list \/ Pushes(s) # {} => s \in created
    /\ \A i \in Pushes(s) : s \notin m_list /\ \A j \in Pushes(s) : i = j

\* What a session is about to be sent begins at what has been announced.
BaseKnown == \A s \in m_list : base[s] <= Announced

LEMMA ListedInit == Init => ListedOnce /\ BaseKnown
BY DEF Init, ListedOnce, Pushes, Queued, BaseKnown

\* The manager's handlers, one by one.
LEMMA ManagerJob ==
  ASSUME ShapeOK, Manager, mgr_strand # <<>>, mgr_strand' = Tail(mgr_strand)
  PROVE  \/ /\ PushBack /\ Head(mgr_strand).op = "push" /\ Head(mgr_strand).s \in Sessions
            /\ m_list' = m_list \cup {Head(mgr_strand).s}
            /\ base' = [base EXCEPT ![Head(mgr_strand).s] = Announced]
         \/ /\ Erase /\ Head(mgr_strand).op = "erase" /\ Head(mgr_strand).s \in Sessions
            /\ m_list' = m_list \ {Head(mgr_strand).s} /\ base' = base
         \/ BroadcastImpl /\ Head(mgr_strand).op = "broadcast" /\ UNCHANGED <<m_list, base>>
         \/ StopAll /\ Head(mgr_strand).op = "reset" /\ UNCHANGED <<m_list, base>>
<1>1. Head(mgr_strand) \in Job
  BY Taken DEF ShapeOK
<1> QED BY <1>1, JobFields DEF Manager, PushBack, Erase, BroadcastImpl, StopAll, ManagerRuns

\* What a step does to the handlers that will list s.
LEMMA PushSteps ==
  ASSUME Basis, [Next]_vars, NEW s \in Sessions
  PROVE  \/ UNCHANGED <<Pushes(s), m_list>>
         \/ Create(s) /\ m_list' = m_list /\ \E n : Pushes(s)' = Pushes(s) \cup {n}
         \/ /\ Pushes(s)' = {i \in Nat \ {0} : i + 1 \in Pushes(s)}
            /\ \/ PushBack /\ Head(mgr_strand).s = s /\ 1 \in Pushes(s) /\ m_list' = m_list \cup {s}
               \/ 1 \notin Pushes(s) /\ (s \in m_list' => s \in m_list)
<1>1. ShapeOK /\ PartsOK /\ mgr_strand \in Seq(Job)
  BY DEF Basis, ShapeOK
<1>2. CASE UNCHANGED <<managerVars, log>>
  BY <1>2 DEF managerVars, Pushes, Queued
<1>3. ASSUME NEW job \in Job, mgr_strand' = Append(mgr_strand, job)
      PROVE  \/ Pushes(s)' = Pushes(s)
             \/ job.op = "push" /\ job.s = s /\ \E n : Pushes(s)' = Pushes(s) \cup {n}
  <2> DEFINE n == Len(mgr_strand) + 1
  <2>1. /\ n \notin Queued("push") /\ mgr_strand'[n] = job
        /\ Queued("push")' = IF job.op = "push" THEN Queued("push") \cup {n} ELSE Queued("push")
        /\ \A i \in Queued("push") : mgr_strand'[i] = mgr_strand[i]
    BY <1>1, <1>3, QueuedPosted
  <2> HIDE DEF n
  <2>2. CASE job.op = "push" /\ job.s = s
    <3>1. Pushes(s)' = Pushes(s) \cup {n}
      BY <2>1, <2>2 DEF Pushes
    <3> QED BY <2>2, <3>1
  <2>3. CASE ~(job.op = "push" /\ job.s = s)
    BY <2>1, <2>3 DEF Pushes
  <2> QED BY <2>2, <2>3
<1>4. ASSUME NEW job \in Job, job.op \in {"erase", "reset"}, PostsJob(job)
      PROVE  UNCHANGED <<Pushes(s), m_list>>
  BY <1>3, <1>4 DEF PostsJob
<1>5. ASSUME NEW t \in Sessions, Create(t), PostsJob([op |-> "push", s |-> t])
      PROVE  \/ UNCHANGED <<Pushes(s), m_list>>
             \/ Create(s) /\ m_list' = m_list /\ \E n : Pushes(s)' = Pushes(s) \cup {n}
  <2>1. [op |-> "push", s |-> t] \in Job
    BY DEF Job
  <2> QED BY <1>3, <1>5, <2>1 DEF PostsJob
<1>6. CASE StorageStrand /\ StoreAndBroadcast
  <2> DEFINE job == [op |-> "broadcast", n |-> Len(log) + 1, holder |-> log'[Len(log) + 1].by]
  <2>1. job \in Job /\ mgr_strand' = Append(mgr_strand, job) /\ m_list' = m_list
    BY <1>1, <1>6, Publishing
  <2> QED BY <1>3, <2>1
<1>7. ASSUME Manager, mgr_strand # <<>>, mgr_strand' = Tail(mgr_strand)
      PROVE  /\ Pushes(s)' = {i \in Nat \ {0} : i + 1 \in Pushes(s)}
             /\ \/ PushBack /\ Head(mgr_strand).s = s /\ 1 \in Pushes(s) /\ m_list' = m_list \cup {s}
                \/ 1 \notin Pushes(s) /\ (s \in m_list' => s \in m_list)
  <2>1. /\ Head(mgr_strand) = mgr_strand[1]
        /\ Head(mgr_strand).op = "push" <=> 1 \in Queued("push")
        /\ \A i \in Queued("push")' : /\ i \in Nat \ {0} /\ i + 1 \in Queued("push")
                                      /\ mgr_strand'[i] = mgr_strand[i + 1]
        /\ \A i \in Queued("push") : i # 1 => /\ i - 1 \in Queued("push")' /\ i - 1 \in Nat \ {0}
                                             /\ mgr_strand'[i - 1] = mgr_strand[i]
    BY <1>1, <1>7, QueuedTaken
  <2>2. \A i \in Pushes(s)' : i \in Nat \ {0} /\ i + 1 \in Pushes(s)
    BY <2>1 DEF Pushes
  <2>3. ASSUME NEW i \in Nat \ {0}, i + 1 \in Pushes(s) PROVE i \in Pushes(s)'
    <3>1. i + 1 # 1 /\ i + 1 - 1 = i
      BY <2>3
    <3> QED BY <2>1, <2>3, <3>1 DEF Pushes
  <2> QED BY <1>1, <1>7, <2>1, <2>2, <2>3, ManagerJob DEF Pushes
<1> QED BY <1>1, <1>2, <1>4, <1>5, <1>6, <1>7, ManagerSteps

\* A session stays made.
LEMMA CreatedStays == ASSUME [Next]_vars, NEW s \in created PROVE s \in created'
<1>0. UNCHANGED lifeVars => s \in created'
  BY DEF lifeVars
<1> SUFFICES ASSUME Next PROVE s \in created'
  BY <1>0 DEF vars
<1>1. ASSUME NEW t \in Sessions, Create(t) \/ Release(t) PROVE s \in created'
  BY <1>1 DEF Create, Release
<1>2. ASSUME NEW t \in Sessions,
             Accept(t) \/ StartSync(t) \/ Joined(t) \/ Socket(t) \/ RunDangling(t)
      PROVE  UNCHANGED lifeVars
  BY <1>2 DEF Accept, StartSync, Joined, Socket, RunDangling, ReadCompletes, ReadFails,
              WriteCompletes, WriteFails, Wrote, Break, OnSocket
<1>3. ASSUME NEW t \in Sessions, SessionStrand(t) PROVE UNCHANGED lifeVars
  BY <1>3 DEF SessionStrand, StartImpl, ReadedData, ReadedPing, ReadedBad, SendImpl,
              WroteFailed, WroteFeed, SyncNext, SyncResume, StopImpl, Handles, SentTrue, OnStrand
<1>4. ASSUME Manager PROVE s \in created'
  BY <1>4 DEF Manager, PushBack, BroadcastImpl, StopAll, Erase, lifeVars
<1>5. ASSUME StorageStrand \/ SignalHandler PROVE UNCHANGED lifeVars
  BY <1>5 DEF StorageStrand, SignalHandler, ResetSessions, ResetState, Restart, OnSignal
<1>6. ASSUME AcceptorStrand \/ AcceptorGoesOn \/ AcceptorEvent PROVE UNCHANGED lifeVars
  BY <1>6 DEF AcceptorStrand, AcceptorGoesOn, AcceptorEvent, SignalArrives, Alone, OnSignal
<1> QED BY <1>0, <1>1, <1>2, <1>3, <1>4, <1>5, <1>6 DEF Next, Step

LEMMA ListedNext == ASSUME Basis, ListedOnce, [Next]_vars PROVE ListedOnce'
<1> SUFFICES ASSUME NEW s \in Sessions
             PROVE  /\ s \in m_list' \/ Pushes(s)' # {} => s \in created'
                    /\ \A i \in Pushes(s)' : s \notin m_list' /\ \A j \in Pushes(s)' : i = j
  BY DEF ListedOnce
<1>1. /\ s \in m_list \/ Pushes(s) # {} => s \in created
      /\ \A i \in Pushes(s) : s \notin m_list /\ \A j \in Pushes(s) : i = j
  BY DEF ListedOnce
<1>2. s \in m_list \/ Pushes(s) # {} => s \in created'
  BY <1>1, CreatedStays
<1>3. ASSUME Create(s) PROVE s \notin m_list /\ Pushes(s) = {} /\ s \in created'
  BY <1>1, <1>3 DEF Create
<1>4. CASE UNCHANGED <<Pushes(s), m_list>>
  BY <1>1, <1>2, <1>4
<1>5. CASE Create(s) /\ m_list' = m_list /\ \E n : Pushes(s)' = Pushes(s) \cup {n}
  BY <1>3, <1>5
<1>6. CASE /\ Pushes(s)' = {i \in Nat \ {0} : i + 1 \in Pushes(s)}
           /\ \/ PushBack /\ Head(mgr_strand).s = s /\ 1 \in Pushes(s) /\ m_list' = m_list \cup {s}
              \/ 1 \notin Pushes(s) /\ (s \in m_list' => s \in m_list)
  <2>1. s \in m_list' \/ Pushes(s)' # {} => s \in m_list \/ Pushes(s) # {}
    BY <1>6
  <2>2. ASSUME NEW i \in Pushes(s)' PROVE s \notin m_list' /\ \A j \in Pushes(s)' : i = j
    <3>1. i \in Nat \ {0} /\ i + 1 \in Pushes(s)
      BY <1>6, <2>2
    <3>2. 1 \notin Pushes(s)
      BY <1>1, <3>1
    <3>3. s \notin m_list'
      BY <1>1, <1>6, <3>1, <3>2
    <3>4. ASSUME NEW j \in Pushes(s)' PROVE i = j
      <4>1. j \in Nat \ {0} /\ j + 1 \in Pushes(s)
        BY <1>6, <3>4
      <4>2. i + 1 = j + 1
        BY <1>1, <3>1, <4>1
      <4> QED BY <3>1, <4>1, <4>2
    <3> QED BY <3>3, <3>4
  <2> QED BY <1>2, <2>1, <2>2
<1> QED BY <1>4, <1>5, <1>6, PushSteps

LEMMA BaseNext == ASSUME Basis, BaseKnown, [Next]_vars PROVE BaseKnown'
<1> SUFFICES ASSUME NEW s \in m_list' PROVE base'[s] <= Announced'
  BY DEF BaseKnown
<1>1. ShapeOK /\ PartsOK /\ Announced \in Nat /\ base \in [Sessions -> Nat] /\ m_list \subseteq Sessions
  BY DEF Basis, ShapeOK
<1>2. Announced' \in {Announced, Announced + 1}
  BY <1>1, AnnouncedNext
<1>3. CASE s \in m_list /\ base'[s] = base[s]
  BY <1>1, <1>2, <1>3 DEF BaseKnown
<1>4. CASE base'[s] = Announced
  BY <1>1, <1>2, <1>4
<1>5. CASE UNCHANGED <<m_list, base>>
  BY <1>3, <1>5
<1>6. CASE Manager /\ mgr_strand # <<>> /\ mgr_strand' = Tail(mgr_strand)
  BY <1>1, <1>3, <1>4, <1>5, <1>6, ManagerJob
<1>7. CASE StorageStrand /\ StoreAndBroadcast
  BY <1>1, <1>5, <1>7, Publishing
<1> QED BY <1>1, <1>5, <1>6, <1>7, ManagerSteps DEF PostsJob, managerVars

-----------------------------------------------------------------------------
(* What a session is sent: three queues, one after the other. *)

Sendable == Message \cup {NoMessage}

\* What a handler on the session's strand sends.
MessageOf(h) == IF h.op = "send" THEN h.msg ELSE NoMessage
Sends(s) == [i \in DOMAIN strand[s] |-> MessageOf(strand[s][i])]

\* What a queue holds of the feed, and that it is in order.
Fed(q) == {q[i].n : i \in FeedIn(q)}
Ascends(q) == \A i, j \in FeedIn(q) : i < j => q[i].n < q[j].n
FedBy(m) == IF m.cb = "feed" THEN {m.n} ELSE {}
Below(A, B) == \A a \in A, b \in B : a < b

LEMMA MessageFields ==
  ASSUME NEW m \in Sendable
  PROVE  m.n \in Nat /\ m.cb \in {"sync", "feed", "ping", "none"} /\ (m.cb = "none" <=> m = NoMessage)
BY DEF Sendable, Message, NoMessage

LEMMA StreamsTyped ==
  ASSUME ShapeOK, NEW s \in Sessions
  PROVE  /\ strand[s] \in Seq(Handler) /\ wire[s] \in Seq(Sendable) /\ writing[s] \in Seq(Sendable)
         /\ Sends(s) \in Seq(Sendable) /\ Len(Sends(s)) = Len(strand[s])
         /\ \A i \in DOMAIN strand[s] : Sends(s)[i] = MessageOf(strand[s][i])
<1>1. /\ strand[s] \in Seq(Handler) /\ wire[s] \in Seq(Message) /\ writing[s] \in Seq(Message)
  BY DEF ShapeOK
<1>2. wire[s] \in Seq(Sendable) /\ writing[s] \in Seq(Sendable)
  <2>1. Message \subseteq Sendable
    BY DEF Sendable
  <2> HIDE DEF Sendable
  <2> QED BY <1>1, <2>1, SeqMonotonic
<1>3. /\ DOMAIN strand[s] = 1..Len(strand[s]) /\ Len(strand[s]) \in Nat
      /\ \A i \in DOMAIN strand[s] : strand[s][i] \in Handler
  BY <1>1, LenProperties, ElementOfSeq
<1>4. \A i \in DOMAIN strand[s] : MessageOf(strand[s][i]) \in Sendable
  BY <1>3, HandlerFields DEF MessageOf, Sendable
<1>5. Sends(s) \in [1..Len(strand[s]) -> Sendable]
  BY <1>3, <1>4 DEF Sends
<1>6. Sends(s) \in Seq(Sendable) /\ Len(Sends(s)) = Len(strand[s])
  BY <1>3, <1>5
<1> QED BY <1>1, <1>2, <1>6 DEF Sends

\* A handler is posted on the strand, or the oldest one taken off.
LEMMA StrandPosted ==
  ASSUME ShapeOK, NEW s \in Sessions, NEW h \in Handler, strand'[s] = Append(strand[s], h)
  PROVE  Sends(s)' = Append(Sends(s), MessageOf(h)) /\ MessageOf(h) \in Sendable
<1> DEFINE q == strand[s]
           m == MessageOf(h)
<1>1. /\ q \in Seq(Handler) /\ Sends(s) \in Seq(Sendable) /\ Len(Sends(s)) = Len(q)
      /\ \A i \in DOMAIN q : Sends(s)[i] = MessageOf(q[i])
  BY StreamsTyped
<1>2. m \in Sendable
  BY HandlerFields DEF MessageOf, Sendable
<1>3. /\ DOMAIN q = 1..Len(q) /\ Len(q) \in Nat /\ DOMAIN Append(q, h) = 1..Len(q) + 1
      /\ Append(q, h)[Len(q) + 1] = h /\ \A i \in 1..Len(q) : Append(q, h)[i] = q[i]
  BY <1>1, Posted
<1> HIDE DEF m
<1>4. /\ Append(Sends(s), m) \in Seq(Sendable) /\ DOMAIN Append(Sends(s), m) = 1..Len(q) + 1
      /\ Append(Sends(s), m)[Len(q) + 1] = m
      /\ \A i \in 1..Len(q) : Append(Sends(s), m)[i] = Sends(s)[i]
  BY <1>1, <1>2, Posted
<1>5. Sends(s)' = [i \in 1..Len(q) + 1 |-> MessageOf(Append(q, h)[i])]
  BY <1>3 DEF Sends
<1>6. \A i \in 1..Len(q) + 1 : MessageOf(Append(q, h)[i]) = Append(Sends(s), m)[i]
  BY <1>1, <1>3, <1>4 DEF m
<1>7. Append(Sends(s), m) = [i \in 1..Len(q) + 1 |-> Append(Sends(s), m)[i]]
  <2>1. Append(Sends(s), m) \in [1..Len(Append(Sends(s), m)) -> Sendable]
    BY <1>4, LenProperties
  <2>2. Append(Sends(s), m) \in [1..Len(q) + 1 -> Sendable]
    BY <1>4, <2>1
  <2> QED BY <2>2
<1> QED BY <1>2, <1>5, <1>6, <1>7 DEF m

LEMMA StrandRun ==
  ASSUME ShapeOK, NEW s \in Sessions, strand[s] # <<>>, strand'[s] = Tail(strand[s])
  PROVE  /\ Sends(s) # <<>> /\ Head(Sends(s)) = MessageOf(Head(strand[s]))
         /\ Sends(s)' = Tail(Sends(s))
<1> DEFINE q == strand[s]
<1>1. /\ q \in Seq(Handler) /\ Sends(s) \in Seq(Sendable) /\ Len(Sends(s)) = Len(q)
      /\ \A i \in DOMAIN q : Sends(s)[i] = MessageOf(q[i])
  BY StreamsTyped
<1>2. /\ DOMAIN q = 1..Len(q) /\ Len(q) \in Nat \ {0} /\ Head(q) = q[1] /\ 1 \in DOMAIN q
      /\ DOMAIN Tail(q) = 1..Len(q) - 1
      /\ \A i \in 1..Len(q) - 1 : Tail(q)[i] = q[i + 1]
  BY <1>1, Taken
<1>3. Sends(s) # <<>>
  <2>1. Len(Sends(s)) # 0 /\ Len(<<>>) = 0
    BY <1>1, <1>2
  <2> QED BY <2>1
<1>4. /\ Head(Sends(s)) = Sends(s)[1] /\ DOMAIN Tail(Sends(s)) = 1..Len(q) - 1
      /\ Tail(Sends(s)) \in Seq(Sendable)
      /\ \A i \in 1..Len(q) - 1 : Tail(Sends(s))[i] = Sends(s)[i + 1]
  BY <1>1, <1>3, Taken
<1>5. Sends(s)' = [i \in 1..Len(q) - 1 |-> MessageOf(Tail(q)[i])]
  BY <1>2 DEF Sends
<1>6. \A i \in 1..Len(q) - 1 : MessageOf(Tail(q)[i]) = Tail(Sends(s))[i]
  <2>1. \A i \in 1..Len(q) - 1 : i + 1 \in DOMAIN q
    BY <1>2
  <2> QED BY <1>1, <1>2, <1>4, <2>1
<1>7. Tail(Sends(s)) = [i \in 1..Len(q) - 1 |-> Tail(Sends(s))[i]]
  <2>1. Tail(Sends(s)) \in [1..Len(Tail(Sends(s))) -> Sendable]
    BY <1>4, LenProperties
  <2>2. Tail(Sends(s)) \in [1..Len(q) - 1 -> Sendable]
    BY <1>4, <2>1
  <2> QED BY <2>2
<1> QED BY <1>1, <1>2, <1>3, <1>4, <1>5, <1>6, <1>7

\* The oldest handler is run, and posts another one.
LEMMA StrandAnswered ==
  ASSUME ShapeOK, NEW s \in Sessions, NEW h \in Handler, strand[s] # <<>>,
         strand'[s] = Append(Tail(strand[s]), h)
  PROVE  /\ Sends(s) # <<>> /\ Head(Sends(s)) = MessageOf(Head(strand[s]))
         /\ Sends(s)' = Append(Tail(Sends(s)), MessageOf(h))
<1> DEFINE q == strand[s]
           m == MessageOf(h)
           p == Append(Tail(q), h)
           r == Append(Tail(Sends(s)), m)
<1>1. /\ q \in Seq(Handler) /\ Sends(s) \in Seq(Sendable) /\ Len(Sends(s)) = Len(q)
      /\ \A i \in DOMAIN q : Sends(s)[i] = MessageOf(q[i])
  BY StreamsTyped
<1>2. /\ DOMAIN q = 1..Len(q) /\ Len(q) \in Nat \ {0} /\ Head(q) = q[1] /\ 1 \in DOMAIN q
      /\ Tail(q) \in Seq(Handler) /\ DOMAIN Tail(q) = 1..Len(q) - 1
      /\ \A i \in 1..Len(q) - 1 : Tail(q)[i] = q[i + 1]
  BY <1>1, Taken
<1>3. Sends(s) # <<>>
  <2>1. Len(Sends(s)) # 0 /\ Len(<<>>) = 0
    BY <1>1, <1>2
  <2> QED BY <2>1
<1>4. /\ Head(Sends(s)) = Sends(s)[1] /\ DOMAIN Tail(Sends(s)) = 1..Len(q) - 1
      /\ Tail(Sends(s)) \in Seq(Sendable)
      /\ \A i \in 1..Len(q) - 1 : Tail(Sends(s))[i] = Sends(s)[i + 1]
  BY <1>1, <1>3, Taken
<1>5. m \in Sendable
  BY HandlerFields DEF MessageOf, Sendable
<1> HIDE DEF m
<1>6. /\ DOMAIN p = 1..Len(q) /\ p[Len(q)] = h /\ \A i \in 1..Len(q) - 1 : p[i] = q[i + 1]
  <2>1. Len(Tail(q)) = Len(q) - 1
    BY <1>1, <1>2, HeadTailProperties, EmptySeq
  <2>2. /\ DOMAIN p = 1..Len(Tail(q)) + 1 /\ p[Len(Tail(q)) + 1] = h
        /\ \A i \in 1..Len(Tail(q)) : p[i] = Tail(q)[i]
    BY <1>2, Posted
  <2> QED BY <1>2, <2>1, <2>2
<1>7. /\ r \in Seq(Sendable) /\ DOMAIN r = 1..Len(q) /\ r[Len(q)] = m
      /\ \A i \in 1..Len(q) - 1 : r[i] = Sends(s)[i + 1]
  <2>1. Len(Tail(Sends(s))) = Len(q) - 1
    BY <1>1, <1>3, HeadTailProperties
  <2>2. /\ r \in Seq(Sendable) /\ DOMAIN r = 1..Len(Tail(Sends(s))) + 1
        /\ r[Len(Tail(Sends(s))) + 1] = m
        /\ \A i \in 1..Len(Tail(Sends(s))) : r[i] = Tail(Sends(s))[i]
    BY <1>4, <1>5, Posted
  <2> QED BY <1>2, <1>4, <2>1, <2>2
<1>8. Sends(s)' = [i \in DOMAIN p |-> MessageOf(p[i])]
  BY DEF Sends
<1> HIDE DEF p, r
<1>9. \A i \in 1..Len(q) : MessageOf(p[i]) = r[i]
  <2>1. \A i \in 1..Len(q) : i = Len(q) \/ (i \in 1..Len(q) - 1 /\ i + 1 \in DOMAIN q)
    BY <1>2
  <2> QED BY <1>1, <1>6, <1>7, <2>1 DEF m
<1>10. r = [i \in 1..Len(q) |-> r[i]]
  <2>1. r \in [1..Len(r) -> Sendable]
    BY <1>7, LenProperties
  <2> QED BY <1>7, <2>1
<1>11. Sends(s)' = r
  BY <1>6, <1>8, <1>9, <1>10
<1> QED BY <1>1, <1>2, <1>3, <1>4, <1>11 DEF r, m

\* What joins and leaves the end and the head of a queue.
LEMMA FedNat == ASSUME NEW q \in Seq(Sendable) PROVE FeedIn(q) \subseteq Nat /\ Fed(q) \subseteq Nat
<1>1. DOMAIN q \subseteq Nat /\ \A i \in DOMAIN q : q[i] \in Sendable
  BY LenProperties, ElementOfSeq
<1> QED BY <1>1, MessageFields DEF FeedIn, Fed

LEMMA FedAppended ==
  ASSUME NEW q \in Seq(Sendable), NEW m \in Sendable
  PROVE  /\ Fed(Append(q, m)) = Fed(q) \cup FedBy(m) /\ Fed(q) \subseteq Nat
         /\ Ascends(q) /\ Below(Fed(q), FedBy(m)) => Ascends(Append(q, m))
<1>1. /\ DOMAIN Append(q, m) = 1..Len(q) + 1 /\ DOMAIN q = 1..Len(q) /\ Len(q) \in Nat
      /\ Append(q, m)[Len(q) + 1] = m
      /\ \A i \in 1..Len(q) : Append(q, m)[i] = q[i]
  BY Posted
<1>2. \A i \in DOMAIN q : q[i] \in Sendable
  BY <1>1, ElementOfSeq
<1> DEFINE p == Append(q, m)
           k == Len(q) + 1
<1>3. FeedIn(p) = IF m.cb = "feed" THEN FeedIn(q) \cup {k} ELSE FeedIn(q)
  BY <1>1 DEF FeedIn
<1>4. p[k] = m /\ \A i \in FeedIn(q) : p[i] = q[i] /\ i < k /\ i \in Nat /\ q[i].n \in Nat
  BY <1>1, <1>2, MessageFields DEF FeedIn
<1>5. Fed(q) \subseteq Nat
  BY <1>4 DEF Fed
<1> HIDE DEF p, k
<1>6. Fed(p) = Fed(q) \cup FedBy(m)
  BY <1>3, <1>4 DEF Fed, FedBy
<1>7. ASSUME Ascends(q), Below(Fed(q), FedBy(m)), NEW i \in FeedIn(p), NEW j \in FeedIn(p), i < j
      PROVE  p[i].n < p[j].n
  <2>1. CASE j \in FeedIn(q)
    <3>1. i # k
      <4>1. j < k /\ j \in Nat
        BY <1>4, <2>1
      <4>2. k \in Nat
        BY <1>1 DEF k
      <4> QED BY <1>7, <4>1, <4>2
    <3> QED BY <1>3, <1>4, <1>7, <2>1, <3>1 DEF Ascends
  <2>2. CASE j = k /\ m.cb = "feed"
    <3>1. i \in FeedIn(q)
      BY <1>1, <1>3, <1>7, <2>2 DEF k
    <3> QED BY <1>4, <1>7, <2>2, <3>1 DEF Below, Fed, FedBy
  <2> QED BY <1>3, <2>1, <2>2
<1> QED BY <1>5, <1>6, <1>7 DEF Ascends, p

LEMMA FedTaken ==
  ASSUME NEW q \in Seq(Sendable), q # <<>>
  PROVE  /\ Fed(q) = FedBy(Head(q)) \cup Fed(Tail(q)) /\ Fed(q) \subseteq Nat
         /\ Ascends(q) => Ascends(Tail(q)) /\ Below(FedBy(Head(q)), Fed(Tail(q)))
<1>1. /\ DOMAIN q = 1..Len(q) /\ Len(q) \in Nat \ {0}
      /\ DOMAIN Tail(q) = 1..Len(q) - 1 /\ Head(q) = q[1] /\ 1 \in DOMAIN q
      /\ \A i \in 1..Len(q) - 1 : Tail(q)[i] = q[i + 1]
  BY Taken
<1>2. \A i \in DOMAIN q : q[i] \in Sendable
  BY <1>1, ElementOfSeq
<1> DEFINE p == Tail(q)
<1>3. /\ \A i \in FeedIn(p) : i \in Nat /\ i + 1 \in FeedIn(q) /\ p[i] = q[i + 1] /\ 1 < i + 1
      /\ \A i \in FeedIn(q) : i = 1 \/ (i - 1 \in FeedIn(p) /\ p[i - 1] = q[i])
      /\ 1 \in FeedIn(q) <=> Head(q).cb = "feed"
  BY <1>1 DEF FeedIn
<1>4. Fed(q) \subseteq Nat
  BY <1>1, <1>2, MessageFields DEF Fed, FeedIn
<1> HIDE DEF p
<1>5. Fed(q) = FedBy(Head(q)) \cup Fed(p)
  <2>1. Fed(p) \subseteq Fed(q) /\ FedBy(Head(q)) \subseteq Fed(q)
    BY <1>1, <1>3 DEF Fed, FedBy
  <2>2. ASSUME NEW i \in FeedIn(q) PROVE q[i].n \in FedBy(Head(q)) \cup Fed(p)
    BY <1>1, <1>3, <2>2 DEF Fed, FedBy
  <2> QED BY <2>1, <2>2 DEF Fed
<1>6. Ascends(q) => Ascends(p) /\ Below(FedBy(Head(q)), Fed(p))
  <2> SUFFICES ASSUME Ascends(q) PROVE Ascends(p) /\ Below(FedBy(Head(q)), Fed(p))
    OBVIOUS
  <2>1. ASSUME NEW i \in FeedIn(p), NEW j \in FeedIn(p), i < j PROVE p[i].n < p[j].n
    <3>1. i + 1 < j + 1
      BY <1>3, <2>1
    <3> QED BY <1>3, <3>1 DEF Ascends
  <2>2. ASSUME NEW j \in FeedIn(p), Head(q).cb = "feed" PROVE q[1].n < p[j].n
    BY <1>3, <2>2 DEF Ascends
  <2>3. Below(FedBy(Head(q)), Fed(p))
    BY <1>1, <2>2 DEF Below, FedBy, Fed
  <2> QED BY <2>1, <2>3 DEF Ascends
<1> QED BY <1>4, <1>5, <1>6 DEF p

LEMMA FedJoined ==
  ASSUME NEW a \in Seq(Sendable), NEW b \in Seq(Sendable)
  PROVE  /\ a \o b \in Seq(Sendable)
         /\ Fed(a \o b) = Fed(a) \cup Fed(b)
         /\ Ascends(a) /\ Ascends(b) /\ Below(Fed(a), Fed(b)) => Ascends(a \o b)
<1> DEFINE p == a \o b
           k == Len(a)
<1>1. /\ p \in Seq(Sendable) /\ Len(p) = k + Len(b) /\ k \in Nat /\ Len(b) \in Nat
      /\ \A i \in 1 .. k + Len(b) : p[i] = IF i <= k THEN a[i] ELSE b[i - k]
  BY ConcatProperties, LenProperties
<1>2. DOMAIN p = 1 .. k + Len(b) /\ DOMAIN a = 1..k /\ DOMAIN b = 1..Len(b)
  BY <1>1, LenProperties
<1> HIDE DEF p, k
<1>3. \A i \in FeedIn(a) : i \in FeedIn(p) /\ p[i] = a[i] /\ i \in Nat /\ i <= k
  BY <1>1, <1>2 DEF FeedIn
<1>4. \A i \in FeedIn(b) : i + k \in FeedIn(p) /\ p[i + k] = b[i] /\ i \in Nat /\ i > 0
  <2>1. ASSUME NEW i \in 1..Len(b)
        PROVE  i + k \in 1 .. k + Len(b) /\ ~(i + k <= k) /\ i + k - k = i
    BY <1>1
  <2>2. \A i \in 1..Len(b) : p[i + k] = b[i] /\ i + k \in DOMAIN p
    BY <1>1, <1>2, <2>1
  <2> QED BY <1>1, <1>2, <2>2 DEF FeedIn
<1>5. \A i \in FeedIn(p) : /\ i \in Nat
                         /\ \/ i <= k /\ i \in FeedIn(a)
                            \/ i > k /\ i - k \in FeedIn(b) /\ p[i] = b[i - k]
  <2>1. ASSUME NEW i \in 1 .. k + Len(b), i > k PROVE i - k \in 1..Len(b) /\ p[i] = b[i - k]
    BY <1>1, <2>1
  <2> QED BY <1>1, <1>2, <2>1 DEF FeedIn
<1>6. Fed(p) = Fed(a) \cup Fed(b)
  <2>1. ASSUME NEW i \in FeedIn(p) PROVE p[i].n \in Fed(a) \cup Fed(b)
    BY <1>3, <1>5, <2>1 DEF Fed
  <2>2. ASSUME NEW i \in FeedIn(a) PROVE a[i].n \in Fed(p)
    BY <1>3, <2>2 DEF Fed
  <2>3. ASSUME NEW i \in FeedIn(b) PROVE b[i].n \in Fed(p)
    BY <1>4, <2>3 DEF Fed
  <2> QED BY <2>1, <2>2, <2>3 DEF Fed
<1>7. ASSUME Ascends(a), Ascends(b), Below(Fed(a), Fed(b)),
             NEW i \in FeedIn(p), NEW j \in FeedIn(p), i < j
      PROVE  p[i].n < p[j].n
  <2>1. CASE j <= k
    <3>1. i <= k /\ i \in FeedIn(a) /\ j \in FeedIn(a)
      BY <1>1, <1>5, <1>7, <2>1
    <3> QED BY <1>3, <1>7, <3>1 DEF Ascends
  <2>2. CASE i <= k /\ j > k
    <3>1. i \in FeedIn(a) /\ j - k \in FeedIn(b) /\ p[j] = b[j - k]
      BY <1>1, <1>5, <2>2
    <3> QED BY <1>3, <1>7, <3>1 DEF Below, Fed
  <2>3. CASE i > k /\ j > k
    <3>1. /\ i - k \in FeedIn(b) /\ j - k \in FeedIn(b)
          /\ p[i] = b[i - k] /\ p[j] = b[j - k]
      BY <1>1, <1>5, <2>3
    <3>2. i - k < j - k
      BY <1>1, <1>5, <1>7
    <3> QED BY <1>7, <3>1, <3>2 DEF Ascends
  <2> QED BY <1>1, <1>5, <2>1, <2>2, <2>3
<1> QED BY <1>1, <1>6, <1>7 DEF Ascends, p

-----------------------------------------------------------------------------
(* What a step does to them. *)

\* A session whose connection is up.
Live(s) == s \notin on_stop \cup gone \cup destroyed

LEMMA LiveBefore == ASSUME [Next]_vars, NEW s, Live(s)' PROVE Live(s)
<1> DEFINE Goal == on_stop \subseteq on_stop' /\ gone \subseteq gone' /\ destroyed \subseteq destroyed'
<1> SUFFICES Goal
  BY DEF Live
<1>0. ASSUME UNCHANGED <<on_stop, gone, destroyed>> PROVE Goal
  BY <1>0
<1>1. ASSUME NEW t \in Sessions, Socket(t) PROVE Goal
  BY <1>1 DEF Socket, ReadCompletes, ReadFails, WriteCompletes, WriteFails, Wrote, Break,
              OnSocket, lifeVars
<1>2. ASSUME NEW t \in Sessions, SessionStrand(t) PROVE Goal
  BY <1>2 DEF SessionStrand, StartImpl, ReadedData, ReadedPing, ReadedBad, SendImpl, WroteFailed,
              WroteFeed, SyncNext, SyncResume, StopImpl, Handles, SentTrue, OnStrand,
              socketVars, lifeVars
<1>3. CASE Manager
  BY <1>3 DEF Manager, PushBack, BroadcastImpl, StopAll, Erase, OnManager, socketVars, lifeVars
<1> HIDE DEF Goal
<1>4. ASSUME NEW t \in Sessions,
             Accept(t) \/ Create(t) \/ StartSync(t) \/ Joined(t) \/ RunDangling(t) \/ Release(t)
      PROVE  UNCHANGED <<on_stop, gone, destroyed>>
  BY <1>4 DEF Accept, Create, StartSync, Joined, RunDangling, Release, OnManager, socketVars, lifeVars
<1>5. ASSUME StorageStrand \/ SignalHandler PROVE UNCHANGED <<on_stop, gone, destroyed>>
  BY <1>5 DEF StorageStrand, SignalHandler, ResetSessions, ResetState, Restart, OnSignal,
              socketVars, lifeVars
<1>6. ASSUME AcceptorStrand \/ AcceptorGoesOn \/ AcceptorEvent
      PROVE  UNCHANGED <<on_stop, gone, destroyed>>
  BY <1>6 DEF AcceptorStrand, AcceptorGoesOn, AcceptorEvent, SignalArrives, Alone,
              OnSignal, socketVars, lifeVars
<1>7. CASE UNCHANGED vars
  BY <1>0, <1>7 DEF vars, socketVars, lifeVars
<1> QED BY <1>0, <1>1, <1>2, <1>3, <1>4, <1>5, <1>6, <1>7 DEF Next, Step

\* The queues of session s are left alone; a message, or none, is added to what
\* is queued; a handler that sends nothing is run, or sends a PING line back; a
\* message goes to the socket, or is handed to the connection.
Same(s) == UNCHANGED <<wire[s], writing[s], Sends(s)>>
Adds(s, m) == UNCHANGED <<wire[s], writing[s]>> /\ Sends(s)' = Append(Sends(s), m)
Drops(s) ==
  /\ UNCHANGED <<wire[s], writing[s]>>
  /\ Sends(s) # <<>> /\ Head(Sends(s)) = NoMessage /\ Sends(s)' = Tail(Sends(s))
Pings(s) ==
  /\ UNCHANGED <<wire[s], writing[s]>>
  /\ Sends(s) # <<>> /\ Head(Sends(s)) = NoMessage
  /\ \E m \in Sendable : m.cb = "ping" /\ Sends(s)' = Append(Tail(Sends(s)), m)
Writes(s) ==
  /\ wire'[s] = wire[s] /\ Sends(s) # <<>> /\ Head(Sends(s)) # NoMessage
  /\ writing'[s] = Append(writing[s], Head(Sends(s))) /\ Sends(s)' = Tail(Sends(s))
Delivers(s) ==
  /\ writing[s] # <<>> /\ wire'[s] = Append(wire[s], Head(writing[s]))
  /\ writing'[s] = Tail(writing[s]) /\ Sends(s)' = Append(Sends(s), NoMessage)

\* A message of the feed is sent by broadcast_impl(), and one of the sync by
\* whoever has been given a pair.
Sender(s, m) ==
  \/ m = NoMessage
  \/ m.cb = "feed" /\ BroadcastImpl
  \/ /\ m.cb = "sync" /\ m = SyncPair(s) /\ fut[s] = "found"
     /\ Joined(s) \/ SyncResume(s)

LEMMA StreamSteps ==
  ASSUME Basis, [Next]_vars, NEW s \in Sessions, Live(s)'
  PROVE  \/ Same(s) \/ Drops(s) \/ Pings(s) \/ Writes(s)
         \/ WriteCompletes(s) /\ Delivers(s)
         \/ \E m \in Sendable : Adds(s, m) /\ Sender(s, m)
<1> DEFINE Goal == \/ Same(s) \/ Drops(s) \/ Pings(s) \/ Writes(s)
                   \/ WriteCompletes(s) /\ Delivers(s)
                   \/ \E m \in Sendable : Adds(s, m) /\ Sender(s, m)
<1> SUFFICES Goal
  OBVIOUS
<1>a. /\ ShapeOK /\ PartsOK /\ strand \in [Sessions -> Seq(Handler)]
      /\ writing \in [Sessions -> Seq(Message)] /\ wire \in [Sessions -> Seq(Message)]
  BY DEF Basis, ShapeOK
<1>b. s \notin destroyed
  BY LiveBefore DEF Live
<1>0. ASSUME strand'[s] = strand[s], writing'[s] = writing[s], wire'[s] = wire[s] PROVE Goal
  BY <1>0 DEF Same, Sends
<1>p. ASSUME NEW t \in Sessions, NEW h \in Handler, Post(t, h), UNCHANGED <<writing, wire>>,
             t = s => Sender(s, MessageOf(h))
      PROVE  Goal
  <2>1. CASE t = s
    <3>1. strand'[s] = Append(strand[s], h)
      BY <1>a, <1>p, <2>1 DEF Post
    <3>2. Adds(s, MessageOf(h)) /\ MessageOf(h) \in Sendable
      BY <1>a, <1>p, <3>1, StrandPosted DEF Adds
    <3> QED BY <1>p, <2>1, <3>2
  <2>2. CASE t # s
    BY <1>0, <1>a, <1>p, <2>2 DEF Post
  <2> QED BY <2>1, <2>2
<1>r. ASSUME NEW t \in Sessions, strand[t] # <<>>, strand' = [strand EXCEPT ![t] = Tail(@)],
             Head(strand[t]).op # "send" \/ t \in destroyed, UNCHANGED <<writing, wire>>
      PROVE  Goal
  <2>1. CASE t = s
    <3>1. strand'[s] = Tail(strand[s]) /\ MessageOf(Head(strand[s])) = NoMessage
      BY <1>a, <1>b, <1>r, <2>1 DEF MessageOf
    <3>2. Drops(s)
      BY <1>a, <1>r, <2>1, <3>1, StrandRun DEF Drops
    <3> QED BY <3>2
  <2>2. CASE t # s
    BY <1>0, <1>a, <1>r, <2>2
  <2> QED BY <2>1, <2>2
<1> HIDE DEF Goal
<1>n. /\ [op |-> "start"] \in Handler /\ [op |-> "stop"] \in Handler
      /\ \A op : op # "send" => MessageOf([op |-> op]) = NoMessage
  BY DEF Handler, MessageOf
<1>1. ASSUME NEW t \in Sessions, Create(t) \/ Release(t) PROVE Goal
  BY <1>1, <1>n, <1>p DEF Create, Release, OnManager, socketVars, Sender
<1>2. ASSUME NEW t \in Sessions, Joined(t) \/ SyncResume(t) PROVE Goal
  <2>1. CASE UNCHANGED strand
    BY <1>0, <1>2, <2>1 DEF Joined, SyncResume, socketVars
  <2>2. ASSUME fut[t] = "found", Post(t, [op |-> "send", msg |-> SyncPair(t)]) PROVE Goal
    <3> DEFINE h == [op |-> "send", msg |-> SyncPair(t)]
    <3>1. SyncPair(t) \in Message /\ SyncPair(t).cb = "sync"
      BY <1>a, <2>2, SyncPairTyped
    <3>2. h \in Handler /\ MessageOf(h) = SyncPair(t)
      BY <3>1 DEF Handler, MessageOf
    <3> HIDE DEF h
    <3>3. UNCHANGED <<writing, wire>>
      BY <1>2 DEF Joined, SyncResume, socketVars
    <3>4. t = s => Sender(s, MessageOf(h))
      BY <1>2, <2>2, <3>1, <3>2 DEF Sender
    <3> QED BY <1>p, <2>2, <3>2, <3>3, <3>4 DEF h
  <2> QED BY <1>2, <2>1, <2>2 DEF Joined, SyncResume
<1>3. ASSUME NEW t \in Sessions, NEW line, ReadCompletes(t, line), line \in LineRead PROVE Goal
  <2>1. [op |-> "readed", line |-> line] \in Handler
    BY <1>3 DEF Handler
  <2> QED BY <1>3, <1>p, <2>1 DEF ReadCompletes, Sender, MessageOf
<1>4. ASSUME NEW t \in Sessions, ReadFails(t) PROVE Goal
  <2>1. [op |-> "readed", line |-> [in |-> "error"]] \in Handler
    BY DEF Handler, LineRead
  <2> QED BY <1>4, <1>p, <2>1 DEF ReadFails, Sender, MessageOf
<1>5. ASSUME NEW t \in Sessions, WriteCompletes(t) \/ WriteFails(t) PROVE Goal
  <2>1. PICK ok \in BOOLEAN : Wrote(t, ok)
    BY <1>5 DEF WriteCompletes, WriteFails
  <2> DEFINE h == [op |-> "wrote", msg |-> Head(writing[t]), ok |-> ok]
  <2>2. Head(writing[t]) \in Message
    BY <1>a, <2>1, Taken DEF Wrote
  <2>3. h \in Handler /\ MessageOf(h) = NoMessage
    BY <2>2 DEF Handler, MessageOf
  <2>4. Post(t, h) /\ writing' = [writing EXCEPT ![t] = Tail(@)]
    BY <2>1 DEF Wrote
  <2> HIDE DEF h
  <2>5. CASE t # s
    BY <1>0, <1>5, <1>a, <2>4, <2>5 DEF WriteCompletes, WriteFails, Post
  <2>6. CASE t = s /\ WriteCompletes(s)
    <3>1. strand'[s] = Append(strand[s], h)
      BY <1>a, <2>4, <2>6 DEF Post
    <3>2. Delivers(s)
      BY <1>a, <2>3, <2>4, <2>6, <3>1, StrandPosted DEF Delivers, WriteCompletes, Wrote
    <3> QED BY <2>6, <3>2 DEF Goal
  <2>7. CASE t = s /\ WriteFails(s)
    BY <2>7, LiveBefore DEF WriteFails, Live
  <2> QED BY <1>5, <2>5, <2>6, <2>7
<1>6. ASSUME NEW t \in Sessions, Break(t) \/ Accept(t) \/ StartSync(t) PROVE Goal
  BY <1>0, <1>6 DEF Break, Accept, StartSync, socketVars
<1>7. ASSUME NEW t \in Sessions, ReadedPing(t) PROVE Goal
  <2> DEFINE m == [n |-> 0, cb |-> "ping", holder |-> t]
             h == [op |-> "send", msg |-> m]
  <2>1. /\ strand[t] # <<>> /\ Head(strand[t]).op = "readed" /\ UNCHANGED <<writing, wire>>
        /\ strand' = [strand EXCEPT ![t] = Append(Tail(@), h)]
    BY <1>7 DEF ReadedPing, Ready
  <2>2. m \in Message /\ m \in Sendable /\ m.cb = "ping"
    BY DEF Message, Sendable
  <2>3. h \in Handler /\ MessageOf(h) = m
    BY <2>2 DEF Handler, MessageOf
  <2> HIDE DEF h, m
  <2>4. CASE t # s
    BY <1>0, <1>a, <2>1, <2>4
  <2>5. CASE t = s
    <3>1. strand'[s] = Append(Tail(strand[s]), h) /\ MessageOf(Head(strand[s])) = NoMessage
      BY <1>a, <2>1, <2>5 DEF MessageOf
    <3>2. Pings(s)
      BY <1>a, <2>1, <2>2, <2>3, <2>5, <3>1, StrandAnswered DEF Pings
    <3> QED BY <3>2 DEF Goal
  <2> QED BY <2>4, <2>5
<1>8. ASSUME NEW t \in Sessions, SendImpl(t) PROVE Goal
  <2>1. /\ strand[t] # <<>> /\ Head(strand[t]).op = "send" /\ wire' = wire
        /\ strand' = [strand EXCEPT ![t] = Tail(@)]
        /\ writing' = [writing EXCEPT ![t] = Append(@, Head(strand[t]).msg)]
    BY <1>8 DEF SendImpl, Handles, Runs, Ready
  <2>2. CASE t # s
    BY <1>0, <1>a, <2>1, <2>2
  <2>3. CASE t = s
    <3>1. /\ strand'[s] = Tail(strand[s]) /\ MessageOf(Head(strand[s])) = Head(strand[s]).msg
          /\ writing'[s] = Append(writing[s], Head(strand[s]).msg)
      BY <1>a, <2>1, <2>3 DEF MessageOf
    <3>2. Head(strand[s]).msg # NoMessage
      <4>1. Head(strand[s]).msg \in Message
        BY <1>a, <2>1, <2>3, HeadOf, HandlerFields
      <4> QED BY <4>1 DEF Message, NoMessage
    <3>3. Writes(s)
      BY <1>a, <2>1, <2>3, <3>1, <3>2, StrandRun DEF Writes
    <3> QED BY <3>3 DEF Goal
  <2> QED BY <2>2, <2>3
<1>9. ASSUME NEW t \in Sessions, SessionStrand(t) \/ RunDangling(t),
             ~ReadedPing(t), ~SendImpl(t), ~SyncResume(t)
      PROVE  Goal
  BY <1>9, <1>r
     DEF SessionStrand, RunDangling, StartImpl, ReadedData, ReadedBad, WroteFailed,
         WroteFeed, SyncNext, StopImpl, SentTrue, Handles, Runs, Ready, OnManager, socketVars
<1>10. ASSUME NEW h \in Handler, NEW except, PostAll(h, except), UNCHANGED <<writing, wire>>,
              Sender(s, MessageOf(h))
       PROVE  Goal
  <2>1. strand'[s] = strand[s] \/ strand'[s] = Append(strand[s], h)
    BY <1>10 DEF PostAll
  <2>2. CASE strand'[s] = Append(strand[s], h)
    <3>1. Adds(s, MessageOf(h)) /\ MessageOf(h) \in Sendable
      BY <1>a, <1>10, <2>2, StrandPosted DEF Adds
    <3> QED BY <1>10, <3>1 DEF Goal
  <2> QED BY <1>0, <1>10, <2>1, <2>2
<1>11. CASE Manager
  <2>1. UNCHANGED <<writing, wire>>
    BY <1>11 DEF Manager, PushBack, BroadcastImpl, StopAll, Erase, OnManager, socketVars
  <2>2. CASE BroadcastImpl
    <3> DEFINE m == [n |-> Head(mgr_strand).n, cb |-> "feed", holder |-> Head(mgr_strand).holder]
               h == [op |-> "send", msg |-> m]
    <3>1. Head(mgr_strand) \in Job /\ Head(mgr_strand).op = "broadcast"
      BY <1>a, <2>2, Taken DEF BroadcastImpl, ManagerRuns, ShapeOK
    <3>2. m \in Message /\ m.cb = "feed"
      BY <3>1, JobFields DEF Message
    <3>3. PostAll(h, {Head(mgr_strand).holder})
      BY <2>2 DEF BroadcastImpl
    <3> HIDE DEF m
    <3>4. h \in Handler /\ Sender(s, MessageOf(h))
      BY <2>2, <3>2 DEF Handler, Sender, MessageOf
    <3> QED BY <1>10, <2>1, <3>3, <3>4
  <2>3. CASE StopAll
    BY <1>10, <1>n, <2>1, <2>3 DEF StopAll, Sender
  <2>4. CASE PushBack \/ Erase
    BY <1>0, <2>1, <2>4 DEF PushBack, Erase
  <2> QED BY <1>11, <2>2, <2>3, <2>4 DEF Manager
<1>12. ASSUME StorageStrand \/ SignalHandler PROVE UNCHANGED <<strand, writing, wire>>
  BY <1>12 DEF StorageStrand, SignalHandler, ResetSessions, ResetState, Restart, OnSignal, socketVars
<1>13. ASSUME AcceptorStrand \/ AcceptorGoesOn \/ AcceptorEvent
       PROVE  UNCHANGED <<strand, writing, wire>>
  BY <1>13 DEF AcceptorStrand, AcceptorGoesOn, AcceptorEvent, SignalArrives, Alone, OnSignal, socketVars
<1>14. CASE UNCHANGED vars
  BY <1>0, <1>14 DEF vars, socketVars
<1>15. ASSUME NEW t \in Sessions, Socket(t) PROVE Goal
  BY <1>3, <1>4, <1>5, <1>6, <1>15, ServerAssumption DEF Socket, ServerAssumption
<1> QED BY <1>0, <1>1, <1>2, <1>6, <1>7, <1>8, <1>9, <1>11, <1>12, <1>13, <1>14, <1>15
       DEF Next, Step

-----------------------------------------------------------------------------
(* The feed. *)

\* What session s has been sent of the feed, and what it is owed.
AllFed(s) == Fed(wire[s]) \cup Fed(writing[s]) \cup Fed(Sends(s))
Owed(s) ==
  IF s \in m_list THEN {n \in base[s] + 1 .. Announced : log[n].by # s} ELSE {}

InOrder(s) ==
  /\ Ascends(wire[s]) /\ Ascends(writing[s]) /\ Ascends(Sends(s))
  /\ Below(Fed(wire[s]), Fed(writing[s]))
  /\ Below(Fed(wire[s]) \cup Fed(writing[s]), Fed(Sends(s)))

\* The last message of the feed among those handed to the connection.
LastFed(q, i) == i \in FeedIn(q) /\ \A j \in FeedIn(q) : j <= i
HasLast(q) == FeedIn(q) = {} \/ \E i \in FeedIn(q) : LastFed(q, i)

FeedKept ==
  \A s \in Sessions : Live(s) => InOrder(s) /\ AllFed(s) = Owed(s) /\ HasLast(wire[s])

LEMMA FeedInit == Init => FeedKept
BY DEF Init, FeedKept, InOrder, AllFed, Owed, HasLast, Sends, Fed, FeedIn, Ascends, Below

\* A queue whose last message of the feed is known, and one message more.
LEMMA LastAppended ==
  ASSUME NEW q \in Seq(Sendable), NEW m \in Sendable
  PROVE  /\ m.cb = "feed" => LastFed(Append(q, m), Len(q) + 1)
         /\ m.cb # "feed" => /\ FeedIn(Append(q, m)) = FeedIn(q)
                             /\ \A i : LastFed(Append(q, m), i) <=> LastFed(q, i)
         /\ HasLast(q) => HasLast(Append(q, m))
         /\ Append(q, m)[Len(q) + 1] = m
         /\ \A i \in FeedIn(q) : Append(q, m)[i] = q[i]
<1>1. /\ DOMAIN Append(q, m) = 1..Len(q) + 1 /\ DOMAIN q = 1..Len(q) /\ Len(q) \in Nat
      /\ Append(q, m)[Len(q) + 1] = m
      /\ \A i \in 1..Len(q) : Append(q, m)[i] = q[i]
  BY Posted
<1> DEFINE p == Append(q, m)
           k == Len(q) + 1
<1>2. FeedIn(p) = IF m.cb = "feed" THEN FeedIn(q) \cup {k} ELSE FeedIn(q)
  BY <1>1 DEF FeedIn
<1>3. \A i \in FeedIn(q) : i <= k /\ k <= k /\ p[i] = q[i]
  BY <1>1 DEF FeedIn
<1>4. k <= k
  BY <1>1
<1> HIDE DEF p, k
<1>5. m.cb = "feed" => LastFed(p, k)
  BY <1>2, <1>3, <1>4 DEF LastFed
<1>6. m.cb # "feed" => FeedIn(p) = FeedIn(q) /\ \A i : LastFed(p, i) <=> LastFed(q, i)
  BY <1>2 DEF LastFed
<1>7. HasLast(q) => HasLast(p)
  BY <1>2, <1>5, <1>6 DEF HasLast, LastFed
<1> QED BY <1>1, <1>3, <1>5, <1>6, <1>7 DEF p, k

\* What is owed to a session grows with the broadcasts of the others' changes,
\* and starts with nothing when the session is listed.
LEMMA OwedNext ==
  ASSUME Basis, BroadcastsInOrder, ListedOnce, BaseKnown, [Next]_vars, NEW s \in Sessions,
         Live(s)'
  PROVE  /\ ~BroadcastImpl => Owed(s)' = Owed(s)
         /\ BroadcastImpl =>
              /\ \A n \in Owed(s) : n < Head(mgr_strand).n
              /\ Owed(s)' = IF s \in m_list /\ s # Head(mgr_strand).holder
                              THEN Owed(s) \cup {Head(mgr_strand).n} ELSE Owed(s)
<1>1. /\ ShapeOK /\ PartsOK /\ Announced \in Nat /\ base \in [Sessions -> Nat]
      /\ Announced <= Len(log) /\ Len(log) \in Nat /\ DOMAIN log = 1..Len(log)
  BY AnnouncedBounded, LogTyped DEF Basis, ShapeOK
<1>2. \A n \in DOMAIN log : log'[n] = log[n]
  BY <1>1, Publishing, LogSteps
<1>3. \A n \in base[s] + 1 .. Announced : n \in DOMAIN log
  BY <1>1
<1>4. ASSUME UNCHANGED <<m_list, base>>, Announced' = Announced PROVE Owed(s)' = Owed(s)
  <2>1. \A n \in base[s] + 1 .. Announced : log'[n] = log[n]
    BY <1>2, <1>3
  <2>2. {n \in base[s] + 1 .. Announced : log'[n].by # s}
          = {n \in base[s] + 1 .. Announced : log[n].by # s}
    BY <2>1
  <2> QED BY <1>4, <2>2 DEF Owed
<1>5. ASSUME BroadcastImpl
      PROVE  /\ mgr_strand # <<>> /\ mgr_strand' = Tail(mgr_strand) /\ log' = log
             /\ Manager /\ Head(mgr_strand).op = "broadcast" /\ UNCHANGED <<m_list, base>>
  BY <1>5 DEF BroadcastImpl, ManagerRuns, OnManager, storageVars, Manager
<1>6. ASSUME BroadcastImpl
      PROVE  /\ \A n \in Owed(s) : n < Head(mgr_strand).n
             /\ Owed(s)' = IF s \in m_list /\ s # Head(mgr_strand).holder
                             THEN Owed(s) \cup {Head(mgr_strand).n} ELSE Owed(s)
  <2>1. Announced' = Announced + 1
    BY <1>1, <1>5, <1>6, AnnouncedNext
  <2>2. /\ Head(mgr_strand).n = Announced + 1
        /\ Head(mgr_strand).holder = log[Announced + 1].by
    BY <1>5, <1>6, NextAnnounced
  <2>3. \A n \in Owed(s) : n < Announced + 1
    BY <1>1 DEF Owed
  <2>4. ASSUME s \in m_list
        PROVE  /\ base[s] + 1 .. Announced + 1 = (base[s] + 1 .. Announced) \cup {Announced + 1}
    <3>1. base[s] <= Announced /\ base[s] \in Nat
      BY <1>1, <2>4 DEF BaseKnown
    <3> QED BY <1>1, <3>1
  <2>5. Owed(s)' = IF s \in m_list /\ s # log[Announced + 1].by
                     THEN Owed(s) \cup {Announced + 1} ELSE Owed(s)
    <3>1. CASE s \notin m_list
      BY <1>5, <1>6, <3>1 DEF Owed
    <3>2. CASE s \in m_list
      <4>1. Owed(s)' = {n \in base[s] + 1 .. Announced + 1 : log[n].by # s}
        BY <1>5, <1>6, <2>1, <3>2 DEF Owed
      <4>2. Owed(s) = {n \in base[s] + 1 .. Announced : log[n].by # s}
        BY <3>2 DEF Owed
      <4> QED BY <2>4, <3>2, <4>1, <4>2
    <3> QED BY <3>1, <3>2
  <2> QED BY <2>2, <2>3, <2>5
<1>7. ASSUME ~BroadcastImpl, Manager, mgr_strand # <<>>, mgr_strand' = Tail(mgr_strand), log' = log
      PROVE  Owed(s)' = Owed(s)
  <2>1. Head(mgr_strand).op # "broadcast" /\ Announced' = Announced
    <3>1. Head(mgr_strand).op # "broadcast"
      BY <1>1, <1>7, ManagerJob
    <3> QED BY <1>1, <1>7, <3>1, AnnouncedNext
  <2>2. CASE s \in m_list
    <3>1. s \in m_list' /\ base'[s] = base[s]
      <4>1. CASE PushBack /\ m_list' = m_list \cup {Head(mgr_strand).s}
        <5>1. Head(mgr_strand).s # s
          <6>1. 1 \in Queued("push") /\ Head(mgr_strand) = mgr_strand[1]
            BY <1>1, <1>7, <4>1, QueuedTaken DEF PushBack, ManagerRuns, ShapeOK
          <6> QED BY <2>2, <6>1 DEF ListedOnce, Pushes
        <5> QED BY <1>1, <2>2, <4>1, <5>1 DEF PushBack
      <4>2. CASE Erase
        <5>1. Head(mgr_strand).s \in destroyed'
          BY <4>2 DEF Erase
        <5> QED BY <2>2, <4>2, <5>1 DEF Erase, Live
      <4> QED BY <1>1, <1>7, <2>2, <4>1, <4>2, ManagerJob
    <3> QED BY <1>2, <1>3, <2>1, <2>2, <3>1 DEF Owed
  <2>3. CASE s \notin m_list
    <3>1. s \in m_list' => base'[s] = Announced
      BY <1>1, <1>7, <2>3, ManagerJob
    <3>2. Announced + 1 .. Announced = {}
      BY <1>1
    <3> QED BY <2>1, <2>3, <3>1, <3>2 DEF Owed
  <2> QED BY <2>2, <2>3
<1>8. ASSUME StorageStrand, StoreAndBroadcast PROVE UNCHANGED <<m_list, base>> /\ log' # log
  BY <1>1, <1>8, Publishing
<1>9. ASSUME UNCHANGED <<m_list, base>>, ~(Manager /\ mgr_strand # <<>> /\ mgr_strand' = Tail(mgr_strand) /\ log' = log)
      PROVE  Owed(s)' = Owed(s)
  <2>1. Announced' = Announced
    BY <1>1, <1>9, AnnouncedNext
  <2> QED BY <1>4, <1>9, <2>1
<1>10. CASE BroadcastImpl
  BY <1>6, <1>10
<1>11. CASE ~BroadcastImpl
  BY <1>1, <1>7, <1>8, <1>9, <1>11, ManagerSteps DEF PostsJob, managerVars
<1> QED BY <1>10, <1>11

\* A message that is none of the feed changes nothing of it.
LEMMA NoFeed ==
  ASSUME NEW q \in Seq(Sendable), NEW m \in Sendable, m.cb # "feed"
  PROVE  Fed(Append(q, m)) = Fed(q) /\ (Ascends(q) => Ascends(Append(q, m)))
BY FedAppended DEF FedBy, Below

LEMMA FeedNext ==
  ASSUME Basis, BroadcastsInOrder, ListedOnce, BaseKnown, FeedKept, [Next]_vars
  PROVE  FeedKept'
<1> SUFFICES ASSUME NEW s \in Sessions, Live(s)'
             PROVE  InOrder(s)' /\ AllFed(s)' = Owed(s)' /\ HasLast(wire[s])'
  BY DEF FeedKept
<1> DEFINE W == Fed(wire[s])
           R == Fed(writing[s])
           T == Fed(Sends(s))
<1>1. Live(s) /\ InOrder(s) /\ AllFed(s) = Owed(s) /\ HasLast(wire[s])
  BY LiveBefore DEF FeedKept
<1>2. /\ wire[s] \in Seq(Sendable) /\ writing[s] \in Seq(Sendable) /\ Sends(s) \in Seq(Sendable)
      /\ NoMessage \in Sendable /\ NoMessage.cb = "none"
  BY StreamsTyped DEF Basis, Sendable, NoMessage
<1>3. /\ Ascends(wire[s]) /\ Ascends(writing[s]) /\ Ascends(Sends(s))
      /\ Below(W, R) /\ Below(W \cup R, T) /\ AllFed(s) = W \cup R \cup T
  BY <1>1 DEF InOrder, AllFed
<1>4. CASE BroadcastImpl
  <2> DEFINE m == [n |-> Head(mgr_strand).n, cb |-> "feed", holder |-> Head(mgr_strand).holder]
             h == [op |-> "send", msg |-> m]
  <2>1. /\ Head(mgr_strand) \in Job /\ Head(mgr_strand).op = "broadcast"
        /\ UNCHANGED <<writing, wire>> /\ PostAll(h, {Head(mgr_strand).holder})
    BY <1>4, Taken DEF BroadcastImpl, ManagerRuns, OnManager, socketVars, Basis, ShapeOK
  <2>2. m \in Message
    BY <2>1, JobFields DEF Message
  <2>3. h \in Handler /\ MessageOf(h) = m
    BY <2>2 DEF Handler, MessageOf
  <2>4. m.n = Head(mgr_strand).n /\ m.cb = "feed"
    OBVIOUS
  <2> HIDE DEF m, h
  <2>5. CASE s \in m_list /\ s # Head(mgr_strand).holder
    <3>1. strand'[s] = Append(strand[s], h)
      BY <2>1, <2>5 DEF PostAll
    <3>2. Sends(s)' = Append(Sends(s), m) /\ m \in Sendable
      BY <2>3, <3>1, StrandPosted DEF Basis
    <3>3. Owed(s)' = Owed(s) \cup {m.n} /\ \A n \in Owed(s) : n < m.n
      BY <1>4, <2>4, <2>5, OwedNext
    <3>4. FedBy(m) = {m.n} /\ Below(T, FedBy(m)) /\ Below(W \cup R, FedBy(m))
      BY <1>1, <1>3, <2>4, <3>3 DEF Below, FedBy
    <3>5. Fed(Sends(s)') = T \cup {m.n} /\ Ascends(Sends(s)')
      BY <1>2, <1>3, <3>2, <3>4, FedAppended
    <3>6. Below(W \cup R, T \cup {m.n})
      BY <1>3, <3>4 DEF Below
    <3> QED BY <1>1, <1>3, <2>1, <3>3, <3>5, <3>6 DEF InOrder, AllFed
  <2>6. CASE ~(s \in m_list /\ s # Head(mgr_strand).holder)
    <3>1. strand'[s] = strand[s] /\ Owed(s)' = Owed(s)
      BY <1>4, <2>1, <2>6, OwedNext DEF PostAll
    <3>2. Sends(s)' = Sends(s)
      BY <3>1 DEF Sends
    <3> QED BY <1>1, <2>1, <3>1, <3>2 DEF InOrder, AllFed
  <2> QED BY <2>5, <2>6
<1>5. ASSUME ~BroadcastImpl PROVE Owed(s)' = Owed(s)
  BY <1>5, OwedNext
<1>6. ASSUME UNCHANGED <<wire[s], writing[s]>>, Fed(Sends(s)') = T, Ascends(Sends(s)'), ~BroadcastImpl
      PROVE  InOrder(s)' /\ AllFed(s)' = Owed(s)' /\ HasLast(wire[s])'
  BY <1>1, <1>5, <1>6 DEF InOrder, AllFed
<1>7. CASE Same(s) /\ ~BroadcastImpl
  BY <1>3, <1>6, <1>7 DEF Same
<1>8. CASE Drops(s) /\ ~BroadcastImpl
  <2>1. Fed(Sends(s)') = T /\ Ascends(Sends(s)')
    BY <1>2, <1>3, <1>8, FedTaken DEF Drops, FedBy
  <2> QED BY <1>6, <1>8, <2>1 DEF Drops
<1>9. CASE Pings(s) /\ ~BroadcastImpl
  <2>1. Tail(Sends(s)) \in Seq(Sendable) /\ Fed(Tail(Sends(s))) = T /\ Ascends(Tail(Sends(s)))
    BY <1>2, <1>3, <1>9, FedTaken, Taken DEF Pings, FedBy
  <2>2. Fed(Sends(s)') = T /\ Ascends(Sends(s)')
    BY <1>9, <2>1, NoFeed DEF Pings
  <2> QED BY <1>6, <1>9, <2>2 DEF Pings
<1>10. CASE ~BroadcastImpl /\ \E m \in Sendable : Adds(s, m) /\ Sender(s, m)
  <2>1. PICK m \in Sendable : Adds(s, m) /\ Sender(s, m)
    BY <1>10
  <2>2. m.cb # "feed"
    BY <1>2, <1>10, <2>1 DEF Sender
  <2>3. Fed(Sends(s)') = T /\ Ascends(Sends(s)')
    BY <1>2, <1>3, <2>1, <2>2, NoFeed DEF Adds
  <2> QED BY <1>6, <1>10, <2>1, <2>3 DEF Adds
<1>11. CASE Writes(s) /\ ~BroadcastImpl
  <2> DEFINE m == Head(Sends(s))
  <2>1. /\ Sends(s) # <<>> /\ m \in Sendable /\ T = FedBy(m) \cup Fed(Sends(s)')
        /\ Ascends(Sends(s)') /\ Below(FedBy(m), Fed(Sends(s)'))
    BY <1>2, <1>3, <1>11, FedTaken, Taken DEF Writes
  <2>2. Below(R, FedBy(m)) /\ Below(W, FedBy(m))
    BY <1>3, <2>1 DEF Below
  <2>3. Fed(writing'[s]) = R \cup FedBy(m) /\ Ascends(writing'[s])
    BY <1>2, <1>3, <1>11, <2>1, <2>2, FedAppended DEF Writes
  <2>4. Below(W, R \cup FedBy(m)) /\ Below(W \cup (R \cup FedBy(m)), Fed(Sends(s)'))
    BY <1>3, <2>1, <2>2 DEF Below
  <2>5. wire'[s] = wire[s] /\ Owed(s)' = Owed(s)
    BY <1>5, <1>11 DEF Writes
  <2>6. AllFed(s)' = AllFed(s)
    BY <1>3, <2>1, <2>3, <2>5 DEF AllFed
  <2> QED BY <1>1, <1>3, <2>1, <2>3, <2>4, <2>5, <2>6 DEF InOrder
<1>12. CASE Delivers(s) /\ ~BroadcastImpl
  <2> DEFINE m == Head(writing[s])
  <2>1. /\ writing[s] # <<>> /\ m \in Sendable /\ R = FedBy(m) \cup Fed(writing'[s])
        /\ Ascends(writing'[s]) /\ Below(FedBy(m), Fed(writing'[s]))
    BY <1>2, <1>3, <1>12, FedTaken, Taken DEF Delivers
  <2>2. Below(W, FedBy(m))
    BY <1>3, <2>1 DEF Below
  <2>3. Fed(wire'[s]) = W \cup FedBy(m) /\ Ascends(wire'[s]) /\ HasLast(wire'[s])
    BY <1>1, <1>2, <1>3, <1>12, <2>1, <2>2, FedAppended, LastAppended DEF Delivers
  <2>4. Fed(Sends(s)') = T /\ Ascends(Sends(s)')
    BY <1>2, <1>3, <1>12, NoFeed DEF Delivers
  <2>5. Below(W \cup FedBy(m), Fed(writing'[s])) /\ Below((W \cup FedBy(m)) \cup Fed(writing'[s]), T)
    BY <1>3, <2>1, <2>2 DEF Below
  <2>6. AllFed(s)' = AllFed(s)
    BY <1>3, <2>1, <2>3, <2>4 DEF AllFed
  <2> QED BY <1>1, <1>5, <1>12, <2>1, <2>3, <2>4, <2>5, <2>6 DEF InOrder
<1> QED BY <1>4, <1>7, <1>8, <1>9, <1>10, <1>11, <1>12, StreamSteps

-----------------------------------------------------------------------------
(* The theorems. *)

\* The inductive invariant of the feed.
FeedInv == Basis /\ BroadcastsInOrder /\ ListedOnce /\ BaseKnown /\ FeedKept

LEMMA FeedInvHolds == Spec => []FeedInv
<1>1. Init => FeedInv
  BY BasisInit, OrderInit, ListedInit, FeedInit DEF FeedInv
<1>2. FeedInv /\ [Next]_vars => FeedInv'
  BY BasisNext, OrderNext, ListedNext, BaseNext, FeedNext DEF FeedInv
<1> QED BY <1>1, <1>2, PTL DEF Spec

\* Whatever a client is told of the others' changes goes through three strands,
\* the socket and any number of threads, and it is told each of them once and in
\* the order they were made, from the moment it is listed.
THEOREM FeedIsExact == Spec => []FeedExact
<1>1. FeedInv => FeedExact
  <2> SUFFICES ASSUME FeedInv, NEW s \in Sessions, Up(s)
               PROVE  /\ Fed(Sent(s)) = {n \in base[s] + 1 .. Announced : log[n].by # s}
                      /\ Ascends(Sent(s))
    BY DEF FeedExact, Fed, Ascends
  <2>1. Live(s) /\ s \in m_list
    BY DEF Up, FeedStatus, Live
  <2>2. InOrder(s) /\ AllFed(s) = {n \in base[s] + 1 .. Announced : log[n].by # s}
    BY <2>1 DEF FeedInv, FeedKept, Owed
  <2>3. /\ wire[s] \in Seq(Sendable) /\ writing[s] \in Seq(Sendable) /\ Sends(s) \in Seq(Sendable)
    BY StreamsTyped DEF FeedInv, Basis
  <2>4. Sent(s) = (wire[s] \o writing[s]) \o Sends(s)
    BY DEF Sent, Sends, MessageOf
  <2>5. /\ wire[s] \o writing[s] \in Seq(Sendable)
        /\ Fed(wire[s] \o writing[s]) = Fed(wire[s]) \cup Fed(writing[s])
        /\ Ascends(wire[s] \o writing[s])
    BY <2>2, <2>3, FedJoined DEF InOrder
  <2> QED BY <2>2, <2>3, <2>4, <2>5, FedJoined DEF InOrder, AllFed
<1> QED BY <1>1, FeedInvHolds, PTL

-----------------------------------------------------------------------------
(* The server implements the feed. *)

Clients == Sessions \ Before
Position(s) == IF FeedStatus(s) = "in" THEN Delivered(s) ELSE 0

\* The position of a client is that of the last message of the feed it was handed.
LEMMA TheLast ==
  ASSUME NEW q \in Seq(Sendable), NEW i, LastFed(q, i)
  PROVE  FeedIn(q) # {} /\ (CHOOSE k \in FeedIn(q) : \A j \in FeedIn(q) : j <= k) = i
<1>1. FeedIn(q) \subseteq Nat
  BY LenProperties DEF FeedIn
<1>2. i \in FeedIn(q) /\ \A j \in FeedIn(q) : j <= i
  BY DEF LastFed
<1>3. \A k \in FeedIn(q) : (\A j \in FeedIn(q) : j <= k) => k = i
  BY <1>1, <1>2
<1> QED BY <1>2, <1>3

LEMMA DeliveredIs ==
  ASSUME Basis, NEW s \in Sessions, InOrder(s), HasLast(wire[s])
  PROVE  \/ Fed(wire[s]) = {} /\ Delivered(s) = base[s]
         \/ Delivered(s) \in Fed(wire[s]) /\ \A n \in Fed(wire[s]) : n <= Delivered(s)
<1>1. wire[s] \in Seq(Sendable)
  BY StreamsTyped DEF Basis
<1>2. CASE FeedIn(wire[s]) = {}
  BY <1>2 DEF Fed, Delivered
<1>3. ASSUME NEW i \in FeedIn(wire[s]), LastFed(wire[s], i)
      PROVE  Delivered(s) \in Fed(wire[s]) /\ \A n \in Fed(wire[s]) : n <= Delivered(s)
  <2>1. Delivered(s) = wire[s][i].n
    BY <1>1, <1>3, TheLast DEF Delivered
  <2>2. FeedIn(wire[s]) \subseteq Nat /\ Fed(wire[s]) \subseteq Nat
    BY <1>1, FedNat
  <2>3. \A j \in FeedIn(wire[s]) : wire[s][j].n <= wire[s][i].n
    <3>1. ASSUME NEW j \in FeedIn(wire[s]) PROVE wire[s][j].n <= wire[s][i].n
      <4>1. j = i \/ j < i
        BY <1>3, <2>2 DEF LastFed
      <4>2. wire[s][j].n \in Nat /\ wire[s][i].n \in Nat
        BY <2>2 DEF Fed
      <4>3. j < i => wire[s][j].n < wire[s][i].n
        BY DEF InOrder, Ascends
      <4> QED BY <4>1, <4>2, <4>3
    <3> QED BY <3>1
  <2> QED BY <2>1, <2>3 DEF Fed
<1> QED BY <1>2, <1>3 DEF HasLast

\* What a step changes of what the clients see of the feed.
FeedView == <<on_stop, gone, destroyed, m_list, base, wire, log>>

LEMMA FeedViews ==
  ASSUME [Next]_vars
  PROVE  \/ UNCHANGED FeedView
         \/ \E s \in Sessions : WriteCompletes(s) \/ Break(s) \/ StopImpl(s)
         \/ PushBack \/ Erase \/ (StorageStrand /\ StoreAndBroadcast)
<1> SUFFICES ASSUME ~(StorageStrand /\ StoreAndBroadcast), ~PushBack, ~Erase,
                    \A s \in Sessions : ~WriteCompletes(s) /\ ~Break(s) /\ ~StopImpl(s)
             PROVE  UNCHANGED FeedView
  OBVIOUS
<1>0. log' = log
  BY LogSteps
<1> DEFINE Goal == UNCHANGED <<on_stop, gone, destroyed, m_list, base, wire>>
<1>1. ASSUME NEW s \in Sessions, Socket(s) PROVE Goal
  BY <1>1 DEF Socket, ReadCompletes, ReadFails, WriteFails, Wrote, OnSocket, managerVars, lifeVars
<1>2. ASSUME NEW s \in Sessions, SessionStrand(s) PROVE Goal
  BY <1>2 DEF SessionStrand, StartImpl, ReadedData, ReadedPing, ReadedBad, SendImpl, WroteFailed,
              WroteFeed, SyncNext, SyncResume, Handles, SentTrue, OnStrand,
              socketVars, lifeVars, managerVars
<1>3. ASSUME BroadcastImpl \/ StopAll PROVE Goal
  BY <1>3 DEF BroadcastImpl, StopAll, OnManager, socketVars, lifeVars
<1>4. ASSUME NEW s \in Sessions,
             Accept(s) \/ Create(s) \/ StartSync(s) \/ Joined(s) \/ RunDangling(s) \/ Release(s)
      PROVE  Goal
  BY <1>4 DEF Accept, Create, StartSync, Joined, RunDangling, Release, PostManager, OnManager, socketVars,
              lifeVars, managerVars
<1>5. ASSUME StorageStrand \/ SignalHandler PROVE Goal
  BY <1>5 DEF StorageStrand, OtherRequest, SignalHandler, ResetSessions, ResetState, Restart,
              PostManager, OnSignal, socketVars, lifeVars, managerVars
<1>6. ASSUME AcceptorStrand \/ AcceptorGoesOn \/ AcceptorEvent PROVE Goal
  BY <1>6 DEF AcceptorStrand, AcceptorGoesOn, AcceptorEvent, SignalArrives, Alone,
              OnSignal, socketVars, lifeVars, managerVars
<1>7. ASSUME UNCHANGED vars PROVE Goal
  BY <1>7 DEF vars, socketVars, lifeVars, managerVars
<1> HIDE DEF Goal
<1>8. Goal
  BY <1>1, <1>2, <1>3, <1>4, <1>5, <1>6, <1>7 DEF Next, Step, Manager
<1> QED BY <1>0, <1>8 DEF FeedView, Goal

\* The next message of the feed in the socket is the one that is due.
LEMMA DueNext ==
  ASSUME FeedInv, NEW s \in Sessions, Up(s), writing[s] # <<>>, Head(writing[s]).cb = "feed"
  PROVE  LET n == Head(writing[s]).n
         IN  /\ n \in 1..Len(log) /\ n \in Delivered(s) + 1 .. Len(log) /\ log[n].by # s
             /\ \A i \in Delivered(s) + 1 .. n - 1 : log[i].by = s
<1> DEFINE n == Head(writing[s]).n
           d == Delivered(s)
           W == Fed(wire[s])
           R == Fed(writing[s])
           T == Fed(Sends(s))
<1>1. /\ s \in m_list /\ InOrder(s) /\ AllFed(s) = Owed(s) /\ HasLast(wire[s])
      /\ base[s] \in Nat /\ Announced \in Nat /\ Len(log) \in Nat /\ Announced <= Len(log)
  BY AnnouncedBounded, LogTyped
     DEF FeedInv, FeedKept, Up, FeedStatus, Live, Basis, ShapeOK
<1>2. /\ W \cup R \cup T = {i \in base[s] + 1 .. Announced : log[i].by # s}
      /\ Below(W, R) /\ Below(W \cup R, T)
  BY <1>1 DEF AllFed, Owed, InOrder
<1>3. /\ n \in R /\ \A i \in R : i = n \/ n < i
  <2>1. writing[s] \in Seq(Sendable)
    BY StreamsTyped DEF FeedInv, Basis
  <2>2. R = {n} \cup Fed(Tail(writing[s])) /\ Below({n}, Fed(Tail(writing[s])))
    BY <1>1, <2>1, FedTaken DEF FedBy, InOrder
  <2> QED BY <2>2 DEF Below
<1>4. \/ W = {} /\ d = base[s]
      \/ d \in W /\ \A i \in W : i <= d
  BY <1>1, DeliveredIs DEF FeedInv
<1> HIDE DEF n, d, W, R, T
<1>5. /\ d \in Nat /\ base[s] <= d /\ d < n /\ n \in Nat /\ n <= Announced
      /\ n \in base[s] + 1 .. Announced /\ log[n].by # s
  <2>1. n \in base[s] + 1 .. Announced /\ log[n].by # s
    BY <1>2, <1>3
  <2>2. ASSUME d \in W PROVE d \in base[s] + 1 .. Announced /\ d < n
    BY <1>2, <1>3, <2>2 DEF Below
  <2> QED BY <1>1, <1>4, <2>1, <2>2
<1>6. ASSUME NEW i \in d + 1 .. n - 1, log[i].by # s PROVE FALSE
  <2>1. i \in W \cup R \cup T /\ d < i /\ i < n /\ i \in Nat
    <3>1. i \in base[s] + 1 .. Announced /\ d < i /\ i < n /\ i \in Nat
      BY <1>1, <1>5
    <3> QED BY <1>2, <1>6, <3>1
  <2>2. i \notin W
    BY <1>4, <1>5, <2>1
  <2>3. i \notin R
    BY <1>3, <1>5, <2>1
  <2>4. i \notin T
    <3>1. i \in T => n < i
      BY <1>2, <1>3 DEF Below
    <3> QED BY <1>5, <2>1, <3>1
  <2> QED BY <2>1, <2>2, <2>3, <2>4
<1>7. n \in 1..Len(log) /\ n \in d + 1 .. Len(log)
  BY <1>1, <1>5
<1> QED BY <1>5, <1>6, <1>7 DEF n, d

LEMMA FeedStep ==
  ASSUME FeedInv, FeedInv', [Next]_vars
  PROVE  [AbstractFeed!Next]_AbstractFeed!feedVars
<1> DEFINE status == [s \in Clients |-> FeedStatus(s)]
           pos == [s \in Clients |-> Position(s)]
           Goal == [AbstractFeed!Next]_AbstractFeed!feedVars
<1> SUFFICES Goal
  OBVIOUS
<1>1. /\ UNCHANGED <<log, status, pos>> => Goal
      /\ \A change \in Storage!Line :
           log' = Append(log, change) /\ UNCHANGED <<status, pos>> => Goal
      /\ \A c \in Clients :
           \/ /\ status[c] = "new" /\ status' = [status EXCEPT ![c] = "in"]
              /\ \E n \in 0..Len(log) : pos' = [pos EXCEPT ![c] = n]
              /\ UNCHANGED log
           \/ /\ status[c] = "in"
              /\ \E n \in 1..Len(log) :
                   /\ n \in pos[c] + 1 .. Len(log) /\ log[n].by # c
                   /\ \A i \in pos[c] + 1 .. n - 1 : log[i].by = c
                   /\ pos' = [pos EXCEPT ![c] = n]
              /\ UNCHANGED <<log, status>>
           \/ /\ status[c] # "left" /\ status' = [status EXCEPT ![c] = "left"]
              /\ pos' = [pos EXCEPT ![c] = 0] /\ UNCHANGED log
           => Goal
  BY DEF AbstractFeed!feedVars, AbstractFeed!Next, AbstractFeed!Publish, AbstractFeed!Join,
         AbstractFeed!Due, AbstractFeed!Deliver, AbstractFeed!Leave, Clients, Position
<1> HIDE DEF Goal
<1>2. \A s \in Clients : status[s] = FeedStatus(s) /\ pos[s] = Position(s)
  OBVIOUS
<1>3. ASSUME \A s \in Clients : FeedStatus(s)' = FeedStatus(s) /\ Position(s)' = Position(s)
      PROVE  UNCHANGED <<status, pos>>
  BY <1>3
<1>4. ASSUME NEW c \in Clients, NEW f, NEW n, FeedStatus(c)' = f, Position(c)' = n,
             \A s \in Clients \ {c} : FeedStatus(s)' = FeedStatus(s) /\ Position(s)' = Position(s)
      PROVE  status' = [status EXCEPT ![c] = f] /\ pos' = [pos EXCEPT ![c] = n]
  BY <1>4
<1> HIDE DEF status, pos
\* The client's own view is all that a step of its session changes.
<1>5. ASSUME NEW s \in Sessions, on_stop' = on_stop, gone' = gone, destroyed' = destroyed,
             s \in m_list' <=> s \in m_list, base'[s] = base[s], wire'[s] = wire[s]
      PROVE  FeedStatus(s)' = FeedStatus(s) /\ Position(s)' = Position(s)
  BY <1>5 DEF FeedStatus, Position, Delivered
<1>6. CASE UNCHANGED FeedView
  BY <1>1, <1>3, <1>5, <1>6 DEF FeedView, Clients
<1>7. ASSUME NEW s \in Sessions, FeedStatus(s)' = "left", log' = log,
             \A t \in Sessions \ {s} : FeedStatus(t)' = FeedStatus(t) /\ Position(t)' = Position(t)
      PROVE  Goal
  <2>1. Position(s)' = 0
    BY <1>7 DEF Position
  <2>2. CASE s \notin Clients
    BY <1>1, <1>3, <1>7, <2>2 DEF Clients
  <2>3. CASE s \in Clients /\ FeedStatus(s) = "left"
    BY <1>1, <1>3, <1>7, <2>1, <2>3 DEF Clients, Position
  <2>4. CASE s \in Clients /\ FeedStatus(s) # "left"
    <3>1. status' = [status EXCEPT ![s] = "left"] /\ pos' = [pos EXCEPT ![s] = 0]
      BY <1>4, <1>7, <2>1, <2>4 DEF Clients
    <3> QED BY <1>1, <1>2, <1>7, <2>4, <3>1
  <2> QED BY <2>2, <2>3, <2>4
<1>8. ASSUME NEW s \in Sessions, Break(s) \/ StopImpl(s) PROVE Goal
  <2>1. /\ \/ gone' = gone \cup {s} /\ on_stop' = on_stop
           \/ on_stop' = on_stop \cup {s} /\ gone' = gone
        /\ UNCHANGED <<destroyed, m_list, base, wire, log>>
    BY <1>8 DEF Break, StopImpl, Handles, OnSocket, OnStrand, Privately, lifeVars, managerVars,
                storageVars
  <2>2. FeedStatus(s)' = "left"
    BY <2>1 DEF FeedStatus
  <2>3. \A t \in Sessions \ {s} : FeedStatus(t)' = FeedStatus(t) /\ Position(t)' = Position(t)
    BY <2>1 DEF FeedStatus, Position, Delivered
  <2> QED BY <1>7, <2>1, <2>2, <2>3
<1>9. CASE Erase
  <2>1. Head(mgr_strand).s \in Sessions
    BY <1>9, Taken, JobFields DEF Erase, ManagerRuns, FeedInv, Basis, ShapeOK
  <2>2. PICK s \in Sessions : s = Head(mgr_strand).s
    BY <2>1
  <2>3. /\ destroyed' = destroyed \cup {s} /\ m_list' = m_list \ {s}
        /\ UNCHANGED <<on_stop, gone, base, wire, log>>
    BY <1>9, <2>2 DEF Erase, OnManager, socketVars, storageVars
  <2>4. FeedStatus(s)' = "left"
    BY <2>3 DEF FeedStatus
  <2>5. \A t \in Sessions \ {s} : FeedStatus(t)' = FeedStatus(t) /\ Position(t)' = Position(t)
    BY <2>3 DEF FeedStatus, Position, Delivered
  <2> QED BY <1>7, <2>3, <2>4, <2>5
<1>10. CASE StorageStrand /\ StoreAndBroadcast
  <2> DEFINE r == Head(m_strand)
             line == [by |-> r.by, key |-> r.key, val |-> r.val]
  <2>1. /\ r \in SP!Request /\ r.op = "update" /\ SP!Store(r)
    <3>1. SP!InsertNew \/ SP!ChangeValue
      BY <1>10, StoreIs DEF StoreAndBroadcast
    <3> QED BY <3>1, StorageConstants, SP!RunLeaves
            DEF SP!InsertNew, SP!ChangeValue, FeedInv, Basis, PartsOK, SP!IInv, SP!TypeOK
  <2>2. log' = Append(log, line) /\ line \in Storage!Line
    BY <2>1, StorageConstants, SP!RequestFields DEF SP!Store, Storage!Line
  <2>3. UNCHANGED <<on_stop, gone, destroyed, m_list, base, wire>>
    BY <1>10, Publishing DEF StorageStrand, FeedInv, Basis, socketVars, lifeVars
  <2> HIDE DEF line
  <2>4. UNCHANGED <<status, pos>>
    BY <1>3, <1>5, <2>3 DEF Clients
  <2> QED BY <1>1, <2>2, <2>4
<1>11. CASE PushBack
  <2>1. /\ Head(mgr_strand).s \in Sessions /\ 1 \in Queued("push") /\ Head(mgr_strand) = mgr_strand[1]
    BY <1>11, QueuedTaken, JobFields DEF PushBack, ManagerRuns, FeedInv, Basis, ShapeOK
  <2>2. PICK s \in Sessions : s = Head(mgr_strand).s
    BY <2>1
  <2>3. s \notin m_list
    BY <2>1, <2>2 DEF FeedInv, ListedOnce, Pushes
  <2>4. /\ m_list' = m_list \cup {s} /\ base' = [base EXCEPT ![s] = Announced]
        /\ UNCHANGED <<on_stop, gone, destroyed, wire, log>> /\ base \in [Sessions -> Nat]
    BY <1>11, <2>2 DEF PushBack, OnManager, socketVars, lifeVars, storageVars, FeedInv, Basis, ShapeOK
  <2>5. \A t \in Sessions \ {s} : FeedStatus(t)' = FeedStatus(t) /\ Position(t)' = Position(t)
    BY <2>4 DEF FeedStatus, Position, Delivered
  <2>6. CASE s \notin Clients \/ FeedStatus(s) = "left"
    <3>1. FeedStatus(s) = "left" => FeedStatus(s)' = FeedStatus(s) /\ Position(s)' = Position(s)
      BY <2>4 DEF FeedStatus, Position
    <3> QED BY <1>1, <1>3, <2>4, <2>5, <2>6, <3>1 DEF Clients
  <2>7. CASE s \in Clients /\ FeedStatus(s) # "left"
    <3>1. FeedStatus(s) = "new" /\ FeedStatus(s)' = "in" /\ Live(s)
      BY <2>3, <2>4, <2>7 DEF FeedStatus, Live
    <3>2. FeedIn(wire[s]) = {}
      <4>1. AllFed(s) = {}
        BY <2>3, <3>1 DEF FeedInv, FeedKept, Owed
      <4> QED BY <4>1 DEF AllFed, Fed
    <3>3. Position(s)' = Announced
      BY <2>4, <3>1, <3>2 DEF Position, Delivered
    <3>4. Announced \in 0..Len(log)
      BY AnnouncedBounded, LogTyped DEF FeedInv, Basis
    <3>5. status' = [status EXCEPT ![s] = "in"] /\ pos' = [pos EXCEPT ![s] = Announced]
      BY <1>4, <2>5, <2>7, <3>1, <3>3 DEF Clients
    <3> QED BY <1>1, <1>2, <2>4, <2>7, <3>1, <3>4, <3>5
  <2> QED BY <2>6, <2>7
<1>12. ASSUME NEW s \in Sessions, WriteCompletes(s) PROVE Goal
  <2> DEFINE m == Head(writing[s])
             k == Len(wire[s]) + 1
  <2>1. /\ writing[s] # <<>> /\ wire' = [wire EXCEPT ![s] = Append(@, m)] /\ Live(s)
        /\ UNCHANGED <<on_stop, gone, destroyed, m_list, base, log>>
    BY <1>12 DEF WriteCompletes, Wrote, OnSocket, lifeVars, managerVars, storageVars, Live
  <2>2. /\ wire[s] \in Seq(Sendable) /\ m \in Sendable /\ wire'[s] = Append(wire[s], m)
        /\ wire'[s] \in Seq(Sendable)
    <3>1. wire \in [Sessions -> Seq(Message)] /\ writing[s] \in Seq(Sendable) /\ wire[s] \in Seq(Sendable)
      BY StreamsTyped DEF FeedInv, Basis, ShapeOK
    <3>2. m \in Sendable
      BY <2>1, <3>1, Taken
    <3> HIDE DEF m
    <3>3. wire'[s] = Append(wire[s], m)
      BY <2>1, <3>1
    <3> QED BY <3>1, <3>2, <3>3, Posted
  <2>3. \A t \in Sessions \ {s} : FeedStatus(t)' = FeedStatus(t) /\ Position(t)' = Position(t)
    BY <2>1 DEF FeedStatus, Position, Delivered, FeedInv, Basis, ShapeOK
  <2>4. FeedStatus(s)' = FeedStatus(s)
    BY <2>1 DEF FeedStatus
  <2> HIDE DEF m, k
  <2>5. CASE s \in Clients /\ FeedStatus(s) = "in" /\ m.cb = "feed"
    <3>1. Position(s)' = m.n
      <4>1. LastFed(wire'[s], k) /\ wire'[s][k] = m
        BY <2>2, <2>5, LastAppended DEF k
      <4>2. /\ FeedIn(wire'[s]) # {}
            /\ (CHOOSE i \in FeedIn(wire'[s]) : \A j \in FeedIn(wire'[s]) : j <= i) = k
        BY <2>2, <4>1, TheLast
      <4> QED BY <2>4, <2>5, <4>1, <4>2 DEF Position, Delivered
    <3>2. /\ m.n \in 1..Len(log) /\ m.n \in Position(s) + 1 .. Len(log) /\ log[m.n].by # s
          /\ \A i \in Position(s) + 1 .. m.n - 1 : log[i].by = s
      BY <2>1, <2>5, DueNext DEF Position, Up, m
    <3>3. status' = status
      BY <2>3, <2>4 DEF status, Clients
    <3>4. pos' = [pos EXCEPT ![s] = m.n]
      BY <1>4, <2>3, <2>5, <3>1 DEF Clients
    <3> QED BY <1>1, <1>2, <2>1, <2>5, <3>2, <3>3, <3>4
  <2>6. CASE s \notin Clients \/ FeedStatus(s) # "in" \/ m.cb # "feed"
    <3>1. m.cb # "feed" => Delivered(s)' = Delivered(s)
      <4> SUFFICES ASSUME m.cb # "feed" PROVE Delivered(s)' = Delivered(s)
        OBVIOUS
      <4>1. /\ FeedIn(Append(wire[s], m)) = FeedIn(wire[s])
            /\ \A i \in FeedIn(wire[s]) : Append(wire[s], m)[i] = wire[s][i]
        BY <2>2, LastAppended
      <4>2. /\ FeedIn(wire'[s]) = FeedIn(wire[s])
            /\ \A i \in FeedIn(wire[s]) : wire'[s][i] = wire[s][i]
        BY <2>2, <4>1
      <4>3. CASE FeedIn(wire[s]) = {}
        BY <2>1, <4>2, <4>3 DEF Delivered
      <4>4. CASE FeedIn(wire[s]) # {}
        <5>1. PICK i \in FeedIn(wire[s]) : LastFed(wire[s], i)
          BY <2>1, <4>4 DEF FeedInv, FeedKept, HasLast
        <5>2. (CHOOSE k1 \in FeedIn(wire[s]) : \A j \in FeedIn(wire[s]) : j <= k1) = i
          BY <2>2, <5>1, TheLast
        <5>3. Delivered(s) = wire[s][i].n
          BY <4>4, <5>2 DEF Delivered
        <5>4. Delivered(s)' = wire'[s][i].n
          BY <4>2, <4>4, <5>2 DEF Delivered
        <5> QED BY <4>2, <5>3, <5>4
      <4> QED BY <4>3, <4>4
    <3>2. s \in Clients => FeedStatus(s)' = FeedStatus(s) /\ Position(s)' = Position(s)
      BY <2>4, <2>6, <3>1 DEF Position
    <3> QED BY <1>1, <1>3, <2>1, <2>3, <3>2 DEF Clients
  <2> QED BY <2>5, <2>6
<1> QED BY <1>6, <1>8, <1>9, <1>10, <1>11, <1>12, FeedViews

\* The server implements the feed of module Feed at every step it takes.
THEOREM FeedImplemented == Spec => AbstractFeed!SafeSpec
<1>1. Init => AbstractFeed!Init
  <2> SUFFICES ASSUME Init PROVE AbstractFeed!Init
    OBVIOUS
  <2>1. log \in Seq(Storage!Line)
    BY ServerAssumption DEF Init, InitStorage, ServerAssumption, Storage!Line
  <2>2. \A s \in Clients : FeedStatus(s) = "new"
    BY DEF Init, FeedStatus, Clients
  <2> QED BY <2>1, <2>2 DEF AbstractFeed!Init, Clients
<1>2. FeedInv /\ FeedInv' /\ [Next]_vars => [AbstractFeed!Next]_AbstractFeed!feedVars
  BY FeedStep
<1> QED BY <1>1, <1>2, FeedInvHolds, PTL DEF Spec, AbstractFeed!SafeSpec
=============================================================================
