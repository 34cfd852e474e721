------------------------- MODULE StateStorageProofs -------------------------
(***************************************************************************)
(* Proofs about StateStorage, for any sessions, keys, values and bounds.   *)
(***************************************************************************)
EXTENDS StateStorage, SequenceTheorems, TLAPS

\* A request has the fields its operation needs.
LEMMA RequestFields ==
  ASSUME NEW r \in Request
  PROVE  /\ r.op \in {"update", "size", "first", "next", "reset"}
         /\ r.op = "update" => r.by \in Sessions /\ r.key \in Keys /\ r.val \in Values
         /\ r.op \in {"size", "first", "next"} => r.by \in Sessions
         /\ r.op = "next" => r.it \in Iterator
BY DEF Request

\* What running the oldest handler of the strand leaves on it.
LEMMA RunLeaves ==
  ASSUME m_strand \in Seq(Request), NEW op, Runs(op)
  PROVE  /\ Head(m_strand) \in Request /\ Head(m_strand).op = op
         /\ Head(m_strand) = m_strand[1] /\ 1 \in DOMAIN m_strand
         /\ m_strand' \in Seq(Request)
         /\ \A i \in DOMAIN m_strand' :
              i \in Nat /\ i + 1 \in DOMAIN m_strand /\ m_strand'[i] = m_strand[i + 1]
BY HeadTailProperties, LenProperties, EmptySeq DEF Runs

\* What posting a handler leaves on the strand.
LEMMA PostLeaves ==
  ASSUME m_strand \in Seq(Request), NEW r \in Request, Post(r)
  PROVE  /\ m_strand' \in Seq(Request)
         /\ DOMAIN m_strand' = DOMAIN m_strand \cup {Len(m_strand) + 1}
         /\ Len(m_strand) + 1 \notin DOMAIN m_strand
         /\ \A i \in DOMAIN m_strand : m_strand'[i] = m_strand[i]
         /\ m_strand'[Len(m_strand) + 1] = r
BY AppendProperties, LenProperties DEF Post

\* The actions that ask for something all post one request of the caller.
LEMMA AskPosts ==
  ASSUME TypeOK, NEW s \in Sessions, Scan(s)
  PROVE  \E r \in Request :
           /\ Post(r) /\ r.op \in {"size", "first", "next"} /\ r.by = s
           /\ r.op = "next" <=> fut[s] = "found"
           /\ r.op = "next" => r.it = cursor[s]
           /\ fut[s] \in {"none", "sized", "found"}
           /\ fut' = [fut EXCEPT ![s] = "pending"] /\ resetting' = resetting
<1>1. CASE PostSize(s)
  <2>1. [op |-> "size", by |-> s] \in Request
    BY DEF Request
  <2> QED BY <1>1, <2>1 DEF PostSize, Ask
<1>2. CASE PostFirst(s)
  <2>1. [op |-> "first", by |-> s] \in Request
    BY DEF Request
  <2> QED BY <1>2, <2>1 DEF PostFirst, Ask
<1>3. CASE PostNext(s)
  <2>1. [op |-> "next", by |-> s, it |-> cursor[s]] \in Request
    BY DEF Request, TypeOK
  <2> QED BY <1>3, <2>1 DEF PostNext, Ask
<1> QED BY <1>1, <1>2, <1>3 DEF Scan

\* Storing a line gives its key a fresh buffer and leaves the other keys alone.
LEMMA StoreLeaves ==
  ASSUME TypeOK, NEW r \in Request, r.op = "update", Store(r)
  PROVE  /\ Len(log) \in Nat
         /\ log' \in Seq(Line) /\ Len(log') = Len(log) + 1
         /\ \A i \in 1..Len(log) : log'[i] = log[i]
         /\ log'[Len(log) + 1] = [by |-> r.by, key |-> r.key, val |-> r.val]
         /\ DOMAIN log = 1..Len(log) /\ DOMAIN log' = 1..Len(log) + 1
         /\ DOMAIN m_map' = DOMAIN m_map \cup {r.key}
         /\ \A k \in DOMAIN m_map : k # r.key => m_map'[k] = m_map[k]
         /\ m_map'[r.key] =
              [key |-> Len(log) + 1, val |-> Len(log) + 1, key_val |-> Len(log) + 1]
         /\ m_map' \in [DOMAIN m_map' -> MapValue]
         /\ \A k \in DOMAIN m_map' : m_map'[k].val \in 1..Len(log')
<1> DEFINE line == [by |-> r.by, key |-> r.key, val |-> r.val]
           n == Len(log) + 1
<1>1. line \in Line
  BY RequestFields DEF Line
<1>2. log \in Seq(Line) /\ Len(log) \in Nat /\ DOMAIN log = 1..Len(log)
  BY LenProperties DEF TypeOK
<1>3. /\ log' \in Seq(Line) /\ Len(log') = n
      /\ \A i \in 1..Len(log) : log'[i] = log[i]
      /\ log'[n] = line
      /\ DOMAIN log' = 1..n
  <2>1. log' = Append(log, line)
    BY DEF Store
  <2> QED BY <1>1, <1>2, <2>1, AppendProperties, LenProperties
<1>4. /\ DOMAIN m_map' = DOMAIN m_map \cup {r.key}
      /\ \A k \in DOMAIN m_map : k # r.key => m_map'[k] = m_map[k]
      /\ m_map'[r.key] = [key |-> n, val |-> n, key_val |-> n]
      /\ m_map' = [k \in DOMAIN m_map \cup {r.key} |-> m_map'[k]]
  BY DEF Store
<1>5. \A k \in DOMAIN m_map' :
        m_map'[k] \in MapValue /\ m_map'[k].val \in 1..n
  BY <1>2, <1>4 DEF MapValue, TypeOK
<1> HIDE DEF line, n
<1>6. m_map' \in [DOMAIN m_map' -> MapValue]
  BY <1>4, <1>5
<1> QED BY <1>2, <1>3, <1>4, <1>5, <1>6 DEF line, n

-----------------------------------------------------------------------------
(* Type correctness. *)

LEMMA TypeInit == Init => TypeOK
<1> SUFFICES ASSUME Init PROVE TypeOK
  OBVIOUS
<1>1. DOMAIN m_map = {} /\ m_map \in [DOMAIN m_map -> MapValue]
  BY DEF Init
<1>2. m_strand \in Seq(Request) /\ log \in Seq(Line)
  BY DEF Init
<1>3. cursor \in [Sessions -> Iterator] /\ got \in [Sessions -> Seq(Nat)]
  BY DEF Init, Iterator
<1> QED BY <1>1, <1>2, <1>3 DEF Init, TypeOK

\* An answer to a scan: a pair and an iterator to it, or none.
LEMMA AnswerTypes ==
  ASSUME TypeOK, NEW s \in Sessions, (\E k \in DOMAIN m_map : Give(s, k)) \/ Latest(s)
  PROVE  /\ fut' \in [Sessions ->
              {"none", "pending", "sized", "found", "latest", "undefined"}]
         /\ cursor' \in [Sessions -> Iterator]
         /\ got' \in [Sessions -> Seq(Nat)]
<1> DEFINE Goal == /\ fut' \in [Sessions ->
                        {"none", "pending", "sized", "found", "latest", "undefined"}]
                   /\ cursor' \in [Sessions -> Iterator]
                   /\ got' \in [Sessions -> Seq(Nat)]
<1>1. CASE Latest(s)
  BY <1>1 DEF Latest, TypeOK
<1>2. ASSUME NEW k \in DOMAIN m_map, Give(s, k) PROVE Goal
  <2>1. [key |-> k, gen |-> m_gen] \in [key : Keys \cup {0}, gen : Nat]
    BY DEF TypeOK
  <2>2. m_map[k].key_val \in Nat
    BY DEF MapValue, TypeOK
  <2>3. Append(got[s], m_map[k].key_val) \in Seq(Nat)
    BY <2>2, AppendProperties DEF TypeOK
  <2> QED BY <1>2, <2>1, <2>3 DEF Give, Iterator, TypeOK
<1> QED BY <1>1, <1>2

LEMMA TypeNext == TypeOK /\ [Next]_vars => TypeOK'
<1> SUFFICES ASSUME TypeOK, [Next]_vars PROVE TypeOK'
  OBVIOUS
<1>1. ASSUME NEW s \in Sessions, NEW k \in Keys, NEW v \in Values, PostUpdate(s, k, v)
      PROVE  TypeOK'
  <2>1. [op |-> "update", by |-> s, key |-> k, val |-> v] \in Request
    BY DEF Request
  <2> QED BY <1>1, <2>1, PostLeaves DEF PostUpdate, Post, TypeOK
<1>2. ASSUME NEW s \in Sessions, Scan(s) PROVE TypeOK'
  <2>1. PICK r \in Request : Post(r) /\ fut' = [fut EXCEPT ![s] = "pending"]
                               /\ resetting' = resetting
    BY <1>2, AskPosts
  <2> QED BY <2>1, PostLeaves DEF Post, TypeOK
<1>3. CASE PostReset
  <2>1. [op |-> "reset"] \in Request
    BY DEF Request
  <2> QED BY <1>3, <2>1, PostLeaves DEF PostReset, Post, TypeOK
<1>4. CASE InsertNew \/ ChangeValue
  <2>1. Runs("update") /\ Store(Head(m_strand))
        /\ UNCHANGED <<m_gen, fut, resetting, cursor, from, got>>
    BY <1>4 DEF InsertNew, ChangeValue
  <2>2. Head(m_strand) \in Request /\ Head(m_strand).op = "update"
        /\ m_strand' \in Seq(Request)
    BY <2>1, RunLeaves DEF TypeOK
  <2>3. Head(m_strand).key \in Keys
    BY <2>2, RequestFields
  <2>4. /\ log' \in Seq(Line)
        /\ DOMAIN m_map' = DOMAIN m_map \cup {Head(m_strand).key}
        /\ m_map' \in [DOMAIN m_map' -> MapValue]
        /\ \A k \in DOMAIN m_map' : m_map'[k].val \in 1..Len(log')
    BY <2>1, <2>2, StoreLeaves
  <2> QED BY <2>1, <2>2, <2>3, <2>4 DEF TypeOK
<1>5. CASE KeepValue
  BY <1>5, RunLeaves DEF KeepValue, TypeOK
<1>6. CASE SizeImpl
  BY <1>6, RunLeaves DEF SizeImpl, TypeOK
<1>7. CASE GetFirstImpl
  <2> DEFINE s == Head(m_strand).by
  <2>1. s \in Sessions /\ m_strand' \in Seq(Request)
    BY <1>7, RunLeaves, RequestFields DEF GetFirstImpl, TypeOK
  <2>2. Len(log) \in Nat
    BY LenProperties DEF TypeOK
  <2>3. from' \in [Sessions -> Nat]
    BY <1>7, <2>1, <2>2 DEF GetFirstImpl, TypeOK
  <2>4. (\E k \in DOMAIN m_map : Give(s, k)) \/ Latest(s)
    BY <1>7 DEF GetFirstImpl
  <2>5. /\ fut' \in [Sessions ->
             {"none", "pending", "sized", "found", "latest", "undefined"}]
        /\ cursor' \in [Sessions -> Iterator]
        /\ got' \in [Sessions -> Seq(Nat)]
    BY <2>1, <2>4, AnswerTypes
  <2> QED BY <1>7, <2>1, <2>3, <2>5 DEF GetFirstImpl, TypeOK
<1>8. CASE GetNextImpl
  <2>1. Head(m_strand).by \in Sessions /\ m_strand' \in Seq(Request)
    BY <1>8, RunLeaves, RequestFields DEF GetNextImpl, TypeOK
  <2>2. /\ fut' \in [Sessions ->
             {"none", "pending", "sized", "found", "latest", "undefined"}]
        /\ cursor' \in [Sessions -> Iterator]
        /\ got' \in [Sessions -> Seq(Nat)]
    BY <1>8, <2>1, AnswerTypes DEF GetNextImpl
  <2> QED BY <1>8, <2>1, <2>2 DEF GetNextImpl, TypeOK
<1>9. CASE GetNextDangling
  BY <1>9, RunLeaves DEF GetNextDangling, TypeOK
<1>10. CASE ResetImpl
  <2>1. m_strand' \in Seq(Request) /\ m_gen' \in Nat
    BY <1>10, RunLeaves DEF ResetImpl, TypeOK
  <2>2. DOMAIN m_map' = {} /\ m_map' \in [DOMAIN m_map' -> MapValue]
    BY <1>10 DEF ResetImpl
  <2> QED BY <1>10, <2>1, <2>2 DEF ResetImpl, TypeOK
<1>11. CASE UNCHANGED vars
  BY <1>11 DEF vars, TypeOK
<1> QED BY <1>1, <1>2, <1>3, <1>4, <1>5, <1>6, <1>7, <1>8, <1>9, <1>10, <1>11
       DEF Next, Strand

\* The storage, its strand and the scans stay well formed.
THEOREM TypeCorrect == Spec => []TypeOK
BY TypeInit, TypeNext, PTL DEF Spec

-----------------------------------------------------------------------------
(* The map. *)

\* A step stores a line, deletes the map, or leaves the map and the log alone.
LEMMA MapSteps ==
  ASSUME TypeOK, [Next]_vars
  PROVE  \/ UNCHANGED <<m_map, m_gen, log>>
         \/ /\ InsertNew \/ ChangeValue
            /\ Head(m_strand) \in Request /\ Head(m_strand).op = "update"
            /\ Store(Head(m_strand)) /\ UNCHANGED <<m_gen, fut, cursor, from, got>>
         \/ ResetImpl /\ DOMAIN m_map' = {} /\ log' = log /\ m_gen' = m_gen + 1
<1>1. ASSUME NEW s \in Sessions, NEW k \in Keys, NEW v \in Values, PostUpdate(s, k, v)
      PROVE  UNCHANGED <<m_map, m_gen, log>>
  BY <1>1 DEF PostUpdate, Post
<1>2. ASSUME NEW s \in Sessions, Scan(s) PROVE UNCHANGED <<m_map, m_gen, log>>
  BY <1>2, AskPosts DEF Post
<1>3. CASE PostReset
  BY <1>3 DEF PostReset, Post
<1>4. CASE InsertNew \/ ChangeValue
  <2>1. Runs("update") /\ Store(Head(m_strand)) /\ UNCHANGED <<m_gen, fut, cursor, from, got>>
    BY <1>4 DEF InsertNew, ChangeValue
  <2> QED BY <1>4, <2>1, RunLeaves DEF TypeOK
<1>5. CASE KeepValue \/ SizeImpl \/ GetFirstImpl \/ GetNextImpl \/ GetNextDangling
  BY <1>5 DEF KeepValue, SizeImpl, GetFirstImpl, GetNextImpl, GetNextDangling
<1>6. CASE ResetImpl
  BY <1>6 DEF ResetImpl
<1>7. CASE UNCHANGED vars
  BY <1>7 DEF vars
<1> QED BY <1>1, <1>2, <1>3, <1>4, <1>5, <1>6, <1>7 DEF Next, Strand

LEMMA ViewsOwnedNext == TypeOK /\ ViewsOwned /\ [Next]_vars => ViewsOwned'
<1> SUFFICES ASSUME TypeOK, ViewsOwned, [Next]_vars PROVE ViewsOwned'
  OBVIOUS
<1>1. CASE UNCHANGED <<m_map, m_gen, log>>
  BY <1>1 DEF ViewsOwned
<1>2. ASSUME Head(m_strand) \in Request, Head(m_strand).op = "update",
             Store(Head(m_strand))
      PROVE  ViewsOwned'
  <2> DEFINE r == Head(m_strand)
  <2>1. /\ Len(log) \in Nat
        /\ DOMAIN log = 1..Len(log) /\ DOMAIN log' = 1..Len(log) + 1
        /\ \A i \in 1..Len(log) : log'[i] = log[i]
        /\ log'[Len(log) + 1] = [by |-> r.by, key |-> r.key, val |-> r.val]
    BY <1>2, StoreLeaves
  <2>2. /\ DOMAIN m_map' = DOMAIN m_map \cup {r.key}
        /\ \A k \in DOMAIN m_map : k # r.key => m_map'[k] = m_map[k]
        /\ m_map'[r.key] =
             [key |-> Len(log) + 1, val |-> Len(log) + 1, key_val |-> Len(log) + 1]
    BY <1>2, StoreLeaves
  <2> QED BY <2>1, <2>2 DEF ViewsOwned
<1>3. CASE DOMAIN m_map' = {}
  BY <1>3 DEF ViewsOwned
<1> QED BY <1>1, <1>2, <1>3, MapSteps

LEMMA LatestWinsNext ==
  TypeOK /\ ViewsOwned /\ LatestWins /\ [Next]_vars => LatestWins'
<1> SUFFICES ASSUME TypeOK, ViewsOwned, LatestWins, [Next]_vars PROVE LatestWins'
  OBVIOUS
<1>1. CASE UNCHANGED <<m_map, m_gen, log>>
  BY <1>1 DEF LatestWins
<1>2. ASSUME Head(m_strand) \in Request, Head(m_strand).op = "update",
             Store(Head(m_strand))
      PROVE  LatestWins'
  <2> DEFINE r == Head(m_strand)
  <2>1. /\ Len(log) \in Nat
        /\ DOMAIN log = 1..Len(log) /\ DOMAIN log' = 1..Len(log) + 1
        /\ \A i \in 1..Len(log) : log'[i] = log[i]
        /\ log'[Len(log) + 1] = [by |-> r.by, key |-> r.key, val |-> r.val]
    BY <1>2, StoreLeaves
  <2>2. /\ DOMAIN m_map' = DOMAIN m_map \cup {r.key}
        /\ \A k \in DOMAIN m_map : k # r.key => m_map'[k] = m_map[k]
        /\ m_map'[r.key] =
             [key |-> Len(log) + 1, val |-> Len(log) + 1, key_val |-> Len(log) + 1]
    BY <1>2, StoreLeaves
  <2>3. SUFFICES ASSUME NEW k \in DOMAIN m_map', NEW i \in DOMAIN log',
                        i > m_map'[k].key_val
                 PROVE  log'[i].key # k
    BY DEF LatestWins
  <2>4. CASE k = r.key
    BY <2>1, <2>2, <2>3, <2>4
  <2>5. CASE k # r.key /\ i = Len(log) + 1
    BY <2>1, <2>5
  <2>6. CASE k # r.key /\ i \in 1..Len(log)
    BY <2>1, <2>2, <2>3, <2>6 DEF LatestWins
  <2> QED BY <2>1, <2>4, <2>5, <2>6
<1>3. CASE DOMAIN m_map' = {}
  BY <1>3 DEF LatestWins
<1> QED BY <1>1, <1>2, <1>3, MapSteps

-----------------------------------------------------------------------------
(* The scans. *)

\* Running a handler keeps OneRequest when it answers no session but its caller.
LEMMA RunKeepsOneRequest ==
  ASSUME TypeOK, OneRequest, NEW op, Runs(op),
         \A t \in Sessions :
           (Asks(1) => t # Head(m_strand).by)
             => fut'[t] = fut[t] /\ cursor'[t] = cursor[t]
  PROVE  OneRequest'
<1>1. /\ Head(m_strand) = m_strand[1] /\ 1 \in DOMAIN m_strand
      /\ m_strand' \in Seq(Request)
      /\ \A i \in DOMAIN m_strand' :
           i \in Nat /\ i + 1 \in DOMAIN m_strand /\ m_strand'[i] = m_strand[i + 1]
  BY RunLeaves DEF TypeOK
<1>2. DOMAIN m_strand' = 1..Len(m_strand')
  BY <1>1, LenProperties
<1>3. \A i \in DOMAIN m_strand : m_strand[i] \in Request
  BY LenProperties, ElementOfSeq DEF TypeOK
<1>4. SUFFICES ASSUME NEW i \in DOMAIN m_strand', Asks(i)'
               PROVE  /\ fut'[m_strand'[i].by] = "pending"
                      /\ m_strand'[i].op = "next" => m_strand'[i].it = cursor'[m_strand'[i].by]
                      /\ m_strand'[i].op # "next" => cursor'[m_strand'[i].by].key = 0
                      /\ \A j \in DOMAIN m_strand' :
                           Asks(j)' /\ m_strand'[j].by = m_strand'[i].by => i = j
  BY DEF OneRequest
<1>5. Asks(i + 1) /\ i + 1 # 1 /\ m_strand'[i] = m_strand[i + 1] /\ i + 1 \in DOMAIN m_strand
  BY <1>1, <1>2, <1>4 DEF Asks
<1>6. m_strand[i + 1].by \in Sessions /\ (Asks(1) => m_strand[i + 1].by # m_strand[1].by)
  BY <1>1, <1>3, <1>5, RequestFields DEF OneRequest, Asks
<1>7. /\ fut'[m_strand[i + 1].by] = fut[m_strand[i + 1].by]
      /\ cursor'[m_strand[i + 1].by] = cursor[m_strand[i + 1].by]
  BY <1>1, <1>6
<1>8. ASSUME NEW j \in DOMAIN m_strand', Asks(j)', m_strand'[j].by = m_strand'[i].by
      PROVE  i = j
  <2>1. Asks(j + 1) /\ m_strand[j + 1].by = m_strand[i + 1].by /\ j + 1 \in DOMAIN m_strand
    BY <1>1, <1>8 DEF Asks
  <2>2. i + 1 = j + 1
    BY <1>5, <2>1 DEF OneRequest
  <2> QED BY <1>1, <2>2
<1> QED BY <1>5, <1>7, <1>8 DEF OneRequest

LEMMA OneRequestNext ==
  TypeOK /\ OneRequest /\ NotBegun /\ [Next]_vars => OneRequest'
<1> SUFFICES ASSUME TypeOK, OneRequest, NotBegun, [Next]_vars PROVE OneRequest'
  OBVIOUS
<1>1. ASSUME NEW r \in Request, Post(r), r.op \in {"update", "reset"}, UNCHANGED <<fut, cursor>>
      PROVE  OneRequest'
  <2> DEFINE n == Len(m_strand) + 1
  <2>1. /\ DOMAIN m_strand' = DOMAIN m_strand \cup {n}
        /\ \A i \in DOMAIN m_strand : m_strand'[i] = m_strand[i]
        /\ m_strand'[n] = r
    BY <1>1, PostLeaves DEF TypeOK
  <2> HIDE DEF n
  <2> QED BY <1>1, <2>1 DEF OneRequest, Asks
<1>2. ASSUME NEW s \in Sessions, NEW k \in Keys, NEW v \in Values, PostUpdate(s, k, v)
      PROVE  OneRequest'
  <2>1. [op |-> "update", by |-> s, key |-> k, val |-> v] \in Request
    BY DEF Request
  <2> QED BY <1>1, <1>2, <2>1 DEF PostUpdate, Post
<1>3. CASE PostReset
  <2>1. [op |-> "reset"] \in Request
    BY DEF Request
  <2> QED BY <1>1, <1>3, <2>1 DEF PostReset, Post
<1>4. ASSUME NEW s \in Sessions, Scan(s) PROVE OneRequest'
  <2>1. PICK r \in Request :
           /\ Post(r) /\ r.op \in {"size", "first", "next"} /\ r.by = s
           /\ r.op = "next" <=> fut[s] = "found"
           /\ r.op = "next" => r.it = cursor[s]
           /\ fut[s] \in {"none", "sized", "found"}
           /\ fut' = [fut EXCEPT ![s] = "pending"]
    BY <1>4, AskPosts
  <2> DEFINE n == Len(m_strand) + 1
  <2>2. /\ DOMAIN m_strand' = DOMAIN m_strand \cup {n}
        /\ n \notin DOMAIN m_strand
        /\ \A i \in DOMAIN m_strand : m_strand'[i] = m_strand[i]
        /\ m_strand'[n] = r
        /\ cursor' = cursor
    BY <2>1, PostLeaves DEF Post, TypeOK
  <2>3. \A i \in DOMAIN m_strand : Asks(i) => m_strand[i].by # s
    BY <2>1 DEF OneRequest
  <2>4. fut'[s] = "pending" /\ \A t : t # s => fut'[t] = fut[t]
    BY <2>1 DEF TypeOK
  <2>5. r.op # "next" => cursor[s].key = 0
    BY <2>1 DEF NotBegun
  <2> HIDE DEF n
  <2> QED BY <2>1, <2>2, <2>3, <2>4, <2>5 DEF OneRequest, Asks
<1>5. CASE InsertNew \/ ChangeValue \/ KeepValue \/ ResetImpl
  <2>1. /\ Runs("update") \/ Runs("reset")
        /\ UNCHANGED <<fut, cursor>>
    BY <1>5 DEF InsertNew, ChangeValue, KeepValue, ResetImpl
  <2> QED BY <2>1, RunKeepsOneRequest
<1>6. CASE SizeImpl \/ GetFirstImpl \/ GetNextImpl \/ GetNextDangling
  <2>1. PICK op \in {"size", "first", "next"} : Runs(op)
    BY <1>6 DEF SizeImpl, GetFirstImpl, GetNextImpl, GetNextDangling
  <2>2. Head(m_strand) = m_strand[1] /\ Asks(1)
    BY <2>1, RunLeaves DEF Asks, TypeOK
  <2>3. \A t \in Sessions : t # Head(m_strand).by
          => fut'[t] = fut[t] /\ cursor'[t] = cursor[t]
    BY <1>6 DEF SizeImpl, GetFirstImpl, GetNextImpl, GetNextDangling, Give, Latest, TypeOK
  <2> QED BY <2>1, <2>2, <2>3, RunKeepsOneRequest
<1>7. CASE UNCHANGED vars
  BY <1>7 DEF vars, OneRequest, Asks
<1> QED BY <1>2, <1>3, <1>4, <1>5, <1>6, <1>7 DEF Next, Strand

\* What the request that is running knows of its caller.
LEMMA Answering ==
  ASSUME TypeOK, OneRequest, NEW op \in {"size", "first", "next"}, Runs(op)
  PROVE  /\ Head(m_strand).by \in Sessions
         /\ fut[Head(m_strand).by] = "pending"
         /\ op = "next" => Head(m_strand).it = cursor[Head(m_strand).by]
         /\ op # "next" => cursor[Head(m_strand).by].key = 0
<1>1. /\ Head(m_strand) \in Request /\ Head(m_strand).op = op
      /\ Head(m_strand) = m_strand[1] /\ 1 \in DOMAIN m_strand
  BY RunLeaves DEF TypeOK
<1> QED BY <1>1, RequestFields DEF OneRequest, Asks

LEMMA NotBegunNext == TypeOK /\ OneRequest /\ NotBegun /\ [Next]_vars => NotBegun'
<1> SUFFICES ASSUME TypeOK, OneRequest, NotBegun, [Next]_vars PROVE NotBegun'
  OBVIOUS
<1>1. CASE UNCHANGED <<fut, cursor>>
  BY <1>1 DEF NotBegun
<1>2. ASSUME NEW s \in Sessions, Scan(s) PROVE NotBegun'
  BY <1>2, AskPosts DEF NotBegun, Post, TypeOK
<1>3. CASE SizeImpl
  BY <1>3, Answering DEF SizeImpl, NotBegun, TypeOK
<1>4. CASE GetFirstImpl \/ GetNextImpl \/ GetNextDangling
  BY <1>4 DEF GetFirstImpl, GetNextImpl, GetNextDangling, Give, Latest, NotBegun, TypeOK
<1>5. CASE PostReset \/ InsertNew \/ ChangeValue \/ KeepValue \/ ResetImpl
  BY <1>1, <1>5 DEF PostReset, Post, InsertNew, ChangeValue, KeepValue, ResetImpl
<1>6. ASSUME NEW s \in Sessions, NEW k \in Keys, NEW v \in Values, PostUpdate(s, k, v)
      PROVE  NotBegun'
  BY <1>1, <1>6 DEF PostUpdate, Post
<1>7. CASE UNCHANGED vars
  BY <1>1, <1>7 DEF vars
<1> QED BY <1>2, <1>3, <1>4, <1>5, <1>6, <1>7 DEF Next, Strand

LEMMA FromLoggedNext == TypeOK /\ FromLogged /\ [Next]_vars => FromLogged'
<1> SUFFICES ASSUME TypeOK, FromLogged, [Next]_vars PROVE FromLogged'
  OBVIOUS
<1>1. Len(log) \in Nat
  BY LenProperties DEF TypeOK
<1>2. CASE UNCHANGED <<from, log>>
  BY <1>2 DEF FromLogged
<1>3. CASE InsertNew \/ ChangeValue
  <2>1. Len(log') = Len(log) + 1 /\ from' = from
    BY <1>3, RunLeaves, StoreLeaves DEF InsertNew, ChangeValue, TypeOK
  <2> QED BY <1>1, <2>1 DEF FromLogged, TypeOK
<1>4. CASE GetFirstImpl
  BY <1>1, <1>4 DEF GetFirstImpl, FromLogged, TypeOK
<1>5. CASE PostReset \/ KeepValue \/ SizeImpl \/ GetNextImpl \/ GetNextDangling \/ ResetImpl
  BY <1>2, <1>5
     DEF PostReset, Post, KeepValue, SizeImpl, GetNextImpl, GetNextDangling, ResetImpl
<1>6. ASSUME NEW s \in Sessions, NEW k \in Keys, NEW v \in Values, PostUpdate(s, k, v)
      PROVE  FromLogged'
  BY <1>2, <1>6 DEF PostUpdate, Post
<1>7. ASSUME NEW s \in Sessions, Scan(s) PROVE FromLogged'
  BY <1>2, <1>7, AskPosts DEF Post
<1>8. CASE UNCHANGED vars
  BY <1>2, <1>8 DEF vars
<1> QED BY <1>3, <1>4, <1>5, <1>6, <1>7, <1>8 DEF Next, Strand

\* A pair behind session s's scan is accounted for.
Accounted(s, k) ==
  \/ \E i \in DOMAIN got[s] : got[s][i] = m_map[k].key_val
  \/ m_map[k].key_val > from[s]

\* Handing session s the pair of key j adds it to what s has been given.
LEMMA GiveAdds ==
  ASSUME TypeOK, NEW s \in Sessions, NEW j \in DOMAIN m_map, Give(s, j), m_map' = m_map
  PROVE  /\ fut'[s] = "found" /\ cursor'[s].key = j
         /\ \E i \in DOMAIN got'[s] : got'[s][i] = m_map'[j].key_val
         /\ \A n : (\E i \in DOMAIN got[s] : got[s][i] = n)
                     => \E i \in DOMAIN got'[s] : got'[s][i] = n
         /\ \A t \in Sessions : t # s => /\ fut'[t] = fut[t] /\ cursor'[t] = cursor[t]
                                         /\ got'[t] = got[t]
<1>1. m_map[j].key_val \in Nat
  BY DEF MapValue, TypeOK
<1>2. got[s] \in Seq(Nat) /\ got'[s] = Append(got[s], m_map[j].key_val)
  BY DEF Give, TypeOK
<1>3. /\ \A i \in 1..Len(got[s]) : got'[s][i] = got[s][i]
      /\ got'[s][Len(got[s]) + 1] = m_map[j].key_val
      /\ DOMAIN got[s] = 1..Len(got[s]) /\ DOMAIN got'[s] = 1..Len(got[s]) + 1
      /\ Len(got[s]) \in Nat
  BY <1>1, <1>2, AppendProperties, LenProperties
<1>4. /\ fut'[s] = "found" /\ cursor'[s].key = j
      /\ \A t \in Sessions : t # s => /\ fut'[t] = fut[t] /\ cursor'[t] = cursor[t]
                                      /\ got'[t] = got[t]
  BY DEF Give, TypeOK
<1> QED BY <1>3, <1>4

LEMMA ScanCoversNext ==
  /\ TypeOK /\ ViewsOwned /\ OneRequest /\ FromLogged /\ ScanCovers
  /\ [Next]_vars
  => ScanCovers'
<1> SUFFICES ASSUME TypeOK, ViewsOwned, OneRequest, FromLogged, ScanCovers, [Next]_vars
             PROVE  ScanCovers'
  OBVIOUS
<1>1. DOMAIN m_map \subseteq Nat /\ \A s \in Sessions : cursor[s].key \in Nat
  BY StorageAssumption DEF TypeOK, Iterator
<1>2. ASSUME UNCHANGED <<m_map, cursor, from, got>>,
             \A s \in Sessions : fut'[s] = "latest" => fut[s] = "latest"
      PROVE  ScanCovers'
  BY <1>2 DEF ScanCovers, Passed
<1>3. CASE InsertNew \/ ChangeValue
  <2> DEFINE r == Head(m_strand)
  <2>1. /\ r \in Request /\ r.op = "update" /\ Store(r)
        /\ UNCHANGED <<fut, cursor, from, got>>
    BY <1>3, RunLeaves DEF InsertNew, ChangeValue, TypeOK
  <2>2. /\ Len(log) \in Nat /\ DOMAIN m_map' = DOMAIN m_map \cup {r.key}
        /\ \A k \in DOMAIN m_map : k # r.key => m_map'[k] = m_map[k]
        /\ m_map'[r.key] =
             [key |-> Len(log) + 1, val |-> Len(log) + 1, key_val |-> Len(log) + 1]
    BY <2>1, StoreLeaves
  <2>3. \A s \in Sessions : from[s] \in Nat /\ Len(log) + 1 > from[s]
    BY <2>2 DEF FromLogged, TypeOK
  <2>4. SUFFICES ASSUME NEW s \in Sessions, NEW k \in DOMAIN m_map', Passed(s, k)
                 PROVE  Accounted(s, k)'
    BY <2>1 DEF ScanCovers, Passed, Accounted
  <2>5. CASE k = r.key
    BY <2>1, <2>2, <2>3, <2>5 DEF Accounted
  <2>6. CASE k # r.key
    BY <2>1, <2>2, <2>4, <2>6 DEF ScanCovers, Accounted
  <2> QED BY <2>5, <2>6
<1>4. CASE GetFirstImpl \/ GetNextImpl
  <2>0. PICK s \in Sessions : s = Head(m_strand).by
    BY <1>4, Answering DEF GetFirstImpl, GetNextImpl
  <2>1. /\ UNCHANGED <<m_map, log>>
        /\ \A t \in Sessions : t # s => from'[t] = from[t]
    BY <1>4, <2>0 DEF GetFirstImpl, GetNextImpl, TypeOK
  <2>2. /\ GetFirstImpl => from'[s] = Len(log)
        /\ GetNextImpl => from'[s] = from[s] /\ Head(m_strand).it = cursor[s]
    BY <2>0, Answering DEF GetFirstImpl, GetNextImpl, TypeOK
  <2>3. ASSUME NEW j \in DOMAIN m_map, Give(s, j),
               \/ GetFirstImpl /\ IsFirst(j)
               \/ GetNextImpl /\ IsNext(cursor[s].key, j)
        PROVE  ScanCovers'
    <3>1. /\ fut'[s] = "found" /\ cursor'[s].key = j
          /\ \E i \in DOMAIN got'[s] : got'[s][i] = m_map'[j].key_val
          /\ \A n : (\E i \in DOMAIN got[s] : got[s][i] = n)
                      => \E i \in DOMAIN got'[s] : got'[s][i] = n
          /\ \A t \in Sessions : t # s => /\ fut'[t] = fut[t] /\ cursor'[t] = cursor[t]
                                          /\ got'[t] = got[t]
      BY <2>1, <2>3, GiveAdds
    <3>2. ASSUME NEW k \in DOMAIN m_map, Passed(s, k)' PROVE Accounted(s, k)'
      <4>1. k <= j
        BY <3>1, <3>2 DEF Passed
      <4>2. CASE k = j
        BY <3>1, <4>2 DEF Accounted
      <4>3. CASE k # j
        <5>1. GetNextImpl /\ k <= cursor[s].key
          BY <1>1, <2>3, <4>1, <4>3 DEF IsFirst, IsNext
        <5> QED BY <2>1, <2>2, <3>1, <5>1 DEF ScanCovers, Passed, Accounted
      <4> QED BY <4>2, <4>3
    <3>3. ASSUME NEW t \in Sessions, t # s, NEW k \in DOMAIN m_map, Passed(t, k)'
          PROVE  Accounted(t, k)'
      BY <2>1, <3>1, <3>3 DEF ScanCovers, Passed, Accounted
    <3> QED BY <2>1, <3>2, <3>3 DEF ScanCovers, Accounted
  <2>4. ASSUME Latest(s),
               \/ DOMAIN m_map = {}
               \/ GetNextImpl /\ IsLast(cursor[s].key)
        PROVE  ScanCovers'
    <3>1. /\ UNCHANGED <<cursor, got>>
          /\ \A t \in Sessions : t # s => fut'[t] = fut[t]
      BY <2>4 DEF Latest, TypeOK
    <3>2. ASSUME NEW k \in DOMAIN m_map PROVE Accounted(s, k)'
      BY <2>1, <2>2, <2>4, <3>1, <3>2 DEF IsLast, ScanCovers, Passed, Accounted
    <3>3. ASSUME NEW t \in Sessions, t # s, NEW k \in DOMAIN m_map, Passed(t, k)'
          PROVE  Accounted(t, k)'
      BY <2>1, <3>1, <3>3 DEF ScanCovers, Passed, Accounted
    <3> QED BY <2>1, <3>2, <3>3 DEF ScanCovers, Accounted
  <2> QED BY <1>4, <2>0, <2>2, <2>3, <2>4 DEF GetFirstImpl, GetNextImpl, IsFirst, IsNext
<1>5. CASE ResetImpl
  BY <1>5 DEF ResetImpl, ScanCovers
<1>6. CASE PostReset \/ KeepValue \/ SizeImpl \/ GetNextDangling
  BY <1>2, <1>6 DEF PostReset, Post, KeepValue, SizeImpl, GetNextDangling, TypeOK
<1>7. ASSUME NEW s \in Sessions, NEW k \in Keys, NEW v \in Values, PostUpdate(s, k, v)
      PROVE  ScanCovers'
  BY <1>2, <1>7 DEF PostUpdate, Post
<1>8. ASSUME NEW s \in Sessions, Scan(s) PROVE ScanCovers'
  BY <1>2, <1>8, AskPosts DEF Post, TypeOK
<1>9. CASE UNCHANGED vars
  BY <1>2, <1>9 DEF vars
<1> QED BY <1>3, <1>4, <1>5, <1>6, <1>7, <1>8, <1>9 DEF Next, Strand

-----------------------------------------------------------------------------
(* What the callers see of an answer. *)

\* The pair a session holds the iterator of is the last one it was given, and a
\* next pair is asked for only by a session that holds one.
Scanning ==
  /\ \A s \in Sessions : fut[s] = "found" => cursor[s].key # 0
  /\ \A s \in Sessions : cursor[s].key # 0 =>
       /\ got[s] # <<>> /\ got[s][Len(got[s])] \in DOMAIN log
       /\ log[got[s][Len(got[s])]].key = cursor[s].key
  /\ \A i \in DOMAIN m_strand :
       m_strand[i].op = "next" => cursor[m_strand[i].by].key # 0

\* A session is given a pair, or told that there is none left.
Given(s) ==
  \/ /\ fut'[s] = "found" /\ cursor'[s].key \in DOMAIN m_map
     /\ got'[s] = Append(got[s], m_map[cursor'[s].key].key_val)
  \/ fut'[s] \in {"latest", "undefined"} /\ cursor'[s] = cursor[s] /\ got'[s] = got[s]

\* The handler of a request answers the session that is blocked on it, and no
\* other session sees anything of it; the other handlers answer none.
LEMMA Answered ==
  ASSUME TypeOK, OneRequest, Scanning, Strand
  PROVE  /\ m_strand # <<>> /\ m_strand' = Tail(m_strand)
         /\ \/ UNCHANGED <<fut, cursor, from, got>> /\ Head(m_strand).op \in {"update", "reset"}
            \/ /\ log' = log /\ m_map' = m_map
               /\ Head(m_strand).op \in {"size", "first", "next"}
               /\ \E s \in Sessions :
                    /\ s = Head(m_strand).by /\ fut[s] = "pending"
                    /\ \A t \in Sessions : t # s =>
                         /\ fut'[t] = fut[t] /\ cursor'[t] = cursor[t]
                         /\ from'[t] = from[t] /\ got'[t] = got[t]
                    /\ \/ /\ Head(m_strand).op = "size" /\ fut'[s] = "sized"
                          /\ UNCHANGED <<cursor, from, got>>
                       \/ /\ Head(m_strand).op = "first" /\ cursor[s].key = 0
                          /\ from'[s] = Len(log) /\ Given(s)
                          /\ fut'[s] # "undefined"
                       \/ /\ Head(m_strand).op = "next" /\ cursor[s].key # 0
                          /\ from' = from /\ Given(s)
<1>1. CASE InsertNew \/ ChangeValue \/ KeepValue \/ ResetImpl
  BY <1>1 DEF InsertNew, ChangeValue, KeepValue, ResetImpl, Runs
<1>2. ASSUME NEW op \in {"size", "first", "next"}, Runs(op)
      PROVE  /\ m_strand # <<>> /\ m_strand' = Tail(m_strand) /\ Head(m_strand).op = op
             /\ Head(m_strand).by \in Sessions /\ fut[Head(m_strand).by] = "pending"
             /\ op = "next" => cursor[Head(m_strand).by].key # 0
             /\ op # "next" => cursor[Head(m_strand).by].key = 0
  <2>1. Head(m_strand) = m_strand[1] /\ 1 \in DOMAIN m_strand
    BY <1>2, RunLeaves DEF TypeOK
  <2> QED BY <1>2, <2>1, Answering DEF Runs, Scanning
<1>3. CASE SizeImpl
  BY <1>2, <1>3 DEF SizeImpl, TypeOK
<1>4. ASSUME NEW s \in Sessions, (\E k \in DOMAIN m_map : Give(s, k)) \/ Latest(s)
      PROVE  /\ Given(s) /\ fut'[s] # "undefined"
             /\ \A t \in Sessions : t # s =>
                  fut'[t] = fut[t] /\ cursor'[t] = cursor[t] /\ got'[t] = got[t]
  BY <1>4 DEF Give, Latest, Given, TypeOK
<1>5. CASE GetFirstImpl
  <2>1. PICK s \in Sessions : s = Head(m_strand).by
    BY <1>2, <1>5 DEF GetFirstImpl
  <2>2. /\ from'[s] = Len(log) /\ m_map' = m_map /\ log' = log
        /\ \A t \in Sessions : t # s => from'[t] = from[t]
    BY <1>5, <2>1 DEF GetFirstImpl, TypeOK
  <2>3. (\E k \in DOMAIN m_map : Give(s, k)) \/ Latest(s)
    BY <1>5, <2>1 DEF GetFirstImpl
  <2> QED BY <1>2, <1>4, <1>5, <2>1, <2>2, <2>3 DEF GetFirstImpl
<1>6. CASE GetNextImpl
  <2>1. PICK s \in Sessions : s = Head(m_strand).by
    BY <1>2, <1>6 DEF GetNextImpl
  <2>2. (\E k \in DOMAIN m_map : Give(s, k)) \/ Latest(s)
    BY <1>6, <2>1 DEF GetNextImpl
  <2> QED BY <1>2, <1>4, <1>6, <2>1, <2>2 DEF GetNextImpl
<1>7. CASE GetNextDangling
  BY <1>2, <1>7 DEF GetNextDangling, Given, TypeOK
<1> QED BY <1>1, <1>3, <1>5, <1>6, <1>7 DEF Strand

LEMMA ScanningNext ==
  ASSUME TypeOK, ViewsOwned, OneRequest, Scanning, [Next]_vars
  PROVE  Scanning'
<1>1. \A s \in Sessions : got[s] \in Seq(Nat)
  BY DEF TypeOK
<1>2. ASSUME NEW r \in Request, Post(r),
             \A s \in Sessions : fut'[s] = "found" => fut[s] = "found",
             r.op = "next" => cursor[r.by].key # 0
      PROVE  Scanning'
  <2>1. UNCHANGED <<cursor, got, log>>
    BY <1>2 DEF Post
  <2>2. \A i \in DOMAIN m_strand' : \/ i \in DOMAIN m_strand /\ m_strand'[i] = m_strand[i]
                                    \/ m_strand'[i] = r
    BY <1>2, PostLeaves DEF TypeOK
  <2> QED BY <1>2, <2>1, <2>2 DEF Scanning
<1>3. ASSUME NEW s \in Sessions, Scan(s) PROVE Scanning'
  <2>1. PICK r \in Request : /\ Post(r) /\ r.op \in {"size", "first", "next"} /\ r.by = s
                             /\ r.op = "next" <=> fut[s] = "found"
    BY <1>3, AskPosts
  <2>2. \A t \in Sessions : fut'[t] = "found" => fut[t] = "found"
    BY <1>3 DEF Scan, PostSize, PostFirst, PostNext, Ask, TypeOK
  <2> QED BY <1>2, <2>1, <2>2 DEF Scanning
<1>4. ASSUME NEW s \in Sessions, NEW k \in Keys, NEW v \in Values, PostUpdate(s, k, v)
      PROVE  Scanning'
  <2>1. [op |-> "update", by |-> s, key |-> k, val |-> v] \in Request
    BY DEF Request
  <2> QED BY <1>2, <1>4, <2>1 DEF PostUpdate
<1>5. CASE PostReset
  BY <1>2, <1>5 DEF PostReset, Request
<1>6. CASE Strand
  <2>1. \A i \in DOMAIN m_strand' :
          i + 1 \in DOMAIN m_strand /\ m_strand'[i] = m_strand[i + 1]
    BY <1>6, Answered, RunLeaves DEF TypeOK, Runs
  <2>2. \A i \in DOMAIN m_strand : m_strand[i] \in Request
    BY ElementOfSeq DEF TypeOK
  <2>3. CASE UNCHANGED <<fut, cursor, from, got>>
    <3>1. \A n \in DOMAIN log : n \in DOMAIN log' /\ log'[n] = log[n]
      <4>1. CASE log' = log
        BY <4>1
      <4>2. CASE InsertNew \/ ChangeValue
        <5>1. Head(m_strand) \in Request /\ Head(m_strand).op = "update" /\ Store(Head(m_strand))
          BY <4>2, RunLeaves DEF InsertNew, ChangeValue, TypeOK
        <5>2. /\ Len(log) \in Nat /\ \A n \in 1..Len(log) : log'[n] = log[n]
              /\ DOMAIN log = 1..Len(log) /\ DOMAIN log' = 1..Len(log) + 1
          BY <5>1, StoreLeaves
        <5> QED BY <5>2
      <4> QED BY <1>6, <4>1, <4>2 DEF Strand, KeepValue, SizeImpl, GetFirstImpl,
                                      GetNextImpl, GetNextDangling, ResetImpl
    <3> QED BY <2>1, <2>3, <3>1 DEF Scanning
  <2>4. ASSUME NEW s \in Sessions, s = Head(m_strand).by, fut[s] = "pending",
               log' = log, m_map' = m_map,
               Head(m_strand).op \in {"size", "first", "next"},
               \A t \in Sessions : t # s =>
                 fut'[t] = fut[t] /\ cursor'[t] = cursor[t] /\ got'[t] = got[t],
               \/ fut'[s] = "sized" /\ cursor'[s] = cursor[s] /\ got'[s] = got[s]
               \/ Given(s)
        PROVE  Scanning'
    <3>1. ASSUME fut'[s] = "found", cursor'[s].key \in DOMAIN m_map,
                 got'[s] = Append(got[s], m_map[cursor'[s].key].key_val)
          PROVE  /\ cursor'[s].key # 0 /\ got'[s] # <<>>
                 /\ got'[s][Len(got'[s])] \in DOMAIN log
                 /\ log[got'[s][Len(got'[s])]].key = cursor'[s].key
      <4> DEFINE n == m_map[cursor'[s].key].key_val
      <4>1. /\ n \in DOMAIN log /\ log[n].key = cursor'[s].key /\ n \in Nat
            /\ cursor'[s].key # 0
        BY <3>1, StorageAssumption DEF ViewsOwned, MapValue, TypeOK
      <4>2. got'[s] # <<>> /\ got'[s][Len(got'[s])] = n
        BY <1>1, <3>1, <4>1, AppendProperties, LenProperties
      <4> QED BY <4>1, <4>2
    <3>2. \A i \in DOMAIN m_strand' : m_strand'[i].op = "next" =>
            m_strand'[i].by \in Sessions /\ m_strand'[i].by # s
      <4>1. Head(m_strand) = m_strand[1] /\ 1 \in DOMAIN m_strand
        BY <1>6, Answered, RunLeaves DEF TypeOK, Runs
      <4>2. ASSUME NEW i \in DOMAIN m_strand', m_strand'[i].op = "next"
            PROVE  m_strand'[i].by \in Sessions /\ m_strand'[i].by # s
        <5>1. /\ i + 1 \in DOMAIN m_strand /\ Asks(i + 1) /\ i + 1 # 1
              /\ m_strand'[i] = m_strand[i + 1] /\ i \in Nat
          BY <1>6, <2>1, <4>2, Answered, RunLeaves DEF TypeOK, Runs, Asks
        <5>2. Asks(1) /\ m_strand[1].by = s
          BY <2>4, <4>1 DEF Asks
        <5> QED BY <2>2, <4>1, <4>2, <5>1, <5>2, RequestFields DEF OneRequest
      <4> QED BY <4>2
    <3>3. \A i \in DOMAIN m_strand' :
            m_strand'[i].op = "next" => cursor'[m_strand'[i].by].key # 0
      BY <2>1, <2>4, <3>2 DEF Scanning
    <3> QED BY <2>4, <3>1, <3>3 DEF Scanning, Given
  <2> QED BY <1>6, <2>3, <2>4, Answered
<1>7. CASE UNCHANGED vars
  BY <1>7 DEF vars, Scanning
<1> QED BY <1>3, <1>4, <1>5, <1>6, <1>7 DEF Next

-----------------------------------------------------------------------------
(* The theorems. *)

LEMMA InvInit == Init => IInv
<1>1. Init => TypeOK
  BY TypeInit
<1>2. Init => DOMAIN m_map = {} /\ DOMAIN m_strand = {} /\ Len(log) = 0
  BY DEF Init
<1>3. Init => \A s \in Sessions : cursor[s].key = 0 /\ from[s] = 0
  BY DEF Init
<1> QED BY <1>1, <1>2, <1>3
       DEF IInv, ViewsOwned, LatestWins, OneRequest, NotBegun, FromLogged, ScanCovers

LEMMA InvNext == IInv /\ [Next]_vars => IInv'
BY TypeNext, ViewsOwnedNext, LatestWinsNext, OneRequestNext, NotBegunNext,
   FromLoggedNext, ScanCoversNext DEF IInv

\* Every state the storage reaches satisfies the inductive invariant.
THEOREM Invariance == Spec => []IInv
BY InvInit, InvNext, PTL DEF Spec

\* The views of a stored pair always point into the buffer the pair owns.
THEOREM ViewsAreOwned == Spec => []ViewsOwned
<1>1. IInv => ViewsOwned
  BY DEF IInv
<1> QED BY <1>1, Invariance, PTL

\* What is stored under a key is always its newest update.
THEOREM LatestUpdateWins == Spec => []LatestWins
<1>1. IInv => LatestWins
  BY DEF IInv
<1> QED BY <1>1, Invariance, PTL

\* A session is blocked on one request at a time and its iterator is current.
THEOREM RequestsAreCurrent == Spec => []OneRequest
<1>1. IInv => OneRequest
  BY DEF IInv
<1> QED BY <1>1, Invariance, PTL

\* A joining session's scan misses no pair, whatever is updated between two of
\* its requests.
THEOREM ScanMissesNothing == Spec => []ScanCovers
<1>1. IInv => ScanCovers
  BY DEF IInv
<1> QED BY <1>1, Invariance, PTL

\* Every answer moves a scan forward.
THEOREM ScanMovesForward == Spec => ScanAscends
<1>1. IInv /\ [Next]_vars =>
        [\A s \in Sessions :
           cursor'[s] # cursor[s] => cursor'[s].key > cursor[s].key]_vars
  <2> SUFFICES ASSUME IInv, [Next]_vars, NEW s \in Sessions, cursor'[s] # cursor[s]
               PROVE  cursor'[s].key > cursor[s].key
    OBVIOUS
  <2>1. TypeOK /\ OneRequest
    BY DEF IInv
  <2>2. GetFirstImpl \/ GetNextImpl
    <3>1. ASSUME NEW t \in Sessions, NEW k \in Keys, NEW v \in Values, PostUpdate(t, k, v)
          PROVE  cursor' = cursor
      BY <3>1 DEF PostUpdate, Post
    <3>2. ASSUME NEW t \in Sessions, Scan(t) PROVE cursor' = cursor
      BY <2>1, <3>2, AskPosts DEF Post
    <3> QED BY <3>1, <3>2 DEF Next, Strand, vars, PostReset, Post, InsertNew,
                              ChangeValue, KeepValue, SizeImpl, GetNextDangling, ResetImpl
  <2>3. CASE GetFirstImpl
    <3>1. s = Head(m_strand).by /\ cursor[s].key = 0
      BY <2>1, <2>3, Answering DEF GetFirstImpl, Give, Latest, TypeOK
    <3>2. PICK k \in DOMAIN m_map : Give(s, k)
      BY <2>3, <3>1 DEF GetFirstImpl, Latest
    <3>3. cursor'[s].key = k /\ k \in Keys
      BY <2>1, <2>3, <3>2, GiveAdds DEF GetFirstImpl, TypeOK
    <3> QED BY <3>1, <3>3, StorageAssumption
  <2>4. CASE GetNextImpl
    <3>1. s = Head(m_strand).by /\ Head(m_strand).it = cursor[s]
      BY <2>1, <2>4, Answering DEF GetNextImpl, Give, Latest, TypeOK
    <3>2. PICK k \in DOMAIN m_map : Give(s, k) /\ cursor[s].key < k
      BY <2>4, <3>1 DEF GetNextImpl, Latest, IsNext
    <3>3. cursor'[s].key = k /\ cursor[s].key \in Nat /\ k \in Nat
      BY <2>1, <2>4, <3>2, GiveAdds, StorageAssumption
         DEF GetNextImpl, Iterator, TypeOK
    <3> QED BY <3>2, <3>3
  <2> QED BY <2>2, <2>3, <2>4
<1> QED BY <1>1, Invariance, PTL DEF Spec, ScanAscends

\* The callback of update() runs exactly when the contents of the map change.
THEOREM AnnouncedIffChanged == Spec => UpdateAnnounced
<1>1. IInv /\ [Next]_vars =>
        [m_gen' = m_gen => (log' # log <=> Contents' # Contents)]_vars
  <2> SUFFICES ASSUME IInv, [Next]_vars, m_gen' = m_gen
               PROVE  log' # log <=> Contents' # Contents
    OBVIOUS
  <2>1. TypeOK /\ m_gen \in Nat
    BY DEF IInv, TypeOK
  <2>2. CASE UNCHANGED <<m_map, m_gen, log>>
    BY <2>2 DEF Contents, ValueOf
  <2>3. ASSUME InsertNew \/ ChangeValue,
               Head(m_strand) \in Request, Head(m_strand).op = "update",
               Store(Head(m_strand))
        PROVE  log' # log /\ Contents' # Contents
    <3> DEFINE r == Head(m_strand)
    <3>1. /\ Len(log) \in Nat /\ Len(log') = Len(log) + 1
          /\ log'[Len(log) + 1] = [by |-> r.by, key |-> r.key, val |-> r.val]
          /\ DOMAIN m_map' = DOMAIN m_map \cup {r.key}
          /\ m_map'[r.key] =
               [key |-> Len(log) + 1, val |-> Len(log) + 1, key_val |-> Len(log) + 1]
      BY <2>1, <2>3, StoreLeaves
    <3>2. DOMAIN Contents' = DOMAIN m_map' /\ DOMAIN Contents = DOMAIN m_map
      BY DEF Contents
    <3>3. Contents'[r.key] = r.val
      BY <3>1 DEF Contents, ValueOf
    <3>4. CASE InsertNew
      BY <3>1, <3>2, <3>4 DEF InsertNew
    <3>5. CASE ChangeValue
      <4>1. Contents[r.key] # r.val
        BY <3>5 DEF ChangeValue, Contents
      <4> QED BY <3>1, <3>3, <4>1
    <3> QED BY <2>3, <3>1, <3>4, <3>5
  <2> QED BY <2>1, <2>2, <2>3, MapSteps
<1> QED BY <1>1, Invariance, PTL DEF Spec, UpdateAnnounced
=============================================================================
