-------------------------- MODULE ObjectPoolProofs --------------------------
(***************************************************************************)
(* Proofs about ObjectPool, for any threads and objects.                   *)
(***************************************************************************)
EXTENDS ObjectPool, FiniteSetTheorems, SequenceTheorems, TLAPS

\* What is on a stack, and that nothing is on it twice.
On(s) == {s[i] : i \in 1..Len(s)}
Once(s) == \A i, j \in 1..Len(s) : s[i] = s[j] => i = j

\* What is on a stack whose top is taken off.
LEMMA Popped ==
  ASSUME NEW S, NEW s \in Seq(S), s # <<>>
  PROVE  /\ Head(s) \in S /\ Tail(s) \in Seq(S)
         /\ On(s) = {Head(s)} \cup On(Tail(s))
         /\ Once(s) => Head(s) \notin On(Tail(s)) /\ Once(Tail(s))
<1>1. /\ Head(s) \in S /\ Tail(s) \in Seq(S) /\ Len(s) \in Nat \ {0}
      /\ Head(s) = s[1] /\ Len(Tail(s)) = Len(s) - 1
      /\ \A i \in 1..Len(Tail(s)) : Tail(s)[i] = s[i + 1]
  BY HeadTailProperties, EmptySeq, LenProperties
<1>2. ASSUME NEW i \in 1..Len(s)
      PROVE  s[i] \in {Head(s)} \cup On(Tail(s))
  <2>1. CASE i = 1
    BY <1>1, <2>1
  <2>2. CASE i # 1
    <3>1. i - 1 \in 1..Len(Tail(s)) /\ Tail(s)[i - 1] = s[(i - 1) + 1]
      BY <1>1, <2>2
    <3> QED BY <3>1, <1>1 DEF On
  <2> QED BY <2>1, <2>2
<1>3. ASSUME NEW j \in 1..Len(Tail(s))
      PROVE  Tail(s)[j] \in On(s)
  BY <1>1 DEF On
<1>4. Head(s) \in On(s)
  BY <1>1 DEF On
<1>5. On(s) = {Head(s)} \cup On(Tail(s))
  BY <1>2, <1>3, <1>4 DEF On
<1>6. ASSUME Once(s)
      PROVE  Head(s) \notin On(Tail(s)) /\ Once(Tail(s))
  BY <1>1, <1>6 DEF On, Once
<1> QED BY <1>1, <1>5, <1>6

\* What is on a stack an object is pushed on.
LEMMA Pushed ==
  ASSUME NEW S, NEW s \in Seq(S), NEW x \in S
  PROVE  /\ <<x>> \o s \in Seq(S)
         /\ On(<<x>> \o s) = {x} \cup On(s)
         /\ Once(s) /\ x \notin On(s) => Once(<<x>> \o s)
<1> DEFINE p == <<x>> \o s
<1>1. /\ p \in Seq(S) /\ Len(s) \in Nat /\ Len(p) = Len(s) + 1
      /\ \A i \in 1..Len(p) : p[i] = IF i = 1 THEN x ELSE s[i - 1]
  <2>1. <<x>> \in Seq(S) /\ Len(<<x>>) = 1 /\ <<x>>[1] = x
    OBVIOUS
  <2> QED BY <2>1, ConcatProperties, LenProperties
<1> HIDE DEF p
<1>2. ASSUME NEW i \in 1..Len(p)
      PROVE  p[i] \in {x} \cup On(s)
  <2>1. CASE i = 1
    BY <1>1, <2>1
  <2>2. CASE i # 1
    <3>1. i - 1 \in 1..Len(s) /\ p[i] = s[i - 1]
      BY <1>1, <2>2
    <3> QED BY <3>1 DEF On
  <2> QED BY <2>1, <2>2
<1>3. ASSUME NEW j \in 1..Len(s) PROVE s[j] \in On(p)
  <2>1. j + 1 \in 1..Len(p) /\ p[j + 1] = s[j]
    BY <1>1
  <2> QED BY <2>1 DEF On
<1>4. x \in On(p)
  BY <1>1 DEF On
<1>5. On(p) = {x} \cup On(s)
  BY <1>2, <1>3, <1>4 DEF On
<1>6. ASSUME Once(s), x \notin On(s)
      PROVE  Once(p)
  <2> SUFFICES \A i, j \in 1..Len(p) : p[i] = p[j] => i = j
    BY DEF Once
  <2> TAKE i, j \in 1..Len(p)
  <2> HAVE p[i] = p[j]
  <2>1. \A k \in 1..Len(p) : k # 1 => k - 1 \in 1..Len(s) /\ p[k] = s[k - 1]
    BY <1>1
  <2>2. \A k \in 1..Len(p) : k # 1 => p[k] # x
    BY <1>6, <2>1 DEF On
  <2>3. i = 1 \/ j = 1 => i = j
    BY <1>1, <2>2
  <2>4. i # 1 /\ j # 1 => i = j
    <3> SUFFICES ASSUME i # 1, j # 1 PROVE i = j
      OBVIOUS
    <3>1. i - 1 = j - 1
      BY <1>6, <2>1 DEF Once
    <3> QED BY <3>1
  <2> QED BY <2>3, <2>4
<1> QED BY <1>1, <1>5, <1>6 DEF p

\* A step of a thread changes where that thread is, and no other.
LEMMA Moves ==
  ASSUME pc \in [Threads -> Places], NEW t \in Threads,
         NEW from, NEW to \in Places, Goes(t, from, to)
  PROVE  /\ pc' \in [Threads -> Places] /\ pc[t] = from /\ pc'[t] = to
         /\ \A u \in Threads : u # t => pc'[u] = pc[u]
         /\ \A places : At(places)' =
              IF to \in places THEN At(places) \cup {t} ELSE At(places) \ {t}
<1>1. /\ pc' \in [Threads -> Places] /\ pc[t] = from /\ pc'[t] = to
      /\ \A u \in Threads : u # t => pc'[u] = pc[u]
  BY DEF Goes
<1>2. ASSUME NEW places
      PROVE  At(places)' =
               IF to \in places THEN At(places) \cup {t} ELSE At(places) \ {t}
  BY <1>1 DEF At
<1> QED BY <1>1, <1>2

-----------------------------------------------------------------------------
(* The invariant *)

IInv == TypeOK /\ Exclusive /\ CountersExact /\ NotAllSpin

\* Where the objects are, after a step of each kind.
LEMMA LookMoves ==
  ASSUME TypeOK, NEW t \in Threads, Look(t)
  PROVE  /\ Stacked' = Stacked /\ InHand' = InHand /\ used' = used
         /\ stack' = stack /\ m_size' = m_size /\ m_in_use' = m_in_use /\ obj' = obj
         /\ pc' \in [Threads -> Places]
         /\ At({"counting", "returning"})' = At({"counting", "returning"})
         /\ At({"returning", "uncounting"})' = At({"returning", "uncounting"})
         /\ At({"returning"})' = At({"returning"})
         /\ stack = <<>> => At({"popping"})' # Threads
<1>1. \E to \in {"popping", "allocating"} :
        Goes(t, "idle", to) /\ (stack = <<>> => to = "allocating")
  BY DEF Look
<1>2. PICK to \in {"popping", "allocating"} :
        Goes(t, "idle", to) /\ (stack = <<>> => to = "allocating")
  BY <1>1
<1>3. to \in Places
  BY DEF Places
<1>4. /\ pc' \in [Threads -> Places] /\ pc[t] = "idle" /\ pc'[t] = to
      /\ \A u \in Threads : u # t => pc'[u] = pc[u]
  BY <1>2, <1>3, Moves DEF TypeOK
<1>5. /\ At({"counting", "returning"})' = At({"counting", "returning"})
      /\ At({"returning", "uncounting"})' = At({"returning", "uncounting"})
      /\ At({"returning"})' = At({"returning"})
  BY <1>4 DEF At
<1>6. /\ stack' = stack /\ m_size' = m_size /\ m_in_use' = m_in_use
      /\ obj' = obj /\ used' = used
  BY DEF Look
<1>7. Stacked' = Stacked /\ InHand' = InHand
  BY <1>5, <1>6 DEF Stacked, InHand
<1>8. stack = <<>> => At({"popping"})' # Threads
  BY <1>2, <1>4 DEF At
<1> QED BY <1>4, <1>5, <1>6, <1>7, <1>8

\* An object reaches a thread, by Pop from the stack or by Allocate as a new one.
Reaches(t, o) ==
  /\ pc' \in [Threads -> Places] /\ o \in Objects
  /\ t \notin At({"counting", "returning"})
  /\ obj' = [obj EXCEPT ![t] = o]
  /\ At({"counting", "returning"})' = At({"counting", "returning"}) \cup {t}
  /\ At({"returning", "uncounting"})' = At({"returning", "uncounting"})
  /\ At({"returning"})' = At({"returning"}) /\ t \notin At({"returning"})
  /\ InHand' = InHand \cup {o}
  /\ t \notin At({"popping"})'
  /\ m_in_use' = m_in_use /\ used' = used

LEMMA ReachesCounting ==
  ASSUME TypeOK, NEW t \in Threads, NEW o \in Objects, NEW from \in Places,
         Goes(t, from, "counting"), from \notin {"counting", "returning", "uncounting"},
         obj' = [obj EXCEPT ![t] = o], UNCHANGED <<m_in_use, used>>
  PROVE  Reaches(t, o)
<1>1. /\ pc' \in [Threads -> Places] /\ pc[t] = from /\ pc'[t] = "counting"
      /\ \A u \in Threads : u # t => pc'[u] = pc[u]
  BY Moves DEF TypeOK, Places
<1>2. /\ t \notin At({"counting", "returning"}) /\ t \notin At({"returning"})
      /\ At({"counting", "returning"})' = At({"counting", "returning"}) \cup {t}
      /\ At({"returning", "uncounting"})' = At({"returning", "uncounting"})
      /\ At({"returning"})' = At({"returning"}) /\ t \notin At({"popping"})'
  BY <1>1 DEF At
<1>3. obj'[t] = o /\ \A u \in Threads : u # t => obj'[u] = obj[u]
  BY DEF TypeOK
<1>4. InHand' = InHand \cup {o}
  BY <1>2, <1>3 DEF InHand, At
<1> QED BY <1>1, <1>2, <1>4 DEF Reaches

LEMMA PopReaches ==
  ASSUME IInv, NEW t \in Threads, Pop(t)
  PROVE  /\ Reaches(t, Head(stack))
         /\ Stacked = {Head(stack)} \cup Stacked' /\ Head(stack) \notin Stacked'
         /\ StackedOnce' /\ stack' \in Seq(Objects) /\ m_size' = m_size
<1>1. /\ stack \in Seq(Objects) /\ stack # <<>> /\ stack' = Tail(stack)
      /\ Goes(t, "popping", "counting") /\ obj' = [obj EXCEPT ![t] = Head(stack)]
      /\ UNCHANGED <<m_in_use, used>> /\ m_size' = m_size
      /\ TypeOK /\ StackedOnce
  BY DEF Pop, IInv, TypeOK, Exclusive
<1>2. /\ Head(stack) \in Objects /\ stack' \in Seq(Objects)
      /\ Stacked = {Head(stack)} \cup Stacked' /\ Head(stack) \notin Stacked'
      /\ StackedOnce'
  <2>1. Stacked = On(stack) /\ Stacked' = On(Tail(stack)) /\ Once(stack)
        /\ (Once(Tail(stack)) => StackedOnce')
    BY <1>1 DEF Stacked, StackedOnce, On, Once
  <2> QED BY <1>1, <2>1, Popped
<1>3. Reaches(t, Head(stack))
  BY <1>1, <1>2, ReachesCounting DEF Places
<1> QED BY <1>1, <1>2, <1>3

LEMMA AllocateReaches ==
  ASSUME TypeOK, NEW t \in Threads, NEW o \in Objects, Allocate(t, o)
  PROVE  /\ Reaches(t, o) /\ o \notin Allocated
         /\ stack' = stack /\ Stacked' = Stacked /\ m_size' = m_size + 1
<1>1. /\ Goes(t, "allocating", "counting") /\ obj' = [obj EXCEPT ![t] = o]
      /\ UNCHANGED <<m_in_use, used>> /\ stack' = stack
      /\ o \notin Allocated /\ m_size' = m_size + 1
  BY DEF Allocate
<1>2. Reaches(t, o)
  BY <1>1, ReachesCounting DEF Places
<1> QED BY <1>1, <1>2 DEF Stacked

\* An object leaves a thread, by HandOut to its user or by Push to the stack.
LEMMA LeavesHand ==
  ASSUME TypeOK, HeldByOne, NEW t \in Threads, NEW from \in {"counting", "returning"},
         NEW to \in {"idle", "uncounting"}, Goes(t, from, to), obj' = obj
  PROVE  /\ pc' \in [Threads -> Places]
         /\ obj[t] \in InHand /\ InHand' = InHand \ {obj[t]}
         /\ At({"counting", "returning"})' = At({"counting", "returning"}) \ {t}
         /\ t \in At({from})
         /\ t \notin At({"popping"})'
<1>1. /\ pc' \in [Threads -> Places] /\ pc[t] = from /\ pc'[t] = to
      /\ \A u \in Threads : u # t => pc'[u] = pc[u]
  BY Moves DEF TypeOK, Places
<1>2. /\ t \in At({"counting", "returning"}) /\ t \in At({from})
      /\ At({"counting", "returning"})' = At({"counting", "returning"}) \ {t}
      /\ t \notin At({"popping"})'
  BY <1>1 DEF At
<1>3. \A u \in At({"counting", "returning"}) : u # t => obj[u] # obj[t]
  BY <1>2 DEF HeldByOne
<1>4. obj[t] \in InHand /\ InHand' = InHand \ {obj[t]}
  BY <1>2, <1>3 DEF InHand
<1> QED BY <1>1, <1>2, <1>4

LEMMA PushLeaves ==
  ASSUME IInv, NEW t \in Threads, Push(t)
  PROVE  /\ obj[t] \in InHand /\ obj[t] \in Objects /\ t \in At({"returning"})
         /\ pc' \in [Threads -> Places]
         /\ InHand' = InHand \ {obj[t]} /\ Stacked' = Stacked \cup {obj[t]}
         /\ At({"counting", "returning"})' = At({"counting", "returning"}) \ {t}
         /\ At({"returning", "uncounting"})' = At({"returning", "uncounting"})
         /\ At({"returning"})' = At({"returning"}) \ {t}
         /\ t \notin At({"popping"})'
         /\ StackedOnce' /\ stack' \in Seq(Objects)
         /\ m_size' = m_size /\ m_in_use' = m_in_use /\ used' = used /\ obj' = obj
<1>1. /\ Goes(t, "returning", "uncounting") /\ stack' = <<obj[t]>> \o stack
      /\ m_size' = m_size /\ m_in_use' = m_in_use /\ used' = used /\ obj' = obj
      /\ TypeOK /\ StackedOnce /\ HeldByOne /\ Stacked \cap InHand = {}
  BY DEF Push, IInv, Exclusive
<1>2. /\ pc' \in [Threads -> Places]
      /\ obj[t] \in InHand /\ InHand' = InHand \ {obj[t]}
      /\ At({"counting", "returning"})' = At({"counting", "returning"}) \ {t}
      /\ t \in At({"returning"}) /\ t \notin At({"popping"})'
  BY <1>1, LeavesHand
<1>3. /\ At({"returning", "uncounting"})' = At({"returning", "uncounting"})
      /\ At({"returning"})' = At({"returning"}) \ {t}
  <2>1. /\ pc[t] = "returning" /\ pc'[t] = "uncounting"
        /\ \A u \in Threads : u # t => pc'[u] = pc[u]
    BY <1>1, Moves DEF TypeOK, Places
  <2> QED BY <2>1 DEF At
<1>4. stack \in Seq(Objects) /\ obj[t] \in Objects
  BY <1>1 DEF TypeOK
<1>5. /\ Stacked' = Stacked \cup {obj[t]} /\ StackedOnce' /\ stack' \in Seq(Objects)
  <2>1. /\ Stacked = On(stack) /\ Stacked' = On(<<obj[t]>> \o stack) /\ Once(stack)
        /\ Once(<<obj[t]>> \o stack) => StackedOnce'
    BY <1>1 DEF Stacked, StackedOnce, On, Once
  <2>2. obj[t] \notin On(stack)
    BY <1>1, <1>2, <2>1
  <2> QED BY <1>1, <1>4, <2>1, <2>2, Pushed
<1> QED BY <1>1, <1>2, <1>3, <1>4, <1>5

LEMMA HandOutLeaves ==
  ASSUME IInv, NEW t \in Threads, HandOut(t)
  PROVE  /\ obj[t] \in InHand /\ obj[t] \in Objects
         /\ t \notin At({"returning"}) /\ t \in At({"counting", "returning"})
         /\ pc' \in [Threads -> Places]
         /\ InHand' = InHand \ {obj[t]} /\ Stacked' = Stacked
         /\ used' = used \cup {obj[t]}
         /\ At({"counting", "returning"})' = At({"counting", "returning"}) \ {t}
         /\ At({"returning", "uncounting"})' = At({"returning", "uncounting"})
         /\ At({"returning"})' = At({"returning"})
         /\ t \notin At({"popping"})'
         /\ stack' = stack /\ m_size' = m_size /\ m_in_use' = m_in_use + 1 /\ obj' = obj
<1>1. /\ Goes(t, "counting", "idle") /\ used' = used \cup {obj[t]}
      /\ stack' = stack /\ m_size' = m_size /\ m_in_use' = m_in_use + 1 /\ obj' = obj
      /\ TypeOK /\ HeldByOne
  BY DEF HandOut, IInv, Exclusive
<1>2. /\ pc' \in [Threads -> Places]
      /\ obj[t] \in InHand /\ InHand' = InHand \ {obj[t]}
      /\ At({"counting", "returning"})' = At({"counting", "returning"}) \ {t}
      /\ t \notin At({"popping"})'
  BY <1>1, LeavesHand
<1>3. /\ At({"returning", "uncounting"})' = At({"returning", "uncounting"})
      /\ At({"returning"})' = At({"returning"})
      /\ t \notin At({"returning"}) /\ t \in At({"counting", "returning"})
  <2>1. /\ pc[t] = "counting" /\ pc'[t] = "idle"
        /\ \A u \in Threads : u # t => pc'[u] = pc[u]
    BY <1>1, Moves DEF TypeOK, Places
  <2> QED BY <2>1 DEF At
<1> QED BY <1>1, <1>2, <1>3 DEF TypeOK, Stacked

LEMMA DiscardTakes ==
  ASSUME IInv, NEW t \in Threads, NEW o \in Objects, Discard(t, o)
  PROVE  /\ o \in used /\ used' = used \ {o}
         /\ pc' \in [Threads -> Places] /\ obj' = [obj EXCEPT ![t] = o]
         /\ InHand' = InHand \cup {o} /\ Stacked' = Stacked
         /\ t \notin At({"counting", "returning"}) /\ t \notin At({"returning"})
         /\ t \notin At({"returning", "uncounting"})
         /\ At({"counting", "returning"})' = At({"counting", "returning"}) \cup {t}
         /\ At({"returning", "uncounting"})' = At({"returning", "uncounting"}) \cup {t}
         /\ At({"returning"})' = At({"returning"}) \cup {t}
         /\ t \notin At({"popping"})'
         /\ stack' = stack /\ m_size' = m_size /\ m_in_use' = m_in_use
<1>1. /\ Goes(t, "idle", "returning") /\ o \in used /\ used' = used \ {o}
      /\ obj' = [obj EXCEPT ![t] = o]
      /\ stack' = stack /\ m_size' = m_size /\ m_in_use' = m_in_use /\ TypeOK
  BY DEF Discard, IInv
<1>2. /\ pc' \in [Threads -> Places] /\ pc[t] = "idle" /\ pc'[t] = "returning"
      /\ \A u \in Threads : u # t => pc'[u] = pc[u]
  BY <1>1, Moves DEF TypeOK, Places
<1>3. /\ t \notin At({"counting", "returning"}) /\ t \notin At({"returning"})
      /\ t \notin At({"returning", "uncounting"})
      /\ At({"counting", "returning"})' = At({"counting", "returning"}) \cup {t}
      /\ At({"returning", "uncounting"})' = At({"returning", "uncounting"}) \cup {t}
      /\ At({"returning"})' = At({"returning"}) \cup {t}
      /\ t \notin At({"popping"})'
  BY <1>2 DEF At
<1>4. obj'[t] = o /\ \A u \in Threads : u # t => obj'[u] = obj[u]
  BY <1>1 DEF TypeOK
<1>5. InHand' = InHand \cup {o}
  BY <1>3, <1>4 DEF InHand, At
<1> QED BY <1>1, <1>2, <1>3, <1>5 DEF Stacked

LEMMA UncountMoves ==
  ASSUME IInv, NEW t \in Threads, Uncount(t)
  PROVE  /\ pc' \in [Threads -> Places]
         /\ InHand' = InHand /\ Stacked' = Stacked
         /\ At({"counting", "returning"})' = At({"counting", "returning"})
         /\ At({"returning"})' = At({"returning"})
         /\ t \in At({"returning", "uncounting"})
         /\ At({"returning", "uncounting"})' = At({"returning", "uncounting"}) \ {t}
         /\ t \notin At({"popping"})'
         /\ stack' = stack /\ m_size' = m_size /\ m_in_use' = m_in_use - 1
         /\ used' = used /\ obj' = obj
<1>1. /\ Goes(t, "uncounting", "idle") /\ stack' = stack /\ m_size' = m_size
      /\ m_in_use' = m_in_use - 1 /\ used' = used /\ obj' = obj /\ TypeOK
  BY DEF Uncount, IInv
<1>2. /\ pc' \in [Threads -> Places] /\ pc[t] = "uncounting" /\ pc'[t] = "idle"
      /\ \A u \in Threads : u # t => pc'[u] = pc[u]
  BY <1>1, Moves DEF TypeOK, Places
<1>3. /\ At({"counting", "returning"})' = At({"counting", "returning"})
      /\ At({"returning"})' = At({"returning"})
      /\ t \in At({"returning", "uncounting"})
      /\ At({"returning", "uncounting"})' = At({"returning", "uncounting"}) \ {t}
      /\ t \notin At({"popping"})'
  BY <1>2 DEF At
<1> QED BY <1>1, <1>2, <1>3 DEF Stacked, InHand

-----------------------------------------------------------------------------
(* Every step keeps the invariant. *)

LEMMA Finite ==
  ASSUME TypeOK
  PROVE  /\ Stacked \subseteq Objects /\ InHand \subseteq Objects
         /\ IsFiniteSet(used) /\ IsFiniteSet(Allocated)
         /\ IsFiniteSet(At({"returning", "uncounting"}))
         /\ Cardinality(used) \in Nat /\ Cardinality(Allocated) \in Nat
         /\ Cardinality(At({"returning", "uncounting"})) \in Nat
<1>1. Stacked \subseteq Objects
  BY ElementOfSeq DEF TypeOK, Stacked
<1>2. InHand \subseteq Objects
  BY DEF TypeOK, InHand, At
<1>3. Allocated \subseteq Objects /\ used \subseteq Objects
  BY <1>1, <1>2 DEF TypeOK, Allocated
<1>4. At({"returning", "uncounting"}) \subseteq Threads
  BY DEF At
<1>5. /\ IsFiniteSet(used) /\ IsFiniteSet(Allocated)
      /\ IsFiniteSet(At({"returning", "uncounting"}))
  BY <1>3, <1>4, FS_Subset, PoolAssumption
<1> QED BY <1>1, <1>2, <1>5, FS_CardinalityType

\* An object that reaches a thread was in no other's hands.
LEMMA ReachesOne ==
  ASSUME TypeOK, HeldByOne, NEW t \in Threads, NEW o, Reaches(t, o), o \notin InHand
  PROVE  HeldByOne' /\ obj' \in [Threads -> Objects]
<1>1. obj' \in [Threads -> Objects]
  BY DEF Reaches, TypeOK
<1>2. obj'[t] = o /\ \A u \in Threads : u # t => obj'[u] = obj[u]
  BY DEF Reaches, TypeOK
<1>3. \A u \in At({"counting", "returning"}) : u \in Threads /\ u # t /\ obj[u] # o
  BY DEF Reaches, InHand, At
<1>4. HeldByOne'
  BY <1>2, <1>3 DEF HeldByOne, Reaches
<1> QED BY <1>1, <1>4

LEMMA LookKeeps ==
  ASSUME IInv, NEW t \in Threads, Look(t)
  PROVE  IInv'
<1>1. TypeOK'
  BY LookMoves DEF IInv, TypeOK
<1>2. Exclusive'
  BY LookMoves DEF IInv, Exclusive, StackedOnce, HeldByOne
<1>3. CountersExact'
  BY LookMoves DEF IInv, CountersExact, Allocated
<1>4. NotAllSpin'
  BY LookMoves DEF IInv, NotAllSpin
<1> QED BY <1>1, <1>2, <1>3, <1>4 DEF IInv

LEMMA PopKeeps ==
  ASSUME IInv, NEW t \in Threads, Pop(t)
  PROVE  IInv'
<1> DEFINE o == Head(stack)
<1>1. /\ Reaches(t, o) /\ Stacked = {o} \cup Stacked' /\ o \notin Stacked'
      /\ StackedOnce' /\ stack' \in Seq(Objects) /\ m_size' = m_size
  BY PopReaches
<1> HIDE DEF o
<1>2. o \notin InHand /\ o \notin used /\ Stacked' \subseteq Stacked
  BY <1>1 DEF IInv, Exclusive
<1>3. HeldByOne' /\ obj' \in [Threads -> Objects]
  BY <1>1, <1>2, ReachesOne DEF IInv, Exclusive
<1>4. TypeOK'
  BY <1>1, <1>3 DEF Reaches, IInv, TypeOK
<1>5. Exclusive'
  BY <1>1, <1>2, <1>3 DEF Reaches, IInv, Exclusive
<1>6. Allocated' = Allocated
  BY <1>1 DEF Reaches, Allocated
<1>7. CountersExact'
  BY <1>1, <1>6 DEF Reaches, IInv, CountersExact
<1>8. NotAllSpin'
  BY <1>1 DEF Reaches, NotAllSpin
<1> QED BY <1>4, <1>5, <1>7, <1>8 DEF IInv

LEMMA AllocateKeeps ==
  ASSUME IInv, NEW t \in Threads, NEW o \in Objects, Allocate(t, o)
  PROVE  IInv' /\ Allocated' = Allocated \cup {o}
<1>1. /\ Reaches(t, o) /\ o \notin Allocated
      /\ stack' = stack /\ Stacked' = Stacked /\ m_size' = m_size + 1
  BY AllocateReaches DEF IInv
<1>2. o \notin InHand /\ o \notin used /\ o \notin Stacked
  BY <1>1 DEF Allocated
<1>3. HeldByOne' /\ obj' \in [Threads -> Objects]
  BY <1>1, <1>2, ReachesOne DEF IInv, Exclusive
<1>4. TypeOK'
  BY <1>1, <1>3 DEF Reaches, IInv, TypeOK
<1>5. Exclusive'
  BY <1>1, <1>2, <1>3 DEF Reaches, IInv, Exclusive, StackedOnce
<1>6. Allocated' = Allocated \cup {o}
  BY <1>1 DEF Reaches, Allocated
<1>7. Cardinality(Allocated') = Cardinality(Allocated) + 1
  BY <1>1, <1>6, Finite, FS_AddElement DEF IInv
<1>8. CountersExact'
  BY <1>1, <1>6, <1>7 DEF Reaches, IInv, CountersExact
<1>9. NotAllSpin'
  BY <1>1 DEF Reaches, NotAllSpin
<1> QED BY <1>4, <1>5, <1>6, <1>8, <1>9 DEF IInv

LEMMA HandOutKeeps ==
  ASSUME IInv, NEW t \in Threads, HandOut(t)
  PROVE  IInv'
<1>1. obj[t] \notin used /\ obj[t] \notin Stacked
  BY HandOutLeaves DEF IInv, Exclusive
<1>2. TypeOK'
  BY HandOutLeaves DEF IInv, TypeOK
<1>3. HeldByOne'
  BY HandOutLeaves DEF IInv, Exclusive, HeldByOne
<1>4. Exclusive'
  BY <1>1, <1>3, HandOutLeaves DEF IInv, Exclusive, StackedOnce
<1>5. Allocated' = Allocated
  BY HandOutLeaves DEF Allocated
<1>6. Cardinality(used') = Cardinality(used) + 1
  BY <1>1, HandOutLeaves, Finite, FS_AddElement DEF IInv
<1>7. CountersExact'
  BY <1>5, <1>6, HandOutLeaves, Finite DEF IInv, CountersExact
<1>8. NotAllSpin'
  BY HandOutLeaves DEF NotAllSpin
<1> QED BY <1>2, <1>4, <1>7, <1>8 DEF IInv

LEMMA DiscardKeeps ==
  ASSUME IInv, NEW t \in Threads, NEW o \in Objects, Discard(t, o)
  PROVE  IInv'
<1>1. o \notin InHand /\ o \notin Stacked
  BY DiscardTakes DEF IInv, Exclusive
<1>2. obj' \in [Threads -> Objects]
  BY DiscardTakes DEF IInv, TypeOK
<1>3. TypeOK'
  BY <1>2, DiscardTakes DEF IInv, TypeOK
<1>4. HeldByOne'
  <2>1. obj'[t] = o /\ \A u \in Threads : u # t => obj'[u] = obj[u]
    BY DiscardTakes DEF IInv, TypeOK
  <2>2. \A u \in At({"counting", "returning"}) : u \in Threads /\ u # t /\ obj[u] # o
    BY <1>1, DiscardTakes DEF InHand, At
  <2> QED BY <2>1, <2>2, DiscardTakes DEF IInv, Exclusive, HeldByOne
<1>5. Exclusive'
  BY <1>1, <1>4, DiscardTakes DEF IInv, Exclusive, StackedOnce
<1>6. Allocated' = Allocated
  BY DiscardTakes DEF Allocated
<1>7. /\ Cardinality(used') = Cardinality(used) - 1
      /\ Cardinality(At({"returning", "uncounting"})')
           = Cardinality(At({"returning", "uncounting"})) + 1
  BY DiscardTakes, Finite, FS_AddElement, FS_RemoveElement DEF IInv
<1>8. CountersExact'
  BY <1>6, <1>7, DiscardTakes, Finite DEF IInv, CountersExact
<1>9. NotAllSpin'
  BY DiscardTakes DEF NotAllSpin
<1> QED BY <1>3, <1>5, <1>8, <1>9 DEF IInv

LEMMA PushKeeps ==
  ASSUME IInv, NEW t \in Threads, Push(t)
  PROVE  IInv'
<1>1. obj[t] \notin used
  BY PushLeaves DEF IInv, Exclusive
<1>2. TypeOK'
  BY PushLeaves DEF IInv, TypeOK
<1>3. HeldByOne'
  BY PushLeaves DEF IInv, Exclusive, HeldByOne
<1>4. Exclusive'
  BY <1>1, <1>3, PushLeaves DEF IInv, Exclusive
<1>5. Allocated' = Allocated
  BY PushLeaves DEF Allocated
<1>6. CountersExact'
  BY <1>5, PushLeaves DEF IInv, CountersExact
<1>7. NotAllSpin'
  BY PushLeaves DEF NotAllSpin
<1> QED BY <1>2, <1>4, <1>6, <1>7 DEF IInv

LEMMA UncountKeeps ==
  ASSUME IInv, NEW t \in Threads, Uncount(t)
  PROVE  IInv'
<1>1. /\ Cardinality(At({"returning", "uncounting"})')
           = Cardinality(At({"returning", "uncounting"})) - 1
      /\ Cardinality(At({"returning", "uncounting"})') \in Nat
  BY UncountMoves, Finite, FS_RemoveElement, FS_CardinalityType DEF IInv
<1>2. CountersExact'
  <2>1. Allocated' = Allocated
    BY UncountMoves DEF Allocated
  <2> QED BY <1>1, <2>1, UncountMoves, Finite DEF IInv, CountersExact
<1>3. m_in_use' \in Nat
  BY <1>1, UncountMoves, Finite DEF IInv, CountersExact
<1>4. TypeOK'
  BY <1>3, UncountMoves DEF IInv, TypeOK
<1>5. Exclusive'
  BY UncountMoves DEF IInv, Exclusive, StackedOnce, HeldByOne
<1>6. NotAllSpin'
  BY UncountMoves DEF NotAllSpin
<1> QED BY <1>2, <1>4, <1>5, <1>6 DEF IInv

LEMMA InvInit == Init => IInv
<1> SUFFICES ASSUME Init PROVE IInv
  OBVIOUS
<1>1. TypeOK
  BY EmptySeq DEF Init, TypeOK, Places
<1>2. Stacked = {} /\ InHand = {} /\ used = {} /\ StackedOnce /\ HeldByOne
  BY EmptySeq DEF Init, Stacked, InHand, At, StackedOnce, HeldByOne
<1>3. Exclusive
  BY <1>2 DEF Exclusive
<1>4. At({"returning", "uncounting"}) = {} /\ At({"popping"}) = {}
  BY DEF Init, At
<1>5. CountersExact
  BY <1>2, <1>4, FS_EmptySet DEF Init, CountersExact, Allocated
<1>6. NotAllSpin
  BY <1>4, PoolAssumption DEF NotAllSpin
<1> QED BY <1>1, <1>3, <1>5, <1>6 DEF IInv

LEMMA InvNext == IInv /\ [Next]_vars => IInv'
<1> SUFFICES ASSUME IInv, [Next]_vars PROVE IInv'
  OBVIOUS
<1>1. ASSUME NEW t \in Threads, Get(t) \/ Delete(t) PROVE IInv'
  BY <1>1, LookKeeps, PopKeeps, AllocateKeeps, HandOutKeeps, DiscardKeeps,
     PushKeeps, UncountKeeps DEF Get, Delete
<1>2. CASE UNCHANGED vars
  BY <1>2 DEF vars, IInv, TypeOK, Exclusive, StackedOnce, HeldByOne, CountersExact,
              NotAllSpin, Allocated, Stacked, InHand, At
<1> QED BY <1>1, <1>2 DEF Next

\* The invariant of the pool: each part of it holds in every reachable state.
THEOREM Invariance == Spec => []IInv
BY InvInit, InvNext, PTL DEF Spec

\* The stack and the counters are well formed: m_in_use is never taken below 0 by
\* the deleters (object_pool.hpp:89).
THEOREM TypeCorrect == Spec => []TypeOK
<1>1. IInv => TypeOK
  BY DEF IInv
<1> QED BY <1>1, Invariance, PTL

\* get() and the deleters never put an object in two places at once, however
\* many threads race for it between empty() and pop() (object_pool.hpp:92-94).
THEOREM OneOwner == Spec => []Exclusive
<1>1. IInv => Exclusive
  BY DEF IInv
<1> QED BY <1>1, Invariance, PTL

\* size() and in_use() (object_pool.hpp:48-49) are what they say they are.
THEOREM CountersRight == Spec => []CountersExact
<1>1. IInv => CountersExact
  BY DEF IInv
<1> QED BY <1>1, Invariance, PTL

\* The loop around pop() (object_pool.hpp:94) never has every thread in it with
\* the stack empty.
THEOREM SomeoneGoesOn == Spec => []NotAllSpin
<1>1. IInv => NotAllSpin
  BY DEF IInv
<1> QED BY <1>1, Invariance, PTL

-----------------------------------------------------------------------------
(* The refinement *)

Abstraction == <<Allocated, used \cup Returned, m_size>>

\* An object that reaches a thread is not on its way back.
LEMMA ReachesReturned ==
  ASSUME TypeOK, NEW t \in Threads, NEW o, Reaches(t, o)
  PROVE  Returned' = Returned
<1>1. \A u \in At({"returning"}) : u \in Threads /\ u # t
  BY DEF Reaches, At
<1>2. \A u \in At({"returning"}) : obj'[u] = obj[u]
  BY <1>1 DEF Reaches, TypeOK
<1> QED BY <1>2 DEF Reaches, Returned

\* Each step of the pool is a step of the allocator, or none.
LEMMA LookRefines ==
  ASSUME IInv, NEW t \in Threads, Look(t)
  PROVE  UNCHANGED Abstraction
BY LookMoves DEF IInv, Abstraction, Allocated, Returned

LEMMA PopRefines ==
  ASSUME IInv, NEW t \in Threads, Pop(t)
  PROVE  UNCHANGED Abstraction
<1> DEFINE o == Head(stack)
<1>1. Reaches(t, o) /\ Stacked = {o} \cup Stacked' /\ m_size' = m_size
  BY PopReaches
<1> HIDE DEF o
<1>2. Returned' = Returned
  BY <1>1, ReachesReturned DEF IInv
<1>3. Allocated' = Allocated
  BY <1>1 DEF Reaches, Allocated
<1> QED BY <1>1, <1>2, <1>3 DEF Reaches, Abstraction

LEMMA AllocateRefines ==
  ASSUME IInv, NEW t \in Threads, NEW o \in Objects, Allocate(t, o)
  PROVE  AbstractAllocator!Make(o)
<1>1. Reaches(t, o) /\ o \notin Allocated /\ m_size' = m_size + 1
  BY AllocateReaches DEF IInv
<1>2. Returned' = Returned
  BY <1>1, ReachesReturned DEF IInv
<1>3. Allocated' = Allocated \cup {o}
  BY AllocateKeeps
<1> QED BY <1>1, <1>2, <1>3 DEF Reaches, AbstractAllocator!Make

LEMMA HandOutRefines ==
  ASSUME IInv, NEW t \in Threads, HandOut(t)
  PROVE  \E o \in Objects : AbstractAllocator!Acquire(o)
<1>1. obj[t] \in Objects /\ obj[t] \in Allocated /\ obj[t] \notin used
  BY HandOutLeaves DEF IInv, Exclusive, Allocated
<1>2. obj[t] \notin Returned
  <2>1. \A u \in At({"returning"}) : u \in At({"counting", "returning"}) /\ u # t
    BY HandOutLeaves DEF At
  <2> QED BY <2>1, HandOutLeaves DEF IInv, Exclusive, HeldByOne, Returned
<1>3. Allocated' = Allocated /\ Returned' = Returned
  BY HandOutLeaves DEF Allocated, Returned
<1>4. AbstractAllocator!Acquire(obj[t])
  BY <1>1, <1>2, <1>3, HandOutLeaves DEF AbstractAllocator!Acquire
<1> QED BY <1>1, <1>4

LEMMA DiscardRefines ==
  ASSUME IInv, NEW t \in Threads, NEW o \in Objects, Discard(t, o)
  PROVE  UNCHANGED Abstraction
<1>1. obj'[t] = o /\ \A u \in Threads : u # t => obj'[u] = obj[u]
  BY DiscardTakes DEF IInv, TypeOK
<1>2. Returned' = Returned \cup {o}
  <2>1. \A u \in At({"returning"}) : u \in Threads /\ u # t
    BY DiscardTakes DEF At
  <2> QED BY <1>1, <2>1, DiscardTakes DEF Returned
<1>3. Allocated' = Allocated
  BY DiscardTakes DEF Allocated
<1> QED BY <1>2, <1>3, DiscardTakes DEF Abstraction

LEMMA PushRefines ==
  ASSUME IInv, NEW t \in Threads, Push(t)
  PROVE  \E o \in Objects : AbstractAllocator!Release(o)
<1>1. obj[t] \in Objects /\ obj[t] \in Returned /\ obj[t] \notin used
  BY PushLeaves DEF IInv, Exclusive, Returned
<1>2. Returned' = Returned \ {obj[t]}
  <2>1. \A u \in At({"returning"}) : u \in At({"counting", "returning"})
    BY DEF At
  <2>2. \A u \in At({"returning"}) : u # t => obj[u] # obj[t]
    BY <2>1, PushLeaves DEF IInv, Exclusive, HeldByOne
  <2> QED BY <2>2, PushLeaves DEF Returned
<1>3. Allocated' = Allocated
  BY PushLeaves DEF Allocated
<1>4. AbstractAllocator!Release(obj[t])
  BY <1>1, <1>2, <1>3, PushLeaves DEF AbstractAllocator!Release
<1> QED BY <1>1, <1>4

LEMMA UncountRefines ==
  ASSUME IInv, NEW t \in Threads, Uncount(t)
  PROVE  UNCHANGED Abstraction
BY UncountMoves DEF Abstraction, Allocated, Returned

LEMMA NextRefines ==
  IInv /\ [Next]_vars => [AbstractAllocator!Next]_AbstractAllocator!vars
<1> SUFFICES ASSUME IInv, [Next]_vars
             PROVE  [AbstractAllocator!Next]_AbstractAllocator!vars
  OBVIOUS
<1>1. UNCHANGED Abstraction => UNCHANGED AbstractAllocator!vars
  BY DEF Abstraction, AbstractAllocator!vars
<1>2. ASSUME NEW t \in Threads, Get(t) \/ Delete(t)
      PROVE  [AbstractAllocator!Next]_AbstractAllocator!vars
  <2>1. CASE Look(t) \/ Pop(t) \/ Uncount(t) \/ \E o \in Objects : Discard(t, o)
    BY <1>1, <2>1, LookRefines, PopRefines, UncountRefines, DiscardRefines
  <2>2. CASE HandOut(t) \/ Push(t) \/ \E o \in Objects : Allocate(t, o)
    BY <2>2, HandOutRefines, PushRefines, AllocateRefines DEF AbstractAllocator!Next
  <2> QED BY <1>2, <2>1, <2>2 DEF Get, Delete
<1>3. CASE UNCHANGED vars
  BY <1>1, <1>3 DEF vars, Abstraction, Allocated, Stacked, InHand, Returned, At
<1> QED BY <1>2, <1>3 DEF Next

LEMMA InitRefines == Init => AbstractAllocator!Init
<1> SUFFICES ASSUME Init PROVE AbstractAllocator!Init
  OBVIOUS
<1>1. Stacked = {} /\ InHand = {} /\ used = {} /\ Returned = {}
  BY EmptySeq DEF Init, Stacked, InHand, Returned, At
<1> QED BY <1>1 DEF Init, AbstractAllocator!Init, Allocated

\* The lock-free pool implements the allocator: what its users see of get() and of
\* the deleter is memory made once, and held by one of them at a time.
THEOREM PoolRefines == Spec => ImplementsAllocator
BY InitRefines, NextRefines, Invariance, PTL
   DEF Spec, ImplementsAllocator, AbstractAllocator!Spec
=============================================================================
