----------------------------- MODULE ObjectPool -----------------------------
(***************************************************************************)
(* common/object_pool.hpp: a stack of free objects, shared by every thread *)
(* without a lock, and two counters.                                       *)
(*                                                                         *)
(* get() looks whether the stack is empty and pops only afterwards: what it *)
(* saw may be gone, and then pop() is tried again until it succeeds.  The   *)
(* deleter of an object, run by the thread that drops its last pointer,     *)
(* cleans it up, pushes it and only then uncounts it.  boost's stack is     *)
(* linearizable: empty(), pop() and push() are one step each.  An object is *)
(* the memory it lives in.                                                 *)
(***************************************************************************)
EXTENDS Naturals, Sequences, FiniteSets

CONSTANTS
  Threads,  \* the threads that get objects and drop them
  Objects   \* bound: the objects there is memory for

ASSUME PoolAssumption ==
  Threads # {} /\ IsFiniteSet(Threads) /\ IsFiniteSet(Objects)

VARIABLES
  stack,     \* m_stack, its top first
  m_size,    \* objects allocated
  m_in_use,  \* objects in use
  used,      \* the objects someone has a pointer to
  pc,        \* where each thread is in get() or in a deleter
  obj        \* the object each thread works on

vars == <<stack, m_size, m_in_use, used, pc, obj>>

Init ==
  /\ stack = <<>>
  /\ m_size = 0 /\ m_in_use = 0
  /\ used = {}
  /\ pc = [t \in Threads |-> "idle"]
  /\ obj \in [Threads -> Objects]

Goes(t, from, to) == pc[t] = from /\ pc' = [pc EXCEPT ![t] = to]
At(places) == {t \in Threads : pc[t] \in places}

Stacked == {stack[i] : i \in 1..Len(stack)}
InHand == {obj[t] : t \in At({"counting", "returning"})}
Allocated == Stacked \cup used \cup InHand

-----------------------------------------------------------------------------
(* get(), get_del() *)

\* A slip: the stack is not looked at.
LookAtNothing(t) ==
  /\ Goes(t, "idle", "popping")
  /\ UNCHANGED <<stack, m_size, m_in_use, used, obj>>

Look(t) ==
  /\ \/ stack # <<>> /\ Goes(t, "idle", "popping")
     \/ /\ stack = <<>> /\ Goes(t, "idle", "allocating")
        /\ Cardinality(Allocated) + Cardinality(At({"allocating"}))
             < Cardinality(Objects)
  /\ UNCHANGED <<stack, m_size, m_in_use, used, obj>>

\* A slip: the object that is handed out stays on the stack.
PopNothing(t) ==
  /\ Goes(t, "popping", "counting")
  /\ stack # <<>>
  /\ obj' = [obj EXCEPT ![t] = Head(stack)]
  /\ UNCHANGED <<stack, m_size, m_in_use, used>>

\* pop() fails as long as the stack is empty.
Pop(t) ==
  /\ Goes(t, "popping", "counting")
  /\ stack # <<>>
  /\ obj' = [obj EXCEPT ![t] = Head(stack)]
  /\ stack' = Tail(stack)
  /\ UNCHANGED <<m_size, m_in_use, used>>

\* A slip: a new object is not counted.
AllocateUncounted(t, o) ==
  /\ Goes(t, "allocating", "counting")
  /\ o \notin Allocated
  /\ obj' = [obj EXCEPT ![t] = o]
  /\ UNCHANGED <<stack, m_size, m_in_use, used>>

Allocate(t, o) ==
  /\ Goes(t, "allocating", "counting")
  /\ o \notin Allocated
  /\ obj' = [obj EXCEPT ![t] = o]
  /\ m_size' = m_size + 1
  /\ UNCHANGED <<stack, m_in_use, used>>

\* A slip: the object is not counted.
HandOutUncounted(t) ==
  /\ Goes(t, "counting", "idle")
  /\ used' = used \cup {obj[t]}
  /\ UNCHANGED <<stack, m_size, m_in_use, obj>>

\* The object is constructed, counted and handed out.
HandOut(t) ==
  /\ Goes(t, "counting", "idle")
  /\ used' = used \cup {obj[t]}
  /\ m_in_use' = m_in_use + 1
  /\ UNCHANGED <<stack, m_size, obj>>

-----------------------------------------------------------------------------
(* The deleter *)

Discard(t, o) ==
  /\ Goes(t, "idle", "returning")
  /\ o \in used
  /\ used' = used \ {o}
  /\ obj' = [obj EXCEPT ![t] = o]
  /\ UNCHANGED <<stack, m_size, m_in_use>>

Push(t) ==
  /\ Goes(t, "returning", "uncounting")
  /\ stack' = <<obj[t]>> \o stack
  /\ UNCHANGED <<m_size, m_in_use, used, obj>>

\* A slip: an object is uncounted when it is pushed and once more here.
UncountTwice(t) ==
  /\ Goes(t, "uncounting", "idle")
  /\ m_in_use' = m_in_use - 2
  /\ UNCHANGED <<stack, m_size, used, obj>>

Uncount(t) ==
  /\ Goes(t, "uncounting", "idle")
  /\ m_in_use' = m_in_use - 1
  /\ UNCHANGED <<stack, m_size, used, obj>>

-----------------------------------------------------------------------------

Get(t) == Look(t) \/ Pop(t) \/ HandOut(t) \/ \E o \in Objects : Allocate(t, o)
Delete(t) == Push(t) \/ Uncount(t) \/ \E o \in Objects : Discard(t, o)

Next == \E t \in Threads : Get(t) \/ Delete(t)

Spec == Init /\ [][Next]_vars

-----------------------------------------------------------------------------
(* Properties *)

Places == {"idle", "popping", "allocating", "counting", "returning", "uncounting"}

\* The stack and the threads hold objects, the counters never wrap below 0.
TypeOK ==
  /\ stack \in Seq(Objects)
  /\ m_size \in Nat /\ m_in_use \in Nat
  /\ used \subseteq Objects
  /\ pc \in [Threads -> Places]
  /\ obj \in [Threads -> Objects]

\* However the threads race between empty(), pop() and push(), an object is in
\* one place: on the stack once, in use, or in the hands of one thread.
StackedOnce == \A i, j \in 1..Len(stack) : stack[i] = stack[j] => i = j
HeldByOne ==
  \A t, u \in At({"counting", "returning"}) : obj[t] = obj[u] => t = u
Exclusive ==
  /\ StackedOnce /\ HeldByOne
  /\ Stacked \cap used = {} /\ Stacked \cap InHand = {} /\ used \cap InHand = {}

\* in_use() counts an object from when it is handed out until its deleter is
\* over, and size() counts the objects there are, whatever threads are between
\* the change and its count.
CountersExact ==
  /\ m_in_use = Cardinality(used) + Cardinality(At({"returning", "uncounting"}))
  /\ m_size = Cardinality(Allocated)

\* empty() answers for a stack that others pop: a thread can be left trying to
\* pop an empty one, but never all of them, for whoever emptied it goes on.
NotAllSpin == stack = <<>> => At({"popping"}) # Threads

\* The pool implements the allocator: an object is held from its construction
\* until it is pushed.
Returned == {obj[t] : t \in At({"returning"})}

AbstractAllocator == INSTANCE Allocator WITH
  made <- Allocated,
  held <- used \cup Returned,
  size <- m_size

ImplementsAllocator == AbstractAllocator!Spec
=============================================================================
