---------------------------- MODULE LifetimeProofs ----------------------------
(***************************************************************************)
(* Proofs about Lifetime, for any connections, cells, lines and bounds.    *)
(***************************************************************************)
EXTENDS Lifetime, FiniteSetTheorems, FunctionTheorems, SequenceTheorems, TLAPS

\* What is proved about the pool, as the sessions use it.
PP == INSTANCE ObjectPoolProofs WITH Threads <- Actors, Objects <- Cells

-----------------------------------------------------------------------------
(* Counting what the queues hold. *)

\* Two sets one of which is mapped onto the other, one to one, are of a size.
LEMMA SameSize ==
  ASSUME NEW A, NEW B, NEW f \in [A -> B], IsFiniteSet(A),
         \A x, y \in A : f[x] = f[y] => x = y,
         \A b \in B : \E a \in A : f[a] = b
  PROVE  IsFiniteSet(B) /\ Cardinality(B) = Cardinality(A)
<1>1. f \in Bijection(A, B)
  BY Fun_IsBij
<1>2. ExistsBijection(A, B)
  BY <1>1, Fun_ExistsBij
<1> QED BY <1>2, FS_Bijection

\* A set with an element more or less.
LEMMA OneMore ==
  ASSUME NEW A, IsFiniteSet(A), NEW x, x \notin A
  PROVE  IsFiniteSet(A \cup {x}) /\ Cardinality(A \cup {x}) = Cardinality(A) + 1
BY FS_AddElement

LEMMA OneLess ==
  ASSUME NEW A, IsFiniteSet(A), NEW x \in A
  PROVE  IsFiniteSet(A \ {x}) /\ Cardinality(A \ {x}) = Cardinality(A) - 1
BY FS_RemoveElement

Queues(S) == [Conns -> Seq(S)]

\* The handler at the head of t's queue is taken off, or one is queued there.
Drop(queues, t) == [queues EXCEPT ![t] = Tail(@)]
Put(queues, t, h) == [queues EXCEPT ![t] = Append(@, h)]

LEMMA Dropped ==
  ASSUME NEW S, NEW queues \in Queues(S), NEW t \in Conns, queues[t] # <<>>
  PROVE  /\ Drop(queues, t) \in Queues(S)
         /\ Head(queues[t]) \in S /\ Len(queues[t]) \in Nat \ {0}
         /\ \A u \in Conns : Drop(queues, t)[u] = IF u = t THEN Tail(queues[t]) ELSE queues[u]
         /\ DOMAIN queues[t] = 1..Len(queues[t])
         /\ DOMAIN Tail(queues[t]) = 1..(Len(queues[t]) - 1)
         /\ \A i \in 1..(Len(queues[t]) - 1) : Tail(queues[t])[i] = queues[t][i + 1]
         /\ Head(queues[t]) = queues[t][1]
<1> DEFINE q == queues[t]
<1>1. q \in Seq(S) /\ q # <<>>
  BY DEF Queues
<1>2. Drop(queues, t) = [queues EXCEPT ![t] = Tail(q)]
  BY DEF Drop
<1> HIDE DEF q
<1>3. Head(q) \in S /\ Tail(q) \in Seq(S) /\ Len(Tail(q)) = Len(q) - 1
      /\ \A i \in 1..Len(Tail(q)) : Tail(q)[i] = q[i + 1]
  BY <1>1, HeadTailProperties
<1>4. Len(q) \in Nat \ {0}
  BY <1>1, EmptySeq
<1>5. DOMAIN q = 1..Len(q) /\ DOMAIN Tail(q) = 1..Len(Tail(q))
  BY <1>1, <1>3, LenProperties
<1>6. Head(q) = q[1]
  BY <1>1
<1>7. /\ Drop(queues, t) \in Queues(S)
      /\ \A u \in Conns : Drop(queues, t)[u] = IF u = t THEN Tail(q) ELSE queues[u]
  BY <1>2, <1>3 DEF Queues
<1> QED BY <1>3, <1>4, <1>5, <1>6, <1>7 DEF q

\* Or one is queued on several at a time.
PutAll(queues, T, hs) ==
  [t \in Conns |-> IF t \in T THEN Append(queues[t], hs[t]) ELSE queues[t]]

LEMMA QueuedAll ==
  ASSUME NEW S, NEW queues \in Queues(S), NEW T, NEW hs \in [Conns -> S]
  PROVE  /\ PutAll(queues, T, hs) \in Queues(S)
         /\ \A t \in Conns :
              LET q == queues[t]
                  r == PutAll(queues, T, hs)[t]
              IN  /\ Len(q) \in Nat /\ DOMAIN q = 1..Len(q)
                  /\ DOMAIN r = 1..(IF t \in T THEN Len(q) + 1 ELSE Len(q))
                  /\ \A i \in 1..Len(q) : r[i] = q[i]
                  /\ t \in T => r[Len(q) + 1] = hs[t] /\ r = Append(q, hs[t])
                  /\ t \notin T => r = q
<1>1. ASSUME NEW q \in Seq(S), NEW h \in S
      PROVE  /\ Append(q, h) \in Seq(S) /\ Len(q) \in Nat /\ DOMAIN q = 1..Len(q)
             /\ DOMAIN Append(q, h) = 1..(Len(q) + 1)
             /\ \A i \in 1..Len(q) : Append(q, h)[i] = q[i]
             /\ Append(q, h)[Len(q) + 1] = h
  <2>1. /\ Append(q, h) \in Seq(S) /\ Len(Append(q, h)) = Len(q) + 1
        /\ \A i \in 1..Len(q) : Append(q, h)[i] = q[i]
        /\ Append(q, h)[Len(q) + 1] = h
    BY AppendProperties
  <2>2. Len(q) \in Nat /\ DOMAIN q = 1..Len(q) /\ DOMAIN Append(q, h) = 1..Len(Append(q, h))
    BY <2>1, LenProperties
  <2> QED BY <2>1, <2>2
<1>2. \A t \in Conns : PutAll(queues, T, hs)[t] = IF t \in T THEN Append(queues[t], hs[t]) ELSE queues[t]
  BY DEF PutAll
<1>3. PutAll(queues, T, hs) \in Queues(S)
  BY <1>1 DEF PutAll, Queues
<1>4. ASSUME NEW t \in Conns
      PROVE  LET q == queues[t]
                 r == PutAll(queues, T, hs)[t]
             IN  /\ Len(q) \in Nat /\ DOMAIN q = 1..Len(q)
                 /\ DOMAIN r = 1..(IF t \in T THEN Len(q) + 1 ELSE Len(q))
                 /\ \A i \in 1..Len(q) : r[i] = q[i]
                 /\ t \in T => r[Len(q) + 1] = hs[t] /\ r = Append(q, hs[t])
                 /\ t \notin T => r = q
  <2> DEFINE q == queues[t]
             h == hs[t]
             r == PutAll(queues, T, hs)[t]
  <2>1. q \in Seq(S) /\ h \in S /\ r = IF t \in T THEN Append(q, h) ELSE q
    BY <1>2 DEF Queues
  <2> HIDE DEF q, h, r
  <2>2. Len(q) \in Nat /\ DOMAIN q = 1..Len(q)
    BY <2>1, <1>1
  <2>3. CASE t \in T
    <3>1. r = Append(q, h)
      BY <2>1, <2>3
    <3>2. DOMAIN r = 1..(Len(q) + 1) /\ (\A i \in 1..Len(q) : r[i] = q[i]) /\ r[Len(q) + 1] = h
      BY <2>1, <3>1, <1>1
    <3> QED BY <2>2, <2>3, <3>1, <3>2 DEF q, h, r
  <2>4. CASE t \notin T
    <3>1. r = q
      BY <2>1, <2>4
    <3> QED BY <2>2, <2>4, <3>1 DEF q, h, r
  <2> QED BY <2>3, <2>4
<1> QED BY <1>3, <1>4

LEMMA PutIsPutAll ==
  ASSUME NEW S, NEW queues \in Queues(S), NEW t \in Conns, NEW h \in S
  PROVE  /\ Put(queues, t, h) = PutAll(queues, {t}, [u \in Conns |-> h])
         /\ Put(queues, t, h) \in Queues(S)
         /\ Put(queues, t, h)[t] = Append(queues[t], h)
         /\ \A u \in Conns : u # t => Put(queues, t, h)[u] = queues[u]
<1>1. Append(queues[t], h) \in Seq(S)
  BY AppendProperties DEF Queues
<1> QED BY <1>1 DEF Put, PutAll, Queues

\* The places in finitely many queues are finitely many.
LEMMA FinitePlaces ==
  ASSUME NEW S, NEW queues \in Queues(S)
  PROVE  IsFiniteSet(Places(queues))
<1> DEFINE f == [t \in Conns |-> {t} \X DOMAIN queues[t]]
           T == {{t} \X DOMAIN queues[t] : t \in Conns}
<1>1. f \in [Conns -> T]
  OBVIOUS
<1>2. \A y \in T : \E t \in Conns : f[t] = y
  OBVIOUS
<1>3. IsFiniteSet(Conns)
  BY LifetimeAssumption DEF LifetimeAssumption
<1>4. IsFiniteSet(T)
  <2> HIDE DEF f, T
  <2>1. f \in Surjection(Conns, T)
    BY <1>1, <1>2, Fun_IsSurj
  <2> QED BY <2>1, <1>3, FS_Surjection
<1>5. ASSUME NEW t \in Conns PROVE IsFiniteSet({t} \X DOMAIN queues[t])
  <2>1. Len(queues[t]) \in Nat /\ DOMAIN queues[t] = 1..Len(queues[t])
    BY LenProperties
  <2>2. IsFiniteSet(1..Len(queues[t])) /\ IsFiniteSet({t})
    <3>1. 1 \in Int /\ Len(queues[t]) \in Int
      BY <2>1
    <3> QED BY <3>1, FS_Interval, FS_Singleton
  <2> QED BY <2>1, <2>2, FS_Product
<1> QED BY <1>4, <1>5, FS_UNION DEF Places

\* What is in a set of places.
LEMMA InPlaces ==
  ASSUME NEW queues
  PROVE  /\ \A t \in Conns : \A i \in DOMAIN queues[t] : <<t, i>> \in Places(queues)
         /\ \A p \in Places(queues) :
              /\ p = <<p[1], p[2]>> /\ p[1] \in Conns /\ p[2] \in DOMAIN queues[p[1]]
BY DEF Places

LEMMA CarryingNat ==
  ASSUME NEW S, NEW queues \in Queues(S), NEW c, NEW n
  PROVE  /\ IsFiniteSet(Carrying(queues, c, n))
         /\ Cardinality(Carrying(queues, c, n)) \in Nat
BY FinitePlaces, FS_Subset, FS_CardinalityType DEF Carrying

\* What places carry, when a handler is taken off ...
LEMMA CarryingDropped ==
  ASSUME NEW S, NEW queues \in Queues(S), NEW t \in Conns, queues[t] # <<>>,
         NEW c, NEW n
  PROVE  /\ Cardinality(Carrying(queues, c, n)) \in Nat
         /\ Cardinality(Carrying(Drop(queues, t), c, n)) =
              Cardinality(Carrying(queues, c, n)) - OneIf(PtrsIn(t, Head(queues[t]), c) >= n)
<1> DEFINE new == Drop(queues, t)
           A == Carrying(queues, c, n)
           B == Carrying(new, c, n)
           L == Len(queues[t])
           top == <<t, 1>>
           f == [p \in A \ {top} |-> IF p[1] = t THEN <<t, p[2] - 1>> ELSE p]
<1>1. /\ new \in Queues(S)
      /\ Head(queues[t]) = queues[t][1] /\ L \in Nat \ {0}
      /\ \A u \in Conns : new[u] = IF u = t THEN Tail(queues[t]) ELSE queues[u]
      /\ DOMAIN queues[t] = 1..L
      /\ DOMAIN Tail(queues[t]) = 1..(L - 1)
      /\ \A i \in 1..(L - 1) : Tail(queues[t])[i] = queues[t][i + 1]
  BY Dropped
<1> HIDE DEF new, L
<1>2. IsFiniteSet(A) /\ IsFiniteSet(B)
  <2>1. IsFiniteSet(Places(queues)) /\ IsFiniteSet(Places(new))
    BY <1>1, FinitePlaces
  <2>2. A \subseteq Places(queues) /\ B \subseteq Places(new)
    BY DEF Carrying
  <2> QED BY <2>1, <2>2, FS_Subset
<1>3. \A p \in A : /\ p = <<p[1], p[2]>> /\ p[1] \in Conns /\ p[2] \in DOMAIN queues[p[1]]
                  /\ PtrsIn(p[1], queues[p[1]][p[2]], c) >= n
  BY InPlaces DEF Carrying
<1>4. \A p \in B : /\ p = <<p[1], p[2]>> /\ p[1] \in Conns /\ p[2] \in DOMAIN new[p[1]]
                  /\ PtrsIn(p[1], new[p[1]][p[2]], c) >= n
  BY InPlaces DEF Carrying
<1>5. \A u \in Conns : \A i \in DOMAIN queues[u] :
        PtrsIn(u, queues[u][i], c) >= n => <<u, i>> \in A
  BY InPlaces DEF Carrying
<1>6. \A u \in Conns : \A i \in DOMAIN new[u] :
        PtrsIn(u, new[u][i], c) >= n => <<u, i>> \in B
  BY InPlaces DEF Carrying
<1>7. top \in A <=> PtrsIn(t, Head(queues[t]), c) >= n
  <2>1. 1 \in DOMAIN queues[t]
    BY <1>1
  <2>2. top \in A => PtrsIn(t, queues[t][1], c) >= n
    <3>1. top[1] = t /\ top[2] = 1
      OBVIOUS
    <3> QED BY <3>1, <1>3
  <2> QED BY <2>1, <2>2, <1>1, <1>5
<1> HIDE DEF A, B
<1>8. \A p \in A \ {top} : p[1] = t => /\ p[2] - 1 \in DOMAIN new[t]
                                     /\ new[t][p[2] - 1] = queues[t][p[2]]
  <2> SUFFICES ASSUME NEW p \in A \ {top}, p[1] = t
               PROVE  /\ p[2] - 1 \in DOMAIN new[t]
                      /\ new[t][p[2] - 1] = queues[t][p[2]]
    OBVIOUS
  <2>1. p = <<t, p[2]>> /\ p[2] \in 1..L
    BY <1>1, <1>3
  <2>2. p[2] # 1
    BY <2>1
  <2>3. p[2] - 1 \in 1..(L - 1) /\ (p[2] - 1) + 1 = p[2]
    BY <2>1, <2>2, <1>1
  <2>4. DOMAIN new[t] = 1..(L - 1) /\ new[t][p[2] - 1] = queues[t][(p[2] - 1) + 1]
    BY <2>3, <1>1
  <2> QED BY <2>3, <2>4
<1>9. f \in [A \ {top} -> B]
  <2> SUFFICES ASSUME NEW p \in A \ {top}
               PROVE  (IF p[1] = t THEN <<t, p[2] - 1>> ELSE p) \in B
    OBVIOUS
  <2>1. CASE p[1] = t
    <3>1. PtrsIn(t, new[t][p[2] - 1], c) >= n /\ p[2] - 1 \in DOMAIN new[t]
      BY <2>1, <1>3, <1>8
    <3> QED BY <3>1, <2>1, <1>6
  <2>2. CASE p[1] # t
    <3>1. p = <<p[1], p[2]>> /\ p[1] \in Conns /\ new[p[1]] = queues[p[1]]
      BY <2>2, <1>1, <1>3
    <3> QED BY <3>1, <2>2, <1>3, <1>6
  <2> QED BY <2>1, <2>2
<1>10. \A p, r \in A \ {top} : f[p] = f[r] => p = r
  <2> SUFFICES ASSUME NEW p \in A \ {top}, NEW r \in A \ {top}, f[p] = f[r] PROVE p = r
    OBVIOUS
  <2>1. /\ p = <<p[1], p[2]>> /\ r = <<r[1], r[2]>>
        /\ p[1] = t => p[2] \in 1..L
        /\ r[1] = t => r[2] \in 1..L
    BY <1>1, <1>3
  <2>2. /\ f[p] = IF p[1] = t THEN <<t, p[2] - 1>> ELSE p
        /\ f[r] = IF r[1] = t THEN <<t, r[2] - 1>> ELSE r
    OBVIOUS
  <2>3. f[p][1] = p[1] /\ f[r][1] = r[1]
    BY <2>1, <2>2
  <2>4. p[1] = r[1]
    BY <2>3
  <2>5. CASE p[1] = t
    <3>1. p[2] - 1 = r[2] - 1
      BY <2>2, <2>4, <2>5
    <3>2. p[2] = r[2]
      BY <3>1, <2>1, <2>4, <2>5, <1>1
    <3> QED BY <3>2, <2>1, <2>4
  <2>6. CASE p[1] # t
    BY <2>2, <2>4, <2>6
  <2> QED BY <2>5, <2>6
<1>11. \A b \in B : \E a \in A \ {top} : f[a] = b
  <2> SUFFICES ASSUME NEW b \in B PROVE \E a \in A \ {top} : f[a] = b
    OBVIOUS
  <2>1. CASE b[1] = t
    <3>1. b = <<t, b[2]>> /\ b[2] \in 1..(L - 1)
      BY <2>1, <1>1, <1>4
    <3>2. /\ b[2] + 1 \in 1..L /\ b[2] + 1 # 1 /\ (b[2] + 1) - 1 = b[2]
          /\ new[t][b[2]] = queues[t][b[2] + 1]
      <4>1. new[t] = Tail(queues[t]) /\ L \in Nat \ {0}
        BY <1>1
      <4>2. new[t][b[2]] = queues[t][b[2] + 1]
        BY <3>1, <4>1, <1>1
      <4>3. \A k \in 1..(L - 1) : k + 1 \in 1..L /\ k + 1 # 1 /\ (k + 1) - 1 = k
        BY <4>1
      <4> QED BY <3>1, <4>2, <4>3
    <3>3. <<t, b[2] + 1>> \in A
      BY <3>2, <2>1, <1>1, <1>4, <1>5
    <3>4. <<t, b[2] + 1>> # top
      BY <3>2
    <3>5. f[<<t, b[2] + 1>>] = <<t, (b[2] + 1) - 1>>
      BY <3>3, <3>4
    <3> QED BY <3>1, <3>2, <3>3, <3>4, <3>5
  <2>2. CASE b[1] # t
    <3>1. b = <<b[1], b[2]>> /\ b[1] \in Conns /\ new[b[1]] = queues[b[1]]
      BY <2>2, <1>1, <1>4
    <3>2. b \in A
      BY <3>1, <1>4, <1>5
    <3>3. b # top
      BY <2>2
    <3> QED BY <3>2, <3>3, <2>2
  <2> QED BY <2>1, <2>2
<1>12. /\ IsFiniteSet(A \ {top})
       /\ Cardinality(A \ {top}) = IF top \in A THEN Cardinality(A) - 1 ELSE Cardinality(A)
  BY <1>2, FS_RemoveElement
<1>13. Cardinality(B) = Cardinality(A \ {top})
  <2> DEFINE D == A \ {top}
  <2>1. IsFiniteSet(D) /\ f \in [D -> B] /\ (\A p, r \in D : f[p] = f[r] => p = r)
        /\ \A b \in B : \E a \in D : f[a] = b
    BY <1>9, <1>10, <1>11, <1>12
  <2> HIDE DEF f, D
  <2>2. Cardinality(B) = Cardinality(D)
    BY <2>1, SameSize
  <2> QED BY <2>2 DEF D
<1>14. Cardinality(A) \in Nat
  BY <1>2, FS_CardinalityType
<1> QED BY <1>7, <1>12, <1>13, <1>14 DEF A, B, new, OneIf

\* ... and when some are queued.
Takers(T, hs, c, n) == {t \in Conns : t \in T /\ PtrsIn(t, hs[t], c) >= n}

LEMMA CarryingPutAll ==
  ASSUME NEW S, NEW queues \in Queues(S), NEW T,
         NEW hs \in [Conns -> S], NEW c, NEW n
  PROVE  Cardinality(Carrying(PutAll(queues, T, hs), c, n)) =
           Cardinality(Carrying(queues, c, n)) + Cardinality(Takers(T, hs, c, n))
<1> DEFINE new == PutAll(queues, T, hs)
           A == Carrying(queues, c, n)
           B == Carrying(new, c, n)
           last(t) == <<t, Len(queues[t]) + 1>>
           U == {t \in Conns : t \in T /\ PtrsIn(t, hs[t], c) >= n}
           D == {last(t) : t \in U}
<1>1. /\ \A t \in Conns : /\ Len(queues[t]) \in Nat
                          /\ DOMAIN queues[t] = 1..Len(queues[t])
                          /\ DOMAIN new[t] = 1..(IF t \in T THEN Len(queues[t]) + 1 ELSE Len(queues[t]))
                          /\ \A i \in 1..Len(queues[t]) : new[t][i] = queues[t][i]
                          /\ t \in T => new[t][Len(queues[t]) + 1] = hs[t]
  BY QueuedAll
<1> HIDE DEF new
<1>2. IsFiniteSet(A)
  <2>1. IsFiniteSet(Places(queues))
    BY FinitePlaces
  <2> QED BY <2>1, FS_Subset DEF Carrying
<1>3. IsFiniteSet(U)
  BY LifetimeAssumption, FS_Subset DEF LifetimeAssumption
<1>4. IsFiniteSet(D) /\ Cardinality(D) = Cardinality(U)
  <2> DEFINE f == [t \in U |-> last(t)]
  <2> HIDE DEF U
  <2>1. f \in [U -> D] /\ (\A t, u \in U : f[t] = f[u] => t = u) /\ \A d \in D : \E t \in U : f[t] = d
    OBVIOUS
  <2> HIDE DEF f, D
  <2> QED BY <1>3, <2>1, SameSize
<1>5. \A p \in A : /\ p = <<p[1], p[2]>> /\ p[1] \in Conns /\ p[2] \in DOMAIN queues[p[1]]
                  /\ PtrsIn(p[1], queues[p[1]][p[2]], c) >= n
  BY InPlaces DEF Carrying
<1>6. \A p \in B : /\ p = <<p[1], p[2]>> /\ p[1] \in Conns /\ p[2] \in DOMAIN new[p[1]]
                  /\ PtrsIn(p[1], new[p[1]][p[2]], c) >= n
  BY InPlaces DEF Carrying
<1>7. \A u \in Conns : \A i \in DOMAIN queues[u] :
        PtrsIn(u, queues[u][i], c) >= n => <<u, i>> \in A
  BY InPlaces DEF Carrying
<1>8. \A u \in Conns : \A i \in DOMAIN new[u] :
        PtrsIn(u, new[u][i], c) >= n => <<u, i>> \in B
  BY InPlaces DEF Carrying
<1> HIDE DEF A, B
<1>9. \A u \in Conns : \A i \in DOMAIN queues[u] : i \in DOMAIN new[u] /\ new[u][i] = queues[u][i]
  <2> SUFFICES ASSUME NEW u \in Conns, NEW i \in 1..Len(queues[u])
               PROVE  i \in DOMAIN new[u] /\ new[u][i] = queues[u][i]
    BY <1>1
  <2>1. Len(queues[u]) \in Nat /\ i \in 1..(Len(queues[u]) + 1)
    BY <1>1
  <2> QED BY <2>1, <1>1
<1>10. \A u \in Conns : \A i \in DOMAIN new[u] :
         i \in DOMAIN queues[u] \/ (u \in T /\ i = Len(queues[u]) + 1)
  <2> SUFFICES ASSUME NEW u \in Conns, NEW i \in DOMAIN new[u],
                      ~(u \in T /\ i = Len(queues[u]) + 1)
               PROVE  i \in 1..Len(queues[u])
    BY <1>1
  <2>1. CASE u \in T
    <3>1. i \in 1..(Len(queues[u]) + 1) /\ i # Len(queues[u]) + 1 /\ Len(queues[u]) \in Nat
      BY <2>1, <1>1
    <3> QED BY <3>1
  <2>2. CASE u \notin T
    BY <2>2, <1>1
  <2> QED BY <2>1, <2>2
<1>11. A \subseteq B
  <2> SUFFICES ASSUME NEW p \in A PROVE p \in B
    OBVIOUS
  <2>1. /\ p = <<p[1], p[2]>> /\ p[1] \in Conns /\ p[2] \in DOMAIN new[p[1]]
        /\ new[p[1]][p[2]] = queues[p[1]][p[2]]
    BY <1>5, <1>9
  <2> QED BY <2>1, <1>5, <1>8
<1>12. B \subseteq A \cup D
  <2> SUFFICES ASSUME NEW p \in B PROVE p \in A \cup D
    OBVIOUS
  <2>1. CASE p[2] \in DOMAIN queues[p[1]]
    <3>1. PtrsIn(p[1], queues[p[1]][p[2]], c) >= n
      BY <2>1, <1>6, <1>9
    <3> QED BY <3>1, <2>1, <1>6, <1>7
  <2>2. CASE p[1] \in T /\ p[2] = Len(queues[p[1]]) + 1
    <3>1. p[1] \in U
      BY <2>2, <1>1, <1>6
    <3> HIDE DEF U
    <3> QED BY <2>2, <3>1, <1>6
  <2> QED BY <2>1, <2>2, <1>6, <1>10
<1>13. A \cap D = {}
  <2> SUFFICES ASSUME NEW t \in U, last(t) \in A PROVE FALSE
    OBVIOUS
  <2>1. last(t)[1] = t /\ last(t)[2] = Len(queues[t]) + 1
    OBVIOUS
  <2>2. Len(queues[t]) + 1 \in 1..Len(queues[t]) /\ Len(queues[t]) \in Nat
    BY <2>1, <1>1, <1>5
  <2> QED BY <2>2
<1>14. D \subseteq B
  <2> SUFFICES ASSUME NEW t \in U PROVE last(t) \in B
    OBVIOUS
  <2>1. Len(queues[t]) + 1 \in DOMAIN new[t] /\ new[t][Len(queues[t]) + 1] = hs[t]
    <3>1. Len(queues[t]) \in Nat /\ Len(queues[t]) + 1 \in 1..(Len(queues[t]) + 1)
      BY <1>1
    <3> QED BY <3>1, <1>1
  <2> QED BY <2>1, <1>8
<1>15. Cardinality(A) \in Nat /\ Cardinality(U) \in Nat
  BY <1>2, <1>3, FS_CardinalityType
<1>16. B = A \cup D
  BY <1>11, <1>12, <1>14
<1>17. Cardinality(A \cup D) = Cardinality(A) + Cardinality(D) - Cardinality(A \cap D)
  BY <1>2, <1>4, FS_Union
<1>18. Cardinality(A \cap D) = 0
  BY <1>13, FS_EmptySet
<1> HIDE DEF D, U
<1>19. Cardinality(B) = Cardinality(A) + Cardinality(U) - 0
  BY <1>4, <1>16, <1>17, <1>18
<1>20. Cardinality(B) = Cardinality(A) + Cardinality(U)
  BY <1>15, <1>19
<1> QED BY <1>15, <1>20 DEF A, B, new, U, Takers

LEMMA CarryingPut ==
  ASSUME NEW S, NEW queues \in Queues(S), NEW t \in Conns, NEW h \in S,
         NEW c, NEW n
  PROVE  /\ Cardinality(Carrying(queues, c, n)) \in Nat
         /\ Cardinality(Carrying(Put(queues, t, h), c, n)) =
              Cardinality(Carrying(queues, c, n)) + OneIf(PtrsIn(t, h, c) >= n)
<1> DEFINE hs == [u \in Conns |-> h]
           A == Cardinality(Carrying(queues, c, n))
           B == Cardinality(Carrying(PutAll(queues, {t}, hs), c, n))
<1>1. hs \in [Conns -> S] /\ hs[t] = h /\ {t} \in SUBSET Conns
  OBVIOUS
<1>2. Put(queues, t, h) = PutAll(queues, {t}, hs)
  BY DEF Put, PutAll, Queues
<1> HIDE DEF hs
<1>3. B = A + Cardinality(Takers({t}, hs, c, n))
  BY <1>1, CarryingPutAll
<1>4. Cardinality({t}) = 1 /\ Cardinality({}) = 0
  BY FS_Singleton, FS_EmptySet
<1>5. Takers({t}, hs, c, n) = IF PtrsIn(t, h, c) >= n THEN {t} ELSE {}
  BY <1>1 DEF Takers
<1>6. B = A + OneIf(PtrsIn(t, h, c) >= n)
  <2>1. A \in Nat
    BY CarryingNat
  <2> HIDE DEF A, B
  <2> QED BY <2>1, <1>3, <1>4, <1>5 DEF OneIf
<1> QED BY <1>2, <1>6, CarryingNat

\* So the pointers in the queues, of which a handler carries two at most.
LEMMA AtMostTwo ==
  ASSUME NEW t, NEW h, NEW c
  PROVE  PtrsIn(t, h, c) \in {0, 1, 2}
BY DEF PtrsIn, Weight

LEMMA CarriedDropped ==
  ASSUME NEW S, NEW queues \in Queues(S), NEW t \in Conns, queues[t] # <<>>, NEW c
  PROVE  /\ Carried(queues, c) \in Nat /\ Carried(Drop(queues, t), c) \in Nat
         /\ Carried(Drop(queues, t), c) =
              Carried(queues, c) - PtrsIn(t, Head(queues[t]), c)
<1> DEFINE w == PtrsIn(t, Head(queues[t]), c)
<1>1. /\ Cardinality(Carrying(queues, c, 1)) \in Nat
      /\ Cardinality(Carrying(queues, c, 2)) \in Nat
      /\ Cardinality(Carrying(Drop(queues, t), c, 1))
            = Cardinality(Carrying(queues, c, 1)) - OneIf(w >= 1)
      /\ Cardinality(Carrying(Drop(queues, t), c, 2))
            = Cardinality(Carrying(queues, c, 2)) - OneIf(w >= 2)
  BY CarryingDropped
<1>2. /\ Cardinality(Carrying(Drop(queues, t), c, 1)) \in Nat
      /\ Cardinality(Carrying(Drop(queues, t), c, 2)) \in Nat
  BY Dropped, FinitePlaces, FS_Subset, FS_CardinalityType DEF Carrying
<1>3. w \in {0, 1, 2}
  BY AtMostTwo
<1> HIDE DEF w
<1>4. OneIf(w >= 1) + OneIf(w >= 2) = w /\ OneIf(w >= 1) \in Nat /\ OneIf(w >= 2) \in Nat
  BY <1>3 DEF OneIf
<1> DEFINE a == Cardinality(Carrying(queues, c, 1))
           b == Cardinality(Carrying(queues, c, 2))
<1>5. /\ Carried(queues, c) = a + b /\ a \in Nat /\ b \in Nat
      /\ Carried(Drop(queues, t), c) = (a - OneIf(w >= 1)) + (b - OneIf(w >= 2))
      /\ Carried(Drop(queues, t), c) \in Nat
  BY <1>1, <1>2 DEF Carried
<1> HIDE DEF a, b
<1> QED BY <1>3, <1>4, <1>5 DEF w

LEMMA CarriedPut ==
  ASSUME NEW S, NEW queues \in Queues(S), NEW t \in Conns, NEW h \in S, NEW c
  PROVE  /\ Carried(queues, c) \in Nat
         /\ Carried(Put(queues, t, h), c) = Carried(queues, c) + PtrsIn(t, h, c)
<1> DEFINE w == PtrsIn(t, h, c)
<1>1. /\ Cardinality(Carrying(queues, c, 1)) \in Nat
      /\ Cardinality(Carrying(queues, c, 2)) \in Nat
      /\ Cardinality(Carrying(Put(queues, t, h), c, 1))
            = Cardinality(Carrying(queues, c, 1)) + OneIf(w >= 1)
      /\ Cardinality(Carrying(Put(queues, t, h), c, 2))
            = Cardinality(Carrying(queues, c, 2)) + OneIf(w >= 2)
  BY CarryingPut
<1>2. w \in {0, 1, 2}
  BY AtMostTwo
<1> HIDE DEF w
<1>3. OneIf(w >= 1) + OneIf(w >= 2) = w /\ OneIf(w >= 1) \in Nat /\ OneIf(w >= 2) \in Nat
  BY <1>2 DEF OneIf
<1> QED BY <1>1, <1>2, <1>3 DEF Carried, w

\* A broadcast queues handlers that carry w each, one for each of these strands.
AllCarry(S, T, hs, c, w) ==
  /\ T \in SUBSET Conns /\ hs \in [Conns -> S] /\ w \in {0, 1}
  /\ \A t \in T : PtrsIn(t, hs[t], c) = w

LEMMA CarriedPutAll ==
  ASSUME NEW S, NEW queues \in Queues(S), NEW T, NEW hs, NEW c, NEW w, AllCarry(S, T, hs, c, w)
  PROVE  /\ Carried(queues, c) \in Nat /\ Cardinality(T) \in Nat
         /\ Carried(PutAll(queues, T, hs), c) =
              Carried(queues, c) + (IF w = 1 THEN Cardinality(T) ELSE 0)
<1> DEFINE new == PutAll(queues, T, hs)
<1>0. Cardinality(Carrying(queues, c, 1)) \in Nat /\ Cardinality(Carrying(queues, c, 2)) \in Nat
  BY CarryingNat
<1>1. /\ T \in SUBSET Conns /\ hs \in [Conns -> S] /\ w \in {0, 1}
      /\ \A t \in T : PtrsIn(t, hs[t], c) = w
  BY DEF AllCarry
<1>2. ASSUME NEW n
      PROVE  Cardinality(Carrying(new, c, n)) =
               Cardinality(Carrying(queues, c, n)) + Cardinality(Takers(T, hs, c, n))
  BY <1>1, CarryingPutAll
<1>3. /\ Cardinality(Carrying(new, c, 1)) =
           Cardinality(Carrying(queues, c, 1)) + Cardinality(Takers(T, hs, c, 1))
      /\ Cardinality(Carrying(new, c, 2)) =
           Cardinality(Carrying(queues, c, 2)) + Cardinality(Takers(T, hs, c, 2))
  BY <1>2
<1>4. Cardinality(T) \in Nat /\ Cardinality({}) = 0
  <2>1. IsFiniteSet(T)
    BY <1>1, LifetimeAssumption, FS_Subset DEF LifetimeAssumption
  <2> QED BY <2>1, FS_CardinalityType, FS_EmptySet
<1>5. Takers(T, hs, c, 2) = {} /\ Takers(T, hs, c, 1) = IF w = 1 THEN T ELSE {}
  BY <1>1 DEF Takers
<1> HIDE DEF new
<1>6. /\ Carried(queues, c) = Cardinality(Carrying(queues, c, 1)) + Cardinality(Carrying(queues, c, 2))
      /\ Carried(new, c) = Cardinality(Carrying(new, c, 1)) + Cardinality(Carrying(new, c, 2))
  BY DEF Carried
<1> DEFINE a == Cardinality(Carrying(queues, c, 1))
           b == Cardinality(Carrying(queues, c, 2))
           k == Cardinality(T)
<1>7. CASE w = 1
  <2>1. Takers(T, hs, c, 2) = {} /\ Takers(T, hs, c, 1) = T
    BY <1>5, <1>7
  <2>2. /\ Carried(queues, c) = a + b /\ Carried(new, c) = (a + k) + (b + 0)
        /\ a \in Nat /\ b \in Nat /\ k \in Nat
    BY <2>1, <1>0, <1>3, <1>4, <1>6
  <2> HIDE DEF a, b, k
  <2>3. Carried(queues, c) \in Nat /\ Carried(new, c) = Carried(queues, c) + k
    BY <2>2
  <2> QED BY <2>2, <2>3, <1>7 DEF new, k
<1>8. CASE w = 0
  <2>1. Takers(T, hs, c, 2) = {} /\ Takers(T, hs, c, 1) = {}
    BY <1>5, <1>8
  <2>2. /\ Carried(queues, c) = a + b /\ Carried(new, c) = (a + 0) + (b + 0)
        /\ a \in Nat /\ b \in Nat /\ k \in Nat
    BY <2>1, <1>0, <1>3, <1>4, <1>6
  <2> HIDE DEF a, b, k
  <2>3. Carried(queues, c) \in Nat /\ Carried(new, c) = Carried(queues, c) + 0
    BY <2>2
  <2> QED BY <2>2, <2>3, <1>8 DEF new, k
<1> QED BY <1>1, <1>7, <1>8

\* How many times a handler is in a queue.
Found(q, x) == {i \in DOMAIN q : q[i] = x}

LEMMA TimesNat ==
  ASSUME NEW S, NEW q \in Seq(S), NEW x
  PROVE  IsFiniteSet(Found(q, x)) /\ Times(q, x) = Cardinality(Found(q, x)) /\ Times(q, x) \in Nat
<1>1. Len(q) \in Nat /\ DOMAIN q = 1..Len(q)
  BY LenProperties
<1>2. IsFiniteSet(1..Len(q))
  BY <1>1, FS_Interval
<1>3. IsFiniteSet(Found(q, x))
  BY <1>1, <1>2, FS_Subset DEF Found
<1> QED BY <1>3, FS_CardinalityType DEF Times, Found

LEMMA TimesAppended ==
  ASSUME NEW S, NEW q \in Seq(S), NEW h \in S, NEW x
  PROVE  Times(q, x) \in Nat /\ Times(Append(q, h), x) = Times(q, x) + OneIf(h = x)
<1> DEFINE r == Append(q, h)
           n == Len(q) + 1
<1>1. r \in Seq(S) /\ Len(r) = n /\ (\A i \in 1..Len(q) : r[i] = q[i]) /\ r[n] = h
  BY AppendProperties
<1>2. Len(q) \in Nat /\ DOMAIN q = 1..Len(q) /\ DOMAIN r = 1..n
  BY <1>1, LenProperties
<1> HIDE DEF r
<1>3. Found(r, x) = IF h = x THEN Found(q, x) \cup {n} ELSE Found(q, x)
  <2>1. \A i \in 1..n : i # n => i \in 1..Len(q)
    BY <1>2
  <2>2. \A i \in 1..Len(q) : i \in 1..n
    BY <1>2
  <2>3. n \in 1..n
    BY <1>2
  <2> QED BY <2>1, <2>2, <2>3, <1>1, <1>2 DEF Found
<1>4. n \notin Found(q, x)
  BY <1>2 DEF Found
<1>5. IsFiniteSet(Found(q, x)) /\ Times(q, x) = Cardinality(Found(q, x)) /\ Times(q, x) \in Nat
      /\ Times(r, x) = Cardinality(Found(r, x))
  BY <1>1, TimesNat
<1>6. Cardinality(Found(q, x) \cup {n}) = Cardinality(Found(q, x)) + 1
  BY <1>4, <1>5, OneMore
<1>7. Times(r, x) = Times(q, x) + OneIf(h = x)
  BY <1>3, <1>5, <1>6 DEF OneIf
<1> QED BY <1>5, <1>7 DEF r

LEMMA TimesDropped ==
  ASSUME NEW S, NEW q \in Seq(S), q # <<>>, NEW x
  PROVE  /\ Times(q, x) \in Nat /\ Times(Tail(q), x) \in Nat
         /\ Times(Tail(q), x) = Times(q, x) - OneIf(Head(q) = x)
<1> DEFINE r == Tail(q)
           A == Found(q, x)
           B == Found(r, x)
           f == [i \in A \ {1} |-> i - 1]
<1>1. r \in Seq(S) /\ Len(r) = Len(q) - 1 /\ (\A i \in 1..Len(r) : r[i] = q[i + 1]) /\ Head(q) = q[1]
  BY HeadTailProperties
<1>2. Len(q) \in Nat \ {0} /\ DOMAIN q = 1..Len(q) /\ DOMAIN r = 1..Len(r)
  BY <1>1, EmptySeq, LenProperties
<1> HIDE DEF r
<1>3. f \in [A \ {1} -> B]
  <2> SUFFICES ASSUME NEW i \in A \ {1} PROVE i - 1 \in B
    OBVIOUS
  <2>1. i \in 1..Len(q) /\ i # 1 /\ q[i] = x
    BY <1>2 DEF Found
  <2>2. i - 1 \in 1..Len(r) /\ (i - 1) + 1 = i
    BY <2>1, <1>1, <1>2
  <2> QED BY <2>1, <2>2, <1>1, <1>2 DEF Found
<1>4. \A i, j \in A \ {1} : f[i] = f[j] => i = j
  <2>1. \A i \in A : i \in Int
    BY <1>2 DEF Found
  <2> QED BY <2>1
<1>5. \A k \in B : \E i \in A \ {1} : f[i] = k
  <2> SUFFICES ASSUME NEW k \in B PROVE \E i \in A \ {1} : f[i] = k
    OBVIOUS
  <2>1. k \in 1..Len(r) /\ r[k] = x
    BY <1>2 DEF Found
  <2>2. k + 1 \in 1..Len(q) /\ k + 1 # 1 /\ (k + 1) - 1 = k /\ q[k + 1] = x
    BY <2>1, <1>1, <1>2
  <2>3. k + 1 \in A \ {1}
    BY <2>2, <1>2 DEF Found
  <2>4. f[k + 1] = (k + 1) - 1
    BY <2>3
  <2> QED BY <2>2, <2>3, <2>4
<1>6. /\ IsFiniteSet(A) /\ Times(q, x) = Cardinality(A) /\ Times(q, x) \in Nat
      /\ Times(r, x) = Cardinality(B) /\ Times(r, x) \in Nat
  BY <1>1, TimesNat
<1>7. 1 \in A <=> Head(q) = x
  BY <1>1, <1>2 DEF Found
<1> DEFINE D == A \ {1}
<1> HIDE DEF A, B
<1>8. IsFiniteSet(D) /\ Cardinality(D) = IF 1 \in A THEN Cardinality(A) - 1 ELSE Cardinality(A)
  BY <1>6, FS_RemoveElement
<1>9. Cardinality(B) = Cardinality(D)
  <2>1. f \in [D -> B] /\ (\A i, j \in D : f[i] = f[j] => i = j) /\ \A k \in B : \E i \in D : f[i] = k
    BY <1>3, <1>4, <1>5
  <2> HIDE DEF f, D
  <2> QED BY <2>1, <1>8, SameSize
<1> HIDE DEF D
<1>10. Times(r, x) = Times(q, x) - OneIf(Head(q) = x)
  BY <1>6, <1>7, <1>8, <1>9 DEF OneIf
<1> QED BY <1>6, <1>10 DEF r

-----------------------------------------------------------------------------
(* What is in the queues, and that at most one handler of a kind is. *)

In(q) == {q[i] : i \in DOMAIN q}
Reads(h) == h.op \in {"start", "readed"}
NoRead(q) == \A h \in In(q) : ~Reads(h)
OneRead(q) == \A i, j \in DOMAIN q : Reads(q[i]) /\ Reads(q[j]) => i = j

LEMMA InDropped ==
  ASSUME NEW S, NEW queues \in Queues(S), NEW t \in Conns, queues[t] # <<>>
  PROVE  /\ In(queues[t]) = {Head(queues[t])} \cup In(Drop(queues, t)[t])
         /\ \A u \in Conns : u # t => Drop(queues, t)[u] = queues[u]
         /\ NoRead(queues[t]) => NoRead(Drop(queues, t)[t])
         /\ OneRead(queues[t]) => OneRead(Drop(queues, t)[t])
         /\ OneRead(queues[t]) /\ Reads(Head(queues[t])) => NoRead(Drop(queues, t)[t])
<1> DEFINE q == queues[t]
           r == Drop(queues, t)[t]
           n == Len(q)
<1>1. /\ n \in Nat \ {0} /\ DOMAIN q = 1..n /\ DOMAIN r = 1..(n - 1)
      /\ \A i \in 1..(n - 1) : r[i] = q[i + 1]
      /\ Head(q) = q[1]
      /\ \A u \in Conns : u # t => Drop(queues, t)[u] = queues[u]
  <2>1. r = Tail(queues[t]) /\ \A u \in Conns : u # t => Drop(queues, t)[u] = queues[u]
    BY DEF Drop, Queues
  <2>2. /\ n \in Nat \ {0} /\ DOMAIN q = 1..n /\ DOMAIN Tail(queues[t]) = 1..(n - 1)
        /\ \A i \in 1..(n - 1) : Tail(queues[t])[i] = q[i + 1]
        /\ Head(q) = q[1]
    BY Dropped
  <2> HIDE DEF r
  <2> QED BY <2>1, <2>2
<1> HIDE DEF q, r, n
<1>2. \A i \in 1..n : i # 1 => i - 1 \in 1..(n - 1) /\ q[i] = r[i - 1]
  <2> SUFFICES ASSUME NEW i \in 1..n, i # 1 PROVE i - 1 \in 1..(n - 1) /\ q[i] = r[i - 1]
    OBVIOUS
  <2>1. i - 1 \in 1..(n - 1) /\ (i - 1) + 1 = i
    BY <1>1
  <2> QED BY <2>1, <1>1
<1>3. \A i \in 1..(n - 1) : i + 1 \in 1..n /\ i + 1 # 1
  BY <1>1
<1>4. In(q) = {Head(q)} \cup In(r)
  <2>1. 1 \in 1..n
    BY <1>1
  <2>2. In(q) \subseteq {Head(q)} \cup In(r)
    <3> SUFFICES ASSUME NEW i \in 1..n PROVE q[i] \in {Head(q)} \cup In(r)
      BY <1>1 DEF In
    <3>1. CASE i = 1
      BY <3>1, <1>1
    <3>2. CASE i # 1
      BY <3>2, <1>1, <1>2 DEF In
    <3> QED BY <3>1, <3>2
  <2>3. {Head(q)} \cup In(r) \subseteq In(q)
    BY <2>1, <1>1, <1>3 DEF In
  <2> QED BY <2>2, <2>3
<1>5. ASSUME OneRead(q) PROVE OneRead(r) /\ (Reads(Head(q)) => NoRead(r))
  <2>1. ASSUME NEW i \in 1..(n - 1), NEW j \in 1..(n - 1), Reads(r[i]), Reads(r[j]) PROVE i = j
    <3>1. i + 1 = j + 1
      BY <2>1, <1>1, <1>3, <1>5 DEF OneRead
    <3> QED BY <3>1
  <2>2. ASSUME Reads(Head(q)), NEW i \in 1..(n - 1), Reads(r[i]) PROVE FALSE
    <3>1. 1 = i + 1
      BY <2>2, <1>1, <1>3, <1>5 DEF OneRead
    <3> QED BY <3>1
  <2> QED BY <2>1, <2>2, <1>1 DEF OneRead, NoRead, In
<1>6. NoRead(q) => NoRead(r)
  BY <1>4 DEF NoRead
<1> QED BY <1>1, <1>4, <1>5, <1>6 DEF q, r

LEMMA InPutAll ==
  ASSUME NEW S, NEW queues \in Queues(S), NEW T, NEW hs \in [Conns -> S], NEW t \in Conns
  PROVE  /\ In(PutAll(queues, T, hs)[t]) =
              IF t \in T THEN In(queues[t]) \cup {hs[t]} ELSE In(queues[t])
         /\ OneRead(queues[t]) /\ (t \in T => NoRead(queues[t]) \/ ~Reads(hs[t]))
              => OneRead(PutAll(queues, T, hs)[t])
         /\ NoRead(queues[t]) /\ (t \in T => ~Reads(hs[t])) => NoRead(PutAll(queues, T, hs)[t])
<1> DEFINE q == queues[t]
           r == PutAll(queues, T, hs)[t]
           h == hs[t]
           n == Len(q)
<1>1. /\ n \in Nat /\ DOMAIN q = 1..n
      /\ DOMAIN r = 1..(IF t \in T THEN n + 1 ELSE n)
      /\ \A i \in 1..n : r[i] = q[i]
      /\ t \in T => r[n + 1] = h
      /\ t \notin T => r = q
  BY QueuedAll
<1> HIDE DEF q, r, h, n
<1>2. CASE t \in T
  <2>1. n + 1 \in 1..(n + 1) /\ (\A i \in 1..n : i \in 1..(n + 1))
        /\ \A i \in 1..(n + 1) : i \in 1..n \/ i = n + 1
    BY <1>1
  <2>2. DOMAIN r = 1..(n + 1) /\ r[n + 1] = h
    BY <1>1, <1>2
  <2>3. In(r) = In(q) \cup {h}
    <3>1. In(r) \subseteq In(q) \cup {h}
      BY <2>1, <2>2, <1>1 DEF In
    <3>2. In(q) \cup {h} \subseteq In(r)
      BY <2>1, <2>2, <1>1 DEF In
    <3> QED BY <3>1, <3>2
  <2>4. ASSUME OneRead(q), NoRead(q) \/ ~Reads(h) PROVE OneRead(r)
    BY <2>1, <2>2, <2>4, <1>1 DEF OneRead, NoRead, In
  <2>5. NoRead(q) /\ ~Reads(h) => NoRead(r)
    BY <2>3 DEF NoRead
  <2> QED BY <2>3, <2>4, <2>5, <1>2 DEF q, r, h
<1>3. CASE t \notin T
  <2>1. r = q
    BY <1>1, <1>3
  <2> QED BY <2>1, <1>3 DEF q, r, h
<1> QED BY <1>2, <1>3

LEMMA InPut ==
  ASSUME NEW S, NEW queues \in Queues(S), NEW t \in Conns, NEW h \in S
  PROVE  /\ In(Put(queues, t, h)[t]) = In(queues[t]) \cup {h}
         /\ OneRead(queues[t]) /\ (NoRead(queues[t]) \/ ~Reads(h)) => OneRead(Put(queues, t, h)[t])
         /\ NoRead(queues[t]) /\ ~Reads(h) => NoRead(Put(queues, t, h)[t])
         /\ \A u \in Conns : u # t => Put(queues, t, h)[u] = queues[u]
<1> DEFINE hs == [u \in Conns |-> h]
<1>1. hs \in [Conns -> S] /\ hs[t] = h /\ t \in {t}
  OBVIOUS
<1>2. /\ Put(queues, t, h) = PutAll(queues, {t}, hs)
      /\ \A u \in Conns : u # t => Put(queues, t, h)[u] = queues[u]
  BY DEF Put, PutAll, Queues
<1> HIDE DEF hs
<1> DEFINE q == queues[t]
           r == PutAll(queues, {t}, hs)[t]
<1>3. /\ In(r) = IF t \in {t} THEN In(q) \cup {hs[t]} ELSE In(q)
      /\ OneRead(q) /\ (t \in {t} => NoRead(q) \/ ~Reads(hs[t])) => OneRead(r)
      /\ NoRead(q) /\ (t \in {t} => ~Reads(hs[t])) => NoRead(r)
  BY <1>1, InPutAll
<1> QED BY <1>1, <1>2, <1>3

-----------------------------------------------------------------------------
(* The pool of sessions keeps its invariant, and every variable its type. *)

LEMMA PoolConstants == PP!PoolAssumption
<1>1. IsFiniteSet({"acceptor", "manager", "storage"})
  <2>1. {"acceptor", "manager", "storage"} = ({"acceptor"} \cup {"manager"}) \cup {"storage"}
    OBVIOUS
  <2>2. IsFiniteSet({"acceptor"}) /\ IsFiniteSet({"manager"}) /\ IsFiniteSet({"storage"})
    BY FS_Singleton
  <2>3. IsFiniteSet({"acceptor"} \cup {"manager"})
    BY <2>2, FS_Union
  <2>4. IsFiniteSet(({"acceptor"} \cup {"manager"}) \cup {"storage"})
    BY <2>2, <2>3, FS_Union
  <2> QED BY <2>1, <2>4
<1>2. IsFiniteSet(Actors)
  BY <1>1, LifetimeAssumption, FS_Union DEF LifetimeAssumption, Actors, Services
<1> QED BY <1>2, LifetimeAssumption 
       DEF PP!PoolAssumption, LifetimeAssumption, Actors, Services, PP!IsFiniteSet, IsFiniteSet

\* The server's own types: all of TypeOK but the pool's, and that no counter is
\* negative, which only RefCount can say.
ShapeOK ==
  /\ m_counter \in [Cells -> Int]
  /\ tenant \in [Cells -> Conns \cup {Nobody}]
  /\ cell \in [Conns -> Cells \cup {Nobody}]
  /\ m_list \subseteq Cells
  /\ mgr_strand \in Seq(Job) /\ updates \in Seq(Conns)
  /\ strand \in Queues(Handler)
  /\ writing \in Queues([op : {"wrote"}, msg : Message])
  /\ \A set \in {joining, reading, armed, far, on_stop, gone} : set \subseteq Conns
  /\ ended \in {"no", "exception", "dangling", "overwritten"}
  /\ lines \in 0..MaxLines

\* Handlers of these kinds are queued for a session that was constructed, and so
\* are the operations outstanding.
Own(h) == h.op \in {"start", "readed", "timeout"}
Belongs(queues, C) == \A c \in Conns : \A h \in In(queues[c]) : Own(h) => c \in C
Constructed == {c \in Conns : Started(c)}
Begun == reading \cup armed \subseteq Constructed /\ Belongs(strand, Constructed)

Basis == PP!IInv /\ ShapeOK /\ Begun

LEMMA BelongsDropped ==
  ASSUME NEW S, NEW queues \in Queues(S), NEW t \in Conns, queues[t] # <<>>,
         NEW C, Belongs(queues, C)
  PROVE  Belongs(Drop(queues, t), C) /\ (Own(Head(queues[t])) => t \in C)
BY InDropped DEF Belongs

LEMMA BelongsPut ==
  ASSUME NEW S, NEW queues \in Queues(S), NEW t \in Conns, NEW h \in S,
         NEW C, Belongs(queues, C), Own(h) => t \in C
  PROVE  Belongs(Put(queues, t, h), C)
<1> SUFFICES ASSUME NEW u \in Conns, NEW g \in In(Put(queues, t, h)[u]), Own(g)
             PROVE  u \in C
  BY DEF Belongs
<1>1. In(Put(queues, t, h)[t]) = In(queues[t]) \cup {h}
  BY InPut
<1>2. u # t => Put(queues, t, h)[u] = queues[u]
  BY InPut
<1> QED BY <1>1, <1>2 DEF Belongs

LEMMA BelongsPutAll ==
  ASSUME NEW S, NEW queues \in Queues(S), NEW T, NEW hs \in [Conns -> S],
         NEW C, Belongs(queues, C), \A t \in Conns : ~Own(hs[t])
  PROVE  Belongs(PutAll(queues, T, hs), C)
<1> SUFFICES ASSUME NEW t \in Conns, NEW h \in In(PutAll(queues, T, hs)[t]), Own(h)
             PROVE  t \in C
  BY DEF Belongs
<1>1. In(PutAll(queues, T, hs)[t]) = IF t \in T THEN In(queues[t]) \cup {hs[t]} ELSE In(queues[t])
  BY InPutAll
<1>2. h \in In(queues[t])
  BY <1>1
<1> QED BY <1>2 DEF Belongs

LEMMA PoolTypes ==
  ASSUME PP!IInv
  PROVE  used \subseteq Cells /\ obj \in [Actors -> Cells] /\ DOMAIN pc = Actors
BY DEF PP!IInv, PP!TypeOK

\* What the sessions do with the pool is what the pool allows.
PoolStep(a) ==
  \/ Pool!Look(a) \/ Pool!Pop(a) \/ Pool!HandOut(a) \/ Pool!Push(a) \/ Pool!Uncount(a)
  \/ \E m \in Cells : Pool!Allocate(a, m) \/ Pool!Discard(a, m)

PoolMoves == (\E a \in Actors : PoolStep(a)) \/ UNCHANGED poolVars

LEMMA PoolAllows ==
  ASSUME PoolMoves PROVE [PP!Next]_(PP!vars)
<1>1. ASSUME NEW a \in Actors, PoolStep(a) PROVE PP!Next
  <2>1. CASE Pool!Look(a)
    <3>1. PP!Look(a)
      BY <2>1 DEF Pool!Look, PP!Look, Pool!Goes, PP!Goes, Pool!Cardinality, PP!Cardinality,
                  Pool!Allocated, PP!Allocated, Pool!Stacked, PP!Stacked, Pool!InHand, PP!InHand,
                  Pool!At, PP!At
    <3> QED BY <3>1 DEF PP!Next, PP!Get
  <2>2. CASE Pool!Pop(a)
    BY <2>2 DEF Pool!Pop, PP!Pop, Pool!Goes, PP!Goes, PP!Next, PP!Get
  <2>3. CASE Pool!HandOut(a)
    BY <2>3 DEF Pool!HandOut, PP!HandOut, Pool!Goes, PP!Goes, PP!Next, PP!Get
  <2>4. CASE Pool!Push(a)
    BY <2>4 DEF Pool!Push, PP!Push, Pool!Goes, PP!Goes, PP!Next, PP!Delete
  <2>5. CASE Pool!Uncount(a)
    BY <2>5 DEF Pool!Uncount, PP!Uncount, Pool!Goes, PP!Goes, PP!Next, PP!Delete
  <2>6. ASSUME NEW m \in Cells, Pool!Allocate(a, m) PROVE PP!Next
    <3>1. PP!Allocate(a, m)
      BY <2>6 DEF Pool!Allocate, PP!Allocate, Pool!Goes, PP!Goes,
                  Pool!Allocated, PP!Allocated, Pool!Stacked, PP!Stacked, Pool!InHand, PP!InHand,
                  Pool!At, PP!At
    <3> QED BY <3>1 DEF PP!Next, PP!Get
  <2>7. ASSUME NEW m \in Cells, Pool!Discard(a, m) PROVE PP!Next
    <3>1. PP!Discard(a, m)
      BY <2>7 DEF Pool!Discard, PP!Discard, Pool!Goes, PP!Goes
    <3> QED BY <3>1 DEF PP!Next, PP!Delete
  <2> QED BY <1>1, <2>1, <2>2, <2>3, <2>4, <2>5, <2>6, <2>7 DEF PoolStep
<1> QED BY <1>1 DEF PoolMoves, poolVars, PP!vars

LEMMA PoolKept ==
  ASSUME PP!IInv, \/ \E a \in Actors : PoolStep(a)
                  \/ UNCHANGED poolVars
  PROVE  PP!IInv'
<1>1. [PP!Next]_(PP!vars)
  BY PoolAllows DEF PoolMoves
<1> QED BY <1>1, PoolConstants, PP!InvNext

LEMMA PoolBegins ==
  ASSUME Init PROVE PP!IInv
<1>1. PP!Init
  BY DEF Init, Pool!Init, PP!Init
<1> QED BY <1>1, PoolConstants, PP!InvInit

\* A handler has the fields its operation needs.
LEMMA HandlerFields ==
  ASSUME NEW h \in Handler
  PROVE  /\ h.op \in {"start", "readed", "timeout", "stop", "send", "wrote"}
         /\ h.op = "readed" => h.line \in {"data", "ping", "bad", "error"}
         /\ h.op = "timeout" => h.aborted \in BOOLEAN /\ h = Timeout(h.aborted)
         /\ h.op \in {"stop", "send"} => h.at \in Cells
         /\ h.op = "stop" => h = StopAt(h.at)
         /\ h.op \in {"send", "wrote"} => h.msg \in Message
BY DEF Handler, Timeout, StopAt

LEMMA MessageFields ==
  ASSUME NEW msg \in Message
  PROVE  /\ msg.holder \in Conns /\ msg.kind \in {"sync", "ping", "feed"}
         /\ Weight(msg) \in {1, 2} /\ Wrote(msg) \in [op : {"wrote"}, msg : Message]
         /\ Wrote(msg) \in Handler
         /\ \A m \in Cells : SendAt(m, msg) \in Handler
BY DEF Message, Weight, Wrote, SendAt, Handler

LEMMA JobFields ==
  ASSUME NEW job \in Job
  PROVE  /\ job.op \in {"push", "erase", "broadcast"}
         /\ job.op \in {"push", "erase"} => job.at \in Cells
         /\ job.op = "broadcast" => job.holder \in Conns /\ job = Broadcast(job.holder)
BY DEF Job, Broadcast

LEMMA Handlers ==
  /\ [op |-> "start"] \in Handler
  /\ Timeout(TRUE) \in Handler /\ Timeout(FALSE) \in Handler
  /\ \A m \in Cells : StopAt(m) \in Handler
  /\ \A line \in {"data", "ping", "bad", "error"} : [op |-> "readed", line |-> line] \in Handler
  /\ \A m \in Cells : [op |-> "push", at |-> m] \in Job /\ [op |-> "erase", at |-> m] \in Job
  /\ \A c \in Conns : Broadcast(c) \in Job
BY DEF Handler, Job, Timeout, StopAt, Broadcast

\* A handler that is off its strand, and what it has posted there.
LEMMA Ran ==
  ASSUME ShapeOK, NEW c \in Conns, NEW op, Ready(c, op)
  PROVE  /\ strand[c] # <<>> /\ Head(strand[c]).op = op /\ Head(strand[c]) \in Handler
         /\ strand[c] \in Seq(Handler)
         /\ Drop(strand, c) \in Queues(Handler)
         /\ After(c, <<>>) = Drop(strand, c)
         /\ \A h \in Handler : After(c, <<h>>) = Put(Drop(strand, c), c, h)
         /\ \A g, h \in Handler : After(c, <<g, h>>) = Put(Put(Drop(strand, c), c, g), c, h)
<1> DEFINE q == strand[c]
           r == Tail(q)
<1>1. q \in Seq(Handler) /\ q # <<>> /\ Head(q).op = op /\ strand \in Queues(Handler)
  BY DEF Ready, ShapeOK, Queues
<1>2. Drop(strand, c) \in Queues(Handler)
  BY <1>1, Dropped
<1>3. Head(q) \in Handler /\ r \in Seq(Handler)
  BY <1>1, HeadTailProperties
<1> HIDE DEF r
<1>4. r \o <<>> = r
  BY <1>3, ConcatEmptySeq
<1>5. \A h \in Handler : r \o <<h>> = Append(r, h)
  BY <1>3, AppendIsConcat
<1>6. \A g, h \in Handler : r \o <<g, h>> = Append(Append(r, g), h)
  <2> SUFFICES ASSUME NEW g \in Handler, NEW h \in Handler
               PROVE  r \o <<g, h>> = Append(Append(r, g), h)
    OBVIOUS
  <2>1. <<g>> \in Seq(Handler) /\ <<h>> \in Seq(Handler) /\ <<g>> \o <<h>> = <<g, h>>
    <3>1. /\ <<g>> \in Seq(Handler) /\ Len(<<g>>) = 1 /\ <<g>>[1] = g
          /\ <<h>> \in Seq(Handler) /\ Len(<<h>>) = 1 /\ <<h>>[1] = h
          /\ <<g, h>> \in Seq(Handler) /\ Len(<<g, h>>) = 2
          /\ <<g, h>>[1] = g /\ <<g, h>>[2] = h
      OBVIOUS
    <3>2. Append(<<g>>, h) = <<g, h>>
      <4> DEFINE x == Append(<<g>>, h)
                 y == <<g, h>>
      <4>1. x \in Seq(Handler) /\ Len(x) = 1 + 1 /\ x[1] = g /\ x[1 + 1] = h
        BY <3>1, AppendProperties
      <4>2. y \in Seq(Handler) /\ Len(y) = 2 /\ y[1] = g /\ y[2] = h
        BY <3>1
      <4> HIDE DEF x, y
      <4>3. Len(x) = Len(y) /\ \A i \in 1..Len(x) : x[i] = y[i]
        BY <4>1, <4>2
      <4>4. x = y
        BY <4>1, <4>2, <4>3, SeqEqual
      <4> QED BY <4>4 DEF x, y
    <3> QED BY <3>1, <3>2, AppendIsConcat
  <2>2. (r \o <<g>>) \o <<h>> = r \o (<<g>> \o <<h>>)
    BY <1>3, <2>1, ConcatAssociative
  <2>3. Append(r, g) \in Seq(Handler)
    BY <1>3, AppendProperties
  <2>4. Append(Append(r, g), h) = Append(r, g) \o <<h>>
    BY <2>3, AppendIsConcat
  <2> QED BY <2>1, <2>2, <2>4, <1>5
<1>7. \A posted : After(c, posted) = [strand EXCEPT ![c] = r \o posted]
  BY <1>1 DEF After, r
<1>8. Drop(strand, c) = [strand EXCEPT ![c] = r]
  BY <1>1 DEF Drop, r
<1>9. \A x \in Seq(Handler), h \in Handler :
        Put([strand EXCEPT ![c] = x], c, h) = [strand EXCEPT ![c] = Append(x, h)]
  BY <1>1 DEF Put
<1>10. \A h \in Handler : Append(r, h) \in Seq(Handler)
  BY <1>3, AppendProperties
<1>11. After(c, <<>>) = Drop(strand, c)
  BY <1>4, <1>7, <1>8
<1>12. \A h \in Handler : Put(Drop(strand, c), c, h) = [strand EXCEPT ![c] = Append(r, h)]
  BY <1>3, <1>8, <1>9
<1>13. \A h \in Handler : After(c, <<h>>) = Put(Drop(strand, c), c, h)
  BY <1>5, <1>7, <1>12
<1>14. \A g, h \in Handler : After(c, <<g, h>>) = Put(Put(Drop(strand, c), c, g), c, h)
  <2> SUFFICES ASSUME NEW g \in Handler, NEW h \in Handler
               PROVE  After(c, <<g, h>>) = Put(Put(Drop(strand, c), c, g), c, h)
    OBVIOUS
  <2>1. Put(Drop(strand, c), c, g) = [strand EXCEPT ![c] = Append(r, g)]
    BY <1>12
  <2>2. Put([strand EXCEPT ![c] = Append(r, g)], c, h) = [strand EXCEPT ![c] = Append(Append(r, g), h)]
    BY <1>9, <1>10
  <2> QED BY <2>1, <2>2, <1>6, <1>7
<1> QED BY <1>1, <1>2, <1>3, <1>11, <1>13, <1>14

\* How an actor ends: with the session kept, or as the one to destroy it.
Kept(c, n, S, J) ==
  /\ m_counter[cell[c]] + n # 0
  /\ strand' = S /\ mgr_strand' = J /\ UNCHANGED poolVars
Freed(a, c, n, S, J) ==
  /\ m_counter[cell[c]] + n = 0
  /\ Pool!Discard(a, cell[c])
  /\ cell[c] \in used /\ cell[c] \in Cells /\ used' = used \ {cell[c]}
  /\ strand' = Put(S, c, StopAt(cell[c]))
  /\ mgr_strand' = Append(J, [op |-> "erase", at |-> cell[c]])

LEMMA Ended ==
  ASSUME Basis, NEW a, NEW c \in Conns, NEW n \in Int,
         NEW S \in Queues(Handler), NEW J \in Seq(Job), Ends(a, c, n, S, J)
  PROVE  /\ m_counter' = [m_counter EXCEPT ![cell[c]] = @ + n]
         /\ Kept(c, n, S, J) \/ Freed(a, c, n, S, J)
<1>1. CASE m_counter[cell[c]] + n = 0
  <2>1. Pool!Discard(a, cell[c])
    BY <1>1 DEF Ends
  <2>2. cell[c] \in used /\ used' = used \ {cell[c]}
    BY <2>1 DEF Pool!Discard
  <2>3. cell[c] \in Cells
    BY <2>2, PoolTypes DEF Basis
  <2> QED BY <1>1, <2>1, <2>2, <2>3 DEF Ends, Count, Freed, Put
<1>2. CASE m_counter[cell[c]] + n # 0
  BY <1>2 DEF Ends, Count, Kept
<1> QED BY <1>1, <1>2

LEMMA EndedTyped ==
  ASSUME Basis, NEW a \in Actors, NEW c \in Conns, NEW n \in Int,
         NEW S \in Queues(Handler), NEW J \in Seq(Job), Ends(a, c, n, S, J)
  PROVE  /\ m_counter' \in [Cells -> Int]
         /\ strand' \in Queues(Handler) /\ mgr_strand' \in Seq(Job)
         /\ PP!IInv'
<1>1. /\ m_counter' = [m_counter EXCEPT ![cell[c]] = @ + n]
      /\ Kept(c, n, S, J) \/ Freed(a, c, n, S, J)
  BY Ended
<1>2. m_counter' \in [Cells -> Int]
  <2>1. m_counter \in [Cells -> Int]
    BY DEF Basis, ShapeOK
  <2>2. CASE cell[c] \in Cells
    <3>1. m_counter[cell[c]] + n \in Int
      BY <2>1, <2>2
    <3> QED BY <3>1, <2>1, <1>1
  <2>3. CASE cell[c] \notin Cells
    BY <2>1, <2>3, <1>1
  <2> QED BY <2>2, <2>3
<1>3. CASE Kept(c, n, S, J)
  BY <1>2, <1>3, PoolKept DEF Kept, Basis
<1>4. CASE Freed(a, c, n, S, J)
  <2>1. StopAt(cell[c]) \in Handler /\ [op |-> "erase", at |-> cell[c]] \in Job
    BY <1>4, Handlers DEF Freed
  <2>2. strand' \in Queues(Handler) /\ mgr_strand' \in Seq(Job)
    BY <1>4, <2>1, PutIsPutAll, AppendProperties DEF Freed
  <2>3. PoolStep(a)
    BY <1>4 DEF Freed, PoolStep
  <2> QED BY <1>2, <2>2, <2>3, PoolKept DEF Basis
<1> QED BY <1>1, <1>3, <1>4

LEMMA ManagerRan ==
  ASSUME ShapeOK, NEW op, ManagerReady(op)
  PROVE  /\ mgr_strand # <<>> /\ Head(mgr_strand) \in Job /\ Head(mgr_strand).op = op
         /\ Jobs \in Seq(Job)
         /\ op \in {"push", "erase"} => At \in Cells
         /\ op = "broadcast" => /\ Head(mgr_strand).holder \in Conns
                               /\ Head(mgr_strand) = Broadcast(Head(mgr_strand).holder)
<1>1. mgr_strand \in Seq(Job) /\ mgr_strand # <<>> /\ Head(mgr_strand).op = op
  BY DEF ShapeOK, ManagerReady
<1>2. Head(mgr_strand) \in Job /\ Jobs \in Seq(Job)
  BY <1>1, HeadTailProperties DEF Jobs
<1> QED BY <1>1, <1>2, JobFields DEF At

LEMMA WriteDone ==
  ASSUME ShapeOK, NEW c \in Conns, writing[c] # <<>>
  PROVE  LET W == [op : {"wrote"}, msg : Message]
         IN  /\ writing \in Queues(W) /\ writing[c] \in Seq(W)
             /\ Head(writing[c]) \in W /\ Head(writing[c]) \in Handler
             /\ [writing EXCEPT ![c] = Tail(@)] = Drop(writing, c)
             /\ Drop(writing, c) \in Queues(W)
<1> DEFINE W == [op : {"wrote"}, msg : Message]
<1>1. writing \in Queues(W)
  BY DEF ShapeOK
<1>2. W \subseteq Handler
  BY DEF Handler
<1> HIDE DEF W
<1>3. Head(writing[c]) \in W /\ Drop(writing, c) \in Queues(W)
  BY <1>1, Dropped
<1>4. [writing EXCEPT ![c] = Tail(@)] = Drop(writing, c)
  BY DEF Drop
<1> QED BY <1>1, <1>2, <1>3, <1>4 DEF W, Queues

\* What a broadcast posts, as one handler on each of several strands.
Listeners(cells) == {c \in Conns : Alive(c) /\ cell[c] \in cells}
FeedFor(h) == [kind |-> "feed", holder |-> h]
Feeds(h, m) == [c \in Conns |-> SendAt(IF cell[c] \in Cells THEN cell[c] ELSE m, FeedFor(h))]

LEMMA Sends ==
  ASSUME ShapeOK, NEW h \in Conns, NEW m \in Cells, NEW cells \in SUBSET Cells
  PROVE  LET FeedTo(x) == SendAt(x, [kind |-> "feed", holder |-> h])
         IN  /\ Posted(cells, FeedTo) = PutAll(strand, Listeners(cells), Feeds(h, m))
             /\ Feeds(h, m) \in [Conns -> Handler]
             /\ PutAll(strand, Listeners(cells), Feeds(h, m)) \in Queues(Handler)
             /\ Listeners(cells) \in SUBSET Conns
<1>1. strand \in Queues(Handler) /\ FeedFor(h) \in Message
  BY DEF ShapeOK, FeedFor, Message
<1>2. Feeds(h, m) \in [Conns -> Handler]
  BY <1>1, MessageFields DEF Feeds
<1>3. PutAll(strand, Listeners(cells), Feeds(h, m)) \in Queues(Handler)
  BY <1>1, <1>2, QueuedAll
<1>4. \A c \in Listeners(cells) : Feeds(h, m)[c] = SendAt(cell[c], [kind |-> "feed", holder |-> h])
  BY DEF Feeds, FeedFor, Listeners
<1> QED BY <1>2, <1>3, <1>4 DEF Posted, PutAll, Listeners

\* A handler ends with these strands, before it frees the session if it does.
Ending(a, c, n, S, J) ==
  /\ S \in Queues(Handler) /\ J \in Seq(Job) /\ Belongs(S, Constructed)
  /\ Ends(a, c, n, S, J)

PingFor(c) == SendAt(cell[c], [kind |-> "ping", holder |-> c])

LEMMA Begins ==
  ASSUME Basis, NEW c \in Conns, NEW op, Ready(c, op)
  PROVE  LET Q == Drop(strand, c)
         IN  /\ strand[c] # <<>> /\ Head(strand[c]) \in Handler /\ Head(strand[c]).op = op
             /\ strand \in Queues(Handler)
             /\ Q \in Queues(Handler) /\ Belongs(Q, Constructed)
             /\ mgr_strand \in Seq(Job)
             /\ op \in {"start", "readed", "timeout"} =>
                  Started(c) /\ cell[c] \in Cells
<1>1. /\ strand[c] # <<>> /\ Head(strand[c]) \in Handler /\ Head(strand[c]).op = op
      /\ strand \in Queues(Handler) /\ Drop(strand, c) \in Queues(Handler)
      /\ mgr_strand \in Seq(Job)
  BY Ran DEF Basis, ShapeOK
<1>2. Belongs(strand, Constructed)
  BY DEF Basis, Begun
<1>3. Belongs(Drop(strand, c), Constructed) /\ (Own(Head(strand[c])) => c \in Constructed)
  BY <1>1, <1>2, BelongsDropped
<1>4. c \in Constructed => Started(c) /\ cell[c] \in Cells
  BY DEF Constructed, Started, Basis, ShapeOK
<1> QED BY <1>1, <1>3, <1>4 DEF Own

LEMMA StartImplEnds ==
  ASSUME Basis, NEW c \in Conns, StartImpl(c)
  PROVE  Ending(c, c, 1, Drop(strand, c), mgr_strand)
<1>1. Ready(c, "start")
  BY DEF StartImpl
<1> QED BY <1>1, Begins, Ran DEF Ending, StartImpl, Basis

LEMMA ReadedDrops ==
  ASSUME Basis, NEW c \in Conns, ReadedError(c) \/ ReadedLate(c)
  PROVE  Ending(c, c, -1, Drop(strand, c), mgr_strand)
<1>1. Ready(c, "readed")
  BY DEF ReadedError, ReadedLate, Readed
<1> QED BY <1>1, Begins, Ran DEF Ending, ReadedError, ReadedLate, Basis

\* A wait that is cancelled queues its handler behind what the strand holds.
LEMMA Cancels ==
  ASSUME Basis, NEW c \in Conns, NEW op, Ready(c, op), Started(c)
  PROVE  LET Q == Put(Drop(strand, c), c, Timeout(TRUE))
         IN  Q \in Queues(Handler) /\ Belongs(Q, Constructed)
<1>1. /\ Drop(strand, c) \in Queues(Handler) /\ Belongs(Drop(strand, c), Constructed)
      /\ Timeout(TRUE) \in Handler /\ c \in Constructed
  BY Begins, Handlers DEF Constructed
<1> QED BY <1>1, PutIsPutAll, BelongsPut

LEMMA ReadedDataEnds ==
  ASSUME Basis, NEW c \in Conns, ReadedData(c)
  PROVE  Ending(c, c, 2, Put(Drop(strand, c), c, Timeout(TRUE)), mgr_strand)
<1>1. Ready(c, "readed")
  BY DEF ReadedData, InTime, Readed
<1>2. Started(c) /\ Timeout(TRUE) \in Handler /\ mgr_strand \in Seq(Job)
  BY <1>1, Begins, Handlers
<1>3. After(c, <<Timeout(TRUE)>>) = Put(Drop(strand, c), c, Timeout(TRUE))
  BY <1>1, <1>2, Ran DEF Basis
<1> QED BY <1>1, <1>2, <1>3, Cancels DEF Ending, ReadedData

LEMMA ReadedPingEnds ==
  ASSUME Basis, NEW c \in Conns, ReadedPing(c)
  PROVE  /\ Ending(c, c, 2, Put(Put(Drop(strand, c), c, Timeout(TRUE)), c, PingFor(c)), mgr_strand)
         /\ PingFor(c) \in Handler
<1>1. Ready(c, "readed")
  BY DEF ReadedPing, InTime, Readed
<1>2. Started(c) /\ cell[c] \in Cells /\ Timeout(TRUE) \in Handler /\ mgr_strand \in Seq(Job)
  BY <1>1, Begins, Handlers
<1>3. PingFor(c) \in Handler /\ ~Own(PingFor(c))
  BY <1>2, MessageFields DEF PingFor, Message, Own, SendAt
<1>4. After(c, <<Timeout(TRUE), PingFor(c)>>)
        = Put(Put(Drop(strand, c), c, Timeout(TRUE)), c, PingFor(c))
  BY <1>1, <1>2, <1>3, Ran DEF Basis
<1> DEFINE Q == Put(Drop(strand, c), c, Timeout(TRUE))
<1>5. Q \in Queues(Handler) /\ Belongs(Q, Constructed)
  BY <1>1, <1>2, Cancels
<1>6. Put(Q, c, PingFor(c)) \in Queues(Handler) /\ Belongs(Put(Q, c, PingFor(c)), Constructed)
  <2> HIDE DEF Q
  <2> QED BY <1>3, <1>5, PutIsPutAll, BelongsPut
<1>7. Ends(c, c, 2, After(c, <<Timeout(TRUE), PingFor(c)>>), mgr_strand)
  BY DEF ReadedPing, PingFor
<1> QED BY <1>2, <1>3, <1>4, <1>6, <1>7 DEF Ending

LEMMA ReadedBadEnds ==
  ASSUME Basis, NEW c \in Conns, ReadedBad(c)
  PROVE  Ending(c, c, 0, Put(Put(Drop(strand, c), c, Timeout(TRUE)), c, Timeout(TRUE)), mgr_strand)
<1>1. Ready(c, "readed")
  BY DEF ReadedBad, InTime, Readed
<1>2. Started(c) /\ cell[c] \in Cells /\ Timeout(TRUE) \in Handler /\ mgr_strand \in Seq(Job)
      /\ c \in Constructed
  BY <1>1, Begins, Handlers DEF Constructed
<1>4. After(c, <<Timeout(TRUE), Timeout(TRUE)>>)
        = Put(Put(Drop(strand, c), c, Timeout(TRUE)), c, Timeout(TRUE))
  BY <1>1, <1>2, Ran DEF Basis
<1> DEFINE Q == Put(Drop(strand, c), c, Timeout(TRUE))
<1>5. Q \in Queues(Handler) /\ Belongs(Q, Constructed)
  BY <1>1, <1>2, Cancels
<1>6. Put(Q, c, Timeout(TRUE)) \in Queues(Handler) /\ Belongs(Put(Q, c, Timeout(TRUE)), Constructed)
  <2> HIDE DEF Q
  <2> QED BY <1>2, <1>5, PutIsPutAll, BelongsPut
<1>7. Ends(c, c, 0, After(c, <<Timeout(TRUE), Timeout(TRUE)>>), mgr_strand)
  BY DEF ReadedBad
<1> QED BY <1>2, <1>4, <1>6, <1>7 DEF Ending

LEMMA OnTimeoutEnds ==
  ASSUME Basis, NEW c \in Conns, OnTimeout(c)
  PROVE  /\ Head(strand[c]) \in {Timeout(TRUE), Timeout(FALSE)}
         /\ Head(strand[c]) = Timeout(TRUE) => Ending(c, c, -1, Drop(strand, c), mgr_strand)
         /\ Head(strand[c]) = Timeout(FALSE) =>
              /\ Ending(c, c, -1, Put(Drop(strand, c), c, StopAt(cell[c])), mgr_strand)
              /\ StopAt(cell[c]) \in Handler
<1>1. Ready(c, "timeout")
  BY DEF OnTimeout
<1>2. /\ Started(c) /\ cell[c] \in Cells /\ mgr_strand \in Seq(Job)
      /\ Drop(strand, c) \in Queues(Handler) /\ Belongs(Drop(strand, c), Constructed)
      /\ Head(strand[c]) \in Handler /\ Head(strand[c]).op = "timeout"
  BY <1>1, Begins
<1>3. /\ Head(strand[c]).aborted \in BOOLEAN
      /\ Head(strand[c]) = Timeout(Head(strand[c]).aborted)
  BY <1>2, HandlerFields
<1>4. /\ StopAt(cell[c]) \in Handler /\ ~Own(StopAt(cell[c]))
  BY <1>2, Handlers DEF StopAt, Own
<1>5. /\ After(c, <<>>) = Drop(strand, c)
      /\ After(c, <<StopAt(cell[c])>>) = Put(Drop(strand, c), c, StopAt(cell[c]))
  BY <1>1, <1>4, Ran DEF Basis
<1>6. /\ Put(Drop(strand, c), c, StopAt(cell[c])) \in Queues(Handler)
      /\ Belongs(Put(Drop(strand, c), c, StopAt(cell[c])), Constructed)
  BY <1>2, <1>4, PutIsPutAll, BelongsPut
<1>7. CASE Head(strand[c]).aborted = TRUE
  <2>1. Head(strand[c]) = Timeout(TRUE) /\ Timeout(TRUE) # Timeout(FALSE)
    BY <1>3, <1>7 DEF Timeout
  <2>2. Ends(c, c, -1, After(c, <<>>), mgr_strand)
    BY <1>7 DEF OnTimeout
  <2> QED BY <2>1, <2>2, <1>2, <1>5 DEF Ending
<1>8. CASE Head(strand[c]).aborted = FALSE
  <2>1. Head(strand[c]) = Timeout(FALSE) /\ Timeout(TRUE) # Timeout(FALSE)
    BY <1>3, <1>8 DEF Timeout
  <2>2. Ends(c, c, -1, After(c, <<StopAt(cell[c])>>), mgr_strand)
    BY <1>8 DEF OnTimeout
  <2> QED BY <2>1, <2>2, <1>2, <1>4, <1>5, <1>6 DEF Ending
<1> QED BY <1>3, <1>7, <1>8

LEMMA SendImplEnds ==
  ASSUME Basis, NEW c \in Conns, SendImpl(c)
  PROVE  LET msg == Head(strand[c]).msg
             s == tenant[Head(strand[c]).at]
         IN  /\ msg \in Message /\ msg.holder \in Conns /\ Weight(msg) \in {1, 2}
             /\ Head(strand[c]).op = "send"
             /\ s \in Conns
             /\ Ending(c, msg.holder, 0, Drop(strand, c), mgr_strand)
             /\ writing' = Put(writing, s, Wrote(msg))
<1>1. Ready(c, "send")
  BY DEF SendImpl
<1>2. /\ mgr_strand \in Seq(Job)
      /\ Drop(strand, c) \in Queues(Handler) /\ Belongs(Drop(strand, c), Constructed)
      /\ Head(strand[c]) \in Handler /\ Head(strand[c]).op = "send"
      /\ After(c, <<>>) = Drop(strand, c)
  BY <1>1, Begins, Ran DEF Basis
<1>3. Head(strand[c]).msg \in Message /\ Head(strand[c]).at \in Cells
  BY <1>2, HandlerFields
<1>4. tenant[Head(strand[c]).at] \in Conns
  BY <1>3 DEF Basis, ShapeOK, SendImpl
<1> QED BY <1>2, <1>3, <1>4, MessageFields DEF SendImpl, Ending, Put

LEMMA OnWroteEnds ==
  ASSUME Basis, NEW c \in Conns, OnWrote(c)
  PROVE  LET msg == Head(strand[c]).msg
         IN  /\ msg \in Message /\ msg.holder \in Conns /\ Weight(msg) \in {1, 2}
             /\ Head(strand[c]).op = "wrote"
             /\ Ending(c, msg.holder, -Weight(msg), Drop(strand, c), mgr_strand)
<1>1. Ready(c, "wrote")
  BY DEF OnWrote
<1>2. /\ mgr_strand \in Seq(Job)
      /\ Drop(strand, c) \in Queues(Handler) /\ Belongs(Drop(strand, c), Constructed)
      /\ Head(strand[c]) \in Handler /\ Head(strand[c]).op = "wrote"
      /\ After(c, <<>>) = Drop(strand, c)
  BY <1>1, Begins, Ran DEF Basis
<1>3. Head(strand[c]).msg \in Message
  BY <1>2, HandlerFields
<1> QED BY <1>2, <1>3, MessageFields DEF OnWrote, Ending

LEMMA StopImplStrands ==
  ASSUME Basis, NEW c \in Conns, StopImpl(c)
  PROVE  LET m == Head(strand[c]).at
             s == tenant[m]
         IN  /\ Head(strand[c]) = StopAt(m) /\ m \in Cells /\ strand[c] # <<>>
             /\ s \in Conns
             /\ Drop(strand, c) \in Queues(Handler) /\ Belongs(Drop(strand, c), Constructed)
             /\ s \in on_stop => strand' = Drop(strand, c) /\ UNCHANGED socketVars
             /\ s \notin on_stop =>
                  /\ on_stop' = on_stop \cup {s} /\ armed' = armed \ {s}
                  /\ UNCHANGED <<reading, writing, far>>
                  /\ strand' = IF s \in armed THEN Put(Drop(strand, c), s, Timeout(TRUE))
                                ELSE Drop(strand, c)
<1>1. Ready(c, "stop")
  BY DEF StopImpl
<1>2. /\ strand[c] # <<>>
      /\ Drop(strand, c) \in Queues(Handler) /\ Belongs(Drop(strand, c), Constructed)
      /\ Head(strand[c]) \in Handler /\ Head(strand[c]).op = "stop"
      /\ After(c, <<>>) = Drop(strand, c)
  BY <1>1, Begins, Ran DEF Basis
<1>3. Head(strand[c]) = StopAt(Head(strand[c]).at) /\ Head(strand[c]).at \in Cells
  BY <1>2, HandlerFields
<1>4. tenant[Head(strand[c]).at] \in Conns
  BY <1>3 DEF Basis, ShapeOK, StopImpl
<1> QED BY <1>2, <1>3, <1>4 DEF StopImpl, Put

SyncFor(c) == SendAt(cell[c], [kind |-> "sync", holder |-> c])

LEMMA JoinedEnds ==
  ASSUME Basis, NEW c \in Conns, Joined(c)
  PROVE  /\ c \in joining /\ Started(c) /\ joining' = {}
         /\ c \in Synced => /\ Ending("acceptor", c, 1, Put(strand, c, SyncFor(c)), mgr_strand)
                            /\ SyncFor(c) \in Handler
         /\ c \notin Synced => Ending("acceptor", c, -1, strand, mgr_strand)
<1>1. c \in joining /\ Started(c) /\ joining' = {}
  BY DEF Joined
<1>2. /\ strand \in Queues(Handler) /\ mgr_strand \in Seq(Job) /\ Belongs(strand, Constructed)
      /\ cell[c] \in Cells
  BY <1>1 DEF Basis, ShapeOK, Begun, Started
<1>3. SyncFor(c) \in Handler /\ ~Own(SyncFor(c))
  BY <1>2, MessageFields DEF SyncFor, Message, Own, SendAt
<1>4. Put(strand, c, SyncFor(c)) \in Queues(Handler) /\ Belongs(Put(strand, c, SyncFor(c)), Constructed)
  BY <1>2, <1>3, PutIsPutAll, BelongsPut
<1> QED BY <1>1, <1>2, <1>3, <1>4 DEF Joined, Ending, Put, SyncFor

LEMMA BroadcastEnds ==
  ASSUME Basis, BroadcastImpl
  PROVE  LET h == Head(mgr_strand).holder
             others == m_list \ {cell[h]}
             hs == Feeds(h, obj["manager"])
         IN  /\ h \in Conns /\ Head(mgr_strand) = Broadcast(h) /\ mgr_strand # <<>>
             /\ Cardinality(others) \in Nat /\ IsFiniteSet(others) /\ others \in SUBSET Cells
             /\ hs \in [Conns -> Handler]
             /\ Ending("manager", h, Cardinality(others) - 1,
                       PutAll(strand, Listeners(others), hs), Jobs)
<1> DEFINE h == Head(mgr_strand).holder
           others == m_list \ {cell[h]}
           m == obj["manager"]
           hs == Feeds(h, m)
           FeedTo(x) == SendAt(x, [kind |-> "feed", holder |-> h])
<1>1. /\ h \in Conns /\ Head(mgr_strand) = Broadcast(h) /\ mgr_strand # <<>> /\ Jobs \in Seq(Job)
  BY ManagerRan DEF BroadcastImpl, Basis
<1>2. Ends("manager", h, Cardinality(others) - 1, Posted(others, FeedTo), Jobs)
  BY DEF BroadcastImpl
<1>3. others \in SUBSET Cells /\ m \in Cells
  BY PoolTypes DEF Basis, ShapeOK, Actors, Services
<1>4. IsFiniteSet(others) /\ Cardinality(others) \in Nat
  BY <1>3, LifetimeAssumption, FS_Subset, FS_CardinalityType DEF LifetimeAssumption
<1> HIDE DEF h, others, m
<1>5. /\ Posted(others, FeedTo) = PutAll(strand, Listeners(others), hs)
      /\ hs \in [Conns -> Handler]
      /\ PutAll(strand, Listeners(others), hs) \in Queues(Handler)
  BY <1>1, <1>3, Sends DEF Basis
<1>6. \A c \in Conns : ~Own(hs[c])
  BY DEF Feeds, SendAt, Own
<1>7. strand \in Queues(Handler) /\ Belongs(strand, Constructed)
  BY DEF Basis, ShapeOK, Begun
<1> HIDE DEF hs
<1>8. Belongs(PutAll(strand, Listeners(others), hs), Constructed)
  BY <1>5, <1>6, <1>7, BelongsPutAll
<1>9. Ending("manager", h, Cardinality(others) - 1, PutAll(strand, Listeners(others), hs), Jobs)
  BY <1>1, <1>2, <1>5, <1>8 DEF Ending
<1> QED BY <1>1, <1>3, <1>4, <1>5, <1>9 DEF h, others, m, hs

LEMMA UpdateEnds ==
  ASSUME Basis, Update
  PROVE  LET c == Head(updates)
         IN  /\ c \in Conns /\ updates # <<>> /\ updates' = Tail(updates)
             /\ Tail(updates) \in Seq(Conns) /\ Broadcast(c) \in Job
             /\ \/ Ending("storage", c, 0, strand, Append(mgr_strand, Broadcast(c)))
                \/ Ending("storage", c, -1, strand, mgr_strand)
<1>1. updates \in Seq(Conns) /\ updates # <<>> /\ updates' = Tail(updates)
  BY DEF Update, Basis, ShapeOK
<1>2. Head(updates) \in Conns /\ Tail(updates) \in Seq(Conns)
  BY <1>1, HeadTailProperties
<1>3. Broadcast(Head(updates)) \in Job /\ mgr_strand \in Seq(Job)
      /\ strand \in Queues(Handler) /\ Belongs(strand, Constructed)
  BY <1>2, Handlers DEF Basis, ShapeOK, Begun
<1>4. Append(mgr_strand, Broadcast(Head(updates))) \in Seq(Job)
  BY <1>3, AppendProperties
<1> QED BY <1>1, <1>2, <1>3, <1>4 DEF Update, Ending

\* Whoever ends.
LEMMA EndingKeeps ==
  ASSUME Basis, NEW a \in Actors, NEW c \in Conns, NEW n \in Int, NEW S, NEW J,
         Ending(a, c, n, S, J)
  PROVE  /\ m_counter' \in [Cells -> Int]
         /\ strand' \in Queues(Handler) /\ mgr_strand' \in Seq(Job)
         /\ PP!IInv'
         /\ Belongs(strand', Constructed)
<1>1. S \in Queues(Handler) /\ J \in Seq(Job) /\ Ends(a, c, n, S, J) /\ Belongs(S, Constructed)
  BY DEF Ending
<1>2. /\ m_counter' \in [Cells -> Int]
      /\ strand' \in Queues(Handler) /\ mgr_strand' \in Seq(Job)
      /\ PP!IInv'
  BY <1>1, EndedTyped
<1>3. CASE Kept(c, n, S, J)
  BY <1>1, <1>2, <1>3 DEF Kept
<1>4. CASE Freed(a, c, n, S, J)
  <2>1. /\ strand' = Put(S, c, StopAt(cell[c])) /\ StopAt(cell[c]) \in Handler
        /\ ~Own(StopAt(cell[c]))
    BY <1>4, Handlers DEF Freed, StopAt, Own
  <2>2. Belongs(Put(S, c, StopAt(cell[c])), Constructed)
    BY <1>1, <2>1, BelongsPut
  <2> QED BY <1>2, <2>1, <2>2
<1> QED BY <1>1, <1>3, <1>4, Ended

-----------------------------------------------------------------------------
(* Every step keeps the basis. *)

WroteHandler == [op : {"wrote"}, msg : Message]

\* What no handler's end is about.
Rest ==
  /\ updates \in Seq(Conns) /\ writing \in Queues([op : {"wrote"}, msg : Message])
  /\ joining \subseteq Conns /\ far \subseteq Conns /\ on_stop \subseteq Conns
  /\ gone \subseteq Conns
  /\ lines \in 0..MaxLines
  /\ ended \in {"no", "exception", "dangling", "overwritten"}

LEMMA EndingBasis ==
  ASSUME Basis, NEW a \in Actors, NEW c \in Conns, NEW n \in Int, NEW S, NEW J,
         Ending(a, c, n, S, J), UNCHANGED cellVars, UNCHANGED m_list,
         reading' \cup armed' \subseteq Constructed, Rest'
  PROVE  Basis'
<1>1. /\ m_counter' \in [Cells -> Int]
      /\ strand' \in Queues(Handler) /\ mgr_strand' \in Seq(Job)
      /\ PP!IInv'
      /\ Belongs(strand', Constructed)
  BY EndingKeeps
<1>2. Constructed' = Constructed
  BY DEF Constructed, Started, cellVars
<1>3. Begun'
  BY <1>1, <1>2 DEF Begun
<1>4. reading' \subseteq Conns /\ armed' \subseteq Conns
  BY DEF Constructed
<1>5. ShapeOK'
  BY <1>1, <1>4 DEF ShapeOK, Rest, Basis, cellVars
<1> QED BY <1>1, <1>3, <1>5 DEF Basis

LEMMA BasisRest == ASSUME Basis PROVE Rest /\ reading \cup armed \subseteq Constructed
BY DEF Basis, ShapeOK, Begun, Rest

LEMMA ConnActs == Conns \subseteq Actors /\ Services \subseteq Actors
BY DEF Actors

\* The steps of a connection's strand.
LEMMA StrandBasis ==
  ASSUME Basis, NEW c \in Conns, Strand(c)
  PROVE  Basis'
<1>1. /\ Rest /\ reading \cup armed \subseteq Constructed
      /\ c \in Actors
  BY BasisRest, ConnActs
<1>2. CASE StartImpl(c)
  <2>1. Ending(c, c, 1, Drop(strand, c), mgr_strand)
    BY <1>2, StartImplEnds
  <2>2. c \in Constructed
    BY <1>2, Begins DEF StartImpl, Constructed
  <2>3. reading' \cup armed' \subseteq Constructed
    BY <1>1, <1>2, <2>2 DEF StartImpl
  <2>4. UNCHANGED cellVars /\ UNCHANGED m_list /\ Rest'
    BY <1>1, <1>2 DEF StartImpl, OnStrand, clientVars, Rest
  <2> QED BY <2>1, <2>3, <2>4, <1>1, EndingBasis
<1>3. CASE ReadedError(c) \/ ReadedLate(c)
  <2>1. Ending(c, c, -1, Drop(strand, c), mgr_strand)
    BY <1>3, ReadedDrops
  <2>2. UNCHANGED cellVars /\ UNCHANGED m_list /\ Rest' /\ reading' \cup armed' \subseteq Constructed
    BY <1>1, <1>3 DEF ReadedError, ReadedLate, OnStrand, clientVars, socketVars, Rest
  <2> QED BY <2>1, <2>2, <1>1, EndingBasis
<1>4. CASE ReadedData(c)
  <2>1. \E S : Ending(c, c, 2, S, mgr_strand)
    BY <1>4, ReadedDataEnds
  <2>2. updates' \in Seq(Conns)
    BY <1>1, <1>4, AppendProperties DEF ReadedData, Rest
  <2>3. c \in armed /\ far' \subseteq far
    BY <1>4 DEF ReadedData, InTime
  <2>4. UNCHANGED cellVars /\ UNCHANGED m_list /\ Rest' /\ reading' \cup armed' \subseteq Constructed
    BY <1>1, <1>4, <2>2, <2>3 DEF ReadedData, OnStrand, clientVars, Rest
  <2> QED BY <2>1, <2>4, <1>1, EndingBasis
<1>5. CASE ReadedPing(c)
  <2>1. \E S : Ending(c, c, 2, S, mgr_strand)
    BY <1>5, ReadedPingEnds
  <2>3. c \in armed /\ far' \subseteq far
    BY <1>5 DEF ReadedPing, InTime
  <2>4. UNCHANGED cellVars /\ UNCHANGED m_list /\ Rest' /\ reading' \cup armed' \subseteq Constructed
    BY <1>1, <1>5, <2>3 DEF ReadedPing, OnStrand, clientVars, Rest
  <2> QED BY <2>1, <2>4, <1>1, EndingBasis
<1>6. CASE ReadedBad(c)
  <2>1. \E S : Ending(c, c, 0, S, mgr_strand)
    BY <1>6, ReadedBadEnds
  <2>3. c \in armed /\ far' \subseteq far
    BY <1>6 DEF ReadedBad, InTime
  <2>4. UNCHANGED cellVars /\ UNCHANGED m_list /\ Rest' /\ reading' \cup armed' \subseteq Constructed
    BY <1>1, <1>6, <2>3 DEF ReadedBad, OnStrand, clientVars, Rest
  <2> QED BY <2>1, <2>4, <1>1, EndingBasis
<1>7. CASE OnTimeout(c)
  <2>1. \E S : Ending(c, c, -1, S, mgr_strand)
    BY <1>7, OnTimeoutEnds
  <2>2. UNCHANGED cellVars /\ UNCHANGED m_list /\ Rest' /\ reading' \cup armed' \subseteq Constructed
    BY <1>1, <1>7 DEF OnTimeout, OnStrand, clientVars, socketVars, Rest
  <2> QED BY <2>1, <2>2, <1>1, EndingBasis
<1>8. CASE StopImpl(c)
  <2> DEFINE s == tenant[Head(strand[c]).at]
  <2>1. /\ s \in Conns
        /\ Drop(strand, c) \in Queues(Handler) /\ Belongs(Drop(strand, c), Constructed)
        /\ s \in on_stop => strand' = Drop(strand, c) /\ UNCHANGED socketVars
        /\ s \notin on_stop =>
             /\ on_stop' = on_stop \cup {s} /\ armed' = armed \ {s}
             /\ UNCHANGED <<reading, writing, far>>
             /\ strand' = IF s \in armed THEN Put(Drop(strand, c), s, Timeout(TRUE))
                          ELSE Drop(strand, c)
    BY <1>8, StopImplStrands
  <2> HIDE DEF s
  <2>2. strand' \in Queues(Handler) /\ Belongs(strand', Constructed)
    <3>1. CASE s \in armed /\ s \notin on_stop
      <4>1. s \in Conns /\ s \in Constructed /\ Timeout(TRUE) \in Handler
        BY <3>1, <1>1, Handlers DEF Constructed
      <4>2. strand' = Put(Drop(strand, c), s, Timeout(TRUE))
        BY <4>1, <3>1, <2>1
      <4> DEFINE Q == Drop(strand, c)
      <4>3. Q \in Queues(Handler) /\ Belongs(Q, Constructed)
        BY <2>1
      <4> HIDE DEF Q
      <4>4. Put(Q, s, Timeout(TRUE)) \in Queues(Handler) /\ Belongs(Put(Q, s, Timeout(TRUE)), Constructed)
        BY <4>1, <4>3, PutIsPutAll, BelongsPut
      <4> QED BY <4>2, <4>4 DEF Q
    <3>2. CASE ~(s \in armed /\ s \notin on_stop)
      BY <3>2, <2>1
    <3> QED BY <3>1, <3>2
  <2>3. /\ UNCHANGED poolVars /\ UNCHANGED m_counter /\ UNCHANGED mgr_strand /\ UNCHANGED updates
        /\ UNCHANGED cellVars /\ UNCHANGED m_list /\ UNCHANGED joining /\ UNCHANGED ended
        /\ UNCHANGED clientVars
    BY <1>8 DEF StopImpl, OnStrand
  <2>4. /\ reading' = reading /\ armed' \subseteq armed /\ writing' = writing /\ far' = far
        /\ on_stop' \subseteq Conns
    BY <1>1, <2>1 DEF socketVars, Rest
  <2>5. PP!IInv'
    BY <2>3, PoolKept DEF Basis
  <2>6. ShapeOK'
    BY <1>1, <2>2, <2>3, <2>4 DEF Basis, ShapeOK, cellVars, clientVars, Rest, Constructed
  <2>7. Begun'
    <3>1. Constructed' = Constructed
      BY <2>3 DEF Constructed, Started, cellVars
    <3> QED BY <3>1, <1>1, <2>2, <2>4 DEF Begun
  <2> QED BY <2>5, <2>6, <2>7 DEF Basis
<1>9. CASE SendImpl(c)
  <2> DEFINE msg == Head(strand[c]).msg
             s == tenant[Head(strand[c]).at]
  <2>1. /\ msg \in Message /\ msg.holder \in Conns /\ Weight(msg) \in {1, 2}
        /\ s \in Conns
        /\ Ending(c, msg.holder, 0, Drop(strand, c), mgr_strand)
        /\ writing' = Put(writing, s, Wrote(msg))
    BY <1>9, SendImplEnds
  <2> HIDE DEF msg, s
  <2>2. 0 \in Int
    OBVIOUS
  <2>3. writing' \in Queues(WroteHandler)
    <3>1. writing \in Queues(WroteHandler) /\ Wrote(msg) \in WroteHandler
      BY <1>1, <2>1, MessageFields DEF Rest, WroteHandler
    <3> QED BY <2>1, <3>1, PutIsPutAll
  <2>4. UNCHANGED cellVars /\ UNCHANGED m_list /\ Rest' /\ reading' \cup armed' \subseteq Constructed
    BY <1>1, <1>9, <2>3 DEF SendImpl, OnStrand, clientVars, Rest, WroteHandler
  <2> QED BY <2>1, <2>2, <2>4, <1>1, EndingBasis
<1>10. CASE OnWrote(c)
  <2> DEFINE msg == Head(strand[c]).msg
  <2>1. /\ msg \in Message /\ msg.holder \in Conns /\ Weight(msg) \in {1, 2}
        /\ Ending(c, msg.holder, -Weight(msg), Drop(strand, c), mgr_strand)
    BY <1>10, OnWroteEnds
  <2>2. -Weight(msg) \in Int
    BY <2>1
  <2>3. UNCHANGED cellVars /\ UNCHANGED m_list /\ Rest' /\ reading' \cup armed' \subseteq Constructed
    BY <1>1, <1>10 DEF OnWrote, OnStrand, clientVars, socketVars, Rest
  <2> HIDE DEF msg
  <2> QED BY <2>1, <2>2, <2>3, <1>1, EndingBasis
<1> QED BY <1>2, <1>3, <1>4, <1>5, <1>6, <1>7, <1>8, <1>9, <1>10 DEF Strand

\* The acceptor's steps, and the rest of a deleter.
LEMMA AcceptorBasis ==
  ASSUME Basis, \/ GetCell \/ \E a \in Actors : Recycle(a)
                \/ \E c \in Conns : Accept(c) \/ Construct(c) \/ Joined(c)
  PROVE  Basis'
<1>1. /\ Rest /\ reading \cup armed \subseteq Constructed
      /\ "acceptor" \in Actors
  BY BasisRest DEF Actors, Services
<1>2. ASSUME PP!IInv', UNCHANGED <<cellVars, m_counter, mgr_strand, strand, m_list>>,
             reading' = reading, armed' = armed, Rest'
      PROVE  Basis'
  <2>1. ShapeOK'
    BY <1>1, <1>2 DEF Basis, ShapeOK, cellVars, Rest, Constructed
  <2>2. Begun'
    BY <1>2 DEF Basis, Begun, Belongs, Constructed, Started, cellVars
  <2> QED BY <1>2, <2>1, <2>2 DEF Basis
<1>3. CASE GetCell
  <2>1. PP!IInv'
    BY <1>1, <1>3, PoolKept DEF GetCell, PoolStep, Basis
  <2>2. /\ UNCHANGED <<cellVars, m_counter, mgr_strand, strand, m_list>>
        /\ reading' = reading /\ armed' = armed /\ Rest'
    BY <1>1, <1>3 DEF GetCell, OnAcceptor, socketVars, clientVars, Rest
  <2> QED BY <2>1, <2>2, <1>2
<1>4. ASSUME NEW a \in Actors, Recycle(a) PROVE Basis'
  <2>1. PP!IInv'
    BY <1>4, PoolKept DEF Recycle, PoolStep, Basis
  <2>2. /\ UNCHANGED <<cellVars, m_counter, mgr_strand, strand, m_list>>
        /\ reading' = reading /\ armed' = armed /\ Rest'
    BY <1>1, <1>4 DEF Recycle, socketVars, clientVars, Rest
  <2> QED BY <2>1, <2>2, <1>2
<1>5. ASSUME NEW c \in Conns, Accept(c) PROVE Basis'
  <2>1. PP!IInv'
    BY <1>1, <1>5, PoolKept DEF Accept, PoolStep, Basis
  <2>2. /\ UNCHANGED <<cellVars, m_counter, mgr_strand, strand, m_list>>
        /\ reading' = reading /\ armed' = armed /\ Rest'
    BY <1>1, <1>5 DEF Accept, OnAcceptor, socketVars, clientVars, Rest
  <2> QED BY <2>1, <2>2, <1>2
<1>6. ASSUME NEW c \in Conns, Construct(c) PROVE Basis'
  <2> DEFINE m == obj["acceptor"]
             h == [op |-> "start"]
  <2>1. m \in Cells /\ h \in Handler /\ [op |-> "push", at |-> m] \in Job /\ m # Nobody
    BY <1>1, PoolTypes, Handlers, LifetimeAssumption DEF Basis, LifetimeAssumption
  <2>2. PP!IInv'
    BY <1>1, <1>6, PoolKept DEF Construct, PoolStep, Basis
  <2>3. strand \in Queues(Handler) /\ Belongs(strand, Constructed) /\ mgr_strand \in Seq(Job)
    BY DEF Basis, ShapeOK, Begun
  <2>4. strand' = Put(strand, c, h) /\ mgr_strand' = Append(mgr_strand, [op |-> "push", at |-> m])
        /\ cell' = [cell EXCEPT ![c] = m] /\ tenant' = [tenant EXCEPT ![m] = c]
        /\ m_counter' = [m_counter EXCEPT ![m] = 2] /\ m_list' = m_list
        /\ ended' \in {"no", "exception", "dangling", "overwritten"}
        /\ UNCHANGED <<joining, updates, socketVars, clientVars>>
    BY <1>1, <1>6 DEF Construct, OnAcceptor, Put, Rest
  <2>5. strand' \in Queues(Handler) /\ mgr_strand' \in Seq(Job)
    BY <2>1, <2>3, <2>4, PutIsPutAll, AppendProperties
  <2>6. Constructed' = Constructed \cup {c}
    BY <2>1, <2>4 DEF Constructed, Started, Basis, ShapeOK
  <2>7. Belongs(strand', Constructed \cup {c})
    <3>1. Belongs(strand, Constructed \cup {c})
      BY <2>3 DEF Belongs
    <3>2. Belongs(Put(strand, c, h), Constructed \cup {c})
      BY <3>1, <2>1, <2>3, BelongsPut
    <3> QED BY <3>2, <2>4
  <2>8. Begun'
    BY <1>1, <2>4, <2>6, <2>7 DEF Begun, socketVars
  <2>9. ShapeOK'
    BY <1>1, <2>1, <2>4, <2>5 DEF Basis, ShapeOK, Rest, socketVars, clientVars, Constructed
  <2> QED BY <2>2, <2>8, <2>9 DEF Basis
<1>7. ASSUME NEW c \in Conns, Joined(c) PROVE Basis'
  <2>1. \E n \in Int : \E S : Ending("acceptor", c, n, S, mgr_strand)
    <3>1. CASE c \in Synced
      BY <3>1, <1>7, JoinedEnds
    <3>2. CASE c \notin Synced
      BY <3>2, <1>7, JoinedEnds
    <3> QED BY <3>1, <3>2
  <2>2. UNCHANGED cellVars /\ UNCHANGED m_list /\ Rest' /\ reading' \cup armed' \subseteq Constructed
    BY <1>1, <1>7 DEF Joined, OnAcceptor, clientVars, socketVars, Rest
  <2> QED BY <2>1, <2>2, <1>1, EndingBasis
<1> QED BY <1>3, <1>4, <1>5, <1>6, <1>7

\* The network, the timer and the clients.
LEMMA SocketBasis ==
  ASSUME Basis, NEW c \in Conns, Socket(c)
  PROVE  Basis'
<1>1. Rest /\ reading \cup armed \subseteq Constructed /\ strand \in Queues(Handler)
      /\ Belongs(strand, Constructed)
  BY BasisRest DEF Basis, ShapeOK, Begun
<1>2. ASSUME OnEvent, reading' \cup armed' \subseteq Constructed, Rest', 
             strand' \in Queues(Handler), Belongs(strand', Constructed)
      PROVE  Basis'
  <2>1. UNCHANGED <<poolVars, cellVars, m_counter, m_list, mgr_strand>>
    BY <1>2 DEF OnEvent
  <2>2. PP!IInv'
    BY <2>1, PoolKept DEF Basis
  <2>3. Constructed' = Constructed
    BY <2>1 DEF Constructed, Started, cellVars
  <2>4. ShapeOK'
    BY <1>2, <2>1 DEF Basis, ShapeOK, cellVars, Rest, Constructed
  <2>5. Begun'
    BY <1>2, <2>3 DEF Begun
  <2> QED BY <2>2, <2>4, <2>5 DEF Basis
<1>3. ASSUME NEW h \in Handler, Post(c, h), Own(h) => c \in Constructed
      PROVE  strand' \in Queues(Handler) /\ Belongs(strand', Constructed)
  <2>1. strand' = Put(strand, c, h)
    BY <1>3 DEF Post, Put
  <2>2. Put(strand, c, h) \in Queues(Handler)
    BY <1>1, PutIsPutAll
  <2>3. Belongs(Put(strand, c, h), Constructed)
    BY <1>1, <1>3, BelongsPut
  <2> QED BY <2>1, <2>2, <2>3
<1>4. ASSUME NEW line \in Inputs, ReadCompletes(c, line) PROVE Basis'
  <2> DEFINE h == [op |-> "readed", line |-> line]
  <2>1. h \in Handler /\ c \in Constructed /\ Post(c, h)
    BY <1>1, <1>4, Handlers, LifetimeAssumption DEF ReadCompletes, LifetimeAssumption
  <2>2. strand' \in Queues(Handler) /\ Belongs(strand', Constructed)
    BY <2>1, <1>3
  <2>3. lines' \in 0..MaxLines
    BY <1>1, <1>4, LifetimeAssumption DEF ReadCompletes, Rest, LifetimeAssumption
  <2>4. OnEvent /\ reading' \cup armed' \subseteq Constructed /\ Rest'
    BY <1>1, <1>4, <2>3 DEF ReadCompletes, OnEvent, Rest
  <2> QED BY <2>2, <2>4, <1>2
<1>5. CASE ReadFails(c)
  <2> DEFINE h == [op |-> "readed", line |-> "error"]
  <2>1. h \in Handler /\ c \in Constructed /\ Post(c, h)
    BY <1>1, <1>5, Handlers DEF ReadFails
  <2>2. strand' \in Queues(Handler) /\ Belongs(strand', Constructed)
    BY <2>1, <1>3
  <2>4. OnEvent /\ reading' \cup armed' \subseteq Constructed /\ Rest'
    BY <1>1, <1>5 DEF ReadFails, OnEvent, Rest, clientVars
  <2> QED BY <2>2, <2>4, <1>2
<1>6. CASE WriteEnds(c)
  <2> DEFINE h == Head(writing[c])
  <2>1. /\ h \in Handler /\ h \in WroteHandler /\ writing' = Drop(writing, c)
        /\ Drop(writing, c) \in Queues(WroteHandler)
    BY <1>6, WriteDone DEF WriteEnds, Basis, WroteHandler
  <2>2. Post(c, h) /\ ~Own(h)
    BY <1>6, <2>1 DEF WriteEnds, WroteHandler, Own
  <2>3. strand' \in Queues(Handler) /\ Belongs(strand', Constructed)
    BY <2>1, <2>2, <1>3
  <2>4. OnEvent /\ reading' \cup armed' \subseteq Constructed /\ Rest'
    BY <1>1, <1>6, <2>1 DEF WriteEnds, OnEvent, Rest, clientVars, WroteHandler
  <2> QED BY <2>3, <2>4, <1>2
<1>7. CASE TimerExpires(c)
  <2>1. Timeout(FALSE) \in Handler /\ c \in Constructed /\ Post(c, Timeout(FALSE))
    BY <1>1, <1>7, Handlers DEF TimerExpires
  <2>2. strand' \in Queues(Handler) /\ Belongs(strand', Constructed)
    BY <2>1, <1>3
  <2>4. OnEvent /\ reading' \cup armed' \subseteq Constructed /\ Rest'
    BY <1>1, <1>7 DEF TimerExpires, OnEvent, Rest, clientVars
  <2> QED BY <2>2, <2>4, <1>2
<1>8. CASE Leave(c)
  <2>1. strand' = strand /\ OnEvent /\ reading' \cup armed' \subseteq Constructed /\ Rest'
    BY <1>1, <1>8 DEF Leave, OnEvent, Rest, socketVars
  <2> QED BY <2>1, <1>1, <1>2
<1> QED BY <1>4, <1>5, <1>6, <1>7, <1>8 DEF Socket

\* The manager's strand and the storage's.
LEMMA ManagerBasis ==
  ASSUME Basis, Manager \/ Update
  PROVE  Basis'
<1>1. Rest /\ reading \cup armed \subseteq Constructed /\ strand \in Queues(Handler)
      /\ Belongs(strand, Constructed) /\ "manager" \in Actors /\ "storage" \in Actors
  BY BasisRest DEF Basis, ShapeOK, Begun, Actors, Services
<1>2. ASSUME UNCHANGED <<poolVars, m_counter, strand>>, OnManager, mgr_strand' = Jobs,
             Jobs \in Seq(Job), m_list' \subseteq Cells, 
             tenant' \in [Cells -> Conns \cup {Nobody}]
      PROVE  Basis'
  <2>1. PP!IInv'
    BY <1>2, PoolKept DEF Basis
  <2>2. UNCHANGED <<cell, socketVars, clientVars, updates, joining, ended>>
    BY <1>2 DEF OnManager
  <2>3. Begun'
    BY <1>2, <2>2 DEF Basis, Begun, Belongs, Constructed, Started, socketVars
  <2>4. ShapeOK'
    BY <1>2, <2>2 DEF Basis, ShapeOK, socketVars, clientVars
  <2> QED BY <2>1, <2>3, <2>4 DEF Basis
<1>3. CASE PushBack
  <2>1. Jobs \in Seq(Job) /\ At \in Cells
    BY <1>3, ManagerRan DEF PushBack, Basis
  <2> QED BY <2>1, <1>2, <1>3 DEF PushBack, Basis, ShapeOK
<1>4. CASE Erase
  <2>1. Jobs \in Seq(Job) /\ At \in Cells
    BY <1>4, ManagerRan DEF Erase, Basis
  <2>2. m_list' \subseteq Cells /\ tenant' \in [Cells -> Conns \cup {Nobody}]
    BY <2>1, <1>4 DEF Erase, Basis, ShapeOK
  <2> QED BY <2>1, <2>2, <1>2, <1>4 DEF Erase
<1>5. CASE BroadcastImpl
  <2> DEFINE h == Head(mgr_strand).holder
             others == m_list \ {cell[h]}
             S == PutAll(strand, Listeners(others), Feeds(h, obj["manager"]))
  <2>1. /\ h \in Conns /\ Cardinality(others) \in Nat
        /\ Ending("manager", h, Cardinality(others) - 1, S, Jobs)
    BY <1>5, BroadcastEnds
  <2>2. Cardinality(others) - 1 \in Int
    BY <2>1
  <2>3. UNCHANGED cellVars /\ UNCHANGED m_list /\ Rest' /\ reading' \cup armed' \subseteq Constructed
    BY <1>1, <1>5 DEF BroadcastImpl, OnManager, cellVars, clientVars, socketVars, Rest
  <2> HIDE DEF h, others, S
  <2> QED BY <2>1, <2>2, <2>3, <1>1, EndingBasis
<1>6. CASE Update
  <2> DEFINE c == Head(updates)
  <2>1. c \in Conns /\ updates' \in Seq(Conns)
        /\ \E n \in Int : \E J : Ending("storage", c, n, strand, J)
    <3>1. /\ c \in Conns /\ updates # <<>> /\ updates' = Tail(updates)
          /\ Tail(updates) \in Seq(Conns) /\ Broadcast(c) \in Job
          /\ \/ Ending("storage", c, 0, strand, Append(mgr_strand, Broadcast(c)))
             \/ Ending("storage", c, -1, strand, mgr_strand)
      BY <1>6, UpdateEnds
    <3> HIDE DEF c
    <3> QED BY <3>1
  <2>2. UNCHANGED cellVars /\ UNCHANGED m_list /\ Rest' /\ reading' \cup armed' \subseteq Constructed
    BY <1>1, <1>6, <2>1 DEF Update, clientVars, socketVars, Rest
  <2> HIDE DEF c
  <2> QED BY <2>1, <2>2, <1>1, EndingBasis
<1> QED BY <1>3, <1>4, <1>5, <1>6 DEF Manager

\* Every step is one of these, of a server that has not ended.
LEMMA Steps ==
  ASSUME Next
  PROVE  /\ ended = "no"
         /\ \/ GetCell \/ (\E a \in Actors : Recycle(a))
            \/ \E c \in Conns : Accept(c) \/ Construct(c) \/ Joined(c)
            \/ \E c \in Conns : Socket(c)
            \/ \E c \in Conns : Strand(c)
            \/ \E c \in Conns : RunDangling(c)
            \/ Manager \/ Update
BY DEF Next, Private, Public

\* A handler on a destroyed session is the last step, and no part of the invariant
\* is about what it does.
LEMMA Dangles ==
  ASSUME NEW c \in Conns, RunDangling(c)
  PROVE  /\ ended' = "dangling"
         /\ UNCHANGED <<poolVars, cellVars, socketVars, clientVars, m_counter, m_list,
                        mgr_strand, updates, strand, joining>>
BY DEF RunDangling

LEMMA BasisNext == Basis /\ [Next]_vars => Basis'
<1> SUFFICES ASSUME Basis, [Next]_vars PROVE Basis'
  OBVIOUS
<1>1. CASE Next
  <2>1. ASSUME NEW c \in Conns, RunDangling(c) PROVE Basis'
    <3>1. PP!IInv'
      BY <2>1, Dangles, PoolKept DEF Basis
    <3>2. ShapeOK' /\ Begun'
      BY <2>1, Dangles DEF cellVars, socketVars, clientVars, Basis, ShapeOK, Begun, Belongs,
                           Constructed, Started
    <3> QED BY <3>1, <3>2 DEF Basis
  <2> QED BY <1>1, <2>1, Steps, AcceptorBasis, SocketBasis, StrandBasis, ManagerBasis
<1>2. CASE UNCHANGED vars
  <2>1. PP!IInv'
    BY <1>2, PoolKept DEF vars, Basis
  <2>2. ShapeOK' /\ Begun'
    BY <1>2 DEF vars, cellVars, socketVars, clientVars, Basis, ShapeOK, Begun, Belongs, Constructed,
                Started
  <2> QED BY <2>1, <2>2 DEF Basis
<1> QED BY <1>1, <1>2

LEMMA BasisInit == Init => Basis
<1> SUFFICES ASSUME Init PROVE Basis
  OBVIOUS
<1>1. PP!IInv
  BY PoolBegins
<1>2. strand \in Queues(Handler) /\ writing \in Queues([op : {"wrote"}, msg : Message])
  <2>1. \A S : <<>> \in Seq(S)
    OBVIOUS
  <2> QED BY <2>1 DEF Init, Queues
<1>3. ShapeOK
  BY <1>2, LifetimeAssumption DEF Init, ShapeOK, LifetimeAssumption
<1>4. Begun
  <2>1. \A c \in Conns : In(strand[c]) = {}
    <3>1. DOMAIN <<>> = {}
      OBVIOUS
    <3> QED BY <3>1 DEF Init, In
  <2> QED BY <2>1 DEF Begun, Belongs, Init
<1> QED BY <1>1, <1>3, <1>4 DEF Basis

-----------------------------------------------------------------------------
(* A session reads once at a time, and is watched while it does. *)

\* These strands hold what those held and more, none of which reads.
Grown(S, T) ==
  \A u \in Conns :
    /\ In(S[u]) \subseteq In(T[u])
    /\ \A h \in In(T[u]) \ In(S[u]) : ~Reads(h)
    /\ OneRead(S[u]) => OneRead(T[u])

LEMMA GrownSame == ASSUME NEW S PROVE Grown(S, S)
BY DEF Grown

LEMMA GrownTwice ==
  ASSUME NEW S, NEW T, NEW U, Grown(S, T), Grown(T, U)
  PROVE  Grown(S, U)
BY DEF Grown

LEMMA GrownPut ==
  ASSUME NEW S \in Queues(Handler), NEW t \in Conns, NEW h \in Handler, ~Reads(h)
  PROVE  Grown(S, Put(S, t, h)) /\ h \in In(Put(S, t, h)[t])
<1> DEFINE T == Put(S, t, h)
<1>1. /\ In(T[t]) = In(S[t]) \cup {h}
      /\ OneRead(S[t]) => OneRead(T[t])
      /\ \A u \in Conns : u # t => T[u] = S[u]
  BY InPut
<1> HIDE DEF T
<1>2. Grown(S, T) /\ h \in In(T[t])
  BY <1>1 DEF Grown
<1> QED BY <1>2 DEF T

LEMMA GrownPutAll ==
  ASSUME NEW S \in Queues(Handler), NEW T, NEW hs \in [Conns -> Handler],
         \A t \in Conns : ~Reads(hs[t])
  PROVE  Grown(S, PutAll(S, T, hs))
<1> DEFINE U == PutAll(S, T, hs)
<1>1. ASSUME NEW t \in Conns
      PROVE  /\ In(U[t]) = IF t \in T THEN In(S[t]) \cup {hs[t]} ELSE In(S[t])
             /\ OneRead(S[t]) => OneRead(U[t])
  BY InPutAll
<1> HIDE DEF U
<1>2. ASSUME NEW t \in Conns
      PROVE  /\ In(S[t]) \subseteq In(U[t])
             /\ \A h \in In(U[t]) \ In(S[t]) : ~Reads(h)
             /\ OneRead(S[t]) => OneRead(U[t])
  <2>1. CASE t \in T
    BY <2>1, <1>1
  <2>2. CASE t \notin T
    BY <2>2, <1>1
  <2> QED BY <2>1, <2>2
<1>3. Grown(S, U)
  BY <1>2 DEF Grown
<1> QED BY <1>3 DEF U

\* A handler that ends queues nothing else that reads, whether it frees or not.
LEMMA EndingGrown ==
  ASSUME Basis, NEW a, NEW c \in Conns, NEW n \in Int, NEW S, NEW J,
         Ending(a, c, n, S, J)
  PROVE  Grown(S, strand')
<1>1. S \in Queues(Handler) /\ J \in Seq(Job) /\ Ends(a, c, n, S, J)
  BY DEF Ending
<1>2. CASE Kept(c, n, S, J)
  BY <1>2, GrownSame DEF Kept
<1>3. CASE Freed(a, c, n, S, J)
  <2>1. strand' = Put(S, c, StopAt(cell[c])) /\ StopAt(cell[c]) \in Handler
        /\ ~Reads(StopAt(cell[c]))
    BY <1>3, Handlers DEF Freed, StopAt, Reads
  <2>2. Grown(S, Put(S, c, StopAt(cell[c])))
    BY <1>1, <2>1, GrownPut
  <2> QED BY <2>1, <2>2
<1> QED BY <1>1, <1>2, <1>3, Ended

\* What a handler of a connection's strand leaves there, besides what it held.
LEMMA StrandGrown ==
  ASSUME Basis, NEW c \in Conns, Strand(c)
  PROVE  /\ strand[c] # <<>> /\ strand \in Queues(Handler)
         /\ Grown(Drop(strand, c), strand')
         /\ Head(strand[c]) = Timeout(FALSE) => StopAt(cell[c]) \in In(strand'[c])
<1> DEFINE Q == Drop(strand, c)
<1>1. strand[c] # <<>> /\ strand \in Queues(Handler) /\ Q \in Queues(Handler)
  <2>1. \E op : Ready(c, op)
    BY DEF Strand, StartImpl, ReadedError, ReadedLate, ReadedData, ReadedPing, ReadedBad,
           OnTimeout, StopImpl, SendImpl, OnWrote, InTime, Readed
  <2> QED BY <2>1, Begins
<1>2. /\ Timeout(TRUE) \in Handler /\ ~Reads(Timeout(TRUE))
      /\ ~Reads(PingFor(c)) /\ ~Reads(StopAt(cell[c]))
  BY Handlers DEF Timeout, PingFor, SendAt, StopAt, Reads
<1>3. \A t \in Conns : Grown(Q, Put(Q, t, Timeout(TRUE))) /\ Put(Q, t, Timeout(TRUE)) \in Queues(Handler)
  BY <1>1, <1>2, GrownPut, PutIsPutAll
<1>4. CASE StartImpl(c)
  <2>1. Ending(c, c, 1, Q, mgr_strand)
    BY <1>4, StartImplEnds
  <2>2. Head(strand[c]).op = "start"
    BY <1>4 DEF StartImpl, Ready
  <2> QED BY <2>1, <2>2, <1>1, EndingGrown DEF Timeout
<1>5. CASE ReadedError(c) \/ ReadedLate(c)
  <2>1. Ending(c, c, -1, Q, mgr_strand)
    BY <1>5, ReadedDrops
  <2>2. Head(strand[c]).op = "readed"
    BY <1>5 DEF ReadedError, ReadedLate, Readed, Ready
  <2> QED BY <2>1, <2>2, <1>1, EndingGrown DEF Timeout
<1>6. CASE ReadedData(c)
  <2> DEFINE P == Put(Q, c, Timeout(TRUE))
  <2>1. Ending(c, c, 2, P, mgr_strand) /\ Grown(Q, P)
    BY <1>3, <1>6, ReadedDataEnds
  <2>2. Head(strand[c]).op = "readed"
    BY <1>6 DEF ReadedData, InTime, Readed, Ready
  <2> HIDE DEF P, Q
  <2>3. Grown(P, strand')
    BY <2>1, EndingGrown
  <2>4. Grown(Q, strand')
    BY <2>1, <2>3, GrownTwice
  <2> QED BY <2>2, <2>4, <1>1 DEF Timeout, Q
<1>7. CASE ReadedPing(c)
  <2> DEFINE P == Put(Q, c, Timeout(TRUE))
             R == Put(P, c, PingFor(c))
  <2>1. Ending(c, c, 2, R, mgr_strand) /\ PingFor(c) \in Handler
    BY <1>7, ReadedPingEnds
  <2>2. Head(strand[c]).op = "readed"
    BY <1>7 DEF ReadedPing, InTime, Readed, Ready
  <2>3. P \in Queues(Handler) /\ Grown(Q, P)
    BY <1>3
  <2> HIDE DEF P, Q
  <2>4. Grown(P, R)
    BY <2>1, <2>3, <1>2, GrownPut
  <2> HIDE DEF R
  <2>5. Grown(R, strand')
    BY <2>1, EndingGrown
  <2>6. Grown(Q, R)
    BY <2>3, <2>4, GrownTwice
  <2>7. Grown(Q, strand')
    BY <2>5, <2>6, GrownTwice
  <2> QED BY <2>2, <2>7, <1>1 DEF Timeout, Q
<1>8. CASE ReadedBad(c)
  <2> DEFINE P == Put(Q, c, Timeout(TRUE))
             R == Put(P, c, Timeout(TRUE))
  <2>1. Ending(c, c, 0, R, mgr_strand)
    BY <1>8, ReadedBadEnds
  <2>2. Head(strand[c]).op = "readed"
    BY <1>8 DEF ReadedBad, InTime, Readed, Ready
  <2>3. P \in Queues(Handler) /\ Grown(Q, P)
    BY <1>3
  <2> HIDE DEF P, Q
  <2>4. Grown(P, R)
    BY <2>3, <1>2, GrownPut
  <2> HIDE DEF R
  <2>5. Grown(R, strand')
    BY <2>1, EndingGrown
  <2>6. Grown(Q, R)
    BY <2>3, <2>4, GrownTwice
  <2>7. Grown(Q, strand')
    BY <2>5, <2>6, GrownTwice
  <2> QED BY <2>2, <2>7, <1>1 DEF Timeout, Q
<1>9. CASE OnTimeout(c)
  <2> DEFINE P == Put(Q, c, StopAt(cell[c]))
  <2>1. /\ Head(strand[c]) \in {Timeout(TRUE), Timeout(FALSE)}
        /\ Head(strand[c]) = Timeout(TRUE) => Ending(c, c, -1, Q, mgr_strand)
        /\ Head(strand[c]) = Timeout(FALSE) =>
             Ending(c, c, -1, P, mgr_strand) /\ StopAt(cell[c]) \in Handler
    BY <1>9, OnTimeoutEnds
  <2>2. Timeout(TRUE) # Timeout(FALSE)
    BY DEF Timeout
  <2>3. StopAt(cell[c]) \in Handler => Grown(Q, P) /\ StopAt(cell[c]) \in In(P[c])
    BY <1>1, <1>2, GrownPut
  <2> HIDE DEF P, Q
  <2>4. CASE Head(strand[c]) = Timeout(TRUE)
    <3>1. Grown(Q, strand')
      BY <2>1, <2>4, EndingGrown
    <3>2. Head(strand[c]) # Timeout(FALSE)
      BY <2>2, <2>4
    <3> QED BY <3>1, <3>2, <1>1 DEF Q
  <2>5. CASE Head(strand[c]) = Timeout(FALSE)
    <3>1. Grown(P, strand') /\ Grown(Q, P) /\ StopAt(cell[c]) \in In(P[c])
      BY <2>1, <2>3, <2>5, EndingGrown
    <3>2. Grown(Q, strand')
      BY <3>1, GrownTwice
    <3> QED BY <3>1, <3>2, <1>1 DEF Grown, Q
  <2> QED BY <2>1, <2>4, <2>5
<1>10. CASE StopImpl(c)
  <2> DEFINE s == tenant[Head(strand[c]).at]
  <2>1. /\ s \in Conns
        /\ s \in on_stop => strand' = Q
        /\ s \notin on_stop =>
             strand' = IF s \in armed THEN Put(Q, s, Timeout(TRUE)) ELSE Q
        /\ Head(strand[c]) = StopAt(Head(strand[c]).at)
    BY <1>10, StopImplStrands
  <2>2. Head(strand[c]) # Timeout(FALSE)
    BY <2>1 DEF StopAt, Timeout
  <2> HIDE DEF s, Q
  <2>3. Grown(Q, strand')
    BY <2>1, <1>3, GrownSame
  <2> QED BY <2>2, <2>3, <1>1 DEF Q
<1>11. CASE SendImpl(c)
  <2> DEFINE msg == Head(strand[c]).msg
  <2>1. /\ msg \in Message /\ msg.holder \in Conns
        /\ Head(strand[c]).op = "send"
        /\ Ending(c, msg.holder, 0, Q, mgr_strand)
    BY <1>11, SendImplEnds
  <2>2. 0 \in Int /\ Head(strand[c]) # Timeout(FALSE)
    BY <2>1 DEF Timeout
  <2> HIDE DEF Q, msg
  <2>3. Grown(Q, strand')
    BY <2>1, <2>2, EndingGrown
  <2> QED BY <2>2, <2>3, <1>1 DEF Q
<1>12. CASE OnWrote(c)
  <2> DEFINE msg == Head(strand[c]).msg
  <2>1. /\ msg \in Message /\ msg.holder \in Conns /\ Weight(msg) \in {1, 2}
        /\ Head(strand[c]).op = "wrote"
        /\ Ending(c, msg.holder, -Weight(msg), Q, mgr_strand)
    BY <1>12, OnWroteEnds
  <2>2. -Weight(msg) \in Int /\ Head(strand[c]) # Timeout(FALSE)
    BY <2>1 DEF Timeout
  <2> HIDE DEF Q, msg
  <2>3. Grown(Q, strand')
    BY <2>1, <2>2, EndingGrown
  <2> QED BY <2>2, <2>3, <1>1 DEF Q
<1> QED BY <1>4, <1>5, <1>6, <1>7, <1>8, <1>9, <1>10, <1>11, <1>12 DEF Strand

\* What the others' steps leave on the strands.
LEMMA OthersGrown ==
  ASSUME Basis, \/ GetCell \/ (\E a \in Actors : Recycle(a)) \/ Manager \/ Update
                \/ \E c \in Conns :
                     Accept(c) \/ Joined(c) \/ WriteEnds(c) \/ TimerExpires(c) \/ Leave(c)
  PROVE  Grown(strand, strand')
<1>1. strand \in Queues(Handler)
  BY DEF Basis, ShapeOK
<1>2. CASE GetCell \/ (\E a \in Actors : Recycle(a)) \/ (\E c \in Conns : Accept(c) \/ Leave(c))
           \/ PushBack \/ Erase
  BY <1>2, GrownSame DEF GetCell, Recycle, Accept, Leave, PushBack, Erase
<1>3. ASSUME NEW c \in Conns, NEW h \in Handler, Post(c, h), ~Reads(h)
      PROVE  Grown(strand, strand')
  <2>1. strand' = Put(strand, c, h)
    BY <1>3 DEF Post, Put
  <2>2. Grown(strand, Put(strand, c, h))
    BY <1>1, <1>3, GrownPut
  <2> QED BY <2>1, <2>2
<1>4. ASSUME NEW c \in Conns, WriteEnds(c) PROVE Grown(strand, strand')
  <2> DEFINE h == Head(writing[c])
  <2>1. h \in Handler /\ h \in WroteHandler /\ Post(c, h)
    BY <1>4, WriteDone DEF WriteEnds, Basis, WroteHandler
  <2>2. ~Reads(h)
    BY <2>1 DEF WroteHandler, Reads
  <2> QED BY <2>1, <2>2, <1>3
<1>5. ASSUME NEW c \in Conns, TimerExpires(c) PROVE Grown(strand, strand')
  <2>1. Timeout(FALSE) \in Handler /\ Post(c, Timeout(FALSE)) /\ ~Reads(Timeout(FALSE))
    BY <1>5, Handlers DEF TimerExpires, Timeout, Reads
  <2> QED BY <2>1, <1>3
<1>6. ASSUME NEW c \in Conns, Joined(c) PROVE Grown(strand, strand')
  <2> DEFINE T == Put(strand, c, SyncFor(c))
  <2>1. CASE c \in Synced
    <3>1. Ending("acceptor", c, 1, T, mgr_strand) /\ SyncFor(c) \in Handler
      BY <1>6, <2>1, JoinedEnds
    <3>2. ~Reads(SyncFor(c))
      BY DEF SyncFor, SendAt, Reads
    <3>3. Grown(strand, T)
      BY <3>1, <3>2, <1>1, GrownPut
    <3> HIDE DEF T
    <3>4. Grown(T, strand')
      BY <3>1, EndingGrown
    <3> QED BY <3>3, <3>4, GrownTwice
  <2>2. CASE c \notin Synced
    BY <1>6, <2>2, JoinedEnds, EndingGrown
  <2> QED BY <2>1, <2>2
<1>7. CASE BroadcastImpl
  <2> DEFINE h == Head(mgr_strand).holder
             others == m_list \ {cell[h]}
             hs == Feeds(h, obj["manager"])
             T == PutAll(strand, Listeners(others), hs)
  <2>1. /\ h \in Conns /\ Cardinality(others) \in Nat /\ hs \in [Conns -> Handler]
        /\ Ending("manager", h, Cardinality(others) - 1, T, Jobs)
    BY <1>7, BroadcastEnds
  <2>2. \A t \in Conns : ~Reads(hs[t])
    BY DEF Feeds, SendAt, Reads
  <2> HIDE DEF h, others, hs
  <2>3. Grown(strand, T)
    BY <2>1, <2>2, <1>1, GrownPutAll
  <2>4. Cardinality(others) - 1 \in Int
    BY <2>1
  <2> HIDE DEF T
  <2>5. Grown(T, strand')
    BY <2>1, <2>4, EndingGrown
  <2> QED BY <2>3, <2>5, GrownTwice
<1>8. CASE Update
  <2> DEFINE c == Head(updates)
  <2>1. /\ c \in Conns
        /\ \/ Ending("storage", c, 0, strand, Append(mgr_strand, Broadcast(c)))
           \/ Ending("storage", c, -1, strand, mgr_strand)
    BY <1>8, UpdateEnds
  <2> HIDE DEF c
  <2> QED BY <2>1, EndingGrown
<1> QED BY <1>2, <1>4, <1>5, <1>6, <1>7, <1>8 DEF Manager

\* on_new_connection() is at work on one connection at a time, which has no
\* session before the pool hands one out, and is done with it when it ends.
Joining ==
  /\ \A c, d \in joining : c = d
  /\ pc["acceptor"] \in {"popping", "allocating", "counting"} => \A c \in joining : ~Started(c)
  /\ pc["acceptor"] \in {"returning", "uncounting"} => joining = {}

LEMMA Elsewhere ==
  ASSUME Basis, NEW a \in Actors, a # "acceptor", NEW c \in Conns, NEW n \in Int, NEW S, NEW J,
         Ending(a, c, n, S, J)
  PROVE  pc'["acceptor"] = pc["acceptor"]
<1>1. S \in Queues(Handler) /\ J \in Seq(Job) /\ Ends(a, c, n, S, J)
  BY DEF Ending
<1>2. CASE Kept(c, n, S, J)
  BY <1>2 DEF Kept, poolVars
<1>3. CASE Freed(a, c, n, S, J)
  BY <1>3 DEF Freed, Pool!Discard, Pool!Goes
<1> QED BY <1>1, <1>2, <1>3, Ended

\* Whatever a handler of a connection's strand ends as, but stop_impl().
LEMMA StrandEnds ==
  ASSUME Basis, NEW c \in Conns, Strand(c), ~StopImpl(c)
  PROVE  \E d \in Conns, n \in Int : \E S : Ending(c, d, n, S, mgr_strand)
<1>1. CASE StartImpl(c)
  BY <1>1, StartImplEnds
<1>2. CASE ReadedError(c) \/ ReadedLate(c)
  BY <1>2, ReadedDrops
<1>3. CASE ReadedData(c)
  <2>1. \E S : Ending(c, c, 2, S, mgr_strand)
    BY <1>3, ReadedDataEnds
  <2> QED BY <2>1
<1>4. CASE ReadedPing(c)
  <2>1. \E S : Ending(c, c, 2, S, mgr_strand)
    BY <1>4, ReadedPingEnds
  <2> QED BY <2>1
<1>5. CASE ReadedBad(c)
  <2>1. \E S : Ending(c, c, 0, S, mgr_strand)
    BY <1>5, ReadedBadEnds
  <2> QED BY <2>1
<1>6. CASE OnTimeout(c)
  <2>1. \E S : Ending(c, c, -1, S, mgr_strand)
    BY <1>6, OnTimeoutEnds
  <2> QED BY <2>1
<1>7. CASE SendImpl(c)
  <2> DEFINE msg == Head(strand[c]).msg
  <2>1. msg.holder \in Conns /\ Ending(c, msg.holder, 0, Drop(strand, c), mgr_strand)
    BY <1>7, SendImplEnds
  <2>2. 0 \in Int
    OBVIOUS
  <2> HIDE DEF msg
  <2> QED BY <2>1, <2>2
<1>8. CASE OnWrote(c)
  <2> DEFINE msg == Head(strand[c]).msg
  <2>1. /\ msg.holder \in Conns /\ Weight(msg) \in {1, 2}
        /\ Ending(c, msg.holder, -Weight(msg), Drop(strand, c), mgr_strand)
    BY <1>8, OnWroteEnds
  <2>2. -Weight(msg) \in Int
    BY <2>1
  <2> HIDE DEF msg
  <2> QED BY <2>1, <2>2
<1> QED BY <1>1, <1>2, <1>3, <1>4, <1>5, <1>6, <1>7, <1>8 DEF Strand

\* No step but the acceptor's is about what it joins.
LEMMA OthersJoin ==
  ASSUME Basis, \/ \E c \in Conns : Socket(c) \/ Strand(c)
                \/ Manager \/ Update
  PROVE  /\ joining' = joining /\ cell' = cell /\ ended' = ended
         /\ pc'["acceptor"] = pc["acceptor"]
<1>1. ASSUME NEW c \in Conns PROVE c \in Actors /\ c # "acceptor"
  BY LifetimeAssumption DEF LifetimeAssumption, Actors, Services
<1>2. ASSUME NEW c \in Conns, Strand(c)
      PROVE  joining' = joining /\ cell' = cell /\ ended' = ended /\ pc'["acceptor"] = pc["acceptor"]
  <2>1. joining' = joining /\ cell' = cell /\ ended' = ended
    BY <1>2 DEF Strand, StartImpl, ReadedError, ReadedLate, ReadedData, ReadedPing, ReadedBad,
                OnTimeout, StopImpl, SendImpl, OnWrote, OnStrand, cellVars
  <2>2. CASE StopImpl(c)
    BY <2>1, <2>2 DEF StopImpl, poolVars
  <2>3. CASE ~StopImpl(c)
    <3>1. \E d \in Conns, n \in Int : \E S : Ending(c, d, n, S, mgr_strand)
      BY <1>2, <2>3, StrandEnds
    <3> QED BY <2>1, <3>1, <1>1, Elsewhere
  <2> QED BY <2>2, <2>3
<1>3. ASSUME NEW c \in Conns, Socket(c)
      PROVE  joining' = joining /\ cell' = cell /\ ended' = ended /\ pc'["acceptor"] = pc["acceptor"]
  BY <1>3 DEF Socket, ReadCompletes, ReadFails, WriteEnds, TimerExpires, Leave, OnEvent,
              cellVars, poolVars
<1>4. CASE PushBack \/ Erase
  BY <1>4 DEF PushBack, Erase, OnManager, poolVars
<1>5. CASE BroadcastImpl
  <2> DEFINE h == Head(mgr_strand).holder
             others == m_list \ {cell[h]}
             S == PutAll(strand, Listeners(others), Feeds(h, obj["manager"]))
  <2>1. /\ h \in Conns /\ Cardinality(others) \in Nat
        /\ Ending("manager", h, Cardinality(others) - 1, S, Jobs)
    BY <1>5, BroadcastEnds
  <2>2. Cardinality(others) - 1 \in Int
    BY <2>1
  <2>3. joining' = joining /\ cell' = cell /\ ended' = ended
    BY <1>5 DEF BroadcastImpl, OnManager
  <2>4. "manager" \in Actors
    BY DEF Actors, Services
  <2> HIDE DEF h, others, S
  <2> QED BY <2>1, <2>2, <2>3, <2>4, Elsewhere
<1>6. CASE Update
  <2> DEFINE c == Head(updates)
  <2>1. c \in Conns /\ \E n \in Int : \E J : Ending("storage", c, n, strand, J)
    <3>1. /\ c \in Conns
          /\ \/ Ending("storage", c, 0, strand, Append(mgr_strand, Broadcast(c)))
             \/ Ending("storage", c, -1, strand, mgr_strand)
      BY <1>6, UpdateEnds
    <3> HIDE DEF c
    <3> QED BY <3>1
  <2>2. joining' = joining /\ cell' = cell /\ ended' = ended
    BY <1>6 DEF Update, cellVars
  <2>4. "storage" \in Actors
    BY DEF Actors, Services
  <2> HIDE DEF c
  <2> QED BY <2>1, <2>2, <2>4, Elsewhere
<1> QED BY <1>2, <1>3, <1>4, <1>5, <1>6 DEF Manager

LEMMA JoiningInit == Init => Joining
<1>1. "acceptor" \in Actors
  BY DEF Actors, Services
<1> QED BY <1>1 DEF Init, Pool!Init, Joining

LEMMA JoiningNext == Basis /\ Joining /\ [Next]_vars => Joining'
<1> SUFFICES ASSUME Basis, Joining, [Next]_vars PROVE Joining'
  OBVIOUS
<1>1. "acceptor" \in Actors /\ DOMAIN pc = Actors
  BY PoolTypes DEF Actors, Services, Basis
<1>2. ASSUME joining' = joining, cell' = cell, pc'["acceptor"] = pc["acceptor"]
      PROVE  Joining'
  BY <1>2 DEF Joining, Started
<1>3. CASE GetCell
  <2>1. /\ pc["acceptor"] \in {"popping", "allocating"} /\ pc'["acceptor"] = "counting"
        /\ joining' = joining /\ cell' = cell
    BY <1>1, <1>3 DEF GetCell, Pool!Pop, Pool!Allocate, Pool!Goes, cellVars
  <2> QED BY <2>1 DEF Joining, Started
<1>4. ASSUME NEW a \in Actors, Recycle(a) PROVE Joining'
  <2>1. joining' = joining /\ cell' = cell /\ pc[a] \in {"returning", "uncounting"}
        /\ pc'["acceptor"] = IF a = "acceptor" THEN IF pc[a] = "returning" THEN "uncounting" ELSE "idle" 
                             ELSE pc["acceptor"]
    BY <1>1, <1>4 DEF Recycle, Pool!Push, Pool!Uncount, Pool!Goes, cellVars
  <2> QED BY <2>1 DEF Joining, Started
<1>5. ASSUME NEW c \in Conns, Accept(c) PROVE Joining'
  <2>1. CASE joining' = joining /\ UNCHANGED poolVars
    BY <1>2, <1>5, <2>1 DEF Accept, cellVars, poolVars
  <2>2. CASE Pool!Look("acceptor") /\ joining' = {c}
    <3>1. pc'["acceptor"] \in {"popping", "allocating"}
      BY <1>1, <2>2 DEF Pool!Look, Pool!Goes
    <3>2. ~Started(c) /\ cell' = cell
      BY <1>5 DEF Accept, cellVars
    <3> QED BY <2>2, <3>1, <3>2 DEF Joining, Started
  <2> QED BY <1>5, <2>1, <2>2 DEF Accept
<1>6. ASSUME NEW c \in Conns, Construct(c) PROVE Joining'
  <2>1. pc'["acceptor"] = "idle" /\ joining' = joining
    BY <1>1, <1>6 DEF Construct, Pool!HandOut, Pool!Goes
  <2> QED BY <2>1 DEF Joining
<1>7. ASSUME NEW c \in Conns, Joined(c) PROVE Joining'
  BY <1>7 DEF Joined, Joining
<1>8. CASE \/ \E c \in Conns : Socket(c) \/ Strand(c)
           \/ Manager \/ Update
  BY <1>2, <1>8, OthersJoin
<1>9. CASE UNCHANGED vars
  BY <1>2, <1>9 DEF vars, cellVars, poolVars
<1>10. ASSUME NEW c \in Conns, RunDangling(c) PROVE Joining'
  BY <1>2, <1>10, Dangles DEF cellVars, poolVars
<1> QED BY <1>3, <1>4, <1>5, <1>6, <1>7, <1>8, <1>9, <1>10, Steps

\* A connection whose session is constructed had none.
LEMMA Fresh ==
  ASSUME Basis, Joining, NEW c \in Conns, Construct(c)
  PROVE  /\ ~Started(c) /\ c \notin reading /\ c \notin armed
         /\ \A h \in In(strand[c]) : ~Own(h)
<1>1. c \in joining /\ pc["acceptor"] = "counting"
  BY DEF Construct, Pool!HandOut, Pool!Goes
<1>2. ~Started(c)
  BY <1>1 DEF Joining
<1> QED BY <1>2 DEF Basis, Begun, Belongs, Constructed

-----------------------------------------------------------------------------
\* A session has one read at a time, outstanding or ended and not handled yet,
\* and no wait before it starts.
ReadsOnce ==
  \A c \in Conns :
    /\ OneRead(strand[c])
    /\ c \in reading => NoRead(strand[c])
    /\ c \in armed => \A h \in In(strand[c]) : h.op # "start"

LEMMA ReadsOnceInit == Init => ReadsOnce
<1>1. \A c \in Conns : DOMAIN <<>> = {}
  OBVIOUS
<1> QED BY <1>1 DEF Init, ReadsOnce, OneRead

LEMMA GrownReads ==
  ASSUME NEW S, NEW T, Grown(S, T), NEW c \in Conns
  PROVE  /\ OneRead(S[c]) => OneRead(T[c])
         /\ NoRead(S[c]) => NoRead(T[c])
         /\ (\A h \in In(S[c]) : h.op # "start") => \A h \in In(T[c]) : h.op # "start"
BY DEF Grown, NoRead, Reads

LEMMA ReadsOnceNext == Basis /\ Joining /\ ReadsOnce /\ [Next]_vars => ReadsOnce'
<1> SUFFICES ASSUME Basis, Joining, ReadsOnce, [Next]_vars PROVE ReadsOnce'
  OBVIOUS
<1>1. strand \in Queues(Handler)
  BY DEF Basis, ShapeOK
<1>2. ASSUME Grown(strand, strand'), reading' \subseteq reading, armed' \subseteq armed
      PROVE  ReadsOnce'
  <2> SUFFICES ASSUME NEW c \in Conns
               PROVE  /\ OneRead(strand'[c])
                      /\ c \in reading => NoRead(strand'[c])
                      /\ c \in armed => \A h \in In(strand'[c]) : h.op # "start"
    BY <1>2 DEF ReadsOnce
  <2>1. /\ OneRead(strand[c]) => OneRead(strand'[c])
        /\ NoRead(strand[c]) => NoRead(strand'[c])
        /\ (\A h \in In(strand[c]) : h.op # "start") => \A h \in In(strand'[c]) : h.op # "start"
    BY <1>2, GrownReads
  <2> QED BY <2>1 DEF ReadsOnce
<1>3. CASE \/ GetCell \/ (\E a \in Actors : Recycle(a)) \/ Manager \/ Update
           \/ \E c \in Conns : Accept(c) \/ Joined(c) \/ WriteEnds(c) \/ TimerExpires(c) \/ Leave(c)
  <2>1. Grown(strand, strand')
    BY <1>3, OthersGrown
  <2>2. reading' = reading /\ armed' \subseteq armed
    BY <1>3 DEF GetCell, Recycle, Manager, PushBack, Erase, BroadcastImpl, OnManager, Update,
                Accept, Joined, OnAcceptor, WriteEnds, TimerExpires, Leave, socketVars
  <2> QED BY <2>1, <2>2, <1>2
<1>4. ASSUME NEW c \in Conns, NEW h \in Handler, strand' = Put(strand, c, h), Reads(h),
             c \in reading \/ ~Started(c),
             reading' \subseteq reading, c \notin reading', armed' = armed,
             h.op = "start" => c \notin armed
      PROVE  ReadsOnce'
  <2>1. NoRead(strand[c])
    <3>1. ~Started(c) => \A g \in In(strand[c]) : ~Own(g)
      BY DEF Basis, Begun, Belongs, Constructed
    <3> QED BY <1>4, <3>1 DEF ReadsOnce, NoRead, Reads, Own
  <2> DEFINE T == Put(strand, c, h)
  <2>2. /\ In(T[c]) = In(strand[c]) \cup {h}
        /\ OneRead(strand[c]) /\ (NoRead(strand[c]) \/ ~Reads(h)) => OneRead(T[c])
        /\ \A u \in Conns : u # c => T[u] = strand[u]
    BY <1>1, InPut
  <2> HIDE DEF T
  <2>3. strand' = T
    BY <1>4 DEF T
  <2> SUFFICES ASSUME NEW d \in Conns
               PROVE  /\ OneRead(T[d])
                      /\ d \in reading' => NoRead(T[d])
                      /\ d \in armed => \A g \in In(T[d]) : g.op # "start"
    BY <1>4, <2>3 DEF ReadsOnce
  <2>4. CASE d = c
    BY <2>1, <2>2, <2>4, <1>4 DEF ReadsOnce
  <2>5. CASE d # c
    BY <2>2, <2>5, <1>4 DEF ReadsOnce
  <2> QED BY <2>4, <2>5
<1>5. ASSUME NEW c \in Conns, NEW line \in Inputs, ReadCompletes(c, line) PROVE ReadsOnce'
  <2> DEFINE h == [op |-> "readed", line |-> line]
  <2>1. h \in Handler /\ Reads(h) /\ h.op # "start"
    BY Handlers, LifetimeAssumption DEF LifetimeAssumption, Reads
  <2>2. /\ strand' = Put(strand, c, h) /\ c \in reading /\ reading' = reading \ {c}
        /\ armed' = armed
    BY <1>5 DEF ReadCompletes, Post, Put
  <2> HIDE DEF h
  <2> QED BY <2>1, <2>2, <1>4
<1>6. ASSUME NEW c \in Conns, ReadFails(c) PROVE ReadsOnce'
  <2> DEFINE h == [op |-> "readed", line |-> "error"]
  <2>1. h \in Handler /\ Reads(h) /\ h.op # "start"
    BY Handlers DEF Reads
  <2>2. /\ strand' = Put(strand, c, h) /\ c \in reading /\ reading' = reading \ {c}
        /\ armed' = armed
    BY <1>6 DEF ReadFails, Post, Put
  <2> HIDE DEF h
  <2> QED BY <2>1, <2>2, <1>4
<1>7. ASSUME NEW c \in Conns, Construct(c) PROVE ReadsOnce'
  <2> DEFINE h == [op |-> "start"]
  <2>1. h \in Handler /\ Reads(h)
    BY Handlers DEF Reads
  <2>2. /\ strand' = Put(strand, c, h) /\ reading' = reading /\ armed' = armed
    BY <1>7 DEF Construct, Put, OnAcceptor, socketVars
  <2>3. ~Started(c) /\ c \notin reading /\ c \notin armed
    BY <1>7, Fresh
  <2> HIDE DEF h
  <2> QED BY <2>1, <2>2, <2>3, <1>4
<1>8. ASSUME NEW c \in Conns, Strand(c) PROVE ReadsOnce'
  <2> DEFINE Q == Drop(strand, c)
  <2>1. strand[c] # <<>> /\ Grown(Q, strand')
    BY <1>8, StrandGrown
  <2>2. /\ In(strand[c]) = {Head(strand[c])} \cup In(Q[c])
        /\ \A u \in Conns : u # c => Q[u] = strand[u]
        /\ NoRead(strand[c]) => NoRead(Q[c])
        /\ OneRead(strand[c]) => OneRead(Q[c])
        /\ OneRead(strand[c]) /\ Reads(Head(strand[c])) => NoRead(Q[c])
    BY <1>1, <2>1, InDropped
  <2> HIDE DEF Q
  <2>3. /\ reading' \subseteq reading \cup {c} /\ armed' \subseteq armed \cup {c}
        /\ (reading' \subseteq reading /\ armed' \subseteq armed) \/ Reads(Head(strand[c]))
    BY <1>8 DEF Strand, StartImpl, ReadedError, ReadedLate, ReadedData, ReadedPing, ReadedBad,
                OnTimeout, StopImpl, SendImpl, OnWrote, InTime, Readed, Ready, Reads, socketVars
  <2> SUFFICES ASSUME NEW d \in Conns
               PROVE  /\ OneRead(strand'[d])
                      /\ d \in reading' => NoRead(strand'[d])
                      /\ d \in armed' => \A h \in In(strand'[d]) : h.op # "start"
    BY DEF ReadsOnce
  <2>4. /\ OneRead(Q[d]) => OneRead(strand'[d])
        /\ NoRead(Q[d]) => NoRead(strand'[d])
        /\ (\A h \in In(Q[d]) : h.op # "start") => \A h \in In(strand'[d]) : h.op # "start"
    BY <2>1, GrownReads
  <2>5. CASE d # c
    BY <2>2, <2>3, <2>4, <2>5 DEF ReadsOnce
  <2>6. CASE d = c /\ Reads(Head(strand[c]))
    <3>1. OneRead(strand'[c]) /\ NoRead(Q[c]) /\ NoRead(strand'[c])
      BY <2>2, <2>4, <2>6 DEF ReadsOnce
    <3> QED BY <3>1, <2>6 DEF NoRead, Reads
  <2>7. CASE d = c /\ reading' \subseteq reading /\ armed' \subseteq armed
    BY <2>2, <2>4, <2>7 DEF ReadsOnce
  <2> QED BY <2>3, <2>5, <2>6, <2>7
<1>9. CASE UNCHANGED vars
  BY <1>2, <1>9, GrownSame DEF vars, socketVars
<1>10. ASSUME NEW c \in Conns, RunDangling(c) PROVE ReadsOnce'
  BY <1>2, <1>10, Dangles, GrownSame DEF socketVars
<1> QED BY <1>3, <1>5, <1>6, <1>7, <1>8, <1>9, <1>10, Steps DEF Socket

\* A session that is closed stays so; and what watches one goes on, or is
\* followed by what watches next.
LEMMA WatchedInit == Init => Watched
BY DEF Init, Watched

\* In terms of what is in the queues.
Watching(c) ==
  \/ Closed(c) \/ c \in armed \/ Timeout(FALSE) \in In(strand[c])
  \/ StopAt(cell[c]) \in In(strand[c])

LEMMA WatchedIs == Watched <=> \A c \in reading : Watching(c)
BY DEF Watched, Watching, Queued, In

LEMMA WatchedThen == Watched' <=> \A c \in reading' : Watching(c)'
BY DEF Watched, Watching, Queued, In

LEMMA ClosedStays ==
  ASSUME Basis, Joining, [Next]_vars, NEW c \in Conns, Closed(c)
  PROVE  on_stop \subseteq on_stop' /\ Closed(c)'
<1>1. on_stop \subseteq on_stop'
  <2>1. ASSUME NEW d \in Conns, Strand(d) PROVE on_stop \subseteq on_stop'
    BY <2>1 DEF Strand, StartImpl, ReadedError, ReadedLate, ReadedData, ReadedPing, ReadedBad,
                OnTimeout, StopImpl, SendImpl, OnWrote, InTime, Readed, socketVars
  <2>2. ASSUME NEW d \in Conns, Socket(d) PROVE on_stop \subseteq on_stop'
    BY <2>2 DEF Socket, ReadCompletes, ReadFails, WriteEnds, TimerExpires, Leave, socketVars
  <2>3. CASE \/ GetCell \/ (\E a \in Actors : Recycle(a)) \/ Manager \/ Update
             \/ \E d \in Conns : Accept(d) \/ Joined(d) \/ Construct(d)
    BY <2>3 DEF GetCell, Recycle, Manager, PushBack, Erase, BroadcastImpl, OnManager, Update,
                Accept, Joined, Construct, OnAcceptor, socketVars
  <2>4. ASSUME NEW d \in Conns, RunDangling(d) PROVE on_stop \subseteq on_stop'
    BY <2>4, Dangles DEF socketVars
  <2> QED BY <2>1, <2>2, <2>3, <2>4, Steps DEF vars, socketVars
<1>2. CASE c \in on_stop
  BY <1>1, <1>2 DEF Closed
<1>3. ASSUME Started(c), ~Alive(c) PROVE Started(c)' /\ ~Alive(c)'
  <2>1. ASSUME UNCHANGED cellVars PROVE Started(c)' /\ ~Alive(c)'
    BY <1>3, <2>1 DEF Started, Alive, cellVars
  <2>2. ASSUME NEW d \in Conns, Construct(d) PROVE Started(c)' /\ ~Alive(c)'
    <3>1. d # c
      BY <1>3, <2>2, Fresh
    <3>2. cell' = [cell EXCEPT ![d] = obj["acceptor"]] /\ tenant' = [tenant EXCEPT ![obj["acceptor"]] = d]
      BY <2>2 DEF Construct
    <3> QED BY <1>3, <3>1, <3>2 DEF Basis, ShapeOK, Started, Alive
  <2>3. CASE Erase
    <3>1. cell' = cell /\ tenant' = [tenant EXCEPT ![At] = Nobody] /\ c # Nobody
      BY <2>3, LifetimeAssumption DEF Erase, OnManager, LifetimeAssumption
    <3> QED BY <1>3, <3>1 DEF Basis, ShapeOK, Started, Alive
  <2>4. CASE \/ GetCell \/ (\E a \in Actors : Recycle(a)) \/ PushBack \/ BroadcastImpl \/ Update
             \/ \E d \in Conns : Accept(d) \/ Joined(d) \/ Socket(d) \/ Strand(d)
    BY <2>1, <2>4 DEF GetCell, Recycle, PushBack, BroadcastImpl, OnManager, Update,
                Accept, Joined, Socket, ReadCompletes, ReadFails, WriteEnds, TimerExpires, Leave, OnEvent,
                Strand, StartImpl, ReadedError, ReadedLate, ReadedData, ReadedPing, ReadedBad,
                OnTimeout, StopImpl, SendImpl, OnWrote, OnStrand, cellVars
  <2>5. ASSUME NEW d \in Conns, RunDangling(d) PROVE Started(c)' /\ ~Alive(c)'
    BY <2>1, <2>5, Dangles
  <2> QED BY <2>1, <2>2, <2>3, <2>4, <2>5, Steps DEF vars, Manager
<1> QED BY <1>1, <1>2, <1>3 DEF Closed

LEMMA WatchedNext ==
  Basis /\ Joining /\ ReadsOnce /\ Watched /\ [Next]_vars => Watched'
<1> SUFFICES ASSUME Basis, Joining, ReadsOnce, Watched, [Next]_vars PROVE Watched'
  OBVIOUS
<1>1. /\ \A c \in reading : Watching(c)
      /\ \A c \in Conns : Closed(c) => Closed(c)'
      /\ strand \in Queues(Handler) /\ reading \subseteq Conns
      /\ \A c \in reading : Started(c)
  BY WatchedIs, ClosedStays DEF Basis, ShapeOK, Begun, Constructed
<1> SUFFICES ASSUME NEW c \in reading' PROVE Watching(c)'
  BY WatchedThen
\* Nothing that watches c ends, nor does a new read of c begin.
<1>2. ASSUME c \in reading, In(strand[c]) \subseteq In(strand'[c]), cell'[c] = cell[c],
             c \in armed => c \in armed'
      PROVE  Watching(c)'
  BY <1>1, <1>2 DEF Watching
<1>3. CASE \/ GetCell \/ (\E a \in Actors : Recycle(a)) \/ Manager \/ Update
           \/ \E d \in Conns : Accept(d) \/ Joined(d) \/ WriteEnds(d) \/ Leave(d)
  <2>1. Grown(strand, strand')
    BY <1>3, OthersGrown
  <2>2. reading' = reading /\ armed' = armed /\ cell' = cell
    BY <1>3 DEF GetCell, Recycle, Manager, PushBack, Erase, BroadcastImpl, OnManager, Update, cellVars,
                Accept, Joined, OnAcceptor, WriteEnds, Leave, OnEvent, socketVars
  <2> QED BY <2>1, <2>2, <1>1, <1>2 DEF Grown
<1>4. ASSUME NEW d \in Conns, TimerExpires(d) PROVE Watching(c)'
  <2>1. /\ strand' = Put(strand, d, Timeout(FALSE)) /\ reading' = reading /\ cell' = cell
        /\ armed' = armed \ {d}
    BY <1>4 DEF TimerExpires, Post, Put, OnEvent, cellVars
  <2> DEFINE h == Timeout(FALSE)
             T == Put(strand, d, h)
  <2>2. h \in Handler /\ strand' = T
    BY <2>1, Handlers
  <2> HIDE DEF h
  <2>3. /\ In(T[d]) = In(strand[d]) \cup {h}
        /\ \A u \in Conns : u # d => T[u] = strand[u]
    BY <1>1, <2>2, InPut
  <2> HIDE DEF T
  <2>4. CASE c = d
    BY <2>2, <2>3, <2>4 DEF Watching, h
  <2>5. CASE c # d
    BY <2>1, <2>2, <2>3, <2>5, <1>1, <1>2
  <2> QED BY <2>4, <2>5
<1>5. ASSUME NEW d \in Conns, NEW h \in Handler, Post(d, h), reading' = reading \ {d},
             armed' = armed, cell' = cell
      PROVE  Watching(c)'
  <2> DEFINE T == Put(strand, d, h)
  <2>1. /\ In(T[d]) = In(strand[d]) \cup {h}
        /\ \A u \in Conns : u # d => T[u] = strand[u]
    BY <1>1, InPut
  <2>2. strand' = T
    BY <1>5 DEF Post, Put
  <2> HIDE DEF T
  <2> QED BY <2>1, <2>2, <1>1, <1>2, <1>5
<1>6. ASSUME NEW d \in Conns, NEW line \in Inputs, ReadCompletes(d, line) PROVE Watching(c)'
  <2>1. [op |-> "readed", line |-> line] \in Handler
    BY Handlers, LifetimeAssumption DEF LifetimeAssumption
  <2> QED BY <2>1, <1>5, <1>6 DEF ReadCompletes, OnEvent, cellVars
<1>7. ASSUME NEW d \in Conns, ReadFails(d) PROVE Watching(c)'
  <2>1. [op |-> "readed", line |-> "error"] \in Handler
    BY Handlers
  <2> QED BY <2>1, <1>5, <1>7 DEF ReadFails, OnEvent, cellVars
<1>8. ASSUME NEW d \in Conns, Construct(d) PROVE Watching(c)'
  <2> DEFINE h == [op |-> "start"]
             T == Put(strand, d, h)
  <2>1. /\ reading' = reading /\ armed' = armed /\ cell' = [cell EXCEPT ![d] = obj["acceptor"]]
        /\ strand' = T
    BY <1>8 DEF Construct, OnAcceptor, socketVars, Put
  <2>2. c \in reading /\ c \in Conns /\ c # d
    BY <2>1, <1>1, <1>8, Fresh
  <2>3. \A u \in Conns : u # d => T[u] = strand[u]
    BY <1>1, Handlers, InPut
  <2> HIDE DEF T
  <2>4. cell'[c] = cell[c] /\ strand'[c] = strand[c]
    BY <2>1, <2>2, <2>3 DEF Basis, ShapeOK
  <2> QED BY <2>1, <2>2, <2>4, <1>2
<1>9. ASSUME NEW d \in Conns, Strand(d) PROVE Watching(c)'
  <2> DEFINE Q == Drop(strand, d)
  <2>1. /\ strand[d] # <<>> /\ Grown(Q, strand')
        /\ Head(strand[d]) = Timeout(FALSE) => StopAt(cell[d]) \in In(strand'[d])
    BY <1>9, StrandGrown
  <2>2. /\ In(strand[d]) = {Head(strand[d])} \cup In(Q[d])
        /\ \A u \in Conns : u # d => Q[u] = strand[u]
    BY <1>1, <2>1, InDropped
  <2> HIDE DEF Q
  <2>3. cell' = cell
    BY <1>9, OthersJoin
  <2>4. c \in Conns /\ In(Q[c]) \subseteq In(strand'[c])
    <3>1. reading' \subseteq reading \cup {d}
      BY <1>9 DEF Strand, StartImpl, ReadedError, ReadedLate, ReadedData, ReadedPing, ReadedBad,
                OnTimeout, StopImpl, SendImpl, OnWrote, socketVars
    <3> QED BY <3>1, <1>1, <2>1 DEF Grown
  <2>5. CASE StopImpl(d)
    <3> DEFINE m == Head(strand[d]).at
               s == tenant[m]
    <3>1. /\ Head(strand[d]) = StopAt(m) /\ m \in Cells
          /\ s \in on_stop => UNCHANGED socketVars
          /\ s \notin on_stop =>
               on_stop' = on_stop \cup {s} /\ armed' = armed \ {s} /\ reading' = reading
      BY <2>5, StopImplStrands
    <3>2. c \in reading /\ (c \in armed => c \in armed' \/ c \in on_stop')
      BY <3>1 DEF socketVars
    <3>3. CASE c = d /\ m = cell[c]
      <4>1. Alive(c) => s = c
        BY <3>3 DEF Alive
      <4>2. c # Nobody
        BY <2>4, LifetimeAssumption DEF LifetimeAssumption
      <4>3. Alive(c) => c \in on_stop'
        BY <4>1, <4>2, <3>1 DEF socketVars
      <4>4. ~Alive(c) => Closed(c)'
        BY <3>2, <2>4, <1>1 DEF Closed
      <4> QED BY <4>3, <4>4 DEF Watching, Closed
    <3>4. CASE ~(c = d /\ m = cell[c])
      <4>1. StopAt(cell[c]) \in In(strand[c]) => StopAt(cell[c]) \in In(strand'[c])
        <5>1. CASE c # d
          BY <5>1, <2>2, <2>4
        <5>2. CASE c = d /\ m # cell[c]
          <6>1. StopAt(m) # StopAt(cell[c])
            BY <5>2 DEF StopAt
          <6> QED BY <6>1, <5>2, <3>1, <2>2, <2>4
        <5> QED BY <5>1, <5>2, <3>4
      <4>2. Timeout(FALSE) \in In(strand[c]) => Timeout(FALSE) \in In(strand'[c])
        <5>1. Head(strand[d]) # Timeout(FALSE)
          BY <3>1 DEF StopAt, Timeout
        <5> QED BY <5>1, <2>2, <2>4
      <4>3. c \in armed => Watching(c)'
        BY <3>2 DEF Watching, Closed
      <4> QED BY <4>1, <4>2, <4>3, <3>2, <2>3, <2>4, <1>1 DEF Watching
    <3> QED BY <3>3, <3>4
  <2>6. CASE ~StopImpl(d)
    <3>1. /\ reading' \subseteq reading \cup {d}
          /\ d \in reading' => d \in reading \/ d \in armed'
          /\ \/ armed \subseteq armed'
             \/ armed' = armed \ {d} /\ reading' = reading /\ Reads(Head(strand[d]))
          /\ Head(strand[d]).op # "stop"
      BY <1>9, <2>6 DEF Strand, StartImpl, ReadedError, ReadedLate, ReadedData, ReadedPing, ReadedBad,
                OnTimeout, SendImpl, OnWrote, InTime, Readed, Ready, Reads, socketVars
    <3>2. CASE c \in armed'
      BY <3>2 DEF Watching
    <3>3. CASE c \notin armed'
      <4>1. c \in reading
        BY <3>1, <3>3
      <4>2. c \notin armed
        <5>1. CASE armed' = armed \ {d} /\ reading' = reading /\ Reads(Head(strand[d]))
          <6>1. c # d
            BY <5>1, <2>2, <4>1, <2>4 DEF ReadsOnce, NoRead
          <6> QED BY <6>1, <5>1, <3>3
        <5> QED BY <5>1, <3>1, <3>3
      <4>3. StopAt(cell[c]) \in In(strand[c]) => StopAt(cell[c]) \in In(strand'[c])
        <5>1. Head(strand[d]) # StopAt(cell[c])
          BY <3>1 DEF StopAt
        <5> QED BY <5>1, <2>2, <2>4
      <4>4. Timeout(FALSE) \in In(strand[c]) =>
              Timeout(FALSE) \in In(strand'[c]) \/ StopAt(cell[c]) \in In(strand'[c])
        <5>1. CASE c # d
          BY <5>1, <2>2, <2>4
        <5>2. CASE c = d
          BY <5>2, <2>1, <2>2, <2>4
        <5> QED BY <5>1, <5>2
      <4> QED BY <4>1, <4>2, <4>3, <4>4, <2>3, <2>4, <1>1 DEF Watching
    <3> QED BY <3>2, <3>3
  <2> QED BY <2>5, <2>6
<1>10. CASE UNCHANGED vars
  BY <1>2, <1>10 DEF vars, socketVars, cellVars
<1>11. ASSUME NEW d \in Conns, RunDangling(d) PROVE Watching(c)'
  BY <1>2, <1>11, Dangles DEF socketVars, cellVars
<1> QED BY <1>3, <1>4, <1>6, <1>7, <1>8, <1>9, <1>10, <1>11, Steps DEF Socket

-----------------------------------------------------------------------------
(* The list links sessions that are there. *)

\* A job about the session in a cell; and of these its erasing is the last.
About(job, m) == job.op \in {"push", "erase"} /\ job.at = m
EraseLast(q) == \A i, j \in DOMAIN q : q[i].op = "erase" /\ About(q[j], q[i].at) => j <= i

LEMMA JobTaken ==
  ASSUME NEW q \in Seq(Job), q # <<>>
  PROVE  /\ Tail(q) \in Seq(Job) /\ In(q) = {Head(q)} \cup In(Tail(q))
         /\ EraseLast(q) => EraseLast(Tail(q))
         /\ EraseLast(q) /\ Head(q).op = "erase" => \A job \in In(Tail(q)) : ~About(job, Head(q).at)
<1> DEFINE r == Tail(q)
           n == Len(r)
<1>1. /\ r \in Seq(Job) /\ Len(q) = n + 1 /\ n \in Nat /\ q[1] = Head(q)
      /\ \A i \in 1..n : r[i] = q[i + 1]
      /\ DOMAIN q = 1..(n + 1) /\ DOMAIN r = 1..n
  <2>1. r \in Seq(Job) /\ Len(q) \in Nat \ {0} /\ n = Len(q) - 1 /\ q[1] = Head(q)
        /\ \A i \in 1..n : r[i] = q[i + 1]
    BY HeadTailProperties, EmptySeq
  <2>2. DOMAIN q = 1..Len(q) /\ DOMAIN r = 1..n
    BY <2>1, LenProperties
  <2> HIDE DEF r, n
  <2>3. n \in Nat /\ Len(q) = n + 1
    BY <2>1
  <2> QED BY <2>1, <2>2, <2>3
<1> HIDE DEF r, n
<1>2. /\ 1 \in 1..(n + 1) /\ \A i \in 1..n : i + 1 \in 1..(n + 1)
      /\ \A i \in 1..(n + 1) : i = 1 \/ (i - 1 \in 1..n /\ (i - 1) + 1 = i)
  BY <1>1
<1>3. In(q) = {Head(q)} \cup In(r)
  <2>1. In(q) \subseteq {Head(q)} \cup In(r)
    <3> SUFFICES ASSUME NEW i \in 1..(n + 1) PROVE q[i] \in {Head(q)} \cup In(r)
      BY <1>1 DEF In
    <3>1. CASE i = 1
      BY <3>1, <1>1
    <3>2. CASE i - 1 \in 1..n /\ (i - 1) + 1 = i
      BY <3>2, <1>1 DEF In
    <3> QED BY <3>1, <3>2, <1>2
  <2>2. {Head(q)} \cup In(r) \subseteq In(q)
    BY <1>1, <1>2 DEF In
  <2> QED BY <2>1, <2>2
<1>4. ASSUME EraseLast(q), NEW i \in 1..n, NEW j \in 1..n, r[i].op = "erase", About(r[j], r[i].at)
      PROVE  j <= i
  <2>1. j + 1 <= i + 1
    BY <1>1, <1>2, <1>4 DEF EraseLast
  <2> QED BY <2>1
<1>5. ASSUME EraseLast(q), Head(q).op = "erase", NEW j \in 1..n, About(r[j], Head(q).at)
      PROVE  FALSE
  <2>1. j + 1 <= 1
    BY <1>1, <1>2, <1>5 DEF EraseLast
  <2> QED BY <2>1
<1> QED BY <1>1, <1>3, <1>4, <1>5 DEF EraseLast, In, r

LEMMA JobQueued ==
  ASSUME NEW q \in Seq(Job), NEW job \in Job
  PROVE  /\ Append(q, job) \in Seq(Job) /\ In(Append(q, job)) = In(q) \cup {job}
         /\ EraseLast(q) /\ (\A g \in In(q) : g.op = "erase" => ~About(job, g.at))
              => EraseLast(Append(q, job))
<1> DEFINE r == Append(q, job)
           n == Len(q)
<1>1. /\ r \in Seq(Job) /\ n \in Nat /\ DOMAIN q = 1..n /\ DOMAIN r = 1..(n + 1)
      /\ (\A i \in 1..n : r[i] = q[i]) /\ r[n + 1] = job
  <2>1. r \in Seq(Job) /\ Len(r) = n + 1 /\ (\A i \in 1..n : r[i] = q[i]) /\ r[n + 1] = job
    BY AppendProperties
  <2>2. n \in Nat /\ DOMAIN q = 1..n /\ DOMAIN r = 1..Len(r)
    BY <2>1, LenProperties
  <2> HIDE DEF r, n
  <2> QED BY <2>1, <2>2
<1> HIDE DEF r, n
<1>2. /\ n + 1 \in 1..(n + 1) /\ (\A i \in 1..n : i \in 1..(n + 1) /\ i <= n + 1) /\ n + 1 <= n + 1
      /\ \A i \in 1..(n + 1) : i \in 1..n \/ i = n + 1
  BY <1>1
<1>3. In(r) = In(q) \cup {job}
  <2>1. In(r) \subseteq In(q) \cup {job}
    BY <1>1, <1>2 DEF In
  <2>2. In(q) \cup {job} \subseteq In(r)
    BY <1>1, <1>2 DEF In
  <2> QED BY <2>1, <2>2
<1>4. ASSUME EraseLast(q), \A g \in In(q) : g.op = "erase" => ~About(job, g.at),
             NEW i \in 1..(n + 1), NEW j \in 1..(n + 1), r[i].op = "erase", About(r[j], r[i].at)
      PROVE  j <= i
  <2>1. CASE i = n + 1
    BY <2>1, <1>2
  <2>2. CASE i \in 1..n
    <3>1. r[i] = q[i] /\ q[i] \in In(q)
      BY <2>2, <1>1 DEF In
    <3>2. j \in 1..n
      BY <3>1, <1>1, <1>2, <1>4
    <3> QED BY <3>1, <3>2, <2>2, <1>1, <1>4 DEF EraseLast
  <2> QED BY <2>1, <2>2, <1>2
<1> QED BY <1>1, <1>3, <1>4 DEF EraseLast, r

\* Whoever is in a cell is there, and nowhere else.
Tenants == \A m \in Cells : tenant[m] # Nobody => cell[tenant[m]] = m

\* Memory in use and memory linked in the list hold a session, and so does what
\* the manager is still to link or to erase; to erase it is the last thing it
\* will do with it, and then the pool does not have it in use.
Listed ==
  ended = "no" =>
    /\ \A m \in used \cup m_list : tenant[m] # Nobody
    /\ \A job \in In(mgr_strand) :
         /\ job.op \in {"push", "erase"} => tenant[job.at] # Nobody
         /\ job.op = "erase" => job.at \notin used
    /\ EraseLast(mgr_strand)

\* What a handler leaves the manager to do.
Leaves(J) ==
  /\ \A job \in In(J) : job.op = "broadcast" \/ job \in In(mgr_strand)
  /\ EraseLast(J)

LEMMA LeavesJobs ==
  ASSUME Basis, Listed, ended = "no"
  PROVE  /\ Leaves(mgr_strand)
         /\ mgr_strand # <<>> => Leaves(Jobs)
         /\ \A c \in Conns : Leaves(Append(mgr_strand, Broadcast(c)))
<1>1. mgr_strand \in Seq(Job) /\ EraseLast(mgr_strand)
  BY DEF Basis, ShapeOK, Listed
<1>2. Leaves(mgr_strand)
  BY <1>1 DEF Leaves
<1>3. mgr_strand # <<>> => Leaves(Jobs)
  BY <1>1, JobTaken DEF Leaves, Jobs
<1>4. ASSUME NEW c \in Conns PROVE Leaves(Append(mgr_strand, Broadcast(c)))
  <2> DEFINE b == Broadcast(c)
  <2>1. b \in Job /\ b.op = "broadcast" /\ \A m : ~About(b, m)
    BY Handlers DEF Broadcast, About
  <2> HIDE DEF b
  <2>2. In(Append(mgr_strand, b)) = In(mgr_strand) \cup {b} /\ EraseLast(Append(mgr_strand, b))
    BY <1>1, <2>1, JobQueued
  <2>3. Leaves(Append(mgr_strand, b))
    BY <2>1, <2>2 DEF Leaves
  <2> QED BY <2>3 DEF b
<1> QED BY <1>2, <1>3, <1>4

LEMMA EndingListed ==
  ASSUME Basis, Listed, ended = "no", NEW a, NEW c \in Conns, NEW n \in Int, NEW S, NEW J,
         Ending(a, c, n, S, J), Leaves(J), UNCHANGED tenant, UNCHANGED m_list
  PROVE  Listed'
<1>1. S \in Queues(Handler) /\ J \in Seq(Job) /\ Ends(a, c, n, S, J)
  BY DEF Ending
<1>2. CASE Kept(c, n, S, J)
  <2>1. mgr_strand' = J /\ used' = used
    BY <1>2 DEF Kept, poolVars
  <2>2. \A job \in In(J) : /\ job.op \in {"push", "erase"} => tenant[job.at] # Nobody
                           /\ job.op = "erase" => job.at \notin used
    BY DEF Leaves, Listed
  <2> QED BY <2>1, <2>2 DEF Leaves, Listed
<1>3. CASE Freed(a, c, n, S, J)
  <2> DEFINE k == cell[c]
             e == [op |-> "erase", at |-> k]
  <2>1. k \in used /\ k \in Cells /\ used' = used \ {k} /\ mgr_strand' = Append(J, e)
    BY <1>3 DEF Freed
  <2>2. e \in Job /\ e.op = "erase" /\ e.at = k /\ \A m : About(e, m) => m = k
    BY <2>1, Handlers DEF About
  <2> HIDE DEF k, e
  <2>3. \A job \in In(J) : /\ job.op \in {"push", "erase"} => tenant[job.at] # Nobody
                           /\ job.op = "erase" => job.at \notin used
    BY DEF Leaves, Listed
  <2>4. In(Append(J, e)) = In(J) \cup {e} /\ EraseLast(Append(J, e))
    <3>1. \A g \in In(J) : g.op = "erase" => ~About(e, g.at)
      BY <2>1, <2>2, <2>3
    <3> QED BY <1>1, <2>2, <3>1, JobQueued DEF Leaves
  <2>5. tenant[k] # Nobody
    BY <2>1 DEF Listed
  <2> QED BY <2>1, <2>2, <2>3, <2>4, <2>5 DEF Listed
<1> QED BY <1>1, <1>2, <1>3, Ended

LEMMA TenantsInit == Init => Tenants /\ Listed
<1>1. DOMAIN <<>> = {}
  OBVIOUS
<1> QED BY <1>1 DEF Init, Pool!Init, Tenants, Listed, In, EraseLast

LEMMA TenantsNext == Basis /\ Joining /\ Tenants /\ [Next]_vars => Tenants'
<1> SUFFICES ASSUME Basis, Joining, Tenants, [Next]_vars PROVE Tenants'
  OBVIOUS
<1>1. tenant \in [Cells -> Conns \cup {Nobody}] /\ cell \in [Conns -> Cells \cup {Nobody}]
      /\ Nobody \notin Conns \cup Cells
  BY LifetimeAssumption DEF Basis, ShapeOK, LifetimeAssumption
<1>2. ASSUME UNCHANGED cellVars PROVE Tenants'
  BY <1>2 DEF Tenants, cellVars
<1>3. ASSUME NEW c \in Conns, Construct(c) PROVE Tenants'
  <2> DEFINE k == obj["acceptor"]
  <2>1. ~Started(c) /\ cell' = [cell EXCEPT ![c] = k] /\ tenant' = [tenant EXCEPT ![k] = c]
    BY <1>3, Fresh DEF Construct
  <2> HIDE DEF k
  <2> SUFFICES ASSUME NEW m \in Cells, tenant'[m] # Nobody PROVE cell'[tenant'[m]] = m
    BY DEF Tenants
  <2>2. CASE m = k
    BY <2>1, <2>2, <1>1
  <2>3. CASE m # k
    <3>1. tenant'[m] = tenant[m] /\ tenant[m] \in Conns /\ cell[tenant[m]] = m
      BY <2>1, <2>3, <1>1 DEF Tenants
    <3>2. tenant[m] # c
      BY <3>1, <2>1, <1>1 DEF Started
    <3> QED BY <3>1, <3>2, <2>1, <1>1
  <2> QED BY <2>2, <2>3
<1>4. CASE Erase
  BY <1>1, <1>4 DEF Erase, OnManager, Tenants
<1>5. CASE \/ GetCell \/ (\E a \in Actors : Recycle(a)) \/ PushBack \/ BroadcastImpl \/ Update
           \/ \E d \in Conns : Accept(d) \/ Joined(d) \/ Socket(d) \/ Strand(d)
  BY <1>2, <1>5 DEF GetCell, Recycle, PushBack, BroadcastImpl, OnManager, Update,
              Accept, Joined, Socket, ReadCompletes, ReadFails, WriteEnds, TimerExpires, Leave, OnEvent,
              Strand, StartImpl, ReadedError, ReadedLate, ReadedData, ReadedPing, ReadedBad,
              OnTimeout, StopImpl, SendImpl, OnWrote, OnStrand, cellVars
<1>6. ASSUME NEW d \in Conns, RunDangling(d) PROVE Tenants'
  BY <1>2, <1>6, Dangles
<1> QED BY <1>2, <1>3, <1>4, <1>5, <1>6, Steps DEF vars, Manager

LEMMA ListedNext == Basis /\ Joining /\ Listed /\ [Next]_vars => Listed'
<1> SUFFICES ASSUME Basis, Joining, Listed, [Next]_vars PROVE Listed'
  OBVIOUS
<1>1. tenant \in [Cells -> Conns \cup {Nobody}] /\ mgr_strand \in Seq(Job)
      /\ Nobody \notin Conns \cup Cells /\ used \subseteq Cells /\ m_list \subseteq Cells
  BY PoolTypes, LifetimeAssumption DEF Basis, ShapeOK, LifetimeAssumption
<1>2. ASSUME UNCHANGED <<tenant, m_list, mgr_strand, used, ended>> PROVE Listed'
  BY <1>2 DEF Listed
<1>3. ASSUME NEW c \in Conns, Construct(c) PROVE Listed'
  <2> DEFINE k == obj["acceptor"]
             p == [op |-> "push", at |-> k]
  <2>1. /\ ended' = (IF tenant[k] = Nobody THEN ended ELSE "overwritten")
        /\ tenant' = [tenant EXCEPT ![k] = c] /\ used' = used \cup {k} /\ m_list' = m_list
        /\ mgr_strand' = Append(mgr_strand, p)
    BY <1>3 DEF Construct, Pool!HandOut, OnAcceptor
  <2>2. k \in Cells /\ p \in Job /\ p.op = "push" /\ p.at = k /\ \A m : About(p, m) => m = k
    <3>1. k \in Cells
      BY PoolTypes DEF Basis, Actors, Services
    <3> QED BY <3>1, Handlers DEF About
  <2> HIDE DEF k, p
  <2> SUFFICES ASSUME ended' = "no" PROVE Listed'
    BY DEF Listed
  <2>3. tenant[k] = Nobody /\ ended = "no"
    BY <2>1, <1>3
  <2>4. \A job \in In(mgr_strand) : job.op \in {"push", "erase"} => job.at # k
    BY <2>3 DEF Listed
  <2>5. In(mgr_strand') = In(mgr_strand) \cup {p} /\ EraseLast(mgr_strand')
    <3>1. \A g \in In(mgr_strand) : g.op = "erase" => ~About(p, g.at)
      BY <2>2, <2>4
    <3> QED BY <1>1, <2>1, <2>2, <2>3, <3>1, JobQueued DEF Listed
  <2>6. \A m \in Cells : tenant[m] # Nobody => tenant'[m] # Nobody
    BY <1>1, <2>1, <2>2
  <2>7. tenant'[k] # Nobody
    BY <1>1, <2>1, <2>2
  <2>8. \A m \in used' \cup m_list' : tenant'[m] # Nobody
    BY <1>1, <2>1, <2>3, <2>6, <2>7 DEF Listed
  <2>9. \A job \in In(mgr_strand) : job.op \in {"push", "erase"} => tenant'[job.at] # Nobody
    BY <1>1, <2>1, <2>3, <2>4 DEF Listed
  <2>10. \A job \in In(mgr_strand) : job.op = "erase" => job.at \notin used'
    BY <2>1, <2>3, <2>4 DEF Listed
  <2> QED BY <2>2, <2>5, <2>7, <2>8, <2>9, <2>10 DEF Listed
<1>4. CASE PushBack
  <2>1. ManagerReady("push") /\ mgr_strand' = Jobs /\ m_list' = m_list \cup {At}
        /\ tenant' = tenant /\ used' = used /\ ended' = ended
    BY <1>4 DEF PushBack, OnManager, poolVars
  <2>2. mgr_strand # <<>> /\ Head(mgr_strand).op = "push"
    BY <2>1 DEF ManagerReady
  <2>3. /\ In(mgr_strand) = {Head(mgr_strand)} \cup In(Jobs)
        /\ EraseLast(mgr_strand) => EraseLast(Jobs)
    BY <1>1, <2>2, JobTaken DEF Jobs
  <2> QED BY <2>1, <2>2, <2>3 DEF Listed, At
<1>5. CASE Erase
  <2>1. ManagerReady("erase") /\ mgr_strand' = Jobs /\ m_list' = m_list \ {At}
        /\ tenant' = [tenant EXCEPT ![At] = Nobody] /\ used' = used /\ ended' = ended
    BY <1>5 DEF Erase, OnManager, poolVars
  <2>2. mgr_strand # <<>> /\ Head(mgr_strand).op = "erase"
    BY <2>1 DEF ManagerReady
  <2>3. /\ In(mgr_strand) = {Head(mgr_strand)} \cup In(Jobs)
        /\ EraseLast(mgr_strand) => EraseLast(Jobs)
        /\ EraseLast(mgr_strand) => \A job \in In(Jobs) : ~About(job, At)
    BY <1>1, <2>2, JobTaken DEF Jobs, At
  <2> SUFFICES ASSUME ended = "no" PROVE Listed'
    BY <2>1 DEF Listed
  <2>4. At \notin used /\ EraseLast(mgr_strand)
    BY <2>2, <2>3 DEF Listed, At
  <2>5. \A m : m # At => tenant'[m] = tenant[m]
    BY <1>1, <2>1
  <2>6. \A job \in In(Jobs) : job.op \in {"push", "erase"} => job.at # At
    BY <2>3, <2>4 DEF About
  <2> QED BY <2>1, <2>3, <2>4, <2>5, <2>6 DEF Listed
<1>6. CASE BroadcastImpl
  <2> DEFINE h == Head(mgr_strand).holder
             others == m_list \ {cell[h]}
             S == PutAll(strand, Listeners(others), Feeds(h, obj["manager"]))
  <2>1. /\ h \in Conns /\ Cardinality(others) \in Nat /\ mgr_strand # <<>>
        /\ Ending("manager", h, Cardinality(others) - 1, S, Jobs)
    BY <1>6, BroadcastEnds
  <2>2. Cardinality(others) - 1 \in Int
    BY <2>1
  <2>3. tenant' = tenant /\ m_list' = m_list /\ ended' = ended
    BY <1>6 DEF BroadcastImpl, OnManager
  <2> HIDE DEF h, others, S
  <2> SUFFICES ASSUME ended = "no" PROVE Listed'
    BY <2>3 DEF Listed
  <2>4. Leaves(Jobs)
    BY <2>1, LeavesJobs
  <2> QED BY <2>1, <2>2, <2>3, <2>4, EndingListed
<1>7. CASE Update
  <2> DEFINE c == Head(updates)
  <2>1. /\ c \in Conns
        /\ \/ Ending("storage", c, 0, strand, Append(mgr_strand, Broadcast(c)))
           \/ Ending("storage", c, -1, strand, mgr_strand)
    BY <1>7, UpdateEnds
  <2>2. tenant' = tenant /\ m_list' = m_list /\ ended' = ended
    BY <1>7 DEF Update, cellVars
  <2> HIDE DEF c
  <2> SUFFICES ASSUME ended = "no" PROVE Listed'
    BY <2>2 DEF Listed
  <2>4. Leaves(mgr_strand) /\ Leaves(Append(mgr_strand, Broadcast(c)))
    BY <2>1, LeavesJobs
  <2>5. \E n \in Int : \E J : Ending("storage", c, n, strand, J) /\ Leaves(J)
    BY <2>1, <2>4
  <2> QED BY <2>1, <2>2, <2>5, EndingListed
<1>8. ASSUME NEW c \in Conns, Joined(c) PROVE Listed'
  <2>1. \E n \in Int : \E S : Ending("acceptor", c, n, S, mgr_strand)
    <3>1. CASE c \in Synced
      BY <3>1, <1>8, JoinedEnds
    <3>2. CASE c \notin Synced
      BY <3>2, <1>8, JoinedEnds
    <3> QED BY <3>1, <3>2
  <2>2. tenant' = tenant /\ m_list' = m_list /\ ended' = ended
    BY <1>8 DEF Joined, OnAcceptor, cellVars
  <2> SUFFICES ASSUME ended = "no" PROVE Listed'
    BY <2>2 DEF Listed
  <2> QED BY <2>1, <2>2, LeavesJobs, EndingListed
<1>9. ASSUME NEW c \in Conns, Strand(c) PROVE Listed'
  <2>1. tenant' = tenant /\ m_list' = m_list /\ ended' = ended
    BY <1>9 DEF Strand, StartImpl, ReadedError, ReadedLate, ReadedData, ReadedPing, ReadedBad,
              OnTimeout, StopImpl, SendImpl, OnWrote, OnStrand, cellVars
  <2>2. CASE StopImpl(c)
    BY <2>1, <2>2, <1>2 DEF StopImpl, poolVars
  <2>3. CASE ~StopImpl(c)
    <3>1. \E d \in Conns, n \in Int : \E S : Ending(c, d, n, S, mgr_strand)
      BY <1>9, <2>3, StrandEnds
    <3> SUFFICES ASSUME ended = "no" PROVE Listed'
      BY <2>1 DEF Listed
    <3> QED BY <2>1, <3>1, LeavesJobs, EndingListed
  <2> QED BY <2>2, <2>3
<1>10. CASE GetCell \/ (\E a \in Actors : Recycle(a)) \/ \E c \in Conns : Socket(c)
  <2>1. UNCHANGED <<tenant, m_list, mgr_strand, used, ended>>
    BY <1>10 DEF GetCell, Recycle, Socket, ReadCompletes, ReadFails, WriteEnds, TimerExpires, Leave,
              OnEvent, OnAcceptor, cellVars, poolVars,
              Pool!Pop, Pool!Allocate, Pool!Push, Pool!Uncount
  <2> QED BY <2>1, <1>2
<1>11. ASSUME NEW c \in Conns, Accept(c) PROVE Listed'
  <2>1. UNCHANGED <<tenant, m_list, mgr_strand, used>>
    BY <1>11 DEF Accept, OnAcceptor, cellVars, poolVars, Pool!Look
  <2>2. ended' = "exception" \/ ended' = ended
    BY <1>11 DEF Accept
  <2> QED BY <2>1, <2>2, <1>2 DEF Listed
<1>12. CASE UNCHANGED vars
  BY <1>2, <1>12 DEF vars, cellVars, poolVars
<1>13. ASSUME NEW c \in Conns, RunDangling(c) PROVE Listed'
  BY <1>13, Dangles DEF Listed
<1> QED BY <1>3, <1>4, <1>5, <1>6, <1>7, <1>8, <1>9, <1>10, <1>11, <1>12, <1>13, Steps
    DEF Manager

-----------------------------------------------------------------------------
(* A session is destroyed once. *)

\* The erases queued for each cell.
EraseOf(m) == [op |-> "erase", at |-> m]
SameErases(J) == \A m \in Cells : Times(J, EraseOf(m)) = Times(mgr_strand, EraseOf(m))

LEMMA ErasesKept ==
  ASSUME Basis
  PROVE  /\ SameErases(mgr_strand)
         /\ mgr_strand # <<>> /\ Head(mgr_strand).op # "erase" => SameErases(Jobs)
         /\ \A c \in Conns : SameErases(Append(mgr_strand, Broadcast(c)))
<1>1. mgr_strand \in Seq(Job)
  BY DEF Basis, ShapeOK
<1>2. SameErases(mgr_strand)
  BY DEF SameErases
<1>3. ASSUME mgr_strand # <<>>, Head(mgr_strand).op # "erase", NEW m \in Cells
      PROVE  Times(Jobs, EraseOf(m)) = Times(mgr_strand, EraseOf(m))
  <2>1. Head(mgr_strand) # EraseOf(m)
    BY <1>3 DEF EraseOf
  <2>2. /\ Times(mgr_strand, EraseOf(m)) \in Nat
        /\ Times(Jobs, EraseOf(m)) = Times(mgr_strand, EraseOf(m)) - OneIf(Head(mgr_strand) = EraseOf(m))
    BY <1>1, <1>3, TimesDropped DEF Jobs
  <2> QED BY <2>1, <2>2 DEF OneIf
<1>4. ASSUME NEW c \in Conns, NEW m \in Cells
      PROVE  Times(Append(mgr_strand, Broadcast(c)), EraseOf(m)) = Times(mgr_strand, EraseOf(m))
  <2>1. Broadcast(c) \in Job /\ Broadcast(c) # EraseOf(m)
    BY Handlers DEF Broadcast, EraseOf
  <2>2. /\ Times(mgr_strand, EraseOf(m)) \in Nat
        /\ Times(Append(mgr_strand, Broadcast(c)), EraseOf(m))
             = Times(mgr_strand, EraseOf(m)) + OneIf(Broadcast(c) = EraseOf(m))
    BY <1>1, <2>1, TimesAppended
  <2> QED BY <2>1, <2>2 DEF OneIf
<1> QED BY <1>2, <1>3, <1>4 DEF SameErases

\* A handler that frees its session queues the one erase of its cell.
LEMMA EndingDestroys ==
  ASSUME Basis, Listed, DestroyedOnce, ended = "no", NEW a, NEW c \in Conns, NEW n \in Int,
         NEW S, NEW J, Ending(a, c, n, S, J), SameErases(J), UNCHANGED tenant
  PROVE  DestroyedOnce'
<1>1. S \in Queues(Handler) /\ J \in Seq(Job) /\ Ends(a, c, n, S, J)
  BY DEF Ending
<1>2. \A m \in Cells : Times(J, EraseOf(m)) = OneIf(tenant[m] # Nobody /\ m \notin used)
  BY DEF SameErases, DestroyedOnce, EraseOf
<1>3. CASE Kept(c, n, S, J)
  <2>1. mgr_strand' = J /\ used' = used
    BY <1>3 DEF Kept, poolVars
  <2> QED BY <2>1, <1>2 DEF DestroyedOnce, EraseOf
<1>4. CASE Freed(a, c, n, S, J)
  <2> DEFINE k == cell[c]
  <2>1. k \in used /\ k \in Cells /\ used' = used \ {k} /\ mgr_strand' = Append(J, EraseOf(k))
    BY <1>4 DEF Freed, EraseOf
  <2> HIDE DEF k
  <2>2. EraseOf(k) \in Job /\ tenant[k] # Nobody
    BY <2>1, Handlers DEF EraseOf, Listed
  <2>3. ASSUME NEW m \in Cells
        PROVE  Times(mgr_strand', EraseOf(m)) = OneIf(tenant[m] # Nobody /\ m \notin used')
    <3>1. /\ Times(J, EraseOf(m)) \in Nat
          /\ Times(mgr_strand', EraseOf(m)) = Times(J, EraseOf(m)) + OneIf(EraseOf(k) = EraseOf(m))
      BY <1>1, <2>1, <2>2, TimesAppended
    <3>2. EraseOf(k) = EraseOf(m) <=> k = m
      BY DEF EraseOf
    <3>3. CASE m = k
      BY <3>1, <3>3, <1>2, <2>1, <2>2 DEF OneIf
    <3>4. CASE m # k
      <4>1. m \in used' <=> m \in used
        BY <2>1, <3>4
      <4> QED BY <3>1, <3>2, <3>4, <4>1, <1>2 DEF OneIf
    <3> QED BY <3>3, <3>4
  <2> QED BY <2>3 DEF DestroyedOnce, EraseOf
<1> QED BY <1>1, <1>3, <1>4, Ended

LEMMA DestroyedInit == Init => DestroyedOnce
<1> SUFFICES ASSUME Init, NEW m \in Cells
             PROVE  Times(mgr_strand, EraseOf(m)) = OneIf(tenant[m] # Nobody /\ m \notin used)
  BY DEF DestroyedOnce, EraseOf
<1>1. mgr_strand = <<>> /\ tenant[m] = Nobody
  BY DEF Init
<1>2. {i \in DOMAIN mgr_strand : mgr_strand[i] = EraseOf(m)} = {}
  BY <1>1
<1> QED BY <1>1, <1>2, FS_EmptySet DEF Times, OneIf

LEMMA DestroyedNext == Basis /\ Joining /\ Listed /\ DestroyedOnce /\ [Next]_vars => DestroyedOnce'
<1> SUFFICES ASSUME Basis, Joining, Listed, DestroyedOnce, [Next]_vars PROVE DestroyedOnce'
  OBVIOUS
<1>1. tenant \in [Cells -> Conns \cup {Nobody}] /\ mgr_strand \in Seq(Job)
      /\ Nobody \notin Conns \cup Cells /\ used \subseteq Cells
  BY PoolTypes, LifetimeAssumption DEF Basis, ShapeOK, LifetimeAssumption
<1>2. ASSUME UNCHANGED <<tenant, mgr_strand, used, ended>> PROVE DestroyedOnce'
  BY <1>2 DEF DestroyedOnce
<1>3. ASSUME NEW c \in Conns, Construct(c) PROVE DestroyedOnce'
  <2> DEFINE k == obj["acceptor"]
             p == [op |-> "push", at |-> k]
  <2>1. /\ ended' = (IF tenant[k] = Nobody THEN ended ELSE "overwritten")
        /\ tenant' = [tenant EXCEPT ![k] = c] /\ used' = used \cup {k}
        /\ mgr_strand' = Append(mgr_strand, p)
    BY <1>3 DEF Construct, Pool!HandOut
  <2>2. k \in Cells
    BY PoolTypes DEF Basis, Actors, Services
  <2>3. p \in Job /\ \A m : p # EraseOf(m)
    BY <2>2, Handlers DEF EraseOf
  <2> HIDE DEF k, p
  <2> SUFFICES ASSUME ended' = "no", NEW m \in Cells
               PROVE  Times(mgr_strand', EraseOf(m)) = OneIf(tenant'[m] # Nobody /\ m \notin used')
    BY DEF DestroyedOnce, EraseOf
  <2>4. tenant[k] = Nobody /\ ended = "no"
    BY <2>1
  <2>5. Times(mgr_strand, EraseOf(m)) = OneIf(tenant[m] # Nobody /\ m \notin used)
    BY <2>4 DEF DestroyedOnce, EraseOf
  <2>6. /\ Times(mgr_strand, EraseOf(m)) \in Nat
        /\ Times(mgr_strand', EraseOf(m)) = Times(mgr_strand, EraseOf(m)) + OneIf(p = EraseOf(m))
    BY <1>1, <2>1, <2>3, TimesAppended
  <2>7. Times(mgr_strand', EraseOf(m)) = Times(mgr_strand, EraseOf(m))
    BY <2>3, <2>6 DEF OneIf
  <2>8. (tenant'[m] # Nobody /\ m \notin used') <=> (tenant[m] # Nobody /\ m \notin used)
    BY <1>1, <2>1, <2>2, <2>4
  <2> QED BY <2>5, <2>7, <2>8 DEF OneIf
<1>4. CASE PushBack
  <2>1. /\ ManagerReady("push") /\ mgr_strand' = Jobs
        /\ tenant' = tenant /\ used' = used /\ ended' = ended
    BY <1>4 DEF PushBack, OnManager, poolVars
  <2>2. SameErases(Jobs)
    BY <2>1, ErasesKept DEF ManagerReady
  <2> QED BY <2>1, <2>2 DEF DestroyedOnce, SameErases, EraseOf
<1>5. CASE Erase
  <2>1. /\ ManagerReady("erase") /\ mgr_strand' = Jobs
        /\ tenant' = [tenant EXCEPT ![At] = Nobody] /\ used' = used /\ ended' = ended
    BY <1>5 DEF Erase, OnManager, poolVars
  <2>2. mgr_strand # <<>> /\ At \in Cells /\ Head(mgr_strand) = EraseOf(At)
    <3>1. mgr_strand # <<>> /\ Head(mgr_strand) \in Job /\ Head(mgr_strand).op = "erase" /\ At \in Cells
      BY <2>1, ManagerRan DEF Basis
    <3> QED BY <3>1 DEF Job, EraseOf, At
  <2> SUFFICES ASSUME ended = "no", NEW m \in Cells
               PROVE  Times(Jobs, EraseOf(m)) = OneIf(tenant'[m] # Nobody /\ m \notin used)
    BY <2>1 DEF DestroyedOnce, EraseOf
  <2>3. Times(mgr_strand, EraseOf(m)) = OneIf(tenant[m] # Nobody /\ m \notin used)
    BY DEF DestroyedOnce, EraseOf
  <2>4. /\ Times(mgr_strand, EraseOf(m)) \in Nat /\ Times(Jobs, EraseOf(m)) \in Nat
        /\ Times(Jobs, EraseOf(m)) = Times(mgr_strand, EraseOf(m)) - OneIf(EraseOf(At) = EraseOf(m))
    BY <1>1, <2>2, TimesDropped DEF Jobs
  <2>5. EraseOf(At) = EraseOf(m) <=> At = m
    BY DEF EraseOf
  <2>6. CASE m = At
    BY <2>3, <2>4, <2>6, <2>1, <1>1 DEF OneIf
  <2>7. CASE m # At
    <3>1. tenant'[m] = tenant[m]
      BY <2>1, <2>7, <1>1
    <3> QED BY <2>3, <2>4, <2>5, <2>7, <3>1 DEF OneIf
  <2> QED BY <2>6, <2>7
<1>6. CASE BroadcastImpl
  <2> DEFINE h == Head(mgr_strand).holder
             others == m_list \ {cell[h]}
             S == PutAll(strand, Listeners(others), Feeds(h, obj["manager"]))
  <2>1. /\ h \in Conns /\ Cardinality(others) \in Nat /\ mgr_strand # <<>>
        /\ Ending("manager", h, Cardinality(others) - 1, S, Jobs)
    BY <1>6, BroadcastEnds
  <2>2. Cardinality(others) - 1 \in Int
    BY <2>1
  <2>3. tenant' = tenant /\ ended' = ended /\ Head(mgr_strand).op = "broadcast"
    BY <1>6 DEF BroadcastImpl, OnManager, ManagerReady
  <2> HIDE DEF h, others, S
  <2> SUFFICES ASSUME ended = "no" PROVE DestroyedOnce'
    BY <2>3 DEF DestroyedOnce
  <2>4. SameErases(Jobs)
    BY <2>1, <2>3, ErasesKept
  <2> QED BY <2>1, <2>2, <2>3, <2>4, EndingDestroys
<1>7. CASE Update
  <2> DEFINE c == Head(updates)
  <2>1. /\ c \in Conns
        /\ \/ Ending("storage", c, 0, strand, Append(mgr_strand, Broadcast(c)))
           \/ Ending("storage", c, -1, strand, mgr_strand)
    BY <1>7, UpdateEnds
  <2>2. tenant' = tenant /\ ended' = ended
    BY <1>7 DEF Update, cellVars
  <2> HIDE DEF c
  <2> SUFFICES ASSUME ended = "no" PROVE DestroyedOnce'
    BY <2>2 DEF DestroyedOnce
  <2>4. SameErases(mgr_strand) /\ SameErases(Append(mgr_strand, Broadcast(c)))
    BY <2>1, ErasesKept
  <2>5. \E n \in Int : \E J : Ending("storage", c, n, strand, J) /\ SameErases(J)
    BY <2>1, <2>4
  <2> QED BY <2>1, <2>2, <2>5, EndingDestroys
<1>8. ASSUME NEW c \in Conns, Joined(c) PROVE DestroyedOnce'
  <2>1. \E n \in Int : \E S : Ending("acceptor", c, n, S, mgr_strand)
    <3>1. CASE c \in Synced
      BY <3>1, <1>8, JoinedEnds
    <3>2. CASE c \notin Synced
      BY <3>2, <1>8, JoinedEnds
    <3> QED BY <3>1, <3>2
  <2>2. tenant' = tenant /\ ended' = ended
    BY <1>8 DEF Joined, OnAcceptor, cellVars
  <2> SUFFICES ASSUME ended = "no" PROVE DestroyedOnce'
    BY <2>2 DEF DestroyedOnce
  <2> QED BY <2>1, <2>2, ErasesKept, EndingDestroys
<1>9. ASSUME NEW c \in Conns, Strand(c) PROVE DestroyedOnce'
  <2>1. tenant' = tenant /\ ended' = ended
    BY <1>9 DEF Strand, StartImpl, ReadedError, ReadedLate, ReadedData, ReadedPing, ReadedBad,
              OnTimeout, StopImpl, SendImpl, OnWrote, OnStrand, cellVars
  <2>2. CASE StopImpl(c)
    BY <2>1, <2>2, <1>2 DEF StopImpl, poolVars
  <2>3. CASE ~StopImpl(c)
    <3>1. \E d \in Conns, n \in Int : \E S : Ending(c, d, n, S, mgr_strand)
      BY <1>9, <2>3, StrandEnds
    <3> SUFFICES ASSUME ended = "no" PROVE DestroyedOnce'
      BY <2>1 DEF DestroyedOnce
    <3> QED BY <2>1, <3>1, ErasesKept, EndingDestroys
  <2> QED BY <2>2, <2>3
<1>10. CASE GetCell \/ (\E a \in Actors : Recycle(a)) \/ \E c \in Conns : Socket(c)
  <2>1. UNCHANGED <<tenant, mgr_strand, used, ended>>
    BY <1>10 DEF GetCell, Recycle, Socket, ReadCompletes, ReadFails, WriteEnds, TimerExpires, Leave,
              OnEvent, OnAcceptor, cellVars, poolVars,
              Pool!Pop, Pool!Allocate, Pool!Push, Pool!Uncount
  <2> QED BY <2>1, <1>2
<1>11. ASSUME NEW c \in Conns, Accept(c) PROVE DestroyedOnce'
  <2>1. UNCHANGED <<tenant, mgr_strand, used>>
    BY <1>11 DEF Accept, OnAcceptor, cellVars, poolVars, Pool!Look
  <2>2. ended' = "exception" \/ ended' = ended
    BY <1>11 DEF Accept
  <2> QED BY <2>1, <2>2, <1>2 DEF DestroyedOnce
<1>12. CASE UNCHANGED vars
  BY <1>2, <1>12 DEF vars, cellVars, poolVars
<1>13. ASSUME NEW c \in Conns, RunDangling(c) PROVE DestroyedOnce'
  BY <1>13, Dangles DEF DestroyedOnce
<1> QED BY <1>3, <1>4, <1>5, <1>6, <1>7, <1>8, <1>9, <1>10, <1>11, <1>12, <1>13, Steps
    DEF Manager

-----------------------------------------------------------------------------
(* The counters are exact. *)

LEMMA Counts ==
  ASSUME Basis, NEW c \in Conns
  PROVE  /\ Carried(strand, c) \in Nat /\ Carried(writing, c) \in Nat
         /\ Times(mgr_strand, Broadcast(c)) \in Nat /\ Times(updates, c) \in Nat
         /\ Ptrs(c) \in Nat
         /\ Ptrs(c) >= Carried(strand, c) /\ Ptrs(c) >= Times(mgr_strand, Broadcast(c))
         /\ Ptrs(c) >= Times(updates, c) /\ Ptrs(c) >= OneIf(Started(c) /\ c \in joining)
<1>1. /\ strand \in Queues(Handler) /\ writing \in Queues(WroteHandler)
      /\ mgr_strand \in Seq(Job) /\ updates \in Seq(Conns)
  BY DEF Basis, ShapeOK, WroteHandler
<1>2. Carried(strand, c) \in Nat
  <2>1. Cardinality(Carrying(strand, c, 1)) \in Nat /\ Cardinality(Carrying(strand, c, 2)) \in Nat
    BY <1>1, CarryingNat
  <2> QED BY <2>1 DEF Carried
<1>3. Carried(writing, c) \in Nat
  <2>1. Cardinality(Carrying(writing, c, 1)) \in Nat /\ Cardinality(Carrying(writing, c, 2)) \in Nat
    BY <1>1, CarryingNat
  <2> QED BY <2>1 DEF Carried
<1>4. Times(mgr_strand, Broadcast(c)) \in Nat
  BY <1>1, TimesNat
<1>5. Times(updates, c) \in Nat
  BY <1>1, TimesNat
<1>7. /\ OneIf(Started(c) /\ c \in joining) \in Nat /\ OneIf(c \in reading) \in Nat
      /\ OneIf(c \in armed) \in Nat
  BY DEF OneIf
<1> QED BY <1>2, <1>3, <1>4, <1>5, <1>7 DEF Ptrs

\* What handlers carry.
LEMMA CarriedBy ==
  ASSUME NEW t, NEW h \in Handler, NEW c
  PROVE  /\ Own(h) => PtrsIn(t, h, c) = OneIf(t = c)
         /\ h.op = "stop" => PtrsIn(t, h, c) = 0
         /\ h.op \in {"send", "wrote"} =>
              PtrsIn(t, h, c) = IF h.msg.holder = c THEN Weight(h.msg) ELSE 0
BY HandlerFields DEF PtrsIn, OneIf, Own

LEMMA CarriedMessage ==
  ASSUME NEW t, NEW m, NEW msg, NEW c
  PROVE  PtrsIn(t, SendAt(m, msg), c) = IF msg.holder = c THEN Weight(msg) ELSE 0
BY DEF PtrsIn, SendAt

LEMMA CarriedWrote ==
  ASSUME NEW t, NEW msg, NEW c
  PROVE  PtrsIn(t, Wrote(msg), c) = IF msg.holder = c THEN Weight(msg) ELSE 0
BY DEF PtrsIn, Wrote

LEMMA CarriedStop ==
  ASSUME NEW t, NEW m, NEW c
  PROVE  PtrsIn(t, StopAt(m), c) = 0
BY DEF PtrsIn, StopAt

LEMMA CarriedTimeout ==
  ASSUME NEW t, NEW aborted \in BOOLEAN, NEW c
  PROVE  PtrsIn(t, Timeout(aborted), c) = IF t = c THEN 1 ELSE 0
BY DEF PtrsIn, Timeout

\* What there will be once a handler ended that leaves these queued.
Held(S, J, c) ==
  Carried(S, c) + Carried(writing', c) + Times(J, Broadcast(c)) + Times(updates', c)
    + OneIf(Started(c) /\ c \in joining') + OneIf(c \in reading') + OneIf(c \in armed')

\* Freeing a session queues two handlers that carry nothing.
LEMMA EndingHeld ==
  ASSUME Basis, NEW a, NEW c \in Conns, NEW n \in Int, NEW S, NEW J,
         Ending(a, c, n, S, J), UNCHANGED cellVars, NEW d \in Conns
  PROVE  Ptrs(d)' = Held(S, J, d)
<1>1. S \in Queues(Handler) /\ J \in Seq(Job) /\ Ends(a, c, n, S, J)
  BY DEF Ending
<1>2. Carried(strand', d) = Carried(S, d) /\ Times(mgr_strand', Broadcast(d)) = Times(J, Broadcast(d))
  <2>1. CASE Kept(c, n, S, J)
    BY <2>1 DEF Kept
  <2>2. CASE Freed(a, c, n, S, J)
    <3> DEFINE h == StopAt(cell[c])
               e == [op |-> "erase", at |-> cell[c]]
    <3>1. /\ strand' = Put(S, c, h) /\ h \in Handler /\ PtrsIn(c, h, d) = 0
          /\ mgr_strand' = Append(J, e) /\ e \in Job /\ e # Broadcast(d)
      <4>1. strand' = Put(S, c, h) /\ mgr_strand' = Append(J, e) /\ cell[c] \in Cells
        BY <2>2 DEF Freed
      <4>2. h \in Handler /\ e \in Job
        BY <4>1, Handlers
      <4>3. PtrsIn(c, h, d) = 0
        BY CarriedStop
      <4>4. e # Broadcast(d)
        BY DEF Broadcast
      <4> QED BY <4>1, <4>2, <4>3, <4>4
    <3> HIDE DEF h, e
    <3>2. Carried(S, d) \in Nat /\ Carried(Put(S, c, h), d) = Carried(S, d) + PtrsIn(c, h, d)
      BY <1>1, <3>1, CarriedPut
    <3>3. /\ Times(J, Broadcast(d)) \in Nat
          /\ Times(Append(J, e), Broadcast(d)) = Times(J, Broadcast(d)) + OneIf(e = Broadcast(d))
      BY <1>1, <3>1, TimesAppended
    <3>4. OneIf(e = Broadcast(d)) = 0
      BY <3>1 DEF OneIf
    <3> QED BY <3>1, <3>2, <3>3, <3>4
  <2> QED BY <1>1, <2>1, <2>2, Ended
<1>3. Ptrs(d)' = Carried(strand', d) + Carried(writing', d) + Times(mgr_strand', Broadcast(d))
                  + Times(updates', d) + OneIf(Started(d) /\ d \in joining')
                  + OneIf(d \in reading') + OneIf(d \in armed')
  BY DEF Ptrs, Started, cellVars
<1> QED BY <1>2, <1>3 DEF Held

\* A session that is up has as many references counted as there are; of any other
\* there is none.  A session that the pool took back has none counted.
Counted ==
  ended = "no" =>
    /\ \A c \in Conns : IF Alive(c) THEN m_counter[cell[c]] = Ptrs(c) ELSE Ptrs(c) = 0
    /\ \A m \in Cells : tenant[m] # Nobody /\ m \notin used => m_counter[m] = 0

\* What a counter is after a step: what it was, what a new session starts with,
\* or what there is now.
Recounted ==
  \A m \in Cells : \/ m_counter'[m] \in {m_counter[m], 2}
                   \/ \E d \in Conns : m_counter'[m] = Ptrs(d)'

LEMMA QuietCounted ==
  ASSUME Counted, ended = "no", UNCHANGED <<cellVars, m_counter, used>>,
         \A d \in Conns : Ptrs(d)' = Ptrs(d)
  PROVE  Counted' /\ Recounted
BY DEF Counted, Recounted, Alive, Started, cellVars

LEMMA EndingCounted ==
  ASSUME Basis, Counted, ended = "no", NEW a \in Actors, NEW c \in Conns, NEW n \in Int,
         NEW S, NEW J, Ending(a, c, n, S, J), UNCHANGED cellVars,
         Ptrs(c) > 0,
         \A d \in Conns : Held(S, J, d) = Ptrs(d) + (IF d = c THEN n ELSE 0)
  PROVE  Counted' /\ Recounted
<1> DEFINE k == cell[c]
<1>1. /\ m_counter' = [m_counter EXCEPT ![k] = @ + n]
      /\ Kept(c, n, S, J) \/ Freed(a, c, n, S, J)
  <2>1. S \in Queues(Handler) /\ J \in Seq(Job) /\ Ends(a, c, n, S, J)
    BY DEF Ending
  <2> QED BY <2>1, Ended
<1>2. \A d \in Conns : Ptrs(d) \in Nat /\ Ptrs(d)' = Ptrs(d) + (IF d = c THEN n ELSE 0)
  BY EndingHeld, Counts
<1>3. Alive(c) /\ m_counter[k] = Ptrs(c)
  <2>1. Ptrs(c) # 0
    BY <1>2
  <2> QED BY <2>1 DEF Counted
<1>4. /\ k \in Cells /\ tenant[k] = c /\ c # Nobody
      /\ m_counter \in [Cells -> Int] /\ cell \in [Conns -> Cells \cup {Nobody}]
      /\ tenant \in [Cells -> Conns \cup {Nobody}]
  BY <1>3, LifetimeAssumption DEF Alive, Started, Basis, ShapeOK, LifetimeAssumption
<1>5. k \in used
  <2>1. m_counter[k] # 0
    BY <1>2, <1>3
  <2> QED BY <2>1, <1>4 DEF Counted
<1>6. /\ m_counter'[k] = m_counter[k] + n
      /\ \A m \in Cells : m # k => m_counter'[m] = m_counter[m]
  BY <1>1, <1>4
<1>7. \/ used' = used
      \/ used' = used \ {k} /\ m_counter[k] + n = 0
  BY <1>1 DEF Kept, Freed, poolVars
<1>8. \A d \in Conns : (Alive(d))' <=> Alive(d)
  BY DEF Alive, Started, cellVars
<1>9. UNCHANGED <<cell, tenant>>
  BY DEF cellVars
<1> HIDE DEF k
<1>10. ASSUME NEW d \in Conns
       PROVE  IF Alive(d) THEN m_counter'[cell[d]] = Ptrs(d)' ELSE Ptrs(d)' = 0
  <2>1. CASE d = c
    <3>1. m_counter'[cell[d]] = Ptrs(d)'
      BY <2>1, <1>2, <1>3, <1>4, <1>6 DEF k
    <3> QED BY <2>1, <3>1, <1>3
  <2>2. CASE d # c /\ Alive(d)
    <3>1. cell[d] \in Cells /\ tenant[cell[d]] = d
      BY <2>2, <1>4 DEF Alive, Started
    <3>2. cell[d] # k
      BY <3>1, <2>2, <1>4
    <3>3. m_counter'[cell[d]] = Ptrs(d) /\ Ptrs(d)' = Ptrs(d)
      BY <3>1, <3>2, <2>2, <1>2, <1>6 DEF Counted
    <3> QED BY <3>3, <2>2
  <2>3. CASE d # c /\ ~Alive(d)
    BY <2>3, <1>2 DEF Counted
  <2> QED BY <2>1, <2>2, <2>3
<1>11. ASSUME NEW m \in Cells, tenant[m] # Nobody, m \notin used'
       PROVE  m_counter'[m] = 0
  BY <1>5, <1>6, <1>7, <1>11 DEF Counted
<1>12. ASSUME NEW d \in Conns
       PROVE  IF Alive(d)' THEN m_counter'[cell'[d]] = Ptrs(d)' ELSE Ptrs(d)' = 0
  BY <1>8, <1>9, <1>10
<1>13. Recounted
  <2>1. m_counter'[k] = Ptrs(c)'
    BY <1>2, <1>3, <1>6
  <2> QED BY <2>1, <1>6 DEF Recounted
<1> QED BY <1>9, <1>11, <1>12, <1>13 DEF Counted

\* A handler that is a session's own is off its strand.
LEMMA OwnDropped ==
  ASSUME Basis, NEW c \in Conns, NEW op \in {"start", "readed", "timeout"}, Ready(c, op)
  PROVE  /\ Ptrs(c) > 0 /\ c \in Actors
         /\ \A d \in Conns :
              /\ Carried(strand, d) \in Nat
              /\ Carried(Drop(strand, c), d) = Carried(strand, d) - OneIf(c = d)
<1>1. /\ strand[c] # <<>> /\ Head(strand[c]) \in Handler /\ strand \in Queues(Handler)
      /\ Head(strand[c]).op = op
  BY Begins
<1>2. ASSUME NEW d \in Conns
      PROVE  /\ Carried(strand, d) \in Nat /\ Carried(Drop(strand, c), d) \in Nat
             /\ Carried(Drop(strand, c), d) = Carried(strand, d) - OneIf(c = d)
  <2>1. PtrsIn(c, Head(strand[c]), d) = OneIf(c = d)
    BY <1>1, CarriedBy DEF Own
  <2> QED BY <1>1, <2>1, CarriedDropped
<1>3. Ptrs(c) >= Carried(strand, c) /\ Ptrs(c) \in Nat
  BY Counts
<1>4. OneIf(c = c) = 1
  BY DEF OneIf
<1> QED BY <1>2, <1>3, <1>4, ConnActs

\* A session whose read ended, or did not begin, has none outstanding.
LEMMA NotReading ==
  ASSUME Basis, ReadsOnce, NEW c \in Conns, NEW op, Ready(c, op)
  PROVE  /\ op \in {"start", "readed"} => c \notin reading
         /\ op = "start" => c \notin armed
<1>1. Head(strand[c]) \in In(strand[c]) /\ Head(strand[c]).op = op
  <2>1. /\ strand[c] # <<>> /\ Head(strand[c]).op = op /\ strand \in Queues(Handler)
    BY Begins
  <2> DEFINE Q == Drop(strand, c)
  <2>2. In(strand[c]) = {Head(strand[c])} \cup In(Q[c])
    BY <2>1, InDropped
  <2> QED BY <2>1, <2>2
<1> QED BY <1>1 DEF ReadsOnce, NoRead, Reads

LEMMA StartImplCounted ==
  ASSUME Basis, ReadsOnce, Counted, ended = "no", NEW c \in Conns, StartImpl(c)
  PROVE  Counted' /\ Recounted
<1>1. Ready(c, "start") /\ Ending(c, c, 1, Drop(strand, c), mgr_strand) /\ UNCHANGED cellVars
  BY StartImplEnds DEF StartImpl, OnStrand
<1>2. c \notin reading /\ c \notin armed
  BY <1>1, NotReading
<1>3. Ptrs(c) > 0 /\ c \in Actors
  BY <1>1, OwnDropped
<1>4. ASSUME NEW d \in Conns
      PROVE  Held(Drop(strand, c), mgr_strand, d) = Ptrs(d) + (IF d = c THEN 1 ELSE 0)
  <2>1. /\ Carried(strand, d) \in Nat
        /\ Carried(Drop(strand, c), d) = Carried(strand, d) - OneIf(c = d)
        /\ Carried(writing, d) \in Nat
        /\ Times(mgr_strand, Broadcast(d)) \in Nat /\ Times(updates, d) \in Nat
    BY <1>1, OwnDropped, Counts
  <2>2. /\ writing' = writing /\ updates' = updates /\ joining' = joining
        /\ reading' = reading \cup {c} /\ armed' = armed \cup {c}
    BY DEF StartImpl, OnStrand
  <2> QED BY <2>1, <2>2, <1>2 DEF Held, Ptrs, OneIf
<1> QED BY <1>1, <1>3, <1>4, EndingCounted

LEMMA ReadedDropsCounted ==
  ASSUME Basis, Counted, ended = "no", NEW c \in Conns, ReadedError(c) \/ ReadedLate(c)
  PROVE  Counted' /\ Recounted
<1>1. /\ Ready(c, "readed") /\ Ending(c, c, -1, Drop(strand, c), mgr_strand)
      /\ UNCHANGED cellVars
      /\ writing' = writing /\ updates' = updates /\ joining' = joining
      /\ reading' = reading /\ armed' = armed
  BY ReadedDrops DEF ReadedError, ReadedLate, Readed, OnStrand, socketVars
<1>3. Ptrs(c) > 0 /\ c \in Actors
  BY <1>1, OwnDropped
<1>4. ASSUME NEW d \in Conns
      PROVE  Held(Drop(strand, c), mgr_strand, d) = Ptrs(d) + (IF d = c THEN -1 ELSE 0)
  <2>1. /\ Carried(strand, d) \in Nat
        /\ Carried(Drop(strand, c), d) = Carried(strand, d) - OneIf(c = d)
        /\ Carried(writing, d) \in Nat
        /\ Times(mgr_strand, Broadcast(d)) \in Nat /\ Times(updates, d) \in Nat
    BY <1>1, OwnDropped, Counts
  <2> QED BY <2>1, <1>1 DEF Held, Ptrs, OneIf
<1>5. -1 \in Int
  OBVIOUS
<1> QED BY <1>1, <1>3, <1>4, <1>5, EndingCounted

\* A handler that is a session's own is queued.
LEMMA OwnPut ==
  ASSUME NEW Q \in Queues(Handler), NEW c \in Conns, NEW h \in Handler, Own(h), NEW d
  PROVE  /\ Put(Q, c, h) \in Queues(Handler)
         /\ Carried(Q, d) \in Nat
         /\ Carried(Put(Q, c, h), d) = Carried(Q, d) + (IF c = d THEN 1 ELSE 0)
<1>1. PtrsIn(c, h, d) = IF c = d THEN 1 ELSE 0
  BY CarriedBy DEF OneIf
<1>2. Put(Q, c, h) \in Queues(Handler)
  BY PutIsPutAll
<1>3. /\ Carried(Q, d) \in Nat
      /\ Carried(Put(Q, c, h), d) = Carried(Q, d) + PtrsIn(c, h, d)
  BY CarriedPut
<1> QED BY <1>1, <1>2, <1>3

LEMMA OwnTimeouts ==
  /\ Timeout(TRUE) \in Handler /\ Own(Timeout(TRUE))
  /\ Timeout(FALSE) \in Handler /\ Own(Timeout(FALSE))
BY Handlers DEF Own, Timeout

LEMMA ReadedDataCounted ==
  ASSUME Basis, ReadsOnce, Counted, ended = "no", NEW c \in Conns, ReadedData(c)
  PROVE  Counted' /\ Recounted
<1> DEFINE Q == Drop(strand, c)
           h == Timeout(TRUE)
           P == Put(Q, c, h)
<1>1. /\ Ready(c, "readed") /\ Ending(c, c, 2, P, mgr_strand)
      /\ UNCHANGED cellVars
      /\ writing' = writing /\ updates' = Append(updates, c) /\ joining' = joining
      /\ reading' = reading \cup {c} /\ armed' = armed
  BY ReadedDataEnds DEF ReadedData, InTime, Readed, OnStrand
<1>2. c \notin reading
  BY <1>1, NotReading
<1>3. Ptrs(c) > 0 /\ c \in Actors /\ Q \in Queues(Handler)
  BY <1>1, OwnDropped, Begins
<1>4. ASSUME NEW d \in Conns
      PROVE  Held(P, mgr_strand, d) = Ptrs(d) + (IF d = c THEN 2 ELSE 0)
  <2>1. /\ Carried(strand, d) \in Nat
        /\ Carried(Q, d) = Carried(strand, d) - OneIf(c = d)
        /\ Carried(writing, d) \in Nat
        /\ Times(mgr_strand, Broadcast(d)) \in Nat /\ Times(updates, d) \in Nat
    BY <1>1, OwnDropped, Counts
  <2>0. h \in Handler /\ Own(h)
    BY OwnTimeouts
  <2> HIDE DEF Q, h
  <2>2. Carried(Q, d) \in Nat /\ Carried(P, d) = Carried(Q, d) + (IF c = d THEN 1 ELSE 0)
    BY <1>3, <2>0, OwnPut
  <2>3. Times(updates', d) = Times(updates, d) + OneIf(c = d)
    BY <1>1, TimesAppended DEF Basis, ShapeOK
  <2>4. /\ writing' = writing /\ joining' = joining
        /\ reading' = reading \cup {c} /\ armed' = armed
    BY <1>1
  <2> HIDE DEF P
  <2>5. CASE d = c
    BY <2>1, <2>2, <2>3, <2>4, <2>5, <1>2 DEF Held, Ptrs, OneIf
  <2>6. CASE d # c
    BY <2>1, <2>2, <2>3, <2>4, <2>6 DEF Held, Ptrs, OneIf
  <2> QED BY <2>5, <2>6
<1> HIDE DEF P
<1> QED BY <1>1, <1>3, <1>4, EndingCounted

LEMMA ReadedPingCounted ==
  ASSUME Basis, ReadsOnce, Counted, ended = "no", NEW c \in Conns, ReadedPing(c)
  PROVE  Counted' /\ Recounted
<1> DEFINE Q == Drop(strand, c)
           h == Timeout(TRUE)
           P == Put(Q, c, h)
           R == Put(P, c, PingFor(c))
<1>1. /\ Ready(c, "readed") /\ Ending(c, c, 2, R, mgr_strand) /\ PingFor(c) \in Handler
      /\ UNCHANGED cellVars
      /\ writing' = writing /\ updates' = updates /\ joining' = joining
      /\ reading' = reading \cup {c} /\ armed' = armed
  BY ReadedPingEnds DEF ReadedPing, InTime, Readed, OnStrand
<1>2. c \notin reading
  BY <1>1, NotReading
<1>3. Ptrs(c) > 0 /\ c \in Actors /\ Q \in Queues(Handler)
  BY <1>1, OwnDropped, Begins
<1>4. ASSUME NEW d \in Conns
      PROVE  Held(R, mgr_strand, d) = Ptrs(d) + (IF d = c THEN 2 ELSE 0)
  <2>1. /\ Carried(strand, d) \in Nat
        /\ Carried(Q, d) = Carried(strand, d) - OneIf(c = d)
        /\ Carried(writing, d) \in Nat
        /\ Times(mgr_strand, Broadcast(d)) \in Nat /\ Times(updates, d) \in Nat
    BY <1>1, OwnDropped, Counts
  <2>0. h \in Handler /\ Own(h)
    BY OwnTimeouts
  <2> HIDE DEF Q, h
  <2>2. P \in Queues(Handler) /\ Carried(Q, d) \in Nat /\ Carried(P, d) = Carried(Q, d) + (IF c = d THEN 1 ELSE 0)
    BY <1>3, <2>0, OwnPut
  <2> HIDE DEF P
  <2>3. Carried(R, d) = Carried(P, d) + PtrsIn(c, PingFor(c), d)
    BY <1>1, <2>2, CarriedPut
  <2>4. PtrsIn(c, PingFor(c), d) = OneIf(c = d)
    BY CarriedMessage DEF PingFor, Weight, OneIf
  <2> HIDE DEF R
  <2> QED BY <2>1, <2>2, <2>3, <2>4, <1>1, <1>2 DEF Held, Ptrs, OneIf
<1> HIDE DEF R
<1> QED BY <1>1, <1>3, <1>4, EndingCounted

LEMMA ReadedBadCounted ==
  ASSUME Basis, Counted, ended = "no", NEW c \in Conns, ReadedBad(c)
  PROVE  Counted' /\ Recounted
<1> DEFINE Q == Drop(strand, c)
           h == Timeout(TRUE)
           P == Put(Q, c, h)
           R == Put(P, c, h)
<1>1. /\ Ready(c, "readed") /\ Ending(c, c, 0, R, mgr_strand)
      /\ UNCHANGED cellVars
      /\ writing' = writing /\ updates' = updates /\ joining' = joining
      /\ reading' = reading /\ armed' = armed \ {c} /\ c \in armed
  BY ReadedBadEnds DEF ReadedBad, InTime, Readed, OnStrand
<1>3. Ptrs(c) > 0 /\ c \in Actors /\ Q \in Queues(Handler)
  BY <1>1, OwnDropped, Begins
<1>4. ASSUME NEW d \in Conns
      PROVE  Held(R, mgr_strand, d) = Ptrs(d) + (IF d = c THEN 0 ELSE 0)
  <2>1. /\ Carried(strand, d) \in Nat
        /\ Carried(Q, d) = Carried(strand, d) - OneIf(c = d)
        /\ Carried(writing, d) \in Nat
        /\ Times(mgr_strand, Broadcast(d)) \in Nat /\ Times(updates, d) \in Nat
    BY <1>1, OwnDropped, Counts
  <2>0. h \in Handler /\ Own(h)
    BY OwnTimeouts
  <2> HIDE DEF Q, h
  <2>2. P \in Queues(Handler) /\ Carried(Q, d) \in Nat /\ Carried(P, d) = Carried(Q, d) + (IF c = d THEN 1 ELSE 0)
    BY <1>3, <2>0, OwnPut
  <2> HIDE DEF P
  <2>3. Carried(R, d) = Carried(P, d) + (IF c = d THEN 1 ELSE 0)
    BY <2>2, <2>0, OwnPut
  <2> HIDE DEF R
  <2> QED BY <2>1, <2>2, <2>3, <1>1 DEF Held, Ptrs, OneIf
<1> HIDE DEF R
<1> QED BY <1>1, <1>3, <1>4, EndingCounted

LEMMA OnTimeoutCounted ==
  ASSUME Basis, Counted, ended = "no", NEW c \in Conns, OnTimeout(c)
  PROVE  Counted' /\ Recounted
<1> DEFINE Q == Drop(strand, c)
           h == StopAt(cell[c])
           P == Put(Q, c, h)
<1>1. /\ Ready(c, "timeout")
      /\ UNCHANGED cellVars
      /\ writing' = writing /\ updates' = updates /\ joining' = joining
      /\ reading' = reading /\ armed' = armed
  BY DEF OnTimeout, OnStrand, socketVars
<1>2. /\ Head(strand[c]) \in {Timeout(TRUE), Timeout(FALSE)}
      /\ Head(strand[c]) = Timeout(TRUE) => Ending(c, c, -1, Q, mgr_strand)
      /\ Head(strand[c]) = Timeout(FALSE) =>
           Ending(c, c, -1, P, mgr_strand) /\ h \in Handler
  BY OnTimeoutEnds
<1>3. Ptrs(c) > 0 /\ c \in Actors /\ Q \in Queues(Handler)
  BY <1>1, OwnDropped, Begins
<1>4. ASSUME NEW d \in Conns
      PROVE  /\ Held(Q, mgr_strand, d) = Ptrs(d) + (IF d = c THEN -1 ELSE 0)
             /\ h \in Handler => Held(P, mgr_strand, d) = Ptrs(d) + (IF d = c THEN -1 ELSE 0)
  <2>1. /\ Carried(strand, d) \in Nat
        /\ Carried(Q, d) = Carried(strand, d) - OneIf(c = d)
        /\ Carried(writing, d) \in Nat
        /\ Times(mgr_strand, Broadcast(d)) \in Nat /\ Times(updates, d) \in Nat
    BY <1>1, OwnDropped, Counts
  <2>2. PtrsIn(c, h, d) = 0
    BY CarriedStop
  <2> HIDE DEF Q, h
  <2>3. h \in Handler => Carried(Q, d) \in Nat /\ Carried(P, d) = Carried(Q, d) + PtrsIn(c, h, d)
    BY <1>3, CarriedPut
  <2> HIDE DEF P
  <2>4. Held(Q, mgr_strand, d) = Ptrs(d) + (IF d = c THEN -1 ELSE 0)
    BY <2>1, <1>1 DEF Held, Ptrs, OneIf
  <2>5. ASSUME h \in Handler PROVE Held(P, mgr_strand, d) = Ptrs(d) + (IF d = c THEN -1 ELSE 0)
    <3>1. Carried(P, d) = Carried(Q, d)
      BY <2>2, <2>3, <2>5
    <3> QED BY <3>1, <2>4 DEF Held
  <2> QED BY <2>4, <2>5
<1>5. -1 \in Int
  OBVIOUS
<1> HIDE DEF Q, P, h
<1>6. ASSUME NEW S, Ending(c, c, -1, S, mgr_strand),
             \A d \in Conns : Held(S, mgr_strand, d) = Ptrs(d) + (IF d = c THEN -1 ELSE 0)
      PROVE  Counted' /\ Recounted
  BY <1>1, <1>3, <1>5, <1>6, EndingCounted
<1>7. CASE Head(strand[c]) = Timeout(TRUE)
  BY <1>2, <1>4, <1>6, <1>7
<1>8. CASE Head(strand[c]) = Timeout(FALSE)
  BY <1>2, <1>4, <1>6, <1>8
<1> QED BY <1>2, <1>7, <1>8

\* A handler that carries a message is off its strand.
LEMMA MessageDropped ==
  ASSUME Basis, NEW c \in Conns, NEW op \in {"send", "wrote"}, Ready(c, op),
         NEW msg, msg = Head(strand[c]).msg, msg.holder \in Conns, Weight(msg) \in {1, 2}
  PROVE  /\ Ptrs(msg.holder) > 0 /\ c \in Actors
         /\ \A d \in Conns :
              /\ Carried(strand, d) \in Nat
              /\ Carried(Drop(strand, c), d) =
                   Carried(strand, d) - (IF msg.holder = d THEN Weight(msg) ELSE 0)
<1>1. /\ strand[c] # <<>> /\ Head(strand[c]) \in Handler /\ strand \in Queues(Handler)
      /\ Head(strand[c]).op = op
  BY Begins
<1>2. ASSUME NEW d \in Conns
      PROVE  /\ Carried(strand, d) \in Nat /\ Carried(Drop(strand, c), d) \in Nat
             /\ Carried(Drop(strand, c), d) =
                  Carried(strand, d) - (IF msg.holder = d THEN Weight(msg) ELSE 0)
  <2>1. PtrsIn(c, Head(strand[c]), d) = IF msg.holder = d THEN Weight(msg) ELSE 0
    BY <1>1, CarriedBy
  <2> QED BY <1>1, <2>1, CarriedDropped
<1>3. Ptrs(msg.holder) >= Carried(strand, msg.holder) /\ Ptrs(msg.holder) \in Nat
  BY Counts
<1>4. Carried(strand, msg.holder) >= 1
  BY <1>2
<1> QED BY <1>2, <1>3, <1>4, ConnActs

LEMMA OnWroteCounted ==
  ASSUME Basis, Counted, ended = "no", NEW c \in Conns, OnWrote(c)
  PROVE  Counted' /\ Recounted
<1> DEFINE Q == Drop(strand, c)
           msg == Head(strand[c]).msg
           w == Weight(msg)
           k == msg.holder
<1>1. /\ Ready(c, "wrote")
      /\ UNCHANGED cellVars
      /\ writing' = writing /\ updates' = updates /\ joining' = joining
      /\ reading' = reading /\ armed' = armed
  BY DEF OnWrote, OnStrand, socketVars
<1>2. /\ k \in Conns /\ w \in {1, 2}
      /\ Ending(c, k, -w, Q, mgr_strand)
  BY OnWroteEnds
<1>3. /\ Ptrs(k) > 0 /\ c \in Actors
      /\ \A d \in Conns : /\ Carried(strand, d) \in Nat
                          /\ Carried(Q, d) = Carried(strand, d) - (IF k = d THEN w ELSE 0)
  BY <1>1, <1>2, MessageDropped
<1> HIDE DEF Q, w, k
<1>4. ASSUME NEW d \in Conns
      PROVE  Held(Q, mgr_strand, d) = Ptrs(d) + (IF d = k THEN -w ELSE 0)
  <2>1. /\ Carried(writing, d) \in Nat
        /\ Times(mgr_strand, Broadcast(d)) \in Nat /\ Times(updates, d) \in Nat
    BY Counts
  <2> QED BY <2>1, <1>1, <1>2, <1>3 DEF Held, Ptrs, OneIf
<1>5. -w \in Int
  BY <1>2
<1> QED BY <1>1, <1>2, <1>3, <1>4, <1>5, EndingCounted

LEMMA SendImplCounted ==
  ASSUME Basis, Counted, ended = "no", NEW c \in Conns, SendImpl(c)
  PROVE  Counted' /\ Recounted
<1> DEFINE Q == Drop(strand, c)
           msg == Head(strand[c]).msg
           s == tenant[Head(strand[c]).at]
           w == Weight(msg)
           k == msg.holder
           W == Put(writing, s, Wrote(msg))
<1>1. /\ Ready(c, "send")
      /\ UNCHANGED cellVars
      /\ updates' = updates /\ joining' = joining
      /\ reading' = reading /\ armed' = armed
  BY DEF SendImpl, OnStrand
<1>2. /\ msg \in Message /\ k \in Conns /\ w \in {1, 2} /\ s \in Conns
      /\ Ending(c, k, 0, Q, mgr_strand) /\ writing' = W
  BY SendImplEnds
<1>3. /\ Ptrs(k) > 0 /\ c \in Actors
      /\ \A d \in Conns : /\ Carried(strand, d) \in Nat
                          /\ Carried(Q, d) = Carried(strand, d) - (IF k = d THEN w ELSE 0)
  BY <1>1, <1>2, MessageDropped
<1>4. ASSUME NEW d \in Conns
      PROVE  Carried(W, d) = Carried(writing, d) + (IF k = d THEN w ELSE 0)
  <2> DEFINE h == Wrote(msg)
  <2>1. h \in WroteHandler /\ writing \in Queues(WroteHandler) /\ s \in Conns
    BY <1>2, MessageFields DEF WroteHandler, Basis, ShapeOK
  <2>2. PtrsIn(s, h, d) = IF k = d THEN w ELSE 0
    BY CarriedWrote
  <2> HIDE DEF h, s
  <2>3. Carried(Put(writing, s, h), d) = Carried(writing, d) + PtrsIn(s, h, d)
    BY <2>1, CarriedPut
  <2> QED BY <2>2, <2>3 DEF h
<1> HIDE DEF Q, w, k, s, W
<1>5. ASSUME NEW d \in Conns
      PROVE  Held(Q, mgr_strand, d) = Ptrs(d) + (IF d = k THEN 0 ELSE 0)
  <2>1. /\ Carried(writing, d) \in Nat
        /\ Times(mgr_strand, Broadcast(d)) \in Nat /\ Times(updates, d) \in Nat
    BY Counts
  <2>2. /\ writing' = W
        /\ Carried(W, d) = Carried(writing, d) + (IF k = d THEN w ELSE 0)
    BY <1>2, <1>4
  <2> QED BY <2>1, <2>2, <1>1, <1>2, <1>3 DEF Held, Ptrs, OneIf
<1>6. 0 \in Int
  OBVIOUS
<1> QED BY <1>1, <1>2, <1>3, <1>5, <1>6, EndingCounted

\* on_new_connection() lets its session_ptr go, or start_sync() keeps it.
LEMMA JoinedCounted ==
  ASSUME Basis, Joining, Counted, ended = "no", NEW c \in Conns, Joined(c)
  PROVE  Counted' /\ Recounted
<1> DEFINE h == SyncFor(c)
           P == Put(strand, c, h)
<1>1. /\ c \in joining /\ Started(c) /\ joining' = {} /\ UNCHANGED cellVars
      /\ writing' = writing /\ updates' = updates /\ reading' = reading /\ armed' = armed
      /\ c \in Synced => Ending("acceptor", c, 1, P, mgr_strand) /\ h \in Handler
      /\ c \notin Synced => Ending("acceptor", c, -1, strand, mgr_strand)
      /\ \A d \in joining : d = c
      /\ "acceptor" \in Actors
  BY JoinedEnds DEF Joined, OnAcceptor, socketVars, Joining, Actors, Services
<1>2. Ptrs(c) > 0
  <2>1. OneIf(Started(c) /\ c \in joining) = 1
    BY <1>1 DEF OneIf
  <2> QED BY <2>1, Counts
<1>3. ASSUME NEW d \in Conns
      PROVE  /\ Carried(writing, d) \in Nat /\ Carried(strand, d) \in Nat
             /\ Times(mgr_strand, Broadcast(d)) \in Nat /\ Times(updates, d) \in Nat
  BY Counts
<1>4. CASE c \in Synced
  <2>1. ASSUME NEW d \in Conns
        PROVE  Held(P, mgr_strand, d) = Ptrs(d) + (IF d = c THEN 1 ELSE 0)
    <3>1. PtrsIn(c, h, d) = IF c = d THEN 2 ELSE 0
      BY CarriedMessage DEF SyncFor, Weight
    <3>2. strand \in Queues(Handler)
      BY DEF Basis, ShapeOK
    <3> HIDE DEF h
    <3>3. Carried(P, d) = Carried(strand, d) + PtrsIn(c, h, d)
      BY <1>1, <1>4, <3>2, CarriedPut
    <3> HIDE DEF P
    <3>4. CASE d = c
      BY <3>1, <3>3, <3>4, <1>1, <1>3 DEF Held, Ptrs, OneIf
    <3>5. CASE d # c
      BY <3>1, <3>3, <3>5, <1>1, <1>3 DEF Held, Ptrs, OneIf
    <3> QED BY <3>4, <3>5
  <2> HIDE DEF P
  <2> QED BY <2>1, <1>1, <1>2, <1>4, EndingCounted
<1>5. CASE c \notin Synced
  <2>1. ASSUME NEW d \in Conns
        PROVE  Held(strand, mgr_strand, d) = Ptrs(d) + (IF d = c THEN -1 ELSE 0)
    <3>4. CASE d = c
      BY <3>4, <1>1, <1>3 DEF Held, Ptrs, OneIf
    <3>5. CASE d # c
      BY <3>5, <1>1, <1>3 DEF Held, Ptrs, OneIf
    <3> QED BY <3>4, <3>5
  <2>2. -1 \in Int
    OBVIOUS
  <2> QED BY <2>1, <2>2, <1>1, <1>2, <1>5, EndingCounted
<1> QED BY <1>4, <1>5

LEMMA UpdateCounted ==
  ASSUME Basis, Counted, ended = "no", Update
  PROVE  Counted' /\ Recounted
<1> DEFINE c == Head(updates)
           b == Broadcast(c)
           J == Append(mgr_strand, b)
<1>1. /\ c \in Conns /\ updates # <<>> /\ updates' = Tail(updates) /\ b \in Job
      /\ \/ Ending("storage", c, 0, strand, J)
         \/ Ending("storage", c, -1, strand, mgr_strand)
  BY UpdateEnds
<1>2. /\ updates \in Seq(Conns) /\ mgr_strand \in Seq(Job) /\ "storage" \in Actors
      /\ UNCHANGED cellVars /\ writing' = writing /\ joining' = joining /\ reading' = reading
      /\ armed' = armed
  BY DEF Basis, ShapeOK, Update, socketVars, Actors, Services
<1> HIDE DEF c
<1>3. ASSUME NEW d \in Conns
      PROVE  /\ Held(strand, mgr_strand, d) = Ptrs(d) + (IF d = c THEN -1 ELSE 0)
             /\ Held(strand, J, d) = Ptrs(d) + (IF d = c THEN 0 ELSE 0)
  <2>1. /\ Carried(writing, d) \in Nat /\ Carried(strand, d) \in Nat
        /\ Times(mgr_strand, Broadcast(d)) \in Nat /\ Times(updates, d) \in Nat
    BY Counts
  <2>2. Times(updates', d) = Times(updates, d) - OneIf(c = d) /\ Times(updates', d) \in Nat
    BY <1>1, <1>2, TimesDropped DEF c
  <2>3. b = Broadcast(d) <=> c = d
    BY DEF Broadcast
  <2> HIDE DEF b
  <2>4. Times(J, Broadcast(d)) = Times(mgr_strand, Broadcast(d)) + OneIf(b = Broadcast(d))
    BY <1>1, <1>2, TimesAppended
  <2> HIDE DEF J
  <2>5. /\ OneIf(b = Broadcast(d)) = (IF d = c THEN 1 ELSE 0)
        /\ OneIf(c = d) = (IF d = c THEN 1 ELSE 0)
    BY <2>3 DEF OneIf
  <2> DEFINE cs == Carried(strand, d)
             cw == Carried(writing, d)
             o1 == OneIf(Started(d) /\ d \in joining)
             o2 == OneIf(d \in reading)
             o3 == OneIf(d \in armed)
  <2>0. /\ cs \in Nat /\ cw \in Nat /\ o1 \in Nat /\ o2 \in Nat /\ o3 \in Nat
        /\ OneIf(c = d) \in Nat /\ OneIf(b = Broadcast(d)) \in Nat
    BY <2>1 DEF OneIf
  <2>9. Ptrs(d) = cs + cw + Times(mgr_strand, Broadcast(d)) + Times(updates, d) + o1 + o2 + o3
    BY DEF Ptrs
  <2>10. /\ Carried(writing', d) = cw
         /\ OneIf(Started(d) /\ d \in joining') = o1
         /\ OneIf(d \in reading') = o2 /\ OneIf(d \in armed') = o3
    BY <1>2
  <2>11. Held(strand, mgr_strand, d)
           = cs + cw + Times(mgr_strand, Broadcast(d)) + Times(updates', d) + o1 + o2 + o3
    BY <2>10 DEF Held
  <2>12. Held(strand, J, d)
           = cs + cw + Times(J, Broadcast(d)) + Times(updates', d) + o1 + o2 + o3
    BY <2>10 DEF Held
  <2> HIDE DEF cs, cw, o1, o2, o3
  <2>6. Held(strand, mgr_strand, d) = Ptrs(d) - OneIf(c = d)
    BY <2>0, <2>1, <2>2, <2>9, <2>11
  <2>7. Held(strand, J, d) = Held(strand, mgr_strand, d) + OneIf(b = Broadcast(d))
    BY <2>0, <2>1, <2>2, <2>4, <2>11, <2>12
  <2>8. Ptrs(d) \in Nat
    BY Counts
  <2> QED BY <2>5, <2>6, <2>7, <2>8
<1>4. Ptrs(c) > 0
  <2>1. Times(updates, c) \in Nat /\ Times(Tail(updates), c) \in Nat
        /\ Times(Tail(updates), c) = Times(updates, c) - OneIf(c = c)
    BY <1>1, <1>2, TimesDropped DEF c
  <2>2. OneIf(c = c) = 1
    BY DEF OneIf
  <2> QED BY <2>1, <2>2, <1>1, Counts
<1> HIDE DEF J
<1>5. CASE Ending("storage", c, 0, strand, J)
  BY <1>1, <1>2, <1>3, <1>4, <1>5, EndingCounted
<1>6. CASE Ending("storage", c, -1, strand, mgr_strand)
  <2>1. -1 \in Int
    OBVIOUS
  <2> QED BY <2>1, <1>1, <1>2, <1>3, <1>4, <1>6, EndingCounted
<1> QED BY <1>1, <1>5, <1>6

\* A broadcast copies its session_ptr once for every session it is posted to: the
\* list links no cell without a session, nor one session twice.
LEMMA AllListen ==
  ASSUME Basis, Tenants, Listed, ended = "no", NEW cells \in SUBSET m_list
  PROVE  Cardinality(Listeners(cells)) = Cardinality(cells)
<1> DEFINE f == [m \in cells |-> tenant[m]]
<1>1. /\ m_list \subseteq Cells /\ tenant \in [Cells -> Conns \cup {Nobody}]
      /\ cell \in [Conns -> Cells \cup {Nobody}] /\ Nobody \notin Cells /\ IsFiniteSet(cells)
  BY FS_Subset, LifetimeAssumption DEF Basis, ShapeOK, LifetimeAssumption
<1>2. ASSUME NEW m \in cells
      PROVE  f[m] \in Listeners(cells) /\ cell[f[m]] = m
  <2>1. tenant[m] \in Conns /\ cell[tenant[m]] = m
    BY <1>1 DEF Listed, Tenants
  <2> QED BY <2>1, <1>1 DEF Listeners, Alive, Started
<1>3. f \in [cells -> Listeners(cells)]
  BY <1>2
<1>4. \A x, y \in cells : f[x] = f[y] => x = y
  BY <1>2
<1>5. \A c \in Listeners(cells) : \E m \in cells : f[m] = c
  BY DEF Listeners, Alive
<1> HIDE DEF f
<1> QED BY <1>1, <1>3, <1>4, <1>5, SameSize

LEMMA BroadcastCounted ==
  ASSUME Basis, Tenants, Listed, Counted, ended = "no", BroadcastImpl
  PROVE  Counted' /\ Recounted
<1> DEFINE h == Head(mgr_strand).holder
           others == m_list \ {cell[h]}
           L == Listeners(others)
           hs == Feeds(h, obj["manager"])
           n == Cardinality(others)
           S == PutAll(strand, L, hs)
<1>1. /\ h \in Conns /\ Head(mgr_strand) = Broadcast(h) /\ mgr_strand # <<>>
      /\ n \in Nat /\ hs \in [Conns -> Handler]
      /\ Ending("manager", h, n - 1, S, Jobs)
  BY BroadcastEnds
<1>2. /\ mgr_strand \in Seq(Job) /\ strand \in Queues(Handler) /\ "manager" \in Actors
      /\ UNCHANGED cellVars
      /\ writing' = writing /\ joining' = joining /\ reading' = reading
      /\ armed' = armed /\ updates' = updates
  BY DEF Basis, ShapeOK, BroadcastImpl, OnManager, cellVars, socketVars, Actors, Services
<1>3. Cardinality(L) = n
  BY AllListen
<1>4. \A t \in Conns, d \in Conns : PtrsIn(t, hs[t], d) = IF h = d THEN 1 ELSE 0
  <2> SUFFICES ASSUME NEW t \in Conns, NEW d \in Conns
               PROVE  PtrsIn(t, hs[t], d) = IF h = d THEN 1 ELSE 0
    OBVIOUS
  <2>1. \E m : hs[t] = SendAt(m, FeedFor(h))
    BY DEF Feeds
  <2> QED BY <2>1, CarriedMessage DEF FeedFor, Weight
<1>5. L \in SUBSET Conns
  BY DEF Listeners
<1> HIDE DEF h, others, L, hs, n
<1>6. ASSUME NEW d \in Conns
      PROVE  Held(S, Jobs, d) = Ptrs(d) + (IF d = h THEN n - 1 ELSE 0)
  <2>1. /\ Carried(writing, d) \in Nat /\ Carried(strand, d) \in Nat
        /\ Times(mgr_strand, Broadcast(d)) \in Nat /\ Times(updates, d) \in Nat
    BY Counts
  <2>2. Times(Jobs, Broadcast(d)) = Times(mgr_strand, Broadcast(d)) - OneIf(Head(mgr_strand) = Broadcast(d))
    BY <1>1, <1>2, TimesDropped DEF Jobs
  <2>3. Head(mgr_strand) = Broadcast(d) <=> h = d
    BY <1>1 DEF Broadcast
  <2>4. Carried(S, d) = Carried(strand, d) + (IF h = d THEN n ELSE 0)
    <3> DEFINE w == IF h = d THEN 1 ELSE 0
    <3>1. w \in {0, 1} /\ \A t \in L : PtrsIn(t, hs[t], d) = w
      BY <1>4, <1>5
    <3>2. w = 1 <=> h = d
      OBVIOUS
    <3> HIDE DEF w
    <3>3. AllCarry(Handler, L, hs, d, w)
      BY <3>1, <1>1, <1>5 DEF AllCarry
    <3>4. Carried(PutAll(strand, L, hs), d) = Carried(strand, d) + (IF w = 1 THEN Cardinality(L) ELSE 0)
      BY <3>3, <1>2, CarriedPutAll
    <3> QED BY <3>2, <3>4, <1>3
  <2> HIDE DEF S
  <2>5. OneIf(Head(mgr_strand) = Broadcast(d)) = (IF h = d THEN 1 ELSE 0)
    BY <2>3 DEF OneIf
  <2>6. Held(S, Jobs, d) = Ptrs(d) + (IF h = d THEN n ELSE 0) - (IF h = d THEN 1 ELSE 0)
    <3> DEFINE x == IF h = d THEN n ELSE 0
               y == IF h = d THEN 1 ELSE 0
    <3>1. x \in Int /\ y \in Int /\ Carried(S, d) = Carried(strand, d) + x
         /\ Times(Jobs, Broadcast(d)) = Times(mgr_strand, Broadcast(d)) - y
         /\ OneIf(Started(d) /\ d \in joining) \in Int
         /\ OneIf(d \in reading) \in Int /\ OneIf(d \in armed) \in Int
      BY <2>2, <2>4, <2>5, <1>1 DEF OneIf
    <3> HIDE DEF x, y
    <3>3. Held(S, Jobs, d) =
            Carried(S, d) + Carried(writing, d) + Times(Jobs, Broadcast(d)) + Times(updates, d)
              + OneIf(Started(d) /\ d \in joining) + OneIf(d \in reading) + OneIf(d \in armed)
      <4>1. UNCHANGED <<tenant, cell>>
        BY <1>2 DEF cellVars
      <4>2. /\ writing' = writing /\ joining' = joining /\ reading' = reading
            /\ armed' = armed /\ updates' = updates
        BY <1>2
      <4> QED BY <4>1, <4>2 DEF Held, Started
    <3>2. Held(S, Jobs, d) = Ptrs(d) + x - y
      BY <3>1, <3>3, <2>1 DEF Ptrs
    <3> QED BY <3>2 DEF x, y
  <2>7. Ptrs(d) \in Nat
    BY Counts
  <2> QED BY <2>6, <2>7, <1>1
<1>7. Ptrs(h) > 0
  <2>1. /\ Times(mgr_strand, Broadcast(h)) \in Nat /\ Times(Jobs, Broadcast(h)) \in Nat
        /\ Times(Jobs, Broadcast(h)) = Times(mgr_strand, Broadcast(h)) - OneIf(Head(mgr_strand) = Broadcast(h))
    BY <1>1, <1>2, TimesDropped DEF Jobs
  <2>2. OneIf(Head(mgr_strand) = Broadcast(h)) = 1
    BY <1>1 DEF OneIf
  <2> QED BY <2>1, <2>2, <1>1, Counts
<1>8. n - 1 \in Int
  BY <1>1
<1> HIDE DEF S
<1> QED BY <1>1, <1>2, <1>6, <1>7, <1>8, EndingCounted

\* What there is after a step that constructs no session.
LEMMA HeldThen ==
  ASSUME cell' = cell, NEW d
  PROVE  Ptrs(d)' = Held(strand', mgr_strand', d)
BY DEF Ptrs, Held, Started

\* An operation ends, and its session_ptr goes on in the handler.
LEMMA EventCounted ==
  ASSUME Basis, Counted, ended = "no", NEW c \in Conns, NEW h \in Handler, Own(h),
         Post(c, h), OnEvent, writing' = writing,
         \/ c \in reading /\ reading' = reading \ {c} /\ armed' = armed
         \/ c \in armed /\ armed' = armed \ {c} /\ reading' = reading
  PROVE  Counted' /\ Recounted
<1> DEFINE P == Put(strand, c, h)
<1>1. strand' = P /\ strand \in Queues(Handler)
  BY DEF Post, Put, Basis, ShapeOK
<1>2. UNCHANGED <<cellVars, m_counter, used>> /\ cell' = cell /\ mgr_strand' = mgr_strand
      /\ updates' = updates /\ joining' = joining
  BY DEF OnEvent, cellVars, poolVars
<1>3. ASSUME NEW d \in Conns PROVE Ptrs(d)' = Ptrs(d)
  <2>1. Carried(strand, d) \in Nat /\ Carried(P, d) = Carried(strand, d) + (IF c = d THEN 1 ELSE 0)
    BY <1>1, OwnPut
  <2>2. /\ Carried(writing, d) \in Nat
        /\ Times(mgr_strand, Broadcast(d)) \in Nat /\ Times(updates, d) \in Nat
    BY Counts
  <2>3. Ptrs(d)' = Held(strand', mgr_strand', d)
    BY <1>2, HeldThen
  <2> HIDE DEF P
  <2>4. Held(P, mgr_strand, d) = Ptrs(d)
    <3>1. writing' = writing /\ updates' = updates /\ joining' = joining
      BY <1>2
    <3>2. CASE d = c
      BY <2>1, <2>2, <3>1, <3>2 DEF Held, Ptrs, OneIf
    <3>3. CASE d # c
      BY <2>1, <2>2, <3>1, <3>3 DEF Held, Ptrs, OneIf
    <3> QED BY <3>2, <3>3
  <2> QED BY <2>3, <2>4, <1>1, <1>2
<1> QED BY <1>2, <1>3, QuietCounted

LEMMA WriteEndsCounted ==
  ASSUME Basis, Counted, ended = "no", NEW c \in Conns, WriteEnds(c)
  PROVE  Counted' /\ Recounted
<1> DEFINE h == Head(writing[c])
           P == Put(strand, c, h)
           Q == Drop(writing, c)
<1>1. /\ writing[c] # <<>> /\ h \in Handler /\ strand' = P /\ writing' = Q
      /\ strand \in Queues(Handler) /\ writing \in Queues(WroteHandler)
  BY WriteDone DEF WriteEnds, Basis, ShapeOK, WroteHandler, Post, Put, Drop
<1>2. UNCHANGED <<cellVars, m_counter, used>> /\ cell' = cell /\ mgr_strand' = mgr_strand
      /\ updates' = updates /\ joining' = joining /\ reading' = reading /\ armed' = armed
  BY DEF WriteEnds, OnEvent, cellVars, poolVars
<1>3. ASSUME NEW d \in Conns PROVE Ptrs(d)' = Ptrs(d)
  <2>2. /\ Carried(writing, d) \in Nat /\ Carried(Q, d) \in Nat
        /\ Carried(Q, d) = Carried(writing, d) - PtrsIn(c, h, d)
    BY <1>1, CarriedDropped
  <2>0. PtrsIn(c, h, d) \in {0, 1, 2}
    BY AtMostTwo
  <2> HIDE DEF h
  <2>1. Carried(strand, d) \in Nat /\ Carried(P, d) = Carried(strand, d) + PtrsIn(c, h, d)
    BY <1>1, CarriedPut
  <2>3. Ptrs(d)' = Held(strand', mgr_strand', d)
    BY <1>2, HeldThen
  <2> HIDE DEF P, Q
  <2>4. Held(P, mgr_strand, d) = Ptrs(d)
    <3>1. updates' = updates /\ joining' = joining /\ reading' = reading /\ armed' = armed /\ writing' = Q
      BY <1>1, <1>2
    <3>2. Times(mgr_strand, Broadcast(d)) \in Nat /\ Times(updates, d) \in Nat
      BY Counts
    <3>3. /\ OneIf(Started(d) /\ d \in joining) \in Int /\ OneIf(d \in reading) \in Int
          /\ OneIf(d \in armed) \in Int
      BY DEF OneIf
    <3> QED BY <2>0, <2>1, <2>2, <3>1, <3>2, <3>3 DEF Held, Ptrs
  <2> QED BY <2>3, <2>4, <1>1, <1>2
<1> QED BY <1>2, <1>3, QuietCounted

LEMMA SocketCounted ==
  ASSUME Basis, Counted, ended = "no", NEW c \in Conns, Socket(c)
  PROVE  Counted' /\ Recounted
<1>1. ASSUME NEW line \in Inputs, ReadCompletes(c, line) PROVE Counted' /\ Recounted
  <2> DEFINE h == [op |-> "readed", line |-> line]
  <2>1. h \in Handler /\ Own(h)
    BY Handlers, LifetimeAssumption DEF LifetimeAssumption, Own
  <2>2. /\ Post(c, h) /\ OnEvent /\ writing' = writing
        /\ c \in reading /\ reading' = reading \ {c} /\ armed' = armed
    BY <1>1 DEF ReadCompletes
  <2> HIDE DEF h
  <2> QED BY <2>1, <2>2, EventCounted
<1>2. CASE ReadFails(c)
  <2> DEFINE h == [op |-> "readed", line |-> "error"]
  <2>1. h \in Handler /\ Own(h)
    BY Handlers DEF Own
  <2>2. /\ Post(c, h) /\ OnEvent /\ writing' = writing
        /\ c \in reading /\ reading' = reading \ {c} /\ armed' = armed
    BY <1>2 DEF ReadFails
  <2> HIDE DEF h
  <2> QED BY <2>1, <2>2, EventCounted
<1>3. CASE TimerExpires(c)
  <2> DEFINE h == Timeout(FALSE)
  <2>1. h \in Handler /\ Own(h)
    BY OwnTimeouts
  <2>2. /\ Post(c, h) /\ OnEvent /\ writing' = writing
        /\ c \in armed /\ armed' = armed \ {c} /\ reading' = reading
    BY <1>3 DEF TimerExpires
  <2> HIDE DEF h
  <2> QED BY <2>1, <2>2, EventCounted
<1>4. CASE Leave(c)
  <2>1. UNCHANGED <<cellVars, m_counter, used, strand, writing, mgr_strand, updates, joining, reading, armed>>
    BY <1>4 DEF Leave, OnEvent, socketVars, poolVars
  <2>2. \A d \in Conns : Ptrs(d)' = Ptrs(d)
    BY <2>1 DEF Ptrs, Started, cellVars
  <2> QED BY <2>1, <2>2, QuietCounted
<1> QED BY <1>1, <1>2, <1>3, <1>4, WriteEndsCounted DEF Socket

\* A stop that cancels a wait gives its session_ptr to the handler of the wait.
LEMMA StopImplCounted ==
  ASSUME Basis, Counted, ended = "no", NEW c \in Conns, StopImpl(c)
  PROVE  Counted' /\ Recounted
<1> DEFINE m == Head(strand[c]).at
           s == tenant[m]
           Q == Drop(strand, c)
           h == Timeout(TRUE)
<1>0. h \in Handler /\ Own(h)
  BY OwnTimeouts
<1>1. /\ Head(strand[c]) = StopAt(m) /\ strand[c] # <<>> /\ Q \in Queues(Handler)
      /\ s \in Conns /\ strand \in Queues(Handler)
      /\ s \in on_stop => strand' = Q /\ UNCHANGED socketVars
      /\ s \notin on_stop =>
           /\ armed' = armed \ {s} /\ UNCHANGED <<reading, writing>>
           /\ strand' = IF s \in armed THEN Put(Q, s, h) ELSE Q
  BY StopImplStrands DEF Basis, ShapeOK
<1> HIDE DEF h, s
<1>2. /\ UNCHANGED <<cellVars, m_counter, used>> /\ cell' = cell /\ mgr_strand' = mgr_strand
      /\ updates' = updates /\ joining' = joining /\ writing' = writing /\ reading' = reading
  BY <1>1 DEF StopImpl, OnStrand, cellVars, poolVars, socketVars
<1>3. \A d \in Conns : Carried(Q, d) = Carried(strand, d) /\ Carried(strand, d) \in Nat
  <2> SUFFICES ASSUME NEW d \in Conns
               PROVE  Carried(Q, d) = Carried(strand, d) /\ Carried(strand, d) \in Nat
    OBVIOUS
  <2>1. PtrsIn(c, Head(strand[c]), d) = 0
    BY <1>1, CarriedStop
  <2>2. /\ Carried(strand, d) \in Nat /\ Carried(Q, d) \in Nat
        /\ Carried(Q, d) = Carried(strand, d) - PtrsIn(c, Head(strand[c]), d)
    BY <1>1, CarriedDropped
  <2> QED BY <2>1, <2>2
<1> HIDE DEF Q
<1>4. armed \subseteq Conns /\ Nobody \notin Conns
  BY LifetimeAssumption DEF Basis, ShapeOK, LifetimeAssumption
<1>5. CASE s \in armed /\ s \notin on_stop
  <2>1. s \in Conns
    BY <1>4, <1>5
  <2> DEFINE P == Put(Q, s, h)
  <2>2. strand' = P /\ armed' = armed \ {s}
    BY <1>1, <1>5, <2>1
  <2>3. \A d \in Conns : Carried(P, d) = Carried(Q, d) + (IF s = d THEN 1 ELSE 0)
    BY <1>0, <1>1, <2>1, OwnPut
  <2> HIDE DEF P
  <2>4. ASSUME NEW d \in Conns PROVE Ptrs(d)' = Ptrs(d)
    <3>1. Carried(strand, d) \in Nat /\ Carried(P, d) = Carried(strand, d) + (IF s = d THEN 1 ELSE 0)
      BY <1>3, <2>3
    <3>2. /\ Carried(writing, d) \in Nat
          /\ Times(mgr_strand, Broadcast(d)) \in Nat /\ Times(updates, d) \in Nat
      BY Counts
    <3>3. Ptrs(d)' = Held(strand', mgr_strand', d)
      BY <1>2, HeldThen
    <3>4. writing' = writing /\ updates' = updates /\ joining' = joining /\ reading' = reading
      BY <1>2
    <3>5. Held(P, mgr_strand, d) = Ptrs(d)
      <4>1. CASE d = s
        BY <3>1, <3>2, <3>4, <4>1, <2>2, <1>5 DEF Held, Ptrs, OneIf
      <4>2. CASE d # s
        BY <3>1, <3>2, <3>4, <4>2, <2>2, <1>5 DEF Held, Ptrs, OneIf
      <4> QED BY <4>1, <4>2
    <3> QED BY <3>3, <3>5, <2>2, <1>2
  <2> QED BY <2>4, <1>2, QuietCounted
<1>6. CASE ~(s \in armed /\ s \notin on_stop)
  <2>1. strand' = Q /\ armed' = armed
    BY <1>1, <1>6 DEF socketVars
  <2>2. ASSUME NEW d \in Conns PROVE Ptrs(d)' = Ptrs(d)
    <3>1. Ptrs(d)' = Held(strand', mgr_strand', d)
      BY <1>2, HeldThen
    <3>2. Carried(Q, d) = Carried(strand, d)
      BY <1>3
    <3>3. Held(Q, mgr_strand, d) = Ptrs(d)
      BY <3>2, <2>1, <1>2 DEF Held, Ptrs
    <3> QED BY <3>1, <3>3, <2>1, <1>2
  <2> QED BY <2>2, <1>2, QuietCounted
<1> QED BY <1>5, <1>6

LEMMA PoolStepsCounted ==
  ASSUME Counted, ended = "no", \/ GetCell \/ (\E a \in Actors : Recycle(a))
                                \/ \E c \in Conns : Accept(c)
  PROVE  Counted' /\ Recounted
<1>1. CASE GetCell \/ \E a \in Actors : Recycle(a)
  <2>1. UNCHANGED <<cellVars, m_counter, used>>
    BY <1>1 DEF GetCell, Recycle, Pool!Pop, Pool!Allocate, Pool!Push, Pool!Uncount
  <2>2. UNCHANGED <<cell, strand, writing, mgr_strand, updates, joining, reading, armed>>
    BY <1>1 DEF GetCell, Recycle, OnAcceptor, socketVars, cellVars
  <2>3. \A d \in Conns : Ptrs(d)' = Ptrs(d)
    BY <2>2 DEF Ptrs, Started
  <2> QED BY <2>1, <2>3, QuietCounted
<1>2. ASSUME NEW c \in Conns, Accept(c) PROVE Counted' /\ Recounted
  <2>0. m_counter' = m_counter
    BY <1>2 DEF Accept
  <2> SUFFICES ASSUME ended' = "no" PROVE Counted' /\ Recounted
    BY <2>0 DEF Counted, Recounted
  <2>1. Pool!Look("acceptor") /\ joining = {} /\ joining' = {c} /\ ~Started(c)
    BY <1>2 DEF Accept
  <2>2. UNCHANGED <<cellVars, m_counter, used>>
    BY <1>2, <2>1 DEF Accept, Pool!Look
  <2>3. UNCHANGED <<cell, strand, writing, mgr_strand, updates, reading, armed>>
    BY <1>2 DEF Accept, OnAcceptor, socketVars, cellVars
  <2>4. ASSUME NEW d \in Conns PROVE Ptrs(d)' = Ptrs(d)
    <3>1. (Started(d) /\ d \in joining) = FALSE /\ (Started(d) /\ d \in joining)' = FALSE
      BY <2>1, <2>3 DEF Started
    <3> QED BY <3>1, <2>3 DEF Ptrs, OneIf
  <2> QED BY <2>2, <2>4, QuietCounted
<1> QED BY <1>1, <1>2

\* A job about a cell is no broadcast.
LEMMA CellJobTaken ==
  ASSUME Basis, NEW op \in {"push", "erase"}, ManagerReady(op), NEW d
  PROVE  Times(Jobs, Broadcast(d)) = Times(mgr_strand, Broadcast(d))
<1>1. mgr_strand # <<>> /\ Head(mgr_strand).op = op /\ mgr_strand \in Seq(Job)
  BY DEF ManagerReady, Basis, ShapeOK
<1>2. OneIf(Head(mgr_strand) = Broadcast(d)) = 0
  BY <1>1 DEF Broadcast, OneIf
<1>3. /\ Times(mgr_strand, Broadcast(d)) \in Nat
      /\ Times(Tail(mgr_strand), Broadcast(d)) =
           Times(mgr_strand, Broadcast(d)) - OneIf(Head(mgr_strand) = Broadcast(d))
  BY <1>1, TimesDropped
<1> QED BY <1>2, <1>3 DEF Jobs

LEMMA CellJobsCounted ==
  ASSUME Basis, Tenants, Listed, Counted, ended = "no", PushBack \/ Erase
  PROVE  Counted' /\ Recounted
<1>1. /\ UNCHANGED <<m_counter, used, cell>> /\ mgr_strand' = Jobs
      /\ UNCHANGED <<strand, writing, updates, joining, reading, armed>>
      /\ ManagerReady("push") \/ ManagerReady("erase")
  BY DEF PushBack, Erase, OnManager, poolVars, socketVars
<1>2. ASSUME NEW d \in Conns PROVE Ptrs(d)' = Ptrs(d)
  <2>1. Times(Jobs, Broadcast(d)) = Times(mgr_strand, Broadcast(d))
    BY <1>1, CellJobTaken
  <2> QED BY <2>1, <1>1 DEF Ptrs, Started
<1>3. CASE PushBack
  <2>1. UNCHANGED cellVars
    BY <1>1, <1>3 DEF PushBack, cellVars
  <2> QED BY <2>1, <1>1, <1>2, QuietCounted
<1>4. CASE Erase
  <2>1. /\ tenant' = [tenant EXCEPT ![At] = Nobody] /\ mgr_strand # <<>>
        /\ Head(mgr_strand).op = "erase" /\ mgr_strand \in Seq(Job)
    BY <1>4 DEF Erase, ManagerReady, Basis, ShapeOK
  <2>2. Head(mgr_strand) \in In(mgr_strand) /\ At \in Cells
    <3>1. Head(mgr_strand) \in In(mgr_strand)
      BY <2>1, JobTaken
    <3>2. Head(mgr_strand) \in Job
      BY <2>1, HeadTailProperties
    <3> QED BY <2>1, <3>1, <3>2, JobFields DEF At
  <2>3. tenant[At] # Nobody /\ At \notin used
    BY <2>1, <2>2 DEF Listed, At
  <2>4. /\ tenant \in [Cells -> Conns \cup {Nobody}] /\ cell \in [Conns -> Cells \cup {Nobody}]
        /\ Nobody \notin Conns /\ Nobody \notin Cells
    BY LifetimeAssumption DEF Basis, ShapeOK, LifetimeAssumption
  <2>5. m_counter[At] = 0
    BY <2>2, <2>3 DEF Counted
  <2>6. ASSUME NEW d \in Conns
        PROVE  IF Alive(d)' THEN m_counter'[cell'[d]] = Ptrs(d)' ELSE Ptrs(d)' = 0
    <3>1. CASE cell[d] = At
      <4>1. ~Alive(d)'
        BY <3>1, <2>1, <2>2, <2>4, <1>1 DEF Alive
      <4>2. Ptrs(d) = 0
        BY <3>1, <2>5 DEF Counted
      <4> QED BY <4>1, <4>2, <1>2
    <3>2. CASE cell[d] # At
      <4>1. Alive(d)' <=> Alive(d)
        BY <3>2, <2>1, <2>2, <2>4, <1>1 DEF Alive, Started
      <4> QED BY <4>1, <1>1, <1>2 DEF Counted
    <3> QED BY <3>1, <3>2
  <2>7. \A k \in Cells : tenant'[k] # Nobody => tenant[k] # Nobody
    BY <2>1, <2>4
  <2> QED BY <2>6, <2>7, <1>1 DEF Counted, Recounted
<1> QED BY <1>3, <1>4

\* A session starts with two references: the one start() binds, and the one that
\* on_new_connection() has.
LEMMA ConstructCounted ==
  ASSUME Basis, Joining, Tenants, Counted, ended = "no", NEW c \in Conns, Construct(c)
  PROVE  Counted' /\ Recounted
<1>0. Recounted
  BY DEF Construct, Basis, ShapeOK, Recounted
<1> SUFFICES ASSUME ended' = "no" PROVE Counted'
  BY <1>0 DEF Counted
<1> DEFINE k == obj["acceptor"]
           h == [op |-> "start"]
           p == [op |-> "push", at |-> k]
           P == Put(strand, c, h)
           J == Append(mgr_strand, p)
<1>1. /\ tenant[k] = Nobody /\ k \in Cells /\ c \in joining
      /\ tenant' = [tenant EXCEPT ![k] = c] /\ cell' = [cell EXCEPT ![c] = k]
      /\ m_counter' = [m_counter EXCEPT ![k] = 2] /\ used' = used \cup {k}
      /\ mgr_strand' = J /\ strand' = P
      /\ joining' = joining /\ UNCHANGED <<writing, updates, reading, armed>>
  <2>1. k \in Cells
    BY PoolTypes DEF Basis, Actors, Services
  <2> QED BY <2>1 DEF Construct, Pool!HandOut, OnAcceptor, socketVars, Put
<1>2. ~Started(c) /\ strand \in Queues(Handler) /\ mgr_strand \in Seq(Job)
  BY Fresh DEF Basis, ShapeOK
<1>3. h \in Handler /\ Own(h) /\ p \in Job
  BY <1>1, Handlers DEF Own
<1>4. /\ tenant \in [Cells -> Conns \cup {Nobody}] /\ cell \in [Conns -> Cells \cup {Nobody}]
      /\ m_counter \in [Cells -> Int] /\ Nobody \notin Conns /\ Nobody \notin Cells
  BY LifetimeAssumption DEF Basis, ShapeOK, LifetimeAssumption
<1>5. \A d \in Conns : p # Broadcast(d)
  BY DEF Broadcast
<1> HIDE DEF k, h, p
<1>6. ASSUME NEW d \in Conns
      PROVE  /\ Ptrs(d) \in Nat
             /\ d # c => Ptrs(d)' = Ptrs(d)
             /\ d = c => Ptrs(d)' = Ptrs(d) + 2
  <2>1. Carried(strand, d) \in Nat /\ Carried(P, d) = Carried(strand, d) + (IF c = d THEN 1 ELSE 0)
    BY <1>2, <1>3, OwnPut
  <2>2. /\ Times(J, Broadcast(d)) = Times(mgr_strand, Broadcast(d)) + OneIf(p = Broadcast(d))
    BY <1>2, <1>3, TimesAppended
  <2>3. OneIf(p = Broadcast(d)) = 0
    BY <1>5 DEF OneIf
  <2>4. /\ Carried(writing, d) \in Nat /\ Ptrs(d) \in Nat
        /\ Times(mgr_strand, Broadcast(d)) \in Nat /\ Times(updates, d) \in Nat
    BY Counts
  <2> HIDE DEF P, J
  <2>5. Ptrs(d)' = Carried(P, d) + Carried(writing, d) + Times(J, Broadcast(d)) + Times(updates, d)
                    + OneIf(Started(d)' /\ d \in joining) + OneIf(d \in reading) + OneIf(d \in armed)
    BY <1>1 DEF Ptrs
  <2>6. /\ d # c => (Started(d)' <=> Started(d))
        /\ d = c => Started(d)' /\ ~Started(d)
    BY <1>1, <1>2, <1>4 DEF Started
  <2>7. Times(J, Broadcast(d)) = Times(mgr_strand, Broadcast(d))
    BY <2>2, <2>3, <2>4
  <2>8. CASE d = c
    <3>1. (Started(d) /\ d \in joining) = FALSE /\ (Started(d)' /\ d \in joining) = TRUE
      BY <2>6, <2>8, <1>1
    <3>2. OneIf(d \in reading) \in Int /\ OneIf(d \in armed) \in Int
      BY DEF OneIf
    <3>3. Carried(P, d) = Carried(strand, d) + 1
      BY <2>1, <2>8
    <3>4. /\ OneIf(Started(d) /\ d \in joining) = 0
          /\ OneIf(Started(d)' /\ d \in joining) = 1
      BY <3>1 DEF OneIf
    <3> QED BY <2>1, <2>4, <2>5, <2>7, <2>8, <3>2, <3>3, <3>4 DEF Ptrs
  <2>9. CASE d # c
    <3>1. OneIf(Started(d)' /\ d \in joining) = OneIf(Started(d) /\ d \in joining)
      BY <2>6, <2>9 DEF OneIf
    <3>2. Carried(P, d) = Carried(strand, d)
      BY <2>1, <2>9
    <3> QED BY <2>4, <2>5, <2>7, <2>9, <3>1, <3>2 DEF Ptrs
  <2> QED BY <2>4, <2>8, <2>9
<1> HIDE DEF P, J
<1>7. ASSUME NEW d \in Conns
      PROVE  IF Alive(d)' THEN m_counter'[cell'[d]] = Ptrs(d)' ELSE Ptrs(d)' = 0
  <2>1. CASE d = c
    <3>1. ~Alive(d)
      BY <2>1, <1>2 DEF Alive
    <3>2. Ptrs(d)' = 2
      BY <3>1, <2>1, <1>6 DEF Counted
    <3>3. Alive(d)' /\ m_counter'[cell'[d]] = 2
      BY <2>1, <1>1, <1>4 DEF Alive, Started
    <3> QED BY <3>2, <3>3
  <2>2. CASE d # c
    <3>1. Ptrs(d)' = Ptrs(d) /\ cell'[d] = cell[d]
      BY <2>2, <1>1, <1>4, <1>6
    <3>2. Alive(d)' <=> Alive(d)
      BY <3>1, <2>2, <1>1, <1>4 DEF Alive, Started
    <3>3. Alive(d) => cell[d] # k /\ cell[d] \in Cells
      BY <1>1, <1>4 DEF Alive, Started
    <3> QED BY <3>1, <3>2, <3>3, <1>1, <1>4 DEF Counted
  <2> QED BY <2>1, <2>2
<1>8. \A m \in Cells : m \notin used' => m # k /\ m \notin used
  BY <1>1
<1>9. \A m \in Cells : m # k => tenant'[m] = tenant[m] /\ m_counter'[m] = m_counter[m]
  BY <1>1, <1>4
<1> QED BY <1>7, <1>8, <1>9 DEF Counted

LEMMA CountedInit == Init => Counted
<1> SUFFICES ASSUME Init PROVE Counted
  OBVIOUS
<1>0. tenant = [m \in Cells |-> Nobody]
  BY DEF Init
<1> SUFFICES ASSUME NEW c \in Conns PROVE ~Alive(c) /\ Ptrs(c) = 0
  BY <1>0 DEF Counted
<1>1. /\ strand = [d \in Conns |-> <<>>] /\ writing = [d \in Conns |-> <<>>]
      /\ mgr_strand = <<>> /\ updates = <<>> /\ cell = [d \in Conns |-> Nobody]
      /\ reading = {} /\ armed = {}
  BY DEF Init
<1>2. DOMAIN <<>> = {} /\ Cardinality({}) = 0
  BY FS_EmptySet
<1>3. Places(strand) = {} /\ Places(writing) = {}
  BY <1>1, <1>2 DEF Places
<1>4. Carried(strand, c) = 0 /\ Carried(writing, c) = 0
  <2>1. \A n : Carrying(strand, c, n) = {} /\ Carrying(writing, c, n) = {}
    BY <1>3 DEF Carrying
  <2> QED BY <2>1, <1>2 DEF Carried
<1>5. Times(mgr_strand, Broadcast(c)) = 0 /\ Times(updates, c) = 0
  <2>1. {i \in DOMAIN mgr_strand : mgr_strand[i] = Broadcast(c)} = {}
        /\ {i \in DOMAIN updates : updates[i] = c} = {}
    BY <1>1, <1>2
  <2> QED BY <2>1, <1>2 DEF Times
<1>6. ~Started(c)
  BY <1>1 DEF Started
<1>7. /\ OneIf(Started(c) /\ c \in joining) = 0 /\ OneIf(c \in reading) = 0
      /\ OneIf(c \in armed) = 0
  BY <1>1, <1>6 DEF OneIf
<1> QED BY <1>4, <1>5, <1>6, <1>7 DEF Ptrs, Alive

LEMMA CountedNext ==
  Basis /\ Joining /\ ReadsOnce /\ Tenants /\ Listed /\ Counted /\ [Next]_vars => Counted' /\ Recounted
<1> SUFFICES ASSUME Basis, Joining, ReadsOnce, Tenants, Listed, Counted, [Next]_vars
             PROVE  Counted' /\ Recounted
  OBVIOUS
<1>1. CASE UNCHANGED vars
  <2>1. UNCHANGED <<cellVars, m_counter, used, ended>> /\ \A d \in Conns : Ptrs(d)' = Ptrs(d)
    BY <1>1 DEF vars, poolVars, cellVars, socketVars, Ptrs, Started
  <2>2. CASE ended = "no"
    BY <2>1, <2>2, QuietCounted
  <2>3. CASE ended # "no"
    BY <2>1, <2>3 DEF Counted, Recounted
  <2> QED BY <2>2, <2>3
<1>2. CASE Next
  <2>1. ended = "no"
    BY <1>2, Steps
  <2>2. ASSUME NEW c \in Conns, Strand(c) PROVE Counted' /\ Recounted
    BY <2>1, <2>2, StartImplCounted, ReadedDropsCounted, ReadedDataCounted, ReadedPingCounted,
       ReadedBadCounted, OnTimeoutCounted, StopImplCounted, SendImplCounted, OnWroteCounted
    DEF Strand
  <2>3. CASE \/ GetCell \/ (\E a \in Actors : Recycle(a)) \/ \E c \in Conns : Accept(c)
    BY <2>1, <2>3, PoolStepsCounted
  <2>4. CASE \E c \in Conns : Construct(c)
    BY <2>1, <2>4, ConstructCounted
  <2>5. CASE \E c \in Conns : Joined(c)
    BY <2>1, <2>5, JoinedCounted
  <2>6. CASE \E c \in Conns : Socket(c)
    BY <2>1, <2>6, SocketCounted
  <2>7. CASE PushBack \/ Erase
    BY <2>1, <2>7, CellJobsCounted
  <2>8. CASE BroadcastImpl
    BY <2>1, <2>8, BroadcastCounted
  <2>9. CASE Update
    BY <2>1, <2>9, UpdateCounted
  <2>10. ASSUME NEW c \in Conns, RunDangling(c) PROVE Counted' /\ Recounted
    <3>1. UNCHANGED <<cellVars, m_counter, used>> /\ \A d \in Conns : Ptrs(d)' = Ptrs(d)
      BY <2>10, Dangles DEF poolVars, cellVars, socketVars, Ptrs, Started
    <3> QED BY <2>1, <3>1, QuietCounted
  <2> QED BY <1>2, <2>2, <2>3, <2>4, <2>5, <2>6, <2>7, <2>8, <2>9, <2>10, Steps DEF Manager
<1> QED BY <1>1, <1>2

-----------------------------------------------------------------------------
(* No counter is negative, as no Ptrs is. *)

LEMMA PtrsNat == Basis => \A c \in Conns : Ptrs(c) \in Nat
BY Counts

LEMMA PtrsThenNat == Basis' => (\A c \in Conns : Ptrs(c) \in Nat)'
BY PtrsNat, PTL

NonNegative == \A m \in Cells : m_counter[m] \in Nat

LEMMA NonNegativeNext == NonNegative /\ Basis' /\ Recounted => NonNegative'
<1> SUFFICES ASSUME NonNegative, Basis', Recounted PROVE NonNegative'
  OBVIOUS
<1>1. \A c \in Conns : Ptrs(c)' \in Nat
  BY PtrsThenNat
<1> QED BY <1>1 DEF NonNegative, Recounted

-----------------------------------------------------------------------------
(* The inductive invariant, and what follows from it. *)

IInv ==
  Basis /\ Joining /\ ReadsOnce /\ Watched /\ Tenants /\ Listed /\ DestroyedOnce
  /\ Counted /\ NonNegative

LEMMA InvInit == Init => IInv
<1>1. Init => NonNegative
  BY DEF Init, NonNegative
<1> QED BY <1>1, BasisInit, JoiningInit, ReadsOnceInit, WatchedInit, TenantsInit, DestroyedInit,
   CountedInit DEF IInv

LEMMA InvNext == IInv /\ [Next]_vars => IInv'
<1> SUFFICES ASSUME IInv, [Next]_vars PROVE IInv'
  OBVIOUS
<1>1. Basis' /\ Joining' /\ ReadsOnce'
  BY BasisNext, JoiningNext, ReadsOnceNext DEF IInv
<1>2. Watched' /\ Tenants' /\ Listed' /\ DestroyedOnce'
  BY WatchedNext, TenantsNext, ListedNext, DestroyedNext DEF IInv
<1>3. Counted' /\ Recounted
  BY CountedNext DEF IInv
<1>4. NonNegative'
  BY <1>1, <1>3, NonNegativeNext DEF IInv
<1> QED BY <1>1, <1>2, <1>3, <1>4 DEF IInv

\* The invariant of the server's sessions: each part of it holds in every
\* reachable state.
THEOREM Invariance == Spec => []IInv
BY InvInit, InvNext, PTL DEF Spec

\* The variables are well formed; the reference counters (intrusive_base.hpp) never
\* go below zero, whichever strand's handler is the one to drop a session_ptr.
THEOREM TypeCorrect == Spec => []TypeOK
<1>1. IInv => TypeOK
  <2> SUFFICES ASSUME IInv PROVE TypeOK
    OBVIOUS
  <2>1. ShapeOK /\ PP!TypeOK /\ NonNegative
    BY DEF IInv, Basis, PP!IInv
  <2>2. Pool!TypeOK
    BY <2>1 DEF PP!TypeOK, Pool!TypeOK, PP!Places, Pool!Places
  <2>3. m_counter \in [Cells -> Nat]
    BY <2>1 DEF ShapeOK, NonNegative
  <2> QED BY <2>1, <2>2, <2>3 DEF TypeOK, ShapeOK, Queues
<1> QED BY <1>1, Invariance, PTL

\* The counter of a session is the number of session_ptrs there are to it, and while
\* there is one its memory is not given back, destroyed or built over: nobody uses
\* a session through a session_ptr after its deleter (intrusive_ptr.hpp,
\* session_manager.hpp:47).
THEOREM RefCountExact == Spec => []RefCount
<1>1. IInv => RefCount
  BY DEF IInv, Counted, RefCount
<1> QED BY <1>1, Invariance, PTL

\* The list that broadcast_impl() walks never links memory whose session was erased
\* and destroyed, although the erase is posted long after the deleter began.
THEOREM ListedAreAlive == Spec => []ListedAlive
<1>1. IInv => ListedAlive
  BY DEF IInv, Listed, ListedAlive
<1> QED BY <1>1, Invariance, PTL

\* A session is destroyed by one erase, queued from when its last session_ptr goes
\* until it runs: the pool's memory, the manager's strand and the counter agree,
\* whichever of four kinds of strands the deleter runs on (session_manager.hpp:116).
THEOREM SessionsDestroyedOnce == Spec => []DestroyedOnce
<1>1. IInv => DestroyedOnce
  BY DEF IInv
<1> QED BY <1>1, Invariance, PTL

\* Where the code builds a session over another, it is one whose last session_ptr is
\* gone and whose erase is queued: the pool never hands out the memory of a session
\* that something still counts on (object_pool.hpp:86, session_manager.hpp:117).
OverDying ==
  \A c \in Conns : Construct(c) /\ tenant[obj["acceptor"]] # Nobody =>
    Times(mgr_strand, EraseOf(obj["acceptor"])) = 1

THEOREM BuiltOverTheDying == Spec => [][OverDying]_vars
<1>1. IInv /\ [Next]_vars => [OverDying]_vars
  <2> SUFFICES ASSUME IInv, Next, NEW c \in Conns, Construct(c), tenant[obj["acceptor"]] # Nobody
               PROVE  Times(mgr_strand, EraseOf(obj["acceptor"])) = 1
    BY DEF OverDying
  <2> DEFINE k == obj["acceptor"]
  <2>1. PP!IInv /\ DestroyedOnce /\ ended = "no" /\ "acceptor" \in Actors
    BY DEF IInv, Basis, Next, Actors, Services
  <2>2. k \in Cells
    BY <2>1, PoolTypes
  <2>3. pc["acceptor"] = "counting"
    BY DEF Construct, Pool!HandOut, Pool!Goes
  <2>4. k \in PP!InHand /\ used \cap PP!InHand = {}
    BY <2>1, <2>3 DEF PP!InHand, PP!At, PP!IInv, PP!Exclusive
  <2> QED BY <2>1, <2>2, <2>4 DEF DestroyedOnce, EraseOf, OneIf
<1> QED BY <1>1, Invariance, PTL DEF Spec

\* A session that reads has an armed timer, or an expiry or a stop on its strand: no
\* interleaving of lines, expiries and stops leaves one reading unwatched
\* (session.hpp, start_inactivity_timer() and on_readed()).
THEOREM WatchedWhileReading == Spec => []Watched
<1>1. IInv => Watched
  BY DEF IInv
<1> QED BY <1>1, Invariance, PTL

-----------------------------------------------------------------------------
(* The sessions' use of the pool. *)

\* The pool keeps what it promises when the server's strands are its threads: memory
\* is in one place at a time, and size() and in_use() are right.
THEOREM PoolKeepsItsWord == Spec => [](Pool!Exclusive /\ Pool!CountersExact)
<1>1. IInv => Pool!Exclusive /\ Pool!CountersExact
  <2> SUFFICES ASSUME IInv PROVE Pool!Exclusive /\ Pool!CountersExact
    OBVIOUS
  <2>1. PP!Exclusive /\ PP!CountersExact
    BY DEF IInv, Basis, PP!IInv
  <2> QED BY <2>1
       DEF PP!Exclusive, Pool!Exclusive, PP!StackedOnce, Pool!StackedOnce,
           PP!HeldByOne, Pool!HeldByOne, PP!CountersExact, Pool!CountersExact,
           PP!At, Pool!At, PP!Stacked, Pool!Stacked, PP!InHand, Pool!InHand,
           PP!Allocated, Pool!Allocated, PP!Cardinality, Pool!Cardinality
<1> QED BY <1>1, Invariance, PTL

LEMMA EndsMoves ==
  ASSUME Basis, NEW a \in Actors, NEW c, NEW n, NEW S, NEW J, Ends(a, c, n, S, J)
  PROVE  PoolMoves
<1>1. CASE Pool!Discard(a, cell[c])
  <2>1. cell[c] \in Cells
    BY <1>1, PoolTypes DEF Pool!Discard, Basis
  <2> QED BY <1>1, <2>1 DEF PoolMoves, PoolStep
<1> QED BY <1>1 DEF Ends, PoolMoves

LEMMA PoolUsed == Basis /\ [Next]_vars => PoolMoves
<1> SUFFICES ASSUME Basis, [Next]_vars PROVE PoolMoves
  OBVIOUS
<1>1. Services \subseteq Actors /\ Conns \subseteq Actors /\ \A x \in {"acceptor", "manager", "storage"} : x \in Actors
  BY DEF Actors, Services
<1>2. CASE GetCell \/ \E a \in Actors : Recycle(a)
  BY <1>1, <1>2 DEF GetCell, Recycle, PoolMoves, PoolStep
<1>3. ASSUME NEW c \in Conns, Accept(c) \/ Construct(c) PROVE PoolMoves
  BY <1>1, <1>3 DEF Accept, Construct, PoolMoves, PoolStep
<1>4. ASSUME NEW c \in Conns, Joined(c) PROVE PoolMoves
  <2>1. \E n, S, J : Ends("acceptor", c, n, S, J)
    BY <1>4 DEF Joined
  <2> QED BY <2>1, <1>1, EndsMoves
<1>5. ASSUME NEW c \in Conns, Socket(c) PROVE PoolMoves
  BY <1>5 DEF Socket, ReadCompletes, ReadFails, WriteEnds, TimerExpires, Leave, OnEvent, PoolMoves
<1>6. ASSUME NEW c \in Conns, Strand(c) PROVE PoolMoves
  <2>1. CASE StopImpl(c)
    BY <2>1 DEF StopImpl, PoolMoves
  <2>2. CASE ~StopImpl(c)
    <3>1. \E d, n, S, J : Ends(c, d, n, S, J)
      BY <1>6, <2>2 DEF Strand, StartImpl, ReadedError, ReadedLate, ReadedData, ReadedPing,
                        ReadedBad, OnTimeout, SendImpl, OnWrote
    <3> QED BY <3>1, <1>1, EndsMoves
  <2> QED BY <2>1, <2>2
<1>7. CASE PushBack \/ Erase
  BY <1>7 DEF PushBack, Erase, PoolMoves
<1>8. CASE BroadcastImpl
  <2>1. \E c, n, S, J : Ends("manager", c, n, S, J)
    BY <1>8 DEF BroadcastImpl
  <2> QED BY <2>1, <1>1, EndsMoves
<1>9. CASE Update
  <2>1. \E c, n, S, J : Ends("storage", c, n, S, J)
    BY <1>9 DEF Update
  <2> QED BY <2>1, <1>1, EndsMoves
<1>10. CASE UNCHANGED vars
  BY <1>10 DEF vars, PoolMoves
<1>11. ASSUME NEW c \in Conns, RunDangling(c) PROVE PoolMoves
  BY <1>11, Dangles DEF PoolMoves
<1> QED BY <1>2, <1>3, <1>4, <1>5, <1>6, <1>7, <1>8, <1>9, <1>10, <1>11, Steps DEF Manager

\* The two names of the pool, the modelled one and the proved one, are one.
LEMMA OneAllocator == PP!ImplementsAllocator => Pool!ImplementsAllocator
<1>0. /\ PP!Allocated = Pool!Allocated /\ PP!Returned = Pool!Returned
      /\ PP!Allocated' = Pool!Allocated' /\ PP!Returned' = Pool!Returned'
  BY DEF PP!Allocated, Pool!Allocated, PP!Returned, Pool!Returned, PP!Stacked, Pool!Stacked,
     PP!InHand, Pool!InHand, PP!At, Pool!At
<1>1. PP!AbstractAllocator!Init => Pool!AbstractAllocator!Init
  BY <1>0 DEF PP!AbstractAllocator!Init, Pool!AbstractAllocator!Init
<1>2. [PP!AbstractAllocator!Next]_(PP!AbstractAllocator!vars) => [Pool!AbstractAllocator!Next]_(Pool!AbstractAllocator!vars)
  BY <1>0 DEF PP!AbstractAllocator!Next, Pool!AbstractAllocator!Next,
     PP!AbstractAllocator!Make, Pool!AbstractAllocator!Make,
     PP!AbstractAllocator!Acquire, Pool!AbstractAllocator!Acquire,
     PP!AbstractAllocator!Release, Pool!AbstractAllocator!Release,
     PP!AbstractAllocator!vars, Pool!AbstractAllocator!vars
<1> QED BY <1>1, <1>2, PTL  DEF PP!ImplementsAllocator, Pool!ImplementsAllocator, PP!AbstractAllocator!Spec, Pool!AbstractAllocator!Spec

\* The sessions' memory, as the acceptor, the deleters and the strands use it, is
\* an allocator's (object_pool.hpp:44, session_manager.hpp:46): no step of the
\* server uses the pool in a way that the pool was not proved right for.
THEOREM SessionsImplementAllocator == Spec => Pool!ImplementsAllocator
<1>1. Init => PP!Init
  BY DEF Init, Pool!Init, PP!Init
<1>2. Basis /\ [Next]_vars => [PP!Next]_(PP!vars)
  BY PoolUsed, PoolAllows
<1>3. IInv => Basis
  BY DEF IInv
<1>4. Spec => PP!Spec
  BY <1>1, <1>2, <1>3, Invariance, PTL DEF Spec, PP!Spec
<1>5. PP!Spec => PP!ImplementsAllocator
  BY PoolConstants, PP!PoolRefines
<1> QED BY <1>4, <1>5, OneAllocator, PTL
=============================================================================
