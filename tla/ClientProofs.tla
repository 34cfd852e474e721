---------------------------- MODULE ClientProofs ----------------------------
(***************************************************************************)
(* Proofs about Client, for any bounds.  LinesInv follows one line: it is  *)
(* in the queue, then outstanding as the last that left the queue, then on *)
(* the connection at the place of its number, or failed and nothing is     *)
(* written behind it.                                                      *)
(***************************************************************************)
EXTENDS Client, SequenceTheorems, TLAPS

\* A queue that a line is put on, and one whose first is taken off.
LEMMA Behind ==
  ASSUME NEW S, NEW q \in Seq(S), NEW h \in S
  PROVE  /\ Append(q, h) \in Seq(S) /\ Len(Append(q, h)) = Len(q) + 1
         /\ DOMAIN q = 1..Len(q) /\ Len(q) \in Nat
         /\ DOMAIN Append(q, h) = 1..Len(q) + 1
         /\ Append(q, h)[Len(q) + 1] = h
         /\ \A i \in 1..Len(q) : Append(q, h)[i] = q[i]
         /\ Append(q, h) # <<>>
<1>1. /\ DOMAIN q = 1..Len(q) /\ Len(q) \in Nat
      /\ Append(q, h) \in Seq(S) /\ Len(Append(q, h)) = Len(q) + 1
      /\ Append(q, h)[Len(q) + 1] = h
      /\ \A i \in 1..Len(q) : Append(q, h)[i] = q[i]
  BY AppendProperties, LenProperties
<1> QED BY <1>1, LenProperties, EmptySeq

LEMMA Without ==
  ASSUME NEW S, NEW q \in Seq(S), q # <<>>
  PROVE  /\ Tail(q) \in Seq(S) /\ Len(Tail(q)) = Len(q) - 1 /\ Len(q) \in Nat \ {0}
         /\ Head(q) = q[1] /\ Head(q) \in S
         /\ \A i \in 1..Len(q) - 1 : Tail(q)[i] = q[i + 1]
  BY HeadTailProperties, EmptySeq, LenProperties

\* RemoveAt() drops one element and moves those behind it.
LEMMA Removed ==
  ASSUME NEW S, NEW q \in Seq(S), NEW i \in 1..Len(q)
  PROVE  /\ RemoveAt(q, i) \in Seq(S) /\ Len(RemoveAt(q, i)) = Len(q) - 1
         /\ \A k \in 1..Len(q) - 1 :
              RemoveAt(q, i)[k] = q[IF k < i THEN k ELSE k + 1]
<1>1. Len(q) \in Nat
  BY LenProperties
<1> DEFINE before == SubSeq(q, 1, i - 1)
           after == SubSeq(q, i + 1, Len(q))
<1>2. /\ before \in Seq(S) /\ Len(before) = i - 1
      /\ \A k \in 1..i - 1 : before[k] = q[k]
  BY <1>1, SubSeqProperties
<1>3. /\ after \in Seq(S) /\ Len(after) = Len(q) - i
      /\ \A k \in 1..Len(q) - i : after[k] = q[i + k]
  BY <1>1, SubSeqProperties
<1> HIDE DEF before, after
<1>4. /\ before \o after \in Seq(S) /\ Len(before \o after) = Len(q) - 1
      /\ \A k \in 1..Len(q) - 1 : (before \o after)[k] = q[IF k < i THEN k ELSE k + 1]
  <2>1. /\ before \o after \in Seq(S) /\ Len(before \o after) = Len(before) + Len(after)
        /\ \A k \in 1..Len(before) + Len(after) : (before \o after)[k] =
             IF k <= Len(before) THEN before[k] ELSE after[k - Len(before)]
    BY <1>2, <1>3, ConcatProperties
  <2>2. ASSUME NEW k \in 1..Len(q) - 1, k < i
        PROVE  (before \o after)[k] = q[k]
    BY <1>1, <1>2, <1>3, <2>1, <2>2
  <2>3. ASSUME NEW k \in 1..Len(q) - 1, ~(k < i)
        PROVE  (before \o after)[k] = q[k + 1]
    <3>1. k - Len(before) \in 1..Len(q) - i /\ i + (k - Len(before)) = k + 1
      BY <1>1, <1>2, <2>3
    <3>2. (before \o after)[k] = after[k - Len(before)]
      BY <1>1, <1>2, <1>3, <2>1, <2>3
    <3> QED BY <1>3, <3>1, <3>2
  <2> QED BY <1>1, <1>2, <1>3, <2>1, <2>2, <2>3
<1> QED BY <1>4 DEF RemoveAt, before, after

\* A sequence over a set is one over any larger set.
LEMMA Wider ==
  ASSUME NEW S, NEW T, S \subseteq T, NEW q \in Seq(S)
  PROVE  q \in Seq(T)
<1>1. Len(q) \in Nat /\ q \in [1..Len(q) -> S]
  BY LenProperties
<1>2. q \in [1..Len(q) -> T]
  BY <1>1
<1> QED BY <1>1, <1>2, SeqDef

\* A line put behind those before it.
LEMMA Pushed ==
  ASSUME NEW n \in Nat, NEW q \in Seq(1..n)
  PROVE  /\ Append(q, n + 1) \in Seq(1..n + 1) /\ Len(Append(q, n + 1)) = Len(q) + 1
         /\ Append(q, n + 1) # <<>> /\ Append(q, n + 1)[Len(q) + 1] = n + 1
         /\ \A i \in 1..Len(q) : Append(q, n + 1)[i] = q[i]
<1> DEFINE T == 1..n + 1
           h == n + 1
<1>1. 1..n \subseteq T /\ h \in T
  OBVIOUS
<1> HIDE DEF T, h
<1>2. q \in Seq(T)
  BY <1>1, Wider
<1>3. /\ Append(q, h) \in Seq(T) /\ Len(Append(q, h)) = Len(q) + 1
      /\ Append(q, h) # <<>> /\ Append(q, h)[Len(q) + 1] = h
      /\ \A i \in 1..Len(q) : Append(q, h)[i] = q[i]
  BY <1>1, <1>2, Behind
<1> QED BY <1>3 DEF T, h

-----------------------------------------------------------------------------
(* The lines *)

Outcomes == {"pending", "written", "failed"}

\* Where a write that is begun may still succeed, and where one that was begun
\* may still be outstanding alone.
Live == {"connecting", "linked", "open"}
Unstopped == Live \cup {"lost"}

Outstanding(i) == writes[i].st = "pending"
Idle == \A i \in DOMAIN writes : ~Outstanding(i)

\* How many lines have left the queue.
Left == sent - Len(queue)

OutputOK ==
  /\ sock \in Sockets /\ on_write \in BOOLEAN
  /\ sent \in Nat /\ done \in Nat
  /\ queue \in Seq(1..sent) /\ wire \in Seq(1..sent)
  /\ writes \in Seq([line : 1..sent, st : Outcomes])

\* The queue holds the last lines, in order.
QueueInOrder == \A i \in 1..Len(queue) : queue[i] = Left + i

\* Until stop(), a write is begun when the one before it is over; one that is
\* outstanding is the last line that left the queue, and all before it were written.
OneBegun ==
  /\ sock \in Unstopped => Len(writes) <= 1 /\ (writes # <<>> => on_write)
  /\ \A i \in DOMAIN writes : Outstanding(i) =>
       Len(writes) = 1 /\ on_write /\ writes[i].line = Left /\ Len(wire) = Left - 1

\* While the connection may still be used, what left the queue is written or
\* outstanding.
AllWritten == sock \in Live /\ Idle => Len(wire) = Left

LinesInv ==
  OutputOK /\ NothingStuck /\ QueueInOrder /\ OneBegun /\ AllWritten /\ InOrder

LEMMA Begun ==
  ASSUME NEW n
  PROVE  /\ Begin(n) \in [line : {n}, st : Outcomes] /\ Begin(n).line = n
         /\ Begin(n).st = "pending" <=> sock \in Live
BY DEF Begin, Write, Outcomes, Live, Connections

LEMMA Lengths ==
  ASSUME OutputOK
  PROVE  /\ Len(queue) \in Nat /\ Len(writes) \in Nat /\ Len(wire) \in Nat
         /\ DOMAIN queue = 1..Len(queue) /\ DOMAIN writes = 1..Len(writes)
         /\ DOMAIN wire = 1..Len(wire)
         /\ (queue = <<>> <=> Len(queue) = 0) /\ (writes = <<>> <=> Len(writes) = 0)
BY LenProperties, EmptySeq DEF OutputOK

\* send(): with a write outstanding or about to be completed the line waits.
LEMMA SendWaits ==
  ASSUME LinesInv, Send, on_write, UNCHANGED <<sock, wire, done>>
  PROVE  LinesInv'
<1> USE Lengths DEF LinesInv
<1>1. /\ sent' = sent + 1 /\ on_write' = TRUE /\ writes' = writes
      /\ queue' = Append(queue, sent + 1)
  BY DEF Send, Push
<1>2. /\ queue \in Seq(1..sent') /\ wire \in Seq(1..sent')
      /\ writes \in Seq([line : 1..sent', st : Outcomes])
  <2>1. 1..sent \subseteq 1..sent' /\
        [line : 1..sent, st : Outcomes] \subseteq [line : 1..sent', st : Outcomes]
    BY <1>1 DEF OutputOK
  <2> QED BY <2>1, Wider DEF OutputOK
<1>3. /\ queue' \in Seq(1..sent') /\ Len(queue') = Len(queue) + 1 /\ queue' # <<>>
      /\ queue'[Len(queue) + 1] = sent + 1
      /\ \A i \in 1..Len(queue) : queue'[i] = queue[i]
  <2>1. sent + 1 \in 1..sent'
    BY <1>1 DEF OutputOK
  <2> QED BY <1>1, <1>2, <2>1, Behind
<1>4. Left' = Left /\ Left \in Int
  BY <1>1, <1>3 DEF Left, OutputOK
<1>5. OutputOK'
  BY <1>1, <1>2, <1>3 DEF OutputOK
<1>6. NothingStuck'
  BY <1>1, <1>3 DEF NothingStuck, OutputOK
<1>7. QueueInOrder'
  <2> SUFFICES ASSUME NEW i \in 1..Len(queue) + 1 PROVE queue'[i] = Left + i
    BY <1>3, <1>4 DEF QueueInOrder
  <2>1. CASE i = Len(queue) + 1
    BY <2>1, <1>3 DEF Left, OutputOK
  <2>2. CASE i # Len(queue) + 1
    BY <2>2, <1>3 DEF QueueInOrder
  <2> QED BY <2>1, <2>2
<1>8. OneBegun' /\ AllWritten' /\ InOrder'
  BY <1>1, <1>4 DEF OneBegun, AllWritten, InOrder, Idle, Outstanding
<1> QED BY <1>5, <1>6, <1>7, <1>8

\* send() otherwise: the first of the queue is begun.
LEMMA SendBegins ==
  ASSUME LinesInv, Send, ~on_write, UNCHANGED <<sock, wire, done>>
  PROVE  LinesInv'
<1> USE Lengths DEF LinesInv
<1> DEFINE pushed == Append(queue, sent + 1)
<1>1. /\ sent' = sent + 1 /\ on_write' = TRUE
      /\ queue' = Tail(pushed) /\ writes' = Append(writes, Begin(Head(pushed)))
  BY DEF Send, Push
<1>2. /\ queue \in Seq(1..sent') /\ wire \in Seq(1..sent')
      /\ writes \in Seq([line : 1..sent', st : Outcomes])
  <2>1. 1..sent \subseteq 1..sent' /\
        [line : 1..sent, st : Outcomes] \subseteq [line : 1..sent', st : Outcomes]
    BY <1>1 DEF OutputOK
  <2> QED BY <2>1, Wider DEF OutputOK
<1>3. /\ pushed \in Seq(1..sent') /\ Len(pushed) = Len(queue) + 1 /\ pushed # <<>>
      /\ pushed[Len(queue) + 1] = sent + 1
      /\ \A i \in 1..Len(queue) : pushed[i] = queue[i]
  BY <1>1, Pushed DEF OutputOK
<1>4. \A i \in 1..Len(pushed) : pushed[i] = Left + i
  BY <1>3 DEF QueueInOrder, Left, OutputOK
<1> HIDE DEF pushed
<1>5. /\ queue' \in Seq(1..sent') /\ Len(queue') = Len(queue)
      /\ Head(pushed) = pushed[1] /\ Head(pushed) \in 1..sent'
      /\ \A i \in 1..Len(queue) : queue'[i] = pushed[i + 1]
  BY <1>1, <1>3, Without
<1>6. Left' = Left + 1 /\ Head(pushed) = Left + 1 /\ Left \in Int
  <2>1. Len(queue) \in Nat /\ Left = sent - Len(queue) /\ Left' = sent' - Len(queue')
    BY DEF Left
  <2>2. Left' = Left + 1 /\ Left \in Int
    BY <1>1, <1>5, <2>1 DEF OutputOK
  <2>3. pushed[1] = Left + 1
    BY <1>3, <1>4
  <2> QED BY <1>5, <2>2, <2>3
<1> DEFINE new == Begin(Head(pushed))
<1>7. /\ new \in [line : 1..sent', st : Outcomes] /\ new.line = Left + 1
      /\ new.st = "pending" <=> sock \in Live
  BY <1>5, <1>6, Begun
<1> HIDE DEF new
<1>8. /\ writes' \in Seq([line : 1..sent', st : Outcomes])
      /\ Len(writes') = Len(writes) + 1 /\ writes' # <<>>
      /\ DOMAIN writes' = 1..Len(writes) + 1
      /\ writes'[Len(writes) + 1] = new
      /\ \A i \in 1..Len(writes) : writes'[i] = writes[i]
  <2> DEFINE S == [line : 1..sent', st : Outcomes]
  <2>1. writes \in Seq(S) /\ new \in S /\ writes' = Append(writes, new)
    BY <1>1, <1>2, <1>7 DEF new
  <2> HIDE DEF S
  <2>2. /\ writes' \in Seq(S) /\ Len(writes') = Len(writes) + 1 /\ writes' # <<>>
        /\ DOMAIN writes' = 1..Len(writes) + 1
        /\ writes'[Len(writes) + 1] = new
        /\ \A i \in 1..Len(writes) : writes'[i] = writes[i]
    BY ONLY <2>1, Behind
  <2> QED BY <2>2 DEF S
<1>9. Idle
  BY DEF OneBegun, Idle
<1>10. sock \in Unstopped => Len(writes) = 0
  BY DEF OneBegun
<1>11. OutputOK'
  BY <1>1, <1>2, <1>5, <1>8 DEF OutputOK
<1>12. NothingStuck'
  <2>1. sent = done + Len(writes) + Len(queue)
    BY DEF NothingStuck
  <2>2. sent' = done' + Len(writes') + Len(queue')
    <3>1. /\ sent \in Nat /\ done \in Nat /\ done' = done
          /\ Len(writes) \in Nat /\ Len(queue) \in Nat
      BY DEF OutputOK
    <3>2. /\ sent' = sent + 1 /\ Len(writes') = Len(writes) + 1
          /\ Len(queue') = Len(queue)
      BY <1>1, <1>5, <1>8
    <3>3. sent + 1 = done + (Len(writes) + 1) + Len(queue)
      BY <2>1, <3>1
    <3> QED BY <3>1, <3>2, <3>3
  <2> QED BY <1>8, <2>2 DEF NothingStuck
<1>13. QueueInOrder'
  <2> SUFFICES ASSUME NEW i \in 1..Len(queue) PROVE queue'[i] = Left' + i
    BY <1>5 DEF QueueInOrder
  <2>1. i + 1 \in 1..Len(pushed)
    BY <1>3
  <2> QED BY <2>1, <1>4, <1>5, <1>6
<1>14. \A i \in DOMAIN writes' : writes'[i].st = "pending" =>
         i = Len(writes) + 1 /\ sock \in Live
  BY <1>7, <1>8, <1>9 DEF Idle, Outstanding
<1>15. OneBegun'
  <2>1. sock' \in Unstopped => Len(writes') <= 1
    BY <1>8, <1>10
  <2>2. ASSUME NEW i \in DOMAIN writes', writes'[i].st = "pending"
        PROVE  Len(writes') = 1 /\ writes'[i].line = Left' /\ Len(wire') = Left' - 1
    <3>1. i = Len(writes) + 1 /\ sock \in Live /\ sock \in Unstopped
      BY <1>14, <2>2 DEF Unstopped
    <3>2. Len(wire) = Left
      BY <1>9, <3>1 DEF AllWritten
    <3> QED BY <1>6, <1>7, <1>8, <1>10, <3>1, <3>2
  <2> QED BY <1>1, <2>1, <2>2 DEF OneBegun, Outstanding
<1>16. AllWritten'
  BY <1>7, <1>8 DEF AllWritten, Idle, Outstanding
<1>17. InOrder'
  BY DEF InOrder
<1> QED BY <1>11, <1>12, <1>13, <1>15, <1>16, <1>17

LEMMA SendKeeps ==
  ASSUME LinesInv, Send, UNCHANGED <<sock, wire, done>>
  PROVE  LinesInv'
BY SendWaits, SendBegins

\* A completion: no write is outstanding any more, and the next is begun.
LEMMA OnSentKeeps ==
  ASSUME LinesInv, NEW i \in DOMAIN writes, OnSent(i)
  PROVE  LinesInv'
<1> USE Lengths DEF LinesInv
<1> DEFINE S == [line : 1..sent, st : Outcomes]
           rest == RemoveAt(writes, i)
<1>1. /\ ~Outstanding(i) /\ done' = done + 1
      /\ sock' = sock /\ sent' = sent /\ wire' = wire
  BY DEF OnSent, Outstanding
<1>2. Idle
  BY <1>1 DEF OneBegun, Idle
<1>3. i \in 1..Len(writes) /\ writes # <<>> /\ Len(writes) \in Nat \ {0}
  OBVIOUS
<1>4. writes \in Seq(S)
  BY DEF OutputOK
<1> HIDE DEF S
<1>5. /\ rest \in Seq(S) /\ Len(rest) = Len(writes) - 1
      /\ \A k \in 1..Len(writes) - 1 :
           rest[k] = writes[IF k < i THEN k ELSE k + 1]
  BY <1>3, <1>4, Removed
<1> HIDE DEF rest
<1>6. \A k \in 1..Len(rest) : rest[k].st # "pending"
  BY <1>2, <1>3, <1>5 DEF Idle, Outstanding
<1>7. sock \in Unstopped => Len(writes) = 1 /\ on_write
  BY <1>3 DEF OneBegun
<1>8. sent = done + Len(writes) + Len(queue)
  BY DEF NothingStuck
<1>9. /\ sent \in Nat /\ done \in Nat /\ Left = sent - Len(queue)
  BY DEF OutputOK, Left
<1>10. CASE queue = <<>>
  <2>1. writes' = rest /\ on_write' = FALSE /\ queue' = queue
    BY <1>10 DEF OnSent, rest
  <2>2. Left' = Left
    BY <1>1, <2>1 DEF Left
  <2>3. OutputOK'
    <3>1. writes' \in Seq([line : 1..sent', st : Outcomes])
      BY <1>1, <1>5, <2>1 DEF S
    <3>2. on_write' \in BOOLEAN
      BY ONLY <2>1, Zenon
    <3>3. /\ sock' \in Sockets /\ sent' \in Nat /\ done' \in Nat
          /\ queue' \in Seq(1..sent') /\ wire' \in Seq(1..sent')
      BY <1>1, <2>1 DEF OutputOK
    <3> QED BY <3>1, <3>2, <3>3 DEF OutputOK
  <2>4. NothingStuck'
    <3>1. Len(writes') = Len(writes) - 1 /\ Len(queue') = Len(queue)
      BY <1>5, <2>1
    <3>2. sent' = done' + Len(writes') + Len(queue')
      BY <1>1, <1>3, <1>8, <1>9, <3>1
    <3> QED BY <1>10, <2>1, <3>2 DEF NothingStuck
  <2>5. DOMAIN writes' = 1..Len(rest)
    BY <1>5, <2>1, LenProperties
  <2>6. Idle'
    BY <1>6, <2>1, <2>5 DEF Idle, Outstanding
  <2>7. sock' \in Unstopped => writes' = <<>> /\ Len(writes') <= 1
    <3>1. Len(rest) = 0 => rest = <<>>
      BY <1>5, EmptySeq
    <3> QED BY <1>1, <1>5, <1>7, <2>1, <3>1
  <2>8. OneBegun'
    BY <2>6, <2>7 DEF OneBegun, Idle
  <2>9. QueueInOrder' /\ AllWritten' /\ InOrder'
    BY <1>1, <1>2, <2>1, <2>2 DEF QueueInOrder, AllWritten, InOrder
  <2> QED BY <2>3, <2>4, <2>8, <2>9
<1>11. CASE queue # <<>>
  <2> DEFINE new == Begin(Head(queue))
  <2>1. /\ writes' = Append(rest, new) /\ queue' = Tail(queue)
        /\ on_write' = on_write
    BY <1>11 DEF OnSent, rest
  <2>2. /\ queue' \in Seq(1..sent) /\ Len(queue') = Len(queue) - 1
        /\ Len(queue) \in Nat \ {0} /\ Head(queue) = queue[1]
        /\ Head(queue) \in 1..sent
        /\ \A k \in 1..Len(queue) - 1 : queue'[k] = queue[k + 1]
    BY <1>11, <2>1, Without DEF OutputOK
  <2>3. Left' = Left + 1 /\ Left \in Int
    BY <1>1, <1>9, <2>2 DEF Left
  <2>4. Head(queue) = Left + 1
    BY <2>2 DEF QueueInOrder
  <2>5. /\ new \in S /\ new.line = Left + 1
        /\ new.st = "pending" <=> sock \in Live
    BY <2>2, <2>4, Begun DEF S
  <2> HIDE DEF new
  <2>6. /\ writes' \in Seq(S) /\ Len(writes') = Len(rest) + 1
        /\ writes' # <<>> /\ DOMAIN writes' = 1..Len(rest) + 1
        /\ writes'[Len(rest) + 1] = new
        /\ \A k \in 1..Len(rest) : writes'[k] = rest[k]
    BY ONLY <1>5, <2>1, <2>5, Behind
  <2>7. Len(rest) + 1 = Len(writes)
    BY <1>3, <1>5
  <2>8. OutputOK'
    BY <1>1, <1>9, <2>1, <2>2, <2>6 DEF OutputOK, S
  <2>9. NothingStuck'
    <3>1. sent' = done' + Len(writes') + Len(queue')
      <4>1. /\ Len(writes') = Len(writes) /\ Len(queue') = Len(queue) - 1
            /\ Len(writes) \in Nat /\ Len(queue) \in Nat
        BY <2>2, <2>6, <2>7
      <4> QED BY ONLY <1>1, <1>8, <1>9, <4>1
    <3> QED BY <2>6, <3>1 DEF NothingStuck
  <2>10. QueueInOrder'
    <3> SUFFICES ASSUME NEW k \in 1..Len(queue) - 1 PROVE queue'[k] = Left' + k
      BY <2>2 DEF QueueInOrder
    <3>1. k + 1 \in 1..Len(queue)
      BY <2>2
    <3>2. queue[k + 1] = Left + (k + 1)
      BY <3>1 DEF QueueInOrder
    <3> QED BY <2>2, <2>3, <3>2
  <2>11. \A k \in DOMAIN writes' : writes'[k].st = "pending" =>
           k = Len(rest) + 1 /\ sock \in Live
    BY <1>6, <2>5, <2>6
  <2>12. OneBegun'
    <3>1. sock' \in Unstopped => Len(writes') <= 1 /\ on_write'
      BY <1>1, <1>7, <2>1, <2>6, <2>7
    <3>2. ASSUME NEW k \in DOMAIN writes', writes'[k].st = "pending"
          PROVE  /\ Len(writes') = 1 /\ on_write' /\ writes'[k].line = Left'
                 /\ Len(wire') = Left' - 1
      <4>1. k = Len(rest) + 1 /\ sock \in Live /\ sock \in Unstopped
        BY <2>11, <3>2 DEF Unstopped
      <4>2. Len(wire) = Left
        BY <1>2, <4>1 DEF AllWritten
      <4> QED BY <1>1, <1>7, <2>1, <2>3, <2>5, <2>6, <2>7, <4>1, <4>2
    <3> QED BY <3>1, <3>2 DEF OneBegun, Outstanding
  <2>13. AllWritten'
    BY <1>1, <2>5, <2>6 DEF AllWritten, Idle, Outstanding
  <2>14. InOrder'
    BY <1>1 DEF InOrder
  <2> QED BY <2>8, <2>9, <2>10, <2>12, <2>13, <2>14
<1> QED BY <1>10, <1>11

\* The kernel writes the outstanding line: its place on the connection is its number.
LEMMA WrittenKeeps ==
  ASSUME LinesInv, NEW i \in DOMAIN writes, Written(i)
  PROVE  LinesInv'
<1> USE Lengths DEF LinesInv
<1>1. /\ writes[i].st = "pending" /\ sock \in Connections
      /\ writes' = [writes EXCEPT ![i].st = "written"]
      /\ wire' = Append(wire, writes[i].line)
      /\ sock' = sock /\ queue' = queue /\ on_write' = on_write
      /\ sent' = sent /\ done' = done
  BY DEF Written
<1>2. /\ Len(writes) = 1 /\ on_write /\ writes[i].line = Left /\ Len(wire) = Left - 1
  BY <1>1 DEF OneBegun, Outstanding
<1>3. i = 1 /\ DOMAIN writes = {1}
  BY <1>2
<1>4. /\ writes[i] \in [line : 1..sent, st : Outcomes] /\ writes[i].line \in 1..sent
  <2> DEFINE S == [line : 1..sent, st : Outcomes]
  <2>1. writes \in Seq(S)
    BY DEF OutputOK
  <2> HIDE DEF S
  <2>2. writes[i] \in S
    BY <2>1, ElementOfSeq
  <2> QED BY <2>2 DEF S
<1>5. /\ writes' \in Seq([line : 1..sent, st : Outcomes]) /\ Len(writes') = 1
      /\ DOMAIN writes' = {1} /\ writes'[1].st = "written"
  <2>1. [writes[i] EXCEPT !.st = "written"] \in [line : 1..sent, st : Outcomes]
    BY <1>4 DEF Outcomes
  <2>2. writes' = [writes EXCEPT ![i] = [writes[i] EXCEPT !.st = "written"]]
    BY <1>1
  <2>3. /\ writes' \in Seq([line : 1..sent, st : Outcomes]) /\ Len(writes') = Len(writes)
    BY <1>2, <1>3, <2>1, <2>2, ExceptSeq DEF OutputOK
  <2> QED BY <1>2, <1>3, <2>2, <2>3, LenProperties
<1>6. /\ wire' \in Seq(1..sent) /\ Len(wire') = Len(wire) + 1
      /\ DOMAIN wire' = 1..Len(wire) + 1 /\ wire'[Len(wire) + 1] = Left
      /\ \A k \in 1..Len(wire) : wire'[k] = wire[k]
  <2> DEFINE T == 1..sent
  <2>1. wire \in Seq(T) /\ writes[i].line \in T
    BY <1>4 DEF OutputOK
  <2> HIDE DEF T
  <2>2. /\ wire' \in Seq(T) /\ Len(wire') = Len(wire) + 1
        /\ DOMAIN wire' = 1..Len(wire) + 1
        /\ wire'[Len(wire) + 1] = writes[i].line
        /\ \A k \in 1..Len(wire) : wire'[k] = wire[k]
    BY <1>1, <2>1, Behind
  <2> QED BY <1>2, <2>2 DEF T
<1>7. Left' = Left /\ Left \in Int
  BY <1>1 DEF Left, OutputOK
<1>8. OutputOK'
  BY <1>1, <1>5, <1>6 DEF OutputOK
<1>9. NothingStuck'
  BY <1>1, <1>2, <1>5, EmptySeq DEF NothingStuck
<1>10. QueueInOrder'
  BY <1>1, <1>7 DEF QueueInOrder
<1>11. OneBegun'
  BY <1>1, <1>2, <1>5 DEF OneBegun, Outstanding
<1>12. AllWritten'
  BY <1>2, <1>6, <1>7 DEF AllWritten
<1>13. InOrder'
  BY <1>2, <1>6, <1>7 DEF InOrder
<1> QED BY <1>8, <1>9, <1>10, <1>11, <1>12, <1>13

\* The kernel cannot write it: nothing is written from then on.
LEMMA NotWrittenKeeps ==
  ASSUME LinesInv, NEW i \in DOMAIN writes, NotWritten(i)
  PROVE  LinesInv'
<1> USE Lengths DEF LinesInv
<1>1. /\ writes[i].st = "pending" /\ sock \in {"lost", "unconnected"}
      /\ writes' = [writes EXCEPT ![i].st = "failed"] /\ wire' = wire
      /\ sock' = sock /\ queue' = queue /\ on_write' = on_write
      /\ sent' = sent /\ done' = done
  BY DEF NotWritten, history
<1>2. Len(writes) = 1 /\ on_write
  BY <1>1 DEF OneBegun, Outstanding
<1>3. i = 1 /\ DOMAIN writes = {1}
  BY <1>2
<1>4. writes[i] \in [line : 1..sent, st : Outcomes]
  BY <1>2, <1>3, ElementOfSeq DEF OutputOK
<1>5. /\ writes' \in Seq([line : 1..sent, st : Outcomes]) /\ Len(writes') = 1
      /\ DOMAIN writes' = {1} /\ writes'[1].st = "failed"
  <2>1. [writes[i] EXCEPT !.st = "failed"] \in [line : 1..sent, st : Outcomes]
    BY <1>4 DEF Outcomes
  <2>2. writes' = [writes EXCEPT ![i] = [writes[i] EXCEPT !.st = "failed"]]
    BY <1>1
  <2>3. /\ writes' \in Seq([line : 1..sent, st : Outcomes]) /\ Len(writes') = Len(writes)
    BY <1>2, <1>3, <2>1, <2>2, ExceptSeq DEF OutputOK
  <2> QED BY <1>2, <1>3, <2>2, <2>3, LenProperties
<1>6. Left' = Left
  BY <1>1 DEF Left
<1>7. OutputOK' /\ QueueInOrder' /\ InOrder'
  BY <1>1, <1>5, <1>6 DEF OutputOK, QueueInOrder, InOrder
<1>8. NothingStuck'
  BY <1>1, <1>2, <1>5, EmptySeq DEF NothingStuck
<1>9. OneBegun' /\ AllWritten'
  BY <1>1, <1>2, <1>5 DEF OneBegun, AllWritten, Outstanding, Live
<1> QED BY <1>7, <1>8, <1>9

\* stop(): what was outstanding has failed, and the socket writes no more.
LEMMA StopKeeps ==
  ASSUME LinesInv, NEW read, Stop(read), UNCHANGED <<queue, sent, wire, done>>
  PROVE  LinesInv'
<1> USE Lengths DEF LinesInv
<1>1. CASE UNCHANGED <<sock, on_write, writes>>
  <2>1. Left' = Left
    BY DEF Left
  <2> QED BY <1>1, <2>1 DEF OutputOK, NothingStuck, QueueInOrder, OneBegun,
                        AllWritten, InOrder, Idle, Outstanding
<1>2. CASE /\ sock' \in {"closed", "dropped", "unconnected"} /\ on_write' = FALSE
           /\ writes' = [i \in DOMAIN writes |->
                IF writes[i].st = "pending" THEN Write(writes[i].line, "failed")
                                            ELSE writes[i]]
  <2> DEFINE S == [line : 1..sent, st : Outcomes]
             failed(w) == IF w.st = "pending" THEN Write(w.line, "failed") ELSE w
  <2>1. \A w \in S : failed(w) \in S /\ failed(w).st # "pending"
    BY DEF Write, Outcomes
  <2>2. writes \in Seq(S) /\ writes \in [1..Len(writes) -> S]
    BY LenProperties DEF OutputOK
  <2>3. writes' = [i \in 1..Len(writes) |-> failed(writes[i])]
    BY <1>2
  <2> HIDE DEF S, failed
  <2>4. writes' \in [1..Len(writes) -> S]
    BY <2>1, <2>2, <2>3
  <2>5. writes' \in Seq(S) /\ Len(writes') = Len(writes) /\ DOMAIN writes' = 1..Len(writes)
    BY <2>4, SeqDef, LenProperties
  <2>6. Idle'
    BY <2>1, <2>2, <2>3, <2>5 DEF Idle, Outstanding
  <2>7. Left' = Left
    BY DEF Left
  <2>8. OutputOK'
    BY <1>2, <2>5 DEF OutputOK, S, Sockets
  <2>9. NothingStuck'
    BY <1>2, <2>5, EmptySeq DEF NothingStuck
  <2>10. OneBegun'
    BY <1>2, <2>6 DEF OneBegun, Idle, Unstopped, Live
  <2>11. QueueInOrder' /\ AllWritten' /\ InOrder'
    BY <1>2, <2>7 DEF QueueInOrder, AllWritten, InOrder, Live
  <2> QED BY <2>8, <2>9, <2>10, <2>11
<1> QED BY <1>1, <1>2 DEF Stop

\* A step of the socket alone: it may be gone, never back.
LEMMA SocketKeeps ==
  ASSUME LinesInv, UNCHANGED <<queue, on_write, writes, sent, wire, done>>,
         sock' \in Sockets, sock' \in Unstopped => sock \in Unstopped,
         sock' \in Live => sock \in Live
  PROVE  LinesInv'
<1>1. Left' = Left
  BY DEF Left
<1> QED BY <1>1 DEF LinesInv, OutputOK, NothingStuck, QueueInOrder, OneBegun,
                AllWritten, InOrder, Idle, Outstanding

-----------------------------------------------------------------------------
(* The timers *)

LEMMA Timer ==
  ASSUME NEW waits \in [Waits -> Nat]
  PROVE  /\ Cancelled(waits) \in [Waits -> Nat] /\ Rearmed(waits) \in [Waits -> Nat]
         /\ Cancelled(waits)["armed"] = 0 /\ Rearmed(waits)["armed"] = 1
         /\ Cancelled(waits)["expired"] = waits["expired"]
         /\ Rearmed(waits)["expired"] = waits["expired"]
         /\ Cancelled(waits)["aborted"] = waits["aborted"] + waits["armed"]
         /\ Rearmed(waits)["aborted"] = waits["aborted"] + waits["armed"]
BY DEF Cancelled, Rearmed, Waits

LEMMA Fewer ==
  ASSUME NEW waits \in [Waits -> Nat], NEW w \in Waits, waits[w] > 0
  PROVE  [waits EXCEPT ![w] = @ - 1] \in [Waits -> Nat]
OBVIOUS

\* The sockets on which on_connected() has run, and the others.
Started == {"open", "lost", "closed"}

\* No ping is begun before on_connected(), which starts the only chain.
PingInv ==
  /\ ping \in [Waits -> Nat]
  /\ OnePing
  /\ sock \notin Started => Pending(ping) + ping["aborted"] = 0

RestOK ==
  /\ reading \in Commands \cup {"none", "waiting", "error"}
  /\ timeout \in [Waits -> Nat]
  /\ stdin \in {"reading", "ended"} /\ over \in BOOLEAN
  /\ typed \in Nat /\ pings \in Nat /\ reads \in Nat

IInv == LinesInv /\ PingInv /\ RestOK

LEMMA PingKeeps ==
  ASSUME PingInv, UNCHANGED <<ping, stdin>>, sock' \in Started <=> sock \in Started
  PROVE  PingInv'
BY DEF PingInv, OnePing, Pending, Started

LEMMA InitHolds ==
  ASSUME Init
  PROVE  IInv
<1>1. /\ <<>> \in Seq(1..sent) /\ <<>> \in Seq([line : 1..sent, st : Outcomes])
      /\ Len(<<>>) = 0 /\ DOMAIN <<>> = {}
  <2>1. \A S : <<>> \in Seq(S) /\ Len(<<>>) = 0 /\ DOMAIN <<>> = 1..Len(<<>>)
    BY EmptySeq, LenProperties
  <2> QED BY <2>1
<1>2. OutputOK
  BY <1>1 DEF Init, OutputOK, Sockets
<1>3. NothingStuck /\ QueueInOrder /\ OneBegun /\ AllWritten /\ InOrder
  <2>1. /\ Len(queue) = 0 /\ Len(writes) = 0 /\ Len(wire) = 0
        /\ DOMAIN writes = {} /\ DOMAIN wire = {}
        /\ queue = <<>> /\ writes = <<>> /\ sent = 0 /\ done = 0
    BY <1>1 DEF Init
  <2>2. NothingStuck
    BY <2>1 DEF Init, NothingStuck
  <2>3. QueueInOrder /\ OneBegun /\ InOrder
    BY <2>1 DEF QueueInOrder, OneBegun, InOrder
  <2>4. AllWritten
    BY <2>1 DEF AllWritten, Left
  <2> QED BY <2>2, <2>3, <2>4
<1>4. PingInv
  BY DEF Init, PingInv, OnePing, Pending, NoWaits, Waits, Started
<1>5. RestOK
  BY DEF Init, RestOK, NoWaits
<1> QED BY <1>2, <1>3, <1>4, <1>5 DEF IInv, LinesInv

LEMMA ConnectingHolds ==
  ASSUME IInv, Connecting
  PROVE  IInv'
<1> USE DEF IInv
<1>1. CASE Link
  <2>1. LinesInv'
    BY <1>1, SocketKeeps DEF Link, output, history, Sockets, Unstopped, Live
  <2>2. PingInv'
    BY <1>1, PingKeeps DEF Link, Started
  <2>3. RestOK'
    BY <1>1 DEF Link, RestOK, history
  <2> QED BY <2>1, <2>2, <2>3
<1>2. CASE Connected
  <2>1. LinesInv'
    BY <1>2, SocketKeeps DEF Connected, output, history, Sockets, Unstopped, Live
  <2>2. ping \in [Waits -> Nat] /\ timeout \in [Waits -> Nat]
    BY DEF PingInv, RestOK
  <2>3. PingInv'
    <3>1. ping["armed"] = 0 /\ ping["expired"] = 0 /\ ping["aborted"] = 0
      BY <1>2, <2>2 DEF Connected, PingInv, Pending, Started, Waits
    <3>2. ping' = Rearmed(ping)
      BY <1>2 DEF Connected
    <3>3. /\ ping' \in [Waits -> Nat] /\ ping'["armed"] = 1 /\ ping'["expired"] = 0
          /\ ping'["aborted"] = 0
      BY <2>2, <3>1, <3>2, Timer
    <3>4. sock' \in Started
      BY <1>2 DEF Connected, Started
    <3> QED BY <3>3, <3>4 DEF PingInv, OnePing, Pending
  <2>4. RestOK'
    <3>1. timeout' \in [Waits -> Nat]
      BY <1>2, <2>2, Timer DEF Connected
    <3> QED BY <1>2, <3>1 DEF Connected, RestOK, history
  <2> QED BY <2>1, <2>3, <2>4
<1> QED BY <1>1, <1>2 DEF Connecting

LEMMA LostHolds ==
  ASSUME IInv, Lost
  PROVE  IInv'
<1>1. LinesInv'
  BY SocketKeeps DEF IInv, Lost, output, history, Sockets, Unstopped, Live
<1>2. PingInv'
  BY PingKeeps DEF IInv, Lost, Started
<1>3. RestOK'
  BY DEF IInv, Lost, RestOK, history
<1> QED BY <1>1, <1>2, <1>3 DEF IInv

LEMMA WritingHolds ==
  ASSUME IInv, Writing \/ Sending
  PROVE  IInv'
<1> USE DEF IInv
<1>1. PICK i \in DOMAIN writes : Written(i) \/ NotWritten(i) \/ OnSent(i)
  BY DEF Writing, Sending
<1>2. LinesInv'
  BY <1>1, WrittenKeeps, NotWrittenKeeps, OnSentKeeps
<1>3. UNCHANGED <<sock, ping, stdin, over, reading, timeout, typed, pings, reads>>
  BY <1>1 DEF Written, NotWritten, OnSent, history
<1>4. PingInv'
  BY <1>3, PingKeeps
<1>5. RestOK'
  BY <1>3 DEF RestOK
<1> QED BY <1>2, <1>4, <1>5

\* stop() leaves the timers alone.
LEMMA StopHolds ==
  ASSUME IInv, NEW read \in Commands \cup {"none", "waiting", "error"}, Stop(read),
         UNCHANGED <<queue, sent, ping, timeout, stdin, wire, done, pings, reads>>,
         typed' \in Nat
  PROVE  IInv'
<1> USE DEF IInv
<1>1. LinesInv'
  BY StopKeeps
<1>2. PingInv'
  <2>1. sock' \in Started <=> sock \in Started
    BY DEF Stop, Started
  <2> QED BY <2>1, PingKeeps
<1>3. RestOK'
  <2>1. over' \in BOOLEAN
    BY Zenon DEF Stop, RestOK
  <2>2. reading' \in Commands \cup {"none", "waiting", "error"}
    BY DEF Stop, RestOK
  <2> QED BY <2>1, <2>2 DEF RestOK
<1> QED BY <1>1, <1>2, <1>3

LEMMA TerminalHolds ==
  ASSUME IInv, Terminal
  PROVE  IInv'
<1> USE DEF IInv
<1>1. CASE TypeLine
  <2>1. LinesInv'
    BY <1>1, SendKeeps DEF TypeLine
  <2>2. PingInv'
    BY <1>1, PingKeeps DEF TypeLine
  <2>3. RestOK'
    BY <1>1 DEF TypeLine, RestOK
  <2> QED BY <2>1, <2>2, <2>3
<1>2. CASE TypeQuit
  <2>1. PICK read \in Commands \cup {"none", "waiting", "error"} : Stop(read)
    BY <1>2 DEF TypeQuit, RestOK
  <2>2. /\ UNCHANGED <<queue, sent, ping, timeout, stdin, wire, done, pings, reads>>
        /\ typed' \in Nat
    BY <1>2 DEF TypeQuit, RestOK
  <2> QED BY <2>1, <2>2, StopHolds
<1>3. CASE EndOfInput
  <2>1. LinesInv'
    BY <1>3, SocketKeeps DEF EndOfInput, output, history, LinesInv, OutputOK
  <2>2. ping \in [Waits -> Nat] /\ timeout \in [Waits -> Nat]
    BY DEF PingInv, RestOK
  <2>3. PingInv'
    <3>1. ping' = Cancelled(ping) /\ sock' = sock /\ stdin' = "ended"
      BY <1>3 DEF EndOfInput
    <3>2. /\ ping' \in [Waits -> Nat] /\ ping'["armed"] = 0
          /\ ping'["expired"] = ping["expired"]
          /\ ping'["aborted"] = ping["aborted"] + ping["armed"]
      BY <2>2, <3>1, Timer
    <3>3. ping["armed"] \in Nat /\ ping["expired"] \in Nat /\ ping["aborted"] \in Nat
      BY <2>2 DEF Waits
    <3>4. Pending(ping') + ping'["aborted"] = Pending(ping) + ping["aborted"]
      BY <3>2, <3>3 DEF Pending
    <3> QED BY <3>1, <3>2, <3>4 DEF PingInv, OnePing, Pending
  <2>4. RestOK'
    <3>1. timeout' \in [Waits -> Nat]
      BY <1>3, <2>2, Timer DEF EndOfInput
    <3> QED BY <1>3, <3>1 DEF EndOfInput, RestOK, history
  <2> QED BY <2>1, <2>3, <2>4
<1> QED BY <1>1, <1>2, <1>3 DEF Terminal

LEMMA TimersHold ==
  ASSUME IInv, Timers
  PROVE  IInv'
<1> USE DEF IInv
<1>0. /\ ping \in [Waits -> Nat] /\ timeout \in [Waits -> Nat] /\ sock \in Sockets
      /\ ping["armed"] \in Nat /\ ping["expired"] \in Nat /\ ping["aborted"] \in Nat
  BY DEF PingInv, RestOK, Waits, LinesInv, OutputOK
<1>1. CASE PingExpires
  <2>1. LinesInv'
    BY <1>0, <1>1, SocketKeeps DEF PingExpires, output
  <2>2. PingInv'
    <3>1. /\ ping' \in [Waits -> Nat] /\ ping'["armed"] = ping["armed"] - 1
          /\ ping'["expired"] = ping["expired"] + 1 /\ ping'["aborted"] = ping["aborted"]
          /\ sock' = sock /\ stdin' = stdin
      BY <1>0, <1>1 DEF PingExpires, Waits
    <3>2. Pending(ping') = Pending(ping)
      BY <1>0, <3>1 DEF Pending
    <3> QED BY <3>1, <3>2 DEF PingInv, OnePing
  <2>3. RestOK'
    BY <1>1 DEF PingExpires, RestOK
  <2> QED BY <2>1, <2>2, <2>3
<1>2. CASE TimeoutExpires
  <2>1. LinesInv'
    BY <1>0, <1>2, SocketKeeps DEF TimeoutExpires, output, history
  <2>2. PingInv'
    BY <1>2, PingKeeps DEF TimeoutExpires
  <2>3. timeout' \in [Waits -> Nat]
    BY <1>0, <1>2 DEF TimeoutExpires, Waits
  <2>4. RestOK'
    BY <1>2, <2>3 DEF TimeoutExpires, RestOK, history
  <2> QED BY <2>1, <2>2, <2>4
<1>3. CASE SendPing
  <2>1. LinesInv'
    BY <1>3, SendKeeps DEF SendPing, history
  <2>2. PingInv'
    <3> DEFINE left == [ping EXCEPT !["expired"] = @ - 1]
    <3>1. /\ left \in [Waits -> Nat] /\ left["armed"] = ping["armed"]
          /\ left["expired"] = ping["expired"] - 1 /\ left["aborted"] = ping["aborted"]
      BY <1>0, <1>3 DEF SendPing, Waits
    <3>2. ping' = Rearmed(left) /\ ping["expired"] > 0 /\ sock' = sock /\ stdin' = stdin
      BY <1>3 DEF SendPing
    <3> HIDE DEF left
    <3>3. /\ ping["expired"] = 1 /\ ping["armed"] = 0 /\ ping["aborted"] = 0
          /\ sock \in Started
      BY <1>0, <3>2 DEF PingInv, OnePing, Pending
    <3>4. /\ ping' \in [Waits -> Nat] /\ ping'["armed"] = 1 /\ ping'["expired"] = 0
          /\ ping'["aborted"] = 0
      BY <3>1, <3>2, <3>3, Timer
    <3> QED BY <3>2, <3>3, <3>4 DEF PingInv, OnePing, Pending
  <2>3. RestOK'
    BY <1>3 DEF SendPing, RestOK, history
  <2> QED BY <2>1, <2>2, <2>3
<1>4. CASE PingAborted
  <2>1. LinesInv'
    BY <1>0, <1>4, SocketKeeps DEF PingAborted, output, history
  <2>2. PingInv'
    <3>1. /\ ping' \in [Waits -> Nat] /\ ping'["armed"] = ping["armed"]
          /\ ping'["expired"] = ping["expired"] /\ ping'["aborted"] = ping["aborted"] - 1
          /\ ping["aborted"] > 0 /\ sock' = sock /\ stdin' = stdin
      BY <1>0, <1>4 DEF PingAborted, Waits
    <3>2. /\ ping["aborted"] = 1 /\ ping["armed"] = 0 /\ ping["expired"] = 0
      BY <1>0, <3>1 DEF PingInv, OnePing, Pending
    <3> QED BY <3>1, <3>2 DEF PingInv, OnePing, Pending
  <2>3. RestOK'
    BY <1>4 DEF PingAborted, RestOK, history
  <2> QED BY <2>1, <2>2, <2>3
<1>5. CASE \E w \in Waits : OnTimeout(w)
  <2>1. PICK w \in Waits : OnTimeout(w)
    BY <1>5
  <2>2. LinesInv'
    BY <1>0, <2>1, SocketKeeps DEF OnTimeout, output, history
  <2>3. PingInv'
    BY <2>1, PingKeeps DEF OnTimeout
  <2>4. timeout' \in [Waits -> Nat]
    BY <1>0, <2>1, Fewer DEF OnTimeout
  <2>5. RestOK'
    BY <2>1, <2>4 DEF OnTimeout, RestOK, history
  <2> QED BY <2>2, <2>3, <2>5
<1> QED BY <1>1, <1>2, <1>3, <1>4, <1>5 DEF Timers

LEMMA ReaderHolds ==
  ASSUME IInv, Reader
  PROVE  IInv'
<1> USE DEF IInv
<1>1. CASE \E cmd \in Commands \cup {"error"} : Read(cmd)
  <2>1. PICK cmd \in Commands \cup {"error"} : Read(cmd)
    BY <1>1
  <2>2. LinesInv'
    BY <2>1, SocketKeeps DEF Read, output, LinesInv, OutputOK
  <2>3. PingInv'
    BY <2>1, PingKeeps DEF Read
  <2>4. RestOK'
    BY <2>1 DEF Read, RestOK
  <2> QED BY <2>2, <2>3, <2>4
<1>2. CASE HandlePing
  <2>1. LinesInv'
    BY <1>2, SocketKeeps DEF HandlePing, output, history, LinesInv, OutputOK
  <2>2. PingInv'
    BY <1>2, PingKeeps DEF HandlePing
  <2>3. timeout' \in [Waits -> Nat]
    BY <1>2, Timer DEF HandlePing, RestOK
  <2>4. RestOK'
    BY <1>2, <2>3 DEF HandlePing, StartRead, RestOK, history
  <2> QED BY <2>1, <2>2, <2>4
<1>3. CASE HandleData \/ ReadEnds
  <2>1. LinesInv'
    BY <1>3, SocketKeeps DEF HandleData, ReadEnds, output, history, LinesInv, OutputOK
  <2>2. PingInv'
    BY <1>3, PingKeeps DEF HandleData, ReadEnds
  <2>3. RestOK'
    BY <1>3 DEF HandleData, ReadEnds, StartRead, RestOK, history
  <2> QED BY <2>1, <2>2, <2>3
<1>4. CASE HandleStop
  <2>1. Stop("waiting")
    BY <1>4 DEF HandleStop
  <2>2. /\ UNCHANGED <<queue, sent, ping, timeout, stdin, wire, done, pings, reads>>
        /\ typed' \in Nat
    BY <1>4 DEF HandleStop, RestOK, history
  <2> QED BY <2>1, <2>2, StopHolds
<1> QED BY <1>1, <1>2, <1>3, <1>4 DEF Reader

-----------------------------------------------------------------------------
(* The invariant and the theorems *)

\* IInv holds in every state the client reaches.
THEOREM Invariance == Spec => []IInv
<1>1. Init => IInv
  BY InitHolds
<1>2. IInv /\ [Next]_vars => IInv'
  <2> SUFFICES ASSUME IInv, [Next]_vars PROVE IInv'
    OBVIOUS
  <2>1. CASE Next
    BY <2>1, ConnectingHolds, LostHolds, WritingHolds, TerminalHolds, TimersHold,
       ReaderHolds DEF Next
  <2>2. CASE UNCHANGED vars
    <3>1. LinesInv'
      BY <2>2, SocketKeeps DEF IInv, LinesInv, OutputOK, vars, output, history
    <3>2. PingInv'
      BY <2>2, PingKeeps DEF IInv, vars
    <3>3. RestOK'
      BY <2>2 DEF IInv, RestOK, vars, history
    <3> QED BY <3>1, <3>2, <3>3 DEF IInv
  <2> QED BY <2>1, <2>2
<1> QED BY <1>1, <1>2, PTL DEF Spec

\* The client's state keeps its types: what the queue, the writes and the
\* connection hold are lines that were given to send().
THEOREM TypeCorrect == Spec => []TypeOK
<1>1. IInv => TypeOK
  BY DEF IInv, LinesInv, OutputOK, PingInv, RestOK, TypeOK, Outcomes
<1> QED BY <1>1, Invariance, PTL

\* The connection is sent a prefix of the lines given to send(), in their order,
\* however often stop() and the server's end come between.
THEOREM LinesInOrder == Spec => []InOrder
<1>1. IInv => InOrder
  BY DEF IInv, LinesInv
<1> QED BY <1>1, Invariance, PTL

\* No two async_writes of the client are outstanding at once.
THEOREM OneWriteAtATime == Spec => []OneWrite
<1>1. IInv => OneWrite
  BY Lengths DEF IInv, LinesInv, OneBegun, Outstanding, OneWrite
<1> QED BY <1>1, Invariance, PTL

\* m_on_write and m_queue always have an on_sent() coming, and no line is lost
\* between send() and on_sent().
THEOREM NothingGetsStuck == Spec => []NothingStuck
<1>1. IInv => NothingStuck
  BY DEF IInv, LinesInv
<1> QED BY <1>1, Invariance, PTL

\* The pings are one chain, from on_connected() to the end of the input.
THEOREM OnePingChain == Spec => []OnePing
<1>1. IInv => OnePing
  BY DEF IInv, PingInv
<1> QED BY <1>1, Invariance, PTL
=============================================================================
