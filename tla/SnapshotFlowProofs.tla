------------------------- MODULE SnapshotFlowProofs -------------------------
(***************************************************************************)
(* Proofs about the two streams of the EA: SnapshotFlow, for any tickets,  *)
(* waiters and connections, and Deals, for any positions and any number of *)
(* deals and starts of the EA.                                             *)
(*                                                                         *)
(* That the store is a book the account really had rests on the order of   *)
(* the messages in front of the worker: between a begin and its end there  *)
(* are the positions of one book and no other burst, and a burst that has  *)
(* lost its begin has left in _pending what is missing from the queue.     *)
(*                                                                         *)
(* That rows of trades.db only grow rests on the reports of a position     *)
(* adding up ever more deals, in the row and along the wire; that a deal   *)
(* is announced once by each start rests on what is still to be sent being *)
(* later, by start and by place, than what was.                            *)
(***************************************************************************)
EXTENDS SnapshotFlow, Deals, SequenceTheorems, FiniteSetTheorems, TLAPS

USE FlowAssumption

\* Message k of q is the position of t; no burst begins in q[i .. k - 1].
Shows(q, k, t) == q[k].kind = "position" /\ q[k].ticket = t
NoBegin(q, i, k) == \A m \in i .. k - 1 : q[m].kind # "begin"

\* With p pending and q in front of it, t is pending when the worker comes to q[k].
Has(p, q, k, t) ==
  \/ t \in p /\ NoBegin(q, 1, k)
  \/ \E n \in 1 .. k - 1 : Shows(q, n, t) /\ NoBegin(q, n + 1, k)

\* Every burst arrives whole, and every burst has a begin of its own.
Whole(p, q) ==
  \A k \in 1 .. Len(q) : q[k].kind = "end" =>
    /\ \A t \in Tickets : Has(p, q, k, t) <=> t \in q[k].of
    /\ \A j \in 1 .. k - 1 : q[j].kind = "end" => ~NoBegin(q, j + 1, k)

FlowInv == Consistent /\ StoreWasReal /\ MissedOnlyIfSuperseded /\ Whole(pending, inbox)

\* The snapshots that end in q are those of the books u, in this order: f[i] is the
\* message at which the i-th of them ends.
Ends(u, q, f) ==
  /\ \A i \in 1 .. Len(u) : q[f[i]].kind = "end" /\ q[f[i]].of = u[i]
  /\ \A i, j \in 1 .. Len(u) : i < j => f[i] < f[j]
  /\ \A k \in 1 .. Len(q) : q[k].kind = "end" => \E i \in 1 .. Len(u) : f[i] = k

InOrder(u, q) == \E f \in [1 .. Len(u) -> 1 .. Len(q)] : Ends(u, q, f)

ChannelInv == FlowInv /\ InOrder(underway, inbox)

-----------------------------------------------------------------------------
(* The messages of a burst *)

\* SetToSeq lists a finite set.
LEMMA SetToSeqLists ==
  ASSUME NEW b, IsFiniteSet(b)
  PROVE  /\ Cardinality(b) \in Nat
         /\ SetToSeq(b) \in [1 .. Cardinality(b) -> b]
         /\ \A t \in b : \E i \in 1 .. Cardinality(b) : SetToSeq(b)[i] = t
<1> DEFINE c == Cardinality(b)
           f == SetToSeq(b)
<1>1. c \in Nat /\ ExistsBijection(1 .. c, b)
  BY FS_CardinalityType
<1>2. \E g \in [1 .. c -> b] : IsInjective(g)
  BY <1>1 DEF ExistsBijection, Bijection, Injection
<1>3. f \in [1 .. c -> b] /\ IsInjective(f)
  BY <1>2 DEF SetToSeq
<1>4. f \in Injection(1 .. c, b)
  BY <1>3 DEF Injection
<1>5. IsFiniteSet(1 .. c) /\ Cardinality(1 .. c) = c
  BY <1>1, FS_Interval
<1> HIDE DEF f, c
<1>6. f \in Surjection(1 .. c, b)
  BY <1>4, <1>5, FS_Injection DEF c
<1>7. \A t \in b : \E i \in 1 .. c : f[i] = t
  BY <1>6 DEF Surjection
<1> QED
  BY <1>1, <1>3, <1>7 DEF c, f

LEMMA MessagesHaveKinds ==
  /\ \A k \in {"begin", "tick", "result"} : Message(k) \in Messages /\ Message(k).kind = k
  /\ \A t \in Tickets : /\ Position(t) \in Messages
                        /\ Position(t).kind = "position" /\ Position(t).ticket = t
  /\ \A b \in SUBSET Tickets : /\ End(b) \in Messages
                               /\ End(b).kind = "end" /\ End(b).of = b
  BY DEF Message, Position, End, Messages

\* s1 of length m followed by s2 of length n.
Joined(s1, s2, m, n) ==
  /\ m \in Nat /\ n \in Nat
  /\ s1 \o s2 \in Seq(Messages) /\ Len(s1 \o s2) = m + n
  /\ \A i \in 1 .. m + n : (s1 \o s2)[i] = IF i <= m THEN s1[i] ELSE s2[i - m]

LEMMA ConcatShape ==
  ASSUME NEW s1 \in Seq(Messages), NEW s2 \in Seq(Messages), NEW m, NEW n,
         Len(s1) = m, Len(s2) = n
  PROVE  Joined(s1, s2, m, n)
<1>1. /\ s1 \o s2 \in Seq(Messages)
      /\ Len(s1 \o s2) = Len(s1) + Len(s2)
      /\ \A i \in 1 .. Len(s1) + Len(s2) :
           (s1 \o s2)[i] = IF i <= Len(s1) THEN s1[i] ELSE s2[i - Len(s1)]
  BY ConcatProperties
<1>2. Len(s1) \in Nat /\ Len(s2) \in Nat
  OBVIOUS
<1> QED
  BY <1>1, <1>2 DEF Joined

LEMMA BurstShape ==
  ASSUME NEW b \in SUBSET Tickets
  PROVE  \E c \in Nat : \E f \in [1 .. c -> b] :
           /\ Burst(b) \in Seq(Messages) /\ Len(Burst(b)) = c + 2
           /\ Burst(b)[1].kind = "begin"
           /\ \A i \in 1 .. c : Burst(b)[i + 1] = Position(f[i])
           /\ Burst(b)[c + 2] = End(b)
           /\ \A t \in b : \E i \in 1 .. c : f[i] = t
<1> DEFINE c == Cardinality(b)
           f == SetToSeq(b)
           middle == [i \in 1 .. c |-> Position(f[i])]
           front == <<Message("begin")>>
           back == <<End(b)>>
<1>1. /\ c \in Nat /\ f \in [1 .. c -> b]
      /\ \A t \in b : \E i \in 1 .. c : f[i] = t
  <2>1. IsFiniteSet(b)
    BY FS_Subset
  <2> QED
    BY <2>1, SetToSeqLists
<1> HIDE DEF c, f
<1>2. \A i \in 1 .. c : Position(f[i]) \in Messages
  BY <1>1, MessagesHaveKinds
<1>3. middle \in Seq(Messages) /\ Len(middle) = c /\ \A i \in 1 .. c : middle[i] = Position(f[i])
  <2>1. middle \in [1 .. c -> Messages]
    BY <1>2
  <2> HIDE DEF middle
  <2>2. middle \in Seq(Messages) /\ Len(middle) = c
    BY <1>1, <2>1 DEF Seq
  <2> QED
    BY <2>2 DEF middle
<1>4. front \in Seq(Messages) /\ Len(front) = 1 /\ front[1].kind = "begin"
  <2>1. Message("begin") \in Messages /\ Message("begin").kind = "begin"
    BY MessagesHaveKinds
  <2> QED
    BY <2>1
<1>5. back \in Seq(Messages) /\ Len(back) = 1 /\ back[1] = End(b)
  BY MessagesHaveKinds
<1>6. Burst(b) = front \o middle \o back
  BY DEF Burst, c, f
<1> HIDE DEF front, middle, back
<1> DEFINE head == front \o middle
<1>7. /\ head \in Seq(Messages) /\ Len(head) = 1 + c
      /\ \A i \in 1 .. 1 + c : head[i] = IF i <= 1 THEN front[i] ELSE middle[i - 1]
  <2>1. Joined(front, middle, 1, c)
    BY <1>3, <1>4, ConcatShape
  <2> QED
    BY <2>1 DEF Joined
<1> HIDE DEF head
<1>8. /\ head \o back \in Seq(Messages) /\ Len(head \o back) = 1 + c + 1
      /\ \A i \in 1 .. 1 + c + 1 :
           (head \o back)[i] = IF i <= 1 + c THEN head[i] ELSE back[i - (1 + c)]
  <2>1. Joined(head, back, 1 + c, 1)
    BY <1>5, <1>7, ConcatShape
  <2> QED
    BY <2>1 DEF Joined
<1>9. Burst(b) = head \o back
  BY <1>6 DEF head
<1>10. Burst(b) \in Seq(Messages) /\ Len(Burst(b)) = c + 2
  BY <1>1, <1>8, <1>9
<1>11. Burst(b)[1].kind = "begin"
  <2>1. 1 \in 1 .. 1 + c + 1 /\ 1 \in 1 .. 1 + c /\ 1 <= 1 /\ 1 <= 1 + c
    BY <1>1
  <2>2. Burst(b)[1] = head[1]
    BY <1>8, <1>9, <2>1
  <2>3. head[1] = front[1]
    BY <1>7, <2>1
  <2> QED
    BY <1>4, <2>2, <2>3
<1>12. ASSUME NEW i \in 1 .. c PROVE Burst(b)[i + 1] = Position(f[i])
  <2>1. i + 1 \in 1 .. 1 + c + 1 /\ i + 1 \in 1 .. 1 + c /\ ~(i + 1 <= 1) /\ i + 1 <= 1 + c
        /\ i + 1 - 1 = i
    BY <1>1
  <2>2. Burst(b)[i + 1] = head[i + 1]
    BY <1>8, <1>9, <2>1
  <2>3. head[i + 1] = middle[i]
    BY <1>7, <2>1
  <2> QED
    BY <1>3, <2>2, <2>3
<1>13. Burst(b)[c + 2] = End(b)
  <2>1. PICK i : i = c + 2
    OBVIOUS
  <2>2. i \in 1 .. 1 + c + 1 /\ ~(i <= 1 + c) /\ i - (1 + c) = 1
    BY <1>1, <2>1
  <2>3. (head \o back)[i] = back[1]
    BY <1>8, <2>2
  <2> QED
    BY <1>5, <1>9, <2>1, <2>3
<1> QED
  BY <1>1, <1>10, <1>11, <1>12, <1>13

-----------------------------------------------------------------------------
(* What is done to the messages in front of the worker *)

\* What comes behind message k does not matter to it.
LEMMA PrefixKeeps ==
  ASSUME NEW q, NEW r, NEW k \in Nat, NEW p, \A i \in 1 .. k - 1 : r[i] = q[i]
  PROVE  /\ \A t : Has(p, r, k, t) <=> Has(p, q, k, t)
         /\ \A i \in Nat \ {0} : NoBegin(r, i, k) <=> NoBegin(q, i, k)
<1>1. ASSUME NEW i \in Nat \ {0} PROVE NoBegin(r, i, k) <=> NoBegin(q, i, k)
  <2>1. \A m \in i .. k - 1 : m \in 1 .. k - 1
    OBVIOUS
  <2> QED
    BY <2>1 DEF NoBegin
<1>2. \A n \in 1 .. k - 1 : n + 1 \in Nat \ {0}
  OBVIOUS
<1>3. ASSUME NEW t PROVE Has(p, r, k, t) <=> Has(p, q, k, t)
  <2>1. NoBegin(r, 1, k) <=> NoBegin(q, 1, k)
    BY <1>1
  <2>2. \A n \in 1 .. k - 1 : NoBegin(r, n + 1, k) <=> NoBegin(q, n + 1, k)
    BY <1>1, <1>2
  <2>3. \A n \in 1 .. k - 1 : Shows(r, n, t) <=> Shows(q, n, t)
    BY DEF Shows
  <2> QED
    BY <2>1, <2>2, <2>3 DEF Has
<1> QED
  BY <1>1, <1>3

LEMMA WholeBefore ==
  ASSUME NEW q \in Seq(Messages), NEW r \in Seq(Messages), NEW p, Whole(p, q),
         \A i \in 1 .. Len(q) : r[i] = q[i], NEW k \in 1 .. Len(q), r[k].kind = "end"
  PROVE  /\ \A t \in Tickets : Has(p, r, k, t) <=> t \in r[k].of
         /\ \A j \in 1 .. k - 1 : r[j].kind = "end" => ~NoBegin(r, j + 1, k)
<1>1. k \in Nat /\ Len(q) \in Nat /\ \A j \in 1 .. k - 1 : j \in 1 .. Len(q) /\ j + 1 \in Nat \ {0}
  OBVIOUS
<1>2. /\ \A t : Has(p, r, k, t) <=> Has(p, q, k, t)
      /\ \A i \in Nat \ {0} : NoBegin(r, i, k) <=> NoBegin(q, i, k)
  BY <1>1, PrefixKeeps
<1>3. r[k] = q[k] /\ \A j \in 1 .. k - 1 : r[j] = q[j]
  BY <1>1
<1> QED
  BY <1>1, <1>2, <1>3 DEF Whole

\* A message that ends no burst comes.
LEMMA OneMoreIsWhole ==
  ASSUME NEW q \in Seq(Messages), NEW m \in Messages, m.kind # "end", NEW p, Whole(p, q)
  PROVE  Append(q, m) \in Seq(Messages) /\ Whole(p, Append(q, m))
<1> DEFINE r == Append(q, m)
           n == Len(q)
<1>1. /\ r \in Seq(Messages) /\ Len(r) = n + 1 /\ n \in Nat
      /\ \A i \in 1 .. n : r[i] = q[i]
      /\ r[n + 1] = m
  BY AppendProperties
<1> HIDE DEF r
<1>2. \A k \in 1 .. Len(r) : r[k].kind = "end" => k \in 1 .. n
  BY <1>1
<1>3. Whole(p, r)
  <2> SUFFICES ASSUME NEW k \in 1 .. Len(r), r[k].kind = "end"
               PROVE  /\ \A t \in Tickets : Has(p, r, k, t) <=> t \in r[k].of
                      /\ \A j \in 1 .. k - 1 : r[j].kind = "end" => ~NoBegin(r, j + 1, k)
    BY DEF Whole
  <2>1. k \in 1 .. Len(q)
    BY <1>2
  <2> QED
    BY <1>1, <2>1, WholeBefore
<1> QED
  BY <1>1, <1>3 DEF r

\* A burst comes.
LEMMA BurstIsWhole ==
  ASSUME NEW q \in Seq(Messages), NEW b \in SUBSET Tickets, NEW p, Whole(p, q)
  PROVE  q \o Burst(b) \in Seq(Messages) /\ Whole(p, q \o Burst(b))
<1> DEFINE s == Burst(b)
           r == q \o s
           n == Len(q)
<1>0. PICK c \in Nat : \E f \in [1 .. c -> b] :
        /\ s \in Seq(Messages) /\ Len(s) = c + 2
        /\ s[1].kind = "begin"
        /\ \A i \in 1 .. c : s[i + 1] = Position(f[i])
        /\ s[c + 2] = End(b)
        /\ \A t \in b : \E i \in 1 .. c : f[i] = t
  BY BurstShape
<1>1. PICK f \in [1 .. c -> b] :
        /\ s \in Seq(Messages) /\ Len(s) = c + 2
        /\ s[1].kind = "begin"
        /\ \A i \in 1 .. c : s[i + 1] = Position(f[i])
        /\ s[c + 2] = End(b)
        /\ \A t \in b : \E i \in 1 .. c : f[i] = t
  BY <1>0
<1> HIDE DEF s
<1>2. /\ r \in Seq(Messages) /\ Len(r) = n + (c + 2) /\ n \in Nat
      /\ \A i \in 1 .. n + (c + 2) : r[i] = IF i <= n THEN q[i] ELSE s[i - n]
  <2>1. Joined(q, s, n, c + 2)
    BY <1>1, ConcatShape
  <2> QED
    BY <2>1 DEF Joined
<1> HIDE DEF r, n
<1>3. \A i \in 1 .. n : r[i] = q[i]
  BY <1>1, <1>2
<1>4. r[n + 1].kind = "begin"
  <2>1. n + 1 \in 1 .. n + (c + 2) /\ ~(n + 1 <= n) /\ n + 1 - n = 1
    BY <1>1, <1>2
  <2>2. r[n + 1] = s[1]
    BY <1>2, <2>1
  <2> QED
    BY <1>1, <2>2
<1>5. ASSUME NEW i \in 1 .. c
      PROVE  /\ r[n + 1 + i].kind = "position" /\ r[n + 1 + i].ticket = f[i]
             /\ f[i] \in b
  <2>1. n + 1 + i \in 1 .. n + (c + 2) /\ ~(n + 1 + i <= n) /\ n + 1 + i - n = i + 1
    BY <1>1, <1>2
  <2>2. r[n + 1 + i] = s[i + 1]
    BY <1>2, <2>1
  <2>3. r[n + 1 + i] = Position(f[i]) /\ f[i] \in b
    BY <1>1, <2>2
  <2> QED
    BY <2>3, MessagesHaveKinds
<1> DEFINE e == n + (c + 2)
<1>6. r[e].kind = "end" /\ r[e].of = b
  <2>1. e \in 1 .. n + (c + 2) /\ ~(e <= n) /\ e - n = c + 2
    BY <1>1, <1>2
  <2>2. r[e] = s[c + 2]
    BY <1>2, <2>1
  <2> QED
    BY <1>1, <2>2, MessagesHaveKinds
<1>7. \A i \in 1 .. e : \/ i \in 1 .. n
                        \/ i = n + 1
                        \/ i = e
                        \/ \E j \in 1 .. c : i = n + 1 + j
  <2> SUFFICES ASSUME NEW i \in 1 .. e, i \notin 1 .. n, i # n + 1, i # e
               PROVE  \E j \in 1 .. c : i = n + 1 + j
    OBVIOUS
  <2>1. n \in Nat /\ c \in Nat
    BY <1>2
  <2> HIDE DEF n
  <2>2. i \in n + 2 .. n + c + 1
    BY <2>1
  <2>3. i - n - 1 \in 1 .. c /\ i = n + 1 + (i - n - 1)
    BY <2>1, <2>2
  <2> QED
    BY <2>3
<1>8. n + 1 \in 1 .. e - 1 /\ e \in 1 .. Len(r) /\ Len(r) = e /\ e \in Nat
  BY <1>1, <1>2
<1>9. ASSUME NEW i \in 1 .. e, i <= n + 1 PROVE ~NoBegin(r, i, e)
  <2>1. n + 1 \in i .. e - 1
    BY <1>1, <1>2, <1>9
  <2> QED
    BY <1>4, <2>1 DEF NoBegin
<1>10. ASSUME NEW i \in 1 .. e, ~(i <= n + 1) PROVE NoBegin(r, i, e)
  <2> SUFFICES ASSUME NEW m \in i .. e - 1 PROVE r[m].kind # "begin"
    BY DEF NoBegin
  <2>1. m \in 1 .. e /\ m \notin 1 .. n /\ m # n + 1 /\ m # e
    BY <1>1, <1>2, <1>10
  <2>2. PICK j \in 1 .. c : m = n + 1 + j
    BY <1>7, <2>1
  <2> QED
    BY <1>5, <2>2
<1>11. ASSUME NEW t \in Tickets PROVE Has(p, r, e, t) <=> t \in b
  <2>1. ASSUME t \in b PROVE Has(p, r, e, t)
    <3>1. PICK i \in 1 .. c : f[i] = t
      BY <1>1, <2>1
    <3>2. n + 1 + i \in 1 .. e - 1 /\ n + 1 + i + 1 \in 1 .. e /\ ~(n + 1 + i + 1 <= n + 1)
      BY <1>1, <1>2
    <3>3. Shows(r, n + 1 + i, t)
      BY <1>5, <3>1 DEF Shows
    <3>4. NoBegin(r, n + 1 + i + 1, e)
      BY <1>10, <3>2
    <3> QED
      BY <3>2, <3>3, <3>4 DEF Has
  <2>2. ASSUME Has(p, r, e, t) PROVE t \in b
    <3>1. 1 \in 1 .. e /\ 1 <= n + 1
      BY <1>1, <1>2
    <3>2. ~NoBegin(r, 1, e)
      BY <1>9, <3>1
    <3>3. PICK m \in 1 .. e - 1 : Shows(r, m, t) /\ NoBegin(r, m + 1, e)
      BY <2>2, <3>2 DEF Has
    <3>4. m \in 1 .. e /\ m + 1 \in 1 .. e /\ m # e
      BY <1>8
    <3>5. m \notin 1 .. n
      <4>1. m \in 1 .. n => m + 1 <= n + 1
        BY <1>2
      <4> QED
        BY <1>9, <3>3, <3>4, <4>1
    <3>6. m # n + 1
      BY <1>4, <3>3 DEF Shows
    <3>7. PICK j \in 1 .. c : m = n + 1 + j
      BY <1>7, <3>4, <3>5, <3>6
    <3> QED
      BY <1>5, <3>3, <3>7 DEF Shows
  <2> QED
    BY <2>1, <2>2
<1>12. ASSUME NEW j \in 1 .. e - 1, r[j].kind = "end" PROVE ~NoBegin(r, j + 1, e)
  <2>1. j \in 1 .. e /\ j # e /\ j + 1 \in 1 .. e
    BY <1>8
  <2>2. j \in 1 .. n
    <3>1. j # n + 1
      BY <1>4, <1>12
    <3>2. ASSUME NEW i \in 1 .. c, j = n + 1 + i PROVE FALSE
      BY <1>5, <1>12, <3>2
    <3> QED
      BY <1>7, <2>1, <3>1, <3>2
  <2>3. j + 1 <= n + 1
    BY <1>2, <2>2
  <2> QED
    BY <1>9, <2>1, <2>3
<1>13. Whole(p, r)
  <2> SUFFICES ASSUME NEW k \in 1 .. Len(r), r[k].kind = "end"
               PROVE  /\ \A t \in Tickets : Has(p, r, k, t) <=> t \in r[k].of
                      /\ \A j \in 1 .. k - 1 : r[j].kind = "end" => ~NoBegin(r, j + 1, k)
    BY DEF Whole
  <2>1. CASE k \in 1 .. n
    BY <1>2, <1>3, <2>1, WholeBefore DEF n
  <2>2. CASE k = e
    BY <1>6, <1>11, <1>12, <2>2
  <2>3. k \in 1 .. n \/ k = e
    <3>1. k # n + 1
      BY <1>4
    <3>2. ASSUME NEW i \in 1 .. c, k = n + 1 + i PROVE FALSE
      BY <1>5, <3>2
    <3> QED
      BY <1>7, <1>8, <3>1, <3>2
  <2> QED
    BY <2>1, <2>2, <2>3
<1> QED
  BY <1>2, <1>13 DEF r, s

\* The worker takes the first message: p becomes d.
LEMMA TailIsWhole ==
  ASSUME NEW q \in Seq(Messages), q # <<>>, NEW p, NEW d, Whole(p, q),
         \/ q[1].kind = "end"
         \/ \A t \in Tickets : t \in d <=> \/ t \in p /\ q[1].kind # "begin"
                                           \/ Shows(q, 1, t),
         q[1].kind = "end" => d = {}
  PROVE  Tail(q) \in Seq(Messages) /\ Whole(d, Tail(q))
<1> DEFINE r == Tail(q)
           n == Len(q)
<1>1. /\ r \in Seq(Messages) /\ Len(r) = n - 1 /\ n \in Nat
      /\ \A i \in 1 .. n - 1 : r[i] = q[i + 1]
  BY HeadTailProperties
<1> HIDE DEF r, n
<1>2. ASSUME NEW i \in 1 .. n, NEW k \in 1 .. n - 1
      PROVE  NoBegin(r, i, k) <=> NoBegin(q, i + 1, k + 1)
  <2>1. \A m \in i .. k - 1 : m + 1 \in i + 1 .. k + 1 - 1 /\ r[m] = q[m + 1]
    BY <1>1
  <2>2. \A m \in i + 1 .. k + 1 - 1 : m - 1 \in i .. k - 1 /\ m - 1 \in 1 .. n - 1 /\ m - 1 + 1 = m
    BY <1>1
  <2>3. \A m \in i + 1 .. k + 1 - 1 : r[m - 1] = q[m]
    <3> SUFFICES ASSUME NEW m \in i + 1 .. k + 1 - 1 PROVE r[m - 1] = q[m]
      OBVIOUS
    <3>1. r[m - 1] = q[m - 1 + 1] /\ m - 1 + 1 = m
      BY <1>1, <2>2
    <3> QED
      BY <3>1
  <2>4. ASSUME NoBegin(r, i, k), NEW m \in i + 1 .. k + 1 - 1 PROVE q[m].kind # "begin"
    <3>1. r[m - 1].kind # "begin"
      BY <2>2, <2>4 DEF NoBegin
    <3> QED
      BY <2>3, <3>1
  <2>5. ASSUME NoBegin(q, i + 1, k + 1), NEW m \in i .. k - 1 PROVE r[m].kind # "begin"
    <3>1. q[m + 1].kind # "begin"
      BY <2>1, <2>5 DEF NoBegin
    <3> QED
      BY <2>1, <3>1
  <2> QED
    BY <2>4, <2>5 DEF NoBegin
<1>3. ASSUME NEW k \in 1 .. n - 1
      PROVE  NoBegin(q, 1, k + 1) <=> q[1].kind # "begin" /\ NoBegin(q, 2, k + 1)
  <2>1. \A m : m \in 1 .. k + 1 - 1 <=> m = 1 \/ m \in 2 .. k + 1 - 1
    BY <1>1
  <2> QED
    BY <2>1 DEF NoBegin
<1> SUFFICES ASSUME NEW k \in 1 .. n - 1, r[k].kind = "end"
             PROVE  /\ \A t \in Tickets : Has(d, r, k, t) <=> t \in r[k].of
                    /\ \A j \in 1 .. k - 1 : r[j].kind = "end" => ~NoBegin(r, j + 1, k)
  BY <1>1 DEF Whole, r
<1>4. k + 1 \in 1 .. n /\ r[k] = q[k + 1] /\ k \in Nat /\ k + 1 - 1 = k /\ 1 \in 1 .. k /\ 1 \in 1 .. n
  <2>1. n \in Nat /\ r[k] = q[k + 1]
    BY <1>1
  <2> QED
    BY <2>1
<1>5. /\ \A t \in Tickets : Has(p, q, k + 1, t) <=> t \in q[k + 1].of
      /\ \A j \in 1 .. k : q[j].kind = "end" => ~NoBegin(q, j + 1, k + 1)
  BY <1>4 DEF Whole, n
<1>6. ASSUME NEW j \in 1 .. k - 1, r[j].kind = "end" PROVE ~NoBegin(r, j + 1, k)
  <2>1. j + 1 \in 1 .. k /\ j \in 1 .. n - 1 /\ j + 1 \in 1 .. n
    BY <1>1, <1>4
  <2>2. q[j + 1].kind = "end"
    BY <1>1, <1>6, <2>1
  <2>3. ~NoBegin(q, j + 1 + 1, k + 1)
    BY <1>5, <2>1, <2>2
  <2> QED
    BY <1>2, <2>1, <2>3
<1>7. ASSUME NEW t \in Tickets PROVE Has(d, r, k, t) <=> Has(p, q, k + 1, t)
  <2>1. NoBegin(r, 1, k) <=> NoBegin(q, 2, k + 1)
    <3>1. NoBegin(r, 1, k) <=> NoBegin(q, 1 + 1, k + 1)
      BY <1>2, <1>4
    <3> QED
      BY <3>1
  <2>2. (\E m \in 1 .. k - 1 : Shows(r, m, t) /\ NoBegin(r, m + 1, k))
          <=> \E m \in 2 .. k : Shows(q, m, t) /\ NoBegin(q, m + 1, k + 1)
    <3>1. ASSUME NEW m \in 1 .. k - 1
          PROVE  /\ m + 1 \in 2 .. k
                 /\ Shows(r, m, t) <=> Shows(q, m + 1, t)
                 /\ NoBegin(r, m + 1, k) <=> NoBegin(q, m + 1 + 1, k + 1)
      <4>1. m + 1 \in 2 .. k /\ m \in 1 .. n - 1 /\ m + 1 \in 1 .. n
        BY <1>1, <1>4
      <4> QED
        BY <1>1, <1>2, <4>1 DEF Shows
    <3>2. \A m \in 2 .. k : m - 1 \in 1 .. k - 1 /\ m - 1 + 1 = m
      BY <1>4
    <3>3. ASSUME NEW m \in 2 .. k, Shows(q, m, t), NoBegin(q, m + 1, k + 1)
          PROVE  \E l \in 1 .. k - 1 : Shows(r, l, t) /\ NoBegin(r, l + 1, k)
      <4>1. PICK l \in 1 .. k - 1 : l + 1 = m
        BY <3>2
      <4> QED
        BY <3>1, <3>3, <4>1
    <3> QED
      BY <3>1, <3>3
  <2>3. Has(p, q, k + 1, t)
          <=> \/ t \in p /\ NoBegin(q, 1, k + 1)
              \/ Shows(q, 1, t) /\ NoBegin(q, 2, k + 1)
              \/ \E m \in 2 .. k : Shows(q, m, t) /\ NoBegin(q, m + 1, k + 1)
    <3>1. \A m : m \in 1 .. k + 1 - 1 <=> m = 1 \/ m \in 2 .. k
      BY <1>4
    <3>2. NoBegin(q, 1 + 1, k + 1) <=> NoBegin(q, 2, k + 1)
      OBVIOUS
    <3> QED
      BY <3>1, <3>2 DEF Has
  <2>4. CASE q[1].kind = "end"
    <3>1. ~NoBegin(q, 2, k + 1)
      <4>1. ~NoBegin(q, 1 + 1, k + 1)
        BY <1>4, <1>5, <2>4
      <4> QED
        BY <4>1
    <3> QED
      BY <1>3, <2>1, <2>2, <2>3, <3>1 DEF Has
  <2>5. CASE q[1].kind # "end"
    <3>1. t \in d <=> (t \in p /\ q[1].kind # "begin") \/ Shows(q, 1, t)
      BY <2>5
    <3> QED
      BY <1>3, <2>1, <2>2, <2>3, <3>1 DEF Has
  <2> QED
    BY <2>4, <2>5
<1> QED
  BY <1>4, <1>5, <1>6, <1>7

\* What is left when message i is taken out.
LEMMA RemovedShape ==
  ASSUME NEW q \in Seq(Messages), NEW i \in 1 .. Len(q)
  PROVE  /\ RemoveAt(q, i) \in Seq(Messages) /\ Len(RemoveAt(q, i)) = Len(q) - 1
         /\ \A k \in 1 .. Len(q) - 1 : RemoveAt(q, i)[k] = q[IF k < i THEN k ELSE k + 1]
<1> DEFINE r == RemoveAt(q, i)
           n == Len(q)
           older(k) == IF k < i THEN k ELSE k + 1
<1>0. n \in Nat /\ i \in 1 .. n
  OBVIOUS
<1> DEFINE front == SubSeq(q, 1, i - 1)
           back == SubSeq(q, i + 1, n)
<1>1. /\ front \in Seq(Messages) /\ Len(front) = i - 1
      /\ \A k \in 1 .. i - 1 : front[k] = q[k]
  BY <1>0, SubSeqProperties
<1>2. /\ back \in Seq(Messages) /\ Len(back) = n - i
      /\ \A k \in 1 .. n - i : back[k] = q[i + k]
  <2>1. /\ back \in Seq(Messages)
        /\ Len(back) = IF i + 1 <= n THEN n - (i + 1) + 1 ELSE 0
        /\ \A k \in 1 .. n - (i + 1) + 1 : back[k] = q[i + 1 + k - 1]
    BY <1>0, SubSeqProperties
  <2> HIDE DEF back, n
  <2>2. Len(back) = n - i
    BY <1>0, <2>1
  <2>3. \A k \in 1 .. n - i : k \in 1 .. n - (i + 1) + 1 /\ i + 1 + k - 1 = i + k
    BY <1>0
  <2> QED
    BY <2>1, <2>2, <2>3
<1>3. r = front \o back
  BY DEF RemoveAt
<1> HIDE DEF front, back, n, r
<1>4. Joined(front, back, i - 1, n - i)
  BY <1>1, <1>2, ConcatShape
<1>5. /\ r \in Seq(Messages) /\ Len(r) = (i - 1) + (n - i)
      /\ \A k \in 1 .. (i - 1) + (n - i) :
            r[k] = IF k <= i - 1 THEN front[k] ELSE back[k - (i - 1)]
  BY <1>3, <1>4 DEF Joined
<1>6. Len(r) = n - 1
  BY <1>0, <1>5
<1>7. ASSUME NEW k \in 1 .. n - 1 PROVE r[k] = q[older(k)]
  <2>1. k \in 1 .. (i - 1) + (n - i)
    BY <1>0
  <2>2. CASE k < i
    <3>1. k \in 1 .. i - 1 /\ k <= i - 1
      BY <1>0, <2>2
    <3>2. r[k] = front[k]
      BY <1>5, <2>1, <3>1
    <3> QED
      BY <1>1, <2>2, <3>1, <3>2
  <2>3. CASE ~(k < i)
    <3>1. PICK l : l = k - (i - 1)
      OBVIOUS
    <3>2. l \in 1 .. n - i /\ i + l = k + 1 /\ ~(k <= i - 1)
      BY <1>0, <2>3, <3>1
    <3>3. r[k] = back[l]
      BY <1>5, <2>1, <3>1, <3>2
    <3> QED
      BY <1>2, <2>3, <3>2, <3>3
  <2> QED
    BY <2>2, <2>3
<1> QED
  BY <1>5, <1>6, <1>7 DEF r, n

\* A reply is taken out from between the others.
LEMMA RemovedIsWhole ==
  ASSUME NEW q \in Seq(Messages), NEW i \in 1 .. Len(q), q[i].kind = "result", NEW p, Whole(p, q)
  PROVE  RemoveAt(q, i) \in Seq(Messages) /\ Whole(p, RemoveAt(q, i))
<1> DEFINE r == RemoveAt(q, i)
           n == Len(q)
           older(k) == IF k < i THEN k ELSE k + 1
           newer(k) == IF k < i THEN k ELSE k - 1
<1>1. n \in Nat /\ i \in 1 .. n /\ \A k \in 1 .. n : q[k] \in Messages
  BY ElementOfSeq
<1>2. /\ r \in Seq(Messages) /\ Len(r) = n - 1
      /\ \A k \in 1 .. n - 1 : r[k] = q[older(k)]
  BY RemovedShape
<1> HIDE DEF r, n
<1>3. \A k \in 1 .. n : k # i => newer(k) \in 1 .. n - 1 /\ older(newer(k)) = k
  BY <1>1
<1>4. \A k \in 1 .. n - 1 : older(k) \in 1 .. n /\ older(k) # i /\ newer(older(k)) = k
  BY <1>1
<1>5. \A k \in 1 .. n : k # i => q[k] = r[newer(k)]
  BY <1>2, <1>3
<1>6. \A k, m \in 1 .. n - 1 : k < m <=> older(k) < older(m)
  BY <1>1
<1>7. \A k, m \in 1 .. n : k # i /\ m # i => (k < m <=> newer(k) < newer(m))
  BY <1>1
<1>8. \A k \in 1 .. n - 1 : older(k) \in Int
  BY <1>1
<1>9. \A k \in 1 .. n : k # i => newer(k) \in Int
  BY <1>1
<1> HIDE DEF older, newer
<1>10. q[i].kind # "begin" /\ q[i].kind # "end" /\ q[i].kind # "position"
  OBVIOUS
<1>11. ASSUME NEW a \in 0 .. n - 1, NEW b \in 0 .. n, b = IF a = 0 THEN 0 ELSE older(a),
             NEW k \in 1 .. n - 1
       PROVE  NoBegin(r, a + 1, k) <=> NoBegin(q, b + 1, older(k))
  <2>1. ASSUME NoBegin(r, a + 1, k), NEW m \in b + 1 .. older(k) - 1 PROVE q[m].kind # "begin"
    <3>1. CASE m = i
      BY <1>10, <3>1
    <3>2. CASE m # i
      <4>1. m \in 1 .. n /\ b < m /\ m < older(k) /\ older(k) \in 1 .. n
        BY <1>1, <1>4
      <4>2. newer(m) < k /\ newer(m) \in 1 .. n - 1
        BY <1>3, <1>4, <1>7, <3>2, <4>1
      <4>3. a < newer(m)
        <5>1. CASE a = 0
          BY <4>2, <5>1
        <5>2. CASE a # 0
          <6>1. a \in 1 .. n - 1 /\ b = older(a)
            BY <1>1, <1>11, <5>2
          <6> QED
            BY <1>4, <1>7, <3>2, <4>1, <6>1
        <5> QED
          BY <5>1, <5>2
      <4>4. newer(m) \in a + 1 .. k - 1
        <5>1. newer(m) \in Int /\ a \in Int /\ k \in Int
          BY <1>1, <4>2
        <5> QED
          BY <4>2, <4>3, <5>1
      <4> QED
        BY <1>5, <2>1, <3>2, <4>1, <4>4 DEF NoBegin
    <3> QED
      BY <3>1, <3>2
  <2>2. ASSUME NoBegin(q, b + 1, older(k)), NEW m \in a + 1 .. k - 1 PROVE r[m].kind # "begin"
    <3>1. m \in 1 .. n - 1 /\ a < m /\ m < k
      BY <1>1
    <3>2. older(m) < older(k) /\ older(m) \in 1 .. n /\ older(k) \in 1 .. n
      BY <1>4, <1>6, <3>1
    <3>3. b < older(m)
      <4>1. CASE a = 0
        BY <1>11, <3>2, <4>1
      <4>2. CASE a # 0
        <5>1. a \in 1 .. n - 1 /\ b = older(a)
          BY <1>1, <1>11, <4>2
        <5> QED
          BY <1>6, <3>1, <5>1
      <4> QED
        BY <4>1, <4>2
    <3>4. older(m) \in b + 1 .. older(k) - 1
      BY <1>1, <3>2, <3>3
    <3> QED
      BY <1>2, <2>2, <3>1, <3>4 DEF NoBegin
  <2> QED
    BY <2>1, <2>2 DEF NoBegin
<1> SUFFICES ASSUME NEW k \in 1 .. n - 1, r[k].kind = "end"
             PROVE  /\ \A t \in Tickets : Has(p, r, k, t) <=> t \in r[k].of
                    /\ \A j \in 1 .. k - 1 : r[j].kind = "end" => ~NoBegin(r, j + 1, k)
  BY <1>2 DEF Whole, r
<1>12. older(k) \in 1 .. n /\ r[k] = q[older(k)]
  BY <1>2, <1>4
<1>13. /\ \A t \in Tickets : Has(p, q, older(k), t) <=> t \in q[older(k)].of
       /\ \A j \in 1 .. older(k) - 1 : q[j].kind = "end" => ~NoBegin(q, j + 1, older(k))
  BY <1>12 DEF Whole, n
<1>14. ASSUME NEW j \in 1 .. k - 1
       PROVE  /\ older(j) \in 1 .. older(k) - 1
              /\ r[j] = q[older(j)]
              /\ NoBegin(r, j + 1, k) <=> NoBegin(q, older(j) + 1, older(k))
  <2>1. j \in 1 .. n - 1 /\ j < k
    BY <1>1
  <2>2. older(j) < older(k) /\ older(j) \in 1 .. n
    BY <1>4, <1>6, <2>1
  <2>3. older(j) \in 1 .. older(k) - 1 /\ older(j) \in 0 .. n /\ j \in 0 .. n - 1 /\ j # 0
    BY <1>1, <1>12, <2>1, <2>2
  <2> QED
    BY <1>2, <1>11, <2>1, <2>3
<1>15. ASSUME NEW t \in Tickets PROVE Has(p, r, k, t) <=> Has(p, q, older(k), t)
  <2>1. NoBegin(r, 1, k) <=> NoBegin(q, 1, older(k))
    <3>1. 0 \in 0 .. n - 1 /\ 0 \in 0 .. n
      BY <1>1
    <3>2. \A b \in 0 .. n : b = 0 => (NoBegin(r, 0 + 1, k) <=> NoBegin(q, b + 1, older(k)))
      BY <1>11, <3>1, Zenon
    <3>3. NoBegin(r, 0 + 1, k) <=> NoBegin(q, 0 + 1, older(k))
      BY <3>1, <3>2
    <3> QED
      BY <3>3
  <2>2. ASSUME NEW m \in 1 .. older(k) - 1, Shows(q, m, t), NoBegin(q, m + 1, older(k))
        PROVE  \E j \in 1 .. k - 1 : Shows(r, j, t) /\ NoBegin(r, j + 1, k)
    <3>1. m # i /\ m \in 1 .. n /\ m < older(k)
      <4>1. m # i
        BY <1>10, <2>2 DEF Shows
      <4>2. older(k) \in Int /\ older(k) <= n
        BY <1>1, <1>12
      <4>3. m \in 1 .. n /\ m < older(k)
        BY <1>1, <4>2
      <4> QED
        BY <4>1, <4>3
    <3>2. newer(m) \in 1 .. n - 1 /\ older(newer(m)) = m /\ newer(m) < k
      BY <1>3, <1>4, <1>7, <1>12, <3>1
    <3>3. PICK j \in 1 .. k - 1 : older(j) = m
      <4>1. newer(m) \in 1 .. k - 1
        BY <3>2
      <4> QED
        BY <3>2, <4>1
    <3>4. Shows(r, j, t) /\ NoBegin(r, j + 1, k)
      BY <1>14, <2>2, <3>3 DEF Shows
    <3> QED
      BY <3>4
  <2>3. ASSUME NEW j \in 1 .. k - 1, Shows(r, j, t), NoBegin(r, j + 1, k)
        PROVE  \E m \in 1 .. older(k) - 1 : Shows(q, m, t) /\ NoBegin(q, m + 1, older(k))
    <3>1. Shows(q, older(j), t) /\ NoBegin(q, older(j) + 1, older(k)) /\ older(j) \in 1 .. older(k) - 1
      BY <1>14, <2>3 DEF Shows
    <3> QED
      BY <3>1
  <2> QED
    BY <2>1, <2>2, <2>3 DEF Has
<1> QED
  BY <1>12, <1>13, <1>14, <1>15

-----------------------------------------------------------------------------
(* The books under way *)

\* When the worker comes to an end, the snapshot is that of the first book.
LEMMA EndIsUnderway ==
  ASSUME NEW u \in Seq(SUBSET Tickets), NEW q \in Seq(Messages), InOrder(u, q),
         1 \in 1 .. Len(q), q[1].kind = "end"
  PROVE  u # <<>> /\ u[1] = q[1].of
<1>1. PICK f \in [1 .. Len(u) -> 1 .. Len(q)] : Ends(u, q, f)
  BY DEF InOrder
<1>2. PICK i \in 1 .. Len(u) : f[i] = 1
  BY <1>1 DEF Ends
<1>3. Len(u) \in Nat /\ Len(q) \in Nat /\ 1 \in 1 .. Len(u)
  BY <1>2
<1>4. i = 1
  <2>1. f[1] \in 1 .. Len(q) /\ ~(1 < i)
    BY <1>1, <1>2, <1>3 DEF Ends
  <2> QED
    BY <1>3, <2>1
<1> QED
  BY <1>1, <1>2, <1>3, <1>4 DEF Ends

LEMMA NothingUnderway == InOrder(<<>>, <<>>)
<1>1. Len(<<>>) = 0
  OBVIOUS
<1>2. PICK f : f \in [1 .. 0 -> 1 .. 0]
  <2>1. [i \in 1 .. 0 |-> i] \in [1 .. 0 -> 1 .. 0]
    OBVIOUS
  <2> QED
    BY <2>1
<1>3. Ends(<<>>, <<>>, f)
  BY <1>1 DEF Ends
<1> QED
  BY <1>1, <1>2, <1>3 DEF InOrder

\* From q to r, with m and n messages, messages are added or taken out, but the ends stay,
\* in their order: that at k is now at h[k].
EndsStay(q, r, m, n, h) ==
  /\ \A k \in 1 .. m : q[k].kind = "end" => h[k] \in 1 .. n /\ r[h[k]] = q[k]
  /\ \A k, l \in 1 .. m : q[k].kind = "end" /\ q[l].kind = "end" /\ k < l => h[k] < h[l]
  /\ \A l \in 1 .. n : r[l].kind = "end" => \E k \in 1 .. m : q[k].kind = "end" /\ h[k] = l

LEMMA EndsMove ==
  ASSUME NEW u \in Seq(SUBSET Tickets), NEW q \in Seq(Messages), NEW r \in Seq(Messages),
         InOrder(u, q), NEW m, NEW n, Len(q) = m, Len(r) = n, NEW h, EndsStay(q, r, m, n, h)
  PROVE  InOrder(u, r)
<1>1. PICK f \in [1 .. Len(u) -> 1 .. Len(q)] : Ends(u, q, f)
  BY DEF InOrder
<1> DEFINE g == [i \in 1 .. Len(u) |-> h[f[i]]]
<1>2. \A i \in 1 .. Len(u) : f[i] \in 1 .. Len(q) /\ q[f[i]].kind = "end" /\ g[i] = h[f[i]]
  BY <1>1 DEF Ends
<1>3. g \in [1 .. Len(u) -> 1 .. Len(r)]
  BY <1>2 DEF EndsStay
<1> HIDE DEF g
<1>4. ASSUME NEW i \in 1 .. Len(u) PROVE r[g[i]].kind = "end" /\ r[g[i]].of = u[i]
  <2>1. r[g[i]] = q[f[i]]
    BY <1>2 DEF EndsStay
  <2> QED
    BY <1>1, <2>1 DEF Ends
<1>5. ASSUME NEW i \in 1 .. Len(u), NEW j \in 1 .. Len(u), i < j PROVE g[i] < g[j]
  <2>1. f[i] < f[j]
    BY <1>1, <1>5 DEF Ends
  <2>2. \A k, l \in 1 .. m : q[k].kind = "end" /\ q[l].kind = "end" /\ k < l => h[k] < h[l]
    BY DEF EndsStay
  <2>3. /\ f[i] \in 1 .. m /\ q[f[i]].kind = "end" /\ g[i] = h[f[i]]
        /\ f[j] \in 1 .. m /\ q[f[j]].kind = "end" /\ g[j] = h[f[j]]
    BY <1>2
  <2>4. h[f[i]] < h[f[j]]
    BY <2>1, <2>2, <2>3
  <2> QED
    BY <2>3, <2>4
<1>6. ASSUME NEW l \in 1 .. Len(r), r[l].kind = "end" PROVE \E i \in 1 .. Len(u) : g[i] = l
  <2>1. PICK k \in 1 .. Len(q) : q[k].kind = "end" /\ h[k] = l
    BY <1>6 DEF EndsStay
  <2>2. PICK i \in 1 .. Len(u) : f[i] = k
    BY <1>1, <2>1 DEF Ends
  <2> QED
    BY <1>2, <2>1, <2>2
<1> QED
  BY <1>3, <1>4, <1>5, <1>6 DEF InOrder, Ends

LEMMA OtherAppended ==
  ASSUME NEW u \in Seq(SUBSET Tickets), NEW q \in Seq(Messages), NEW m \in Messages,
         InOrder(u, q), m.kind # "end"
  PROVE  InOrder(u, Append(q, m))
<1> DEFINE r == Append(q, m)
           h == [k \in 1 .. Len(q) |-> k]
<1>1. /\ r \in Seq(Messages) /\ Len(q) \in Nat /\ Len(r) = Len(q) + 1
      /\ \A k \in 1 .. Len(q) : r[k] = q[k] /\ h[k] = k
      /\ r[Len(q) + 1] = m
  OBVIOUS
<1> HIDE DEF r, h
<1>2. \A k \in 1 .. Len(q) : h[k] \in 1 .. Len(r) /\ r[h[k]] = q[k]
  BY <1>1
<1>3. \A k, l \in 1 .. Len(q) : k < l => h[k] < h[l]
  BY <1>1
<1>4. ASSUME NEW n \in 1 .. Len(r), r[n].kind = "end"
      PROVE  \E k \in 1 .. Len(q) : q[k].kind = "end" /\ h[k] = n
  <2>1. n # Len(q) + 1
    BY <1>1, <1>4
  <2>2. n \in 1 .. Len(q)
    BY <1>1, <2>1
  <2> QED
    BY <1>1, <1>4, <2>2
<1>5. EndsStay(q, r, Len(q), Len(q) + 1, h)
  BY <1>1, <1>2, <1>3, <1>4 DEF EndsStay
<1>6. InOrder(u, r)
  BY <1>1, <1>5, EndsMove
<1> QED
  BY <1>6 DEF r

LEMMA OtherTaken ==
  ASSUME NEW u \in Seq(SUBSET Tickets), NEW q \in Seq(Messages), NEW i \in 1 .. Len(q),
         InOrder(u, q), q[i].kind # "end"
  PROVE  InOrder(u, RemoveAt(q, i))
<1> DEFINE r == RemoveAt(q, i)
           n == Len(q)
           h == [k \in 1 .. n |-> IF k < i THEN k ELSE k - 1]
<1>1. /\ r \in Seq(Messages) /\ Len(r) = n - 1 /\ n \in Nat /\ i \in 1 .. n
      /\ \A k \in 1 .. n - 1 : r[k] = q[IF k < i THEN k ELSE k + 1]
  BY RemovedShape
<1>2. \A k \in 1 .. n : h[k] = IF k < i THEN k ELSE k - 1
  OBVIOUS
<1> HIDE DEF r, h, n
<1>3. ASSUME NEW k \in 1 .. n, q[k].kind = "end"
      PROVE  h[k] \in 1 .. n - 1 /\ r[h[k]] = q[k]
  <2>1. k # i
    BY <1>3
  <2>2. CASE k < i
    BY <1>1, <1>2, <2>2
  <2>3. CASE ~(k < i)
    <3>1. h[k] = k - 1 /\ k - 1 \in 1 .. n - 1 /\ ~(k - 1 < i) /\ k - 1 + 1 = k
      BY <1>1, <1>2, <2>1, <2>3
    <3> QED
      BY <1>1, <3>1
  <2> QED
    BY <2>2, <2>3
<1>4. \A k, l \in 1 .. n : q[k].kind = "end" /\ q[l].kind = "end" /\ k < l => h[k] < h[l]
  <2> SUFFICES ASSUME NEW k \in 1 .. n, NEW l \in 1 .. n, q[k].kind = "end", q[l].kind = "end",
                      k < l
               PROVE  h[k] < h[l]
    OBVIOUS
  <2>0. q[i].kind # "end"
    OBVIOUS
  <2>1. k # i /\ k \in Int /\ l \in Int /\ i \in Int
    BY <1>1, <2>0
  <2>2. h[k] = IF k < i THEN k ELSE k - 1
    BY <1>2
  <2>3. h[l] = IF l < i THEN l ELSE l - 1
    BY <1>2
  <2>4. l # i
    BY <2>0
  <2>5. CASE k < i
    BY <2>1, <2>2, <2>3, <2>4, <2>5
  <2>6. CASE i < k
    BY <2>1, <2>2, <2>3, <2>4, <2>6
  <2> QED
    BY <2>1, <2>5, <2>6
<1>5. ASSUME NEW m \in 1 .. n - 1, r[m].kind = "end"
      PROVE  \E k \in 1 .. n : q[k].kind = "end" /\ h[k] = m
  <2>1. CASE m < i
    <3>1. m \in 1 .. n
      BY <1>1
    <3>2. h[m] = m /\ r[m] = q[m]
      BY <1>1, <1>2, <2>1, <3>1
    <3> QED
      BY <1>5, <3>1, <3>2
  <2>2. CASE ~(m < i)
    <3>1. m + 1 \in 1 .. n /\ ~(m + 1 < i) /\ m + 1 - 1 = m
      BY <1>1, <2>2
    <3>2. h[m + 1] = m /\ r[m] = q[m + 1]
      BY <1>1, <1>2, <2>2, <3>1
    <3>3. q[m + 1].kind = "end"
      BY <1>5, <3>2
    <3> QED
      BY <3>1, <3>2, <3>3
  <2> QED
    BY <2>1, <2>2
<1>6. EndsStay(q, r, n, n - 1, h)
  BY <1>3, <1>4, <1>5 DEF EndsStay
<1>7. InOrder(u, r)
  BY <1>1, <1>6, EndsMove DEF n
<1> QED
  BY <1>7 DEF r

LEMMA OtherHandled ==
  ASSUME NEW u \in Seq(SUBSET Tickets), NEW q \in Seq(Messages), 1 \in 1 .. Len(q),
         InOrder(u, q), q[1].kind # "end"
  PROVE  InOrder(u, Tail(q))
<1> DEFINE r == Tail(q)
           n == Len(q)
           h == [k \in 1 .. n |-> k - 1]
<1>1. /\ r \in Seq(Messages) /\ Len(r) = n - 1 /\ n \in Nat /\ 1 \in 1 .. n
      /\ \A k \in 1 .. n - 1 : r[k] = q[k + 1]
  BY HeadTailProperties
<1>2. \A k \in 1 .. n : h[k] = k - 1
  OBVIOUS
<1> HIDE DEF r, h, n
<1>3. ASSUME NEW k \in 1 .. n, q[k].kind = "end"
      PROVE  h[k] \in 1 .. n - 1 /\ r[h[k]] = q[k]
  <2>1. k # 1
    BY <1>3
  <2>2. k - 1 \in 1 .. n - 1 /\ k - 1 + 1 = k
    BY <1>1, <2>1
  <2> QED
    BY <1>1, <1>2, <2>2
<1>4. \A k, l \in 1 .. n : k < l => h[k] < h[l]
  BY <1>1, <1>2
<1>5. ASSUME NEW m \in 1 .. n - 1, r[m].kind = "end"
      PROVE  \E k \in 1 .. n : q[k].kind = "end" /\ h[k] = m
  <2>1. m + 1 \in 1 .. n /\ m + 1 - 1 = m
    BY <1>1
  <2>2. r[m] = q[m + 1]
    BY <1>1
  <2>3. h[m + 1] = m + 1 - 1
    BY <1>2, <2>1
  <2> QED
    BY <1>5, <2>1, <2>2, <2>3
<1>6. EndsStay(q, r, n, n - 1, h)
  BY <1>3, <1>4, <1>5 DEF EndsStay
<1>7. InOrder(u, r)
  BY <1>1, <1>6, EndsMove DEF n
<1> QED
  BY <1>7 DEF r

\* The first end is handled: its book is no longer under way.
LEMMA EndHandled ==
  ASSUME NEW u \in Seq(SUBSET Tickets), NEW q \in Seq(Messages), 1 \in 1 .. Len(q),
         InOrder(u, q), q[1].kind = "end"
  PROVE  InOrder(Tail(u), Tail(q))
<1> DEFINE r == Tail(q)
           v == Tail(u)
           n == Len(q)
           c == Len(u)
<1>0. u # <<>> /\ q # <<>>
  BY EndIsUnderway
<1>1. /\ Len(r) = n - 1 /\ n \in Nat /\ 1 \in 1 .. n
      /\ \A k \in 1 .. n - 1 : r[k] = q[k + 1]
  BY <1>0, HeadTailProperties
<1>2. /\ Len(v) = c - 1 /\ c \in Nat /\ 1 \in 1 .. c
      /\ \A i \in 1 .. c - 1 : v[i] = u[i + 1]
  BY <1>0, HeadTailProperties
<1>3. PICK f \in [1 .. c -> 1 .. n] : Ends(u, q, f)
  BY DEF InOrder
<1> DEFINE g == [i \in 1 .. c - 1 |-> f[i + 1] - 1]
<1>4. \A i \in 1 .. c - 1 : g[i] = f[i + 1] - 1
  OBVIOUS
<1>5. g = [i \in 1 .. c - 1 |-> g[i]]
  OBVIOUS
<1>6. /\ \A i \in 1 .. c : q[f[i]].kind = "end" /\ q[f[i]].of = u[i]
      /\ \A i, j \in 1 .. c : i < j => f[i] < f[j]
      /\ \A k \in 1 .. n : q[k].kind = "end" => \E i \in 1 .. c : f[i] = k
  BY <1>3 DEF Ends
<1> HIDE DEF r, v, n, c, g
<1>7. f[1] = 1
  <2>1. PICK i \in 1 .. c : f[i] = 1
    BY <1>1, <1>6 DEF n
  <2>2. f[1] \in 1 .. n /\ i \in Int /\ ~(1 < i)
    BY <1>1, <1>2, <1>3, <1>6, <2>1
  <2> QED
    BY <1>2, <2>1, <2>2
<1>8. ASSUME NEW i \in 1 .. c - 1
      PROVE  i + 1 \in 1 .. c /\ g[i] \in 1 .. n - 1 /\ g[i] + 1 = f[i + 1]
  <2>1. i + 1 \in 1 .. c /\ 1 < i + 1
    BY <1>2
  <2>2. f[1] < f[i + 1] /\ f[i + 1] \in 1 .. n
    BY <1>2, <1>3, <1>6, <2>1
  <2> QED
    BY <1>1, <1>4, <1>7, <2>1, <2>2
<1>9. g \in [1 .. c - 1 -> 1 .. n - 1]
  BY <1>5, <1>8
<1>10. ASSUME NEW i \in 1 .. c - 1 PROVE r[g[i]].kind = "end" /\ r[g[i]].of = v[i]
  <2>1. i + 1 \in 1 .. c /\ r[g[i]] = q[f[i + 1]]
    BY <1>1, <1>8
  <2>2. q[f[i + 1]].kind = "end" /\ q[f[i + 1]].of = u[i + 1]
    BY <1>6, <2>1
  <2>3. v[i] = u[i + 1]
    BY <1>2
  <2> QED
    BY <2>1, <2>2, <2>3
<1>11. ASSUME NEW i \in 1 .. c - 1, NEW j \in 1 .. c - 1, i < j PROVE g[i] < g[j]
  <2>1. i + 1 < j + 1
    BY <1>2, <1>11
  <2>2. f[i + 1] < f[j + 1]
    BY <1>6, <1>8, <2>1
  <2>3. f[i + 1] \in Int /\ f[j + 1] \in Int
    <3>1. i + 1 \in 1 .. c /\ j + 1 \in 1 .. c
      BY <1>8
    <3>2. \A k \in 1 .. n : k \in Int
      OBVIOUS
    <3> QED
      BY <1>3, <3>1, <3>2
  <2> QED
    BY <1>4, <2>2, <2>3
<1>12. ASSUME NEW k \in 1 .. n - 1, r[k].kind = "end" PROVE \E i \in 1 .. c - 1 : g[i] = k
  <2>1. k + 1 \in 1 .. n /\ k + 1 # 1 /\ r[k] = q[k + 1]
    BY <1>1
  <2>2. PICK j \in 1 .. c : f[j] = k + 1
    BY <1>6, <1>12, <2>1
  <2>3. j # 1
    BY <1>7, <2>1, <2>2
  <2>4. j - 1 \in 1 .. c - 1 /\ j - 1 + 1 = j
    BY <1>2, <2>3
  <2>5. g[j - 1] = k
    BY <1>1, <1>4, <2>2, <2>4
  <2> QED
    BY <2>4, <2>5
<1>13. InOrder(v, r)
  <2>1. g \in [1 .. Len(v) -> 1 .. Len(r)] /\ Ends(v, r, g)
    BY <1>1, <1>2, <1>9, <1>10, <1>11, <1>12 DEF Ends
  <2> QED
    BY <2>1 DEF InOrder
<1> QED
  BY <1>13 DEF v, r

\* One more snapshot ends behind the others.
LEMMA BurstAppended ==
  ASSUME NEW u \in Seq(SUBSET Tickets), NEW q \in Seq(Messages), NEW b \in SUBSET Tickets,
         InOrder(u, q)
  PROVE  InOrder(Append(u, b), q \o Burst(b))
<1> DEFINE s == Burst(b)
           r == q \o s
           n == Len(q)
           v == Append(u, b)
           d == Len(u)
<1>1. PICK c \in Nat :
        /\ s \in Seq(Messages) /\ Len(s) = c + 2
        /\ s[1].kind = "begin"
        /\ \A i \in 1 .. c : \E t \in Tickets : s[i + 1] = Position(t)
        /\ s[c + 2] = End(b)
  <2>1. PICK c \in Nat : \E f \in [1 .. c -> b] :
          /\ s \in Seq(Messages) /\ Len(s) = c + 2
          /\ s[1].kind = "begin"
          /\ \A i \in 1 .. c : s[i + 1] = Position(f[i])
          /\ s[c + 2] = End(b)
    BY BurstShape
  <2>2. PICK f \in [1 .. c -> b] :
          /\ s \in Seq(Messages) /\ Len(s) = c + 2
          /\ s[1].kind = "begin"
          /\ \A i \in 1 .. c : s[i + 1] = Position(f[i])
          /\ s[c + 2] = End(b)
    BY <2>1
  <2> HIDE DEF s
  <2>3. \A i \in 1 .. c : f[i] \in Tickets
    OBVIOUS
  <2> QED
    BY <2>2, <2>3
<1> HIDE DEF s
<1>2. /\ n \in Nat /\ Len(r) = n + (c + 2)
      /\ \A i \in 1 .. n + (c + 2) : r[i] = IF i <= n THEN q[i] ELSE s[i - n]
  <2>1. Joined(q, s, n, c + 2)
    BY <1>1, ConcatShape
  <2> QED
    BY <2>1 DEF Joined
<1>3. /\ d \in Nat /\ Len(v) = d + 1
      /\ \A i \in 1 .. d : v[i] = u[i]
      /\ v[d + 1] = b
  OBVIOUS
<1>4. PICK f \in [1 .. d -> 1 .. n] : Ends(u, q, f)
  BY DEF InOrder
<1>5. /\ \A i \in 1 .. d : q[f[i]].kind = "end" /\ q[f[i]].of = u[i]
      /\ \A i, j \in 1 .. d : i < j => f[i] < f[j]
      /\ \A k \in 1 .. n : q[k].kind = "end" => \E i \in 1 .. d : f[i] = k
  BY <1>4 DEF Ends
<1> HIDE DEF r, n, v, d
<1> DEFINE last == n + (c + 2)
           g == [i \in 1 .. d + 1 |-> IF i = d + 1 THEN last ELSE f[i]]
<1>6. last \in Int /\ n < last /\ last \in 1 .. last /\ n + 1 \in 1 .. last
  BY <1>1, <1>2
<1>7. g[d + 1] = last /\ \A i \in 1 .. d : g[i] = f[i] /\ i \in 1 .. d + 1 /\ i # d + 1
  BY <1>3
<1>8. \A i \in 1 .. d : f[i] \in 1 .. n /\ f[i] \in 1 .. last /\ f[i] < last
  BY <1>2, <1>4, <1>6
<1>9. g \in [1 .. d + 1 -> 1 .. last]
  <2>1. \A i \in 1 .. d + 1 : i = d + 1 \/ i \in 1 .. d
    BY <1>3
  <2> QED
    BY <1>6, <1>8, <2>1
<1> HIDE DEF g
<1>10. r[last] = End(b) /\ r[last].kind = "end" /\ r[last].of = b
  <2>1. ~(last <= n) /\ last - n = c + 2
    BY <1>1, <1>2
  <2>2. r[last] = s[c + 2]
    BY <1>2, <1>6, <2>1
  <2> QED
    BY <1>1, <2>2, MessagesHaveKinds
<1>11. \A k \in 1 .. n : r[k] = q[k]
  BY <1>1, <1>2
<1>12. ASSUME NEW k \in 1 .. last, k # last, ~(k <= n) PROVE r[k].kind # "end"
  <2>1. r[k] = s[k - n]
    BY <1>2, <1>12
  <2>2. CASE k - n = 1
    BY <1>1, <2>1, <2>2
  <2>3. CASE k - n # 1
    <3>1. k - n - 1 \in 1 .. c /\ k - n - 1 + 1 = k - n
      BY <1>1, <1>2, <1>12, <2>3
    <3>2. PICK t \in Tickets : s[k - n] = Position(t)
      BY <1>1, <3>1
    <3> QED
      BY <2>1, <3>2, MessagesHaveKinds
  <2> QED
    BY <2>2, <2>3
<1>13. ASSUME NEW i \in 1 .. d + 1 PROVE r[g[i]].kind = "end" /\ r[g[i]].of = v[i]
  <2>1. CASE i = d + 1
    BY <1>3, <1>7, <1>10, <2>1
  <2>2. CASE i # d + 1
    <3>1. i \in 1 .. d
      BY <1>3, <2>2
    <3> QED
      BY <1>3, <1>5, <1>7, <1>8, <1>11, <3>1
  <2> QED
    BY <2>1, <2>2
<1>14. ASSUME NEW i \in 1 .. d + 1, NEW j \in 1 .. d + 1, i < j PROVE g[i] < g[j]
  <2>1. i \in 1 .. d
    BY <1>3, <1>14
  <2>2. CASE j = d + 1
    BY <1>7, <1>8, <2>1, <2>2
  <2>3. CASE j # d + 1
    <3>1. j \in 1 .. d
      BY <1>3, <2>3
    <3> QED
      BY <1>5, <1>7, <1>14, <2>1, <3>1
  <2> QED
    BY <2>2, <2>3
<1>15. ASSUME NEW k \in 1 .. last, r[k].kind = "end" PROVE \E i \in 1 .. d + 1 : g[i] = k
  <2>1. CASE k = last
    <3>1. d + 1 \in 1 .. d + 1
      BY <1>3
    <3> QED
      BY <1>7, <2>1, <3>1
  <2>2. CASE k # last
    <3>1. k \in 1 .. n
      BY <1>2, <1>6, <1>12, <1>15, <2>2
    <3> QED
      BY <1>5, <1>7, <1>11, <1>15, <3>1
  <2> QED
    BY <2>1, <2>2
<1>16. InOrder(v, r)
  <2>1. g \in [1 .. Len(v) -> 1 .. Len(r)]
    BY <1>2, <1>3, <1>9
  <2>2. Ends(v, r, g)
    BY <1>2, <1>3, <1>13, <1>14, <1>15 DEF Ends
  <2> QED
    BY <2>1, <2>2 DEF InOrder
<1> QED
  BY <1>16 DEF v, r, s

-----------------------------------------------------------------------------
(* Every step keeps it *)

LEMMA InitHolds == Init => FlowInv
<1> SUFFICES ASSUME Init PROVE FlowInv
  OBVIOUS
<1>1. TypeOK
  BY DEF Init, TypeOK
<1>2. WokenAfterPrepare /\ StoreWasReal /\ MissedOnlyIfSuperseded
  BY DEF Init, WokenAfterPrepare, StoreWasReal, MissedOnlyIfSuperseded
<1>3. Whole(pending, inbox)
  BY DEF Init, Whole
<1> QED
  BY <1>1, <1>2, <1>3 DEF FlowInv, Consistent

\* The EA writes: the rest of the server is as it was.
LEMMA StreamKeeps ==
  ASSUME FlowInv, NEW burst, Stream(burst), underway' \in Seq(SUBSET Tickets),
         inbox \o burst \in Seq(Messages) /\ Whole(pending, inbox \o burst)
  PROVE  FlowInv'
<1>1. TypeOK'
  BY DEF FlowInv, Consistent, TypeOK, Stream, link, waits
<1>2. (WokenAfterPrepare /\ StoreWasReal /\ MissedOnlyIfSuperseded)'
  BY DEF FlowInv, Consistent, WokenAfterPrepare, StoreWasReal, MissedOnlyIfSuperseded,
         Stream, link, waits
<1>3. Whole(pending, inbox)'
  BY DEF Stream
<1> QED
  BY <1>1, <1>2, <1>3 DEF FlowInv, Consistent

\* One more book is under way.
LEMMA BooksUnderway ==
  ASSUME FlowInv, NEW b \in SUBSET Tickets
  PROVE  Append(underway, b) \in Seq(SUBSET Tickets)
  BY DEF FlowInv, Consistent, TypeOK

LEMMA StreamPositionsKeeps == ASSUME FlowInv, StreamPositions PROVE FlowInv'
<1>1. inbox \in Seq(Messages) /\ book \in SUBSET Tickets /\ Whole(pending, inbox)
  BY DEF FlowInv, Consistent, TypeOK
<1>2. inbox \o Burst(book) \in Seq(Messages) /\ Whole(pending, inbox \o Burst(book))
  BY <1>1, BurstIsWhole
<1>3. underway' \in Seq(SUBSET Tickets)
  BY <1>1, BooksUnderway DEF StreamPositions
<1> QED
  BY <1>2, <1>3, StreamKeeps DEF StreamPositions

LEMMA StreamPriceKeeps == ASSUME FlowInv, StreamPrice PROVE FlowInv'
<1>1. inbox \in Seq(Messages) /\ Whole(pending, inbox)
  BY DEF FlowInv, Consistent, TypeOK
<1>2. PICK m : m = Message("tick")
  OBVIOUS
<1>3. m \in Messages /\ m.kind = "tick"
  BY <1>2, MessagesHaveKinds
<1>4. Append(inbox, m) \in Seq(Messages) /\ Whole(pending, Append(inbox, m))
  BY <1>1, <1>3, OneMoreIsWhole
<1>5. inbox \o <<m>> = Append(inbox, m)
  BY <1>1, <1>3, AppendIsConcat
<1>6. underway' \in Seq(SUBSET Tickets)
  BY DEF StreamPrice, FlowInv, Consistent, TypeOK
<1> QED
  BY <1>2, <1>4, <1>5, <1>6, StreamKeeps DEF StreamPrice

LEMMA AnswerGetKeeps == ASSUME FlowInv, AnswerGet PROVE FlowInv'
<1>1. inbox \in Seq(Messages) /\ book \in SUBSET Tickets /\ Whole(pending, inbox)
      /\ commands \in Seq({"get", "order"})
  BY DEF FlowInv, Consistent, TypeOK
<1>2. inbox' \in Seq(Messages) /\ Whole(pending, inbox')
  BY <1>1, BurstIsWhole DEF AnswerGet
<1>3. up /\ commands' \in Seq({"get", "order"})
  BY <1>1 DEF AnswerGet, FlowInv, Consistent, TypeOK
<1>4. TypeOK'
  <2>1. underway' \in Seq(SUBSET Tickets)
    BY <1>1, BooksUnderway DEF AnswerGet
  <2> QED
    BY <1>2, <1>3, <2>1 DEF FlowInv, Consistent, TypeOK, AnswerGet, link, waits
<1>5. (WokenAfterPrepare /\ StoreWasReal /\ MissedOnlyIfSuperseded)'
  BY DEF FlowInv, Consistent, WokenAfterPrepare, StoreWasReal, MissedOnlyIfSuperseded,
         AnswerGet, link, waits
<1>6. Whole(pending, inbox)'
  BY <1>2 DEF AnswerGet
<1> QED
  BY <1>4, <1>5, <1>6 DEF FlowInv, Consistent

LEMMA AnswerOrderKeeps == ASSUME FlowInv, AnswerOrder PROVE FlowInv'
<1>1. inbox \in Seq(Messages) /\ book \in SUBSET Tickets /\ Whole(pending, inbox)
      /\ commands \in Seq({"get", "order"})
  BY DEF FlowInv, Consistent, TypeOK
<1>2. PICK q : q = Append(inbox, Message("result"))
  OBVIOUS
<1>3. q \in Seq(Messages) /\ Whole(pending, q)
  <2>1. Message("result") \in Messages /\ Message("result").kind # "end"
    BY MessagesHaveKinds
  <2> QED
    BY <1>1, <1>2, <2>1, OneMoreIsWhole
<1>4. book' \in SUBSET Tickets /\ (inbox' = q \/ inbox' = q \o Burst(book'))
  BY <1>1, <1>2 DEF AnswerOrder
<1>5. inbox' \in Seq(Messages) /\ Whole(pending, inbox')
  BY <1>3, <1>4, BurstIsWhole
<1>6. up /\ commands' \in Seq({"get", "order"})
  BY <1>1 DEF AnswerOrder, FlowInv, Consistent, TypeOK
<1>7. TypeOK'
  <2>1. underway' \in Seq(SUBSET Tickets)
    <3>1. CASE UNCHANGED underway
      BY <3>1 DEF FlowInv, Consistent, TypeOK
    <3>2. CASE underway' = Append(underway, book')
      BY <1>4, <3>2, BooksUnderway
    <3> QED
      BY <3>1, <3>2 DEF AnswerOrder
  <2> QED
    BY <1>4, <1>5, <1>6, <2>1 DEF FlowInv, Consistent, TypeOK, AnswerOrder, link, waits
<1>8. (WokenAfterPrepare /\ StoreWasReal /\ MissedOnlyIfSuperseded)'
  BY DEF FlowInv, Consistent, WokenAfterPrepare, StoreWasReal, MissedOnlyIfSuperseded,
         AnswerOrder, link, waits
<1>9. Whole(pending, inbox)'
  BY <1>5 DEF AnswerOrder
<1> QED
  BY <1>7, <1>8, <1>9 DEF FlowInv, Consistent

LEMMA TradeKeeps == ASSUME FlowInv, Trade PROVE FlowInv'
<1>1. TypeOK'
  BY DEF FlowInv, Consistent, TypeOK, Trade, link, waits
<1>2. (WokenAfterPrepare /\ StoreWasReal /\ MissedOnlyIfSuperseded)'
  BY DEF FlowInv, Consistent, WokenAfterPrepare, StoreWasReal, MissedOnlyIfSuperseded,
         Trade, link, waits
<1>3. Whole(pending, inbox)'
  BY DEF FlowInv, Trade
<1> QED
  BY <1>1, <1>2, <1>3 DEF FlowInv, Consistent

LEMMA ReadReplyKeeps == ASSUME FlowInv, ReadReply PROVE FlowInv'
<1>1. inbox \in Seq(Messages) /\ Whole(pending, inbox)
  BY DEF FlowInv, Consistent, TypeOK
<1>2. PICK i \in 1 .. Len(inbox) : inbox[i].kind = "result" /\ inbox' = RemoveAt(inbox, i)
  BY DEF ReadReply, Immediate
<1>3. inbox' \in Seq(Messages) /\ Whole(pending, inbox')
  BY <1>1, <1>2, RemovedIsWhole
<1>4. up
  BY <1>2 DEF FlowInv, Consistent, TypeOK
<1>5. TypeOK'
  BY <1>3, <1>4 DEF FlowInv, Consistent, TypeOK, ReadReply, link, waits
<1>6. (WokenAfterPrepare /\ StoreWasReal /\ MissedOnlyIfSuperseded)'
  BY DEF FlowInv, Consistent, WokenAfterPrepare, StoreWasReal, MissedOnlyIfSuperseded,
         ReadReply, link, waits
<1>7. Whole(pending, inbox)'
  BY <1>3 DEF ReadReply
<1> QED
  BY <1>5, <1>6, <1>7 DEF FlowInv, Consistent

\* The first message, and that a connection is there to have brought it.
LEMMA HeadIsMessage ==
  ASSUME FlowInv, inbox # <<>>
  PROVE  /\ inbox \in Seq(Messages) /\ Whole(pending, inbox) /\ up
         /\ Head(inbox) = inbox[1] /\ inbox[1] \in Messages /\ 1 \in 1 .. Len(inbox)
<1>1. inbox \in Seq(Messages) /\ Whole(pending, inbox) /\ up
  BY DEF FlowInv, Consistent, TypeOK
<1> QED
  BY <1>1

LEMMA HandlePositionKeeps == ASSUME FlowInv, HandlePosition PROVE FlowInv'
<1>1. inbox # <<>>
  BY DEF HandlePosition
<1>2. /\ inbox \in Seq(Messages) /\ Whole(pending, inbox) /\ up
      /\ Head(inbox) = inbox[1] /\ inbox[1] \in Messages
  BY <1>1, HeadIsMessage
<1>3. \/ inbox[1].kind = "begin" /\ pending' = {}
      \/ inbox[1].kind = "position" /\ pending' = pending \cup {inbox[1].ticket}
  BY <1>2 DEF HandlePosition
<1>4. inbox[1].kind = "position" => inbox[1].ticket \in Tickets
  BY <1>2 DEF Messages
<1>5. \A t \in Tickets : t \in pending' <=> \/ t \in pending /\ inbox[1].kind # "begin"
                                            \/ Shows(inbox, 1, t)
  BY <1>3 DEF Shows
<1>6. inbox[1].kind # "end"
  BY <1>3
<1>7. PICK d : d = pending'
  OBVIOUS
<1>8. Tail(inbox) \in Seq(Messages) /\ Whole(d, Tail(inbox))
  BY <1>1, <1>2, <1>5, <1>6, <1>7, TailIsWhole
<1>9. inbox' = Tail(inbox) /\ pending' \subseteq Tickets
  BY <1>3, <1>4 DEF HandlePosition, FlowInv, Consistent, TypeOK
<1>10. TypeOK'
  BY <1>2, <1>8, <1>9 DEF FlowInv, Consistent, TypeOK, HandlePosition, link, waits
<1>11. (WokenAfterPrepare /\ StoreWasReal /\ MissedOnlyIfSuperseded)'
  BY DEF FlowInv, Consistent, WokenAfterPrepare, StoreWasReal, MissedOnlyIfSuperseded,
         HandlePosition, link, waits
<1>12. Whole(pending, inbox)'
  BY <1>7, <1>8, <1>9
<1> QED
  BY <1>10, <1>11, <1>12 DEF FlowInv, Consistent

\* What is pending when the worker comes to the end of a burst is the book the
\* burst was made from; the Event of the current waiter is set.
LEMMA HandleEndKeeps == ASSUME ChannelInv, HandleEnd PROVE FlowInv'
<1>0. FlowInv
  BY DEF ChannelInv
<1>1. inbox # <<>> /\ inbox' = Tail(inbox) /\ pending' = {} /\ store' = pending
  BY DEF HandleEnd, Replaced
<1>2. /\ inbox \in Seq(Messages) /\ Whole(pending, inbox) /\ up
      /\ Head(inbox) = inbox[1] /\ inbox[1] \in Messages /\ 1 \in 1 .. Len(inbox)
  BY <1>0, <1>1, HeadIsMessage
<1>3. inbox[1].kind = "end" /\ shown' = inbox[1].of
  BY <1>2 DEF HandleEnd
<1>4. shown' \subseteq Tickets
  BY <1>2, <1>3 DEF Messages
<1>5. pending = shown'
  <2>1. \A t \in Tickets : Has(pending, inbox, 1, t) <=> t \in shown'
    BY <1>2, <1>3 DEF Whole
  <2>2. \A t : Has(pending, inbox, 1, t) <=> t \in pending
    BY DEF Has, NoBegin
  <2>3. pending \subseteq Tickets
    BY <1>0 DEF FlowInv, Consistent, TypeOK
  <2> QED
    BY <1>4, <2>1, <2>2, <2>3
<1>6. Tail(inbox) \in Seq(Messages) /\ Whole({}, Tail(inbox))
  BY <1>1, <1>2, <1>3, TailIsWhole
<1>7. TypeOK'
  <2>1. underway \in Seq(SUBSET Tickets) /\ underway # <<>>
    BY <1>0, <1>2, <1>3, EndIsUnderway DEF ChannelInv, FlowInv, Consistent, TypeOK
  <2>2. underway' \in Seq(SUBSET Tickets)
    BY <2>1, HeadTailProperties DEF HandleEnd
  <2> QED
    BY <1>0, <1>1, <1>2, <1>4, <1>6, <2>2 DEF FlowInv, Consistent, TypeOK, HandleEnd, Wakes, link, waits
<1>8. StoreWasReal'
  BY <1>1, <1>5 DEF StoreWasReal
<1>9. WokenAfterPrepare'
  BY <1>7 DEF WokenAfterPrepare, HandleEnd, TypeOK
<1>10. MissedOnlyIfSuperseded'
  <2>1. \A w \in Waiters : current = w => w \in signalled'
    BY DEF HandleEnd, Wakes
  <2> QED
    BY <2>1 DEF MissedOnlyIfSuperseded, HandleEnd
<1>11. Whole(pending, inbox)'
  BY <1>1, <1>6
<1> QED
  BY <1>7, <1>8, <1>9, <1>10, <1>11 DEF FlowInv, Consistent

LEMMA HandleTickKeeps == ASSUME FlowInv, HandleTick PROVE FlowInv'
<1>1. inbox # <<>> /\ inbox' = Tail(inbox) /\ pending' = pending
  BY DEF HandleTick
<1>2. /\ inbox \in Seq(Messages) /\ Whole(pending, inbox) /\ up
      /\ Head(inbox) = inbox[1] /\ inbox[1] \in Messages
  BY <1>1, HeadIsMessage
<1>3. inbox[1].kind = "tick"
  BY <1>2 DEF HandleTick
<1>4. \A t \in Tickets : t \in pending <=> \/ t \in pending /\ inbox[1].kind # "begin"
                                           \/ Shows(inbox, 1, t)
  BY <1>3 DEF Shows
<1>5. Tail(inbox) \in Seq(Messages) /\ Whole(pending, Tail(inbox))
  BY <1>1, <1>2, <1>3, <1>4, TailIsWhole
<1>6. commands' \in Seq({"get", "order"}) /\ worker' \in {"idle", "order"}
  <2>1. commands \in Seq({"get", "order"}) /\ worker \in {"idle", "order"}
    BY DEF FlowInv, Consistent, TypeOK
  <2>2. Append(commands, "order") \in Seq({"get", "order"})
    BY <2>1
  <2> QED
    BY <2>1, <2>2 DEF HandleTick
<1>7. TypeOK'
  BY <1>1, <1>2, <1>5, <1>6 DEF FlowInv, Consistent, TypeOK, HandleTick, link, waits
<1>8. (WokenAfterPrepare /\ StoreWasReal /\ MissedOnlyIfSuperseded)'
  BY DEF FlowInv, Consistent, WokenAfterPrepare, StoreWasReal, MissedOnlyIfSuperseded,
         HandleTick, link, waits
<1>9. Whole(pending, inbox)'
  BY <1>1, <1>5
<1> QED
  BY <1>7, <1>8, <1>9 DEF FlowInv, Consistent

LEMMA OrderTimeoutKeeps == ASSUME FlowInv, OrderTimeout PROVE FlowInv'
<1>1. TypeOK'
  BY DEF FlowInv, Consistent, TypeOK, OrderTimeout, link, waits
<1>2. (WokenAfterPrepare /\ StoreWasReal /\ MissedOnlyIfSuperseded)'
  BY DEF FlowInv, Consistent, WokenAfterPrepare, StoreWasReal, MissedOnlyIfSuperseded,
         OrderTimeout, link, waits
<1>3. Whole(pending, inbox)'
  BY DEF FlowInv, OrderTimeout
<1> QED
  BY <1>1, <1>2, <1>3 DEF FlowInv, Consistent

\* A new Event: its owner has missed nothing yet, and is now the one to wake.
LEMMA RefreshKeeps == ASSUME FlowInv, NEW w \in Waiters, Refresh(w) PROVE FlowInv'
<1>1. commands' \in Seq({"get", "order"})
  BY DEF FlowInv, Consistent, TypeOK, Refresh
<1>2. TypeOK'
  BY <1>1 DEF FlowInv, Consistent, TypeOK, Refresh, Renewed, link
<1>3. (WokenAfterPrepare /\ StoreWasReal)'
  BY DEF FlowInv, Consistent, WokenAfterPrepare, StoreWasReal, Refresh, Renewed
<1>4. MissedOnlyIfSuperseded'
  <2> SUFFICES ASSUME NEW v \in Waiters, v \in replaced' PROVE current' # v
    BY DEF MissedOnlyIfSuperseded
  <2> QED
    BY DEF Refresh
<1>5. Whole(pending, inbox)'
  BY DEF FlowInv, Refresh
<1> QED
  BY <1>2, <1>3, <1>4, <1>5 DEF FlowInv, Consistent

\* refresh_snapshot returns, woken or timed out.
LEMMA ReturnKeeps ==
  ASSUME FlowInv, NEW w \in Waiters, Wake(w) \/ WaitTimeout(w) PROVE FlowInv'
<1>1. /\ waiter' = [waiter EXCEPT ![w] = "idle"]
      /\ UNCHANGED <<link, book, commands, inbox, underway, worker, pending, store, current,
                     signalled, shown, replaced>>
  BY DEF Wake, WaitTimeout
<1>2. TypeOK'
  BY <1>1 DEF FlowInv, Consistent, TypeOK, link
<1>3. (WokenAfterPrepare /\ StoreWasReal)'
  BY <1>1 DEF FlowInv, Consistent, WokenAfterPrepare, StoreWasReal
<1>4. MissedOnlyIfSuperseded'
  <2>1. \A v \in Waiters : waiter'[v] = "waiting" => waiter[v] = "waiting"
    BY <1>1 DEF FlowInv, Consistent, TypeOK
  <2> QED
    BY <1>1, <2>1 DEF FlowInv, MissedOnlyIfSuperseded
<1>5. Whole(pending, inbox)'
  BY <1>1 DEF FlowInv
<1> QED
  BY <1>2, <1>3, <1>4, <1>5 DEF FlowInv, Consistent

\* What is lost with a connection leaves a burst without its end, or no burst.
LEMMA DisconnectKeeps == ASSUME FlowInv, Disconnect PROVE FlowInv'
<1>1. TypeOK'
  <2>1. /\ commands' \in Seq({"get", "order"}) /\ inbox' \in Seq(Messages)
        /\ underway' \in Seq(SUBSET Tickets)
    BY DEF Disconnect
  <2> QED
    BY <2>1 DEF FlowInv, Consistent, TypeOK, Disconnect, waits
<1>2. (WokenAfterPrepare /\ StoreWasReal /\ MissedOnlyIfSuperseded)'
  BY DEF FlowInv, Consistent, WokenAfterPrepare, StoreWasReal, MissedOnlyIfSuperseded,
         Disconnect, waits
<1>3. Whole(pending, inbox)'
  BY DEF Disconnect, Whole
<1> QED
  BY <1>1, <1>2, <1>3 DEF FlowInv, Consistent

LEMMA ConnectKeeps == ASSUME FlowInv, Connect PROVE FlowInv'
<1>1. TypeOK'
  BY DEF FlowInv, Consistent, TypeOK, Connect, waits
<1>2. (WokenAfterPrepare /\ StoreWasReal /\ MissedOnlyIfSuperseded)'
  BY DEF FlowInv, Consistent, WokenAfterPrepare, StoreWasReal, MissedOnlyIfSuperseded,
         Connect, waits
<1>3. Whole(pending, inbox)'
  BY DEF FlowInv, Connect
<1> QED
  BY <1>1, <1>2, <1>3 DEF FlowInv, Consistent

LEMMA StutterKeeps == ASSUME FlowInv, UNCHANGED vars PROVE FlowInv'
  BY DEF vars, FlowInv, Consistent, TypeOK, WokenAfterPrepare, StoreWasReal,
         MissedOnlyIfSuperseded, Whole, Has, NoBegin, Shows

LEMMA FlowInvKept ==
  ASSUME ChannelInv, [Next]_vars
  PROVE  FlowInv'
<1>0. FlowInv
  BY DEF ChannelInv
<1>1. CASE StreamPositions
  BY <1>0, <1>1, StreamPositionsKeeps
<1>2. CASE StreamPrice
  BY <1>0, <1>2, StreamPriceKeeps
<1>3. CASE AnswerGet
  BY <1>0, <1>3, AnswerGetKeeps
<1>4. CASE AnswerOrder
  BY <1>0, <1>4, AnswerOrderKeeps
<1>5. CASE Trade
  BY <1>0, <1>5, TradeKeeps
<1>6. CASE ReadReply
  BY <1>0, <1>6, ReadReplyKeeps
<1>7. CASE HandlePosition
  BY <1>0, <1>7, HandlePositionKeeps
<1>8. CASE HandleEnd
  BY <1>8, HandleEndKeeps
<1>9. CASE HandleTick
  BY <1>0, <1>9, HandleTickKeeps
<1>10. CASE OrderTimeout
  BY <1>0, <1>10, OrderTimeoutKeeps
<1>11. CASE \E w \in Waiters : Refresh(w)
  BY <1>0, <1>11, RefreshKeeps
<1>12. CASE \E w \in Waiters : Wake(w) \/ WaitTimeout(w)
  BY <1>0, <1>12, ReturnKeeps
<1>13. CASE Disconnect
  BY <1>0, <1>13, DisconnectKeeps
<1>14. CASE Connect
  BY <1>0, <1>14, ConnectKeeps
<1>15. CASE UNCHANGED vars
  BY <1>0, <1>15, StutterKeeps
<1> QED
  BY <1>1, <1>2, <1>3, <1>4, <1>5, <1>6, <1>7, <1>8, <1>9, <1>10, <1>11, <1>12,
     <1>13, <1>14, <1>15 DEF Next, Answer, Handle

\* The books under way are those of the snapshots that end in the inbox.
LEMMA OrderKept ==
  ASSUME ChannelInv, [Next]_vars
  PROVE  InOrder(underway, inbox)'
<1>0. FlowInv /\ InOrder(underway, inbox)
  BY DEF ChannelInv
<1>1. /\ underway \in Seq(SUBSET Tickets) /\ inbox \in Seq(Messages) /\ book \in SUBSET Tickets
      /\ inbox # <<>> => Head(inbox) = inbox[1] /\ 1 \in 1 .. Len(inbox)
  BY <1>0 DEF FlowInv, Consistent, TypeOK
<1>2. CASE StreamPositions
  BY <1>0, <1>1, <1>2, BurstAppended DEF StreamPositions, Stream
<1>3. CASE StreamPrice
  <2>1. PICK m : m = Message("tick")
    OBVIOUS
  <2>2. m \in Messages /\ m.kind # "end" /\ inbox \o <<m>> = Append(inbox, m)
    BY <1>1, <2>1, MessagesHaveKinds, AppendIsConcat
  <2> QED
    BY <1>0, <1>1, <1>3, <2>1, <2>2, OtherAppended DEF StreamPrice, Stream
<1>4. CASE AnswerGet
  BY <1>0, <1>1, <1>4, BurstAppended DEF AnswerGet
<1>5. CASE AnswerOrder
  <2>1. PICK m : m = Message("result")
    OBVIOUS
  <2>2. m \in Messages /\ m.kind # "end" /\ Append(inbox, m) \in Seq(Messages)
    BY <1>1, <2>1, MessagesHaveKinds
  <2>3. InOrder(underway, Append(inbox, m))
    BY <1>0, <1>1, <2>2, OtherAppended
  <2>4. CASE inbox' = Append(inbox, m) /\ UNCHANGED underway
    BY <2>3, <2>4
  <2>5. CASE /\ inbox' = Append(inbox, m) \o Burst(book') /\ underway' = Append(underway, book')
             /\ book' \in SUBSET Tickets
    BY <1>1, <2>2, <2>3, <2>5, BurstAppended
  <2> QED
    BY <1>1, <1>5, <2>1, <2>4, <2>5 DEF AnswerOrder
<1>6. CASE ReadReply
  <2>1. PICK i \in 1 .. Len(inbox) : inbox[i].kind = "result" /\ inbox' = RemoveAt(inbox, i)
    BY <1>6 DEF ReadReply, Immediate
  <2> QED
    BY <1>0, <1>1, <1>6, <2>1, OtherTaken DEF ReadReply
<1>7. CASE HandlePosition
  <2>1. inbox # <<>> /\ inbox[1].kind # "end" /\ inbox' = Tail(inbox) /\ UNCHANGED underway
    BY <1>1, <1>7 DEF HandlePosition
  <2> QED
    BY <1>0, <1>1, <2>1, OtherHandled
<1>8. CASE HandleEnd
  <2>1. /\ inbox # <<>> /\ inbox[1].kind = "end"
        /\ inbox' = Tail(inbox) /\ underway' = Tail(underway)
    BY <1>1, <1>8 DEF HandleEnd
  <2> QED
    BY <1>0, <1>1, <2>1, EndHandled
<1>9. CASE HandleTick
  <2>1. inbox # <<>> /\ inbox[1].kind # "end" /\ inbox' = Tail(inbox) /\ UNCHANGED underway
    BY <1>1, <1>9 DEF HandleTick
  <2> QED
    BY <1>0, <1>1, <2>1, OtherHandled
<1>10. CASE Disconnect
  BY <1>10, NothingUnderway DEF Disconnect
<1>11. CASE \/ Trade \/ OrderTimeout \/ Connect \/ UNCHANGED vars
            \/ \E w \in Waiters : Refresh(w) \/ Wake(w) \/ WaitTimeout(w)
  <2>1. UNCHANGED <<inbox, underway>>
    BY <1>11 DEF Trade, OrderTimeout, Connect, vars, Refresh, Wake, WaitTimeout
  <2> QED
    BY <1>0, <2>1
<1> QED
  BY <1>2, <1>3, <1>4, <1>5, <1>6, <1>7, <1>8, <1>9, <1>10, <1>11 DEF Next, Answer, Handle

LEMMA ChannelInvHolds == Spec => []ChannelInv
<1>1. Init => ChannelInv
  BY InitHolds, NothingUnderway DEF Init, ChannelInv
<1>2. ChannelInv /\ [Next]_vars => ChannelInv'
  BY FlowInvKept, OrderKept DEF ChannelInv
<1> QED
  BY <1>1, <1>2, PTL DEF Spec

LEMMA FlowInvHolds == Spec => []FlowInv
<1>1. ChannelInv => FlowInv
  BY DEF ChannelInv
<1> QED
  BY <1>1, ChannelInvHolds, PTL

\* The variables keep their types, and an Event that is set was set by a
\* positions_end handled after its owner's prepare_snapshot_wait: no task is
\* woken by a snapshot from before its own request.
THEOREM EventsAreFresh == Spec => []Consistent
<1>1. FlowInv => Consistent
  BY DEF FlowInv
<1> QED
  BY <1>1, FlowInvHolds, PTL

\* The positions of the PositionStore are the whole book the account had when
\* the EA sent the last snapshot applied, whatever bursts a lost connection cut
\* short and whatever replies the read loop took out from between them.
THEOREM StoreIsABook == Spec => []StoreWasReal
<1>1. FlowInv => StoreWasReal
  BY DEF FlowInv
<1> QED
  BY <1>1, FlowInvHolds, PTL

\* A task that waits in refresh_snapshot through a positions_end without being
\* woken is one whose Event another prepare_snapshot_wait has replaced.
THEOREM MissedMeansSuperseded == Spec => []MissedOnlyIfSuperseded
<1>1. FlowInv => MissedOnlyIfSuperseded
  BY DEF FlowInv
<1> QED
  BY <1>1, FlowInvHolds, PTL

-----------------------------------------------------------------------------
(* The flow implements SnapshotChannel *)

LEMMA ChannelInit == Init => Channel!Init
  BY DEF Init, Channel!Init

\* A snapshot that is sent, with or without a fill before it, is one taken.
LEMMA SendingTakes ==
  ASSUME FlowInv, StreamPositions \/ AnswerGet \/ AnswerOrder
  PROVE  [Channel!Next]_(Channel!vars)
<1>1. book \in SUBSET Tickets
  BY DEF FlowInv, Consistent, TypeOK
<1>2. CASE StreamPositions
  <2>1. Channel!Take(book)
    BY <1>2 DEF StreamPositions, Stream, Channel!Take
  <2> QED
    BY <1>1, <2>1 DEF Channel!Next
<1>3. CASE AnswerGet
  <2>1. Channel!Take(book)
    BY <1>3 DEF AnswerGet, Channel!Take
  <2> QED
    BY <1>1, <2>1 DEF Channel!Next
<1>4. CASE AnswerOrder
  <2>1. CASE UNCHANGED <<book, underway>>
    BY <1>4, <2>1 DEF AnswerOrder, Channel!vars
  <2>2. CASE book' \in SUBSET Tickets /\ underway' = Append(underway, book')
    <3>1. Channel!Take(book')
      BY <1>4, <2>2 DEF AnswerOrder, Channel!Take
    <3> QED
      BY <2>2, <3>1 DEF Channel!Next
  <2> QED
    BY <1>1, <1>4, <2>1, <2>2 DEF AnswerOrder
<1> QED
  BY <1>2, <1>3, <1>4

\* What the worker puts in the store is the first book under way.
LEMMA EndingArrives ==
  ASSUME ChannelInv, HandleEnd
  PROVE  Channel!Arrive
<1>1. FlowInv /\ InOrder(underway, inbox) /\ underway \in Seq(SUBSET Tickets)
  BY DEF ChannelInv, FlowInv, Consistent, TypeOK
<1>2. /\ inbox \in Seq(Messages) /\ Head(inbox) = inbox[1] /\ 1 \in 1 .. Len(inbox)
  BY <1>1, HeadIsMessage DEF HandleEnd
<1>3. underway # <<>> /\ underway[1] = inbox[1].of
  BY <1>1, <1>2, EndIsUnderway DEF HandleEnd
<1>4. Head(underway) = shown'
  BY <1>1, <1>2, <1>3 DEF HandleEnd
<1>5. store' = shown'
  BY HandleEndKeeps DEF FlowInv, StoreWasReal
<1> QED
  BY <1>3, <1>4, <1>5 DEF HandleEnd, Channel!Arrive

LEMMA TradingChanges ==
  ASSUME FlowInv, Trade
  PROVE  Channel!Next
<1>1. book' \in SUBSET Tickets
  BY DEF Trade, FlowInv, Consistent, TypeOK
<1>2. Channel!Change(book')
  BY DEF Trade, Channel!Change
<1> QED
  BY <1>1, <1>2 DEF Channel!Next

LEMMA BreakingLoses ==
  ASSUME Disconnect
  PROVE  Channel!Lose
  BY DEF Disconnect, Channel!Lose

\* Neither the messages between two ends nor the Events can be seen from the channel.
LEMMA OthersStutter ==
  ASSUME \/ StreamPrice \/ ReadReply \/ HandlePosition \/ HandleTick \/ OrderTimeout
         \/ \E w \in Waiters : Refresh(w) \/ Wake(w) \/ WaitTimeout(w)
         \/ Connect
         \/ UNCHANGED vars
  PROVE  UNCHANGED Channel!vars
  BY DEF StreamPrice, Stream, ReadReply, HandlePosition, HandleTick, OrderTimeout, Refresh,
         Wake, WaitTimeout, Connect, vars, Channel!vars

LEMMA ChannelStep == ChannelInv /\ [Next]_vars => [Channel!Next]_(Channel!vars)
<1> SUFFICES ASSUME ChannelInv, [Next]_vars PROVE [Channel!Next]_(Channel!vars)
  OBVIOUS
<1>0. FlowInv
  BY DEF ChannelInv
<1>1. CASE StreamPositions \/ AnswerGet \/ AnswerOrder
  BY <1>0, <1>1, SendingTakes
<1>2. CASE HandleEnd
  <2>1. Channel!Arrive
    BY <1>2, EndingArrives
  <2> QED
    BY <2>1 DEF Channel!Next
<1>3. CASE Trade
  BY <1>0, <1>3, TradingChanges
<1>4. CASE Disconnect
  <2>1. Channel!Lose
    BY <1>4, BreakingLoses
  <2> QED
    BY <2>1 DEF Channel!Next
<1>5. CASE \/ StreamPrice \/ ReadReply \/ HandlePosition \/ HandleTick \/ OrderTimeout
           \/ \E w \in Waiters : Refresh(w) \/ Wake(w) \/ WaitTimeout(w)
           \/ Connect
           \/ UNCHANGED vars
  BY <1>5, OthersStutter
<1> QED
  BY <1>1, <1>2, <1>3, <1>4, <1>5 DEF Next, Answer, Handle

\* The flow of messages, Events and connections implements the channel: what reaches the
\* store are the books the EA took, each of them whole, in the order they were taken,
\* or, with a connection that ends, none of those under way.
THEOREM FlowImplementsChannel == Spec => ImplementsChannel
  BY ChannelInit, ChannelStep, ChannelInvHolds, PTL DEF Spec, ImplementsChannel, Channel!Spec

-----------------------------------------------------------------------------
(* The path of the deals *)

USE DealsAssumption

\* Rows and reports add up deals that exist.  A report is written over the row of its
\* position and over the reports sent before it: it adds up no fewer deals.
RowsRight ==
  /\ \A p \in Positions : rows[p] <= Exits(p, Len(deals))
  /\ \A i \in 1 .. Len(wire) :
       /\ wire[i].deal <= Len(deals)
       /\ wire[i].total <= Exits(PositionOf(wire[i]), Len(deals))
       /\ rows[PositionOf(wire[i])] <= wire[i].total
  /\ \A i, j \in 1 .. Len(wire) :
       i < j /\ PositionOf(wire[i]) = PositionOf(wire[j]) => wire[i].total <= wire[j].total

\* Who announces a deal again is a later start of the EA: the deals it has yet to
\* send, and those of its reports on their way, it has not announced.
BatchIsNew ==
  /\ \A k \in 1 .. Len(batch) : batch[k] <= counted /\ notices[batch[k]] < run
  /\ \A k, l \in 1 .. Len(batch) : k < l => batch[k] < batch[l]
  /\ \A i \in Places : i > counted => notices[i] < run

WireIsNew ==
  /\ \A i \in 1 .. Len(wire) :
       /\ wire[i].run <= run
       /\ notices[wire[i].deal] < wire[i].run
       /\ wire[i].run = run => wire[i].deal <= counted
       /\ wire[i].run = run => \A k \in 1 .. Len(batch) : wire[i].deal < batch[k]
  /\ \A i, j \in 1 .. Len(wire) :
       i < j /\ wire[i].deal = wire[j].deal => wire[i].run < wire[j].run

ReportsOnce == AnnouncedOncePerRun /\ BatchIsNew /\ WireIsNew

DealsInv == DealsTypeOK /\ RowsRight /\ NoDealIsForgotten /\ ReportsOnce

-----------------------------------------------------------------------------
(* Counting the deals of a position *)

Count(d, p, n) == Cardinality({i \in 1 .. n : d[i] = p})

LEMMA CountBounds ==
  ASSUME NEW d, NEW p, NEW m \in Nat, NEW n \in 0 .. m
  PROVE  /\ Count(d, p, n) \in Nat
         /\ Count(d, p, n) <= n
         /\ Count(d, p, n) <= Count(d, p, m)
<1>1. IsFiniteSet(1 .. n) /\ Cardinality(1 .. n) = n
  BY FS_Interval
<1>2. IsFiniteSet(1 .. m)
  BY FS_Interval
<1>3. IsFiniteSet({i \in 1 .. n : d[i] = p}) /\ Cardinality({i \in 1 .. n : d[i] = p}) <= n
  BY <1>1, FS_Subset
<1>4. IsFiniteSet({i \in 1 .. m : d[i] = p})
  BY <1>2, FS_Subset
<1>5. {i \in 1 .. n : d[i] = p} \in SUBSET {i \in 1 .. m : d[i] = p}
  OBVIOUS
<1>6. Cardinality({i \in 1 .. n : d[i] = p}) <= Cardinality({i \in 1 .. m : d[i] = p})
  BY <1>4, <1>5, FS_Subset
<1>7. Cardinality({i \in 1 .. n : d[i] = p}) \in Nat
  BY <1>3, FS_CardinalityType
<1> QED
  BY <1>3, <1>6, <1>7 DEF Count

\* The same deals are counted in two histories that agree on them.
LEMMA CountAgrees ==
  ASSUME NEW d, NEW e, NEW p, NEW n, \A i \in 1 .. n : d[i] = e[i]
  PROVE  Count(d, p, n) = Count(e, p, n)
<1>1. {i \in 1 .. n : d[i] = p} = {i \in 1 .. n : e[i] = p}
  OBVIOUS
<1> QED
  BY <1>1 DEF Count

\* Deals of other positions do not count.
LEMMA CountOfOthers ==
  ASSUME NEW d, NEW p, NEW m \in Nat, NEW n \in 0 .. m, \A i \in n + 1 .. m : d[i] # p
  PROVE  Count(d, p, n) = Count(d, p, m)
<1>1. {i \in 1 .. n : d[i] = p} = {i \in 1 .. m : d[i] = p}
  OBVIOUS
<1> QED
  BY <1>1 DEF Count

LEMMA ExitsBounds ==
  ASSUME NEW p, NEW m \in Nat, NEW n \in 0 .. m
  PROVE  Exits(p, n) \in Nat /\ Exits(p, n) <= n /\ Exits(p, n) <= Exits(p, m)
  BY CountBounds DEF Exits, Count

\* A deal is among the deals of its position.
LEMMA OwnDealCounts ==
  ASSUME NEW m \in Nat, NEW i \in 1 .. m
  PROVE  Exits(deals[i], m) \in 1 .. m
<1>1. IsFiniteSet({j \in 1 .. m : deals[j] = deals[i]})
  <2>1. IsFiniteSet(1 .. m)
    BY FS_Interval
  <2>2. {j \in 1 .. m : deals[j] = deals[i]} \in SUBSET (1 .. m)
    OBVIOUS
  <2> QED
    BY <2>1, <2>2, FS_Subset
<1>2. Exits(deals[i], m) # 0
  BY <1>1, FS_EmptySet DEF Exits
<1> QED
  BY <1>2, ExitsBounds

LEMMA SameDeals ==
  ASSUME deals' = deals
  PROVE  /\ \A p, n : Exits(p, n)' = Exits(p, n)
         /\ \A m : PositionOf(m)' = PositionOf(m)
  BY DEF Exits, PositionOf

\* What is true of the messages on their way.
LEMMA WireTypes ==
  ASSUME DealsTypeOK, NEW i \in 1 .. Len(wire)
  PROVE  /\ wire[i] \in Reports
         /\ wire[i].run \in 1 .. MaxRuns /\ wire[i].deal \in Places /\ wire[i].total \in Places
<1>1. wire[i] \in Reports
  BY DEF DealsTypeOK
<1> QED
  BY <1>1 DEF Reports

LEMMA Elements ==
  ASSUME NEW S, NEW q \in Seq(S)
  PROVE  \A k \in 1 .. Len(q) : q[k] \in S
  OBVIOUS

LEMMA BatchTypes ==
  ASSUME DealsTypeOK
  PROVE  \A k \in 1 .. Len(batch) : batch[k] \in 1 .. Len(deals)
<1> DEFINE S == 1 .. Len(deals)
<1>1. batch \in Seq(S)
  BY DEF DealsTypeOK
<1> HIDE DEF S
<1>2. \A k \in 1 .. Len(batch) : batch[k] \in S
  BY <1>1, Elements
<1> QED
  BY <1>2 DEF S

LEMMA PositionTypes ==
  ASSUME DealsTypeOK, RowsRight, NEW i \in 1 .. Len(wire)
  PROVE  PositionOf(wire[i]) \in Positions
<1>1. wire[i].deal \in 1 .. Len(deals)
  BY WireTypes DEF RowsRight, Places
<1> QED
  BY <1>1 DEF PositionOf, DealsTypeOK

LEMMA DealsInitHolds == ASSUME DealsInit PROVE DealsInv
<1>1. PICK n \in 0 .. MaxDeals : deals \in [1 .. n -> Positions]
  BY DEF DealsInit
<1>2. deals \in Seq(Positions) /\ Len(deals) = n
  BY <1>1
<1>3. DealsTypeOK
  <2>1. rows \in [Positions -> 0 .. MaxDeals] /\ notices \in [Places -> Nat]
    BY DEF DealsInit
  <2>2. run \in 1 .. MaxRuns /\ Len(deals) <= MaxDeals /\ counted \in 0 .. Len(deals) /\ before \in 0 .. Len(deals)
    BY <1>2 DEF DealsInit
  <2>3. batch \in Seq(1 .. Len(deals)) /\ wire \in Seq(Reports)
    BY DEF DealsInit
  <2> QED
    BY <1>2, <2>1, <2>2, <2>3 DEF DealsInit, DealsTypeOK
<1>4. \A p : Exits(p, Len(deals)) \in Nat /\ Exits(p, counted) = 0
  <2> TAKE p
  <2>1. Exits(p, 0) \in Nat /\ Exits(p, 0) <= 0
    BY ExitsBounds
  <2>2. Exits(p, n) \in Nat
    BY ExitsBounds
  <2> QED
    BY <1>2, <2>1, <2>2 DEF DealsInit
<1>5. RowsRight
  BY <1>4 DEF DealsInit, RowsRight
<1>6. NoDealIsForgotten
  BY <1>4 DEF DealsInit, NoDealIsForgotten, Reported
<1>7. ReportsOnce
  BY DEF DealsInit, ReportsOnce, AnnouncedOncePerRun, BatchIsNew, WireIsNew, Places
<1> QED
  BY <1>3, <1>5, <1>6, <1>7 DEF DealsInv

-----------------------------------------------------------------------------
(* The account and the EA *)

LEMMA DealMadeKeeps == ASSUME DealsInv, NEW p \in Positions, DealMade(p) PROVE DealsInv'
<1>1. /\ deals \in Seq(Positions) /\ Len(deals) \in Nat /\ deals' = Append(deals, p)
      /\ Len(deals') = Len(deals) + 1
      /\ \A i \in 1 .. Len(deals) : deals'[i] = deals[i]
  BY DEF DealMade, DealsInv, DealsTypeOK
<1>2. UNCHANGED <<run, counted, batch, connected, reaches, wire, rows, notices, lost, before>>
  BY DEF DealMade, ea, dealLink, server
<1>3. DealsTypeOK'
  <2>1. deals' \in Seq(Positions) /\ Len(deals') <= MaxDeals
    BY <1>1 DEF DealMade
  <2>2. batch \in Seq(1 .. Len(deals')) /\ counted \in 0 .. Len(deals') /\ before \in 0 .. Len(deals')
    BY <1>1 DEF DealsInv, DealsTypeOK
  <2> QED
    BY <1>2, <2>1, <2>2 DEF DealsInv, DealsTypeOK
<1>4. ASSUME NEW q, NEW n \in 0 .. Len(deals)
      PROVE  /\ Exits(q, n)' = Exits(q, n) /\ Exits(q, n) \in Nat
             /\ Exits(q, n) <= Count(deals', q, Len(deals')) /\ Count(deals', q, Len(deals')) \in Nat
  <2>1. Exits(q, n)' = Count(deals', q, n) /\ Exits(q, n) = Count(deals, q, n)
    BY DEF Exits, Count
  <2>2. \A i \in 1 .. n : deals[i] = deals'[i]
    BY <1>1
  <2>3. Count(deals, q, n) = Count(deals', q, n)
    BY <2>2, CountAgrees
  <2>4. Len(deals') \in Nat /\ n \in 0 .. Len(deals')
    BY <1>1
  <2>5. /\ Count(deals', q, n) \in Nat /\ Count(deals', q, n) <= Count(deals', q, Len(deals'))
    BY <2>4, CountBounds
  <2>6. Count(deals', q, Len(deals')) \in Nat
    BY <2>4, CountBounds
  <2> QED
    BY <2>1, <2>3, <2>5, <2>6
<1>5. ASSUME NEW i \in 1 .. Len(wire)
      PROVE  /\ wire[i].deal \in 1 .. Len(deals)
             /\ PositionOf(wire[i])' = PositionOf(wire[i]) /\ PositionOf(wire[i]) \in Positions
             /\ wire[i].total \in Nat /\ rows[PositionOf(wire[i])] \in Nat
  <2>1. wire[i].deal \in Places /\ wire[i].total \in Places /\ wire[i].deal <= Len(deals)
    BY WireTypes DEF DealsInv, RowsRight
  <2>2. PositionOf(wire[i])' = PositionOf(wire[i])
    BY <1>1, <1>2, <2>1 DEF PositionOf, Places
  <2>3. PositionOf(wire[i]) \in Positions
    BY PositionTypes DEF DealsInv
  <2>4. rows[PositionOf(wire[i])] \in 0 .. MaxDeals
    BY <2>3 DEF DealsInv, DealsTypeOK
  <2> QED
    BY <1>1, <2>1, <2>2, <2>3, <2>4 DEF Places
<1>6. RowsRight'
  <2>1. ASSUME NEW q \in Positions PROVE rows[q] <= Count(deals', q, Len(deals'))
    <3>1. rows[q] <= Exits(q, Len(deals)) /\ rows[q] \in 0 .. MaxDeals
      BY DEF DealsInv, RowsRight, DealsTypeOK
    <3>2. Len(deals) \in 0 .. Len(deals)
      BY <1>1
    <3> QED
      BY <1>4, <3>1, <3>2
  <2>2. ASSUME NEW i \in 1 .. Len(wire)
        PROVE  /\ wire[i].deal <= Len(deals')
               /\ wire[i].total <= Count(deals', PositionOf(wire[i])', Len(deals'))
               /\ rows[PositionOf(wire[i])'] <= wire[i].total
    <3>1. wire[i].total <= Exits(PositionOf(wire[i]), Len(deals)) /\ rows[PositionOf(wire[i])] <= wire[i].total
      BY DEF DealsInv, RowsRight
    <3>2. Len(deals) \in 0 .. Len(deals)
      BY <1>1
    <3>3. wire[i].total <= Count(deals', PositionOf(wire[i]), Len(deals'))
      BY <1>4, <1>5, <3>1, <3>2
    <3> QED
      BY <1>1, <1>5, <3>1, <3>3
  <2>3. \A q : Exits(q, Len(deals))' = Count(deals', q, Len(deals'))
    BY DEF Exits, Count
  <2>4. \A i \in 1 .. Len(wire) : Exits(PositionOf(wire[i]), Len(deals))' = Count(deals', PositionOf(wire[i])', Len(deals'))
    BY <1>2 DEF Exits, Count
  <2> QED
    BY <1>2, <1>5, <2>1, <2>2, <2>3, <2>4 DEF DealsInv, RowsRight
<1>7. NoDealIsForgotten'
  <2> SUFFICES ASSUME NEW q \in Positions \ lost PROVE Reported(q)'
    BY <1>2 DEF NoDealIsForgotten
  <2>1. Exits(q, counted)' = Exits(q, counted)
    <3>1. counted \in 0 .. Len(deals)
      BY DEF DealsInv, DealsTypeOK
    <3> QED
      BY <1>2, <1>4, <3>1 DEF Exits
  <2>2. Reported(q)
    BY DEF DealsInv, NoDealIsForgotten
  <2>3. \A k \in 1 .. Len(batch) : deals'[batch[k]] = deals[batch[k]]
    <3>1. \A k \in 1 .. Len(batch) : batch[k] \in 1 .. Len(deals)
      BY BatchTypes DEF DealsInv
    <3> QED
      BY <1>1, <3>1
  <2> QED
    BY <1>2, <1>5, <2>1, <2>2, <2>3 DEF Reported
<1>8. ReportsOnce'
  BY <1>2 DEF DealsInv, ReportsOnce, AnnouncedOncePerRun, BatchIsNew, WireIsNew
<1> QED
  BY <1>3, <1>6, <1>7, <1>8 DEF DealsInv

LEMMA SyncClosedDealsKeeps == ASSUME DealsInv, SyncClosedDeals PROVE DealsInv'
<1>1. /\ UNCHANGED <<deals, run, connected, reaches, wire, rows, notices, lost, before>>
      /\ batch = <<>> /\ counted' = Len(deals)
      /\ counted \in 0 .. Len(deals) /\ Len(deals) \in Nat /\ Len(deals) > counted
      /\ batch' = [i \in 1 .. Len(deals) - counted |-> counted + i]
  BY DEF SyncClosedDeals, Counted, dealLink, server, DealsInv, DealsTypeOK
<1>2. /\ batch' \in Seq(1 .. Len(deals)) /\ Len(batch') = Len(deals) - counted
      /\ \A k \in 1 .. Len(batch') : batch'[k] = counted + k
  <2>1. batch' \in [1 .. Len(deals) - counted -> 1 .. Len(deals)]
    BY <1>1
  <2> QED
    BY <1>1, <2>1
<1>3. DealsTypeOK'
  BY <1>1, <1>2 DEF DealsInv, DealsTypeOK
<1>4. RowsRight'
  BY <1>1, SameDeals DEF DealsInv, RowsRight
<1>5. NoDealIsForgotten'
  <2> SUFFICES ASSUME NEW q \in Positions \ lost PROVE Reported(q)'
    BY <1>1 DEF NoDealIsForgotten
  <2>1. CASE \E i \in counted + 1 .. Len(deals) : deals[i] = q
    <3>1. PICK i \in counted + 1 .. Len(deals) : deals[i] = q
      BY <2>1
    <3>2. i - counted \in 1 .. Len(batch') /\ batch'[i - counted] = i
      BY <1>1, <1>2
    <3> QED
      BY <1>1, <3>1, <3>2 DEF Reported
  <2>2. CASE ~\E i \in counted + 1 .. Len(deals) : deals[i] = q
    <3>1. Exits(q, counted) = Exits(q, Len(deals))
      <4>1. \A i \in counted + 1 .. Len(deals) : deals[i] # q
        BY <2>2
      <4>2. Count(deals, q, counted) = Count(deals, q, Len(deals))
        BY <1>1, <4>1, CountOfOthers
      <4> QED
        BY <4>2 DEF Exits, Count
    <3>2. Exits(q, counted)' = Exits(q, counted)
      BY <1>1, <3>1 DEF Exits
    <3>3. Reported(q) /\ Len(batch) = 0
      BY <1>1 DEF DealsInv, NoDealIsForgotten
    <3>4. \A m : PositionOf(m)' = PositionOf(m)
      BY <1>1, SameDeals
    <3>5. \A i \in 1 .. Len(wire) : PositionOf(wire[i])' = PositionOf(wire[i])
      BY <1>1 DEF PositionOf
    <3> QED
      BY <1>1, <3>2, <3>3, <3>5 DEF Reported
  <2> QED
    BY <2>1, <2>2
<1>6. ReportsOnce'
  <2>1. \A i \in Places : notices[i] \in Nat
    BY DEF DealsInv, DealsTypeOK
  <2>2. Len(deals) <= MaxDeals /\ run \in Nat
    BY DEF DealsInv, DealsTypeOK
  <2>3. BatchIsNew'
    <3>1. \A i \in Places : i > counted => notices[i] < run
      BY DEF DealsInv, ReportsOnce, BatchIsNew
    <3>2. \A k \in 1 .. Len(batch') : batch'[k] \in Places /\ batch'[k] > counted /\ batch'[k] <= Len(deals)
      BY <1>1, <1>2, <2>2 DEF Places
    <3>3. \A k, l \in 1 .. Len(batch') : k < l => batch'[k] < batch'[l]
      BY <1>1, <1>2
    <3>4. \A k \in 1 .. Len(batch') : batch'[k] <= counted' /\ notices[batch'[k]] < run
      BY <1>1, <3>1, <3>2
    <3>5. \A i \in Places : i > counted' => notices[i] < run
      BY <1>1, <3>1 DEF Places
    <3> QED
      BY <1>1, <3>3, <3>4, <3>5 DEF BatchIsNew
  <2>4. WireIsNew'
    <3>1. ASSUME NEW i \in 1 .. Len(wire), wire[i].run = run
          PROVE  wire[i].deal <= Len(deals) /\ \A k \in 1 .. Len(batch') : wire[i].deal < batch'[k]
      <4>1. wire[i].deal <= counted /\ wire[i].deal \in Nat
        BY <3>1, WireTypes DEF DealsInv, ReportsOnce, WireIsNew, Places
      <4> QED
        BY <1>1, <1>2, <4>1
    <3> QED
      BY <1>1, <3>1 DEF DealsInv, ReportsOnce, WireIsNew
  <2> QED
    BY <1>1, <2>3, <2>4 DEF DealsInv, ReportsOnce, AnnouncedOncePerRun
<1> QED
  BY <1>3, <1>4, <1>5, <1>6 DEF DealsInv

LEMMA TailShape ==
  ASSUME NEW S, NEW q \in Seq(S), q # <<>>
  PROVE  /\ Tail(q) \in Seq(S) /\ Len(q) \in Nat \ {0} /\ Len(Tail(q)) = Len(q) - 1
         /\ Head(q) = q[1] /\ q[1] \in S
         /\ \A i \in 1 .. Len(q) - 1 : Tail(q)[i] = q[i + 1]
  OBVIOUS

\* The next report: its deal, what it adds up, and that no report on its way adds up more.
LEMMA NextReport ==
  ASSUME DealsInv, batch # <<>>
  PROVE  /\ Head(batch) = batch[1] /\ Head(batch) \in 1 .. Len(deals) /\ Len(deals) \in Nat
         /\ deals[Head(batch)] \in Positions
         /\ TotalOf(Head(batch)) = Exits(deals[Head(batch)], Len(deals))
         /\ TotalOf(Head(batch)) \in 1 .. Len(deals)
         /\ [run |-> run, deal |-> Head(batch), total |-> TotalOf(Head(batch))] \in Reports
<1>1. Head(batch) = batch[1] /\ 1 \in 1 .. Len(batch)
  BY TailShape DEF DealsInv, DealsTypeOK
<1>2. Head(batch) \in 1 .. Len(deals)
  BY <1>1, BatchTypes DEF DealsInv
<1>3. deals \in Seq(Positions) /\ Len(deals) \in Nat /\ Len(deals) <= MaxDeals /\ run \in 1 .. MaxRuns
  BY DEF DealsInv, DealsTypeOK
<1>4. deals[Head(batch)] \in Positions
  BY <1>2, <1>3
<1>5. TotalOf(Head(batch)) \in 1 .. Len(deals)
  BY <1>2, <1>3, OwnDealCounts DEF TotalOf
<1>6. TotalOf(Head(batch)) = Exits(deals[Head(batch)], Len(deals))
  BY DEF TotalOf
<1>7. Head(batch) \in Places /\ TotalOf(Head(batch)) \in Places
  BY <1>2, <1>3, <1>5 DEF Places
<1> QED
  BY <1>1, <1>2, <1>3, <1>4, <1>5, <1>6, <1>7 DEF Reports

\* The batch without its head.
LEMMA RestOfBatch ==
  ASSUME DealsInv, batch # <<>>, batch' = Tail(batch), UNCHANGED <<run, counted, notices>>
  PROVE  /\ batch' \in Seq(1 .. Len(deals)) /\ BatchIsNew'
         /\ \A k \in 1 .. Len(batch') : batch'[k] > Head(batch) /\ batch'[k] = batch[k + 1]
                                          /\ k + 1 \in 1 .. Len(batch)
<1>1. batch \in Seq(1 .. Len(deals))
  BY DEF DealsInv, DealsTypeOK
<1>2. /\ batch' \in Seq(1 .. Len(deals)) /\ Len(batch) \in Nat \ {0} /\ Len(batch') = Len(batch) - 1
      /\ Head(batch) = batch[1] /\ \A k \in 1 .. Len(batch) - 1 : batch'[k] = batch[k + 1]
  BY <1>1, TailShape
<1>3. \A k \in 1 .. Len(batch') : batch'[k] = batch[k + 1] /\ k + 1 \in 1 .. Len(batch)
  BY <1>2
<1>4. /\ \A k \in 1 .. Len(batch) : batch[k] <= counted /\ notices[batch[k]] < run
      /\ \A k, l \in 1 .. Len(batch) : k < l => batch[k] < batch[l]
  BY DEF DealsInv, ReportsOnce, BatchIsNew
<1>5. \A k \in 1 .. Len(batch') : batch'[k] > Head(batch)
  <2> TAKE k \in 1 .. Len(batch')
  <2>1. 1 \in 1 .. Len(batch) /\ 1 < k + 1
    BY <1>2
  <2>2. batch[1] < batch[k + 1] /\ batch[1] \in Nat /\ batch[k + 1] \in Nat
    BY <1>3, <1>4, <2>1, BatchTypes DEF DealsInv
  <2> QED
    BY <1>2, <1>3, <2>2
<1>6. BatchIsNew'
  <2>1. \A k \in 1 .. Len(batch') : batch'[k] <= counted /\ notices[batch'[k]] < run
    BY <1>3, <1>4
  <2>2. \A k, l \in 1 .. Len(batch') : k < l => batch'[k] < batch'[l]
    BY <1>2, <1>3, <1>4
  <2> QED
    BY <2>1, <2>2 DEF DealsInv, ReportsOnce, BatchIsNew
<1> QED
  BY <1>2, <1>3, <1>5, <1>6

LEMMA SendClosedDealKeeps == ASSUME DealsInv, SendClosedDeal PROVE DealsInv'
<1> DEFINE h == Head(batch)
           p == deals[h]
           m == [run |-> run, deal |-> h, total |-> TotalOf(h)]
<1>1. /\ batch # <<>> /\ batch' = Tail(batch)
      /\ UNCHANGED <<deals, run, counted, connected, reaches, rows, notices, before>>
  BY DEF SendClosedDeal, dealLink, server
<1>2. /\ h = batch[1] /\ h \in 1 .. Len(deals) /\ Len(deals) \in Nat /\ p \in Positions
      /\ m \in Reports /\ TotalOf(h) = Exits(p, Len(deals)) /\ TotalOf(h) \in 1 .. Len(deals)
  BY <1>1, NextReport
<1>3. /\ batch' \in Seq(1 .. Len(deals)) /\ BatchIsNew'
      /\ \A k \in 1 .. Len(batch') : batch'[k] > h /\ batch'[k] = batch[k + 1] /\ k + 1 \in 1 .. Len(batch)
  BY <1>1, RestOfBatch
<1>4. /\ \A q, n : Exits(q, n)' = Exits(q, n)
      /\ \A x : PositionOf(x)' = PositionOf(x)
  BY <1>1, SameDeals
<1>5. \A i \in 1 .. Len(batch) : i = 1 \/ (i - 1 \in 1 .. Len(batch') /\ batch'[i - 1] = batch[i])
  BY <1>1, TailShape DEF DealsInv, DealsTypeOK
<1>6. CASE wire' = Append(wire, m) /\ lost' = lost \ {p}
  <2>1. /\ wire \in Seq(Reports) /\ Len(wire) \in Nat /\ wire' \in Seq(Reports) /\ Len(wire') = Len(wire) + 1
        /\ \A i \in 1 .. Len(wire) : wire'[i] = wire[i]
        /\ wire'[Len(wire) + 1] = m
    BY <1>2, <1>6 DEF DealsInv, DealsTypeOK
  <2>2. m.run = run /\ m.deal = h /\ m.total = TotalOf(h) /\ PositionOf(m) = p
    BY DEF PositionOf
  <2>3. DealsTypeOK'
    BY <1>1, <1>3, <1>6, <2>1 DEF DealsInv, DealsTypeOK
  <2>4. RowsRight'
    <3>1. ASSUME NEW i \in 1 .. Len(wire')
          PROVE  /\ wire'[i].deal <= Len(deals)
                 /\ wire'[i].total <= Exits(PositionOf(wire'[i]), Len(deals))
                 /\ rows[PositionOf(wire'[i])] <= wire'[i].total
      <4>1. CASE i \in 1 .. Len(wire)
        BY <2>1, <4>1 DEF DealsInv, RowsRight
      <4>2. CASE i = Len(wire) + 1
        BY <1>2, <2>1, <2>2, <4>2 DEF DealsInv, RowsRight
      <4> QED
        BY <2>1, <4>1, <4>2
    <3>2. ASSUME NEW i \in 1 .. Len(wire'), NEW j \in 1 .. Len(wire'), i < j,
                 PositionOf(wire'[i]) = PositionOf(wire'[j])
          PROVE  wire'[i].total <= wire'[j].total
      <4>1. i \in 1 .. Len(wire)
        BY <2>1, <3>2
      <4>2. CASE j \in 1 .. Len(wire)
        BY <2>1, <3>2, <4>1, <4>2 DEF DealsInv, RowsRight
      <4>3. CASE j = Len(wire) + 1
        <5>1. wire[i].total <= Exits(PositionOf(wire[i]), Len(deals))
          BY <4>1 DEF DealsInv, RowsRight
        <5> QED
          BY <1>2, <2>1, <2>2, <3>2, <4>1, <4>3, <5>1
      <4> QED
        BY <2>1, <4>2, <4>3
    <3>3. \A i \in 1 .. Len(wire') : PositionOf(wire[i])' = PositionOf(wire'[i])
      BY <1>1 DEF PositionOf
    <3>4. \A i \in 1 .. Len(wire') : Exits(PositionOf(wire[i]), Len(deals))' = Exits(PositionOf(wire'[i]), Len(deals))
      BY <1>1 DEF PositionOf, Exits
    <3>5. \A q \in Positions : rows[q] <= Exits(q, Len(deals))
      BY DEF DealsInv, RowsRight
    <3>6. \A q : Exits(q, Len(deals))' = Exits(q, Len(deals))
      BY <1>1 DEF Exits
    <3> QED
      BY <1>1, <3>1, <3>2, <3>3, <3>4, <3>5, <3>6 DEF RowsRight
  <2>5. NoDealIsForgotten'
    <3> SUFFICES ASSUME NEW q \in Positions, q \notin lost' PROVE Reported(q)'
      BY DEF NoDealIsForgotten
    <3>1. Exits(q, counted)' = Exits(q, counted)
      BY <1>1 DEF Exits
    <3>2. \A i \in 1 .. Len(wire) : PositionOf(wire[i])' = PositionOf(wire[i])
      BY <1>1, <2>1 DEF PositionOf
    <3>3. PositionOf(wire'[Len(wire) + 1]) = p /\ wire'[Len(wire) + 1].total >= Exits(p, counted)
      <4>1. counted \in 0 .. Len(deals)
        BY DEF DealsInv, DealsTypeOK
      <4>2. Exits(p, counted) \in Nat /\ Exits(p, counted) <= Exits(p, Len(deals))
        BY <1>2, <4>1, ExitsBounds
      <4> QED
        BY <1>2, <2>1, <2>2, <4>2
    <3>4. Len(wire) + 1 \in 1 .. Len(wire')
      BY <2>1
    <3>5. CASE q = p
      BY <1>1, <3>1, <3>3, <3>4, <3>5 DEF Reported, PositionOf
    <3>6. CASE q # p
      <4>1. Reported(q)
        BY <1>6, <3>6 DEF DealsInv, NoDealIsForgotten
      <4>2. CASE rows[q] >= Exits(q, counted)
        BY <1>1, <3>1, <4>2 DEF Reported
      <4>3. CASE \E i \in 1 .. Len(wire) : PositionOf(wire[i]) = q /\ wire[i].total >= Exits(q, counted)
        BY <1>1, <2>1, <3>1, <4>3 DEF Reported, PositionOf
      <4>4. CASE \E i \in 1 .. Len(batch) : deals[batch[i]] = q
        BY <1>1, <1>2, <1>5, <3>6, <4>4 DEF Reported
      <4> QED
        BY <4>1, <4>2, <4>3, <4>4 DEF Reported
    <3> QED
      BY <3>5, <3>6
  <2>6. WireIsNew'
    <3>1. 1 \in 1 .. Len(batch)
      BY <1>1, TailShape DEF DealsInv, DealsTypeOK
    <3>2. notices[h] < run /\ h <= counted
      BY <1>2, <3>1 DEF DealsInv, ReportsOnce, BatchIsNew
    <3>3. ASSUME NEW i \in 1 .. Len(wire')
          PROVE  /\ wire'[i].run <= run
                 /\ notices[wire'[i].deal] < wire'[i].run
                 /\ wire'[i].run = run => wire'[i].deal <= counted
                 /\ wire'[i].run = run => \A k \in 1 .. Len(batch') : wire'[i].deal < batch'[k]
      <4>1. CASE i \in 1 .. Len(wire)
        BY <1>3, <2>1, <4>1 DEF DealsInv, ReportsOnce, WireIsNew
      <4>2. CASE i = Len(wire) + 1
        <5>1. run \in Nat
          BY DEF DealsInv, DealsTypeOK
        <5> QED
          BY <1>3, <2>1, <2>2, <3>2, <4>2, <5>1
      <4> QED
        BY <2>1, <4>1, <4>2
    <3>4. ASSUME NEW i \in 1 .. Len(wire'), NEW j \in 1 .. Len(wire'), i < j, wire'[i].deal = wire'[j].deal
          PROVE  wire'[i].run < wire'[j].run
      <4>1. i \in 1 .. Len(wire)
        BY <2>1, <3>4
      <4>2. CASE j \in 1 .. Len(wire)
        BY <2>1, <3>4, <4>1, <4>2 DEF DealsInv, ReportsOnce, WireIsNew
      <4>3. CASE j = Len(wire) + 1
        <5>1. wire[i].run <= run /\ (wire[i].run = run => wire[i].deal < batch[1])
          BY <3>1, <4>1 DEF DealsInv, ReportsOnce, WireIsNew
        <5>2. wire[i].run \in Nat /\ run \in Nat
          BY <4>1, WireTypes DEF DealsInv, DealsTypeOK
        <5>3. wire[i].deal = h /\ wire'[j].run = run /\ wire'[i] = wire[i]
          BY <2>1, <2>2, <3>4, <4>1, <4>3
        <5> QED
          BY <1>2, <5>1, <5>2, <5>3
      <4> QED
        BY <2>1, <4>2, <4>3
    <3> QED
      BY <1>1, <3>3, <3>4 DEF WireIsNew
  <2> QED
    BY <1>1, <1>3, <2>3, <2>4, <2>5, <2>6 DEF DealsInv, ReportsOnce, AnnouncedOncePerRun
<1>7. CASE wire' = wire /\ lost' = lost \cup {p}
  <2>1. DealsTypeOK'
    BY <1>1, <1>2, <1>3, <1>7 DEF DealsInv, DealsTypeOK
  <2>2. RowsRight'
    BY <1>1, <1>7, SameDeals DEF DealsInv, RowsRight, PositionOf
  <2>3. NoDealIsForgotten'
    <3> SUFFICES ASSUME NEW q \in Positions, q \notin lost' PROVE Reported(q)'
      BY DEF NoDealIsForgotten
    <3>1. Exits(q, counted)' = Exits(q, counted)
      BY <1>1 DEF Exits
    <3>2. Reported(q) /\ q # p
      BY <1>7 DEF DealsInv, NoDealIsForgotten
    <3>3. CASE \E i \in 1 .. Len(batch) : deals[batch[i]] = q
      BY <1>1, <1>2, <1>5, <3>2, <3>3 DEF Reported
    <3> QED
      BY <1>1, <1>7, <3>1, <3>2, <3>3 DEF Reported, PositionOf
  <2>4. WireIsNew'
    BY <1>1, <1>3, <1>7 DEF DealsInv, ReportsOnce, WireIsNew
  <2> QED
    BY <1>1, <1>3, <2>1, <2>2, <2>3, <2>4 DEF DealsInv, ReportsOnce, AnnouncedOncePerRun
<1> QED
  BY <1>6, <1>7 DEF SendClosedDeal

\* Breaks and connections change nothing of what was sent, and neither does a stutter.
LEMMA LinkKeeps ==
  ASSUME DealsInv, UNCHANGED <<deals, ea, wire, server, lost, before>>,
         connected' \in BOOLEAN, reaches' \in BOOLEAN
  PROVE  DealsInv'
<1>1. UNCHANGED <<deals, run, counted, batch, wire, rows, notices, lost, before>>
  BY DEF ea, server
<1>2. DealsTypeOK'
  BY <1>1 DEF DealsInv, DealsTypeOK
<1>3. RowsRight'
  BY <1>1 DEF DealsInv, RowsRight, Exits, PositionOf
<1>4. NoDealIsForgotten'
  BY <1>1 DEF DealsInv, NoDealIsForgotten, Reported, Exits, PositionOf
<1>5. ReportsOnce'
  BY <1>1 DEF DealsInv, ReportsOnce, AnnouncedOncePerRun, BatchIsNew, WireIsNew
<1> QED
  BY <1>2, <1>3, <1>4, <1>5 DEF DealsInv

LEMMA NoticeBreakKeeps == ASSUME DealsInv, NoticeBreak PROVE DealsInv'
  BY LinkKeeps DEF NoticeBreak, DealsInv, DealsTypeOK

LEMMA TryConnectKeeps == ASSUME DealsInv, TryConnect PROVE DealsInv'
  BY LinkKeeps DEF TryConnect

LEMMA FreshEAKeeps == ASSUME DealsInv, FreshEA PROVE DealsInv'
<1>1. /\ UNCHANGED <<deals, wire, rows, notices, lost, before>>
      /\ run < MaxRuns /\ run' = run + 1 /\ counted' = 0 /\ batch' = <<>>
      /\ connected' = FALSE /\ reaches' = FALSE
  BY DEF FreshEA, server
<1>2. run \in Nat /\ run \in 1 .. MaxRuns /\ \A i \in Places : notices[i] \in Nat
  BY DEF DealsInv, DealsTypeOK
<1>3. DealsTypeOK'
  <2>1. batch' \in Seq(1 .. Len(deals)) /\ run' \in 1 .. MaxRuns
    BY <1>1, <1>2
  <2>2. Len(deals) \in Nat /\ counted' \in 0 .. Len(deals)
    BY <1>1 DEF DealsInv, DealsTypeOK
  <2> QED
    BY <1>1, <2>1, <2>2 DEF DealsInv, DealsTypeOK
<1>4. RowsRight'
  BY <1>1 DEF DealsInv, RowsRight, Exits, PositionOf
<1>5. NoDealIsForgotten'
  <2> SUFFICES ASSUME NEW q \in Positions PROVE Reported(q)'
    BY DEF NoDealIsForgotten
  <2>1. Exits(q, 0) \in Nat /\ Exits(q, 0) <= 0
    BY ExitsBounds
  <2>2. Exits(q, counted)' = Exits(q, 0)
    BY <1>1 DEF Exits
  <2>3. rows[q] \in 0 .. MaxDeals
    BY DEF DealsInv, DealsTypeOK
  <2> QED
    BY <1>1, <2>1, <2>2, <2>3 DEF Reported
<1>6. \A i \in Places : notices[i] < run'
  BY <1>1, <1>2 DEF DealsInv, ReportsOnce, AnnouncedOncePerRun
<1>7. BatchIsNew'
  BY <1>1, <1>6 DEF BatchIsNew
<1>8. WireIsNew'
  <2>1. ASSUME NEW i \in 1 .. Len(wire) PROVE wire[i].run < run'
    <3>1. wire[i].run \in Nat /\ wire[i].run <= run
      BY WireTypes DEF DealsInv, ReportsOnce, WireIsNew
    <3> QED
      BY <1>1, <1>2, <3>1
  <2>2. \A i \in 1 .. Len(wire) : wire[i].run <= run' /\ wire[i].run # run'
    BY <1>1, <1>2, <2>1, WireTypes DEF DealsInv
  <2> QED
    BY <1>1, <2>2 DEF DealsInv, ReportsOnce, WireIsNew
<1>9. AnnouncedOncePerRun'
  BY <1>1, <1>2, <1>6 DEF AnnouncedOncePerRun
<1> QED
  BY <1>3, <1>4, <1>5, <1>7, <1>8, <1>9 DEF DealsInv, ReportsOnce

-----------------------------------------------------------------------------
(* The connection and the server *)

\* Reports that leave the wire at its ends leave the rest in order.
LEMMA ShorterWire ==
  ASSUME DealsInv, UNCHANGED <<deals, run, counted, batch>>, NEW k \in 0 .. 1,
         Len(wire') \in Nat,
         \A i \in 1 .. Len(wire') : i + k \in 1 .. Len(wire) /\ wire'[i] = wire[i + k]
  PROVE  /\ UNCHANGED <<rows>> => RowsRight'
         /\ UNCHANGED <<notices>> => WireIsNew'
<1>1. \A i, j \in 1 .. Len(wire') : i < j => i + k < j + k
  OBVIOUS
<1>2. ASSUME UNCHANGED rows PROVE RowsRight'
  <2>1. \A q : Exits(q, Len(deals))' = Exits(q, Len(deals))
    BY DEF Exits
  <2>2. \A i \in 1 .. Len(wire') : /\ PositionOf(wire[i])' = PositionOf(wire[i + k])
                                   /\ Exits(PositionOf(wire[i]), Len(deals))' = Exits(PositionOf(wire[i + k]), Len(deals))
    BY DEF PositionOf, Exits
  <2> QED
    BY <1>1, <1>2, <2>1, <2>2 DEF DealsInv, RowsRight
<1>3. ASSUME UNCHANGED notices PROVE WireIsNew'
  BY <1>1, <1>3 DEF DealsInv, ReportsOnce, WireIsNew
<1> QED
  BY <1>2, <1>3

LEMMA CutWireKeeps == ASSUME DealsInv, CutWire PROVE DealsInv'
<1>1. /\ UNCHANGED <<deals, run, counted, batch, connected, rows, notices, before>>
      /\ reaches' = FALSE
  BY DEF CutWire, ea, server
<1>2. PICK n \in 0 .. Len(wire) :
        /\ wire' = SubSeq(wire, 1, n)
        /\ lost' = lost \cup {PositionOf(wire[i]) : i \in n + 1 .. Len(wire)}
  BY DEF CutWire
<1>3. wire \in Seq(Reports) /\ Len(wire) \in Nat
  BY DEF DealsInv, DealsTypeOK
<1>4. wire' \in Seq(Reports) /\ Len(wire') = n /\ \A i \in 1 .. n : wire'[i] = wire[i]
  BY <1>2, <1>3
<1>5. \A i \in n + 1 .. Len(wire) : PositionOf(wire[i]) \in Positions
  BY <1>2, <1>3, PositionTypes DEF DealsInv
<1>6. DealsTypeOK'
  BY <1>1, <1>2, <1>4, <1>5 DEF DealsInv, DealsTypeOK
<1>7. RowsRight' /\ WireIsNew'
  <2>1. Len(wire') \in Nat /\ \A i \in 1 .. Len(wire') : i + 0 \in 1 .. Len(wire) /\ wire'[i] = wire[i + 0]
    BY <1>3, <1>4
  <2> QED
    BY <1>1, <2>1, ShorterWire
<1>8. NoDealIsForgotten'
  <2> SUFFICES ASSUME NEW q \in Positions, q \notin lost' PROVE Reported(q)'
    BY DEF NoDealIsForgotten
  <2>1. Exits(q, counted)' = Exits(q, counted)
    BY <1>1 DEF Exits
  <2>2. Reported(q)
    BY <1>2 DEF DealsInv, NoDealIsForgotten
  <2>3. CASE \E i \in 1 .. Len(wire) : PositionOf(wire[i]) = q /\ wire[i].total >= Exits(q, counted)
    <3>1. PICK i \in 1 .. Len(wire) : PositionOf(wire[i]) = q /\ wire[i].total >= Exits(q, counted)
      BY <2>3
    <3>2. i \in 1 .. n
      BY <1>2, <1>3, <3>1
    <3>3. PositionOf(wire[i])' = q /\ wire'[i].total >= Exits(q, counted)' /\ i \in 1 .. Len(wire')
      BY <1>1, <1>4, <2>1, <3>1, <3>2 DEF PositionOf
    <3> QED
      BY <3>3 DEF Reported
  <2> QED
    BY <1>1, <2>1, <2>2, <2>3 DEF Reported
<1> QED
  BY <1>1, <1>6, <1>7, <1>8 DEF DealsInv, ReportsOnce, AnnouncedOncePerRun, BatchIsNew

\* The next report a worker handles, and what follows it.
LEMMA NextToHandle ==
  ASSUME DealsInv, wire # <<>>, wire' = Tail(wire)
  PROVE  /\ Head(wire) = wire[1] /\ 1 \in 1 .. Len(wire) /\ Len(wire) \in Nat
         /\ wire' \in Seq(Reports) /\ Len(wire') = Len(wire) - 1
         /\ \A i \in 1 .. Len(wire') : i + 1 \in 1 .. Len(wire) /\ wire'[i] = wire[i + 1]
         /\ PositionOf(wire[1]) \in Positions
<1>1. wire \in Seq(Reports)
  BY DEF DealsInv, DealsTypeOK
<1>2. /\ Head(wire) = wire[1] /\ Len(wire) \in Nat \ {0}
      /\ wire' \in Seq(Reports) /\ Len(wire') = Len(wire) - 1
      /\ \A i \in 1 .. Len(wire) - 1 : wire'[i] = wire[i + 1]
  BY <1>1, TailShape
<1>3. PositionOf(wire[1]) \in Positions
  BY <1>2, PositionTypes DEF DealsInv
<1> QED
  BY <1>2, <1>3

\* A report that was written: it adds up no fewer deals than the row had, and no more
\* than the reports of its position behind it.
LEMMA WrittenKeepsRows ==
  ASSUME DealsInv, wire # <<>>, wire' = Tail(wire), UNCHANGED <<deals, ea, before, lost>>,
         rows' = [rows EXCEPT ![PositionOf(Head(wire))] = Head(wire).total]
  PROVE  RowsRight' /\ NoDealIsForgotten' /\ rows' \in [Positions -> 0 .. MaxDeals]
<1> DEFINE m == wire[1]
           p == PositionOf(m)
<1>1. /\ Head(wire) = m /\ 1 \in 1 .. Len(wire) /\ Len(wire) \in Nat
      /\ wire' \in Seq(Reports) /\ Len(wire') = Len(wire) - 1
      /\ \A i \in 1 .. Len(wire') : i + 1 \in 1 .. Len(wire) /\ wire'[i] = wire[i + 1]
      /\ p \in Positions
  BY NextToHandle
<1>2. UNCHANGED <<deals, run, counted, batch>>
  BY DEF ea
<1>3. rows \in [Positions -> 0 .. MaxDeals] /\ m.total \in Places
  BY <1>1, WireTypes DEF DealsInv, DealsTypeOK
<1>4. /\ rows' \in [Positions -> 0 .. MaxDeals]
      /\ rows'[p] = m.total
      /\ \A q \in Positions : q # p => rows'[q] = rows[q]
  <2>1. m.total \in 0 .. MaxDeals
    BY <1>3 DEF Places
  <2>2. rows' = [rows EXCEPT ![p] = m.total]
    BY <1>1
  <2> HIDE DEF p, m
  <2> QED
    BY <1>1, <1>3, <2>1, <2>2
<1>5. /\ m.total <= Exits(p, Len(deals)) /\ rows[p] <= m.total
      /\ \A q \in Positions : rows[q] <= Exits(q, Len(deals))
  BY <1>1 DEF DealsInv, RowsRight
<1>6. /\ \A q : Exits(q, Len(deals))' = Exits(q, Len(deals)) /\ Exits(q, counted)' = Exits(q, counted)
      /\ \A i : PositionOf(wire[i])' = PositionOf(wire'[i])
      /\ \A i : Exits(PositionOf(wire[i]), Len(deals))' = Exits(PositionOf(wire'[i]), Len(deals))
  BY <1>2 DEF Exits, PositionOf
<1>7. RowsRight'
  <2>1. \A q \in Positions : rows'[q] <= Exits(q, Len(deals))
    BY <1>1, <1>4, <1>5
  <2>2. ASSUME NEW i \in 1 .. Len(wire')
        PROVE  /\ wire'[i].deal <= Len(deals)
               /\ wire'[i].total <= Exits(PositionOf(wire'[i]), Len(deals))
               /\ rows'[PositionOf(wire'[i])] <= wire'[i].total
    <3>1. i + 1 \in 1 .. Len(wire) /\ wire'[i] = wire[i + 1] /\ 1 < i + 1
      BY <1>1
    <3>2. /\ wire[i + 1].deal <= Len(deals)
          /\ wire[i + 1].total <= Exits(PositionOf(wire[i + 1]), Len(deals))
          /\ rows[PositionOf(wire[i + 1])] <= wire[i + 1].total
          /\ p = PositionOf(wire[i + 1]) => m.total <= wire[i + 1].total
      BY <1>1, <3>1 DEF DealsInv, RowsRight
    <3>3. PositionOf(wire[i + 1]) \in Positions
      BY <3>1, PositionTypes DEF DealsInv
    <3> QED
      BY <1>4, <3>1, <3>2, <3>3
  <2>3. ASSUME NEW i \in 1 .. Len(wire'), NEW j \in 1 .. Len(wire'), i < j,
               PositionOf(wire'[i]) = PositionOf(wire'[j])
        PROVE  wire'[i].total <= wire'[j].total
    <3>1. i + 1 \in 1 .. Len(wire) /\ j + 1 \in 1 .. Len(wire) /\ i + 1 < j + 1
      BY <1>1, <2>3
    <3> QED
      BY <1>1, <2>3, <3>1 DEF DealsInv, RowsRight
  <2> QED
    BY <1>2, <1>6, <2>1, <2>2, <2>3 DEF RowsRight
<1>8. NoDealIsForgotten'
  <2> SUFFICES ASSUME NEW q \in Positions, q \notin lost PROVE Reported(q)'
    BY DEF NoDealIsForgotten
  <2>1. Reported(q)
    BY DEF DealsInv, NoDealIsForgotten
  <2>2. rows[q] \in Nat /\ rows'[q] \in Nat /\ rows'[q] >= rows[q] /\ Exits(q, counted) \in Nat
    <3>1. counted \in 0 .. counted /\ counted \in Nat
      BY DEF DealsInv, DealsTypeOK
    <3>2. rows[q] \in Nat /\ rows'[q] \in Nat /\ Exits(q, counted) \in Nat
      BY <1>3, <1>4, <3>1, ExitsBounds
    <3> QED
      BY <1>4, <1>5, <3>2
  <2>3. CASE rows[q] >= Exits(q, counted)
    BY <1>6, <2>2, <2>3 DEF Reported
  <2>4. CASE \E i \in 1 .. Len(wire) : PositionOf(wire[i]) = q /\ wire[i].total >= Exits(q, counted)
    <3>1. PICK i \in 1 .. Len(wire) : PositionOf(wire[i]) = q /\ wire[i].total >= Exits(q, counted)
      BY <2>4
    <3>2. CASE i = 1
      BY <1>4, <1>6, <3>1, <3>2 DEF Reported
    <3>3. CASE i # 1
      <4>1. i - 1 \in 1 .. Len(wire') /\ wire'[i - 1] = wire[i]
        BY <1>1, <3>3
      <4>2. PositionOf(wire[i - 1])' = q /\ wire'[i - 1].total >= Exits(q, counted)'
        BY <1>6, <3>1, <4>1
      <4> QED
        BY <4>1, <4>2 DEF Reported
    <3> QED
      BY <3>2, <3>3
  <2>5. CASE \E i \in 1 .. Len(batch) : deals[batch[i]] = q
    BY <1>2, <2>5 DEF Reported
  <2> QED
    BY <2>1, <2>3, <2>4, <2>5 DEF Reported
<1> QED
  BY <1>4, <1>7, <1>8

\* The announcement of a report: the deal is not announced again by this start.
LEMMA NoticeKeepsOnce ==
  ASSUME DealsInv, wire # <<>>, wire' = Tail(wire), UNCHANGED <<deals, ea>>,
         notices' = [notices EXCEPT ![Head(wire).deal] = @ + 1]
  PROVE  ReportsOnce' /\ notices' \in [Places -> Nat]
<1> DEFINE m == wire[1]
<1>1. /\ Head(wire) = m /\ 1 \in 1 .. Len(wire) /\ Len(wire) \in Nat
      /\ wire' \in Seq(Reports) /\ Len(wire') = Len(wire) - 1
      /\ \A i \in 1 .. Len(wire') : i + 1 \in 1 .. Len(wire) /\ wire'[i] = wire[i + 1]
  BY NextToHandle
<1>2. UNCHANGED <<deals, run, counted, batch>>
  BY DEF ea
<1>3. m.deal \in Places /\ m.run \in Nat /\ run \in Nat /\ notices \in [Places -> Nat]
  BY <1>1, WireTypes DEF DealsInv, DealsTypeOK
<1>4. /\ notices' \in [Places -> Nat]
      /\ notices'[m.deal] = notices[m.deal] + 1
      /\ \A i \in Places : i # m.deal => notices'[i] = notices[i]
  <2>1. notices' = [notices EXCEPT ![m.deal] = notices[m.deal] + 1]
    BY <1>1
  <2>2. notices[m.deal] + 1 \in Nat
    BY <1>3
  <2> HIDE DEF m
  <2> QED
    BY <1>3, <2>1, <2>2
<1>5. /\ m.run <= run /\ notices[m.deal] < m.run
      /\ m.run = run => m.deal <= counted /\ \A k \in 1 .. Len(batch) : m.deal < batch[k]
  BY <1>1 DEF DealsInv, ReportsOnce, WireIsNew
<1>6. notices'[m.deal] <= m.run /\ notices'[m.deal] \in Nat
  BY <1>3, <1>4, <1>5
<1>7. AnnouncedOncePerRun'
  BY <1>2, <1>3, <1>4, <1>5, <1>6 DEF DealsInv, ReportsOnce, AnnouncedOncePerRun
<1>8. BatchIsNew'
  <2>1. Len(deals) <= MaxDeals /\ Len(deals) \in Nat /\ counted \in Nat
    BY DEF DealsInv, DealsTypeOK
  <2>2. \A k \in 1 .. Len(batch) : batch[k] \in Places
    BY <2>1, BatchTypes DEF DealsInv, Places
  <2>3. ASSUME NEW k \in 1 .. Len(batch) PROVE notices'[batch[k]] < run
    <3>1. CASE batch[k] = m.deal
      <4>1. m.run # run
        BY <1>3, <1>5, <3>1 DEF Places
      <4> QED
        BY <1>3, <1>5, <1>6, <3>1, <4>1
    <3>2. CASE batch[k] # m.deal
      BY <1>4, <2>2, <3>2 DEF DealsInv, ReportsOnce, BatchIsNew
    <3> QED
      BY <3>1, <3>2
  <2>4. ASSUME NEW i \in Places, i > counted PROVE notices'[i] < run
    <3>1. CASE i = m.deal
      <4>1. m.run # run
        BY <1>3, <1>5, <2>1, <2>4, <3>1 DEF Places
      <4> QED
        BY <1>3, <1>5, <1>6, <3>1, <4>1
    <3>2. CASE i # m.deal
      BY <1>4, <2>4, <3>2 DEF DealsInv, ReportsOnce, BatchIsNew
    <3> QED
      BY <3>1, <3>2
  <2> QED
    BY <1>2, <2>3, <2>4 DEF DealsInv, ReportsOnce, BatchIsNew
<1>9. WireIsNew'
  <2>1. ASSUME NEW i \in 1 .. Len(wire')
        PROVE  /\ wire'[i].run <= run
               /\ notices'[wire'[i].deal] < wire'[i].run
               /\ wire'[i].run = run => wire'[i].deal <= counted
               /\ wire'[i].run = run => \A k \in 1 .. Len(batch) : wire'[i].deal < batch[k]
    <3>1. i + 1 \in 1 .. Len(wire) /\ wire'[i] = wire[i + 1] /\ 1 < i + 1
      BY <1>1
    <3>2. wire[i + 1].deal \in Places /\ wire[i + 1].run \in Nat
      BY <3>1, WireTypes DEF DealsInv
    <3>3. /\ wire[i + 1].run <= run
          /\ notices[wire[i + 1].deal] < wire[i + 1].run
          /\ wire[i + 1].run = run => wire[i + 1].deal <= counted
          /\ wire[i + 1].run = run => \A k \in 1 .. Len(batch) : wire[i + 1].deal < batch[k]
          /\ m.deal = wire[i + 1].deal => m.run < wire[i + 1].run
      BY <1>1, <3>1 DEF DealsInv, ReportsOnce, WireIsNew
    <3>4. notices'[wire[i + 1].deal] < wire[i + 1].run
      BY <1>3, <1>4, <1>6, <3>2, <3>3
    <3> QED
      BY <3>1, <3>3, <3>4
  <2>2. ASSUME NEW i \in 1 .. Len(wire'), NEW j \in 1 .. Len(wire'), i < j, wire'[i].deal = wire'[j].deal
        PROVE  wire'[i].run < wire'[j].run
    <3>1. i + 1 \in 1 .. Len(wire) /\ j + 1 \in 1 .. Len(wire) /\ i + 1 < j + 1
      BY <1>1, <2>2
    <3> QED
      BY <1>1, <2>2, <3>1 DEF DealsInv, ReportsOnce, WireIsNew
  <2> QED
    BY <1>2, <2>1, <2>2 DEF WireIsNew
<1> QED
  BY <1>4, <1>7, <1>8, <1>9 DEF ReportsOnce

LEMMA OnDealClosedKeeps == ASSUME DealsInv, OnDealClosed PROVE DealsInv'
<1> DEFINE m == Head(wire)
           p == PositionOf(m)
<1>1. /\ wire # <<>> /\ wire' = Tail(wire)
      /\ UNCHANGED <<deals, ea, dealLink, before>>
      /\ UNCHANGED <<run, counted, batch, connected, reaches>>
  BY DEF OnDealClosed, ea, dealLink
<1>2. /\ m = wire[1] /\ 1 \in 1 .. Len(wire) /\ Len(wire) \in Nat
      /\ wire' \in Seq(Reports) /\ Len(wire') = Len(wire) - 1
      /\ \A i \in 1 .. Len(wire') : i + 1 \in 1 .. Len(wire) /\ wire'[i] = wire[i + 1]
      /\ p \in Positions
  BY <1>1, NextToHandle
<1>3. CASE /\ rows' = [rows EXCEPT ![p] = m.total]
           /\ notices' = [notices EXCEPT ![m.deal] = @ + 1]
           /\ UNCHANGED lost
  <2>1. RowsRight' /\ NoDealIsForgotten' /\ rows' \in [Positions -> 0 .. MaxDeals]
    BY <1>1, <1>3, WrittenKeepsRows
  <2>2. ReportsOnce' /\ notices' \in [Places -> Nat]
    BY <1>1, <1>3, NoticeKeepsOnce
  <2>3. DealsTypeOK'
    BY <1>1, <1>2, <1>3, <2>1, <2>2 DEF DealsInv, DealsTypeOK
  <2> QED
    BY <2>1, <2>2, <2>3 DEF DealsInv
<1>4. CASE lost' = lost \cup {p} /\ UNCHANGED <<rows, notices>>
  <2>1. DealsTypeOK'
    BY <1>1, <1>2, <1>4 DEF DealsInv, DealsTypeOK
  <2>2. RowsRight' /\ WireIsNew'
    <3>1. Len(wire') \in Nat /\ 1 \in 0 .. 1
      BY <1>2
    <3> QED
      BY <1>1, <1>2, <1>4, <3>1, ShorterWire
  <2>3. NoDealIsForgotten'
    <3> SUFFICES ASSUME NEW q \in Positions, q \notin lost' PROVE Reported(q)'
      BY DEF NoDealIsForgotten
    <3>1. Exits(q, counted)' = Exits(q, counted)
      BY <1>1 DEF Exits
    <3>2. Reported(q) /\ q # p
      BY <1>4 DEF DealsInv, NoDealIsForgotten
    <3>3. CASE \E i \in 1 .. Len(wire) : PositionOf(wire[i]) = q /\ wire[i].total >= Exits(q, counted)
      <4>1. PICK i \in 1 .. Len(wire) : PositionOf(wire[i]) = q /\ wire[i].total >= Exits(q, counted)
        BY <3>3
      <4>2. i # 1
        BY <1>2, <3>2, <4>1
      <4>3. i - 1 \in 1 .. Len(wire') /\ wire'[i - 1] = wire[i]
        BY <1>2, <4>2
      <4>4. PositionOf(wire[i - 1])' = q /\ wire'[i - 1].total >= Exits(q, counted)'
        BY <1>1, <3>1, <4>1, <4>3 DEF PositionOf
      <4> QED
        BY <4>3, <4>4 DEF Reported
    <3> QED
      BY <1>1, <1>4, <3>1, <3>2, <3>3 DEF Reported
  <2> QED
    BY <1>1, <1>4, <2>1, <2>2, <2>3 DEF DealsInv, ReportsOnce, AnnouncedOncePerRun, BatchIsNew
<1> QED
  BY <1>3, <1>4 DEF OnDealClosed, Upserted, server

-----------------------------------------------------------------------------
(* The theorems *)

\* Every state of the deal path is typed, and satisfies all of the invariant.
THEOREM DealsInvariant == DealsSpec => []DealsInv
<1>1. ASSUME DealsInv, [DealsNext]_dealsVars PROVE DealsInv'
  <2>1. CASE \E p \in Positions : DealMade(p)
    BY <1>1, <2>1, DealMadeKeeps
  <2>2. CASE SyncClosedDeals
    BY <1>1, <2>2, SyncClosedDealsKeeps
  <2>3. CASE SendClosedDeal
    BY <1>1, <2>3, SendClosedDealKeeps
  <2>4. CASE NoticeBreak
    BY <1>1, <2>4, NoticeBreakKeeps
  <2>5. CASE TryConnect
    BY <1>1, <2>5, TryConnectKeeps
  <2>6. CASE FreshEA
    BY <1>1, <2>6, FreshEAKeeps
  <2>7. CASE CutWire
    BY <1>1, <2>7, CutWireKeeps
  <2>8. CASE OnDealClosed
    BY <1>1, <2>8, OnDealClosedKeeps
  <2>9. CASE UNCHANGED dealsVars
    <3>1. UNCHANGED <<deals, ea, wire, server, lost, before>> /\ UNCHANGED <<connected, reaches>>
      BY <2>9 DEF dealsVars, dealLink
    <3>2. connected' \in BOOLEAN /\ reaches' \in BOOLEAN
      BY <1>1, <3>1 DEF DealsInv, DealsTypeOK
    <3> QED
      BY <1>1, <3>1, <3>2, LinkKeeps
  <2> QED
    BY <1>1, <2>1, <2>2, <2>3, <2>4, <2>5, <2>6, <2>7, <2>8, <2>9 DEF DealsNext
<1> QED
  BY <1>1, DealsInitHolds, PTL DEF DealsSpec

\* The deal path keeps its types.
THEOREM DealsTypesHold == DealsSpec => []DealsTypeOK
<1>1. DealsInv => DealsTypeOK
  BY DEF DealsInv
<1> QED
  BY <1>1, DealsInvariant, PTL

\* What the EA has counted is in trades.db, or on its way there, unless the last
\* report of the position vanished.
THEOREM DealsAreReported == DealsSpec => []NoDealIsForgotten
<1>1. DealsInv => NoDealIsForgotten
  BY DEF DealsInv
<1> QED
  BY <1>1, DealsInvariant, PTL

\* No start of the EA has a deal announced twice.
THEOREM DealsAreAnnouncedOnce == DealsSpec => []AnnouncedOncePerRun
<1>1. DealsInv => AnnouncedOncePerRun
  BY DEF DealsInv, ReportsOnce
<1> QED
  BY <1>1, DealsInvariant, PTL

\* No step takes deals off the row of a position.
THEOREM RowsOnlyGrow == DealsSpec => RowsNeverFall
<1>1. ASSUME DealsInv, [DealsNext]_dealsVars
      PROVE  [\A p \in Positions : rows'[p] >= rows[p]]_dealsVars
  <2> SUFFICES ASSUME NEW q \in Positions, DealsNext PROVE rows'[q] >= rows[q]
    BY <1>1
  <2>1. rows[q] \in Nat
    BY <1>1 DEF DealsInv, DealsTypeOK
  <2>2. CASE OnDealClosed
    <3>1. wire # <<>> /\ (rows' = [rows EXCEPT ![PositionOf(Head(wire))] = Head(wire).total] \/ rows' = rows)
      BY <2>2 DEF OnDealClosed, Upserted, server
    <3>2. /\ Head(wire) = wire[1] /\ 1 \in 1 .. Len(wire)
          /\ wire[1].total \in Nat /\ rows[PositionOf(wire[1])] <= wire[1].total
      <4>1. Head(wire) = wire[1] /\ 1 \in 1 .. Len(wire)
        BY <1>1, <3>1, TailShape DEF DealsInv, DealsTypeOK
      <4> QED
        BY <1>1, <4>1, WireTypes DEF DealsInv, RowsRight, Places
    <3>3. CASE rows' = rows
      BY <2>1, <3>3
    <3>4. CASE rows' = [rows EXCEPT ![PositionOf(Head(wire))] = Head(wire).total]
      <4>1. rows \in [Positions -> 0 .. MaxDeals]
        BY <1>1 DEF DealsInv, DealsTypeOK
      <4>2. rows'[q] = IF q = PositionOf(wire[1]) THEN wire[1].total ELSE rows[q]
        BY <3>2, <3>4, <4>1
      <4> QED
        BY <2>1, <3>2, <4>2
    <3> QED
      BY <3>1, <3>3, <3>4
  <2>3. CASE ~OnDealClosed
    <3>1. rows' = rows
      BY <2>3 DEF DealsNext, DealMade, SyncClosedDeals, SendClosedDeal, NoticeBreak, TryConnect,
                  FreshEA, CutWire, server
    <3> QED
      BY <2>1, <3>1
  <2> QED
    BY <2>2, <2>3
<1> QED
  BY <1>1, DealsInvariant, PTL DEF DealsSpec, RowsNeverFall
=============================================================================
