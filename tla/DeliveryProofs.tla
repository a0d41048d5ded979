--------------------------- MODULE DeliveryProofs ---------------------------
(***************************************************************************)
(* What the delivery of events and replies promises for any number of      *)
(* connections and messages, whatever writes and reads fail.               *)
(***************************************************************************)
EXTENDS Delivery, SequenceTheorems, WellFoundedInduction, TLAPS

-----------------------------------------------------------------------------
(* Sequences.                                                              *)

(* The last element of a sequence, added, belongs to it.                   *)
LEMMA AppendType ==
  ASSUME NEW S, NEW q \in Seq(S), NEW m \in S
  PROVE  Append(q, m) \in Seq(S) /\ Append(q, m) # <<>> /\ Len(Append(q, m)) = Len(q) + 1
BY AppendProperties, EmptySeq

(* What is taken off a sequence belongs to it, and so does the rest.       *)
LEMMA HeadTailType ==
  ASSUME NEW S, NEW q \in Seq(S), q # <<>>
  PROVE  Head(q) \in S /\ Tail(q) \in Seq(S)
BY HeadTailProperties

(* Induction over the naturals, for a set of them: a set without its least *)
(* element is empty.                                                       *)
LEMMA NaturalInduction ==
  ASSUME NEW S \in SUBSET Nat, 0 \in S, \A n \in S : n + 1 \in S
  PROVE  S = Nat
<1> DEFINE less == OpToRel(<, Nat)
           T == Nat \ S
<1>1. IsWellFoundedOn(less, Nat)
  BY NatLessThanWellFounded, Zenon
<1>2. \A x, y \in Nat : x < y => <<x, y>> \in less
  BY Zenon DEF OpToRel
<1>3. SUFFICES ASSUME T # {} PROVE FALSE
  OBVIOUS
<1>4. \E x \in T : \A y \in T : ~(<<y, x>> \in less)
  <2> HIDE DEF less, T
  <2>1. T \subseteq Nat
    BY DEF T
  <2> QED BY <1>1, <1>3, <2>1, WFMin, Zenon
<1>5. PICK x \in T : \A y \in T : ~(<<y, x>> \in less)
  BY <1>4
<1> HIDE DEF less
<1>6. x # 0 /\ x - 1 \in Nat /\ x - 1 < x
  OBVIOUS
<1>7. x - 1 \in S
  BY <1>2, <1>5, <1>6
<1> QED
  BY <1>6, <1>7

(* Induction over sequences, for a set of them.                            *)
LEMMA SequenceInduction ==
  ASSUME NEW S, NEW Q \in SUBSET Seq(S), <<>> \in Q,
         \A q \in Q : \A x \in S : Append(q, x) \in Q
  PROVE  Q = Seq(S)
<1> DEFINE L == {n \in Nat : \A q \in Seq(S) : Len(q) = n => q \in Q}
<1>1. 0 \in L
  BY EmptySeq
<1>2. ASSUME NEW n \in L
      PROVE  n + 1 \in L
  <2>1. n \in Nat /\ \A q \in Seq(S) : Len(q) = n => q \in Q
    OBVIOUS
  <2> HIDE DEF L
  <2>2. SUFFICES ASSUME NEW q \in Seq(S), Len(q) = n + 1
                 PROVE  q \in Q
    BY <2>1 DEF L
  <2>3. q # <<>>
    BY <2>1, <2>2, EmptySeq
  <2>4. PICK r \in Seq(S), x \in S : q = Append(r, x)
    BY <2>3, SequenceEmptyOrAppend
  <2>5. Len(q) = Len(r) + 1 /\ Len(r) \in Nat
    BY <2>4, AppendProperties, LenProperties
  <2> QED
    BY <2>1, <2>2, <2>4, <2>5
<1>3. L = Nat
  <2> HIDE DEF L
  <2>1. L \in SUBSET Nat
    BY DEF L
  <2> QED BY <1>1, <1>2, <2>1, NaturalInduction
<1>4. \A q \in Seq(S) : Len(q) \in L
  BY <1>3, LenProperties
<1> QED
  BY <1>4

(* g is the function by which From is defined: the messages of t among the *)
(* first i of q.                                                           *)
IsKept(t, q, g) ==
  g = [i \in 0..Len(q) |->
         IF i = 0 THEN <<>>
         ELSE IF q[i].from = t THEN Append(g[i - 1], q[i]) ELSE g[i - 1]]

(* From takes the last value of a function that is kept so.                *)
LEMMA FromIsKept ==
  ASSUME NEW t, NEW q
  PROVE  From(t, q) = (CHOOSE g : IsKept(t, q, g))[Len(q)]
BY DEF From, IsKept

(* There is at most one such function,                                     *)
LEMMA KeptUnique ==
  ASSUME NEW t, NEW S, NEW q \in Seq(S), NEW g, NEW h, IsKept(t, q, g), IsKept(t, q, h)
  PROVE  g = h
<1> DEFINE I == {i \in Nat : i <= Len(q) => g[i] = h[i]}
<1>1. Len(q) \in Nat
  BY LenProperties
<1>2. /\ DOMAIN g = 0..Len(q) /\ DOMAIN h = 0..Len(q)
      /\ g = [i \in 0..Len(q) |-> g[i]] /\ h = [i \in 0..Len(q) |-> h[i]]
  BY DEF IsKept
<1>3. 0 \in I
  BY <1>1 DEF IsKept
<1>4. ASSUME NEW i \in I
      PROVE  i + 1 \in I
  <2>1. SUFFICES ASSUME i + 1 <= Len(q)
                 PROVE  g[i + 1] = h[i + 1]
    OBVIOUS
  <2>2. i \in Nat /\ g[i] = h[i] /\ i + 1 \in 0..Len(q) /\ i + 1 # 0 /\ (i + 1) - 1 = i
    BY <1>1, <2>1
  <2> HIDE DEF I
  <2>3. g[i + 1] = IF q[i + 1].from = t THEN Append(g[i], q[i + 1]) ELSE g[i]
    BY <2>2 DEF IsKept
  <2>4. h[i + 1] = IF q[i + 1].from = t THEN Append(h[i], q[i + 1]) ELSE h[i]
    BY <2>2 DEF IsKept
  <2> QED
    BY <2>2, <2>3, <2>4
<1>5. I = Nat
  <2> HIDE DEF I
  <2>1. I \in SUBSET Nat
    BY DEF I
  <2> QED BY <1>3, <1>4, <2>1, NaturalInduction
<1>6. \A i \in 0..Len(q) : g[i] = h[i]
  BY <1>1, <1>5
<1> QED
  BY <1>2, <1>6

(* the one of a longer queue extends the one of the shorter,               *)
LEMMA KeptOfAppend ==
  ASSUME NEW t, NEW S, NEW q \in Seq(S), NEW m \in S, NEW g, IsKept(t, q, g)
  PROVE  LET n == Len(q)
             more == IF m.from = t THEN Append(g[n], m) ELSE g[n]
         IN  IsKept(t, Append(q, m), [i \in 0..(n + 1) |-> IF i = n + 1 THEN more ELSE g[i]])
<1> DEFINE n == Len(q)
           more == IF m.from = t THEN Append(g[n], m) ELSE g[n]
           h == [i \in 0..(n + 1) |-> IF i = n + 1 THEN more ELSE g[i]]
           r == Append(q, m)
<1>1. /\ n \in Nat /\ Len(r) = n + 1 /\ r[n + 1] = m
      /\ \A i \in 1..n : r[i] = q[i]
  BY AppendProperties, LenProperties
<1>2. ASSUME NEW i \in 0..(n + 1)
      PROVE  h[i] = IF i = 0 THEN <<>>
                    ELSE IF r[i].from = t THEN Append(h[i - 1], r[i]) ELSE h[i - 1]
  <2> HIDE DEF r, more
  <2>1. CASE i = n + 1
    <3>1. h[i] = more /\ i # 0 /\ h[i - 1] = g[n] /\ r[i] = m
      BY <1>1, <2>1
    <3> QED BY <3>1 DEF more
  <2>2. CASE i # n + 1 /\ i # 0
    <3>1. h[i] = g[i] /\ h[i - 1] = g[i - 1] /\ i \in 0..n /\ r[i] = q[i]
      BY <1>1, <2>2
    <3>2. g[i] = IF q[i].from = t THEN Append(g[i - 1], q[i]) ELSE g[i - 1]
      BY <1>1, <2>2, <3>1 DEF IsKept
    <3> QED BY <2>2, <3>1, <3>2
  <2>3. CASE i = 0
    <3>1. h[i] = g[0] /\ 0 \in 0..n
      BY <1>1, <2>3
    <3>2. g[0] = <<>>
      BY <3>1 DEF IsKept
    <3> QED BY <2>3, <3>1, <3>2
  <2> QED
    BY <2>1, <2>2, <2>3
<1>3. h = [i \in 0..(n + 1) |-> h[i]]
  OBVIOUS
<1>4. IsKept(t, r, h)
  <2> HIDE DEF h, r
  <2> QED BY <1>1, <1>2, <1>3 DEF IsKept
<1> QED
  BY <1>4

(* and so every queue has one.                                             *)
LEMMA KeptExists ==
  ASSUME NEW t, NEW S, NEW q \in Seq(S)
  PROVE  \E g : IsKept(t, q, g)
<1> DEFINE Q == {r \in Seq(S) : \E g : IsKept(t, r, g)}
<1>1. <<>> \in Q
  <2> DEFINE g == [i \in 0..0 |-> <<>>]
  <2>1. <<>> \in Seq(S) /\ Len(<<>>) = 0
    BY EmptySeq
  <2>2. IsKept(t, <<>>, g)
    BY <2>1 DEF IsKept
  <2> QED
    BY <2>1, <2>2
<1>2. \A r \in Q : \A x \in S : Append(r, x) \in Q
  BY KeptOfAppend, AppendProperties
<1>3. Q = Seq(S)
  <2> HIDE DEF Q
  <2>1. Q \in SUBSET Seq(S)
    BY DEF Q
  <2> QED BY <1>1, <1>2, <2>1, SequenceInduction
<1> QED
  BY <1>3

(* From is the last value of any function that is kept so.                 *)
LEMMA FromOfKept ==
  ASSUME NEW t, NEW S, NEW q \in Seq(S), NEW g, IsKept(t, q, g)
  PROVE  From(t, q) = g[Len(q)]
<1>1. IsKept(t, q, CHOOSE h : IsKept(t, q, h))
  BY KeptExists
<1>2. (CHOOSE h : IsKept(t, q, h)) = g
  BY <1>1, KeptUnique
<1> QED
  BY <1>2, FromIsKept

(* A message joins a queue at its end, and what is from its sender in it.  *)
LEMMA FromAppend ==
  ASSUME NEW t, NEW S, NEW q \in Seq(S), NEW m \in S
  PROVE  From(t, Append(q, m)) = IF m.from = t THEN Append(From(t, q), m) ELSE From(t, q)
<1>1. PICK g : IsKept(t, q, g)
  BY KeptExists
<1> DEFINE n == Len(q)
           more == IF m.from = t THEN Append(g[n], m) ELSE g[n]
           h == [i \in 0..(n + 1) |-> IF i = n + 1 THEN more ELSE g[i]]
<1>2. IsKept(t, Append(q, m), h)
  BY <1>1, KeptOfAppend
<1>3. n \in Nat /\ Append(q, m) \in Seq(S) /\ Len(Append(q, m)) = n + 1
  BY AppendProperties, LenProperties
<1>4. From(t, Append(q, m)) = h[n + 1] /\ h[n + 1] = more
  <2>1. h[n + 1] = more
    BY <1>3
  <2> HIDE DEF h
  <2> QED BY <1>2, <1>3, <2>1, FromOfKept
<1>5. From(t, q) = g[n]
  BY <1>1, FromOfKept
<1> QED
  BY <1>4, <1>5

(* Nothing is from t in the empty queue.                                   *)
LEMMA FromEmpty ==
  ASSUME NEW t
  PROVE  From(t, <<>>) = <<>>
<1> DEFINE g == [i \in 0..0 |-> <<>>]
<1>1. <<>> \in Seq({}) /\ Len(<<>>) = 0
  BY EmptySeq
<1>2. IsKept(t, <<>>, g)
  BY <1>1 DEF IsKept
<1>3. g[0] = <<>>
  OBVIOUS
<1> HIDE DEF g
<1> QED
  BY <1>1, <1>2, <1>3, FromOfKept

(* What is from t in a queue of messages is a queue of messages.           *)
LEMMA FromType ==
  ASSUME NEW t, NEW S, NEW q \in Seq(S)
  PROVE  From(t, q) \in Seq(S)
<1> DEFINE Q == {r \in Seq(S) : From(t, r) \in Seq(S)}
<1>1. <<>> \in Q
  BY FromEmpty, EmptySeq
<1>2. ASSUME NEW r \in Q, NEW x \in S
      PROVE  Append(r, x) \in Q
  <2>1. r \in Seq(S) /\ From(t, r) \in Seq(S)
    OBVIOUS
  <2> HIDE DEF Q
  <2>2. From(t, Append(r, x)) = IF x.from = t THEN Append(From(t, r), x) ELSE From(t, r)
    BY <2>1, FromAppend
  <2>3. Append(r, x) \in Seq(S) /\ Append(From(t, r), x) \in Seq(S)
    BY <2>1, AppendType
  <2>4. From(t, Append(r, x)) \in Seq(S)
    BY <2>1, <2>2, <2>3
  <2> QED
    BY <2>3, <2>4 DEF Q
<1>3. Q = Seq(S)
  <2> HIDE DEF Q
  <2>1. Q \in SUBSET Seq(S)
    BY DEF Q
  <2> QED BY <1>1, <1>2, <2>1, SequenceInduction
<1> QED
  BY <1>3

(* It is the same to join two sequences and add at the end, or to add at   *)
(* the end of the second and join them then.                               *)
LEMMA ConcatAppend ==
  ASSUME NEW S, NEW p \in Seq(S), NEW q \in Seq(S), NEW x \in S
  PROVE  p \o Append(q, x) = Append(p \o q, x) /\ p \o q \in Seq(S)
<1>1. <<x>> \in Seq(S)
  OBVIOUS
<1>2. p \o q \in Seq(S)
  BY ConcatProperties
<1>3. p \o (q \o <<x>>) = (p \o q) \o <<x>>
  BY <1>1, ConcatAssociative
<1>4. Append(q, x) = q \o <<x>> /\ Append(p \o q, x) = (p \o q) \o <<x>>
  BY <1>2, AppendIsConcat
<1> QED
  BY <1>2, <1>3, <1>4

(* The first element of the second of two sequences may move to the first. *)
LEMMA HeadMoves ==
  ASSUME NEW S, NEW p \in Seq(S), NEW q \in Seq(S), q # <<>>
  PROVE  Append(p, Head(q)) \o Tail(q) = p \o q
<1>1. /\ Head(q) \in S /\ Tail(q) \in Seq(S)
      /\ q = <<Head(q)>> \o Tail(q)
  BY HeadTailProperties, ConcatProperties
<1>2. <<Head(q)>> \in Seq(S) /\ Append(p, Head(q)) = p \o <<Head(q)>>
  BY <1>1, AppendIsConcat
<1>3. p \o (<<Head(q)>> \o Tail(q)) = (p \o <<Head(q)>>) \o Tail(q)
  BY <1>1, <1>2, ConcatAssociative
<1> QED
  BY <1>1, <1>2, <1>3

(* A message at the front of a queue is the first of those of its sender.  *)
LEMMA FromPrepend ==
  ASSUME NEW t, NEW S, NEW m \in S, NEW q \in Seq(S)
  PROVE  From(t, <<m>> \o q) = IF m.from = t THEN <<m>> \o From(t, q) ELSE From(t, q)
<1> DEFINE Ahead(r) == IF m.from = t THEN <<m>> \o r ELSE r
           Q == {r \in Seq(S) : From(t, <<m>> \o r) = Ahead(From(t, r))}
<1>1. <<m>> \in Seq(S) /\ <<>> \in Seq(S)
  OBVIOUS
<1>2. <<>> \in Q
  <2>1. <<m>> \o <<>> = <<m>> /\ <<m>> = Append(<<>>, m)
    OBVIOUS
  <2>2. From(t, Append(<<>>, m)) = IF m.from = t THEN Append(From(t, <<>>), m) ELSE From(t, <<>>)
    BY <1>1, FromAppend
  <2>3. From(t, <<>>) = <<>>
    BY FromEmpty
  <2> QED
    BY <1>1, <2>1, <2>2, <2>3
<1>3. ASSUME NEW r \in Q, NEW x \in S
      PROVE  Append(r, x) \in Q
  <2>1. r \in Seq(S) /\ From(t, <<m>> \o r) = Ahead(From(t, r)) /\ From(t, r) \in Seq(S)
    BY FromType
  <2> HIDE DEF Q
  <2>2. /\ <<m>> \o Append(r, x) = Append(<<m>> \o r, x)
        /\ <<m>> \o r \in Seq(S) /\ Append(r, x) \in Seq(S)
    <3>1. <<m>> \in Seq(S)
      OBVIOUS
    <3> QED BY <2>1, <3>1, ConcatAppend, AppendType
  <2>3. From(t, Append(<<m>> \o r, x))
          = IF x.from = t THEN Append(From(t, <<m>> \o r), x) ELSE From(t, <<m>> \o r)
    BY <2>2, FromAppend
  <2>4. From(t, Append(r, x)) = IF x.from = t THEN Append(From(t, r), x) ELSE From(t, r)
    BY <2>1, FromAppend
  <2>5. <<m>> \o Append(From(t, r), x) = Append(<<m>> \o From(t, r), x)
    <3>1. <<m>> \in Seq(S)
      OBVIOUS
    <3> QED BY <2>1, <3>1, ConcatAppend
  <2>6. From(t, <<m>> \o Append(r, x)) = Ahead(From(t, Append(r, x)))
    BY <2>1, <2>2, <2>3, <2>4, <2>5
  <2> QED
    BY <2>2, <2>6 DEF Q
<1>4. Q = Seq(S)
  <2> HIDE DEF Q
  <2>1. Q \in SUBSET Seq(S)
    BY DEF Q
  <2> QED BY <1>2, <1>3, <2>1, SequenceInduction
<1> QED
  BY <1>4

-----------------------------------------------------------------------------
(* The inductive invariant, in three parts.                                *)

(* What a handler does after it has sent its message: the plans with which *)
(* handlers begin, and what is left of them.                               *)
Plans == {<<>>, <<"reply">>, <<"register", "reply">>, <<"unregister", "reply">>}

Task == [kind : {"event", "reply"}, n : Nat, todo : SUBSET Links, after : Plans]

(* A reply is still to come from a handler that has steps left.            *)
Owed(work) == IF work.after = <<>> THEN 0 ELSE 1
RepliesDue(t) == Owed(task[t])

(* A sender sends no message that it has not formed, and the room left is  *)
(* room for what the handlers in progress have still to form.              *)
SendersKeepBounds ==
  /\ task \in [Senders -> Task]
  /\ formed \in [Senders -> Nat]
  /\ room \in Nat
  /\ \A t \in Senders :
       /\ task[t].n <= formed[t]
       /\ task[t].todo # {} => task[t].n # 0
       /\ formed[t] + RepliesDue(t) + room <= MaxMessages

(* writing_ says whether the queue holds something, and one write at most  *)
(* is under way: always one, while the stream is open and the queue holds  *)
(* something.                                                              *)
WritersInStep ==
  /\ posted \in [Links -> Seq(Message)]
  /\ write_queue \in [Links -> Seq(Message)]
  /\ received \in [Links -> Seq(Message)]
  /\ writing \in [Links -> BOOLEAN]
  /\ in_flight \in [Links -> Nat]
  /\ stream \in [Links -> {"open", "mute", "closed"}]
  /\ OneWriteAtATime
  /\ \A c \in Links : writing[c] <=> write_queue[c] # <<>>

RegistryTyped ==
  /\ joined \in [Links -> BOOLEAN]
  /\ DOMAIN connections \subseteq {Session} \X Links
  /\ \A k \in DOMAIN connections : connections[k] = k[2]

DInv == SendersKeepBounds /\ WritersInStep /\ RegistryTyped

-----------------------------------------------------------------------------
(* Senders.                                                                *)

(* What is left of a plan after its first step is a plan, and the reply is *)
(* the last step of every plan that has one.                               *)
LEMMA PlansShrink ==
  ASSUME NEW after \in Plans, after # <<>>
  PROVE  /\ Tail(after) \in Plans
         /\ Head(after) = "reply" => Tail(after) = <<>>
         /\ Head(after) # "reply" => Tail(after) # <<>>
<1>1. CASE after = <<"reply">>
  <2>1. Tail(<<"reply">>) = <<>> /\ Head(<<"reply">>) = "reply"
    OBVIOUS
  <2> QED
    BY <1>1, <2>1 DEF Plans
<1>2. CASE after = <<"register", "reply">>
  <2>1. /\ Tail(<<"register", "reply">>) = <<"reply">>
        /\ Head(<<"register", "reply">>) = "register"
        /\ <<"reply">> # <<>>
    OBVIOUS
  <2> QED
    BY <1>2, <2>1 DEF Plans
<1>3. CASE after = <<"unregister", "reply">>
  <2>1. /\ Tail(<<"unregister", "reply">>) = <<"reply">>
        /\ Head(<<"unregister", "reply">>) = "unregister"
        /\ <<"reply">> # <<>>
    OBVIOUS
  <2> QED
    BY <1>3, <2>1 DEF Plans
<1> QED
  BY <1>1, <1>2, <1>3 DEF Plans

(* A step of one sender, which needs no more room than it had claimed and  *)
(* sends nothing that is not formed, keeps the bounds of all of them.      *)
LEMMA OneSenderSteps ==
  ASSUME SendersKeepBounds, NEW t \in Senders, NEW new \in Task, NEW k \in Nat, NEW left \in Nat,
         new.n <= k, new.todo # {} => new.n # 0, left <= room,
         k + Owed(new) + left <= formed[t] + RepliesDue(t) + room,
         task' = [task EXCEPT ![t] = new],
         formed' = [formed EXCEPT ![t] = k],
         room' = left
  PROVE  SendersKeepBounds'
<1>1. /\ task' \in [Senders -> Task] /\ formed' \in [Senders -> Nat] /\ room' \in Nat
  BY DEF SendersKeepBounds
<1>2. ASSUME NEW u \in Senders
      PROVE  /\ task'[u].n <= formed'[u]
             /\ task'[u].todo # {} => task'[u].n # 0
             /\ formed'[u] + RepliesDue(u)' + room' <= MaxMessages
  <2>1. CASE u = t
    <3>1. task'[u] = new /\ formed'[u] = k /\ RepliesDue(u)' = Owed(new)
      BY <2>1 DEF SendersKeepBounds, RepliesDue
    <3>2. formed[t] \in Nat /\ room \in Nat /\ formed[t] + RepliesDue(t) + room <= MaxMessages
      BY DEF SendersKeepBounds
    <3>3. RepliesDue(t) \in {0, 1} /\ RepliesDue(u)' \in {0, 1}
      BY DEF RepliesDue, Owed
    <3> HIDE DEF RepliesDue
    <3> QED
      BY <3>1, <3>2, <3>3, DeliveryAssumption
  <2>2. CASE u # t
    <3>1. task'[u] = task[u] /\ formed'[u] = formed[u] /\ formed[u] \in Nat /\ room \in Nat
      BY <2>2 DEF SendersKeepBounds
    <3>2. /\ task[u].n <= formed[u]
          /\ task[u].todo # {} => task[u].n # 0
          /\ formed[u] + RepliesDue(u) + room <= MaxMessages
      BY DEF SendersKeepBounds
    <3>3. RepliesDue(u)' = RepliesDue(u) /\ RepliesDue(u) \in {0, 1}
      BY <3>1 DEF RepliesDue, Owed
    <3> HIDE DEF RepliesDue
    <3>4. room' \in Nat /\ room' <= room
      OBVIOUS
    <3> QED
      BY <3>1, <3>2, <3>3, <3>4, DeliveryAssumption
  <2> QED
    BY <2>1, <2>2
<1> QED
  BY <1>1, <1>2 DEF SendersKeepBounds

(* What the senders' part says of one sender.                              *)
LEMMA TaskType ==
  ASSUME SendersKeepBounds, NEW t \in Senders
  PROVE  /\ task[t] \in Task /\ task[t].n <= formed[t]
         /\ task[t].todo # {} => task[t].n # 0
         /\ formed[t] \in Nat /\ room \in Nat
         /\ formed[t] + RepliesDue(t) + room <= MaxMessages
BY DEF SendersKeepBounds

(* A sender at rest owes nothing.                                          *)
LEMMA RestingOwesNothing ==
  ASSUME NEW t \in Senders, Resting(t)
  PROVE  RepliesDue(t) = 0 /\ task[t].todo = {} /\ task[t].after = <<>>
BY DEF Resting, Idle, Silent, RepliesDue, Owed

(* A handler that begins with a broadcast takes the room for its event and *)
(* for its reply.                                                          *)
LEMMA HandlerBegins ==
  ASSUME SendersKeepBounds, NEW t \in Senders, Resting(t), NEW after \in Plans,
         NEW n \in Nat, TakesRoom(n), n = IF after = <<>> THEN 1 ELSE 2, Broadcast(t, after)
  PROVE  SendersKeepBounds'
<1> DEFINE to == Registry!GetSessionConnections(Session, Links)
           new == [kind |-> "event", n |-> formed[t] + 1, todo |-> to, after |-> after]
<1>1. /\ formed[t] \in Nat /\ room \in Nat /\ RepliesDue(t) = 0
  BY TaskType, RestingOwesNothing
<1>2. /\ task' = [task EXCEPT ![t] = new]
      /\ formed' = [formed EXCEPT ![t] = formed[t] + 1]
      /\ room' = room - n /\ n <= room
  BY DEF Broadcast, Sends, TakesRoom
<1>3. to \in SUBSET Links
  BY DEF Registry!GetSessionConnections
<1>4. new \in Task /\ new.n = formed[t] + 1 /\ new.after = after
  <2> HIDE DEF to
  <2> QED BY <1>1, <1>3 DEF Task
<1>5. room - n \in Nat /\ room - n <= room
  BY <1>1, <1>2
<1>6. (formed[t] + 1) + Owed(new) + (room - n) <= formed[t] + RepliesDue(t) + room
  BY <1>1 DEF Owed
<1>7. formed[t] + 1 \in Nat /\ formed[t] + 1 <= formed[t] + 1 /\ formed[t] + 1 # 0
  BY <1>1
<1>8. new.n <= formed[t] + 1 /\ (new.todo # {} => new.n # 0)
  BY <1>4, <1>7
<1> HIDE DEF new
<1> QED
  BY <1>2, <1>4, <1>5, <1>6, <1>7, <1>8, OneSenderSteps

(* Every step of the system keeps the senders' bounds.                     *)
LEMMA SendersStep == SendersKeepBounds /\ [DeliveryNext]_deliveryVars => SendersKeepBounds'
<1> SUFFICES ASSUME SendersKeepBounds, [DeliveryNext]_deliveryVars
             PROVE  SendersKeepBounds'
  OBVIOUS
<1>1. ASSUME UNCHANGED <<task, formed, room>>
      PROVE  SendersKeepBounds'
  BY <1>1 DEF SendersKeepBounds, RepliesDue
<1>2. ASSUME NEW c \in Links, JoinHandler(c) \/ LeaveHandler(c) \/ GameHandler(c)
      PROVE  SendersKeepBounds'
  <2>1. c \in Senders /\ Resting(c) /\ TakesRoom(2)
    BY <1>2 DEF JoinHandler, LeaveHandler, GameHandler, Serves, Senders
  <2>2. PICK after \in Plans \ {<<>>} : Broadcast(c, after)
    <3>1. /\ <<"register", "reply">> # <<>> /\ <<"unregister", "reply">> # <<>>
          /\ <<"reply">> # <<>>
      OBVIOUS
    <3> QED
      BY <1>2, <3>1 DEF JoinHandler, LeaveHandler, GameHandler, Plans
  <2> QED
    BY <2>1, <2>2, HandlerBegins
<1>3. ASSUME NEW c \in Links, QuietHandler(c)
      PROVE  SendersKeepBounds'
  <2>1. c \in Senders /\ Resting(c) /\ TakesRoom(1) /\ UNCHANGED formed
    BY <1>3 DEF QuietHandler, Serves, Senders
  <2>2. PICK after \in Plans \ {<<>>} : task' = [task EXCEPT ![c] = Silent(after)]
    <3>1. <<"register", "reply">> # <<>> /\ <<"reply">> # <<>>
      OBVIOUS
    <3> QED
      BY <1>3, <3>1 DEF QuietHandler, Plans
  <2> DEFINE new == Silent(after)
  <2>3. new \in Task /\ new.n = 0 /\ new.todo = {} /\ new.after = after
    BY DEF Task, Silent
  <2>4. formed[c] \in Nat /\ room \in Nat /\ RepliesDue(c) = 0 /\ formed = [formed EXCEPT ![c] = formed[c]]
    BY <2>1, TaskType, RestingOwesNothing DEF SendersKeepBounds
  <2>5. /\ room' = room - 1 /\ room - 1 \in Nat /\ room - 1 <= room
    BY <2>1, <2>4 DEF TakesRoom
  <2>6. formed[c] + Owed(new) + (room - 1) <= formed[c] + RepliesDue(c) + room
    BY <2>4 DEF Owed
  <2>7. task' = [task EXCEPT ![c] = new]
    BY <2>2
  <2>8. formed' = [formed EXCEPT ![c] = formed[c]]
    BY <2>1, <2>4
  <2>9. new.n <= formed[c] /\ (new.todo # {} => new.n # 0)
    BY <2>3, <2>4
  <2> HIDE DEF new
  <2> QED
    BY <2>1, <2>3, <2>4, <2>5, <2>6, <2>7, <2>8, <2>9, OneSenderSteps
<1>4. CASE TickHandler
  <2>1. Ticker \in Senders /\ Resting(Ticker) /\ TakesRoom(1) /\ Broadcast(Ticker, <<>>)
    BY <1>4 DEF TickHandler, Senders
  <2> QED
    BY <2>1, HandlerBegins DEF Plans
<1>5. ASSUME NEW t \in Senders, NEW new \in Task,
             task' = [task EXCEPT ![t] = new], UNCHANGED <<formed, room>>,
             new.n <= task[t].n, new.todo \subseteq task[t].todo,
             new.todo # {} => new.n = task[t].n,
             task[t].after = <<>> => new.after = <<>>
      PROVE  SendersKeepBounds'
  <2>1. formed[t] \in Nat /\ room \in Nat /\ task[t].n \in Nat /\ task[t].n <= formed[t]
        /\ (task[t].todo # {} => task[t].n # 0) /\ formed' = [formed EXCEPT ![t] = formed[t]]
    BY <1>5, TaskType DEF SendersKeepBounds, Task
  <2>2. new.n <= formed[t] /\ (new.todo # {} => new.n # 0)
    BY <1>5, <2>1 DEF Task
  <2>3. formed[t] + Owed(new) + room <= formed[t] + RepliesDue(t) + room /\ room <= room
    BY <1>5, <2>1 DEF RepliesDue, Owed
  <2>4. /\ formed' = [formed EXCEPT ![t] = formed[t]]
        /\ room' = room
    BY <1>5, <2>1
  <2> QED
    BY <1>5, <2>1, <2>2, <2>3, <2>4, OneSenderSteps
<1>6. ASSUME NEW t \in Senders, NEW c \in Links, PostTo(t, c)
      PROVE  SendersKeepBounds'
  <2> DEFINE new == Served(task[t], c)
  <2>1. task[t] \in Task
    BY TaskType
  <2>2. task' = [task EXCEPT ![t] = new] /\ UNCHANGED <<formed, room>>
    BY <1>6 DEF PostTo
  <2>3. /\ new \in Task /\ new.n <= task[t].n /\ new.todo \subseteq task[t].todo
        /\ new.todo # {} => new.n = task[t].n
        /\ task[t].after = <<>> => new.after = <<>>
    BY <2>1 DEF Task, Idle, Silent, Plans, Served
  <2> HIDE DEF new
  <2> QED
    BY <1>5, <2>2, <2>3
<1>7. ASSUME NEW t \in Senders, Unheard(t)
      PROVE  SendersKeepBounds'
  <2>1. task' = [task EXCEPT ![t] = Idle] /\ UNCHANGED <<formed, room>> /\ task[t] \in Task
    BY <1>7, TaskType DEF Unheard
  <2>2. Idle \in Task /\ Idle.n = 0 /\ Idle.todo = {} /\ Idle.after = <<>>
    BY DEF Idle, Silent, Task, Plans
  <2>3. 0 <= task[t].n /\ {} \subseteq task[t].todo
    BY <2>1 DEF Task
  <2> QED
    BY <1>5, <2>1, <2>2, <2>3
<1>8. ASSUME NEW c \in Links, RegisterStep(c) \/ UnregisterStep(c)
      PROVE  SendersKeepBounds'
  <2> DEFINE new == [task[c] EXCEPT !.after = Tail(task[c].after)]
  <2>1. c \in Senders /\ task' = [task EXCEPT ![c] = new] /\ UNCHANGED <<formed, room>>
    <3>1. Goes(c) /\ UNCHANGED <<formed, room>> /\ c \in Senders
      BY <1>8 DEF RegisterStep, UnregisterStep, Senders
    <3>2. task' = [task EXCEPT ![c] = [task[c] EXCEPT !.after = Tail(task[c].after)]]
      BY <3>1, Zenon DEF Goes
    <3> QED
      BY <3>1, <3>2, Zenon DEF new
  <2>2. task[c] \in Task /\ task[c].after # <<>>
    BY <1>8, <2>1, TaskType DEF RegisterStep, UnregisterStep, NextStep
  <2>3. Tail(task[c].after) \in Plans
    BY <2>2, PlansShrink DEF Task
  <2>4. task[c] \in Task
    BY <2>2
  <2>5. /\ new \in Task /\ new.n = task[c].n /\ new.todo = task[c].todo
        /\ task[c].n \in Nat
    <3> DEFINE rest == Tail(task[c].after)
    <3> HIDE DEF rest
    <3> QED BY <2>3, <2>4 DEF Task, rest
  <2>6. new.n <= task[c].n /\ new.todo \subseteq task[c].todo
    <3> HIDE DEF new
    <3> QED BY <2>5
  <2> HIDE DEF new
  <2> QED
    BY <1>5, <2>1, <2>2, <2>5, <2>6
<1>9. ASSUME NEW c \in Links, ReplyStep(c)
      PROVE  SendersKeepBounds'
  <2> DEFINE new == [kind |-> "reply", n |-> formed[c] + 1, todo |-> {c},
                     after |-> Tail(task[c].after)]
  <2>1. c \in Senders /\ task' = [task EXCEPT ![c] = new] /\ UNCHANGED room
        /\ formed' = [formed EXCEPT ![c] = formed[c] + 1]
    BY <1>9 DEF ReplyStep, Sends, Senders
  <2>2. task[c] \in Task /\ task[c].after # <<>> /\ Head(task[c].after) = "reply"
        /\ formed[c] \in Nat /\ room \in Nat
    BY <1>9, <2>1, TaskType DEF ReplyStep, NextStep
  <2>3. Tail(task[c].after) = <<>>
    BY <2>2, PlansShrink DEF Task
  <2>4. new \in Task /\ new.n = formed[c] + 1 /\ new.after = <<>>
    BY <2>2, <2>3 DEF Task, Plans
  <2>5. RepliesDue(c) = 1 /\ Owed(new) = 0
    BY <2>2, <2>4 DEF RepliesDue, Owed
  <2>6. (formed[c] + 1) + Owed(new) + room <= formed[c] + RepliesDue(c) + room /\ room <= room
    BY <2>2, <2>5
  <2>7. /\ formed[c] + 1 \in Nat /\ new.n <= formed[c] + 1 /\ (new.todo # {} => new.n # 0)
    BY <2>2, <2>4
  <2> HIDE DEF new
  <2> QED
    BY <2>1, <2>2, <2>4, <2>6, <2>7, OneSenderSteps
<1>10. ASSUME NEW c \in Links, TakePosted(c) \/ WriteDone(c) \/ WriteFails(c) \/ ReadFails(c)
       PROVE  SendersKeepBounds'
  BY <1>1, <1>10 DEF TakePosted, WriteDone, WriteFails, ReadFails, OnDisconnect
<1>11. CASE UNCHANGED deliveryVars
  BY <1>1, <1>11 DEF deliveryVars
<1> QED
  BY <1>2, <1>3, <1>4, <1>6, <1>7, <1>8, <1>9, <1>10, <1>11 DEF DeliveryNext, SenderStep
-----------------------------------------------------------------------------
(* Writers.                                                                *)

(* The writer of one connection: its write queue is empty exactly when     *)
(* writing_ is not set, and its writes are in step with the queue.         *)
WriterInStep(flag, queue, writes, state) ==
  /\ flag \in BOOLEAN /\ queue \in Seq(Message) /\ writes \in {0, 1}
  /\ state \in {"open", "mute", "closed"}
  /\ flag <=> queue # <<>>
  /\ writes = 1 => flag
  /\ state = "open" => (writes = 1 <=> flag)

(* The writers' part of the invariant, connection by connection.           *)
LEMMA WriterByWriter ==
  ASSUME posted \in [Links -> Seq(Message)], received \in [Links -> Seq(Message)],
         write_queue \in [Links -> Seq(Message)], writing \in [Links -> BOOLEAN],
         in_flight \in [Links -> Nat], stream \in [Links -> {"open", "mute", "closed"}]
  PROVE  WritersInStep <=>
           \A c \in Links : WriterInStep(writing[c], write_queue[c], in_flight[c], stream[c])
BY DEF WritersInStep, WriterInStep, OneWriteAtATime

(* A step of the writer of one connection that keeps that one in step      *)
(* keeps all of them in step.                                              *)
LEMMA OneWriterSteps ==
  ASSUME WritersInStep, NEW c \in Links, NEW flag, NEW queue, NEW writes, NEW state,
         WriterInStep(flag, queue, writes, state),
         writing' = [writing EXCEPT ![c] = flag],
         write_queue' = [write_queue EXCEPT ![c] = queue],
         in_flight' = [in_flight EXCEPT ![c] = writes],
         stream' = [stream EXCEPT ![c] = state],
         posted' \in [Links -> Seq(Message)],
         received' \in [Links -> Seq(Message)]
  PROVE  WritersInStep'
<1>1. /\ flag \in BOOLEAN /\ queue \in Seq(Message) /\ writes \in Nat
      /\ state \in {"open", "mute", "closed"}
  BY DEF WriterInStep
<1>2. /\ write_queue' \in [Links -> Seq(Message)]
      /\ writing' \in [Links -> BOOLEAN]
      /\ in_flight' \in [Links -> Nat]
      /\ stream' \in [Links -> {"open", "mute", "closed"}]
  BY <1>1 DEF WritersInStep
<1>3. ASSUME NEW d \in Links
      PROVE  WriterInStep(writing'[d], write_queue'[d], in_flight'[d], stream'[d])
  <2>1. CASE d = c
    <3>1. /\ writing'[d] = flag /\ write_queue'[d] = queue
          /\ in_flight'[d] = writes /\ stream'[d] = state
      BY <2>1 DEF WritersInStep
    <3> QED
      BY <3>1
  <2>2. CASE d # c
    <3>1. /\ writing'[d] = writing[d] /\ write_queue'[d] = write_queue[d]
          /\ in_flight'[d] = in_flight[d] /\ stream'[d] = stream[d]
      BY <2>2 DEF WritersInStep
    <3>2. WriterInStep(writing[d], write_queue[d], in_flight[d], stream[d])
      BY WriterByWriter DEF WritersInStep
    <3> QED
      BY <3>1, <3>2
  <2> QED
    BY <2>1, <2>2
<1> QED
  BY <1>2, <1>3 DEF WritersInStep, WriterInStep, OneWriteAtATime

(* What the writers' part says of one connection.                          *)
LEMMA WriterFacts ==
  ASSUME WritersInStep, NEW c \in Links
  PROVE  /\ WriterInStep(writing[c], write_queue[c], in_flight[c], stream[c])
         /\ posted[c] \in Seq(Message) /\ received[c] \in Seq(Message)
         /\ writing = [writing EXCEPT ![c] = writing[c]]
         /\ write_queue = [write_queue EXCEPT ![c] = write_queue[c]]
         /\ in_flight = [in_flight EXCEPT ![c] = in_flight[c]]
         /\ stream = [stream EXCEPT ![c] = stream[c]]
<1>1. WriterInStep(writing[c], write_queue[c], in_flight[c], stream[c])
  BY WriterByWriter DEF WritersInStep
<1> QED
  BY <1>1 DEF WritersInStep

(* A message posted is a message: it was formed, and its sender numbers    *)
(* them from 1.                                                            *)
LEMMA PostedIsMessage ==
  ASSUME SendersKeepBounds, NEW t \in Senders, NEW c \in Links, c \in task[t].todo
  PROVE  Outgoing(t) \in Message
<1>1. /\ task[t] \in Task /\ task[t].n <= formed[t] /\ task[t].n # 0
      /\ formed[t] \in Nat /\ room \in Nat
      /\ formed[t] + RepliesDue(t) + room <= MaxMessages
  BY TaskType
<1>2. task[t].kind \in {"event", "reply"} /\ task[t].n \in Nat /\ RepliesDue(t) \in {0, 1}
  BY <1>1 DEF Task, RepliesDue, Owed
<1>3. task[t].n \in 1..MaxMessages
  <2> HIDE DEF RepliesDue
  <2> QED BY <1>1, <1>2, DeliveryAssumption
<1> QED
  BY <1>2, <1>3 DEF Message, Outgoing

(* Every step of the system keeps all writers in step.                     *)
LEMMA WritersStep ==
  SendersKeepBounds /\ WritersInStep /\ [DeliveryNext]_deliveryVars => WritersInStep'
<1> SUFFICES ASSUME SendersKeepBounds, WritersInStep, [DeliveryNext]_deliveryVars
             PROVE  WritersInStep'
  OBVIOUS
<1>1. ASSUME UNCHANGED <<writerVars, stream>>
      PROVE  WritersInStep'
  BY <1>1 DEF WritersInStep, OneWriteAtATime, writerVars
<1>2. ASSUME NEW c \in Links,
             JoinHandler(c) \/ LeaveHandler(c) \/ GameHandler(c) \/ QuietHandler(c)
      PROVE  WritersInStep'
  BY <1>1, <1>2 DEF JoinHandler, LeaveHandler, GameHandler, QuietHandler, Broadcast
<1>3. CASE TickHandler
  BY <1>1, <1>3 DEF TickHandler, Broadcast
<1>4. ASSUME NEW t \in Senders, NEW c \in Links, PostTo(t, c)
      PROVE  WritersInStep'
  <2> DEFINE m == Outgoing(t)
  <2>1. m \in Message
    BY <1>4, PostedIsMessage DEF PostTo
  <2>2. /\ posted' = [posted EXCEPT ![c] = Append(posted[c], m)]
        /\ UNCHANGED <<write_queue, writing, in_flight, stream, received>>
    BY <1>4 DEF PostTo
  <2>3. Append(posted[c], m) \in Seq(Message)
    BY <2>1, WriterFacts, AppendType
  <2>4. posted' \in [Links -> Seq(Message)]
    BY <2>2, <2>3 DEF WritersInStep
  <2> QED
    BY <2>2, <2>4 DEF WritersInStep, OneWriteAtATime
<1>5. ASSUME NEW t \in Senders,
             Unheard(t) \/ (t \in Links /\ (RegisterStep(t) \/ UnregisterStep(t) \/ ReplyStep(t)))
      PROVE  WritersInStep'
  BY <1>1, <1>5 DEF Unheard, RegisterStep, UnregisterStep, ReplyStep
<1>6. ASSUME NEW c \in Links, TakePosted(c)
      PROVE  WritersInStep'
  <2> DEFINE queue == Append(write_queue[c], Head(posted[c]))
  <2>1. /\ posted[c] # <<>>
        /\ posted' = [posted EXCEPT ![c] = Tail(posted[c])]
        /\ write_queue' = [write_queue EXCEPT ![c] = queue]
        /\ UNCHANGED <<stream, received>>
    BY <1>6 DEF TakePosted
  <2>2. Head(posted[c]) \in Message /\ Tail(posted[c]) \in Seq(Message)
    BY <2>1, WriterFacts, HeadTailType
  <2>3. queue \in Seq(Message) /\ queue # <<>>
    <3>1. write_queue[c] \in Seq(Message)
      BY WriterFacts DEF WriterInStep
    <3> QED
      BY <2>2, <3>1, AppendType
  <2>4. /\ posted' \in [Links -> Seq(Message)] /\ received' \in [Links -> Seq(Message)]
        /\ stream' = [stream EXCEPT ![c] = stream[c]]
    BY <2>1, <2>2, WriterFacts DEF WritersInStep
  <2>5. CASE writing[c]
    <3>1. UNCHANGED <<writing, in_flight>>
      BY <1>6, <2>5 DEF TakePosted
    <3>2. WriterInStep(writing[c], queue, in_flight[c], stream[c])
      <4> HIDE DEF queue
      <4> QED BY <2>3, <2>5, WriterFacts DEF WriterInStep
    <3>3. /\ writing' = [writing EXCEPT ![c] = writing[c]]
          /\ in_flight' = [in_flight EXCEPT ![c] = in_flight[c]]
      BY <3>1, WriterFacts
    <3> HIDE DEF queue
    <3> QED
      BY <2>1, <2>4, <3>2, <3>3, OneWriterSteps
  <2>6. CASE ~writing[c]
    <3>1. /\ writing' = [writing EXCEPT ![c] = queue # <<>>]
          /\ in_flight' = [in_flight EXCEPT ![c] = in_flight[c] - 0 + IF queue # <<>> THEN 1 ELSE 0]
      BY <1>6, <2>6 DEF TakePosted, DoWrite
    <3> HIDE DEF queue
    <3>2. in_flight[c] = 0 /\ stream[c] \in {"open", "mute", "closed"}
      BY <2>6, WriterFacts DEF WriterInStep
    <3>3. (queue # <<>>) = TRUE /\ in_flight[c] - 0 + (IF queue # <<>> THEN 1 ELSE 0) = 1
      BY <2>3, <3>2
    <3>4. /\ writing' = [writing EXCEPT ![c] = TRUE]
          /\ in_flight' = [in_flight EXCEPT ![c] = 1]
      BY <3>1, <3>3
    <3>5. WriterInStep(TRUE, queue, 1, stream[c])
      BY <2>3, <3>2 DEF WriterInStep
    <3> QED
      BY <2>1, <2>4, <3>4, <3>5, OneWriterSteps
  <2> QED
    BY <2>5, <2>6
<1>7. ASSUME NEW c \in Links, WriteDone(c)
      PROVE  WritersInStep'
  <2> DEFINE queue == Tail(write_queue[c])
             flag == queue # <<>>
             writes == IF queue # <<>> THEN 1 ELSE 0
  <2>1. /\ stream[c] # "mute" /\ in_flight[c] > 0
        /\ received' = [received EXCEPT ![c] = Append(received[c], Head(write_queue[c]))]
        /\ write_queue' = [write_queue EXCEPT ![c] = queue]
        /\ writing' = [writing EXCEPT ![c] = flag]
        /\ in_flight' = [in_flight EXCEPT ![c] = in_flight[c] - 1 + writes]
        /\ UNCHANGED <<stream, posted>>
    BY <1>7 DEF WriteDone, DoWrite
  <2>2. /\ in_flight[c] = 1 /\ write_queue[c] # <<>> /\ write_queue[c] \in Seq(Message)
        /\ stream[c] \in {"open", "mute", "closed"}
    BY <2>1, WriterFacts DEF WriterInStep
  <2>3. Head(write_queue[c]) \in Message /\ queue \in Seq(Message)
    BY <2>2, HeadTailType
  <2>4. Append(received[c], Head(write_queue[c])) \in Seq(Message)
    BY <2>3, WriterFacts, AppendType
  <2>5. /\ posted' \in [Links -> Seq(Message)] /\ received' \in [Links -> Seq(Message)]
        /\ stream' = [stream EXCEPT ![c] = stream[c]]
    BY <2>1, <2>4, WriterFacts DEF WritersInStep
  <2>6. WriterInStep(flag, queue, writes, stream[c])
    <3> HIDE DEF queue
    <3> QED BY <2>2, <2>3 DEF WriterInStep
  <2>7. in_flight' = [in_flight EXCEPT ![c] = writes]
    <3> HIDE DEF queue
    <3>1. in_flight[c] - 1 + writes = writes
      BY <2>2
    <3> QED BY <2>1, <3>1
  <2> HIDE DEF queue, flag, writes
  <2> QED
    BY <2>1, <2>5, <2>6, <2>7, OneWriterSteps
<1>8. ASSUME NEW c \in Links, WriteFails(c)
      PROVE  WritersInStep'
  <2> DEFINE state == IF stream[c] = "open" THEN "mute" ELSE stream[c]
  <2>1. /\ in_flight[c] > 0
        /\ stream' = [stream EXCEPT ![c] = state]
        /\ in_flight' = [in_flight EXCEPT ![c] = in_flight[c] - 1]
        /\ UNCHANGED <<posted, write_queue, writing, received>>
    BY <1>8 DEF WriteFails
  <2>2. in_flight[c] - 1 = 0
    BY <2>1, WriterFacts DEF WriterInStep
  <2>3. WriterInStep(writing[c], write_queue[c], 0, state)
    BY WriterFacts DEF WriterInStep
  <2>4. posted' \in [Links -> Seq(Message)] /\ received' \in [Links -> Seq(Message)]
    BY <2>1 DEF WritersInStep
  <2>5. /\ writing' = [writing EXCEPT ![c] = writing[c]]
        /\ write_queue' = [write_queue EXCEPT ![c] = write_queue[c]]
        /\ in_flight' = [in_flight EXCEPT ![c] = 0]
    BY <2>1, <2>2, WriterFacts
  <2> HIDE DEF state
  <2> QED
    BY <2>1, <2>3, <2>4, <2>5, OneWriterSteps
<1>9. ASSUME NEW c \in Links, ReadFails(c)
      PROVE  WritersInStep'
  <2>1. stream' = [stream EXCEPT ![c] = "closed"] /\ UNCHANGED writerVars
    BY <1>9 DEF ReadFails
  <2>2. WriterInStep(writing[c], write_queue[c], in_flight[c], "closed")
    BY WriterFacts DEF WriterInStep
  <2>3. posted' \in [Links -> Seq(Message)] /\ received' \in [Links -> Seq(Message)]
    BY <2>1 DEF WritersInStep, writerVars
  <2>4. /\ writing' = [writing EXCEPT ![c] = writing[c]]
        /\ write_queue' = [write_queue EXCEPT ![c] = write_queue[c]]
        /\ in_flight' = [in_flight EXCEPT ![c] = in_flight[c]]
    BY <2>1, WriterFacts DEF writerVars
  <2> QED
    BY <2>1, <2>2, <2>3, <2>4, OneWriterSteps
<1>10. CASE UNCHANGED deliveryVars
  BY <1>1, <1>10 DEF deliveryVars, writerVars
<1> QED
  BY <1>2, <1>3, <1>4, <1>5, <1>6, <1>7, <1>8, <1>9, <1>10 DEF DeliveryNext, SenderStep

-----------------------------------------------------------------------------
(* The registry.                                                           *)

(* Only connections of the one session are registered.                     *)
LEMMA RegistryStep == RegistryTyped /\ [DeliveryNext]_deliveryVars => RegistryTyped'
<1> SUFFICES ASSUME RegistryTyped, [DeliveryNext]_deliveryVars
             PROVE  RegistryTyped'
  OBVIOUS
<1> USE DEF RegistryTyped
<1>1. ASSUME UNCHANGED <<joined, connections>>
      PROVE  RegistryTyped'
  BY <1>1
<1>2. ASSUME NEW c \in Links, OnDisconnect(c)
      PROVE  RegistryTyped'
  BY <1>2 DEF OnDisconnect, Registry!Unregister
<1>3. ASSUME NEW c \in Links,
             JoinHandler(c) \/ LeaveHandler(c) \/ GameHandler(c) \/ QuietHandler(c)
      PROVE  RegistryTyped'
  BY <1>1, <1>3 DEF JoinHandler, LeaveHandler, GameHandler, QuietHandler, Broadcast
<1>4. CASE TickHandler
  BY <1>1, <1>4 DEF TickHandler, Broadcast
<1>5. ASSUME NEW t \in Senders, (\E c \in Links : PostTo(t, c)) \/ Unheard(t)
      PROVE  RegistryTyped'
  BY <1>1, <1>5 DEF PostTo, Unheard
<1>6. ASSUME NEW c \in Links, RegisterStep(c)
      PROVE  RegistryTyped'
  <2>1. joined' = [joined EXCEPT ![c] = TRUE]
    BY <1>6 DEF RegisterStep
  <2>2. DOMAIN connections' = DOMAIN connections \cup {<<Session, c>>}
    BY <1>6 DEF RegisterStep, Registry!Register
  <2>3. <<Session, c>> \in {Session} \X Links
    OBVIOUS
  <2>4. ASSUME NEW k \in DOMAIN connections'
        PROVE  connections'[k] = k[2]
    <3>1. connections'[k] = IF k = <<Session, c>> THEN c ELSE connections[k]
      BY <1>6 DEF RegisterStep, Registry!Register
    <3> QED
      BY <2>2, <3>1
  <2> QED
    BY <2>1, <2>2, <2>3, <2>4
<1>7. ASSUME NEW c \in Links, UnregisterStep(c)
      PROVE  RegistryTyped'
  BY <1>7 DEF UnregisterStep, Registry!Unregister
<1>8. ASSUME NEW c \in Links, ReplyStep(c) \/ TakePosted(c) \/ WriteDone(c)
      PROVE  RegistryTyped'
  BY <1>1, <1>8 DEF ReplyStep, TakePosted, WriteDone
<1>9. ASSUME NEW c \in Links, WriteFails(c) \/ ReadFails(c)
      PROVE  RegistryTyped'
  BY <1>2, <1>9 DEF WriteFails, ReadFails
<1>10. CASE UNCHANGED deliveryVars
  BY <1>1, <1>10 DEF deliveryVars
<1> QED
  BY <1>3, <1>4, <1>5, <1>6, <1>7, <1>8, <1>9, <1>10 DEF DeliveryNext, SenderStep

-----------------------------------------------------------------------------
(* The invariant holds in every state.                                     *)
LEMMA AlwaysDInv == DeliverySpec => []DInv
<1>1. DeliveryInit => DInv
  <2> SUFFICES ASSUME DeliveryInit
               PROVE  DInv
    OBVIOUS
  <2> USE DEF DeliveryInit
  <2>1. Idle \in Task /\ Owed(Idle) = 0
    BY DEF Idle, Silent, Task, Plans, Owed
  <2>2. SendersKeepBounds
    BY <2>1, DeliveryAssumption DEF SendersKeepBounds, RepliesDue, Idle, Silent
  <2>3. <<>> \in Seq(Message)
    BY EmptySeq
  <2>4. WritersInStep
    BY <2>3 DEF WritersInStep, OneWriteAtATime
  <2>5. RegistryTyped
    BY DEF RegistryTyped, Registry!NoConnections
  <2> QED
    BY <2>2, <2>4, <2>5 DEF DInv
<1>2. DInv /\ [DeliveryNext]_deliveryVars => DInv'
  BY SendersStep, WritersStep, RegistryStep DEF DInv
<1> QED
  BY <1>1, <1>2, PTL DEF DeliverySpec

(* The variables hold what the code's types allow, and no sender sends a   *)
(* message that it has not formed.                                         *)
THEOREM DeliveryTypeCorrect == DeliverySpec => []DeliveryTypeOK
<1>1. DInv => DeliveryTypeOK
  <2> SUFFICES ASSUME DInv
               PROVE  DeliveryTypeOK
    OBVIOUS
  <2>1. ASSUME NEW t \in Senders
        PROVE  /\ task[t].n \in 0..formed[t]
               /\ task[t].todo \subseteq Links
               /\ task[t].after \in Seq({"register", "unregister", "reply"})
               /\ formed[t] \in 0..MaxMessages
               /\ room \in 0..MaxMessages
    <3>1. /\ task[t] \in Task /\ task[t].n <= formed[t]
          /\ formed[t] \in Nat /\ room \in Nat
          /\ formed[t] + RepliesDue(t) + room <= MaxMessages
      BY TaskType DEF DInv
    <3>2. RepliesDue(t) \in {0, 1}
      BY DEF RepliesDue, Owed
    <3>3. formed[t] \in 0..MaxMessages /\ room \in 0..MaxMessages
      <4> HIDE DEF RepliesDue
      <4> QED BY <3>1, <3>2, DeliveryAssumption
    <3>4. Plans \subseteq Seq({"register", "unregister", "reply"})
      BY DEF Plans
    <3> QED
      BY <3>1, <3>3, <3>4 DEF Task
  <2>2. Ticker \in Senders
    BY DEF Senders
  <2> QED
    BY <2>1, <2>2 DEF DInv, DeliveryTypeOK, SendersKeepBounds, WritersInStep, RegistryTyped
<1> QED
  BY <1>1, AlwaysDInv, PTL

(* At most one write is under way on a stream, and on an open one it is as *)
(* long as something is queued: neither two at once, nor a queue that      *)
(* nobody empties.                                                         *)
THEOREM WritesOneByOne == DeliverySpec => []OneWriteAtATime
<1>1. DInv => OneWriteAtATime
  BY DEF DInv, WritersInStep
<1> QED
  BY <1>1, AlwaysDInv, PTL

-----------------------------------------------------------------------------
(* The refinement of Multicast.                                            *)

(* What t is about to post to c.                                           *)
Coming(t, c) == IF c \in task[t].todo THEN <<Outgoing(t)>> ELSE <<>>

(* What is under way from t to c: what the strand of c holds of it, and    *)
(* what t has still to post.                                               *)
LEMMA UnderwayParts ==
  ASSUME NEW t, NEW c
  PROVE  Underway(t, c) = From(t, write_queue[c] \o posted[c]) \o Coming(t, c)
BY DEF Underway, Coming

(* The same after a step.                                                  *)
LEMMA UnderwayPartsNext ==
  ASSUME NEW t, NEW c
  PROVE  Underway(t, c)' = From(t, write_queue'[c] \o posted'[c]) \o Coming(t, c)'
BY DEF Underway, Coming

(* Everything under way is a message.                                      *)
LEMMA QueuesType ==
  ASSUME DInv, NEW t \in Senders, NEW c \in Links
  PROVE  /\ write_queue[c] \in Seq(Message) /\ posted[c] \in Seq(Message)
         /\ write_queue[c] \o posted[c] \in Seq(Message)
         /\ From(t, write_queue[c] \o posted[c]) \in Seq(Message)
         /\ Coming(t, c) \in Seq(Message)
         /\ Underway(t, c) \in Seq(Message)
         /\ received[c] \in Seq(Message)
<1>1. write_queue[c] \in Seq(Message) /\ posted[c] \in Seq(Message) /\ received[c] \in Seq(Message)
  BY WriterFacts DEF DInv, WriterInStep
<1>2. write_queue[c] \o posted[c] \in Seq(Message)
  BY <1>1, ConcatProperties
<1>3. From(t, write_queue[c] \o posted[c]) \in Seq(Message)
  BY <1>2, FromType
<1>4. Coming(t, c) \in Seq(Message)
  <2>1. CASE c \in task[t].todo
    <3>1. Outgoing(t) \in Message
      BY <2>1, PostedIsMessage DEF DInv
    <3> QED BY <2>1, <3>1 DEF Coming
  <2>2. CASE c \notin task[t].todo
    BY <2>2, EmptySeq DEF Coming
  <2> QED BY <2>1, <2>2
<1>5. Underway(t, c) \in Seq(Message)
  BY <1>3, <1>4, ConcatProperties, UnderwayParts
<1> QED
  BY <1>1, <1>2, <1>3, <1>4, <1>5

(* The members of Multicast are the connections that are registered.       *)
LEMMA MembersAre ==
  ASSUME RegistryTyped
  PROVE  Registry!GetSessionConnections(Session, Links) = Registered
<1>1. ASSUME NEW c \in Links
      PROVE  c \in {connections[k] : k \in {j \in DOMAIN connections : j[1] = Session}}
               <=> <<Session, c>> \in DOMAIN connections
  <2>1. ASSUME <<Session, c>> \in DOMAIN connections
        PROVE  connections[<<Session, c>>] = c /\ <<Session, c>>[1] = Session
    BY <2>1 DEF RegistryTyped
  <2>2. ASSUME NEW k \in DOMAIN connections, connections[k] = c
        PROVE  k = <<Session, c>>
    BY <2>2 DEF RegistryTyped
  <2> QED
    BY <2>1, <2>2
<1> QED
  BY <1>1 DEF Registry!GetSessionConnections, Registered

(* A step that changes no channel, forms no message, writes nothing and    *)
(* leaves the registry alone is none of Multicast.                         *)
LEMMA NothingSeen ==
  ASSUME UNCHANGED <<received, formed, connections>>,
         \A s \in Senders : \A c \in Links : Underway(s, c)' = Underway(s, c)
  PROVE  UNCHANGED Abstract!multicastVars
BY DEF Abstract!multicastVars, Registered

(* A step that leaves the writers alone and who is still to be sent what   *)
(* changes no channel.                                                     *)
LEMMA NothingMoves ==
  ASSUME UNCHANGED writerVars,
         \A s \in Senders :
           /\ task'[s].todo = task[s].todo
           /\ task[s].todo # {} => task'[s].kind = task[s].kind /\ task'[s].n = task[s].n,
         NEW s \in Senders, NEW c \in Links
  PROVE  Underway(s, c)' = Underway(s, c)
<1>1. Coming(s, c)' = Coming(s, c)
  BY DEF Coming, Outgoing
<1> QED
  BY <1>1, UnderwayParts, UnderwayPartsNext DEF writerVars

(* A step that changes no channel, forms no message and writes nothing,    *)
(* and after which one connection at most is registered or is not, is a    *)
(* change of members or none of Multicast's.                               *)
LEMMA MembersMove ==
  ASSUME UNCHANGED <<received, formed>>, NEW c \in Links,
         Registered' = Registered \cup {c} \/ Registered' = Registered \ {c},
         \A s \in Senders : \A d \in Links : Underway(s, d)' = Underway(s, d)
  PROVE  Abstract!MulticastNext
<1>1. Abstract!Enter(c) \/ Abstract!Exit(c)
  BY DEF Abstract!Enter, Abstract!Exit
<1> QED
  BY <1>1 DEF Abstract!MulticastNext

(* A sender that begins to send a message sends it in Multicast to all at  *)
(* once.                                                                   *)
LEMMA SendIsSend ==
  ASSUME DInv, UNCHANGED <<writerVars, connections>>, NEW t \in Senders,
         NEW kind \in {"event", "reply"}, NEW to \in SUBSET Links, NEW after,
         task[t].todo = {}, Sends(t, kind, to, after), formed[t] + 1 \in 1..MaxMessages
  PROVE  Abstract!Send(t, kind, to)
<1> DEFINE m == [kind |-> kind, from |-> t, n |-> formed[t] + 1]
           work == [kind |-> kind, n |-> formed[t] + 1, todo |-> to, after |-> after]
<1>0. /\ m \in Message
      /\ work.kind = kind /\ work.n = formed[t] + 1 /\ work.todo = to
      /\ task' = [task EXCEPT ![t] = work]
      /\ formed' = [formed EXCEPT ![t] = formed[t] + 1]
  BY DEF Message, Sends
<1> HIDE DEF work
<1>1. task'[t] = work /\ \A s \in Senders \ {t} : task'[s] = task[s]
  BY <1>0 DEF DInv, SendersKeepBounds
<1>2. ASSUME NEW c \in Links
      PROVE  Underway(t, c)' = IF c \in to THEN Append(Underway(t, c), m) ELSE Underway(t, c)
  <2> DEFINE kept == From(t, write_queue[c] \o posted[c])
  <2>1. /\ Underway(t, c) = kept \o <<>>
        /\ Underway(t, c)' = kept \o IF c \in to THEN <<m>> ELSE <<>>
    <3>1. Coming(t, c) = <<>> /\ Coming(t, c)' = IF c \in to THEN <<m>> ELSE <<>>
      <4>1. Outgoing(t)' = m
        BY <1>0, <1>1 DEF Outgoing
      <4> QED BY <1>0, <1>1, <4>1 DEF Coming
    <3> QED BY <3>1, UnderwayParts, UnderwayPartsNext DEF writerVars
  <2>2. kept \in Seq(Message)
    BY QueuesType
  <2> HIDE DEF kept, m
  <2>3. kept \o <<>> = kept /\ kept \o <<m>> = Append(kept, m)
    BY <1>0, <2>2, ConcatEmptySeq, AppendIsConcat
  <2> QED
    BY <2>1, <2>3
<1>3. ASSUME NEW s \in Senders \ {t}, NEW c \in Links
      PROVE  Underway(s, c)' = Underway(s, c)
  <2>1. Coming(s, c)' = Coming(s, c)
    BY <1>1 DEF Coming, Outgoing
  <2> QED
    BY <2>1, UnderwayParts, UnderwayPartsNext DEF writerVars
<1>4. UNCHANGED Registered
  BY DEF Registered
<1> QED
  BY <1>0, <1>2, <1>3, <1>4 DEF Abstract!Send, writerVars

(* A message posted goes from the end of what its sender has still to send *)
(* to the end of what waits at the strand.                                 *)
LEMMA PostIsSilent ==
  ASSUME DInv, NEW t \in Senders, NEW d \in Links, PostTo(t, d)
  PROVE  UNCHANGED Abstract!multicastVars
<1> DEFINE m == Outgoing(t)
           work == Served(task[t], d)
<1>1. /\ d \in task[t].todo
      /\ posted' = [posted EXCEPT ![d] = Append(posted[d], m)]
      /\ task' = [task EXCEPT ![t] = work]
      /\ UNCHANGED <<write_queue, received, formed, connections>>
  BY DEF PostTo
<1>2. m \in Message
  BY <1>1, PostedIsMessage DEF DInv
<1>3. /\ work.todo = task[t].todo \ {d}
      /\ work.todo # {} => work.kind = task[t].kind /\ work.n = task[t].n
  <2>1. task[t] \in Task
    BY DEF DInv, SendersKeepBounds
  <2> QED
    BY <1>1, <2>1 DEF Served, Idle, Silent, Task
<1> HIDE DEF work
<1>4. task'[t] = work /\ \A s \in Senders \ {t} : task'[s] = task[s]
  BY <1>1 DEF DInv, SendersKeepBounds
<1>5. /\ posted'[d] = Append(posted[d], m)
      /\ \A c \in Links \ {d} : posted'[c] = posted[c]
  BY <1>1 DEF DInv, WritersInStep
<1>6. ASSUME NEW s \in Senders, NEW c \in Links
      PROVE  Underway(s, c)' = Underway(s, c)
  <2>1. CASE c # d
    <3>1. Coming(s, c)' = Coming(s, c)
      BY <1>3, <1>4, <2>1 DEF Coming, Outgoing
    <3>2. posted'[c] = posted[c]
      BY <1>5, <2>1
    <3> QED BY <1>1, <3>1, <3>2, UnderwayParts, UnderwayPartsNext
  <2>2. CASE c = d
    <3> DEFINE q == write_queue[d] \o posted[d]
    <3>1. /\ write_queue[d] \in Seq(Message) /\ posted[d] \in Seq(Message) /\ q \in Seq(Message)
          /\ From(s, q) \in Seq(Message)
      BY QueuesType
    <3>2. write_queue[d] \o Append(posted[d], m) = Append(q, m)
      <4> DEFINE p == write_queue[d]
                 r == posted[d]
      <4>1. p \in Seq(Message) /\ r \in Seq(Message)
        BY <3>1
      <4> HIDE DEF m, p, r
      <4>2. p \o Append(r, m) = Append(p \o r, m)
        BY <1>2, <4>1, ConcatAppend
      <4> QED BY <4>2 DEF p, r
    <3>3. Underway(s, d)' = From(s, Append(q, m)) \o Coming(s, d)'
      BY <1>1, <1>5, <3>2, UnderwayPartsNext
    <3>4. Underway(s, d) = From(s, q) \o Coming(s, d)
      BY UnderwayParts
    <3>5. From(s, Append(q, m)) = IF s = t THEN Append(From(s, q), m) ELSE From(s, q)
      <4>1. m.from = t
        BY DEF Outgoing
      <4> HIDE DEF m, q
      <4> QED BY <1>2, <3>1, <4>1, FromAppend
    <3>6. CASE s = t
      <4>1. Coming(s, d) = <<m>> /\ Coming(s, d)' = <<>>
        BY <1>1, <1>3, <1>4, <3>6 DEF Coming
      <4> HIDE DEF m, q
      <4>2. Append(From(s, q), m) \in Seq(Message)
        BY <1>2, <3>1, AppendType
      <4>3. Append(From(s, q), m) \o <<>> = From(s, q) \o <<m>>
        BY <3>1, <4>2, ConcatEmptySeq, AppendIsConcat
      <4> QED BY <2>2, <3>3, <3>4, <3>5, <3>6, <4>1, <4>3
    <3>7. CASE s # t
      <4>1. Coming(s, d)' = Coming(s, d)
        BY <1>4, <3>7 DEF Coming, Outgoing
      <4> HIDE DEF m, q
      <4> QED BY <2>2, <3>3, <3>4, <3>5, <3>7, <4>1
    <3> QED BY <3>6, <3>7
  <2> QED BY <2>1, <2>2
<1> QED
  BY <1>1, <1>6, NothingSeen

(* A message taken goes from the front of what is posted to the end of the *)
(* write queue.                                                            *)
LEMMA TakeIsSilent ==
  ASSUME DInv, NEW d \in Links, TakePosted(d)
  PROVE  UNCHANGED Abstract!multicastVars
<1>1. /\ posted[d] # <<>>
      /\ posted' = [posted EXCEPT ![d] = Tail(posted[d])]
      /\ write_queue' = [write_queue EXCEPT ![d] = Append(write_queue[d], Head(posted[d]))]
      /\ UNCHANGED <<task, received, formed, connections>>
  BY DEF TakePosted
<1>2. ASSUME NEW c \in Links
      PROVE  write_queue'[c] \o posted'[c] = write_queue[c] \o posted[c]
  <2>1. CASE c = d
    <3>1. /\ write_queue'[c] = Append(write_queue[c], Head(posted[c]))
          /\ posted'[c] = Tail(posted[c])
      BY <1>1, <2>1 DEF DInv, WritersInStep
    <3>2. write_queue[c] \in Seq(Message) /\ posted[c] \in Seq(Message) /\ posted[c] # <<>>
      BY <1>1, <2>1 DEF DInv, WritersInStep
    <3> QED
      BY <3>1, <3>2, HeadMoves
  <2>2. CASE c # d
    BY <1>1, <2>2 DEF DInv, WritersInStep
  <2> QED
    BY <2>1, <2>2
<1>3. ASSUME NEW s \in Senders, NEW c \in Links
      PROVE  Underway(s, c)' = Underway(s, c)
  <2>1. Coming(s, c)' = Coming(s, c)
    BY <1>1 DEF Coming, Outgoing
  <2> QED
    BY <1>2, <2>1, UnderwayParts, UnderwayPartsNext
<1> QED
  BY <1>1, <1>3, NothingSeen

(* A table of channels of which one changes.                               *)
LEMMA OneChannelChanges ==
  ASSUME NEW S, NEW R, NEW f \in [S -> [R -> Seq(Message)]], NEW g \in [S -> [R -> Seq(Message)]],
         NEW t \in S, NEW d \in R,
         \A s \in S : \A r \in R : ~(s = t /\ r = d) => g[s][r] = f[s][r]
  PROVE  g = [f EXCEPT ![t][d] = g[t][d]]
<1>1. ASSUME NEW s \in S
      PROVE  g[s] = [f EXCEPT ![t][d] = g[t][d]][s]
  <2>1. CASE s = t
    <3>1. [f EXCEPT ![t][d] = g[t][d]][s] = [f[t] EXCEPT ![d] = g[t][d]]
      BY <2>1
    <3>2. g[t] = [f[t] EXCEPT ![d] = g[t][d]]
      OBVIOUS
    <3> QED BY <2>1, <3>1, <3>2
  <2>2. CASE s # t
    <3>1. [f EXCEPT ![t][d] = g[t][d]][s] = f[s]
      BY <2>2
    <3>2. g[s] = f[s]
      BY <2>2
    <3> QED BY <3>1, <3>2
  <2> QED BY <2>1, <2>2
<1> QED
  BY <1>1

(* A write that is done delivers the first message under way from the      *)
(* sender whose message it wrote.                                          *)
LEMMA WriteIsDeliver ==
  ASSUME DInv, NEW d \in Links, WriteDone(d)
  PROVE  \E s \in Senders : Abstract!Deliver(s, d)
<1> DEFINE h == Head(write_queue[d])
           queue == Tail(write_queue[d])
<1>1. /\ in_flight[d] > 0
      /\ received' = [received EXCEPT ![d] = Append(received[d], h)]
      /\ write_queue' = [write_queue EXCEPT ![d] = queue]
      /\ UNCHANGED <<task, posted, formed, connections>>
  BY DEF WriteDone
<1>2. /\ write_queue[d] # <<>> /\ write_queue[d] \in Seq(Message) /\ posted[d] \in Seq(Message)
  BY <1>1, WriterFacts DEF DInv, WriterInStep
<1>3. /\ h \in Message /\ queue \in Seq(Message)
      /\ write_queue[d] = <<h>> \o queue
  BY <1>2, HeadTailProperties, ConcatProperties
<1> HIDE DEF h, queue
<1>4. PICK t \in Senders : h.from = t
  BY <1>3 DEF Message
<1> DEFINE rest == queue \o posted[d]
<1>5. /\ rest \in Seq(Message)
      /\ write_queue[d] \o posted[d] = <<h>> \o rest
      /\ write_queue'[d] \o posted'[d] = rest
  <2>1. write_queue'[d] = queue /\ posted'[d] = posted[d]
    BY <1>1 DEF DInv, WritersInStep
  <2>2. <<h>> \in Seq(Message)
    BY <1>3
  <2> DEFINE p == posted[d]
  <2>3. p \in Seq(Message)
    BY <1>2
  <2> HIDE DEF p
  <2>4. queue \o p \in Seq(Message) /\ (<<h>> \o queue) \o p = <<h>> \o (queue \o p)
    BY <1>3, <2>2, <2>3, ConcatProperties, ConcatAssociative
  <2> QED
    BY <1>3, <2>1, <2>4 DEF p
<1> HIDE DEF rest
<1>6. ASSUME NEW s \in Senders
      PROVE  From(s, <<h>> \o rest) = IF h.from = s THEN <<h>> \o From(s, rest) ELSE From(s, rest)
  <2>1. h \in Message
    BY <1>3
  <2>2. rest \in Seq(Message)
    BY <1>5
  <2> QED
    BY <2>1, <2>2, FromPrepend
<1>7. ASSUME NEW s \in Senders, NEW c \in Links
      PROVE  Coming(s, c)' = Coming(s, c)
  BY <1>1 DEF Coming, Outgoing
<1>8. /\ Underway(t, d) # <<>> /\ Head(Underway(t, d)) = h
      /\ Underway(t, d)' = Tail(Underway(t, d))
  <2> DEFINE later == From(t, rest) \o Coming(t, d)
  <2>1. later \in Seq(Message) /\ From(t, rest) \in Seq(Message) /\ Coming(t, d) \in Seq(Message)
    <3>1. Coming(t, d) \in Seq(Message)
      BY <1>4, QueuesType
    <3>2. From(t, rest) \in Seq(Message)
      BY <1>5, FromType
    <3> QED BY <3>1, <3>2, ConcatProperties
  <2>2. Underway(t, d)' = later
    <3>1. Coming(t, d)' = Coming(t, d)
      BY <1>4, <1>7
    <3>2. Underway(t, d)' = From(t, write_queue'[d] \o posted'[d]) \o Coming(t, d)'
      BY UnderwayPartsNext
    <3> QED BY <1>5, <3>1, <3>2
  <2>3. Underway(t, d) = (<<h>> \o From(t, rest)) \o Coming(t, d)
    BY <1>4, <1>5, <1>6, UnderwayParts
  <2>4. <<h>> \in Seq(Message)
    BY <1>3
  <2>5. Underway(t, d) = <<h>> \o later
    BY <2>1, <2>3, <2>4, ConcatAssociative
  <2> HIDE DEF later
  <2>6. <<h>> \o later # <<>> /\ Head(<<h>> \o later) = h /\ Tail(<<h>> \o later) = later
    BY <1>3, <2>1
  <2> QED
    BY <2>2, <2>5, <2>6
<1>9. ASSUME NEW s \in Senders, NEW c \in Links, ~(s = t /\ c = d)
      PROVE  Underway(s, c)' = Underway(s, c)
  <2>1. CASE c # d
    <3>1. write_queue'[c] \o posted'[c] = write_queue[c] \o posted[c]
      BY <1>1, <2>1 DEF DInv, WritersInStep
    <3> QED BY <1>7, <3>1, UnderwayParts, UnderwayPartsNext
  <2>2. CASE c = d /\ s # t
    <3>1. From(s, <<h>> \o rest) = From(s, rest)
      BY <1>4, <1>6, <2>2
    <3> QED BY <1>5, <1>7, <2>2, <3>1, UnderwayParts, UnderwayPartsNext
  <2> QED
    BY <1>9, <2>1, <2>2
<1>10. Abstract!Deliver(t, d)
  <2> DEFINE chan == [s \in Senders |-> [c \in Links |-> Underway(s, c)]]
             next == [s \in Senders |-> [c \in Links |-> Underway(s, c)']]
  <2>1. /\ chan[t][d] = Underway(t, d)
        /\ next[t][d] = Underway(t, d)'
    OBVIOUS
  <2>2. /\ chan \in [Senders -> [Links -> Seq(Message)]]
        /\ next \in [Senders -> [Links -> Seq(Message)]]
    <3>1. ASSUME NEW s \in Senders, NEW c \in Links
          PROVE  Underway(s, c) \in Seq(Message) /\ Underway(s, c)' \in Seq(Message)
      <4>1. CASE s = t /\ c = d
        BY <1>8, <4>1, HeadTailType, QueuesType
      <4>2. CASE ~(s = t /\ c = d)
        BY <1>9, <4>2, QueuesType
      <4> QED BY <4>1, <4>2
    <3> QED BY <3>1
  <2>3. \A s \in Senders : \A c \in Links : ~(s = t /\ c = d) => next[s][c] = chan[s][c]
    BY <1>9
  <2>4. next = [chan EXCEPT ![t][d] = next[t][d]]
    <3> HIDE DEF chan, next
    <3> QED BY <2>2, <2>3, OneChannelChanges
  <2>5. next = [chan EXCEPT ![t][d] = Tail(chan[t][d])]
    <3>1. next[t][d] = Tail(chan[t][d])
      BY <1>8, <2>1
    <3> HIDE DEF chan, next
    <3> QED BY <2>4, <3>1
  <2>6. received' = [received EXCEPT ![d] = Append(received[d], Head(chan[t][d]))]
    <3>1. Head(chan[t][d]) = Head(write_queue[d])
      BY <1>8, <2>1 DEF h
    <3> HIDE DEF chan
    <3> QED BY <1>1, <3>1 DEF h
  <2>7. chan[t][d] # <<>>
    BY <1>8, <2>1
  <2> QED
    BY <1>1, <2>5, <2>6, <2>7 DEF Abstract!Deliver, Registered
<1> QED
  BY <1>4, <1>10

(* Every step of the delivery is a step of Multicast, or none.             *)
LEMMA RefinementStep ==
  DInv /\ [DeliveryNext]_deliveryVars => [Abstract!MulticastNext]_(Abstract!multicastVars)
<1> SUFFICES ASSUME DInv, [DeliveryNext]_deliveryVars
             PROVE  Abstract!MulticastNext \/ UNCHANGED Abstract!multicastVars
  OBVIOUS
<1>1. ASSUME NEW t \in Senders, NEW after, NEW n \in {1, 2},
             Resting(t), TakesRoom(n), Broadcast(t, after)
      PROVE  Abstract!MulticastNext
  <2>1. /\ task[t].todo = {} /\ formed[t] \in Nat /\ room \in Nat
        /\ formed[t] + 0 + room <= MaxMessages
    BY <1>1, RestingOwesNothing, TaskType DEF DInv
  <2>2. formed[t] + 1 \in 1..MaxMessages
    BY <1>1, <2>1, DeliveryAssumption DEF TakesRoom
  <2>3. Sends(t, "event", Registered, after) /\ UNCHANGED <<writerVars, connections>>
    BY <1>1, MembersAre DEF Broadcast, DInv
  <2>4. Registered \in SUBSET Links
    BY DEF Registered
  <2>5. Abstract!Send(t, "event", Registered)
    BY <2>1, <2>2, <2>3, <2>4, SendIsSend
  <2> QED
    BY <2>5 DEF Abstract!MulticastNext, Abstract!Broadcast
<1>2. ASSUME NEW c \in Links, JoinHandler(c) \/ LeaveHandler(c) \/ GameHandler(c)
      PROVE  Abstract!MulticastNext
  <2>1. c \in Senders
    BY DEF Senders
  <2> QED
    BY <1>1, <1>2, <2>1 DEF JoinHandler, LeaveHandler, GameHandler, Serves
<1>3. CASE TickHandler
  <2>1. Ticker \in Senders
    BY DEF Senders
  <2> QED
    BY <1>1, <1>3, <2>1 DEF TickHandler
<1>4. ASSUME NEW c \in Links, ReplyStep(c)
      PROVE  Abstract!MulticastNext
  <2>1. c \in Senders /\ {c} \in SUBSET Links
    BY DEF Senders
  <2>2. PICK rest : rest = Tail(task[c].after)
    OBVIOUS
  <2>3. /\ task[c].todo = {} /\ task[c].after # <<>>
        /\ Sends(c, "reply", {c}, rest) /\ UNCHANGED <<writerVars, connections>>
    BY <1>4, <2>2 DEF ReplyStep, NextStep
  <2>4. /\ formed[c] \in Nat /\ room \in Nat /\ RepliesDue(c) = 1
        /\ formed[c] + RepliesDue(c) + room <= MaxMessages
    BY <2>1, <2>3, TaskType DEF DInv, RepliesDue, Owed
  <2>5. formed[c] + 1 \in 1..MaxMessages
    <3> HIDE DEF RepliesDue
    <3> QED BY <2>4, DeliveryAssumption
  <2>6. Abstract!Send(c, "reply", {c})
    BY <2>1, <2>3, <2>5, SendIsSend
  <2> QED
    BY <2>1, <2>6 DEF Abstract!MulticastNext, Abstract!Reply
<1>5. ASSUME NEW c \in Links, WriteDone(c)
      PROVE  Abstract!MulticastNext
  BY <1>5, WriteIsDeliver DEF Abstract!MulticastNext
<1>6. ASSUME NEW t \in Senders, NEW work, UNCHANGED writerVars,
             task' = [task EXCEPT ![t] = work], work.todo = task[t].todo,
             work.todo # {} => work.kind = task[t].kind /\ work.n = task[t].n,
             NEW s \in Senders, NEW c \in Links
      PROVE  Underway(s, c)' = Underway(s, c)
  <2>1. ASSUME NEW u \in Senders
        PROVE  /\ task'[u].todo = task[u].todo
               /\ task[u].todo # {} => task'[u].kind = task[u].kind /\ task'[u].n = task[u].n
    BY <1>6 DEF DInv, SendersKeepBounds
  <2> QED
    BY <1>6, <2>1, NothingMoves
<1>7. ASSUME NEW c \in Links, QuietHandler(c)
      PROVE  UNCHANGED Abstract!multicastVars
  <2>1. c \in Senders /\ task[c].todo = {} /\ UNCHANGED <<writerVars, formed, connections>>
    BY <1>7, RestingOwesNothing DEF QuietHandler, Serves, Senders
  <2>2. PICK after : task' = [task EXCEPT ![c] = Silent(after)]
    BY <1>7 DEF QuietHandler
  <2>3. Silent(after).todo = {}
    BY DEF Silent
  <2>4. \A s \in Senders : \A d \in Links : Underway(s, d)' = Underway(s, d)
    BY <1>6, <2>1, <2>2, <2>3
  <2> QED
    BY <2>1, <2>4, NothingSeen DEF writerVars
<1>8. ASSUME NEW t \in Senders, Unheard(t)
      PROVE  UNCHANGED Abstract!multicastVars
  <2>1. Idle.todo = {} /\ task[t].todo = {} /\ UNCHANGED <<writerVars, formed, connections>>
    BY <1>8 DEF Idle, Silent, Unheard
  <2>2. \A s \in Senders : \A d \in Links : Underway(s, d)' = Underway(s, d)
    BY <1>6, <1>8, <2>1 DEF Unheard
  <2> QED
    BY <2>1, <2>2, NothingSeen DEF writerVars
<1>9. ASSUME NEW c \in Links, RegisterStep(c) \/ UnregisterStep(c)
      PROVE  Abstract!MulticastNext
  <2> DEFINE work == [task[c] EXCEPT !.after = Tail(task[c].after)]
  <2>1. c \in Senders /\ UNCHANGED <<writerVars, formed>> /\ Goes(c)
    BY <1>9 DEF RegisterStep, UnregisterStep, Senders
  <2>2. task' = [task EXCEPT ![c] = work]
    BY <2>1, Zenon DEF Goes
  <2>3. task[c] \in Task
    BY <2>1, TaskType DEF DInv
  <2>4. work.todo = task[c].todo /\ work.kind = task[c].kind /\ work.n = task[c].n
    BY <2>3 DEF Task
  <2> HIDE DEF work
  <2>5. \A s \in Senders : \A d \in Links : Underway(s, d)' = Underway(s, d)
    BY <1>6, <2>1, <2>2, <2>4
  <2>6. Registered' = Registered \cup {c} \/ Registered' = Registered \ {c}
    <3>1. CASE RegisterStep(c)
      <4>1. DOMAIN connections' = DOMAIN connections \cup {<<Session, c>>}
        BY <3>1 DEF RegisterStep, Registry!Register
      <4> QED BY <4>1 DEF Registered
    <3>2. CASE UnregisterStep(c)
      <4>1. DOMAIN connections' = DOMAIN connections \ {<<Session, c>>}
        BY <3>2 DEF UnregisterStep, Registry!Unregister
      <4> QED BY <4>1 DEF Registered
    <3> QED BY <1>9, <3>1, <3>2
  <2> QED
    BY <2>1, <2>5, <2>6, MembersMove DEF writerVars
<1>10. ASSUME NEW c \in Links, WriteFails(c) \/ ReadFails(c)
       PROVE  Abstract!MulticastNext \/ UNCHANGED Abstract!multicastVars
  <2>1. UNCHANGED <<task, posted, write_queue, received, formed>> /\ OnDisconnect(c)
    BY <1>10 DEF WriteFails, ReadFails, OnDisconnect, writerVars
  <2>2. ASSUME NEW s \in Senders, NEW d \in Links
        PROVE  Underway(s, d)' = Underway(s, d)
    BY <2>1 DEF Underway, Outgoing
  <2>3. CASE joined[c]
    <3>1. DOMAIN connections' = DOMAIN connections \ {<<Session, c>>}
      BY <2>1, <2>3 DEF OnDisconnect, Registry!Unregister
    <3>2. Registered' = Registered \ {c}
      BY <3>1 DEF Registered
    <3> QED BY <2>1, <2>2, <3>2, MembersMove
  <2>4. CASE ~joined[c]
    <3>1. UNCHANGED connections
      BY <2>1, <2>4 DEF OnDisconnect
    <3> QED BY <2>1, <2>2, <3>1, NothingSeen
  <2> QED
    BY <2>3, <2>4
<1>11. CASE UNCHANGED deliveryVars
  <2>1. UNCHANGED <<task, posted, write_queue, received, formed, connections>>
    BY <1>11 DEF deliveryVars
  <2>2. ASSUME NEW s \in Senders, NEW d \in Links
        PROVE  Underway(s, d)' = Underway(s, d)
    BY <2>1 DEF Underway, Outgoing
  <2> QED
    BY <2>1, <2>2, NothingSeen
<1> QED
  BY <1>2, <1>3, <1>4, <1>5, <1>7, <1>8, <1>9, <1>10, <1>11, PostIsSilent, TakeIsSilent
  DEF DeliveryNext, SenderStep

(* A broadcast sends its event to exactly the connections registered when  *)
(* it copies the registry, a command its reply to its own connection, once *)
(* each and in the order of their sender, for any number of connections    *)
(* and whatever fails: the delivery implements Multicast.                  *)
THEOREM DeliversAsMulticast == DeliverySpec => ImplementsMulticast
<1>1. DeliveryInit => Abstract!MulticastInit
  <2> SUFFICES ASSUME DeliveryInit
               PROVE  Abstract!MulticastInit
    OBVIOUS
  <2>1. ASSUME NEW t \in Senders, NEW c \in Links
        PROVE  Underway(t, c) = <<>>
    <3>1. write_queue[c] = <<>> /\ posted[c] = <<>> /\ task[t].todo = {}
      BY DEF DeliveryInit, Idle, Silent
    <3>2. From(t, <<>>) = <<>> /\ <<>> \o <<>> = <<>>
      BY FromEmpty
    <3> QED BY <3>1, <3>2 DEF Underway
  <2> QED
    BY <2>1 DEF Abstract!MulticastInit, DeliveryInit, Registered, Registry!NoConnections
<1> QED
  BY <1>1, RefinementStep, AlwaysDInv, PTL
  DEF DeliverySpec, ImplementsMulticast, Abstract!MulticastSpec
=============================================================================
