----------------------------- MODULE EventProofs -----------------------------
(* Theorems about what is logged, for any goroutines, subscribers and capacity *)
(* of their channels: about the bus itself (LogBus), and about what becomes of *)
(* its entries on the way to the Tools tab (CatalogFeed) and in the event log  *)
(* of a page (LogView), for any pages and snapshots.                           *)
EXTENDS LogBus, CatalogFeed, LogView, TLAPS, SequenceTheorems, FiniteSetTheorems

\* Appending to the second part of a concatenation appends to the whole.
LEMMA AppendToSecond ==
    ASSUME NEW S, NEW q \in Seq(S), NEW r \in Seq(S), NEW e \in S
    PROVE  q \o Append(r, e) = Append(q \o r, e)
<1>1. <<e>> \in Seq(S) /\ q \o r \in Seq(S)
  OBVIOUS
<1>2. Append(r, e) = r \o <<e>> /\ Append(q \o r, e) = (q \o r) \o <<e>>
  BY <1>1, AppendIsConcat
<1>3. (q \o r) \o <<e>> = q \o (r \o <<e>>)
  BY <1>1, ConcatAssociative
<1>4. QED
  BY <1>2, <1>3

\* Moving the head of the second part to the end of the first changes nothing.
LEMMA MoveHead ==
    ASSUME NEW S, NEW q \in Seq(S), NEW r \in Seq(S), r # <<>>
    PROVE  Append(q, Head(r)) \o Tail(r) = q \o r
<1>1. /\ Head(r) \in S /\ Tail(r) \in Seq(S) /\ Len(Tail(r)) = Len(r) - 1
      /\ \A i \in 1..Len(Tail(r)) : Tail(r)[i] = r[i + 1]
      /\ Head(r) = r[1] /\ Len(r) \in Nat \ {0} /\ Len(q) \in Nat
  BY HeadTailProperties
<1> DEFINE left == Append(q, Head(r)) \o Tail(r)
           right == q \o r
<1>2. /\ Append(q, Head(r)) \in Seq(S) /\ Len(Append(q, Head(r))) = Len(q) + 1
      /\ \A i \in 1..Len(q) : Append(q, Head(r))[i] = q[i]
      /\ Append(q, Head(r))[Len(q) + 1] = Head(r)
  BY <1>1, AppendProperties
<1>3. /\ left \in Seq(S) /\ Len(left) = Len(q) + Len(r)
      /\ \A i \in 1..Len(q) + Len(r) :
            left[i] = IF i <= Len(q) + 1 THEN Append(q, Head(r))[i] ELSE Tail(r)[i - (Len(q) + 1)]
  BY <1>1, <1>2, ConcatProperties
<1>4. /\ right \in Seq(S) /\ Len(right) = Len(q) + Len(r)
      /\ \A i \in 1..Len(q) + Len(r) : right[i] = IF i <= Len(q) THEN q[i] ELSE r[i - Len(q)]
  BY ConcatProperties
<1> HIDE DEF left, right
<1>5. ASSUME NEW i \in 1..Len(q) + Len(r) PROVE left[i] = right[i]
  <2>1. CASE i <= Len(q)
    BY <1>1, <1>2, <1>3, <1>4, <2>1
  <2>2. CASE i = Len(q) + 1
    BY <1>1, <1>2, <1>3, <1>4, <2>2
  <2>3. CASE i > Len(q) + 1
    <3>1. i - (Len(q) + 1) \in 1..Len(Tail(r)) /\ (i - (Len(q) + 1)) + 1 = i - Len(q)
      BY <1>1, <2>3
    <3>2. QED
      BY <1>1, <1>3, <1>4, <2>3, <3>1
  <2>4. QED
    BY <1>1, <2>1, <2>2, <2>3
<1>6. left = right
  BY <1>3, <1>4, <1>5, SeqEqual
<1>7. QED
  BY <1>6 DEF left, right

LEMMA InvInit == Init => IInv
<1> SUFFICES ASSUME Init PROVE IInv
  OBVIOUS
<1> USE BusAssumption DEF Init
<1>1. TypeOK
  BY DEF TypeOK
<1>2. LockInv /\ WithinCapacity
  BY DEF LockInv, WithinCapacity
<1>3. \A s \in Subscribers : Feed(s) = <<>>
  BY DEF Feed
<1>4. FeedInv /\ InOrder
  BY <1>3 DEF FeedInv, InOrder
<1>5. QED
  BY <1>1, <1>2, <1>4 DEF IInv

LEMMA FeedType ==
    ASSUME TypeOK, NEW s \in Subscribers
    PROVE  /\ chan[s] \in Seq(Entry) /\ seen[s] \in Seq(Entry) /\ Feed(s) \in Seq(Entry)
           /\ Len(chan[s]) \in Nat /\ Len(Feed(s)) \in Nat
           /\ \A i \in 1..Len(Feed(s)) : Feed(s)[i] \in Entry
           /\ \A i \in 1..Len(Feed(s)) : Feed(s)[i][1] \in Loggers /\ Feed(s)[i][2] \in Nat
<1>1. chan[s] \in Seq(Entry) /\ seen[s] \in Seq(Entry)
  BY DEF TypeOK
<1>2. Feed(s) \in Seq(Entry)
  BY <1>1 DEF Feed
<1>3. \A i \in 1..Len(Feed(s)) : Feed(s)[i] \in Entry
  BY <1>2
<1>4. QED
  BY <1>1, <1>2, <1>3 DEF Entry

\* The steps of Log that touch no channel.
LEMMA InvLog ==
    ASSUME IInv, NEW g \in Loggers, Encode(g) \/ BeginBroadcast(g) \/ EndBroadcast(g)
    PROVE  IInv'
<1> USE BusAssumption DEF IInv
<1>0. \A s \in Subscribers : Feed(s)' = Feed(s)
  BY DEF Feed, Encode, BeginBroadcast, EndBroadcast, busVars
<1>1. InOrder'
  BY <1>0 DEF InOrder
<1>2. CASE Encode(g)
  <2> USE <1>2 DEF Encode, busVars
  <2>1. TypeOK'
    BY DEF TypeOK
  <2>2. LockInv' /\ WithinCapacity'
    BY DEF TypeOK, LockInv, WithinCapacity
  <2>3. FeedInv'
    <3>1. \A h \in Loggers : /\ count[h] \in Nat
                             /\ count'[h] = IF h = g THEN count[h] + 1 ELSE count[h]
                             /\ h # g => pc'[h] = pc[h]
      BY DEF TypeOK
    <3>2. QED
      BY <1>0, <3>1, FeedType DEF FeedInv
  <2>4. QED
    BY <1>1, <2>1, <2>2, <2>3
<1>3. CASE BeginBroadcast(g)
  <2> USE <1>3 DEF BeginBroadcast, busVars
  <2>1. TypeOK'
    BY DEF TypeOK
  <2>2. LockInv' /\ WithinCapacity'
    BY DEF TypeOK, LockInv, WithinCapacity
  <2>3. FeedInv'
    <3>1. \A h \in Loggers : h # g => pc'[h] = pc[h] /\ todo'[h] = todo[h]
      BY DEF TypeOK
    <3>2. QED
      BY <1>0, <3>1, FeedType DEF FeedInv
  <2>4. QED
    BY <1>1, <2>1, <2>2, <2>3
<1>4. CASE EndBroadcast(g)
  <2> USE <1>4 DEF EndBroadcast, busVars
  <2>1. TypeOK'
    BY DEF TypeOK
  <2>2. LockInv' /\ WithinCapacity'
    BY DEF TypeOK, LockInv, WithinCapacity
  <2>3. FeedInv'
    <3>1. \A h \in Loggers : pc'[h] = "logged" => pc[h] = "logged"
      BY DEF TypeOK
    <3>2. QED
      BY <1>0, <3>1, FeedType DEF FeedInv
  <2>4. QED
    BY <1>1, <2>1, <2>2, <2>3
<1>5. QED
  BY <1>2, <1>3, <1>4

\* The send never overfills the channel (it is dropped when there is no room),
\* and an entry that joins it is newer than all the others of its goroutine.
LEMMA InvSend ==
    ASSUME IInv, NEW g \in Loggers, NEW s \in Subscribers, SendOrDrop(g, s)
    PROVE  IInv'
<1> USE BusAssumption DEF IInv, SendOrDrop, Reached
<1>1. /\ chan[s] \in Seq(Entry) /\ Len(chan[s]) \in Nat /\ seen[s] \in Seq(Entry)
      /\ Current(g) \in Entry /\ Current(g)[1] = g /\ Current(g)[2] = count[g]
  BY DEF TypeOK, Current, Entry
<1>2. LockInv'
  BY DEF TypeOK, LockInv
<1>3. \A h \in Loggers, r \in Subscribers :
        r \in todo'[h] <=> r \in todo[h] /\ ~(h = g /\ r = s)
  BY DEF TypeOK
<1>4. CASE ~Full(s) /\ chan' = [chan EXCEPT ![s] = Append(@, Current(g))] /\ UNCHANGED lost
  <2> DEFINE new == Append(Feed(s), Current(g))
  <2>1. /\ Append(chan[s], Current(g)) \in Seq(Entry)
        /\ Len(Append(chan[s], Current(g))) = Len(chan[s]) + 1
    BY <1>1
  <2>2. /\ chan'[s] = Append(chan[s], Current(g))
        /\ \A r \in Subscribers : r # s => chan'[r] = chan[r]
    BY <1>4 DEF TypeOK
  <2>3. TypeOK'
    BY <1>4, <2>1 DEF TypeOK
  <2>4. WithinCapacity'
    <3>1. Len(chan[s]) < Cap
      BY <1>1, <1>4 DEF WithinCapacity, Full
    <3>2. QED
      BY <1>1, <2>1, <2>2, <3>1 DEF WithinCapacity
  <2>5. /\ Feed(s)' = new
        /\ \A r \in Subscribers : r # s => Feed(r)' = Feed(r)
    <3>1. seen[s] \o Append(chan[s], Current(g)) = Append(seen[s] \o chan[s], Current(g))
      <4>1. \A q, r \in Seq(Entry), e \in Entry : q \o Append(r, e) = Append(q \o r, e)
        BY AppendToSecond
      <4>2. chan[s] \in Seq(Entry) /\ seen[s] \in Seq(Entry) /\ Current(g) \in Entry
        BY <1>1
      <4>3. QED
        BY <4>1, <4>2, Zenon
    <3>2. seen' = seen
      OBVIOUS
    <3>3. QED
      BY <2>2, <3>1, <3>2 DEF Feed
  <2>6. /\ Len(new) = Len(Feed(s)) + 1 /\ new[Len(Feed(s)) + 1] = Current(g)
        /\ \A i \in 1..Len(Feed(s)) : new[i] = Feed(s)[i]
        /\ Len(Feed(s)) \in Nat
    BY <1>1, FeedType, AppendProperties
  <2> HIDE DEF new
  <2>7. \A i \in 1..Len(Feed(s)) : Feed(s)[i][1] = g => Feed(s)[i][2] < count[g]
    BY DEF FeedInv
  <2>8. FeedInv'
    <3>1. ASSUME NEW r \in Subscribers, NEW i \in 1..Len(Feed(r)')
          PROVE  LET h == Feed(r)'[i][1]
                     k == Feed(r)'[i][2]
                 IN  /\ k <= count'[h]
                     /\ pc'[h] = "logged" \/ r \in todo'[h] => k < count'[h]
      <4>1. CASE r = s /\ i = Len(Feed(s)) + 1
        <5>1. Feed(r)'[i] = Current(g)
          BY <2>5, <2>6, <4>1
        <5>2. pc[g] = "sending" /\ s \notin todo'[g] /\ count[g] \in Nat
          BY <1>3 DEF LockInv, TypeOK
        <5>3. QED
          BY <1>1, <4>1, <5>1, <5>2
      <4>2. CASE ~(r = s /\ i = Len(Feed(s)) + 1)
        <5>1. i \in 1..Len(Feed(r)) /\ Feed(r)'[i] = Feed(r)[i]
          BY <2>5, <2>6, <3>1, <4>2
        <5>2. Feed(r)[i][1] \in Loggers
          BY <5>1, FeedType
        <5>3. QED
          BY <1>3, <5>1, <5>2 DEF FeedInv
      <4>3. QED
        BY <4>1, <4>2
    <3>2. QED
      BY <3>1 DEF FeedInv
  <2>9. InOrder'
    <3>1. ASSUME NEW r \in Subscribers, NEW i \in 1..Len(Feed(r)'), NEW j \in 1..Len(Feed(r)'),
                 i < j, Feed(r)'[i][1] = Feed(r)'[j][1]
          PROVE  Feed(r)'[i][2] < Feed(r)'[j][2]
      <4>1. CASE r = s /\ j = Len(Feed(s)) + 1
        <5>1. i \in 1..Len(Feed(s)) /\ Feed(r)'[i] = Feed(s)[i] /\ Feed(r)'[j] = Current(g)
          BY <2>5, <2>6, <3>1, <4>1
        <5>2. QED
          BY <1>1, <2>7, <3>1, <5>1
      <4>2. CASE ~(r = s /\ j = Len(Feed(s)) + 1)
        <5>1. /\ i \in 1..Len(Feed(r)) /\ Feed(r)'[i] = Feed(r)[i]
              /\ j \in 1..Len(Feed(r)) /\ Feed(r)'[j] = Feed(r)[j]
          BY <2>5, <2>6, <3>1, <4>2
        <5>2. QED
          BY <3>1, <5>1 DEF InOrder
      <4>3. QED
        BY <4>1, <4>2
    <3>2. QED
      BY <3>1 DEF InOrder
  <2>10. QED
    BY <1>2, <2>3, <2>4, <2>8, <2>9
<1>5. CASE Full(s) /\ lost' = [lost EXCEPT ![s] = @ \cup {Current(g)}] /\ UNCHANGED chan
  <2>1. \A r \in Subscribers : Feed(r)' = Feed(r)
    BY <1>5 DEF Feed
  <2>2. TypeOK'
    BY <1>1, <1>5 DEF TypeOK
  <2>3. WithinCapacity' /\ InOrder'
    BY <1>5, <2>1 DEF WithinCapacity, InOrder
  <2>4. FeedInv'
    BY <1>3, <2>1, FeedType DEF FeedInv
  <2>5. QED
    BY <1>2, <2>2, <2>3, <2>4
<1>6. QED
  BY <1>4, <1>5

\* What a subscriber does moves entries from its channel to what it has seen, at most.
LEMMA FeedSubscriber ==
    ASSUME TypeOK, NEW s \in Subscribers,
           Subscribe(s) \/ Consume(s) \/ Leave(s) \/ Unsubscribe(s)
    PROVE  \A r \in Subscribers : Feed(r)' = Feed(r)
<1>1. CASE Consume(s)
  <2> USE <1>1 DEF Consume
  <2>1. chan[s] \in Seq(Entry) /\ chan[s] # <<>> /\ seen[s] \in Seq(Entry)
    BY DEF TypeOK
  <2>2. Append(seen[s], Head(chan[s])) \o Tail(chan[s]) = seen[s] \o chan[s]
    BY <2>1, MoveHead
  <2>3. /\ seen'[s] = Append(seen[s], Head(chan[s])) /\ chan'[s] = Tail(chan[s])
        /\ \A r \in Subscribers : r # s => seen'[r] = seen[r] /\ chan'[r] = chan[r]
    BY DEF TypeOK
  <2>4. QED
    BY <2>2, <2>3 DEF Feed
<1>2. CASE Subscribe(s) \/ Leave(s) \/ Unsubscribe(s)
  BY <1>2 DEF Subscribe, Leave, Unsubscribe, Feed, busVars
<1>3. QED
  BY <1>1, <1>2

LEMMA InvSubscriber ==
    ASSUME IInv, NEW s \in Subscribers,
           Subscribe(s) \/ Consume(s) \/ Leave(s) \/ Unsubscribe(s)
    PROVE  IInv'
<1> USE BusAssumption DEF IInv
<1>1. \A r \in Subscribers : Feed(r)' = Feed(r)
  BY FeedSubscriber
<1>2. InOrder' /\ FeedInv'
  <2>1. UNCHANGED <<pc, count, todo>>
    BY DEF Subscribe, Consume, Leave, Unsubscribe
  <2>2. QED
    BY <1>1, <2>1 DEF InOrder, FeedInv
<1>3. CASE Subscribe(s)
  <2> USE <1>3 DEF Subscribe
  <2>1. from' \in [Subscribers -> [Loggers -> Nat]]
    <3>1. \A g \in Loggers : (IF pc[g] = "logged" THEN count[g] - 1 ELSE count[g]) \in Nat
      BY DEF TypeOK, LockInv
    <3>2. QED
      BY <3>1 DEF TypeOK
  <2>2. TypeOK'
    BY <2>1 DEF TypeOK
  <2>3. LockInv' /\ WithinCapacity'
    BY DEF TypeOK, LockInv, WithinCapacity
  <2>4. QED
    BY <1>2, <2>2, <2>3
<1>4. CASE Consume(s)
  <2> USE <1>4 DEF Consume
  <2>1. chan[s] \in Seq(Entry) /\ chan[s] # <<>>
    BY DEF TypeOK
  <2>2. /\ Head(chan[s]) \in Entry /\ Tail(chan[s]) \in Seq(Entry)
        /\ Len(Tail(chan[s])) = Len(chan[s]) - 1 /\ Len(chan[s]) \in Nat
    BY <2>1, HeadTailProperties
  <2>3. Append(seen[s], Head(chan[s])) \in Seq(Entry)
    BY <2>2 DEF TypeOK
  <2>4. TypeOK'
    BY <2>2, <2>3 DEF TypeOK
  <2>5. LockInv' /\ WithinCapacity'
    BY <2>2 DEF TypeOK, LockInv, WithinCapacity
  <2>6. QED
    BY <1>2, <2>4, <2>5
<1>5. CASE Leave(s)
  BY <1>2, <1>5 DEF Leave, busVars, TypeOK, LockInv, WithinCapacity
<1>6. CASE Unsubscribe(s)
  <2> USE <1>6 DEF Unsubscribe, NoReader
  <2>1. TypeOK'
    BY DEF TypeOK
  <2>2. \A g \in Loggers : todo[g] = {}
    BY DEF LockInv
  <2>3. LockInv' /\ WithinCapacity'
    BY <2>2 DEF TypeOK, LockInv, WithinCapacity
  <2>4. QED
    BY <1>2, <2>1, <2>3
<1>7. QED
  BY <1>3, <1>4, <1>5, <1>6

LEMMA InvNext == IInv /\ [Next]_vars => IInv'
<1> SUFFICES ASSUME IInv, [Next]_vars PROVE IInv'
  OBVIOUS
<1>1. CASE \E g \in Loggers : Encode(g) \/ BeginBroadcast(g) \/ EndBroadcast(g)
  BY <1>1, InvLog
<1>2. CASE \E g \in Loggers, s \in Subscribers : SendOrDrop(g, s)
  BY <1>2, InvSend
<1>3. CASE \E s \in Subscribers : Subscribe(s) \/ Consume(s) \/ Leave(s) \/ Unsubscribe(s)
  BY <1>3, InvSubscriber
<1>4. CASE UNCHANGED vars
  BY <1>4 DEF vars, busVars, IInv, TypeOK, LockInv, WithinCapacity, FeedInv, InOrder, Feed
<1>5. QED
  BY <1>1, <1>2, <1>3, <1>4 DEF Next, LogStep

\* The inductive invariant of the bus holds in every reachable state.
THEOREM Inductive == Spec => []IInv
<1>1. QED
  BY InvInit, InvNext, PTL DEF Spec

\* Log never sends on a closed channel (logger.go:72-81 against 93-101).
THEOREM NoPanic == Spec => []NoSendOnClosed
<1>1. IInv => NoSendOnClosed
  BY DEF IInv, LockInv, NoSendOnClosed
<1>2. QED
  BY <1>1, Inductive, PTL

\* A subscriber handles what one goroutine logged in the order it was logged,
\* and nothing twice (logger.go:75-78, analyzer.go:62-76).
THEOREM Ordered == Spec => []InOrder
<1>1. IInv => InOrder
  BY DEF IInv
<1>2. QED
  BY <1>1, Inductive, PTL

\* A subscriber's channel never holds more than its capacity: a send that finds
\* room succeeds, and the others are dropped (logger.go:75-78).
THEOREM Bounded == Spec => []WithinCapacity
<1>1. IInv => WithinCapacity
  BY DEF IInv
<1>2. QED
  BY <1>1, Inductive, PTL
-----------------------------------------------------------------------------
(* What a subscriber is due and what has become of it.                       *)
Got(s) == Elements(Feed(s)) \cup lost[s]
DueOf(s, g) == IF pc[g] = "logged" \/ s \in todo[g] THEN count[g] - 1 ELSE count[g]

\* A subscriber that has subscribed got, or lost, exactly the entries it is due.
GotDue(s) ==
    \A g \in Loggers :
        /\ from[s][g] <= DueOf(s, g)
        /\ \A k \in Nat : <<g, k>> \in Got(s) <=> from[s][g] < k /\ k <= DueOf(s, g)

AccountInv ==
    \A s \in Subscribers : /\ life[s] = "new" => Got(s) = {}
                           /\ s \in subs => GotDue(s)

LEMMA DueType ==
    ASSUME TypeOK, LockInv, NEW s \in Subscribers, NEW g \in Loggers
    PROVE  count[g] \in Nat /\ from[s][g] \in Nat /\ DueOf(s, g) \in Int
BY BusAssumption DEF TypeOK, DueOf

\* Steps that change neither what a subscriber got nor what it is due.
LEMMA AccountStays ==
    ASSUME AccountInv, NEW s \in Subscribers, Got(s)' = Got(s),
           life'[s] = "new" => life[s] = "new",
           s \in subs' => s \in subs,
           from'[s] = from[s], \A g \in Loggers : DueOf(s, g)' = DueOf(s, g)
    PROVE  (life[s] = "new" => Got(s) = {})' /\ (s \in subs => GotDue(s))'
<1>1. (life[s] = "new" => Got(s) = {})'
  BY DEF AccountInv
<1>2. ASSUME s \in subs' PROVE GotDue(s)'
  <2>1. GotDue(s)
    BY <1>2 DEF AccountInv
  <2>2. QED
    BY <2>1 DEF GotDue
<1>3. QED
  BY <1>1, <1>2

\* Logging: an entry is due once its broadcast is past the subscriber.
LEMMA AccountLog ==
    ASSUME IInv, AccountInv, NEW g \in Loggers,
           Encode(g) \/ BeginBroadcast(g) \/ EndBroadcast(g)
    PROVE  AccountInv'
<1> SUFFICES ASSUME NEW s \in Subscribers
             PROVE  (life[s] = "new" => Got(s) = {})' /\ (s \in subs => GotDue(s))'
  BY DEF AccountInv
<1>1. UNCHANGED <<subs, chan, life, seen, lost, from>>
  BY DEF Encode, BeginBroadcast, EndBroadcast, busVars
<1>2. Got(s)' = Got(s)
  BY <1>1 DEF Got, Feed, Elements
<1>3. CASE s \notin subs
  BY <1>1, <1>2, <1>3 DEF AccountInv
<1>4. CASE s \in subs
  <2>1. ASSUME NEW h \in Loggers PROVE DueOf(s, h)' = DueOf(s, h)
    <3>1. CASE h # g
      BY <3>1 DEF Encode, BeginBroadcast, EndBroadcast, DueOf, IInv, TypeOK
    <3>2. CASE h = g /\ Encode(g)
      <4>1. /\ pc[g] = "idle" /\ pc'[g] = "logged" /\ todo' = todo
            /\ count[g] \in Nat /\ count'[g] = count[g] + 1
        BY <3>2, BusAssumption DEF Encode, IInv, TypeOK
      <4>2. s \notin todo[g]
        BY <4>1 DEF IInv, LockInv
      <4>3. QED
        BY <3>2, <4>1, <4>2 DEF DueOf
    <3>3. CASE h = g /\ BeginBroadcast(g)
      BY <1>4, <3>3 DEF BeginBroadcast, DueOf, IInv, TypeOK, LockInv
    <3>4. CASE h = g /\ EndBroadcast(g)
      BY <3>4 DEF EndBroadcast, DueOf, IInv, TypeOK
    <3>5. QED
      BY <3>1, <3>2, <3>3, <3>4
  <2>2. QED
    BY <1>1, <1>2, <2>1, AccountStays
<1>5. QED
  BY <1>3, <1>4

\* The entry reaches the subscriber's channel or is dropped.
LEMMA GotSent ==
    ASSUME IInv, NEW g \in Loggers, NEW s \in Subscribers, SendOrDrop(g, s)
    PROVE  /\ Got(s)' = Got(s) \cup {Current(g)}
           /\ \A r \in Subscribers : r # s => Got(r)' = Got(r)
<1>1. /\ chan[s] \in Seq(Entry) /\ seen[s] \in Seq(Entry) /\ Feed(s) \in Seq(Entry)
      /\ Current(g) \in Entry
  BY FeedType DEF IInv, TypeOK, Current, Entry
<1>2. seen' = seen
  BY DEF SendOrDrop
<1>3. CASE ~Full(s) /\ chan' = [chan EXCEPT ![s] = Append(@, Current(g))] /\ UNCHANGED lost
  <2>1. /\ chan'[s] = Append(chan[s], Current(g))
        /\ \A r \in Subscribers : r # s => chan'[r] = chan[r]
    BY <1>3 DEF IInv, TypeOK
  <2>2. seen[s] \o Append(chan[s], Current(g)) = Append(seen[s] \o chan[s], Current(g))
    <3>1. \A q, r \in Seq(Entry), e \in Entry : q \o Append(r, e) = Append(q \o r, e)
      BY AppendToSecond
    <3>2. QED
      BY <1>1, <3>1, Zenon
  <2>3. Feed(s)' = Append(Feed(s), Current(g))
    BY <1>2, <2>1, <2>2 DEF Feed
  <2>4. \A r \in Subscribers : r # s => Got(r)' = Got(r)
    BY <1>2, <1>3, <2>1 DEF Got, Feed, Elements
  <2>5. Elements(Append(Feed(s), Current(g))) = Elements(Feed(s)) \cup {Current(g)}
    <3> DEFINE q == Feed(s)
               new == Append(q, Current(g))
    <3>1. /\ Len(q) \in Nat /\ Len(new) = Len(q) + 1 /\ new[Len(q) + 1] = Current(g)
          /\ \A i \in 1..Len(q) : new[i] = q[i]
      BY <1>1, AppendProperties
    <3> HIDE DEF q, new
    <3>2. Elements(new) = Elements(q) \cup {Current(g)}
      BY <3>1 DEF Elements
    <3>3. QED
      BY <3>2 DEF q, new
  <2>6. QED
    BY <1>3, <2>3, <2>4, <2>5 DEF Got
<1>4. CASE Full(s) /\ lost' = [lost EXCEPT ![s] = @ \cup {Current(g)}] /\ UNCHANGED chan
  <2>1. /\ lost'[s] = lost[s] \cup {Current(g)}
        /\ \A r \in Subscribers : r # s => lost'[r] = lost[r]
    BY <1>4 DEF IInv, TypeOK
  <2>2. \A r \in Subscribers : Feed(r)' = Feed(r)
    BY <1>2, <1>4 DEF Feed
  <2>3. QED
    BY <2>1, <2>2 DEF Got, Elements
<1>5. QED
  BY <1>3, <1>4 DEF SendOrDrop

LEMMA AccountSend ==
    ASSUME IInv, AccountInv, NEW g \in Loggers, NEW s \in Subscribers, SendOrDrop(g, s)
    PROVE  AccountInv'
<1>1. /\ UNCHANGED <<pc, count, subs, life, from>>
      /\ \A r \in Subscribers : \A h \in Loggers :
            r \in todo'[h] <=> r \in todo[h] /\ ~(h = g /\ r = s)
  BY DEF SendOrDrop, Reached, IInv, TypeOK
<1>2. ASSUME NEW r \in Subscribers, r # s
      PROVE  (life[r] = "new" => Got(r) = {})' /\ (r \in subs => GotDue(r))'
  <2>1. \A h \in Loggers : DueOf(r, h)' = DueOf(r, h)
    BY <1>1, <1>2 DEF DueOf
  <2>2. QED
    BY <1>1, <1>2, <2>1, GotSent, AccountStays
<1>3. s \in subs /\ s \in todo[g] /\ pc[g] = "sending" /\ life[s] # "new"
  BY DEF SendOrDrop, Reached, IInv, LockInv
<1>4. GotDue(s) /\ Got(s)' = Got(s) \cup {Current(g)}
  BY <1>3, GotSent DEF AccountInv
<1>5. ASSUME NEW h \in Loggers
      PROVE  /\ from[s][h] <= DueOf(s, h)'
             /\ \A k \in Nat : <<h, k>> \in Got(s)' <=> from[s][h] < k /\ k <= DueOf(s, h)'
  <2>1. count[h] \in Nat /\ from[s][h] \in Nat /\ DueOf(s, h) \in Int
    BY DueType DEF IInv
  <2>2. CASE h # g
    <3>1. DueOf(s, h)' = DueOf(s, h)
      BY <1>1, <2>2 DEF DueOf
    <3>2. \A k \in Nat : <<h, k>> # Current(g)
      BY <2>2 DEF Current
    <3>3. QED
      BY <1>4, <3>1, <3>2 DEF GotDue
  <2>3. CASE h = g
    <3>1. DueOf(s, h) = count[h] - 1 /\ DueOf(s, h)' = count[h]
      BY <1>1, <1>3, <2>3 DEF DueOf
    <3>2. \A k \in Nat : <<h, k>> = Current(g) <=> k = count[h]
      BY <2>3 DEF Current
    <3>3. QED
      BY <1>4, <2>1, <3>1, <3>2 DEF GotDue
  <2>4. QED
    BY <2>2, <2>3
<1>6. GotDue(s)'
  BY <1>1, <1>5 DEF GotDue
<1>7. QED
  BY <1>1, <1>2, <1>3, <1>6 DEF AccountInv

\* Whoever subscribes is due what is broadcast from then on, and has got nothing.
LEMMA AccountSubscriber ==
    ASSUME IInv, AccountInv, NEW s \in Subscribers,
           Subscribe(s) \/ Consume(s) \/ Leave(s) \/ Unsubscribe(s)
    PROVE  AccountInv'
<1>1. UNCHANGED <<pc, count, todo, lost>>
  BY DEF Subscribe, Consume, Leave, Unsubscribe, busVars
<1>2. \A r \in Subscribers : Feed(r)' = Feed(r)
  BY FeedSubscriber DEF IInv
<1>3. /\ \A r \in Subscribers : Got(r)' = Got(r)
      /\ \A r \in Subscribers, h \in Loggers : DueOf(r, h)' = DueOf(r, h)
  BY <1>1, <1>2 DEF Got, Elements, DueOf
<1>4. \A r \in Subscribers : life'[r] = "new" => life[r] = "new"
  BY DEF Subscribe, Consume, Leave, Unsubscribe, IInv, TypeOK
<1>5. ASSUME NEW r \in Subscribers, ~(r = s /\ Subscribe(s))
      PROVE  (life[r] = "new" => Got(r) = {})' /\ (r \in subs => GotDue(r))'
  <2>1. (r \in subs' => r \in subs) /\ from'[r] = from[r]
    BY <1>5 DEF Subscribe, Consume, Leave, Unsubscribe, busVars, IInv, TypeOK
  <2>2. QED
    BY <1>3, <1>4, <2>1, AccountStays
<1>6. CASE Subscribe(s)
  <2>1. life[s] = "new" /\ life'[s] = "live" /\ \A g \in Loggers : pc[g] # "sending"
    BY <1>6 DEF Subscribe, NoReader, IInv, TypeOK
  <2>2. Got(s)' = {} /\ \A g \in Loggers : s \notin todo[g]
    BY <1>3, <2>1 DEF AccountInv, IInv, LockInv
  <2>3. ASSUME NEW g \in Loggers PROVE from'[s][g] = DueOf(s, g)'
    BY <1>3, <1>6, <2>2 DEF Subscribe, DueOf, IInv, TypeOK
  <2>4. \A g \in Loggers : DueOf(s, g)' \in Int
    BY <1>3, DueType DEF IInv
  <2>5. GotDue(s)'
    BY <2>2, <2>3, <2>4 DEF GotDue
  <2>6. QED
    BY <1>5, <2>1, <2>5 DEF AccountInv
<1>7. CASE ~Subscribe(s)
  BY <1>5, <1>7 DEF AccountInv
<1>8. QED
  BY <1>6, <1>7

LEMMA AccountNext == IInv /\ AccountInv /\ [Next]_vars => AccountInv'
<1> SUFFICES ASSUME IInv, AccountInv, [Next]_vars PROVE AccountInv'
  OBVIOUS
<1>1. CASE \E g \in Loggers : Encode(g) \/ BeginBroadcast(g) \/ EndBroadcast(g)
  BY <1>1, AccountLog
<1>2. CASE \E g \in Loggers, s \in Subscribers : SendOrDrop(g, s)
  BY <1>2, AccountSend
<1>3. CASE \E s \in Subscribers : Subscribe(s) \/ Consume(s) \/ Leave(s) \/ Unsubscribe(s)
  BY <1>3, AccountSubscriber
<1>4. CASE UNCHANGED vars
  <2>1. UNCHANGED <<pc, count, todo, subs, chan, life, seen, lost, from>>
    BY <1>4 DEF vars, busVars
  <2>2. /\ \A s \in Subscribers : Got(s)' = Got(s)
        /\ \A s \in Subscribers, g \in Loggers : DueOf(s, g)' = DueOf(s, g)
    BY <2>1 DEF Got, DueOf, Feed, Elements
  <2>3. ASSUME NEW s \in Subscribers
        PROVE  (life[s] = "new" => Got(s) = {})' /\ (s \in subs => GotDue(s))'
    BY <2>1, <2>2, AccountStays
  <2>4. QED
    BY <2>3 DEF AccountInv
<1>5. QED
  BY <1>1, <1>2, <1>3, <1>4 DEF Next, LogStep

\* Every entry broadcast since a subscriber subscribed is handled, waiting or was
\* dropped for want of room, and nothing else reaches it (logger.go:72-81).
THEOREM NothingUnaccounted == Spec => []Accounted
<1>1. Init => AccountInv
  <2>1. Init => \A s \in Subscribers : Got(s) = {}
    BY DEF Init, Got, Feed, Elements
  <2>2. QED
    BY <2>1 DEF Init, AccountInv
<1>2. TypeOK /\ LockInv /\ AccountInv => Accounted
  <2> SUFFICES ASSUME TypeOK, LockInv, AccountInv, NEW s \in subs
               PROVE  Got(s) = UNION {{<<g, k>> : k \in from[s][g] + 1..DueOf(s, g)} :
                                         g \in Loggers}
    BY DEF Accounted, Got, DueOf
  <2>1. s \in Subscribers
    BY DEF TypeOK
  <2>2. GotDue(s)
    BY <2>1 DEF AccountInv
  <2>3. Got(s) \subseteq Entry
    <3>1. lost[s] \subseteq Entry
      BY <2>1 DEF TypeOK
    <3>2. Elements(Feed(s)) \subseteq Entry
      BY <2>1, FeedType DEF Elements
    <3>3. QED
      BY <3>1, <3>2 DEF Got
  <2>4. ASSUME NEW g \in Loggers, NEW k \in Nat
        PROVE  <<g, k>> \in Got(s) <=> k \in from[s][g] + 1..DueOf(s, g)
    BY <2>1, <2>2, DueType DEF GotDue
  <2>5. \A g \in Loggers : from[s][g] + 1..DueOf(s, g) \subseteq Nat
    BY <2>1, DueType
  <2>6. \A e \in Entry : e[1] \in Loggers /\ e[2] \in Nat /\ e = <<e[1], e[2]>>
    BY DEF Entry
  <2>7. QED
    BY <2>3, <2>4, <2>5, <2>6
<1>3. IInv => TypeOK /\ LockInv
  BY DEF IInv
<1>4. QED
  BY <1>1, <1>2, <1>3, AccountNext, Inductive, PTL DEF Spec
-----------------------------------------------------------------------------
(* What becomes of the catalogs that are logged: CatalogFeed, whose channels *)
(* are those of the bus.                                                     *)

\* While the watcher is idle and its last save succeeded, tool_catalog.json holds the
\* catalog the server shows (server.go:58, 271-315), through failed saves and restarts.
THEOREM FileFollows == CatalogSpec => []DiskFollows
<1> USE DEF DiskFollows
<1>1. CatalogInit => DiskFollows
  BY DEF CatalogInit
<1>2. ASSUME DiskFollows, [CatalogNext]_catalogVars PROVE DiskFollows'
  <2>1. CASE Restart
    BY <2>1 DEF Restart, RestartWith
  <2>2. CASE Watch
    BY <1>2, <2>2 DEF Watch
  <2>3. CASE Save
    BY <2>3 DEF Save, OpenFile, WriteFile, SaveFails
  <2>4. CASE UNCHANGED watchVars
    BY <1>2, <2>4 DEF watchVars
  <2>5. QED
    BY <1>2, <2>1, <2>2, <2>3, <2>4
    DEF CatalogNext, catalogVars, LogCatalog, Send, Begin, Deliver, LogOther,
        OpenStream, Serve, SendCached, Forward, Hear, Disconnect, LoadTools, ToolsLoaded
<1>3. QED
  BY <1>1, <1>2, PTL DEF CatalogSpec

-----------------------------------------------------------------------------
(* What is under way.                                                        *)

\* Handling the entries q after the catalog s ends with d: the last catalog among
\* them is d, or there is none and s is d.
Brings(q, s, d) ==
    \/ s = d /\ NoCatalog(q)
    \/ d # 0 /\ \E i \in 1..Len(q) : q[i] = d /\ \A j \in i + 1..Len(q) : q[j] = 0

\* An entry of another type changes nothing, a catalog becomes the last one.
LEMMA BringsAppend ==
    ASSUME NEW q \in Seq(Nat), NEW s \in Nat, NEW d \in Nat, NEW e \in Nat,
           e = 0 => Brings(q, s, d)
    PROVE  Brings(Append(q, e), s, IF e = 0 THEN d ELSE e)
<1> DEFINE new == Append(q, e)
<1>1. /\ Len(q) \in Nat /\ Len(new) = Len(q) + 1 /\ new[Len(q) + 1] = e
      /\ \A i \in 1..Len(q) : new[i] = q[i]
  BY AppendProperties
<1> HIDE DEF new
<1>2. CASE e # 0
  <2>1. Len(new) \in 1..Len(new) /\ new[Len(new)] = e
    BY <1>1
  <2>2. QED
    BY <1>1, <1>2, <2>1 DEF Brings, NoCatalog, new
<1>3. CASE e = 0 /\ s = d /\ \A i \in 1..Len(q) : q[i] = 0
  <2>1. \A i \in 1..Len(new) : new[i] = 0
    BY <1>1, <1>3
  <2>2. QED
    BY <1>3, <2>1 DEF Brings, NoCatalog, new
<1>4. CASE /\ e = 0 /\ d # 0
           /\ \E i \in 1..Len(q) : q[i] = d /\ \A j \in i + 1..Len(q) : q[j] = 0
  <2>1. PICK i \in 1..Len(q) : q[i] = d /\ \A j \in i + 1..Len(q) : q[j] = 0
    BY <1>4
  <2>2. i \in 1..Len(new) /\ new[i] = d
    BY <1>1, <2>1
  <2>3. ASSUME NEW j \in i + 1..Len(new) PROVE new[j] = 0
    <3>1. j = Len(q) + 1 \/ j \in i + 1..Len(q)
      BY <1>1
    <3>2. j \in i + 1..Len(q) => j \in 1..Len(q)
      OBVIOUS
    <3>3. QED
      BY <1>1, <1>4, <2>1, <3>1, <3>2
  <2>4. QED
    BY <1>4, <2>2, <2>3 DEF Brings, NoCatalog, new
<1>5. QED
  BY <1>2, <1>3, <1>4 DEF Brings, NoCatalog

\* Handling the first entry.
LEMMA BringsTail ==
    ASSUME NEW q \in Seq(Nat), NEW s \in Nat, NEW d \in Nat, q # <<>>, Brings(q, s, d)
    PROVE  Brings(Tail(q), IF Head(q) = 0 THEN s ELSE Head(q), d)
<1> DEFINE rest == Tail(q)
<1>1. /\ Len(rest) = Len(q) - 1 /\ Len(q) \in Nat \ {0} /\ Head(q) = q[1]
      /\ \A i \in 1..Len(rest) : rest[i] = q[i + 1]
  BY HeadTailProperties
<1> HIDE DEF rest
<1>2. CASE s = d /\ \A i \in 1..Len(q) : q[i] = 0
  <2>1. Head(q) = 0 /\ \A i \in 1..Len(rest) : rest[i] = 0
    BY <1>1, <1>2
  <2>2. QED
    BY <1>2, <2>1 DEF Brings, NoCatalog, rest
<1>3. CASE d # 0 /\ \E i \in 1..Len(q) : q[i] = d /\ \A j \in i + 1..Len(q) : q[j] = 0
  <2>1. PICK i \in 1..Len(q) : q[i] = d /\ \A j \in i + 1..Len(q) : q[j] = 0
    BY <1>3
  <2>2. CASE i = 1
    <3>1. Head(q) = d /\ \A j \in 1..Len(rest) : rest[j] = 0
      BY <1>1, <2>1, <2>2
    <3>2. QED
      BY <1>3, <3>1 DEF Brings, NoCatalog, rest
  <2>3. CASE i # 1
    <3>1. i - 1 \in 1..Len(rest) /\ rest[i - 1] = d
      BY <1>1, <2>1, <2>3
    <3>2. ASSUME NEW j \in (i - 1) + 1..Len(rest) PROVE rest[j] = 0
      <4>1. j \in 1..Len(rest) /\ j + 1 \in i + 1..Len(q)
        BY <1>1
      <4>2. QED
        BY <1>1, <2>1, <4>1
    <3>3. QED
      BY <1>3, <3>1, <3>2 DEF Brings, NoCatalog, rest
  <2>4. QED
    BY <2>2, <2>3
<1>4. QED
  BY <1>2, <1>3 DEF Brings, NoCatalog

\* Whether there is a catalog among the entries.
LEMMA NoneAppend ==
    ASSUME NEW q \in Seq(Nat), NEW e \in Nat
    PROVE  NoCatalog(Append(q, e)) <=> NoCatalog(q) /\ e = 0
<1> DEFINE new == Append(q, e)
<1>1. /\ Len(q) \in Nat /\ Len(new) = Len(q) + 1 /\ new[Len(q) + 1] = e
      /\ \A i \in 1..Len(q) : new[i] = q[i]
  BY AppendProperties
<1> HIDE DEF new
<1>2. Len(q) + 1 \in 1..Len(new) /\ \A i \in 1..Len(new) : i = Len(q) + 1 \/ i \in 1..Len(q)
  BY <1>1
<1>3. \A i \in 1..Len(q) : i \in 1..Len(new)
  BY <1>1
<1>4. QED
  BY <1>1, <1>2, <1>3 DEF NoCatalog, new

LEMMA NoneTail ==
    ASSUME NEW q \in Seq(Nat), q # <<>>
    PROVE  NoCatalog(q) <=> NoCatalog(Tail(q)) /\ Head(q) = 0
<1> DEFINE rest == Tail(q)
<1>1. /\ Len(rest) = Len(q) - 1 /\ Len(q) \in Nat \ {0} /\ Head(q) = q[1]
      /\ \A i \in 1..Len(rest) : rest[i] = q[i + 1]
  BY HeadTailProperties
<1> HIDE DEF rest
<1>2. ASSUME NoCatalog(q) PROVE NoCatalog(rest) /\ Head(q) = 0
  BY <1>1, <1>2 DEF NoCatalog
<1>3. ASSUME NoCatalog(rest), Head(q) = 0 PROVE NoCatalog(q)
  <2>1. ASSUME NEW i \in 1..Len(q) PROVE q[i] = 0
    <3>1. i = 1 \/ (i - 1 \in 1..Len(rest) /\ (i - 1) + 1 = i)
      BY <1>1
    <3>2. QED
      BY <1>1, <1>3, <3>1 DEF NoCatalog
  <2>2. QED
    BY <2>1 DEF NoCatalog
<1>4. QED
  BY <1>2, <1>3 DEF rest

\* What comes before is of no account once there is a catalog.
LEMMA BringsNone ==
    ASSUME NEW q, NEW s, NEW d, Brings(q, s, d)
    PROVE  /\ NoCatalog(q) => d = s
           /\ ~NoCatalog(q) => \A t : Brings(q, t, d)
BY DEF Brings, NoCatalog

\* The cached catalog c goes ahead of what waits in the channel.
LEMMA BringsFirst ==
    ASSUME NEW q \in Seq(Nat), NEW c \in Nat \ {0}, NEW s, NEW d,
           IF NoCatalog(q) THEN d = c ELSE Brings(q, s, d)
    PROVE  Brings(<<c>> \o q, s, d) /\ ~NoCatalog(<<c>> \o q)
<1> DEFINE new == <<c>> \o q
<1>1. /\ <<c>> \in Seq(Nat) /\ Len(<<c>>) = 1 /\ Len(q) \in Nat
      /\ Len(new) = 1 + Len(q)
      /\ \A i \in 1..1 + Len(q) : new[i] = IF i <= 1 THEN c ELSE q[i - 1]
  <2>1. <<c>> \in Seq(Nat) /\ Len(<<c>>) = 1 /\ <<c>>[1] = c /\ Len(q) \in Nat
    OBVIOUS
  <2>2. Len(new) = Len(<<c>>) + Len(q)
    BY <2>1, ConcatProperties
  <2>3. \A i \in 1..Len(<<c>>) + Len(q) :
            new[i] = IF i <= Len(<<c>>) THEN <<c>>[i] ELSE q[i - Len(<<c>>)]
    BY <2>1, ConcatProperties
  <2> HIDE DEF new
  <2>4. QED
    BY <2>1, <2>2, <2>3
<1> HIDE DEF new
<1>2. 1 \in 1..Len(new) /\ new[1] = c /\ ~NoCatalog(new)
  BY <1>1 DEF NoCatalog
<1>3. CASE NoCatalog(q)
  <2>1. \A j \in 1 + 1..Len(new) : j - 1 \in 1..Len(q) /\ j \in 1..1 + Len(q) /\ ~(j <= 1)
    BY <1>1
  <2>2. \A j \in 1 + 1..Len(new) : new[j] = 0
    BY <1>1, <1>3, <2>1 DEF NoCatalog
  <2>3. QED
    BY <1>2, <1>3, <2>2 DEF Brings, new
<1>4. CASE ~NoCatalog(q)
  <2>1. PICK i \in 1..Len(q) : d # 0 /\ q[i] = d /\ \A j \in i + 1..Len(q) : q[j] = 0
    BY <1>4 DEF Brings
  <2>2. i + 1 \in 1..Len(new) /\ new[i + 1] = d
    BY <1>1, <2>1
  <2>3. ASSUME NEW j \in (i + 1) + 1..Len(new) PROVE new[j] = 0
    <3>1. j \in 1..1 + Len(q) /\ j > 1 /\ j - 1 \in i + 1..Len(q)
      BY <1>1
    <3>2. QED
      BY <1>1, <2>1, <3>1
  <2>4. QED
    BY <1>2, <2>1, <2>2, <2>3 DEF Brings, new
<1>5. QED
  BY <1>3, <1>4

\* The head of a concatenation is that of its first part.
LEMMA TailOfConcat ==
    ASSUME NEW S, NEW q \in Seq(S), NEW r \in Seq(S), q # <<>>
    PROVE  Tail(q) \o r = Tail(q \o r) /\ Head(q \o r) = Head(q) /\ q \o r # <<>>
<1> DEFINE left == Tail(q) \o r
           whole == q \o r
<1>1. /\ Tail(q) \in Seq(S) /\ Len(Tail(q)) = Len(q) - 1 /\ Head(q) = q[1]
      /\ \A i \in 1..Len(Tail(q)) : Tail(q)[i] = q[i + 1]
      /\ Len(q) \in Nat \ {0} /\ Len(r) \in Nat
  BY HeadTailProperties
<1>2. /\ whole \in Seq(S) /\ Len(whole) = Len(q) + Len(r)
      /\ \A i \in 1..Len(q) + Len(r) : whole[i] = IF i <= Len(q) THEN q[i] ELSE r[i - Len(q)]
  BY ConcatProperties
<1>3. /\ left \in Seq(S) /\ Len(left) = Len(Tail(q)) + Len(r)
      /\ \A i \in 1..Len(Tail(q)) + Len(r) :
            left[i] = IF i <= Len(Tail(q)) THEN Tail(q)[i] ELSE r[i - Len(Tail(q))]
  BY <1>1, ConcatProperties
<1> HIDE DEF left, whole
<1>4. whole # <<>>
  BY <1>1, <1>2
<1>5. /\ Tail(whole) \in Seq(S) /\ Len(Tail(whole)) = Len(whole) - 1 /\ Head(whole) = whole[1]
      /\ \A i \in 1..Len(Tail(whole)) : Tail(whole)[i] = whole[i + 1]
  BY <1>2, <1>4, HeadTailProperties
<1>6. ASSUME NEW i \in 1..Len(left) PROVE left[i] = Tail(whole)[i]
  <2>0. Len(Tail(q)) \in Nat /\ i \in 1..Len(Tail(q)) + Len(r) /\ i \in Nat
    BY <1>1, <1>3
  <2>1. Tail(whole)[i] = whole[i + 1] /\ i + 1 \in 1..Len(q) + Len(r)
    BY <1>1, <1>2, <1>3, <1>5
  <2>2. CASE i <= Len(Tail(q))
    BY <1>1, <1>2, <1>3, <2>1, <2>2
  <2>3. CASE i > Len(Tail(q))
    <3>1. left[i] = r[i - Len(Tail(q))] /\ whole[i + 1] = r[i + 1 - Len(q)]
      BY <1>1, <1>2, <1>3, <2>1, <2>3
    <3>2. i - Len(Tail(q)) = i + 1 - Len(q)
      BY <1>1
    <3>3. QED
      BY <2>1, <3>1, <3>2
  <2>4. i <= Len(Tail(q)) \/ i > Len(Tail(q))
    BY <2>0
  <2>5. QED
    BY <2>2, <2>3, <2>4, Zenon
<1>7. left = Tail(whole)
  BY <1>1, <1>2, <1>3, <1>5, <1>6, SeqEqual
<1>8. QED
  BY <1>1, <1>2, <1>4, <1>5, <1>7 DEF left, whole

-----------------------------------------------------------------------------
(* Types.                                                                    *)

FeedFacts ==
    /\ 0 \in CatalogEntry /\ Catalogs \subseteq CatalogEntry /\ CatalogEntry \subseteq Nat
    /\ MaxCatalogs \in Nat /\ Watcher \in Receivers /\ Pages \subseteq Receivers
    /\ \A k \in Catalogs : k \in Nat /\ k # 0

LEMMA FeedConstants == FeedFacts
BY FeedAssumption DEF FeedFacts, CatalogEntry, Catalogs, Receivers

\* A queue of entries, within its capacity.
Within(q, cap) == q \in Seq(CatalogEntry) /\ Len(q) <= cap

LEMMA QueueAppend ==
    ASSUME NEW q, NEW cap \in Nat, Within(q, cap), Len(q) < cap, NEW e \in CatalogEntry
    PROVE  Within(Append(q, e), cap)
<1>1. Append(q, e) \in Seq(CatalogEntry) /\ Len(Append(q, e)) = Len(q) + 1 /\ Len(q) \in Nat
  BY AppendProperties DEF Within
<1>2. QED
  BY <1>1 DEF Within

LEMMA QueueTail ==
    ASSUME NEW q, NEW cap \in Nat, Within(q, cap), q # <<>>
    PROVE  Within(Tail(q), cap) /\ Head(q) \in CatalogEntry
<1>1. /\ Tail(q) \in Seq(CatalogEntry) /\ Len(Tail(q)) = Len(q) - 1 /\ Len(q) \in Nat
      /\ Head(q) \in CatalogEntry
  BY HeadTailProperties DEF Within
<1>2. QED
  BY <1>1 DEF Within

LEMMA QueueEmpty == \A cap \in Nat : Within(<<>>, cap)
<1>1. <<>> \in Seq(CatalogEntry) /\ Len(<<>>) = 0
  OBVIOUS
<1>2. QED
  BY <1>1 DEF Within

\* The type invariant, by parts.
LogTyped == logged \in CatalogEntry /\ begun \subseteq 1..logged
             /\ owed \in [Catalogs -> SUBSET Receivers] /\ restarts \in 0..MaxRestarts
ChannelTyped == channel \in [Receivers -> Seq(CatalogEntry)]
                /\ \A r \in Receivers : Within(channel[r], ChannelCap)
WatchTyped == watcher \in {"idle", "open", "write"} /\ cached \in CatalogEntry
              /\ disk \in CatalogEntry /\ failed \in BOOLEAN
PageTyped == /\ stream \in [Pages -> {"closed", "subscribed", "streaming"}]
             /\ wire \in [Pages -> Seq(CatalogEntry)]
             /\ \A p \in Pages : Within(wire[p], WireCap)
             /\ asked \in [Pages -> SUBSET CatalogEntry] /\ tab \in [Pages -> CatalogEntry]
HistoryTyped == astray \in [Pages -> BOOLEAN] /\ blind \in [Pages -> BOOLEAN]
                /\ late \in [Pages -> BOOLEAN]

LEMMA TypedParts ==
    CatalogTypeOK <=> LogTyped /\ ChannelTyped /\ WatchTyped /\ PageTyped /\ HistoryTyped
BY DEF CatalogTypeOK, LogTyped, ChannelTyped, WatchTyped, PageTyped, HistoryTyped, Within

LEMMA CatalogTypeInit == CatalogInit => CatalogTypeOK
<1> SUFFICES ASSUME CatalogInit PROVE CatalogTypeOK
  OBVIOUS
<1> USE DEF CatalogInit
<1>1. <<>> \in Seq(CatalogEntry)
  OBVIOUS
<1>2. LogTyped
  BY FeedConstants, FeedAssumption DEF LogTyped, FeedFacts
<1>3. ChannelTyped
  <2>1. channel \in [Receivers -> Seq(CatalogEntry)]
    BY <1>1
  <2>2. \A r \in Receivers : channel[r] = <<>>
    OBVIOUS
  <2>3. QED
    BY <2>1, <2>2, QueueEmpty, FeedAssumption DEF ChannelTyped
<1>4. WatchTyped
  BY FeedConstants DEF WatchTyped, FeedFacts
<1>5. PageTyped
  <2>1. wire \in [Pages -> Seq(CatalogEntry)]
    BY <1>1
  <2>2. \A p \in Pages : wire[p] = <<>>
    OBVIOUS
  <2>3. QED
    BY <2>1, <2>2, QueueEmpty, FeedConstants, FeedAssumption DEF PageTyped, FeedFacts
<1>6. HistoryTyped
  BY DEF HistoryTyped
<1>7. QED
  BY <1>2, <1>3, <1>4, <1>5, <1>6, TypedParts

\* A receiver gets an entry or hands on its first one.
LEMMA ChannelPush ==
    ASSUME ChannelTyped, NEW r \in Receivers, HasRoom(r), NEW e \in CatalogEntry,
           channel' = [channel EXCEPT ![r] = Append(channel[r], e)]
    PROVE  ChannelTyped'
<1>1. Within(Append(channel[r], e), ChannelCap)
  BY QueueAppend, FeedAssumption DEF ChannelTyped, HasRoom
<1>2. QED
  BY <1>1 DEF ChannelTyped, Within

LEMMA ChannelPop ==
    ASSUME ChannelTyped, NEW r \in Receivers, channel[r] # <<>>,
           channel' = [channel EXCEPT ![r] = Tail(channel[r])]
    PROVE  ChannelTyped' /\ Head(channel[r]) \in CatalogEntry
<1>1. Within(Tail(channel[r]), ChannelCap) /\ Head(channel[r]) \in CatalogEntry
  BY QueueTail, FeedAssumption DEF ChannelTyped
<1>2. QED
  BY <1>1 DEF ChannelTyped, Within

LEMMA WirePush ==
    ASSUME PageTyped, NEW p \in Pages, Len(wire[p]) < WireCap, NEW e \in CatalogEntry,
           wire' = [wire EXCEPT ![p] = Append(wire[p], e)]
    PROVE  wire' \in [Pages -> Seq(CatalogEntry)] /\ \A q \in Pages : Within(wire'[q], WireCap)
<1>1. Within(Append(wire[p], e), WireCap)
  BY QueueAppend, FeedAssumption DEF PageTyped
<1>2. QED
  BY <1>1 DEF PageTyped, Within

LEMMA TypedLog ==
    ASSUME CatalogTypeOK, LogCatalog \/ Send \/ \E r \in Receivers : LogOther(r)
    PROVE  CatalogTypeOK'
<1>0. LogTyped /\ ChannelTyped /\ WatchTyped /\ PageTyped /\ HistoryTyped
  BY TypedParts
<1> SUFFICES LogTyped' /\ ChannelTyped' /\ WatchTyped' /\ PageTyped' /\ HistoryTyped'
  BY TypedParts DEF CatalogTypeOK, LogTyped, ChannelTyped, WatchTyped, PageTyped, HistoryTyped,
                    Within
<1>1. CASE LogCatalog
  <2>1. logged' \in CatalogEntry /\ begun' \subseteq 1..logged'
    BY <1>0, <1>1, FeedAssumption DEF LogCatalog, LogTyped, CatalogEntry, Catalogs
  <2>2. QED
    BY <1>0, <1>1, <2>1 DEF LogCatalog, LogTyped, ChannelTyped, WatchTyped, PageTyped,
                            HistoryTyped, watchVars, pageVars, historyVars
<1>2. ASSUME NEW k \in Catalogs, Begin(k)
      PROVE  LogTyped' /\ ChannelTyped' /\ WatchTyped' /\ PageTyped' /\ HistoryTyped'
  <2>1. LogTyped'
    BY <1>0, <1>2, FeedConstants DEF Begin, LogTyped, FeedFacts
  <2>2. HistoryTyped'
    BY <1>0, <1>2 DEF Begin, HistoryTyped, UnderWay
  <2>3. QED
    BY <1>0, <1>2, <2>1, <2>2 DEF Begin, ChannelTyped, WatchTyped, PageTyped, watchVars, pageVars
<1>3. ASSUME NEW k \in Catalogs, NEW r \in Receivers, Deliver(k, r)
      PROVE  LogTyped' /\ ChannelTyped' /\ WatchTyped' /\ PageTyped' /\ HistoryTyped'
  <2>1. LogTyped'
    BY <1>0, <1>3 DEF Deliver, LogTyped, loggerVars
  <2>2. ChannelTyped'
    <3>1. CASE HasRoom(r) /\ channel' = [channel EXCEPT ![r] = Append(channel[r], k)]
      BY <1>0, <3>1, ChannelPush, FeedConstants DEF FeedFacts
    <3>2. CASE UNCHANGED channel
      BY <1>0, <3>2 DEF ChannelTyped
    <3>3. QED
      BY <1>3, <3>1, <3>2 DEF Deliver
  <2>3. HistoryTyped'
    BY <1>0, <1>3 DEF Deliver, HistoryTyped
  <2>4. QED
    BY <1>0, <1>3, <2>1, <2>2, <2>3 DEF Deliver, WatchTyped, PageTyped, watchVars, pageVars
<1>4. ASSUME NEW r \in Receivers, LogOther(r)
      PROVE  LogTyped' /\ ChannelTyped' /\ WatchTyped' /\ PageTyped' /\ HistoryTyped'
  <2>1. ChannelTyped'
    BY <1>0, <1>4, ChannelPush, FeedConstants DEF LogOther, FeedFacts
  <2>2. QED
    BY <1>0, <1>4, <2>1 DEF LogOther, LogTyped, WatchTyped, PageTyped, HistoryTyped, loggerVars,
                            watchVars, pageVars, historyVars
<1>5. QED
  BY <1>1, <1>2, <1>3, <1>4 DEF Send

LEMMA TypedWatch == ASSUME CatalogTypeOK, Watch \/ Save PROVE CatalogTypeOK'
<1>0. LogTyped /\ ChannelTyped /\ WatchTyped /\ PageTyped /\ HistoryTyped
  BY TypedParts
<1> SUFFICES LogTyped' /\ ChannelTyped' /\ WatchTyped' /\ PageTyped' /\ HistoryTyped'
  BY TypedParts DEF CatalogTypeOK, LogTyped, ChannelTyped, WatchTyped, PageTyped, HistoryTyped,
                    Within
<1>1. CASE Watch
  <2>1. ChannelTyped' /\ Head(channel[Watcher]) \in CatalogEntry
    BY <1>0, <1>1, ChannelPop, FeedConstants DEF Watch, FeedFacts
  <2>2. WatchTyped'
    BY <1>0, <1>1, <2>1 DEF Watch, WatchTyped
  <2>3. QED
    BY <1>0, <1>1, <2>1, <2>2 DEF Watch, LogTyped, PageTyped, HistoryTyped, loggerVars, pageVars,
                                  historyVars
<1>2. CASE Save
  <2>1. WatchTyped'
    BY <1>0, <1>2, FeedConstants DEF Save, OpenFile, WriteFile, SaveFails, WatchTyped, FeedFacts
  <2>2. QED
    BY <1>0, <1>2, <2>1 DEF Save, OpenFile, WriteFile, SaveFails, LogTyped, ChannelTyped,
                            PageTyped, HistoryTyped, loggerVars, pageVars, historyVars
<1>3. QED
  BY <1>1, <1>2

\* The steps of a page and of its stream.
StreamSteps(p) ==
    \/ OpenStream(p) \/ SendCached(p) \/ Forward(p) \/ Hear(p) \/ Disconnect(p)
    \/ LoadTools(p) \/ \E k \in CatalogEntry : ToolsLoaded(p, k)

\* A stream that does not run yet has nothing on its way to the page, nor does a page
\* without a stream, and one that was opened blind has no catalog yet.
Shape ==
    \A p \in Pages :
        /\ stream[p] = "closed" => channel[p] = <<>> /\ \A k \in Catalogs : p \notin owed[k]
        /\ stream[p] # "streaming" => wire[p] = <<>>
        /\ stream[p] = "subscribed" /\ blind[p] => NoCatalog(channel[p])

LEMMA TypedPage == ASSUME CatalogTypeOK, Shape, NEW p \in Pages, StreamSteps(p) PROVE CatalogTypeOK'
<1>0. LogTyped /\ ChannelTyped /\ WatchTyped /\ PageTyped /\ HistoryTyped /\ p \in Receivers
  BY TypedParts, FeedConstants DEF FeedFacts
<1> SUFFICES LogTyped' /\ ChannelTyped' /\ WatchTyped' /\ PageTyped' /\ HistoryTyped'
  BY TypedParts DEF CatalogTypeOK, LogTyped, ChannelTyped, WatchTyped, PageTyped, HistoryTyped,
                    Within
<1>1. CASE OpenStream(p)
  <2>1. PageTyped'
    BY <1>0, <1>1 DEF OpenStream, PageTyped
  <2>2. HistoryTyped'
    BY <1>0, <1>1 DEF OpenStream, HistoryTyped, Settled, NoCatalog
  <2>3. QED
    BY <1>0, <1>1, <2>1, <2>2 DEF OpenStream, LogTyped, ChannelTyped, WatchTyped, loggerVars,
                                  watchVars
<1>2. CASE SendCached(p)
  <2>1. wire' \in [Pages -> Seq(CatalogEntry)] /\ \A q \in Pages : Within(wire'[q], WireCap)
    <3>1. CASE cached = 0
      BY <1>0, <1>2, <3>1 DEF SendCached, PageTyped, Within
    <3>2. CASE cached # 0
      <4>1. wire[p] = <<>> /\ Len(wire[p]) < WireCap
        <5>1. wire[p] = <<>> /\ Len(<<>>) = 0
          BY <1>2 DEF SendCached, Shape
        <5>2. QED
          BY <5>1, FeedAssumption
      <4>2. wire' = [wire EXCEPT ![p] = Append(wire[p], cached)]
        BY <1>2, <3>2 DEF SendCached
      <4>3. QED
        BY <1>0, <4>1, <4>2, WirePush DEF WatchTyped
    <3>3. QED
      BY <3>1, <3>2
  <2>2. PageTyped'
    BY <1>0, <1>2, <2>1 DEF SendCached, PageTyped
  <2>3. HistoryTyped'
    BY <1>0, <1>2 DEF SendCached, HistoryTyped
  <2>4. QED
    BY <1>0, <1>2, <2>2, <2>3 DEF SendCached, LogTyped, ChannelTyped, WatchTyped, loggerVars,
                                  watchVars
<1>3. CASE Forward(p)
  <2>1. ChannelTyped' /\ Head(channel[p]) \in CatalogEntry
    BY <1>0, <1>3, ChannelPop DEF Forward
  <2>2. wire' \in [Pages -> Seq(CatalogEntry)] /\ \A q \in Pages : Within(wire'[q], WireCap)
    BY <1>0, <1>3, <2>1, WirePush DEF Forward
  <2>3. QED
    BY <1>0, <1>3, <2>1, <2>2 DEF Forward, LogTyped, WatchTyped, PageTyped, HistoryTyped,
                                  loggerVars, watchVars, historyVars
<1>4. CASE Hear(p)
  <2>1. Within(Tail(wire[p]), WireCap) /\ Head(wire[p]) \in CatalogEntry
    BY <1>0, <1>4, QueueTail, FeedAssumption DEF Hear, PageTyped
  <2>2. PageTyped'
    BY <1>0, <1>4, <2>1 DEF Hear, PageTyped, Within
  <2>3. HistoryTyped'
    BY <1>0, <1>4 DEF Hear, HistoryTyped
  <2>4. QED
    BY <1>0, <1>4, <2>2, <2>3 DEF Hear, LogTyped, ChannelTyped, WatchTyped, loggerVars, watchVars
<1>5. CASE Disconnect(p)
  <2>1. LogTyped' /\ HistoryTyped'
    BY <1>0, <1>5 DEF Disconnect, LogTyped, HistoryTyped, loggerVars
  <2>2. Within(<<>>, ChannelCap) /\ Within(<<>>, WireCap)
    BY QueueEmpty, FeedAssumption
  <2>3. ChannelTyped' /\ PageTyped'
    BY <1>0, <1>5, <2>2 DEF Disconnect, ChannelTyped, PageTyped, Within
  <2>4. QED
    BY <1>0, <1>5, <2>1, <2>3 DEF Disconnect, WatchTyped, watchVars
<1>6. CASE LoadTools(p)
  <2>1. PageTyped'
    BY <1>0, <1>6 DEF LoadTools, PageTyped, WatchTyped
  <2>2. QED
    BY <1>0, <1>6, <2>1 DEF LoadTools, LogTyped, ChannelTyped, WatchTyped, HistoryTyped, loggerVars,
                            watchVars, historyVars
<1>7. ASSUME NEW k \in CatalogEntry, ToolsLoaded(p, k)
      PROVE  LogTyped' /\ ChannelTyped' /\ WatchTyped' /\ PageTyped' /\ HistoryTyped'
  <2>1. PageTyped'
    BY <1>0, <1>7 DEF ToolsLoaded, PageTyped
  <2>2. HistoryTyped'
    BY <1>0, <1>7 DEF ToolsLoaded, HistoryTyped, Settled, NoCatalog
  <2>3. QED
    BY <1>0, <1>7, <2>1, <2>2 DEF ToolsLoaded, LogTyped, ChannelTyped, WatchTyped, loggerVars,
                                  watchVars
<1>8. QED
  BY <1>1, <1>2, <1>3, <1>4, <1>5, <1>6, <1>7 DEF StreamSteps

LEMMA TypedRestart == CatalogTypeOK /\ Restart => CatalogTypeOK'
<1> SUFFICES ASSUME CatalogTypeOK, Restart PROVE CatalogTypeOK'
  OBVIOUS
<1> USE DEF Restart, RestartWith
<1>0. LogTyped /\ WatchTyped /\ PageTyped
  BY TypedParts
<1>1. <<>> \in Seq(CatalogEntry) /\ Within(<<>>, ChannelCap) /\ Within(<<>>, WireCap)
  BY QueueEmpty, FeedAssumption DEF Within
<1>2. LogTyped'
  BY <1>0, FeedAssumption DEF LogTyped
<1>3. ChannelTyped'
  BY <1>1 DEF ChannelTyped, Within
<1>4. WatchTyped' /\ HistoryTyped'
  BY <1>0 DEF WatchTyped, HistoryTyped
<1>5. PageTyped'
  BY <1>0, <1>1 DEF PageTyped, Within
<1>6. QED
  BY <1>2, <1>3, <1>4, <1>5, TypedParts
     DEF CatalogTypeOK, LogTyped, ChannelTyped, WatchTyped, PageTyped, HistoryTyped, Within

-----------------------------------------------------------------------------
(* What the streams bring.                                                   *)

\* The entries on their way to the page.
Way(p) == wire[p] \o channel[p]

\* No broadcast has yet to reach the receiver.
Passed(r) == \A k \in Catalogs : r \notin owed[k]

\* A catalog is on its way to the page.
Coming(p) == ~Passed(p) \/ ~NoCatalog(Way(p))

\* What is on its way leaves the server with catalog d: the broadcast of d has yet to
\* reach the watcher, or no broadcast has and d comes of what waits in its channel.
ToCache(d) ==
    \/ Watcher \in owed[d]
    \/ Passed(Watcher) /\ Brings(channel[Watcher], cached, d)

\* And so it leaves the page.
ToPage(p, d) ==
    \/ p \in owed[d]
    \/ Passed(p) /\ Brings(Way(p), tab[p], d)

\* At most one broadcast is under way, and it leaves the server with its catalog.
Alone(p) ==
    stream[p] # "closed" /\ ~astray[p] =>
        \A k \in Catalogs : owed[k] # {} =>
            ToCache(k) /\ \A j \in Catalogs : owed[j] # {} => j = k

\* A stream that is about to send the cached catalog has the newer one coming, if there
\* is one.
Ready(p) == stream[p] = "subscribed" /\ ~astray[p] /\ ~blind[p] => Coming(p) \/ Settled

\* Server and page end with the same catalog, once the page has one to show.
Meet(p) ==
    stream[p] # "closed" /\ ~astray[p] /\ ~blind[p]
        /\ (Coming(p) \/ (stream[p] = "streaming" /\ ~late[p])) =>
    \/ Settled /\ cached = 0
    \/ \E d \in Catalogs : ToCache(d) /\ ToPage(p, d)

StreamInv(p) == Alone(p) /\ Ready(p) /\ Meet(p)

CatalogInv == CatalogTypeOK /\ Shape /\ \A p \in Pages : StreamInv(p)

LEMMA Typed ==
    ASSUME CatalogTypeOK, NEW p \in Pages
    PROVE  /\ p \in Receivers /\ Watcher \in Receivers /\ p # Watcher
           /\ channel[p] \in Seq(Nat) /\ channel[Watcher] \in Seq(Nat) /\ wire[p] \in Seq(Nat)
           /\ Way(p) \in Seq(Nat) /\ tab[p] \in Nat /\ cached \in Nat
           /\ cached # 0 => cached \in Catalogs
           /\ \A k \in Catalogs : k \in Nat /\ k # 0 /\ owed[k] \subseteq Receivers
           /\ astray[p] \in BOOLEAN /\ blind[p] \in BOOLEAN /\ late[p] \in BOOLEAN
<1>1. LogTyped /\ ChannelTyped /\ WatchTyped /\ PageTyped /\ HistoryTyped
  BY TypedParts
<1>2. p \in Receivers /\ Watcher \in Receivers /\ p # Watcher
  BY FeedConstants, FeedAssumption DEF FeedFacts
<1>3. ASSUME NEW q \in Seq(CatalogEntry) PROVE q \in Seq(Nat)
  <2>1. /\ Len(q) \in Nat /\ q \in [1..Len(q) -> CatalogEntry]
        /\ q \in [1..Len(q) -> Nat]
    BY FeedConstants, LenProperties DEF FeedFacts
  <2>2. q \in UNION {[1..n -> Nat] : n \in Nat}
    BY <2>1
  <2>3. QED
    BY <2>2, SeqDef, Zenon
<1>4. channel[p] \in Seq(Nat) /\ channel[Watcher] \in Seq(Nat) /\ wire[p] \in Seq(Nat)
  BY <1>1, <1>2, <1>3 DEF ChannelTyped, PageTyped
<1>5. tab[p] \in Nat /\ cached \in Nat /\ (cached # 0 => cached \in Catalogs)
  BY <1>1, FeedConstants DEF PageTyped, WatchTyped, FeedFacts, CatalogEntry
<1>6. \A k \in Catalogs : k \in Nat /\ k # 0 /\ owed[k] \subseteq Receivers
  BY <1>1, FeedConstants DEF LogTyped, FeedFacts
<1>7. astray[p] \in BOOLEAN /\ blind[p] \in BOOLEAN /\ late[p] \in BOOLEAN
  BY <1>1 DEF HistoryTyped
<1>8. wire[p] \o channel[p] \in Seq(Nat)
  BY <1>4, ConcatProperties
<1>9. QED
  BY <1>2, <1>4, <1>5, <1>6, <1>7, <1>8 DEF Way

\* What a step leaves of the way to the server, and of the way to the page.
CacheKept ==
    /\ \A d \in Catalogs : ToCache(d) => ToCache(d)'
    /\ Settled => Settled'
    /\ Settled /\ cached = 0 => cached' = 0
PageKept(p) ==
    /\ \A d \in Catalogs : ToPage(p, d) => ToPage(p, d)'
    /\ Coming(p)' <=> Coming(p)

LEMMA CacheSame ==
    ASSUME \A k \in Catalogs : Watcher \in owed'[k] <=> Watcher \in owed[k],
           channel'[Watcher] = channel[Watcher], cached' = cached
    PROVE  CacheKept
BY DEF CacheKept, ToCache, Passed, Settled

LEMMA PageSame ==
    ASSUME NEW p, \A k \in Catalogs : p \in owed'[k] <=> p \in owed[k],
           wire'[p] = wire[p], channel'[p] = channel[p], tab'[p] = tab[p]
    PROVE  PageKept(p)
BY DEF PageKept, ToPage, Coming, Passed, Way

LEMMA Kept ==
    ASSUME NEW p, StreamInv(p), CacheKept, PageKept(p),
           \A k \in Catalogs : owed'[k] \subseteq owed[k],
           stream'[p] = stream[p], astray'[p] = astray[p], blind'[p] = blind[p],
           late'[p] = late[p]
    PROVE  StreamInv(p)'
<1>1. Alone(p)'
  BY DEF StreamInv, CacheKept, Alone
<1>2. Ready(p)'
  BY DEF StreamInv, CacheKept, PageKept, Ready
<1>3. Meet(p)'
  BY DEF StreamInv, CacheKept, PageKept, Meet
<1>4. QED
  BY <1>1, <1>2, <1>3 DEF StreamInv

\* Without a stream, and when broadcasts overlapped or dropped a catalog, there is
\* nothing to show.
LEMMA NoStream ==
    ASSUME NEW p, stream'[p] = "closed" \/ astray'[p] PROVE StreamInv(p)'
BY DEF StreamInv, Alone, Ready, Meet

-----------------------------------------------------------------------------
(* The steps of the server.                                                  *)

LEMMA KeptLogOther ==
    ASSUME CatalogTypeOK, NEW p \in Pages, StreamInv(p), NEW r \in Receivers, LogOther(r)
    PROVE  StreamInv(p)'
<1>0. /\ UNCHANGED <<owed, stream, wire, tab, cached, astray, blind, late>>
      /\ channel' = [channel EXCEPT ![r] = Append(channel[r], 0)]
  BY DEF LogOther, watchVars, pageVars, historyVars
<1>1. /\ p \in Receivers /\ Watcher \in Receivers /\ p # Watcher
      /\ channel[p] \in Seq(Nat) /\ channel[Watcher] \in Seq(Nat) /\ wire[p] \in Seq(Nat)
      /\ Way(p) \in Seq(Nat) /\ tab[p] \in Nat /\ cached \in Nat /\ Catalogs \subseteq Nat
      /\ channel \in [Receivers -> Seq(CatalogEntry)]
  BY Typed DEF CatalogTypeOK
<1>2. CacheKept
  <2>1. CASE r = Watcher
    <3>1. channel'[Watcher] = Append(channel[Watcher], 0)
      BY <1>0, <1>1, <2>1
    <3>2. NoCatalog(channel[Watcher])' <=> NoCatalog(channel[Watcher])
      <4>1. \A q \in Seq(Nat), e \in Nat : NoCatalog(Append(q, e)) <=> NoCatalog(q) /\ e = 0
        BY NoneAppend
      <4>2. NoCatalog(Append(channel[Watcher], 0)) <=> NoCatalog(channel[Watcher])
        BY <1>1, <4>1
      <4>3. QED
        BY <3>1, <4>2
    <3>3. ASSUME NEW d \in Catalogs, Brings(channel[Watcher], cached, d)
          PROVE  Brings(channel'[Watcher], cached, d)
      BY <1>1, <3>1, <3>3, BringsAppend
    <3>4. QED
      BY <1>0, <3>2, <3>3 DEF CacheKept, ToCache, Passed, Settled
  <2>2. CASE r # Watcher
    BY <1>0, <1>1, <2>2, CacheSame
  <2>3. QED
    BY <2>1, <2>2
<1>3. PageKept(p)
  <2>1. CASE r = p
    <3>1. channel'[p] = Append(channel[p], 0)
      BY <1>0, <1>1, <2>1
    <3>2. wire'[p] \o channel'[p] = Append(wire[p] \o channel[p], 0)
      <4>1. wire[p] \o Append(channel[p], 0) = Append(wire[p] \o channel[p], 0)
        <5>1. \A a, b \in Seq(Nat), e \in Nat : a \o Append(b, e) = Append(a \o b, e)
          BY AppendToSecond
        <5>2. QED
          BY <1>1, <5>1
      <4>2. QED
        BY <1>0, <3>1, <4>1
    <3>3. Way(p)' = Append(Way(p), 0)
      BY <3>2 DEF Way
    <3>4. NoCatalog(Way(p))' <=> NoCatalog(Way(p))
      BY <1>1, <3>3, NoneAppend
    <3>5. ASSUME NEW d \in Catalogs, Brings(Way(p), tab[p], d)
          PROVE  Brings(Way(p)', tab[p], d)
      BY <1>1, <3>3, <3>5, BringsAppend
    <3>6. QED
      BY <1>0, <3>4, <3>5 DEF PageKept, ToPage, Coming, Passed
  <2>2. CASE r # p
    BY <1>0, <1>1, <2>2, PageSame
  <2>3. QED
    BY <2>1, <2>2
<1>4. QED
  BY <1>0, <1>2, <1>3, Kept

LEMMA KeptWatch ==
    ASSUME CatalogTypeOK, NEW p \in Pages, StreamInv(p), Watch PROVE StreamInv(p)'
<1>0. /\ UNCHANGED <<owed, stream, wire, tab, astray, blind, late>>
      /\ channel[Watcher] # <<>>
      /\ channel' = [channel EXCEPT ![Watcher] = Tail(channel[Watcher])]
      /\ cached' = IF Head(channel[Watcher]) = 0 THEN cached ELSE Head(channel[Watcher])
  BY DEF Watch, pageVars, historyVars
<1>1. /\ p \in Receivers /\ Watcher \in Receivers /\ p # Watcher
      /\ channel[Watcher] \in Seq(Nat) /\ cached \in Nat /\ Catalogs \subseteq Nat
      /\ channel \in [Receivers -> Seq(CatalogEntry)]
  BY Typed DEF CatalogTypeOK
<1>2. channel'[Watcher] = Tail(channel[Watcher]) /\ channel'[p] = channel[p]
  BY <1>0, <1>1
<1>3. CacheKept
  <2>1. NoCatalog(channel[Watcher]) => NoCatalog(channel[Watcher])' /\ cached' = cached
    BY <1>0, <1>1, <1>2, NoneTail
  <2>2. ASSUME NEW d \in Catalogs, Brings(channel[Watcher], cached, d)
        PROVE  Brings(channel[Watcher], cached, d)'
    BY <1>0, <1>1, <1>2, <2>2, BringsTail
  <2>3. QED
    BY <1>0, <2>1, <2>2 DEF CacheKept, ToCache, Passed, Settled
<1>4. PageKept(p)
  BY <1>0, <1>2, PageSame
<1>5. QED
  BY <1>0, <1>3, <1>4, Kept

\* A broadcast that begins is the only one, or the page's stream is astray.
LEMMA KeptBegin ==
    ASSUME CatalogTypeOK, NEW p \in Pages, StreamInv(p), NEW k \in Catalogs, Begin(k)
    PROVE  StreamInv(p)'
<1>0. /\ UNCHANGED <<channel, stream, wire, tab, cached, blind, late>>
      /\ owed' = [owed EXCEPT ![k] = {q \in Pages : Listening(q)} \cup {Watcher}]
      /\ astray'[p] = (astray[p] \/ (stream[p] # "closed" /\ UnderWay))
      /\ owed \in [Catalogs -> SUBSET Receivers]
  BY DEF Begin, watchVars, pageVars, CatalogTypeOK
<1>1. CASE stream[p] = "closed" \/ UnderWay
  BY <1>0, <1>1, NoStream
<1>2. CASE stream[p] # "closed" /\ ~UnderWay
  <2>1. p \in owed'[k] /\ Watcher \in owed'[k]
    BY <1>0, <1>2 DEF Listening
  <2>2. \A j \in Catalogs : owed'[j] # {} => j = k
    BY <1>0, <1>2 DEF UnderWay
  <2>3. ToCache(k)' /\ ToPage(p, k)' /\ Coming(p)'
    BY <2>1 DEF ToCache, ToPage, Coming, Passed
  <2>4. QED
    BY <2>2, <2>3 DEF StreamInv, Alone, Ready, Meet
<1>3. QED
  BY <1>1, <1>2

\* The catalog comes to the watcher: it becomes what the server will cache.
LEMMA KeptToWatcher ==
    ASSUME CatalogTypeOK, NEW p \in Pages, StreamInv(p), NEW k \in Catalogs, Deliver(k, Watcher)
    PROVE  StreamInv(p)'
<1>0. /\ Watcher \in owed[k]
      /\ owed' = [owed EXCEPT ![k] = owed[k] \ {Watcher}]
      /\ UNCHANGED <<stream, wire, tab, cached, late>>
      /\ owed \in [Catalogs -> SUBSET Receivers]
      /\ channel \in [Receivers -> Seq(CatalogEntry)]
  BY DEF Deliver, watchVars, pageVars, CatalogTypeOK
<1>1. /\ p \in Receivers /\ Watcher \in Receivers /\ p # Watcher
      /\ channel[Watcher] \in Seq(Nat) /\ cached \in Nat /\ k \in Nat /\ k # 0
      /\ blind[p] \in BOOLEAN
  BY Typed
<1>2. CASE \/ stream[p] = "closed" \/ astray[p]
           \/ astray'[p] = (astray[p] \/ (stream[p] # "closed" /\ Watcher \in {p, Watcher}))
  <2>1. astray'[p] \/ stream'[p] = "closed"
    BY <1>0, <1>2 DEF Deliver
  <2>2. QED
    BY <2>1, NoStream
<1>3. CASE /\ stream[p] # "closed" /\ ~astray[p]
           /\ channel' = [channel EXCEPT ![Watcher] = Append(channel[Watcher], k)]
           /\ blind'[p] = (blind[p] /\ p # Watcher)
           /\ UNCHANGED astray
  <2>1. ToCache(k) /\ \A j \in Catalogs : owed[j] # {} => j = k
    BY <1>0, <1>3 DEF StreamInv, Alone
  <2>2. \A j \in Catalogs : Watcher \notin owed'[j]
    BY <1>0, <2>1
  <2>3. channel'[Watcher] = Append(channel[Watcher], k) /\ channel'[p] = channel[p]
        /\ blind'[p] = blind[p]
    BY <1>0, <1>1, <1>3
  <2>4. Brings(channel'[Watcher], cached, k)
    BY <1>1, <2>3, BringsAppend
  <2>5. ToCache(k)'
    BY <1>0, <2>2, <2>4 DEF ToCache, Passed
  <2>6. PageKept(p)
    <3>1. \A j \in Catalogs : p \in owed'[j] <=> p \in owed[j]
      BY <1>0, <1>1
    <3>2. QED
      BY <1>0, <2>3, <3>1, PageSame
  <2>7. ~Settled /\ \A d \in Catalogs : ToCache(d) => d = k
    <3>1. ~Passed(Watcher) /\ ~Settled
      BY <1>0 DEF Passed, Settled
    <3>2. QED
      BY <2>1, <3>1 DEF ToCache
  <2>8. Alone(p)'
    BY <1>0, <2>1, <2>5 DEF Alone
  <2>9. Ready(p)'
    BY <1>0, <1>3, <2>3, <2>6, <2>7 DEF Ready, PageKept, StreamInv
  <2>10. Meet(p)'
    BY <1>0, <1>3, <2>3, <2>5, <2>6, <2>7 DEF Meet, PageKept, StreamInv
  <2>11. QED
    BY <2>8, <2>9, <2>10 DEF StreamInv
<1>4. QED
  BY <1>2, <1>3 DEF Deliver

\* The catalog comes to the page, which then has what the server will cache.
LEMMA KeptToPage ==
    ASSUME CatalogTypeOK, Shape, NEW p \in Pages, StreamInv(p), NEW k \in Catalogs, Deliver(k, p)
    PROVE  StreamInv(p)'
<1>0. /\ p \in owed[k]
      /\ owed' = [owed EXCEPT ![k] = owed[k] \ {p}]
      /\ UNCHANGED <<stream, wire, tab, cached, late>>
      /\ owed \in [Catalogs -> SUBSET Receivers]
      /\ channel \in [Receivers -> Seq(CatalogEntry)]
      /\ stream[p] # "closed"
  BY DEF Deliver, watchVars, pageVars, CatalogTypeOK, Shape
<1>1. /\ p \in Receivers /\ Watcher \in Receivers /\ p # Watcher
      /\ channel[p] \in Seq(Nat) /\ wire[p] \in Seq(Nat) /\ Way(p) \in Seq(Nat)
      /\ tab[p] \in Nat /\ k \in Nat /\ k # 0
  BY Typed
<1>2. CASE astray[p] \/ astray'[p] = (astray[p] \/ (stream[p] # "closed" /\ p \in {p, Watcher}))
  <2>1. astray'[p]
    BY <1>0, <1>2 DEF Deliver
  <2>2. QED
    BY <2>1, NoStream
<1>3. CASE /\ ~astray[p]
           /\ channel' = [channel EXCEPT ![p] = Append(channel[p], k)]
           /\ UNCHANGED astray
  <2>1. ToCache(k) /\ \A j \in Catalogs : owed[j] # {} => j = k
    BY <1>0, <1>3 DEF StreamInv, Alone
  <2>2. \A j \in Catalogs : p \notin owed'[j] /\ owed'[j] \subseteq owed[j]
    BY <1>0, <2>1
  <2>3. channel'[p] = Append(channel[p], k) /\ channel'[Watcher] = channel[Watcher]
    BY <1>0, <1>1, <1>3
  <2>4. CacheKept
    <3>1. \A j \in Catalogs : Watcher \in owed'[j] <=> Watcher \in owed[j]
      BY <1>0, <1>1
    <3>2. QED
      BY <1>0, <2>3, <3>1, CacheSame
  <2>5. Way(p)' = Append(Way(p), k)
    <3>1. wire'[p] \o channel'[p] = Append(wire[p] \o channel[p], k)
      <4>1. wire[p] \o Append(channel[p], k) = Append(wire[p] \o channel[p], k)
        <5>1. \A a, b \in Seq(Nat), e \in Nat : a \o Append(b, e) = Append(a \o b, e)
          BY AppendToSecond
        <5>2. QED
          BY <1>1, <5>1
      <4>2. QED
        BY <1>0, <2>3, <4>1
    <3>2. QED
      BY <3>1 DEF Way
  <2>6. Brings(Way(p)', tab[p], k) /\ ~NoCatalog(Way(p)')
    BY <1>1, <2>5, BringsAppend, NoneAppend
  <2>7. ToPage(p, k)' /\ Coming(p)'
    BY <1>0, <2>2, <2>6 DEF ToPage, Coming, Passed
  <2>8. ToCache(k)' /\ \A j \in Catalogs : owed'[j] # {} => j = k
    BY <2>1, <2>2, <2>4 DEF CacheKept
  <2>9. QED
    BY <2>7, <2>8 DEF StreamInv, Alone, Ready, Meet
<1>4. QED
  BY <1>0, <1>2, <1>3 DEF Deliver

\* The catalog comes to another page.
LEMMA KeptToOther ==
    ASSUME CatalogTypeOK, NEW p \in Pages, StreamInv(p), NEW k \in Catalogs,
           NEW r \in Pages \ {p}, Deliver(k, r)
    PROVE  StreamInv(p)'
<1>0. /\ owed' = [owed EXCEPT ![k] = owed[k] \ {r}]
      /\ UNCHANGED <<stream, wire, tab, cached, late>>
      /\ owed \in [Catalogs -> SUBSET Receivers]
      /\ channel \in [Receivers -> Seq(CatalogEntry)]
  BY DEF Deliver, watchVars, pageVars, CatalogTypeOK
<1>1. /\ p \in Receivers /\ Watcher \in Receivers /\ r # Watcher /\ r # p
      /\ astray[p] \in BOOLEAN /\ blind[p] \in BOOLEAN
  BY Typed
<1>2. /\ channel'[p] = channel[p] /\ channel'[Watcher] = channel[Watcher]
      /\ astray'[p] = astray[p] /\ blind'[p] = blind[p]
  BY <1>0, <1>1 DEF Deliver
<1>3. \A j \in Catalogs : /\ owed'[j] \subseteq owed[j]
                          /\ p \in owed'[j] <=> p \in owed[j]
                          /\ Watcher \in owed'[j] <=> Watcher \in owed[j]
  BY <1>0, <1>1
<1>4. CacheKept /\ PageKept(p)
  BY <1>0, <1>2, <1>3, CacheSame, PageSame
<1>5. QED
  BY <1>0, <1>2, <1>3, <1>4, Kept

-----------------------------------------------------------------------------
(* The steps of the page and of its stream.                                  *)

LEMMA KeptOpenStream ==
    ASSUME CatalogTypeOK, Shape, NEW p \in Pages, OpenStream(p) PROVE StreamInv(p)'
<1>0. /\ UNCHANGED <<owed, channel, wire, cached>>
      /\ stream[p] = "closed" /\ stream'[p] = "subscribed" /\ ~UnderWay
      /\ blind'[p] = ~Settled
  BY DEF OpenStream, CatalogTypeOK, loggerVars, watchVars
<1>1. Alone(p)'
  BY <1>0 DEF Alone, UnderWay
<1>2. Ready(p)'
  BY <1>0 DEF Ready, Settled
<1>3. ~Coming(p)'
  <2>1. channel'[p] = <<>> /\ wire'[p] = <<>>
    BY <1>0 DEF Shape
  <2>2. Way(p)' = <<>> /\ NoCatalog(<<>>)
    <3>1. <<>> \o <<>> = <<>> /\ Len(<<>>) = 0
      OBVIOUS
    <3>2. QED
      BY <2>1, <3>1 DEF Way, NoCatalog
  <2>3. Passed(p)'
    BY <1>0 DEF Passed, UnderWay
  <2>4. QED
    BY <2>2, <2>3 DEF Coming
<1>4. Meet(p)'
  BY <1>0, <1>3 DEF Meet
<1>5. QED
  BY <1>1, <1>2, <1>4 DEF StreamInv

\* The cached catalog goes ahead of a newer one that comes, and is the last one when
\* none does.
LEMMA KeptSendCached ==
    ASSUME CatalogTypeOK, Shape, NEW p \in Pages, StreamInv(p), SendCached(p)
    PROVE  StreamInv(p)'
<1>0. /\ UNCHANGED <<owed, channel, tab, cached, astray, late>>
      /\ stream[p] = "subscribed" /\ stream'[p] = "streaming" /\ wire[p] = <<>>
      /\ wire'[p] = IF cached = 0 THEN wire[p] ELSE Append(wire[p], cached)
      /\ blind'[p] = (blind[p] /\ ~Settled)
  BY DEF SendCached, CatalogTypeOK, watchVars, Shape
<1>1. /\ channel[p] \in Seq(Nat) /\ tab[p] \in Nat /\ cached \in Nat
      /\ cached # 0 => cached \in Catalogs
  BY Typed
<1>2. CacheKept
  BY <1>0, CacheSame
<1>3. Alone(p)' /\ Ready(p)'
  BY <1>0, <1>2 DEF StreamInv, Alone, Ready, CacheKept
<1>4. Way(p) = channel[p] /\ Way(p)' = IF cached = 0 THEN channel[p] ELSE <<cached>> \o channel[p]
  <2>1. <<>> \o channel[p] = channel[p] /\ Append(<<>>, cached) = <<cached>>
    BY <1>1, ConcatEmptySeq
  <2>2. QED
    BY <1>0, <2>1 DEF Way
<1>5. ASSUME cached # 0, NEW d \in Catalogs,
             IF NoCatalog(channel[p]) THEN d = cached ELSE Brings(channel[p], tab[p], d)
      PROVE  Brings(Way(p)', tab[p], d)
  BY <1>1, <1>4, <1>5, BringsFirst
<1>6. Meet(p)'
  <2>1. SUFFICES ASSUME ~astray[p], ~blind[p] \/ Settled, ~(Settled /\ cached = 0)
                 PROVE  \E d \in Catalogs : ToCache(d) /\ ToPage(p, d)'
    BY <1>0, <1>2 DEF Meet, CacheKept
  <2>2. CASE Coming(p) /\ Passed(p)
    <3>1. ~NoCatalog(channel[p])
      BY <1>4, <2>2 DEF Coming
    <3>2. ~blind[p]
      BY <1>0, <3>1 DEF Shape
    <3>3. PICK d \in Catalogs : ToCache(d) /\ ToPage(p, d)
      BY <1>0, <2>1, <2>2, <3>2 DEF StreamInv, Meet
    <3>4. Brings(channel[p], tab[p], d)
      BY <1>4, <2>2, <3>3 DEF ToPage, Passed
    <3>5. Brings(Way(p)', tab[p], d)
      BY <1>4, <1>5, <3>1, <3>4
    <3>6. QED
      BY <1>0, <2>2, <3>3, <3>5 DEF ToPage, Passed
  <2>3. CASE ~Passed(p)
    <3>1. PICK k \in Catalogs : p \in owed[k]
      BY <2>3 DEF Passed
    <3>2. ToCache(k)
      BY <1>0, <2>1, <3>1 DEF StreamInv, Alone
    <3>3. QED
      BY <1>0, <3>1, <3>2 DEF ToPage
  <2>4. CASE ~Coming(p)
    <3>1. Settled
      BY <1>0, <2>1, <2>4 DEF StreamInv, Ready
    <3>2. PICK d \in Catalogs : d = cached /\ cached # 0
      BY <1>1, <2>1, <3>1
    <3>3. Brings(channel[Watcher], cached, d)
      BY <3>1, <3>2 DEF Settled, Brings
    <3>4. ToCache(d)
      BY <3>1, <3>3 DEF ToCache, Settled, Passed
    <3>5. NoCatalog(channel[p]) /\ Passed(p)
      BY <1>4, <2>4 DEF Coming
    <3>6. Brings(Way(p)', tab[p], d)
      BY <1>5, <3>2, <3>5
    <3>7. ToPage(p, d)'
      BY <1>0, <3>5, <3>6 DEF ToPage, Passed
    <3>8. QED
      BY <3>4, <3>7
  <2>5. QED
    BY <2>2, <2>3, <2>4
<1>7. QED
  BY <1>3, <1>6 DEF StreamInv

LEMMA KeptForward ==
    ASSUME CatalogTypeOK, NEW p \in Pages, StreamInv(p), Forward(p) PROVE StreamInv(p)'
<1>0. /\ UNCHANGED <<owed, cached, stream, tab, astray, blind, late>> /\ channel[p] # <<>>
      /\ wire' = [wire EXCEPT ![p] = Append(wire[p], Head(channel[p]))]
      /\ channel' = [channel EXCEPT ![p] = Tail(channel[p])]
  BY DEF Forward, watchVars, historyVars
<1>1. /\ p \in Receivers /\ Watcher \in Receivers /\ p # Watcher
      /\ channel[p] \in Seq(Nat) /\ wire[p] \in Seq(Nat)
      /\ channel \in [Receivers -> Seq(CatalogEntry)] /\ wire \in [Pages -> Seq(CatalogEntry)]
  BY Typed DEF CatalogTypeOK
<1>2. CacheKept
  BY <1>0, <1>1, CacheSame
<1>3. Way(p)' = Way(p)
  <2>1. Append(wire[p], Head(channel[p])) \o Tail(channel[p]) = wire[p] \o channel[p]
    <3>1. \A a, b \in Seq(Nat) : b # <<>> => Append(a, Head(b)) \o Tail(b) = a \o b
      BY MoveHead
    <3>2. QED
      BY <1>0, <1>1, <3>1
  <2>2. QED
    BY <1>0, <1>1, <2>1 DEF Way
<1>4. PageKept(p)
  BY <1>0, <1>3 DEF PageKept, ToPage, Coming, Passed
<1>5. QED
  BY <1>0, <1>2, <1>4, Kept

\* The page shows the first of what is on its way.
LEMMA KeptHear ==
    ASSUME CatalogTypeOK, Shape, NEW p \in Pages, StreamInv(p), Hear(p) PROVE StreamInv(p)'
<1>0. /\ UNCHANGED <<owed, channel, cached, stream, astray, blind>> /\ wire[p] # <<>>
      /\ wire'[p] = Tail(wire[p])
      /\ tab'[p] = IF Head(wire[p]) = 0 THEN tab[p] ELSE Head(wire[p])
      /\ late'[p] = IF Head(wire[p]) = 0 THEN late[p] ELSE FALSE
      /\ stream[p] = "streaming"
  BY DEF Hear, CatalogTypeOK, watchVars, Shape
<1>1. /\ channel[p] \in Seq(Nat) /\ wire[p] \in Seq(Nat) /\ Way(p) \in Seq(Nat)
      /\ tab[p] \in Nat /\ Catalogs \subseteq Nat
  BY Typed
<1>2. CacheKept
  BY <1>0, CacheSame
<1>3. Way(p)' = Tail(Way(p)) /\ Head(Way(p)) = Head(wire[p]) /\ Way(p) # <<>>
  <2>1. \A a, b \in Seq(Nat) : a # <<>> =>
            Tail(a) \o b = Tail(a \o b) /\ Head(a \o b) = Head(a) /\ a \o b # <<>>
    BY TailOfConcat
  <2>2. QED
    BY <1>0, <1>1, <2>1 DEF Way
<1>4. ASSUME NEW d \in Catalogs, ToPage(p, d) PROVE ToPage(p, d)'
  <2>1. Brings(Way(p), tab[p], d) => Brings(Way(p)', tab'[p], d)
    BY <1>0, <1>1, <1>3, BringsTail
  <2>2. QED
    BY <1>0, <1>4, <2>1 DEF ToPage, Passed
<1>5. NoCatalog(Way(p)) <=> NoCatalog(Way(p)') /\ Head(wire[p]) = 0
  BY <1>1, <1>3, NoneTail
<1>6. CASE Head(wire[p]) = 0
  <2>1. PageKept(p)
    BY <1>0, <1>4, <1>5, <1>6 DEF PageKept, Coming, Passed
  <2>2. QED
    BY <1>0, <1>2, <1>6, <2>1, Kept
<1>7. CASE Head(wire[p]) # 0
  <2>1. Coming(p)
    BY <1>5, <1>7 DEF Coming
  <2>2. Alone(p)' /\ Ready(p)'
    BY <1>0, <1>2 DEF StreamInv, Alone, Ready, CacheKept
  <2>3. Meet(p)'
    BY <1>0, <1>2, <1>4, <2>1 DEF StreamInv, Meet, CacheKept
  <2>4. QED
    BY <2>2, <2>3 DEF StreamInv
<1>8. QED
  BY <1>6, <1>7

\* An answer is shown over what the stream brought, and is what it would bring or late.
LEMMA KeptToolsLoaded ==
    ASSUME CatalogTypeOK, NEW p \in Pages, StreamInv(p), NEW k \in CatalogEntry,
           ToolsLoaded(p, k)
    PROVE  StreamInv(p)'
<1>0. /\ UNCHANGED <<owed, channel, cached, stream, wire, astray, blind>>
      /\ tab'[p] = k /\ late'[p] = ~(Settled /\ k = cached)
  BY DEF ToolsLoaded, CatalogTypeOK, watchVars
<1>1. cached # 0 => cached \in Catalogs
  BY Typed
<1>2. CacheKept
  BY <1>0, CacheSame
<1>3. (Coming(p)' <=> Coming(p)) /\ Way(p)' = Way(p) /\ (Passed(p)' <=> Passed(p))
  BY <1>0 DEF Coming, Passed, Way
<1>4. Alone(p)' /\ Ready(p)'
  BY <1>0, <1>2, <1>3 DEF StreamInv, Alone, Ready, CacheKept
<1>5. Meet(p)'
  <2>1. CASE Coming(p)
    <3>1. ASSUME NEW d \in Catalogs, ToPage(p, d) PROVE ToPage(p, d)'
      <4>1. Passed(p) => ~NoCatalog(Way(p))
        BY <2>1 DEF Coming
      <4>2. Passed(p) /\ Brings(Way(p), tab[p], d) => Brings(Way(p), k, d)
        BY <4>1, BringsNone
      <4>3. QED
        BY <1>0, <1>3, <3>1, <4>2 DEF ToPage
    <3>2. QED
      BY <1>0, <1>2, <1>3, <2>1, <3>1 DEF StreamInv, Meet, CacheKept
  <2>2. CASE ~Coming(p)
    <3>1. CASE Settled /\ k = cached /\ cached # 0
      <4>1. Passed(p) /\ NoCatalog(Way(p))
        BY <2>2 DEF Coming
      <4>2. PICK d \in Catalogs : d = cached
        BY <1>1, <3>1
      <4>3. Brings(Way(p), k, d) /\ Brings(channel[Watcher], cached, d)
        BY <3>1, <4>1, <4>2 DEF Brings, Settled
      <4>4. ToPage(p, d)'
        BY <1>0, <1>3, <4>1, <4>3 DEF ToPage
      <4>5. ToCache(d)
        BY <3>1, <4>3 DEF ToCache, Settled, Passed
      <4>6. QED
        BY <1>2, <4>4, <4>5 DEF Meet, CacheKept
    <3>2. CASE Settled /\ cached = 0
      BY <1>2, <3>2 DEF Meet, CacheKept
    <3>3. CASE ~(Settled /\ k = cached)
      BY <1>0, <1>3, <2>2, <3>3 DEF Meet
    <3>4. QED
      BY <3>1, <3>2, <3>3
  <2>3. QED
    BY <2>1, <2>2
<1>6. QED
  BY <1>4, <1>5 DEF StreamInv

\* The steps of another page.
LEMMA KeptOthers ==
    ASSUME CatalogTypeOK, NEW p \in Pages, StreamInv(p), NEW q \in Pages \ {p}, StreamSteps(q)
    PROVE  StreamInv(p)'
<1>1. /\ p \in Receivers /\ q \in Receivers /\ Watcher \in Receivers
      /\ p # Watcher /\ q # Watcher /\ p # q
  BY Typed
<1>2. /\ \A k \in Catalogs : owed'[k] \subseteq owed[k]
      /\ \A k \in Catalogs : p \in owed'[k] <=> p \in owed[k]
      /\ \A k \in Catalogs : Watcher \in owed'[k] <=> Watcher \in owed[k]
  <2>1. CASE UNCHANGED owed
    BY <2>1
  <2>2. CASE owed' = [k \in Catalogs |-> owed[k] \ {q}]
    BY <1>1, <2>2
  <2>3. QED
    BY <2>1, <2>2
    DEF StreamSteps, OpenStream, SendCached, Forward, Hear, Disconnect, LoadTools, ToolsLoaded
<1>3. cached' = cached
  BY DEF StreamSteps, OpenStream, SendCached, Forward, Hear, Disconnect, LoadTools, ToolsLoaded,
         watchVars
<1>4. channel'[p] = channel[p] /\ channel'[Watcher] = channel[Watcher]
  BY <1>1 DEF StreamSteps, OpenStream, SendCached, Forward, Hear, Disconnect, LoadTools,
              ToolsLoaded, CatalogTypeOK
<1>5. stream'[p] = stream[p] /\ wire'[p] = wire[p] /\ tab'[p] = tab[p]
  BY <1>1 DEF StreamSteps, OpenStream, SendCached, Forward, Hear, Disconnect, LoadTools,
              ToolsLoaded, CatalogTypeOK
<1>6. astray'[p] = astray[p] /\ blind'[p] = blind[p] /\ late'[p] = late[p]
  BY <1>1 DEF StreamSteps, OpenStream, SendCached, Forward, Hear, Disconnect, LoadTools,
              ToolsLoaded, CatalogTypeOK, historyVars
<1>7. CacheKept /\ PageKept(p)
  BY <1>2, <1>3, <1>4, <1>5, CacheSame, PageSame
<1>8. QED
  BY <1>2, <1>5, <1>6, <1>7, Kept

\* A stream is subscribed while its channel or a broadcast has entries for its page.
LEMMA ShapeKept == CatalogTypeOK /\ Shape /\ [CatalogNext]_catalogVars => Shape'
<1> SUFFICES ASSUME CatalogTypeOK, Shape, [CatalogNext]_catalogVars PROVE Shape'
  OBVIOUS
<1>0. /\ channel \in [Receivers -> Seq(CatalogEntry)] /\ owed \in [Catalogs -> SUBSET Receivers]
      /\ stream \in [Pages -> {"closed", "subscribed", "streaming"}]
      /\ wire \in [Pages -> Seq(CatalogEntry)] /\ blind \in [Pages -> BOOLEAN]
      /\ Pages \subseteq Receivers /\ Watcher \in Receivers /\ Watcher \notin Pages
  BY FeedConstants, FeedAssumption DEF CatalogTypeOK, FeedFacts
<1>1. ASSUME UNCHANGED <<owed, stream, wire, blind>>,
             \A p \in Pages : channel'[p] = channel[p]
      PROVE  Shape'
  BY <1>1 DEF Shape
<1>2. CASE LogCatalog \/ Watch \/ Save \/ UNCHANGED catalogVars \/ LogOther(Watcher)
  <2>1. UNCHANGED <<owed, stream, wire, blind>>
    BY <1>2 DEF LogCatalog, Watch, Save, OpenFile, WriteFile, SaveFails, LogOther, catalogVars,
                pageVars, historyVars
  <2>2. \A p \in Pages : channel'[p] = channel[p]
    BY <1>0, <1>2 DEF LogCatalog, Watch, Save, OpenFile, WriteFile, SaveFails, LogOther, catalogVars
  <2>3. QED
    BY <1>1, <2>1, <2>2
<1>3. ASSUME NEW q \in Pages, LogOther(q) PROVE Shape'
  <2>1. /\ UNCHANGED <<owed, stream, wire, blind>> /\ stream[q] # "closed"
        /\ channel' = [channel EXCEPT ![q] = Append(channel[q], 0)]
    BY <1>0, <1>3 DEF LogOther, Listening, pageVars, historyVars
  <2>2. channel'[q] = Append(channel[q], 0) /\ \A p \in Pages : p # q => channel'[p] = channel[p]
    BY <1>0, <2>1
  <2>3. NoCatalog(channel[q]) => NoCatalog(channel'[q])
    <3>1. channel[q] \in Seq(Nat)
      BY Typed
    <3>2. QED
      BY <2>2, <3>1, NoneAppend
  <2>4. QED
    BY <2>1, <2>2, <2>3 DEF Shape
<1>4. ASSUME NEW k \in Catalogs, Begin(k) PROVE Shape'
  <2>1. /\ UNCHANGED <<channel, stream, wire, blind>>
        /\ owed' = [owed EXCEPT ![k] = {p \in Pages : Listening(p)} \cup {Watcher}]
    BY <1>4 DEF Begin, pageVars
  <2>2. ASSUME NEW p \in Pages, stream[p] = "closed" PROVE \A j \in Catalogs : p \notin owed'[j]
    BY <1>0, <2>1, <2>2 DEF Shape, Listening
  <2>3. QED
    BY <2>1, <2>2 DEF Shape
<1>5. ASSUME NEW k \in Catalogs, NEW r \in Receivers, Deliver(k, r) PROVE Shape'
  <2>1. /\ UNCHANGED <<stream, wire>> /\ r \in owed[k]
        /\ \A j \in Catalogs : owed'[j] \subseteq owed[j]
    BY <1>0, <1>5 DEF Deliver, pageVars
  <2>2. \A p \in Pages : /\ p # r => channel'[p] = channel[p] /\ blind'[p] = blind[p]
                         /\ p = r => \/ ~blind'[p]
                                     \/ channel'[p] = channel[p] /\ blind'[p] = blind[p]
    BY <1>0, <1>5 DEF Deliver
  <2>3. \A p \in Pages : stream[p] = "closed" => p # r
    BY <2>1 DEF Shape
  <2>4. QED
    BY <2>1, <2>2, <2>3 DEF Shape
<1>6. CASE Restart
  BY <1>0, <1>6 DEF Restart, RestartWith, Shape
<1>7. ASSUME NEW q \in Pages, StreamSteps(q) PROVE Shape'
  <2>1. ASSUME \A p \in Pages : p # q =>
                   /\ channel'[p] = channel[p] /\ stream'[p] = stream[p]
                   /\ wire'[p] = wire[p] /\ blind'[p] = blind[p],
               \A j \in Catalogs : owed'[j] \subseteq owed[j],
               stream'[q] = "closed" =>
                   channel'[q] = <<>> /\ \A k \in Catalogs : q \notin owed'[k],
               stream'[q] # "streaming" => wire'[q] = <<>>,
               stream'[q] = "subscribed" /\ blind'[q] => NoCatalog(channel'[q])
        PROVE  Shape'
    BY <2>1 DEF Shape
  <2>2. CASE OpenStream(q)
    <3>1. NoCatalog(<<>>)
      <4>1. Len(<<>>) = 0
        OBVIOUS
      <4>2. QED
        BY <4>1 DEF NoCatalog
    <3>2. QED
      BY <1>0, <2>1, <2>2, <3>1 DEF OpenStream, Shape
  <2>3. CASE SendCached(q)
    BY <1>0, <2>1, <2>3 DEF SendCached, Shape
  <2>4. CASE Forward(q)
    BY <1>0, <2>1, <2>4 DEF Forward, historyVars, Shape
  <2>5. CASE Hear(q)
    BY <1>0, <2>1, <2>5 DEF Hear, Shape
  <2>6. CASE Disconnect(q)
    BY <1>0, <2>1, <2>6 DEF Disconnect, Shape
  <2>7. CASE LoadTools(q) \/ \E k \in CatalogEntry : ToolsLoaded(q, k)
    BY <1>0, <2>1, <2>7 DEF LoadTools, ToolsLoaded, historyVars, Shape
  <2>8. QED
    BY <1>7, <2>2, <2>3, <2>4, <2>5, <2>6, <2>7 DEF StreamSteps
<1>8. QED
  BY <1>2, <1>3, <1>4, <1>5, <1>6, <1>7
  DEF CatalogNext, Send, Serve, StreamSteps, Receivers

LEMMA StreamKept ==
    ASSUME CatalogTypeOK, Shape, NEW p \in Pages, StreamInv(p), [CatalogNext]_catalogVars
    PROVE  StreamInv(p)'
<1>1. CASE LogCatalog \/ Save \/ UNCHANGED catalogVars \/ LoadTools(p)
  <2>1. UNCHANGED <<owed, channel, cached, stream, wire, tab, astray, blind, late>>
    BY <1>1 DEF LogCatalog, Save, OpenFile, WriteFile, SaveFails, LoadTools, catalogVars,
                watchVars, pageVars, historyVars
  <2>2. CacheKept /\ PageKept(p)
    BY <2>1, CacheSame, PageSame
  <2>3. QED
    BY <2>1, <2>2, Kept
<1>2. CASE Restart \/ Disconnect(p)
  <2>1. stream'[p] = "closed"
    BY <1>2 DEF Restart, RestartWith, Disconnect, CatalogTypeOK
  <2>2. QED
    BY <2>1, NoStream
<1>3. ASSUME NEW k \in Catalogs, NEW r \in Receivers, Deliver(k, r) PROVE StreamInv(p)'
  BY <1>3, KeptToWatcher, KeptToPage, KeptToOther DEF Receivers
<1>4. QED
  BY <1>1, <1>2, <1>3, KeptLogOther, KeptWatch, KeptBegin, KeptOpenStream, KeptSendCached,
     KeptForward, KeptHear, KeptToolsLoaded, KeptOthers
  DEF CatalogNext, Send, Serve, StreamSteps

\* The inductive invariant: while no two broadcasts overlap and none is dropped, what is
\* on its way to the cache and what is on its way to a page end in the same catalog,
\* wherever the two of them are: broadcast, waiting in a channel, written or shown
\* (logger.go:54-81, server.go:158-251, index.html:2735-2740).
THEOREM CatalogInductive == CatalogSpec => []CatalogInv
<1>1. CatalogInit => CatalogInv
  <2> SUFFICES ASSUME CatalogInit PROVE CatalogInv
    OBVIOUS
  <2>1. \A p \in Pages : /\ stream[p] = "closed" /\ channel[p] = <<>> /\ wire[p] = <<>>
                         /\ \A k \in Catalogs : p \notin owed[k]
    BY DEF CatalogInit, Receivers
  <2>2. Shape
    BY <2>1 DEF Shape
  <2>3. \A p \in Pages : StreamInv(p)
    BY <2>1 DEF StreamInv, Alone, Ready, Meet
  <2>4. QED
    BY <2>2, <2>3, CatalogTypeInit DEF CatalogInv
<1>2. CatalogInv /\ [CatalogNext]_catalogVars => CatalogInv'
  <2> SUFFICES ASSUME CatalogInv, [CatalogNext]_catalogVars PROVE CatalogInv'
    OBVIOUS
  <2>1. CatalogTypeOK'
    <3>1. CASE UNCHANGED catalogVars
      BY <3>1 DEF CatalogInv, CatalogTypeOK, catalogVars, loggerVars, watchVars, pageVars,
                  historyVars
    <3>2. QED
      BY <3>1, TypedLog, TypedWatch, TypedPage, TypedRestart
      DEF CatalogInv, CatalogNext, Serve, StreamSteps
  <2>2. Shape'
    BY ShapeKept DEF CatalogInv
  <2>3. \A p \in Pages : StreamInv(p)'
    BY StreamKept DEF CatalogInv
  <2>4. QED
    BY <2>1, <2>2, <2>3 DEF CatalogInv
<1>3. QED
  BY <1>1, <1>2, PTL DEF CatalogSpec

\* When nothing more is on its way, a page with an open stream shows the catalog the
\* server has cached, unless broadcasts overlapped, a full channel dropped a catalog, or
\* the page was last given a cached catalog that another was about to replace
\* (server.go:187-206).
THEOREM StreamBrings == CatalogSpec => []StreamUpToDate
<1>1. CatalogInv => StreamUpToDate
  <2> SUFFICES ASSUME CatalogInv, NEW p \in Pages, Quiet(p), Settled, Passed(p), cached # 0,
                      ~astray[p], ~blind[p], ~late[p]
               PROVE  tab[p] = cached
    BY DEF StreamUpToDate, Passed
  <2>1. Way(p) = <<>> /\ NoCatalog(Way(p))
    <3>1. <<>> \o <<>> = <<>> /\ Len(<<>>) = 0
      OBVIOUS
    <3>2. QED
      BY <3>1 DEF Quiet, Way, NoCatalog
  <2>2. PICK d \in Catalogs : ToCache(d) /\ ToPage(p, d)
    BY DEF CatalogInv, StreamInv, Meet, Quiet
  <2>3. Brings(channel[Watcher], cached, d) /\ NoCatalog(channel[Watcher])
    BY <2>2 DEF ToCache, Settled
  <2>4. Brings(Way(p), tab[p], d)
    BY <2>2 DEF ToPage, Passed
  <2>5. QED
    BY <2>1, <2>3, <2>4, BringsNone
<1>2. QED
  BY <1>1, CatalogInductive, PTL

-----------------------------------------------------------------------------
(* What becomes of the entries on a page: LogView.                           *)

\* The live log, which is put away while a snapshot is shown.
LiveEntries == IF mode = Live THEN entries ELSE saved.entries
LiveFeed == IF mode = Live THEN feed ELSE saved.feed
LiveShown(k) == IF mode = Live THEN shown[k] ELSE saved.shown[k]

ViewTyped ==
    /\ arrived \in Nat /\ mode \in Source /\ nested \in BOOLEAN
    /\ entries \in Seq(ViewEntry) /\ pending \in Seq(ViewEntry) /\ heard \in Seq(ViewEntry)
    /\ feed \in Seq(ViewEntry)
    /\ saved.entries \in Seq(ViewEntry) /\ saved.feed \in Seq(ViewEntry)
    /\ saved.shown \in Shown
    /\ shown \in Shown
    /\ latest \in [Tabs -> Nat] /\ taken \in [Tabs -> Nat]

AllFrom(q, s) == \A i \in 1..Len(q) : q[i][1] = s

Unmixed ==
    mode # Live => AllFrom(entries, mode) /\ AllFrom(feed, mode) /\ AllFrom(pending, mode)

LiveKept ==
    ~nested => /\ LiveEntries = Newest(MAX, heard)
               /\ \A k \in Tabs : LiveShown(k) = <<Live, taken[k]>>

Rises(q) == \A i, j \in 1..Len(q) : i < j => q[i][2] < q[j][2]

Tracked ==
    ToSet(LiveEntries) \cup ToSet(LiveFeed) \cup ToSet(pending) \cup swallowed \cup stray

\* Entries and elements are in the order the entries came in, which are numbered so.
FeedRises ==
    /\ Rises(LiveEntries) /\ Rises(LiveFeed) /\ Rises(pending)
    /\ \A e \in ToSet(LiveFeed), d \in ToSet(pending) : e[2] < d[2]
    /\ \A e \in Tracked : e \in ViewEntry /\ e[2] <= arrived

\* An entry has its element or waits for it or was swallowed; an element has its entry
\* or strayed.
FeedMatches ==
    /\ ToSet(LiveEntries) \subseteq ToSet(LiveFeed) \cup ToSet(pending) \cup swallowed
    /\ ToSet(LiveFeed) \cup ToSet(pending) \subseteq (ToSet(LiveEntries) \ swallowed) \cup stray
    /\ ToSet(pending) \cap swallowed = {}
    /\ ToSet(LiveEntries) \cap stray = {}

FeedKept ==
    /\ mode # Live => pending = <<>>
    /\ ~nested => FeedRises /\ FeedMatches

ViewInv == ViewTyped /\ Unmixed /\ LiveKept

\* What Keep keeps, and in what order.
LEMMA KeptElements ==
    ASSUME NEW S, NEW q \in Seq(S), NEW T
    PROVE  /\ Keep(q, T) \in Seq(S)
           /\ ToSet(Keep(q, T)) = ToSet(q) \cap T
           /\ Rises(q) => Rises(Keep(q, T))
<1> DEFINE at == {i \in 1..Len(q) : q[i] \in T}
           Upto(i) == {j \in at : j <= i}
           Rank(i) == Cardinality(Upto(i))
           c == Cardinality(at)
           idx(n) == CHOOSE i \in at : Rank(i) = n
           kept == [n \in 1..c |-> q[idx(n)]]
<1>1. IsFiniteSet(at) /\ c \in Nat /\ at \subseteq 1..Len(q) /\ Len(q) \in Nat
  <2>1. Len(q) \in Nat /\ IsFiniteSet(1..Len(q)) /\ at \in SUBSET (1..Len(q))
    BY FS_Interval
  <2>2. IsFiniteSet(at)
    BY <2>1, FS_Subset
  <2>3. QED
    BY <2>1, <2>2, FS_CardinalityType
<1>2. ASSUME NEW i \in at
      PROVE  /\ IsFiniteSet(Upto(i)) /\ Rank(i) \in 1..c
             /\ Upto(i) \subseteq at /\ i \in Upto(i)
  <2>1. Upto(i) \in SUBSET at /\ i \in Upto(i)
    BY <1>1
  <2>2. IsFiniteSet(Upto(i)) /\ Rank(i) <= c
    BY <1>1, <2>1, FS_Subset
  <2>3. Rank(i) \in Nat /\ Rank(i) # 0
    BY <2>1, <2>2, FS_CardinalityType, FS_EmptySet
  <2>4. QED
    BY <1>1, <2>1, <2>2, <2>3
<1>3. ASSUME NEW i \in at, NEW j \in at, i < j PROVE Rank(i) < Rank(j)
  <2>1. /\ Upto(i) \in SUBSET Upto(j) /\ j \in Upto(j) /\ j \notin Upto(i)
    BY <1>1, <1>2, <1>3
  <2>2. Rank(i) <= Rank(j) /\ Rank(i) # Rank(j)
    BY <1>2, <2>1, FS_Subset
  <2>3. Rank(i) \in 1..c /\ Rank(j) \in 1..c
    BY <1>2
  <2> HIDE DEF Rank, at
  <2>4. QED
    BY <1>1, <2>2, <2>3
<1>4. ASSUME NEW n \in 1..c PROVE \E i \in at : Rank(i) = n
  <2> DEFINE f == [i \in at |-> Rank(i)]
  <2>1. f \in Injection(at, 1..c)
    <3>1. f \in [at -> 1..c]
      BY <1>2
    <3>2. ASSUME NEW i \in at, NEW j \in at, Rank(i) = Rank(j) PROVE i = j
      <4>1. i < j \/ j < i \/ i = j
        BY <1>1
      <4>2. Rank(i) \in 1..c /\ Rank(j) \in 1..c
        BY <1>2
      <4>3. (i < j => Rank(i) < Rank(j)) /\ (j < i => Rank(j) < Rank(i))
        BY <1>3
      <4> HIDE DEF at, Rank
      <4>4. QED
        BY <1>1, <3>2, <4>1, <4>2, <4>3
    <3> HIDE DEF at, Rank
    <3>3. \A a, b \in at : f[a] = f[b] => a = b
      BY <3>2
    <3>4. QED
      BY <3>1, <3>3 DEF Injection, IsInjective
  <2> HIDE DEF f
  <2>2. IsFiniteSet(1..c) /\ Cardinality(1..c) = c
    BY <1>1, FS_Interval
  <2> HIDE DEF at, Rank
  <2>3. f \in Surjection(at, 1..c)
    BY <1>1, <2>1, <2>2, FS_Injection
  <2>4. PICK i \in at : f[i] = n
    BY <2>3 DEF Surjection
  <2>5. QED
    BY <2>4 DEF f
<1>5. ASSUME NEW n \in 1..c PROVE idx(n) \in at /\ Rank(idx(n)) = n
  <2> HIDE DEF at, Rank
  <2>1. QED
    BY <1>4
<1>6. kept \in Seq(S) /\ Len(kept) = c /\ \A n \in 1..c : kept[n] = q[idx(n)]
  <2> HIDE DEF at, idx, Rank, c
  <2>1. \A i \in 1..Len(q) : q[i] \in S
    OBVIOUS
  <2>2. \A n \in 1..c : q[idx(n)] \in S
    BY <1>1, <1>5, <2>1
  <2>3. QED
    BY <1>1, <2>2
<1>7. ToSet(kept) = ToSet(q) \cap T
  <2>0. DOMAIN q = 1..Len(q) /\ DOMAIN kept = 1..c
    OBVIOUS
  <2>1. ASSUME NEW e \in ToSet(kept) PROVE e \in ToSet(q) \cap T
    <3>1. PICK n \in 1..c : e = q[idx(n)]
      BY <1>6, <2>0 DEF ToSet
    <3>2. idx(n) \in 1..Len(q) /\ q[idx(n)] \in T
      BY <1>5
    <3>3. QED
      BY <2>0, <3>1, <3>2 DEF ToSet
  <2>2. ASSUME NEW e \in ToSet(q) \cap T PROVE e \in ToSet(kept)
    <3>1. PICK i \in 1..Len(q) : e = q[i]
      BY <2>0 DEF ToSet
    <3>2. i \in at /\ Rank(i) \in 1..c
      BY <1>2, <3>1
    <3>3. idx(Rank(i)) \in at /\ Rank(idx(Rank(i))) = Rank(i)
      BY <1>5, <3>2
    <3> HIDE DEF Rank, idx
    <3>4. idx(Rank(i)) = i
      <4>1. idx(Rank(i)) < i \/ i < idx(Rank(i)) \/ idx(Rank(i)) = i
        BY <1>1, <3>2, <3>3
      <4>2. QED
        BY <1>2, <1>3, <3>2, <3>3, <4>1
    <3>5. kept[Rank(i)] = e
      BY <1>6, <3>1, <3>2, <3>4
    <3> HIDE DEF kept
    <3>6. QED
      BY <2>0, <3>2, <3>5 DEF ToSet
  <2>3. QED
    BY <2>1, <2>2
<1>8. ASSUME Rises(q), NEW n \in 1..c, NEW m \in 1..c, n < m PROVE kept[n][2] < kept[m][2]
  <2>1. /\ idx(n) \in at /\ Rank(idx(n)) = n /\ idx(m) \in at /\ Rank(idx(m)) = m
    BY <1>5
  <2> HIDE DEF Rank, idx
  <2>2. idx(n) < idx(m)
    <3>1. idx(n) < idx(m) \/ idx(m) < idx(n) \/ idx(m) = idx(n)
      BY <1>1, <2>1
    <3>2. CASE idx(m) < idx(n)
      <4>1. m < n
        BY <1>3, <2>1, <3>2
      <4>2. QED
        BY <1>1, <1>8, <4>1
    <3>3. idx(m) # idx(n)
      BY <1>1, <1>8, <2>1
    <3>4. QED
      BY <3>1, <3>2, <3>3
  <2>3. q[idx(n)][2] < q[idx(m)][2]
    BY <1>1, <1>8, <2>1, <2>2 DEF Rises
  <2>4. QED
    BY <1>6, <2>3
<1>9. Keep(q, T) = kept
  BY DEF Keep
<1> HIDE DEF kept, c, at
<1>10. QED
  BY <1>6, <1>7, <1>8, <1>9 DEF Rises

\* Of two rising sequences, one of whose elements are the other's, no element comes
\* later in the first.
LEMMA RiseInto ==
    ASSUME NEW S, \A e \in S : e[2] \in Nat,
           NEW q \in Seq(S), NEW r \in Seq(S), Rises(q), Rises(r),
           ToSet(q) \subseteq ToSet(r),
           NEW i \in 1..Len(q), NEW j \in 1..Len(r), q[i] = r[j]
    PROVE  i <= j
<1> DEFINE f == [k \in 1..i |-> CHOOSE m \in 1..Len(r) : r[m] = q[k]]
<1>0. DOMAIN q = 1..Len(q) /\ DOMAIN r = 1..Len(r) /\ Len(q) \in Nat /\ Len(r) \in Nat
  OBVIOUS
<1>1. ASSUME NEW k \in 1..i PROVE f[k] \in 1..j /\ r[f[k]] = q[k]
  <2>1. k \in 1..Len(q) /\ q[k] \in ToSet(q)
    BY <1>0 DEF ToSet
  <2>2. \E m \in 1..Len(r) : r[m] = q[k]
    BY <1>0, <2>1 DEF ToSet
  <2>3. f[k] \in 1..Len(r) /\ r[f[k]] = q[k]
    BY <2>2
  <2> HIDE DEF f
  <2>4. ~(j < f[k])
    <3> SUFFICES ASSUME j < f[k] PROVE FALSE
      OBVIOUS
    <3>1. r[j][2] < r[f[k]][2]
      BY <2>3 DEF Rises
    <3>2. k < i \/ k = i
      OBVIOUS
    <3>3. q[k][2] < q[i][2] \/ q[k][2] = q[i][2]
      BY <2>1, <3>2 DEF Rises
    <3>4. q[k][2] \in Nat /\ q[i][2] \in Nat
      BY <2>1
    <3>5. QED
      BY <2>3, <3>1, <3>3, <3>4
  <2>5. QED
    BY <2>3, <2>4
<1> HIDE DEF f
<1>2. f \in Injection(1..i, 1..j)
  <2>1. f \in [1..i -> 1..j]
    BY <1>1 DEF f
  <2>2. ASSUME NEW a \in 1..i, NEW b \in 1..i, f[a] = f[b] PROVE a = b
    <3>1. q[a] = q[b] /\ a \in 1..Len(q) /\ b \in 1..Len(q)
      BY <1>1, <2>2
    <3>2. q[a][2] \in Nat
      BY <3>1
    <3>3. a < b \/ b < a \/ a = b
      OBVIOUS
    <3>4. ~(a < b) /\ ~(b < a)
      <4>1. a < b => q[a][2] < q[b][2]
        BY <3>1 DEF Rises
      <4>2. b < a => q[b][2] < q[a][2]
        BY <3>1 DEF Rises
      <4>3. QED
        BY <3>1, <3>2, <4>1, <4>2
    <3>5. QED
      BY <3>3, <3>4
  <2>3. QED
    BY <2>1, <2>2 DEF Injection, IsInjective
<1>3. /\ IsFiniteSet(1..j) /\ Cardinality(1..j) = j /\ Cardinality(1..i) = i
  BY FS_Interval
<1>4. QED
  BY <1>2, <1>3, FS_Injection

\* A rising sequence is known by its elements.
LEMMA SameRise ==
    ASSUME NEW S, \A e \in S : e[2] \in Nat,
           NEW q \in Seq(S), NEW r \in Seq(S), Rises(q), Rises(r), ToSet(q) = ToSet(r)
    PROVE  q = r
<1>0. DOMAIN q = 1..Len(q) /\ DOMAIN r = 1..Len(r) /\ Len(q) \in Nat /\ Len(r) \in Nat
  OBVIOUS
<1>1. ASSUME NEW i \in 1..Len(q) PROVE i \in 1..Len(r) /\ q[i] = r[i]
  <2>1. PICK j \in 1..Len(r) : q[i] = r[j]
    BY <1>0 DEF ToSet
  <2>2. i <= j /\ j <= i
    BY <2>1, RiseInto
  <2>3. QED
    BY <2>1, <2>2
<1>2. ASSUME NEW j \in 1..Len(r) PROVE j \in 1..Len(q)
  <2>1. PICK i \in 1..Len(q) : q[i] = r[j]
    BY <1>0 DEF ToSet
  <2>2. i <= j /\ j <= i
    BY <2>1, RiseInto
  <2>3. QED
    BY <2>1, <2>2
<1>3. Len(q) = Len(r)
  <2>1. ~(Len(r) < Len(q))
    <3>1. Len(r) < Len(q) => Len(q) \in 1..Len(q) /\ Len(q) \notin 1..Len(r)
      BY <1>0
    <3>2. QED
      BY <1>1, <3>1
  <2>2. ~(Len(q) < Len(r))
    <3>1. Len(q) < Len(r) => Len(r) \in 1..Len(r) /\ Len(r) \notin 1..Len(q)
      BY <1>0
    <3>2. QED
      BY <1>2, <3>1
  <2>3. Len(q) \in Nat /\ Len(r) \in Nat
    OBVIOUS
  <2>4. QED
    BY <2>1, <2>2, <2>3
<1>4. QED
  BY <1>1, <1>3, SeqEqual

\* The oldest entry giving way, the log keeps the newest ones.
LEMMA NewestAppend ==
    ASSUME NEW S, NEW q \in Seq(S), NEW e \in S, NEW n \in Nat \ {0}
    PROVE  LET new == Append(Newest(n, q), e)
           IN  (IF Len(new) > n THEN Tail(new) ELSE new) = Newest(n, Append(q, e))
<1> SUFFICES ASSUME NEW new, new = Append(Newest(n, q), e)
             PROVE  (IF Len(new) > n THEN Tail(new) ELSE new) = Newest(n, Append(q, e))
  OBVIOUS
<1> DEFINE whole == Append(q, e)
<1>1. /\ whole \in Seq(S) /\ Len(whole) = Len(q) + 1 /\ whole[Len(q) + 1] = e
      /\ \A i \in 1..Len(q) : whole[i] = q[i]
      /\ Len(q) \in Nat
  BY AppendProperties
<1> HIDE DEF whole
<1>2. CASE Len(q) < n
  <2>1. Newest(n, q) = q /\ Newest(n, whole) = whole
    BY <1>1, <1>2 DEF Newest
  <2>2. new = whole
    BY <2>1 DEF whole
  <2>3. QED
    BY <1>1, <1>2, <2>1, <2>2 DEF whole
<1>3. CASE Len(q) = n
  <2>1. Newest(n, q) = q /\ Newest(n, whole) = SubSeq(whole, 2, Len(whole))
    BY <1>1, <1>3 DEF Newest
  <2>2. new = whole
    BY <2>1 DEF whole
  <2>3. Tail(whole) = SubSeq(whole, 2, Len(whole))
    BY <1>1, TailIsSubSeq
  <2>4. QED
    BY <1>1, <1>3, <2>1, <2>2, <2>3 DEF whole
<1>4. CASE Len(q) > n
  <2> DEFINE a == Len(q) - n
             old == SubSeq(q, a + 1, Len(q))
             right == SubSeq(whole, a + 2, Len(whole))
  <2>0. Len(whole) = Len(q) + 1 /\ Len(q) \in Nat
    BY <1>1
  <2>1. Newest(n, q) = old /\ Newest(n, whole) = right
    BY <1>1, <1>4 DEF Newest
  <2>2. a \in Nat /\ a + 1 \in 1..Len(q) + 1 /\ a + 2 \in 1..Len(whole) + 1
    BY <1>1, <1>4
  <2>3. /\ old \in Seq(S) /\ Len(old) = n /\ \A i \in 1..n : old[i] = q[a + i]
    <3>1. /\ SubSeq(q, a + 1, Len(q)) \in Seq(S)
          /\ Len(SubSeq(q, a + 1, Len(q))) = Len(q) - (a + 1) + 1
          /\ \A i \in 1..Len(q) - (a + 1) + 1 :
                SubSeq(q, a + 1, Len(q))[i] = q[(a + 1) + i - 1]
      BY <1>1, <1>4, <2>2, SubSeqProperties
    <3>2. Len(q) - (a + 1) + 1 = n /\ \A i \in 1..n : (a + 1) + i - 1 = a + i
      BY <2>0
    <3>3. QED
      BY <3>1, <3>2
  <2>4. /\ right \in Seq(S) /\ Len(right) = n /\ \A i \in 1..n : right[i] = whole[a + 1 + i]
    <3>1. /\ SubSeq(whole, a + 2, Len(whole)) \in Seq(S)
          /\ Len(SubSeq(whole, a + 2, Len(whole))) = Len(whole) - (a + 2) + 1
          /\ \A i \in 1..Len(whole) - (a + 2) + 1 :
                SubSeq(whole, a + 2, Len(whole))[i] = whole[(a + 2) + i - 1]
      BY <1>1, <1>4, <2>2, SubSeqProperties
    <3>2. Len(whole) - (a + 2) + 1 = n /\ \A i \in 1..n : (a + 2) + i - 1 = a + 1 + i
      BY <2>0
    <3>3. right \in Seq(S) /\ Len(right) = n
      BY <3>1, <3>2
    <3>4. ASSUME NEW i \in 1..n PROVE right[i] = whole[a + 1 + i]
      BY <3>1, <3>2
    <3>5. QED
      BY <3>3, <3>4
  <2> HIDE DEF old, right
  <2>5. /\ new \in Seq(S) /\ Len(new) = n + 1 /\ new[n + 1] = e
        /\ \A i \in 1..n : new[i] = old[i]
    BY <2>1, <2>3, AppendProperties
  <2>6. /\ Tail(new) \in Seq(S) /\ Len(Tail(new)) = n
        /\ \A i \in 1..n : Tail(new)[i] = new[i + 1]
    BY <2>5, HeadTailProperties
  <2>7. ASSUME NEW i \in 1..n PROVE Tail(new)[i] = right[i]
    <3>1. CASE i = n
      <4>1. Tail(new)[i] = e /\ right[i] = whole[a + 1 + n] /\ a + 1 + n = Len(q) + 1
        BY <1>1, <2>4, <2>5, <2>6, <3>1
      <4>2. QED
        BY <1>1, <4>1
    <3>2. CASE i < n
      <4>0. i + 1 \in 1..n /\ i \in 1..n
        BY <3>2
      <4>1. Tail(new)[i] = q[a + (i + 1)] /\ right[i] = whole[a + 1 + i]
        BY <2>3, <2>4, <2>5, <2>6, <4>0
      <4>2. a + (i + 1) = a + 1 + i /\ a + 1 + i \in 1..Len(q)
        BY <1>1, <2>2, <3>2
      <4>3. QED
        BY <1>1, <4>1, <4>2
    <3>3. i = n \/ i < n
      OBVIOUS
    <3>4. QED
      BY <3>1, <3>2, <3>3, Zenon
  <2>8. Tail(new) = right
    BY <2>4, <2>6, <2>7, SeqEqual
  <2>9. QED
    BY <2>1, <2>5, <2>8 DEF whole
<1>5. QED
  BY <1>1, <1>2, <1>3, <1>4

LEMMA ViewInvInit == ASSUME ViewInit PROVE ViewInv
<1> USE LogViewAssumption DEF ViewInit
<1>1. <<>> \in Seq(ViewEntry) /\ Len(<<>>) = 0
  OBVIOUS
<1>2. Initially \in Shown
  BY DEF Initially, Shown, Source
<1>3. saved.entries = <<>> /\ saved.feed = <<>> /\ saved.shown = Initially
  BY DEF NotSaved
<1>4. ViewTyped
  BY <1>1, <1>2, <1>3 DEF ViewTyped, Source
<1>5. Unmixed
  BY DEF Unmixed
<1>6. LiveKept
  <2>1. Newest(MAX, <<>>) = <<>>
    BY <1>1 DEF Newest
  <2>2. \A k \in Tabs : shown[k] = <<Live, taken[k]>>
    BY DEF Initially
  <2>3. QED
    BY <2>1, <2>2 DEF LiveKept, LiveEntries, LiveShown
<1>7. QED
  BY <1>4, <1>5, <1>6 DEF ViewInv

\* What an entry does to the live log, and nothing while a snapshot is shown.
LEMMA Enqueued ==
    ASSUME ViewInv, Arrive, UNCHANGED <<mode, saved, nested>>
    PROVE  /\ arrived' \in Nat
           /\ entries' \in Seq(ViewEntry) /\ pending' \in Seq(ViewEntry)
           /\ heard' \in Seq(ViewEntry) /\ feed' \in Seq(ViewEntry)
           /\ mode # Live => UNCHANGED <<entries, pending, feed, heard>>
           /\ ~nested => LiveEntries' = Newest(MAX, heard')
<1> USE DEF Arrive, Enqueue, ViewInv, ViewTyped
<1> DEFINE e == <<Live, arrived + 1>>
           new == Append(entries, e)
<1>1. arrived' \in Nat /\ e \in ViewEntry
  BY LogViewAssumption DEF ViewEntry, Source
<1>2. CASE mode # Live
  <2>1. UNCHANGED <<entries, pending, feed, heard>>
    BY <1>2 DEF logVars
  <2>2. LiveEntries' = LiveEntries
    BY <1>2 DEF LiveEntries
  <2>3. QED
    BY <1>1, <1>2, <2>1, <2>2 DEF LiveKept
<1>3. CASE mode = Live
  <2>1. /\ Evict(new) /\ pending' = Append(pending, e) /\ heard' = Append(heard, e)
    BY <1>3
  <2> HIDE DEF e
  <2>2. /\ new \in Seq(ViewEntry) /\ Len(new) = Len(entries) + 1 /\ Len(entries) \in Nat
        /\ Append(pending, e) \in Seq(ViewEntry) /\ Append(heard, e) \in Seq(ViewEntry)
    BY <1>1, AppendProperties
  <2> HIDE DEF new
  <2>3. Tail(new) \in Seq(ViewEntry)
    <3>1. new # <<>>
      BY <2>2
    <3>2. QED
      BY <2>2, <3>1, HeadTailProperties
  <2>4. entries' = IF Len(new) > MAX THEN Tail(new) ELSE new
    BY <2>1 DEF Evict
  <2>5. entries' \in Seq(ViewEntry)
    BY <2>2, <2>3, <2>4
  <2>6. ASSUME ~nested PROVE entries' = Newest(MAX, heard')
    <3>1. new = Append(Newest(MAX, heard), e)
      BY <1>3, <2>6 DEF LiveKept, LiveEntries, new
    <3>2. heard \in Seq(ViewEntry) /\ e \in ViewEntry /\ MAX \in Nat \ {0}
      BY <1>1, LogViewAssumption
    <3>3. \A q \in Seq(ViewEntry), k \in ViewEntry, n \in Nat \ {0} :
             LET s == Append(Newest(n, q), k)
             IN  (IF Len(s) > n THEN Tail(s) ELSE s) = Newest(n, Append(q, k))
      BY NewestAppend
    <3>4. (IF Len(new) > MAX THEN Tail(new) ELSE new) = Newest(MAX, Append(heard, e))
      BY <3>1, <3>2, <3>3, Zenon
    <3>5. QED
      BY <2>1, <2>4, <3>4
  <2>7. LiveEntries' = entries'
    BY <1>3 DEF LiveEntries
  <2>8. feed' \in Seq(ViewEntry)
    BY <2>1, KeptElements DEF Evict, Without
  <2>9. QED
    BY <1>1, <1>3, <2>1, <2>2, <2>5, <2>6, <2>7, <2>8
<1>4. QED
  BY <1>2, <1>3

\* Data of a tab replaces what it shows; it is the live session's.
LEMMA TabShown ==
    ASSUME ViewInv, NEW k \in Tabs, NEW v \in Nat, Show(k, v),
           UNCHANGED <<mode, saved, nested>>
    PROVE  /\ shown' \in Shown /\ taken' \in [Tabs -> Nat]
           /\ ~nested => \A t \in Tabs : LiveShown(t)' = <<Live, taken'[t]>>
<1> USE DEF Show, ViewInv, ViewTyped
<1>1. <<Live, v>> \in Source \X Nat
  BY DEF Source
<1>2. shown' \in Shown
  BY <1>1 DEF Shown
<1>3. taken' \in [Tabs -> Nat]
  OBVIOUS
<1>4. ASSUME ~nested, NEW t \in Tabs PROVE LiveShown(t)' = <<Live, taken'[t]>>
  <2>1. LiveShown(t) = <<Live, taken[t]>>
    BY <1>4 DEF LiveKept
  <2>2. CASE mode = Live
    BY <2>1, <2>2 DEF LiveShown, Shown
  <2>3. CASE mode # Live
    BY <2>1, <2>3 DEF LiveShown
  <2>4. QED
    BY <2>2, <2>3
<1>5. QED
  BY <1>2, <1>3, <1>4

LEMMA ViewArrive ==
    ASSUME ViewInv,
           HearOther \/ HearCatalog \/ HearReport
    PROVE  ViewInv'
<1> USE DEF HearOther, HearCatalog, HearReport, modeVars, tabVars
<1>1. /\ Arrive /\ UNCHANGED <<mode, saved, nested>>
  OBVIOUS
<1>2. /\ latest' \in [Tabs -> Nat] /\ latest["tools"] + 1 \in Nat
      /\ "tools" \in Tabs
  BY DEF ViewInv, ViewTyped, Tabs
<1>3. /\ shown' \in Shown /\ taken' \in [Tabs -> Nat]
      /\ ~nested => \A t \in Tabs : LiveShown(t)' = <<Live, taken'[t]>>
  <2>1. CASE HearCatalog
    BY <1>1, <1>2, <2>1, TabShown
  <2>2. CASE HearOther \/ HearReport
    BY <1>1, <2>2 DEF ViewInv, ViewTyped, LiveKept, LiveShown
  <2>3. QED
    BY <2>1, <2>2
<1>4. ViewTyped'
  BY <1>1, <1>2, <1>3, Enqueued DEF ViewInv, ViewTyped
<1>5. Unmixed'
  <2>1. mode # Live => UNCHANGED <<entries, pending, feed>>
    BY <1>1, Enqueued
  <2>2. QED
    BY <1>1, <2>1 DEF ViewInv, Unmixed, AllFrom
<1>6. LiveKept'
  BY <1>1, <1>3, Enqueued DEF LiveKept
<1>7. QED
  BY <1>4, <1>5, <1>6 DEF ViewInv

LEMMA ViewTab ==
    ASSUME ViewInv, NEW k \in Tabs, OpenTab(k) \/ Loaded(k)
    PROVE  ViewInv'
<1> USE DEF OpenTab, Loaded, modeVars, logVars, history
<1>1. UNCHANGED <<arrived, entries, pending, feed, mode, saved, latest, heard, nested>>
  OBVIOUS
<1>2. /\ shown' \in Shown /\ taken' \in [Tabs -> Nat]
      /\ ~nested => \A t \in Tabs : LiveShown(t)' = <<Live, taken'[t]>>
  <2>1. CASE Loaded(k)
    <3>1. latest[k] \in Nat /\ Show(k, latest[k])
      BY <2>1 DEF ViewInv, ViewTyped
    <3>2. QED
      BY <1>1, <3>1, TabShown
  <2>2. CASE OpenTab(k)
    BY <1>1, <2>2 DEF ViewInv, ViewTyped, LiveKept, LiveShown
  <2>3. QED
    BY <2>1, <2>2
<1>3. ViewTyped'
  BY <1>1, <1>2 DEF ViewInv, ViewTyped
<1>4. Unmixed'
  BY <1>1 DEF ViewInv, Unmixed, AllFrom
<1>5. LiveKept'
  BY <1>1, <1>2 DEF ViewInv, LiveKept, LiveEntries
<1>6. QED
  BY <1>3, <1>4, <1>5 DEF ViewInv

LEMMA AllFromConcat ==
    ASSUME NEW S, NEW q \in Seq(S), NEW r \in Seq(S), NEW s, AllFrom(q, s), AllFrom(r, s)
    PROVE  AllFrom(q \o r, s)
<1>1. /\ Len(q \o r) = Len(q) + Len(r) /\ Len(q) \in Nat /\ Len(r) \in Nat
      /\ \A i \in 1..Len(q) + Len(r) : (q \o r)[i] = IF i <= Len(q) THEN q[i] ELSE r[i - Len(q)]
  BY ConcatProperties
<1>2. ASSUME NEW i \in 1..Len(q) + Len(r) PROVE (q \o r)[i][1] = s
  <2>1. CASE i <= Len(q)
    BY <1>1, <2>1 DEF AllFrom
  <2>2. CASE i > Len(q)
    <3>1. i - Len(q) \in 1..Len(r)
      BY <1>1, <2>2
    <3>2. QED
      BY <1>1, <2>2, <3>1 DEF AllFrom
  <2>3. QED
    BY <1>1, <2>1, <2>2
<1>3. QED
  BY <1>1, <1>2 DEF AllFrom

LEMMA ViewLog ==
    ASSUME ViewInv, Flush \/ Clear
    PROVE  ViewInv'
<1> USE DEF modeVars, tabVars, history, ViewInv
<1>0. <<>> \in Seq(ViewEntry) /\ Len(<<>>) = 0
  OBVIOUS
<1>1. UNCHANGED <<arrived, mode, saved, shown, latest, taken, nested>>
  BY DEF Flush, Clear
<1>2. CASE Flush
  <2> USE <1>2 DEF Flush
  <2>1. ViewTyped'
    <3>1. feed \o pending \in Seq(ViewEntry)
      BY DEF ViewTyped
    <3>2. QED
      BY <1>0, <1>1, <3>1 DEF ViewTyped
  <2>2. Unmixed'
    <3>1. mode # Live => AllFrom(feed \o pending, mode)
      BY AllFromConcat DEF ViewTyped, Unmixed
    <3>2. AllFrom(<<>>, mode)
      BY <1>0 DEF AllFrom
    <3>3. entries' = entries /\ feed' = feed \o pending /\ pending' = <<>> /\ mode' = mode
      OBVIOUS
    <3>4. mode # Live => AllFrom(entries, mode)
      BY DEF Unmixed
    <3>5. QED
      BY <3>1, <3>2, <3>3, <3>4 DEF Unmixed
  <2>3. LiveKept'
    BY <1>1 DEF LiveKept, LiveEntries, LiveShown
  <2>4. QED
    BY <2>1, <2>2, <2>3
<1>3. CASE Clear
  <2> USE <1>3 DEF Clear
  <2>1. ViewTyped'
    BY <1>0, <1>1 DEF ViewTyped
  <2>2. Unmixed'
    BY <1>0 DEF Unmixed, AllFrom
  <2>3. LiveKept'
    <3>1. Newest(MAX, <<>>) = <<>>
      BY <1>0, LogViewAssumption DEF Newest
    <3>2. QED
      BY <1>1, <3>1 DEF LiveKept, LiveEntries, LiveShown
  <2>4. QED
    BY <2>1, <2>2, <2>3
<1>4. QED
  BY <1>2, <1>3

LEMMA ViewMode ==
    ASSUME ViewInv,
           ExitSnapshotMode \/ \E s \in Snaps : EnterSnapshotMode(s)
    PROVE  ViewInv'
<1> USE DEF ViewInv
<1>1. CASE ExitSnapshotMode
  <2> USE <1>1 DEF ExitSnapshotMode, history
  <2>1. /\ mode' = Live /\ entries' = saved.entries /\ shown' = saved.shown
        /\ UNCHANGED <<arrived, pending, latest, heard, taken, nested>>
        /\ saved' = NotSaved
    OBVIOUS
  <2>2. /\ saved'.entries \in Seq(ViewEntry) /\ saved'.feed \in Seq(ViewEntry)
        /\ saved'.shown \in Shown
    BY <2>1 DEF NotSaved, Initially, Shown, Source
  <2>3. feed' \in Seq(ViewEntry)
    BY KeptElements DEF ViewTyped
  <2>4. ViewTyped'
    BY <2>1, <2>2, <2>3 DEF ViewTyped, Source
  <2>5. Unmixed'
    BY <2>1 DEF Unmixed
  <2>6. LiveKept'
    BY <2>1 DEF LiveKept, LiveEntries, LiveShown
  <2>7. QED
    BY <2>4, <2>5, <2>6
<1>2. ASSUME NEW s \in Snaps, EnterSnapshotMode(s) PROVE ViewInv'
  <2> USE <1>2 DEF EnterSnapshotMode
  <2>1. s \in Source /\ s # Live /\ SnapLength[s] \in Nat
    BY LogViewAssumption DEF Source
  <2>2. /\ EntriesOf(s) \in Seq(ViewEntry) /\ AllFrom(EntriesOf(s), s)
    <3> DEFINE q == [i \in 1..SnapLength[s] |-> <<s, i>>]
    <3>1. \A i \in 1..SnapLength[s] : <<s, i>> \in ViewEntry
      BY <2>1 DEF ViewEntry
    <3>2. q \in Seq(ViewEntry) /\ Len(q) = SnapLength[s]
      BY <2>1, <3>1
    <3>3. \A i \in 1..SnapLength[s] : q[i][1] = s
      OBVIOUS
    <3>4. QED
      BY <3>2, <3>3 DEF EntriesOf, AllFrom
  <2>3. <<>> \in Seq(ViewEntry) /\ AllFrom(<<>>, s)
    BY DEF AllFrom
  <2>4. /\ mode' = s /\ saved'.entries = entries /\ saved'.feed = feed
        /\ saved'.shown = shown
        /\ entries' = EntriesOf(s) /\ feed' = EntriesOf(s) /\ pending' = <<>>
        /\ nested' = (nested \/ mode # Live)
        /\ UNCHANGED <<arrived, latest, heard, taken>>
    OBVIOUS
  <2>5. shown' \in Shown
    BY <2>1 DEF Shown
  <2>6. ViewTyped'
    BY <2>1, <2>2, <2>3, <2>4, <2>5 DEF ViewTyped
  <2>7. Unmixed'
    BY <2>2, <2>3, <2>4 DEF Unmixed
  <2>8. LiveKept'
    BY <2>1, <2>4 DEF LiveKept, LiveEntries, LiveShown
  <2>9. QED
    BY <2>6, <2>7, <2>8
<1>3. QED
  BY <1>1, <1>2

LEMMA ViewInvNext ==
    ASSUME ViewInv, [ViewNext]_viewVars
    PROVE  ViewInv'
<1>1. CASE ViewNext
  BY <1>1, ViewArrive, ViewTab, ViewLog, ViewMode DEF ViewNext
<1>2. CASE UNCHANGED viewVars
  BY <1>2 DEF viewVars, logVars, modeVars, tabVars, history, ViewInv,
              ViewTyped, Unmixed, AllFrom, LiveKept, LiveEntries, LiveShown
<1>3. QED
  BY <1>1, <1>2

\* So does that of the event log: what is put away with the live session is what was live.
THEOREM ViewInductive == ViewSpec => []ViewInv
BY ViewInvInit, ViewInvNext, PTL DEF ViewSpec

\* However entries, frames, tabs and snapshots interleave, the log of a snapshot holds no
\* entry of the live session or of another snapshot (index.html:2388-2389).
THEOREM NeverMixed == ViewSpec => []SnapshotUnmixed
<1>1. ASSUME NEW q \in Seq(ViewEntry), NEW s, AllFrom(q, s), NEW e \in ToSet(q)
      PROVE  e[1] = s
  BY <1>1 DEF ToSet, AllFrom
<1>2. ViewInv => SnapshotUnmixed
  BY <1>1 DEF ViewInv, ViewTyped, Unmixed, SnapshotUnmixed
<1>3. QED
  BY <1>2, ViewInductive, PTL

\* For any bound of the log and any snapshots, leaving a snapshot brings back the newest
\* entries that came while the log was live and what the tabs got last while it was,
\* unless a snapshot was loaded over another (index.html:2315, 4239-4345).
THEOREM LiveComesBack == ViewSpec => []LiveRestored
<1>1. ViewInv => LiveRestored
  BY DEF ViewInv, LiveKept, LiveEntries, LiveShown, LiveRestored
<1>2. QED
  BY <1>1, ViewInductive, PTL

-----------------------------------------------------------------------------
(* The elements of the live log.                                             *)

\* An entry that comes last rises over the others.
LEMMA RiseAppend ==
    ASSUME NEW S, NEW q \in Seq(S), NEW e \in S
    PROVE  /\ ToSet(Append(q, e)) = ToSet(q) \cup {e}
           /\ Rises(q) /\ (\A x \in ToSet(q) : x[2] < e[2]) => Rises(Append(q, e))
<1> DEFINE n == Len(q)
           r == Append(q, e)
<1>1. /\ r \in Seq(S) /\ Len(r) = n + 1 /\ n \in Nat /\ r[n + 1] = e
      /\ \A i \in 1..n : r[i] = q[i]
  BY AppendProperties
<1>2. DOMAIN q = 1..n
  OBVIOUS
<1> HIDE DEF r
<1>3. DOMAIN r = 1..n + 1
  BY <1>1
<1> HIDE DEF n
<1>4. ToSet(r) = ToSet(q) \cup {e}
  <2>1. \A i \in 1..n + 1 : i \in 1..n \/ i = n + 1
    BY <1>1
  <2>2. \A i \in 1..n : i \in 1..n + 1
    BY <1>1
  <2>3. n + 1 \in 1..n + 1
    BY <1>1
  <2>4. QED
    BY <1>1, <1>2, <1>3, <2>1, <2>2, <2>3 DEF ToSet
<1>5. ASSUME Rises(q), \A x \in ToSet(q) : x[2] < e[2],
             NEW i \in 1..n + 1, NEW j \in 1..n + 1, i < j
      PROVE  r[i][2] < r[j][2]
  <2>1. i \in 1..n /\ r[i] = q[i] /\ q[i] \in ToSet(q)
    BY <1>1, <1>2, <1>5 DEF ToSet
  <2>2. j = n + 1 \/ j \in 1..n
    BY <1>1
  <2>3. QED
    BY <1>1, <1>5, <2>1, <2>2 DEF Rises, n
<1>6. QED
  BY <1>1, <1>4, <1>5 DEF Rises, r

\* The first of a rising sequence is not among the others, which rise.
LEMMA RiseTail ==
    ASSUME NEW S, \A e \in S : e[2] \in Nat, NEW q \in Seq(S), q # <<>>, Rises(q)
    PROVE  ToSet(Tail(q)) = ToSet(q) \ {Head(q)} /\ Rises(Tail(q))
<1> DEFINE n == Len(q)
           r == Tail(q)
<1>1. /\ r \in Seq(S) /\ Len(r) = n - 1 /\ n \in Nat /\ n > 0
      /\ \A i \in 1..n - 1 : r[i] = q[i + 1]
      /\ Head(q) = q[1]
  BY HeadTailProperties
<1>2. DOMAIN q = 1..n /\ \A i \in 1..n : q[i] \in S
  OBVIOUS
<1> HIDE DEF r
<1>3. DOMAIN r = 1..n - 1
  BY <1>1
<1>4. \A i, j \in 1..n : i < j => q[i][2] < q[j][2]
  BY DEF Rises
<1> HIDE DEF n
<1>5. \A i \in 1..n - 1 : i + 1 \in 1..n /\ r[i] = q[i + 1] /\ q[i + 1] # q[1]
  <2>1. ASSUME NEW i \in 1..n - 1 PROVE i + 1 \in 1..n /\ 1 \in 1..n /\ 1 < i + 1
    BY <1>1
  <2>2. ASSUME NEW i \in 1..n - 1 PROVE q[1][2] < q[i + 1][2] /\ q[1][2] \in Nat
    BY <1>2, <1>4, <2>1
  <2>3. QED
    BY <1>1, <2>1, <2>2
<1>6. \A i \in 1..n : i = 1 \/ (i - 1 \in 1..n - 1 /\ (i - 1) + 1 = i)
  BY <1>1
<1>7. ToSet(r) = ToSet(q) \ {q[1]}
  <2>1. ASSUME NEW x \in ToSet(r) PROVE x \in ToSet(q) \ {q[1]}
    BY <1>2, <1>3, <1>5 DEF ToSet
  <2>2. ASSUME NEW x \in ToSet(q) \ {q[1]} PROVE x \in ToSet(r)
    <3>1. PICK i \in 1..n : x = q[i]
      BY <1>2 DEF ToSet
    <3>2. i - 1 \in 1..n - 1 /\ r[i - 1] = x
      BY <1>5, <1>6, <2>2, <3>1
    <3>3. QED
      BY <1>3, <3>2 DEF ToSet
  <2>3. QED
    BY <2>1, <2>2
<1>8. ASSUME NEW i \in 1..n - 1, NEW j \in 1..n - 1, i < j PROVE r[i][2] < r[j][2]
  <2>1. i + 1 < j + 1
    BY <1>8
  <2>2. QED
    BY <1>4, <1>5, <2>1
<1>9. QED
  BY <1>1, <1>7, <1>8 DEF Rises, r

\* Two rising sequences, one after the other.
LEMMA RiseConcat ==
    ASSUME NEW S, NEW q \in Seq(S), NEW r \in Seq(S)
    PROVE  /\ ToSet(q \o r) = ToSet(q) \cup ToSet(r)
           /\ Rises(q) /\ Rises(r) /\ (\A x \in ToSet(q), y \in ToSet(r) : x[2] < y[2])
                => Rises(q \o r)
<1> DEFINE n == Len(q)
           m == Len(r)
           s == q \o r
<1>1. /\ s \in Seq(S) /\ Len(s) = n + m /\ n \in Nat /\ m \in Nat
      /\ \A i \in 1..n + m : s[i] = IF i <= n THEN q[i] ELSE r[i - n]
  BY ConcatProperties
<1>2. DOMAIN q = 1..n /\ DOMAIN r = 1..m
  OBVIOUS
<1> HIDE DEF s
<1>3. DOMAIN s = 1..n + m
  BY <1>1
<1> HIDE DEF n, m
<1>4. \A i \in 1..n : i \in 1..n + m /\ s[i] = q[i]
  BY <1>1
<1>5. \A i \in 1..m : n + i \in 1..n + m /\ s[n + i] = r[i]
  <2>1. ASSUME NEW i \in 1..m PROVE n + i \in 1..n + m /\ ~(n + i <= n) /\ (n + i) - n = i
    BY <1>1
  <2>2. QED
    BY <1>1, <2>1
<1>6. \A k \in 1..n + m : k \in 1..n \/ (k - n \in 1..m /\ s[k] = r[k - n] /\ k > n)
  BY <1>1
<1>7. ToSet(s) = ToSet(q) \cup ToSet(r)
  <2>1. ASSUME NEW x \in ToSet(s) PROVE x \in ToSet(q) \cup ToSet(r)
    <3>1. PICK k \in 1..n + m : x = s[k]
      BY <1>3 DEF ToSet
    <3>2. QED
      BY <1>2, <1>4, <1>6, <3>1 DEF ToSet
  <2>2. ASSUME NEW x \in ToSet(q) \cup ToSet(r) PROVE x \in ToSet(s)
    BY <1>2, <1>3, <1>4, <1>5 DEF ToSet
  <2>3. QED
    BY <2>1, <2>2
<1>8. ASSUME Rises(q), Rises(r), \A x \in ToSet(q), y \in ToSet(r) : x[2] < y[2],
             NEW i \in 1..n + m, NEW j \in 1..n + m, i < j
      PROVE  s[i][2] < s[j][2]
  <2>1. CASE j \in 1..n
    <3>1. i \in 1..n
      BY <1>1, <1>8, <2>1
    <3>2. QED
      BY <1>4, <1>8, <2>1, <3>1 DEF Rises, n
  <2>2. CASE i \in 1..n /\ j \notin 1..n
    <3>1. s[i] \in ToSet(q) /\ s[j] \in ToSet(r)
      BY <1>2, <1>4, <1>6, <2>2 DEF ToSet
    <3>2. QED
      BY <1>8, <3>1
  <2>3. CASE i \notin 1..n /\ j \notin 1..n
    <3>1. i - n < j - n /\ i - n \in 1..m /\ j - n \in 1..m
      BY <1>1, <1>6, <1>8, <2>3
    <3>2. r[i - n][2] < r[j - n][2]
      BY <1>8, <3>1 DEF Rises, m
    <3>3. QED
      BY <1>6, <2>3, <3>2
  <2>4. QED
    BY <2>1, <2>2, <2>3
<1>9. QED
  BY <1>1, <1>7, <1>8 DEF Rises, s

LEMMA NoneRises == Rises(<<>>) /\ ToSet(<<>>) = {} /\ Len(<<>>) = 0
<1>1. Len(<<>>) = 0 /\ DOMAIN <<>> = {}
  OBVIOUS
<1>2. QED
  BY <1>1 DEF Rises, ToSet

LEMMA EntryNumbered == \A e \in ViewEntry : e[2] \in Nat
BY DEF ViewEntry

LEMMA ElementsIn == ASSUME NEW S, NEW q \in Seq(S) PROVE ToSet(q) \subseteq S
<1>1. DOMAIN q = 1..Len(q) /\ \A i \in 1..Len(q) : q[i] \in S
  OBVIOUS
<1>2. QED
  BY <1>1 DEF ToSet

LEMMA FeedInit == ASSUME ViewInit PROVE FeedKept
<1> USE DEF ViewInit
<1>1. LiveEntries = <<>> /\ LiveFeed = <<>>
  BY DEF LiveEntries, LiveFeed
<1>2. FeedRises
  BY <1>1, NoneRises DEF FeedRises, Tracked
<1>3. FeedMatches
  BY <1>1, NoneRises DEF FeedMatches
<1>4. QED
  BY <1>2, <1>3 DEF FeedKept

\* The entry that comes is new to the log, to the feed and to those that wait; the one
\* that gives way leaves the log and the feed, and strays if it still waits.
LEMMA EntryMoves ==
    ASSUME ViewInv, FeedKept, ~nested, mode = Live, Arrive
    PROVE  \E H \in SUBSET ToSet(entries) :
             LET e == <<Live, arrived + 1>>
             IN  /\ ToSet(entries') = (ToSet(entries) \cup {e}) \ H /\ Rises(entries')
                 /\ ToSet(feed') = ToSet(feed) \ H /\ Rises(feed')
                 /\ ToSet(pending') = ToSet(pending) \cup {e} /\ Rises(pending')
                 /\ stray' = stray \cup (H \cap ToSet(pending))
<1> USE DEF Arrive, Enqueue, ViewInv, ViewTyped, FeedKept
<1> DEFINE e == <<Live, arrived + 1>>
           new == Append(entries, e)
<1>1. e \in ViewEntry /\ e[2] = arrived + 1
  BY LogViewAssumption DEF ViewEntry, Source
<1>2. /\ Rises(entries) /\ Rises(feed) /\ Rises(pending)
      /\ \A x \in ToSet(entries) \cup ToSet(pending) : x[2] <= arrived
  BY DEF FeedRises, Tracked, LiveEntries, LiveFeed
<1>3. Evict(new) /\ pending' = Append(pending, e)
  OBVIOUS
<1> HIDE DEF e
<1>4. \A x \in ToSet(entries) \cup ToSet(pending) : x[2] < e[2]
  <2>1. \A x \in ToSet(entries) \cup ToSet(pending) : x \in ViewEntry
    BY ElementsIn
  <2>2. QED
    BY <1>1, <1>2, <2>1, EntryNumbered
<1>5. ToSet(new) = ToSet(entries) \cup {e} /\ Rises(new)
  BY <1>1, <1>2, <1>4, RiseAppend
<1>6. ToSet(pending') = ToSet(pending) \cup {e} /\ Rises(pending')
  BY <1>1, <1>2, <1>3, <1>4, RiseAppend
<1>7. /\ new \in Seq(ViewEntry) /\ Len(new) = Len(entries) + 1 /\ Len(entries) \in Nat
      /\ \A i \in 1..Len(entries) : new[i] = entries[i]
  BY <1>1, AppendProperties
<1> HIDE DEF new
<1>8. CASE Len(new) > MAX
  <2> DEFINE h == Head(new)
  <2>1. new # <<>> /\ h = new[1] /\ 1 \in 1..Len(entries)
    <3>1. new # <<>> /\ 1 \in 1..Len(entries)
      BY <1>7, <1>8, LogViewAssumption
    <3>2. QED
      BY <1>7, <3>1, HeadTailProperties
  <2>2. {h} \in SUBSET ToSet(entries)
    <3>1. DOMAIN entries = 1..Len(entries)
      OBVIOUS
    <3>2. QED
      BY <1>7, <2>1, <3>1 DEF ToSet
  <2>3. ToSet(Tail(new)) = ToSet(new) \ {h} /\ Rises(Tail(new))
    BY <1>5, <1>7, <2>1, EntryNumbered, RiseTail
  <2>4. /\ entries' = Tail(new) /\ feed' = Keep(feed, ToSet(feed) \ {h})
        /\ stray' = IF Contains(pending, h) THEN stray \cup {h} ELSE stray
    BY <1>3, <1>8 DEF Evict, Without
  <2>5. Contains(pending, h) <=> h \in ToSet(pending)
    <3>1. DOMAIN pending = 1..Len(pending)
      OBVIOUS
    <3>2. QED
      BY <3>1 DEF Contains, ToSet
  <2> HIDE DEF h
  <2>6. stray' = stray \cup ({h} \cap ToSet(pending))
    BY <2>4, <2>5
  <2>7. ToSet(feed') = ToSet(feed) \ {h} /\ Rises(feed')
    <3>1. /\ ToSet(Keep(feed, ToSet(feed) \ {h})) = ToSet(feed) \cap (ToSet(feed) \ {h})
          /\ Rises(Keep(feed, ToSet(feed) \ {h}))
      BY <1>2, KeptElements
    <3>2. QED
      BY <2>4, <3>1
  <2>8. ToSet(entries') = (ToSet(entries) \cup {e}) \ {h} /\ Rises(entries')
    BY <1>5, <2>3, <2>4
  <2>9. QED
    BY <1>6, <2>2, <2>6, <2>7, <2>8 DEF e
<1>9. CASE ~(Len(new) > MAX)
  <2>1. entries' = new /\ feed' = feed /\ stray' = stray
    BY <1>3, <1>9 DEF Evict
  <2>2. /\ {} \in SUBSET ToSet(entries)
        /\ ToSet(entries') = (ToSet(entries) \cup {e}) \ {} /\ Rises(entries')
        /\ ToSet(feed') = ToSet(feed) \ {} /\ Rises(feed')
        /\ stray' = stray \cup ({} \cap ToSet(pending))
    BY <1>2, <1>5, <2>1
  <2>3. QED
    BY <1>6, <2>2 DEF e
<1>10. QED
  BY <1>8, <1>9

LEMMA FeedArrive ==
    ASSUME ViewInv, FeedKept, HearOther \/ HearCatalog \/ HearReport
    PROVE  FeedKept'
<1>1. Arrive /\ UNCHANGED <<mode, saved, swallowed, nested>> /\ arrived \in Nat
  BY DEF HearOther, HearCatalog, HearReport, modeVars, ViewInv, ViewTyped
<1>2. CASE mode # Live
  <2>1. UNCHANGED <<entries, pending, feed, stray>> /\ arrived' = arrived + 1
    BY <1>1, <1>2 DEF Arrive, Enqueue, logVars
  <2>2. LiveEntries' = LiveEntries /\ LiveFeed' = LiveFeed /\ pending' = pending
    BY <1>1, <1>2, <2>1 DEF LiveEntries, LiveFeed
  <2>3. ~nested => FeedMatches'
    BY <1>1, <2>1, <2>2 DEF FeedKept, FeedMatches
  <2>4. ~nested => FeedRises'
    <3> SUFFICES ASSUME ~nested PROVE FeedRises'
      OBVIOUS
    <3>1. FeedRises /\ pending = <<>>
      BY <1>2 DEF FeedKept
    <3>2. ASSUME NEW x \in Tracked PROVE x \in ViewEntry /\ x[2] <= arrived'
      <4>1. x \in ViewEntry /\ x[2] \in Nat /\ x[2] <= arrived
        BY <3>1, EntryNumbered DEF FeedRises
      <4>2. QED
        BY <1>1, <2>1, <4>1
    <3>3. Tracked' = Tracked
      BY <1>1, <2>1, <2>2 DEF Tracked
    <3>4. QED
      BY <2>2, <3>1, <3>2, <3>3 DEF FeedRises
  <2>5. QED
    BY <1>1, <2>1, <2>3, <2>4 DEF FeedKept
<1>3. CASE mode = Live
  <2> SUFFICES ASSUME ~nested PROVE FeedRises' /\ FeedMatches'
    BY <1>1, <1>3 DEF FeedKept
  <2> DEFINE e == <<Live, arrived + 1>>
  <2>1. FeedRises /\ FeedMatches
    BY DEF FeedKept
  <2>2. /\ LiveEntries = entries /\ LiveFeed = feed
        /\ LiveEntries' = entries' /\ LiveFeed' = feed'
    BY <1>1, <1>3 DEF LiveEntries, LiveFeed
  <2>3. e \in ViewEntry /\ e[2] = arrived + 1 /\ arrived' = arrived + 1
    BY <1>1, LogViewAssumption DEF Arrive, ViewEntry, Source
  <2>4. PICK H \in SUBSET ToSet(entries) :
           /\ ToSet(entries') = (ToSet(entries) \cup {e}) \ H /\ Rises(entries')
           /\ ToSet(feed') = ToSet(feed) \ H /\ Rises(feed')
           /\ ToSet(pending') = ToSet(pending) \cup {e} /\ Rises(pending')
           /\ stray' = stray \cup (H \cap ToSet(pending))
    BY <1>1, <1>3, EntryMoves
  <2> HIDE DEF e
  <2>5. \A x \in Tracked : x \in ViewEntry /\ x[2] \in Nat /\ x[2] <= arrived
    BY <2>1, EntryNumbered DEF FeedRises
  <2>6. e \notin Tracked /\ \A x \in Tracked : x[2] < e[2] /\ x[2] <= arrived'
    BY <1>1, <2>3, <2>5
  <2>7. FeedMatches'
    BY <1>1, <2>1, <2>2, <2>4, <2>6 DEF FeedMatches, Tracked
  <2>8. FeedRises'
    <3>1. Tracked' \subseteq Tracked \cup {e}
      BY <1>1, <2>2, <2>4 DEF Tracked
    <3>2. \A x \in Tracked' : x \in ViewEntry /\ x[2] <= arrived'
      BY <1>1, <2>3, <2>5, <2>6, <3>1
    <3>3. \A x \in ToSet(feed'), d \in ToSet(pending') : x[2] < d[2]
      BY <2>1, <2>2, <2>4, <2>6 DEF FeedRises, Tracked
    <3>4. QED
      BY <2>2, <2>4, <3>2, <3>3 DEF FeedRises
  <2>9. QED
    BY <2>7, <2>8
<1>4. QED
  BY <1>2, <1>3

LEMMA FeedLog ==
    ASSUME ViewInv, FeedKept, Flush \/ Clear
    PROVE  FeedKept'
<1>1. UNCHANGED <<arrived, mode, saved, swallowed, stray, nested>>
  BY DEF Flush, Clear, modeVars, history
<1>2. pending' = <<>>
  BY DEF Flush, Clear
<1>3. SUFFICES ASSUME ~nested PROVE FeedRises' /\ FeedMatches'
  BY <1>1, <1>2 DEF FeedKept
<1>4. FeedRises /\ FeedMatches
  BY <1>3 DEF FeedKept
<1>5. CASE Flush
  <2>1. mode = Live /\ entries' = entries /\ feed' = feed \o pending
    BY <1>5 DEF Flush, FeedKept
  <2>2. LiveEntries' = LiveEntries /\ LiveFeed = feed /\ LiveFeed' = feed'
    BY <1>1, <2>1 DEF LiveEntries, LiveFeed
  <2>3. feed \in Seq(ViewEntry) /\ pending \in Seq(ViewEntry)
    BY DEF ViewInv, ViewTyped
  <2>4. ToSet(feed') = ToSet(feed) \cup ToSet(pending) /\ Rises(feed')
    BY <1>4, <2>1, <2>2, <2>3, RiseConcat DEF FeedRises
  <2>5. Tracked' = Tracked
    BY <1>1, <1>2, <2>2, <2>4, NoneRises DEF Tracked
  <2>6. FeedRises'
    BY <1>1, <1>2, <1>4, <2>2, <2>4, <2>5, NoneRises DEF FeedRises
  <2>7. FeedMatches'
    BY <1>1, <1>2, <1>4, <2>2, <2>4, NoneRises DEF FeedMatches
  <2>8. QED
    BY <2>6, <2>7
<1>6. CASE Clear
  <2>1. /\ LiveEntries' = IF mode = Live THEN <<>> ELSE LiveEntries
        /\ LiveFeed' = IF mode = Live THEN <<>> ELSE LiveFeed
    BY <1>1, <1>6 DEF Clear, LiveEntries, LiveFeed
  <2>2. mode # Live => pending = <<>>
    BY DEF FeedKept
  <2>3. Tracked' \subseteq Tracked
    BY <1>1, <1>2, <2>1, NoneRises DEF Tracked
  <2>4. FeedRises'
    BY <1>1, <1>2, <1>4, <2>1, <2>3, NoneRises DEF FeedRises
  <2>5. FeedMatches'
    BY <1>1, <1>2, <1>4, <2>1, <2>2, NoneRises DEF FeedMatches
  <2>6. QED
    BY <2>4, <2>5
<1>7. QED
  BY <1>5, <1>6

LEMMA FeedMode ==
    ASSUME ViewInv, FeedKept,
           ExitSnapshotMode \/ \E s \in Snaps : EnterSnapshotMode(s)
    PROVE  FeedKept'
<1>1. CASE ExitSnapshotMode
  <2>1. /\ mode # Live /\ mode' = Live /\ entries' = saved.entries
        /\ feed' = Keep(saved.entries, ToSet(saved.feed))
        /\ UNCHANGED <<arrived, pending, swallowed, stray, nested>>
    BY <1>1 DEF ExitSnapshotMode, history
  <2>2. SUFFICES ASSUME ~nested PROVE FeedRises' /\ FeedMatches'
    BY <2>1 DEF FeedKept
  <2>3. FeedRises /\ FeedMatches /\ pending = <<>>
    BY <2>1, <2>2 DEF FeedKept
  <2>4. /\ LiveEntries' = LiveEntries /\ LiveFeed' = feed'
        /\ feed' = Keep(LiveEntries, ToSet(LiveFeed))
    BY <2>1 DEF LiveEntries, LiveFeed
  <2>5. LiveEntries \in Seq(ViewEntry)
    BY <2>1 DEF LiveEntries, ViewInv, ViewTyped
  <2>6. ToSet(feed') = ToSet(LiveEntries) \cap ToSet(LiveFeed) /\ Rises(feed')
    BY <2>3, <2>4, <2>5, KeptElements DEF FeedRises
  <2>7. Tracked' \subseteq Tracked
    BY <2>1, <2>4, <2>6 DEF Tracked
  <2>8. FeedRises'
    BY <2>1, <2>3, <2>4, <2>6, <2>7, NoneRises DEF FeedRises
  <2>9. FeedMatches'
    BY <2>1, <2>3, <2>4, <2>6, NoneRises DEF FeedMatches
  <2>10. QED
    BY <2>8, <2>9
<1>2. ASSUME NEW s \in Snaps, EnterSnapshotMode(s) PROVE FeedKept'
  <2>1. /\ mode' = s /\ saved'.entries = entries /\ saved'.feed = feed
        /\ pending' = <<>> /\ swallowed' = swallowed \cup ToSet(pending)
        /\ nested' = (nested \/ mode # Live) /\ UNCHANGED <<arrived, stray>>
    BY <1>2 DEF EnterSnapshotMode
  <2>2. SUFFICES ASSUME ~nested, mode = Live PROVE FeedRises' /\ FeedMatches'
    BY <2>1 DEF FeedKept
  <2>3. FeedRises /\ FeedMatches
    BY <2>2 DEF FeedKept
  <2>4. s # Live
    BY LogViewAssumption
  <2>5. LiveEntries' = LiveEntries /\ LiveFeed' = LiveFeed
    BY <2>1, <2>2, <2>4 DEF LiveEntries, LiveFeed
  <2>6. Tracked' = Tracked
    BY <2>1, <2>5, NoneRises DEF Tracked
  <2>7. FeedRises'
    BY <2>1, <2>3, <2>5, <2>6, NoneRises DEF FeedRises
  <2>8. ToSet(LiveFeed) \cap ToSet(pending) = {}
    <3>1. \A x \in ToSet(pending) : x[2] \in Nat
      BY <2>3, EntryNumbered DEF FeedRises, Tracked
    <3>2. QED
      BY <2>3, <3>1 DEF FeedRises
  <2>9. FeedMatches'
    BY <2>1, <2>3, <2>5, <2>8, NoneRises DEF FeedMatches
  <2>10. QED
    BY <2>7, <2>9
<1>3. QED
  BY <1>1, <1>2

LEMMA FeedNext ==
    ASSUME ViewInv, FeedKept, [ViewNext]_viewVars
    PROVE  FeedKept'
<1>1. CASE \/ UNCHANGED viewVars
           \/ \E k \in Tabs : OpenTab(k) \/ Loaded(k)
  <2>1. UNCHANGED <<arrived, entries, pending, feed, mode, saved, swallowed, stray, nested>>
    BY <1>1 DEF viewVars, logVars, modeVars, history, OpenTab, Loaded
  <2>2. LiveEntries' = LiveEntries /\ LiveFeed' = LiveFeed
    BY <2>1 DEF LiveEntries, LiveFeed
  <2>3. QED
    BY <2>1, <2>2 DEF FeedKept, FeedRises, FeedMatches, Tracked, Rises
<1>2. QED
  BY <1>1, FeedArrive, FeedLog, FeedMode DEF ViewNext

\* The elements of the live log and its entries keep in step in every reachable state.
THEOREM FeedInductive == ViewSpec => []FeedKept
BY FeedInit, FeedNext, ViewInductive, PTL DEF ViewSpec

\* For any bound of the log and any snapshots, once a frame has come the elements are
\* those of the live log's entries, in their order, but for entries that were swallowed
\* by a snapshot and elements that strayed (index.html:2398-2403, 2420-2446, 4239-4340).
THEOREM FeedFollows == ViewSpec => []FeedShows
<1>1. ViewInv /\ FeedKept => FeedShows
  <2> SUFFICES ASSUME ViewInv, FeedKept, mode = Live, ~nested, pending = <<>>
               PROVE  Keep(feed, ToSet(feed) \ stray) = Keep(entries, ToSet(entries) \ swallowed)
    BY DEF FeedShows
  <2> DEFINE q == Keep(feed, ToSet(feed) \ stray)
             r == Keep(entries, ToSet(entries) \ swallowed)
  <2>1. feed \in Seq(ViewEntry) /\ entries \in Seq(ViewEntry)
    BY DEF ViewInv, ViewTyped
  <2>2. FeedRises /\ FeedMatches /\ LiveEntries = entries /\ LiveFeed = feed
    BY DEF FeedKept, LiveEntries, LiveFeed
  <2>3. /\ q \in Seq(ViewEntry) /\ ToSet(q) = ToSet(feed) \cap (ToSet(feed) \ stray)
        /\ r \in Seq(ViewEntry) /\ ToSet(r) = ToSet(entries) \cap (ToSet(entries) \ swallowed)
    BY <2>1, KeptElements
  <2>4. Rises(q) /\ Rises(r)
    BY <2>1, <2>2, KeptElements DEF FeedRises
  <2> HIDE DEF q, r
  <2>5. ToSet(q) = ToSet(r)
    BY <2>2, <2>3, NoneRises DEF FeedMatches
  <2>6. q = r
    BY <2>3, <2>4, <2>5, EntryNumbered, SameRise
  <2>7. QED
    BY <2>6 DEF q, r
<1>2. QED
  BY <1>1, ViewInductive, FeedInductive, PTL
=============================================================================
