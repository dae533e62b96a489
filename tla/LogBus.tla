-------------------------------- MODULE LogBus --------------------------------
(***************************************************************************)
(* The event bus of internal/logger/logger.go.  Every goroutine that logs  *)
(* broadcasts its entry to the subscribers under subMu.RLock, one channel  *)
(* at a time and never waiting for one; subscribing and unsubscribing take *)
(* the write lock.  A subscriber is a consumer goroutine (the analyzer,    *)
(* the UI's catalog and buffer watchers, an SSE connection) that subscribes *)
(* once, reads its channel and unsubscribes when it stops.                 *)
(***************************************************************************)
EXTENDS Naturals, Sequences, FiniteSets

CONSTANTS
    Loggers,      \* goroutines that log
    Subscribers,
    Cap,          \* capacity of a subscriber's channel (100 in the code)
    MaxEvents     \* bound on the entries each goroutine logs

ASSUME BusAssumption == Cap \in Nat \ {0} /\ MaxEvents \in Nat

\* The k-th entry of goroutine g.
Entry == Loggers \X Nat

VARIABLES
    pc,       \* idle, logged (entry encoded to stderr) or sending (holds RLock)
    count,    \* entries each goroutine has logged
    todo,     \* the subscribers its broadcast has not reached yet
    subs,     \* l.subscribers
    chan,     \* the subscribers' channels
    closed,   \* the channels that are closed
    life,     \* new, live, leaving (waits for the write lock) or gone
    seen,     \* entries each consumer has handled, in order
    lost,     \* history: entries dropped because the channel was full
    from      \* history: count of each goroutine not broadcast to the subscriber

busVars == <<subs, chan, closed>>
vars == <<pc, count, todo, busVars, life, seen, lost, from>>

TypeOK ==
    /\ pc \in [Loggers -> {"idle", "logged", "sending"}]
    /\ count \in [Loggers -> 0..MaxEvents]
    /\ todo \in [Loggers -> SUBSET Subscribers]
    /\ subs \in SUBSET Subscribers
    /\ chan \in [Subscribers -> Seq(Entry)]
    /\ closed \in SUBSET Subscribers
    /\ life \in [Subscribers -> {"new", "live", "leaving", "gone"}]
    /\ seen \in [Subscribers -> Seq(Entry)]
    /\ lost \in [Subscribers -> SUBSET Entry]
    /\ from \in [Subscribers -> [Loggers -> Nat]]

Init ==
    /\ pc = [g \in Loggers |-> "idle"]
    /\ count = [g \in Loggers |-> 0]
    /\ todo = [g \in Loggers |-> {}]
    /\ subs = {}
    /\ chan = [s \in Subscribers |-> <<>>]
    /\ closed = {}
    /\ life = [s \in Subscribers |-> "new"]
    /\ seen = [s \in Subscribers |-> <<>>]
    /\ lost = [s \in Subscribers |-> {}]
    /\ from = [s \in Subscribers |-> [g \in Loggers |-> 0]]

-----------------------------------------------------------------------------
(* Log: encode to stderr under l.mu, then broadcast.                        *)
Encode(g) ==
    /\ pc[g] = "idle"
    /\ count[g] < MaxEvents
    /\ count' = [count EXCEPT ![g] = @ + 1]
    /\ pc' = [pc EXCEPT ![g] = "logged"]
    /\ UNCHANGED <<todo, busVars, life, seen, lost, from>>

\* RLock of subMu: many at a time, but none past a writer that waits.
BeginBroadcast(g) ==
    /\ pc[g] = "logged"
    /\ \A s \in Subscribers : life[s] # "leaving"
    /\ pc' = [pc EXCEPT ![g] = "sending"]
    /\ todo' = [todo EXCEPT ![g] = subs]
    /\ UNCHANGED <<count, busVars, life, seen, lost, from>>

Current(g) == <<g, count[g]>>
Full(s) == Len(chan[s]) = Cap
Reached(g, s) ==
    /\ s \in todo[g]
    /\ todo' = [todo EXCEPT ![g] = @ \ {s}]

\* Variant: a full channel makes the logger wait.
SendBlocking(g, s) ==
    /\ Reached(g, s)
    /\ ~Full(s)
    /\ chan' = [chan EXCEPT ![s] = Append(@, Current(g))]
    /\ UNCHANGED <<pc, count, subs, closed, life, seen, lost, from>>

\* Variant: a full channel makes room by giving up its oldest entry.
SendEvicting(g, s) ==
    /\ Reached(g, s)
    /\ chan' = [chan EXCEPT ![s] = Append(IF Full(s) THEN Tail(@) ELSE @, Current(g))]
    /\ UNCHANGED <<pc, count, subs, closed, life, seen, lost, from>>

\* One iteration of the loop: "drop if buffer full; never block the logger".
SendOrDrop(g, s) ==
    /\ Reached(g, s)
    /\ \/ ~Full(s) /\ chan' = [chan EXCEPT ![s] = Append(@, Current(g))] /\ UNCHANGED lost
       \/ Full(s) /\ lost' = [lost EXCEPT ![s] = @ \cup {Current(g)}] /\ UNCHANGED chan
    /\ UNCHANGED <<pc, count, subs, closed, life, seen, from>>

EndBroadcast(g) ==
    /\ pc[g] = "sending"
    /\ todo[g] = {}
    /\ pc' = [pc EXCEPT ![g] = "idle"]
    /\ UNCHANGED <<count, todo, busVars, life, seen, lost, from>>

-----------------------------------------------------------------------------
(* Subscribers.                                                             *)
NoReader == \A g \in Loggers : pc[g] # "sending"

\* Entries logged but not yet broadcast reach the new subscriber too.
Subscribe(s) ==
    /\ life[s] = "new"
    /\ NoReader
    /\ subs' = subs \cup {s}
    /\ life' = [life EXCEPT ![s] = "live"]
    /\ from' = [from EXCEPT ![s] = [g \in Loggers |->
                  IF pc[g] = "logged" THEN count[g] - 1 ELSE count[g]]]
    /\ UNCHANGED <<pc, count, todo, chan, closed, seen, lost>>

\* Variant: the consumer takes the newest entry first.
ConsumeNewest(s) ==
    /\ life[s] = "live"
    /\ chan[s] # <<>>
    /\ seen' = [seen EXCEPT ![s] = Append(@, chan[s][Len(chan[s])])]
    /\ chan' = [chan EXCEPT ![s] = SubSeq(@, 1, Len(@) - 1)]
    /\ UNCHANGED <<pc, count, todo, subs, closed, life, lost, from>>

\* The consumer takes the next entry and handles it.
Consume(s) ==
    /\ life[s] = "live"
    /\ chan[s] # <<>>
    /\ seen' = [seen EXCEPT ![s] = Append(@, Head(chan[s]))]
    /\ chan' = [chan EXCEPT ![s] = Tail(@)]
    /\ UNCHANGED <<pc, count, todo, subs, closed, life, lost, from>>

\* Its context ends: the deferred Unsubscribe asks for the write lock ...
Leave(s) ==
    /\ life[s] = "live"
    /\ life' = [life EXCEPT ![s] = "leaving"]
    /\ UNCHANGED <<pc, count, todo, busVars, seen, lost, from>>

\* Variant: Unsubscribe does not wait for the broadcasts under way.
UnsubscribeAtOnce(s) ==
    /\ life[s] = "leaving"
    /\ subs' = subs \ {s}
    /\ closed' = closed \cup {s}
    /\ life' = [life EXCEPT ![s] = "gone"]
    /\ UNCHANGED <<pc, count, todo, chan, seen, lost, from>>

\* ... and with it removes the subscriber and closes its channel.
Unsubscribe(s) ==
    /\ life[s] = "leaving"
    /\ NoReader
    /\ subs' = subs \ {s}
    /\ closed' = closed \cup {s}
    /\ life' = [life EXCEPT ![s] = "gone"]
    /\ UNCHANGED <<pc, count, todo, chan, seen, lost, from>>

-----------------------------------------------------------------------------
LogStep(g) ==
    Encode(g) \/ BeginBroadcast(g) \/ EndBroadcast(g) \/ \E s \in Subscribers : SendOrDrop(g, s)

Next ==
    \/ \E g \in Loggers : LogStep(g)
    \/ \E s \in Subscribers : Subscribe(s) \/ Consume(s) \/ Leave(s) \/ Unsubscribe(s)

Spec == Init /\ [][Next]_vars

\* Goroutines that log run on and a consumer that unsubscribes gets the lock.
\* No consumer has to read its channel.
Fairness ==
    /\ \A g \in Loggers : WF_vars(LogStep(g))
    /\ \A s \in Subscribers : WF_vars(Unsubscribe(s))

FairSpec == Spec /\ Fairness

-----------------------------------------------------------------------------
Elements(q) == {q[i] : i \in 1..Len(q)}
Feed(s) == seen[s] \o chan[s]

\* The broadcast loop never sends on a closed channel, which would panic: the
\* write lock keeps Unsubscribe out until the broadcasts under way are done.
NoSendOnClosed == \A g \in Loggers : todo[g] \cap closed = {}

\* No channel holds more than its capacity.
WithinCapacity == \A s \in Subscribers : Len(chan[s]) <= Cap

\* What a subscriber gets from one goroutine comes in the order it was logged
\* and never twice.
InOrder ==
    \A s \in Subscribers : \A i, j \in 1..Len(Feed(s)) :
        (i < j /\ Feed(s)[i][1] = Feed(s)[j][1]) => Feed(s)[i][2] < Feed(s)[j][2]

\* Every entry broadcast since a subscriber subscribed is handled, waiting in
\* its channel or was dropped for want of room; nothing else reaches it.
Accounted ==
    \A s \in subs :
        LET Due(g) == IF pc[g] = "logged" \/ s \in todo[g] THEN count[g] - 1 ELSE count[g]
        IN  Elements(Feed(s)) \cup lost[s]
              = UNION {{<<g, k>> : k \in from[s][g] + 1..Due(g)} : g \in Loggers}

\* A goroutine that logs gets on with its work even when no consumer reads
\* ("never block the logger", logger.go:77).
NeverBlocks == \A g \in Loggers : pc[g] = "logged" ~> pc[g] = "idle"

-----------------------------------------------------------------------------
(* The inductive invariant behind the theorems of EventProofs.             *)
LockInv ==
    /\ \A g \in Loggers : pc[g] = "logged" => count[g] > 0
    /\ \A g \in Loggers : todo[g] # {} => pc[g] = "sending"
    /\ \A g \in Loggers : todo[g] \subseteq subs
    /\ subs \cap closed = {}
    /\ \A s \in Subscribers : /\ life[s] = "new" => s \notin subs /\ s \notin closed
                              /\ s \in closed <=> life[s] = "gone"

\* An entry that reached a subscriber was logged, and is not the one its
\* goroutine still has to send there.
FeedInv ==
    \A s \in Subscribers : \A i \in 1..Len(Feed(s)) :
        LET g == Feed(s)[i][1]
            k == Feed(s)[i][2]
        IN  /\ k <= count[g]
            /\ pc[g] = "logged" \/ s \in todo[g] => k < count[g]

IInv == TypeOK /\ LockInv /\ WithinCapacity /\ FeedInv /\ InOrder
=============================================================================
