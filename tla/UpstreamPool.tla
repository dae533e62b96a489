---------------------------- MODULE UpstreamPool ----------------------------
(***************************************************************************)
(* The upstream connections of internal/proxy/upstream_pool.go and         *)
(* upstream.go from start to exit, as main drives them: ConnectAll dials   *)
(* every server in a goroutine of its own and collects the results from a  *)
(* buffered channel, main serves while some server connected, and CloseAll *)
(* runs when main returns.  Upstream processes may die at any time.        *)
(***************************************************************************)
EXTENDS Naturals, FiniteSets

CONSTANT Servers       \* keys of the servers added to the pool

ASSUME ServersAssumption == IsFiniteSet(Servers)

VARIABLES
    pc,            \* main: start, collect (in ConnectAll), failed, serving, closing, exited
    conn,          \* the goroutine that dials each server
    session,       \* um.session: nil, or the state of the process behind it
    status,        \* ServerEntry.Status
    ch,            \* the results in the channel (reception order only reorders
                   \* updates of different entries)
    closed,        \* whether the channel is closed
    successCount,
    toClose        \* the entries CloseAll has still to close

vars == <<pc, conn, session, status, ch, closed, successCount, toClose>>

Result == [server : Servers, ok : BOOLEAN]

TypeOK ==
    /\ pc \in {"start", "collect", "failed", "serving", "closing", "exited"}
    /\ conn \in [Servers -> {"idle", "dialing", "dialed", "refused", "sent"}]
    /\ session \in [Servers -> {"nil", "open", "dead", "closed"}]
    /\ status \in [Servers -> {"connecting", "connected", "failed"}]
    /\ ch \in SUBSET Result
    /\ closed \in BOOLEAN
    /\ successCount \in Nat
    /\ toClose \in SUBSET Servers

Init ==
    /\ pc = "start"
    /\ conn = [s \in Servers |-> "idle"]
    /\ session = [s \in Servers |-> "nil"]
    /\ status = [s \in Servers |-> "connecting"]
    /\ ch = {}
    /\ closed = FALSE
    /\ successCount = 0
    /\ toClose = {}

-----------------------------------------------------------------------------
(* ConnectAll.                                                              *)
StartConnectAll ==
    /\ pc = "start"
    /\ pc' = "collect"
    /\ conn' = [s \in Servers |-> "dialing"]
    /\ UNCHANGED <<session, status, ch, closed, successCount, toClose>>

\* Variant: the session is returned but not kept.
DialForgetting(s) ==
    /\ conn[s] = "dialing"
    /\ conn' = [conn EXCEPT ![s] = "dialed"]
    /\ UNCHANGED <<pc, session, status, ch, closed, successCount, toClose>>

\* UpstreamManager.Connect within its 10 s: the session is kept first ...
DialSucceeds(s) ==
    /\ conn[s] = "dialing"
    /\ session' = [session EXCEPT ![s] = "open"]
    /\ conn' = [conn EXCEPT ![s] = "dialed"]
    /\ UNCHANGED <<pc, status, ch, closed, successCount, toClose>>

\* ... and an error, a timeout or a cancelled context leaves it nil.
DialFails(s) ==
    /\ conn[s] = "dialing"
    /\ conn' = [conn EXCEPT ![s] = "refused"]
    /\ UNCHANGED <<pc, session, status, ch, closed, successCount, toClose>>

HasRoom == Cardinality(ch) < Cardinality(Servers)

\* Variant: only a server that connected reports.
SendSuccessOnly(s) ==
    /\ conn[s] = "dialed"
    /\ HasRoom
    /\ ch' = ch \cup {[server |-> s, ok |-> TRUE]}
    /\ conn' = [conn EXCEPT ![s] = "sent"]
    /\ UNCHANGED <<pc, session, status, closed, successCount, toClose>>

\* The goroutine sends its result into the buffered channel; wg.Done follows.
SendResult(s) ==
    /\ conn[s] \in {"dialed", "refused"}
    /\ HasRoom
    /\ ch' = ch \cup {[server |-> s, ok |-> conn[s] = "dialed"]}
    /\ conn' = [conn EXCEPT ![s] = "sent"]
    /\ UNCHANGED <<pc, session, status, closed, successCount, toClose>>

\* Variant: closed after the first result instead of the last.
CloseChannelEarly ==
    /\ pc = "collect"
    /\ \E s \in Servers : conn[s] = "sent"
    /\ ~closed
    /\ closed' = TRUE
    /\ UNCHANGED <<pc, conn, session, status, ch, successCount, toClose>>

\* wg.Wait, then close.
CloseChannel ==
    /\ pc = "collect"
    /\ \A s \in Servers : conn[s] = "sent"
    /\ ~closed
    /\ closed' = TRUE
    /\ UNCHANGED <<pc, conn, session, status, ch, successCount, toClose>>

\* One iteration of the loop over the channel.
Receive(r) ==
    /\ pc = "collect"
    /\ r \in ch
    /\ ch' = ch \ {r}
    /\ \/ /\ r.ok
          /\ status' = [status EXCEPT ![r.server] = "connected"]
          /\ successCount' = successCount + 1
       \/ /\ ~r.ok
          /\ status' = [status EXCEPT ![r.server] = "failed"]
          /\ UNCHANGED successCount
    /\ UNCHANGED <<pc, conn, session, closed, toClose>>

\* Variant: returns when the channel is empty, closed or not.
ReturnsWhenDrained ==
    /\ pc = "collect"
    /\ ch = {}
    /\ pc' = IF successCount = 0 THEN "failed" ELSE "serving"
    /\ UNCHANGED <<conn, session, status, ch, closed, successCount, toClose>>

\* The channel is drained and closed: ConnectAll returns, and main exits with
\* code 1 when it returns an error.
ConnectAllReturns ==
    /\ pc = "collect"
    /\ ch = {} /\ closed
    /\ pc' = IF successCount = 0 THEN "failed" ELSE "serving"
    /\ UNCHANGED <<conn, session, status, ch, closed, successCount, toClose>>

-----------------------------------------------------------------------------
(* Serving and shutting down.                                               *)

\* An upstream process dies.  Nothing in main waits for it.
UpstreamDies(s) ==
    /\ session[s] = "open"
    /\ session' = [session EXCEPT ![s] = "dead"]
    /\ UNCHANGED <<pc, conn, status, ch, closed, successCount, toClose>>

\* The transport returns, for a client that left or a signal; CloseAll starts.
StopServing ==
    /\ pc = "serving"
    /\ pc' = "closing"
    /\ toClose' = Servers
    /\ UNCHANGED <<conn, session, status, ch, closed, successCount>>

\* Variant: the first Close that fails, as it does for a dead process, ends
\* the loop.
CloseEntryStopping(s) ==
    /\ pc = "closing"
    /\ s \in toClose
    /\ toClose' = IF session[s] = "dead" THEN {} ELSE toClose \ {s}
    /\ session' = [session EXCEPT ![s] = IF @ = "nil" THEN @ ELSE "closed"]
    /\ UNCHANGED <<pc, conn, status, ch, closed, successCount>>

\* One iteration of CloseAll: a manager without a session is left alone, an
\* error of session.Close is logged and the loop goes on.
CloseEntry(s) ==
    /\ pc = "closing"
    /\ s \in toClose
    /\ toClose' = toClose \ {s}
    /\ session' = [session EXCEPT ![s] = IF @ = "nil" THEN @ ELSE "closed"]
    /\ UNCHANGED <<pc, conn, status, ch, closed, successCount>>

Exit ==
    /\ pc = "closing"
    /\ toClose = {}
    /\ pc' = "exited"
    /\ UNCHANGED <<conn, session, status, ch, closed, successCount, toClose>>

-----------------------------------------------------------------------------
Connecting(s) == DialSucceeds(s) \/ DialFails(s) \/ SendResult(s)
Collecting == (\E r \in Result : Receive(r)) \/ ConnectAllReturns
Closing == (\E s \in Servers : CloseEntry(s)) \/ Exit

Next ==
    \/ StartConnectAll \/ CloseChannel \/ Collecting \/ StopServing \/ Closing
    \/ \E s \in Servers : Connecting(s) \/ UpstreamDies(s)

Spec == Init /\ [][Next]_vars

\* Go schedules every goroutine, a dial ends within its 10 s, a Close within
\* the 5 s after which the process is killed.  No client has to leave.
Fairness ==
    /\ WF_vars(StartConnectAll) /\ WF_vars(CloseChannel)
    /\ WF_vars(Collecting) /\ WF_vars(Closing)
    /\ \A s \in Servers : WF_vars(Connecting(s))

FairSpec == Spec /\ Fairness

-----------------------------------------------------------------------------
\* A server marked "connected" has a session: DiscoverAllTools calls
\* session.ID() on it without looking (tools.go:276-288).
ConnectedHasSession ==
    \A s \in Servers : status[s] = "connected" => session[s] # "nil"

\* No goroutine can still send when the channel is closed, and a goroutine
\* that wants to send has room, so none is left behind.
ChannelSafe ==
    /\ closed => \A s \in Servers : conn[s] = "sent"
    /\ \A s \in Servers : conn[s] \in {"dialed", "refused"} => HasRoom

\* The proxy leaves no upstream process behind when ConnectAll has failed or its
\* main has run to its end: "upstream process terminated, no orphans"
\* (1-PLAN.md:322).  A proxy that is killed is not in the model.
NoOrphans ==
    pc \in {"failed", "exited"} => \A s \in Servers : session[s] # "open"

-----------------------------------------------------------------------------
(* The inductive invariant behind the theorems of UpstreamPoolProofs.       *)

\* What a goroutine has done so far shows in its server's session.
DialInv ==
    \A s \in Servers :
        /\ conn[s] \in {"idle", "dialing", "refused"} => session[s] = "nil"
        /\ conn[s] = "dialed" => session[s] # "nil"
        /\ conn[s] # "sent" => status[s] = "connecting"

\* A result in the channel is the only news of its server, and is true.
ResultInv ==
    /\ \A r \in ch : /\ conn[r.server] = "sent"
                     /\ status[r.server] = "connecting"
                     /\ r.ok <=> session[r.server] # "nil"
    /\ \A s \in Servers : (conn[s] = "sent" /\ status[s] = "connecting")
                            => \E r \in ch : r.server = s

StatusInv ==
    /\ \A s \in Servers : /\ status[s] = "connected" => session[s] # "nil"
                          /\ status[s] = "failed" => session[s] = "nil"
    /\ successCount > 0 <=> \E s \in Servers : status[s] = "connected"

\* How far main is bounds what the others can still do.
PhaseInv ==
    /\ pc = "start" => ~closed /\ ch = {} /\ \A s \in Servers : conn[s] = "idle"
    /\ closed => \A s \in Servers : conn[s] = "sent"
    /\ pc \notin {"start", "collect"} => closed /\ ch = {}
    /\ pc = "failed" => successCount = 0
    /\ pc \in {"serving", "closing", "exited"} => successCount > 0
    /\ pc = "closing" => \A s \in Servers \ toClose : session[s] \in {"nil", "closed"}
    /\ pc = "exited" => \A s \in Servers : session[s] \in {"nil", "closed"}

IInv == TypeOK /\ DialInv /\ ResultInv /\ StatusInv /\ PhaseInv

-----------------------------------------------------------------------------
\* ConnectAll implements its promise.
Answered == IF pc \in {"start", "collect"} THEN "none"
            ELSE IF pc = "failed" THEN "error" ELSE "ok"

Promise == INSTANCE PoolPromise WITH outcome <- status, verdict <- Answered

KeepsPromise == Promise!Spec

\* ConnectAll returns, whatever the servers do.
ConnectAllEnds == pc = "collect" ~> pc \in {"failed", "serving"}
=============================================================================
