-------------------------- MODULE UpstreamPoolProofs --------------------------
(* Theorems about UpstreamPool, for any finite set of servers.                *)
EXTENDS UpstreamPool, TLAPS, FiniteSetTheorems, FunctionTheorems

LEMMA InvInit == Init => IInv
<1> SUFFICES ASSUME Init PROVE IInv
  OBVIOUS
<1> USE DEF Init
<1>1. TypeOK
  BY DEF TypeOK
<1>2. DialInv /\ ResultInv /\ StatusInv
  BY DEF DialInv, ResultInv, StatusInv
<1>3. PhaseInv
  BY DEF PhaseInv
<1>4. QED
  BY <1>1, <1>2, <1>3 DEF IInv

\* A server has at most one result in the channel.
LEMMA OneResult ==
    ASSUME IInv, NEW r \in ch, NEW q \in ch, r.server = q.server
    PROVE  r = q
<1>1. r \in Result /\ q \in Result
  BY DEF IInv, TypeOK
<1>2. r.ok = q.ok
  BY <1>1 DEF IInv, ResultInv, Result
<1>3. QED
  BY <1>1, <1>2 DEF Result

LEMMA InvReceive ==
    ASSUME IInv, NEW r \in Result, Receive(r)
    PROVE  IInv'
<1> USE DEF Receive
<1>1. /\ pc = "collect" /\ r \in ch /\ r.server \in Servers
      /\ conn[r.server] = "sent" /\ status[r.server] = "connecting"
      /\ r.ok <=> session[r.server] # "nil"
  BY DEF IInv, ResultInv, Result
<1>2. TypeOK'
  BY <1>1 DEF IInv, TypeOK
<1>3. DialInv'
  BY <1>1 DEF IInv, TypeOK, DialInv
<1>4. ResultInv'
  <2>1. \A q \in ch' : q.server # r.server
    BY OneResult
  <2>2. \A q \in ch' : /\ conn'[q.server] = "sent"
                       /\ status'[q.server] = "connecting"
                       /\ q.ok <=> session'[q.server] # "nil"
    BY <1>1, <2>1 DEF IInv, TypeOK, ResultInv, Result
  <2>3. ASSUME NEW s \in Servers, conn'[s] = "sent", status'[s] = "connecting"
        PROVE  \E q \in ch' : q.server = s
    <3>1. s # r.server
      BY <1>1, <2>3 DEF IInv, TypeOK
    <3>2. conn[s] = "sent" /\ status[s] = "connecting"
      BY <2>3, <3>1 DEF IInv, TypeOK
    <3>3. PICK q \in ch : q.server = s
      BY <3>2 DEF IInv, ResultInv
    <3>4. q \in ch'
      BY <3>1, <3>3
    <3>5. QED
      BY <3>3, <3>4
  <2>4. QED
    BY <2>2, <2>3 DEF ResultInv
<1>5. StatusInv'
  <2>1. CASE r.ok
    <3>1. /\ status' = [status EXCEPT ![r.server] = "connected"]
          /\ successCount' = successCount + 1
      BY <2>1
    <3>2. status'[r.server] = "connected" /\ successCount' > 0
      BY <1>1, <3>1 DEF IInv, TypeOK
    <3>3. QED
      BY <1>1, <2>1, <3>1, <3>2 DEF IInv, TypeOK, StatusInv
  <2>2. CASE ~r.ok
    BY <1>1, <2>2 DEF IInv, TypeOK, StatusInv
  <2>3. QED
    BY <2>1, <2>2
<1>6. PhaseInv'
  BY <1>1 DEF IInv, TypeOK, PhaseInv
<1>7. QED
  BY <1>2, <1>3, <1>4, <1>5, <1>6 DEF IInv

LEMMA InvSend ==
    ASSUME IInv, NEW s \in Servers, SendResult(s)
    PROVE  IInv'
<1> DEFINE new == [server |-> s, ok |-> conn[s] = "dialed"]
<1> USE DEF SendResult
<1>1. /\ status[s] = "connecting" /\ ch' = ch \cup {new} /\ new \in Result
      /\ new.server = s
      /\ new.ok <=> session[s] # "nil"
  BY DEF IInv, TypeOK, DialInv, Result
<1> HIDE DEF new
<1>2. TypeOK' /\ DialInv' /\ StatusInv'
  BY <1>1 DEF IInv, TypeOK, DialInv, StatusInv
<1>3. ResultInv'
  <2>1. \A r \in ch' : /\ conn'[r.server] = "sent"
                       /\ status'[r.server] = "connecting"
                       /\ r.ok <=> session'[r.server] # "nil"
    BY <1>1 DEF IInv, TypeOK, ResultInv, Result
  <2>2. \A t \in Servers : (conn'[t] = "sent" /\ status'[t] = "connecting")
                              => \E r \in ch' : r.server = t
    BY <1>1 DEF IInv, TypeOK, ResultInv
  <2>3. QED
    BY <2>1, <2>2 DEF ResultInv
<1>4. PhaseInv'
  BY <1>1 DEF IInv, TypeOK, PhaseInv
<1>5. QED
  BY <1>2, <1>3, <1>4 DEF IInv

LEMMA InvDial ==
    ASSUME IInv, NEW s \in Servers, DialSucceeds(s) \/ DialFails(s) \/ UpstreamDies(s)
    PROVE  IInv'
<1>1. CASE DialSucceeds(s)
  BY <1>1 DEF IInv, TypeOK, DialInv, ResultInv, StatusInv, PhaseInv, DialSucceeds, Result
<1>2. CASE DialFails(s)
  BY <1>2 DEF IInv, TypeOK, DialInv, ResultInv, StatusInv, PhaseInv, DialFails, Result
<1>3. CASE UpstreamDies(s)
  BY <1>3 DEF IInv, TypeOK, DialInv, ResultInv, StatusInv, PhaseInv, UpstreamDies, Result
<1>4. QED
  BY <1>1, <1>2, <1>3

LEMMA InvMain ==
    ASSUME IInv,
           \/ StartConnectAll \/ CloseChannel \/ ConnectAllReturns \/ StopServing
           \/ (\E s \in Servers : CloseEntry(s)) \/ Exit
    PROVE  IInv'
<1> USE DEF IInv, TypeOK, DialInv, ResultInv, StatusInv, PhaseInv
<1>1. CASE StartConnectAll
  BY <1>1 DEF StartConnectAll
<1>2. CASE CloseChannel
  BY <1>2 DEF CloseChannel
<1>3. CASE ConnectAllReturns
  BY <1>3 DEF ConnectAllReturns
<1>4. CASE StopServing
  BY <1>4 DEF StopServing
<1>5. ASSUME NEW s \in Servers, CloseEntry(s) PROVE IInv'
  BY <1>5 DEF CloseEntry
<1>6. CASE Exit
  BY <1>6 DEF Exit
<1>7. QED
  BY <1>1, <1>2, <1>3, <1>4, <1>5, <1>6

LEMMA InvNext == IInv /\ [Next]_vars => IInv'
<1>1. IInv /\ UNCHANGED vars => IInv'
  BY DEF IInv, TypeOK, DialInv, ResultInv, StatusInv, PhaseInv, vars
<1>2. QED
  BY <1>1, InvReceive, InvSend, InvDial, InvMain DEF Next, Connecting, Collecting, Closing

\* A goroutine that has not sent finds room: the results of the others are at
\* most one per server.
LEMMA RoomForAll ==
    ASSUME IInv, NEW s \in Servers, conn[s] # "sent"
    PROVE  HasRoom
<1> DEFINE reported == {r.server : r \in ch}
           f == [r \in ch |-> r.server]
<1>1. reported \subseteq Servers \ {s}
  BY DEF IInv, TypeOK, Result, ResultInv
<1>2. f \in Bijection(ch, reported)
  <2>1. f \in [ch -> reported]
    OBVIOUS
  <2>2. \A r, q \in ch : f[r] = f[q] => r = q
    BY OneResult
  <2>3. \A t \in reported : \E r \in ch : f[r] = t
    OBVIOUS
  <2>4. QED
    BY <2>1, <2>2, <2>3, Fun_IsBij
<1>3. IsFiniteSet(Servers \ {s}) /\ Cardinality(Servers \ {s}) = Cardinality(Servers) - 1
  BY ServersAssumption, FS_RemoveElement
<1>4. IsFiniteSet(reported) /\ Cardinality(reported) <= Cardinality(Servers) - 1
  BY <1>1, <1>3, FS_Subset
<1>5. Cardinality(ch) = Cardinality(reported)
  <2>1. ExistsBijection(ch, reported)
    BY <1>2 DEF ExistsBijection
  <2>2. ExistsBijection(reported, ch)
    BY <2>1, Fun_ExistsBijSymmetric
  <2>3. QED
    BY <1>4, <2>2, FS_Bijection
<1>6. Cardinality(ch) \in Nat /\ Cardinality(Servers) \in Nat
  BY <1>4, <1>5, ServersAssumption, FS_CardinalityType
<1>7. QED
  BY <1>4, <1>5, <1>6 DEF HasRoom

-----------------------------------------------------------------------------
\* The inductive invariant of ConnectAll, serving and CloseAll.
THEOREM Inductive == Spec => []IInv
  BY InvInit, InvNext, PTL DEF Spec

\* A server shown as connected always has a session to talk to.
THEOREM SessionBehindStatus == Spec => []ConnectedHasSession
<1>1. IInv => ConnectedHasSession
  BY DEF IInv, StatusInv, ConnectedHasSession
<1>2. QED
  BY Inductive, <1>1, PTL

\* No goroutine of ConnectAll sends on a closed channel or waits to send.
THEOREM ChannelNeverBlocks == Spec => []ChannelSafe
<1>1. IInv => ChannelSafe
  BY RoomForAll DEF IInv, PhaseInv, ChannelSafe
<1>2. QED
  BY Inductive, <1>1, PTL

\* ConnectAll fails "only when NO server connected successfully" (line 51),
\* and main serves with every server decided.
VerdictMatches ==
    /\ pc = "failed" => \A s \in Servers : status[s] = "failed"
    /\ pc \in {"serving", "closing", "exited"} =>
            /\ \E s \in Servers : status[s] = "connected"
            /\ \A s \in Servers : status[s] # "connecting"

\* ConnectAll answers only when every server is decided, and rightly.
LEMMA RightVerdict == Spec => []VerdictMatches
<1>1. IInv => VerdictMatches
  <2> SUFFICES ASSUME IInv PROVE VerdictMatches
    OBVIOUS
  <2>1. pc \notin {"start", "collect"} => \A s \in Servers : status[s] # "connecting"
    BY DEF IInv, PhaseInv, ResultInv
  <2>2. pc = "failed" => \A s \in Servers : status[s] # "connected"
    BY DEF IInv, PhaseInv, StatusInv
  <2>3. pc \in {"serving", "closing", "exited"} => \E s \in Servers : status[s] = "connected"
    BY DEF IInv, PhaseInv, StatusInv
  <2>4. QED
    BY <2>1, <2>2, <2>3 DEF IInv, TypeOK, VerdictMatches
<1>2. QED
  BY Inductive, <1>1, PTL

\* No upstream process outlives a main that has run to its end.
THEOREM NoOrphanLeft == Spec => []NoOrphans
<1>1. IInv => NoOrphans
  <2> SUFFICES ASSUME IInv, NEW s \in Servers, pc \in {"failed", "exited"}
               PROVE  session[s] # "open"
    BY DEF NoOrphans
  <2>1. CASE pc = "exited"
    BY <2>1 DEF IInv, PhaseInv
  <2>2. CASE pc = "failed"
    <3>1. conn[s] = "sent" /\ status[s] # "connecting" /\ status[s] # "connected"
      BY <2>2 DEF IInv, PhaseInv, ResultInv, StatusInv
    <3>2. QED
      BY <3>1 DEF IInv, TypeOK, StatusInv
  <2>3. QED
    BY <2>1, <2>2
<1>2. QED
  BY Inductive, <1>1, PTL

-----------------------------------------------------------------------------
(* ConnectAll implements PoolPromise: a received result is Decide, the      *)
(* return is Answer, everything else is a stutter.                          *)
LEMMA PromiseStep ==
    ASSUME IInv, [Next]_vars, VerdictMatches'
    PROVE  [Promise!Next]_<<status, Answered>>
<1>1. ASSUME NEW r \in Result, Receive(r) PROVE Promise!Next
  <2>1. /\ pc = "collect" /\ pc' = pc /\ r \in ch /\ r.server \in Servers
        /\ status[r.server] = "connecting"
    BY <1>1 DEF Receive, IInv, ResultInv, Result
  <2>2. \E o \in {"connected", "failed"} : status' = [status EXCEPT ![r.server] = o]
    BY <1>1 DEF Receive
  <2>3. Promise!Decide(r.server)
    BY <2>1, <2>2 DEF Promise!Decide, Answered
  <2>4. QED
    BY <2>1, <2>3 DEF Promise!Next
<1>2. ASSUME ConnectAllReturns PROVE Promise!Next
  <2>1. pc = "collect" /\ pc' \in {"failed", "serving"} /\ status' = status
    BY <1>2 DEF ConnectAllReturns
  <2>2. Promise!Answer
    BY <2>1 DEF VerdictMatches, Answered, Promise!Answer
  <2>3. QED
    BY <2>2 DEF Promise!Next
<1>3. ASSUME NEW s \in Servers, Connecting(s) \/ UpstreamDies(s) \/ CloseEntry(s)
      PROVE  UNCHANGED <<status, Answered>>
  BY <1>3 DEF Connecting, DialSucceeds, DialFails, SendResult, UpstreamDies, CloseEntry, Answered
<1>4. ASSUME StartConnectAll \/ CloseChannel \/ StopServing \/ Exit
      PROVE  UNCHANGED <<status, Answered>>
  BY <1>4 DEF StartConnectAll, CloseChannel, StopServing, Exit, Answered
<1>5. CASE UNCHANGED vars
  BY <1>5 DEF vars, Answered
<1>6. QED
  BY <1>1, <1>2, <1>3, <1>4, <1>5 DEF Next, Collecting, Closing

\* Every behaviour of the pool is one that PoolPromise allows.
THEOREM PromiseKept == Spec => KeepsPromise
<1>1. Init => Promise!Init
  BY DEF Init, Answered, Promise!Init
<1>2. IInv /\ VerdictMatches' /\ [Next]_vars => [Promise!Next]_<<status, Answered>>
  BY PromiseStep
<1>3. QED
  BY Inductive, RightVerdict, <1>1, <1>2, PTL DEF Spec, KeepsPromise, Promise!Spec
=============================================================================
