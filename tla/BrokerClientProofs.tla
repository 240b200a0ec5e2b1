------------------------- MODULE BrokerClientProofs -------------------------
(***************************************************************************)
(* Proof that the goroutines of a process, which share the index current   *)
(* without a lock, never leave the address list or exceed maxHops, for     *)
(* every cluster, address list and number of goroutines.                   *)
(***************************************************************************)
EXTENDS BrokerClient, TLAPS

Index == 0 .. (Addrs - 1)
Hops == 0 .. (maxHops - 1)
Method == {"Submit", "Complete", "Poll", "Heartbeat", "GetResult"}
Answer == {Ok, Error} \cup [kind : {"notLeader"}, redirect : Broker \cup {Unknown}]

\* What a call can be: its hop is below the bound, and an index that was
\* computed and not stored yet is one of the list, too.
Call ==
    {Idle}
        \cup [pc : {"hop"}, method : Method, hop : Hops]
        \cup [pc : {"dial", "store", "sent", "reply"}, method : Method, hop : Hops,
              at : Index, reply : Answer]
        \cup [pc : {"advance"}, method : Method, hop : Hops, next : Index]

\* The inductive invariant: leaders that were accepted and are to be recorded
\* are brokers as well.
ClientInv ==
    /\ current \in Index /\ conns \subseteq Index
    /\ leads \subseteq Broker
    /\ leaderID \in [Broker -> Broker \cup {Unknown}]
    /\ accepted \in [Broker -> SUBSET Broker]
    /\ call \in [Thread -> Call]

-----------------------------------------------------------------------------
\* The bound on the hops is the larger of the two numbers: at least 2.
LEMMA HopsBound == maxHops \in Nat /\ maxHops >= 2
<1>1. Addrs \in Nat
  BY ClientAssumption
<1>2. \E x \in {2 * Addrs, 2} : \A y \in {2 * Addrs, 2} : x >= y
  <2>1. CASE 2 * Addrs >= 2
    BY <1>1, <2>1
  <2>2. CASE ~(2 * Addrs >= 2)
    BY <1>1, <2>2
  <2> QED
    BY <2>1, <2>2
<1>3. maxHops \in {2 * Addrs, 2} /\ \A y \in {2 * Addrs, 2} : maxHops >= y
  BY <1>2 DEF maxHops, Max
<1> QED
  BY <1>1, <1>3

\* A call's own fields.
LEMMA CallFields ==
    ASSUME ClientInv, NEW t \in Thread
    PROVE  /\ call[t] \in Call
           /\ call[t].pc \in {"idle", "hop", "dial", "store", "sent", "reply", "advance"}
           /\ call[t].pc = "idle" => call[t] = Idle
           /\ call[t].pc # "idle" => call[t].hop \in Hops /\ call[t].method \in Method
           /\ call[t].pc \in {"dial", "store", "sent", "reply"} =>
                call[t] \in [pc : {"dial", "store", "sent", "reply"}, method : Method,
                             hop : Hops, at : Index, reply : Answer]
           /\ call[t].pc = "advance" => call[t].next \in Index
  BY DEF ClientInv, Call, Idle

\* Going round the loop keeps the hops within the bound.
LEMMA HopStays ==
    ASSUME ClientInv, NEW t \in Thread, call[t].pc # "idle", NextHop(t)
    PROVE  call' \in [Thread -> Call]
<1>1. call[t].hop \in Hops /\ call[t].method \in Method
  BY CallFields
<1>2. CASE call[t].hop + 1 < maxHops
  <2>1. call[t].hop + 1 \in Hops
    BY <1>1, <1>2, HopsBound DEF Hops
  <2>2. [pc |-> "hop", method |-> call[t].method, hop |-> call[t].hop + 1] \in Call
    BY <1>1, <2>1 DEF Call
  <2>3. call' = [call EXCEPT ![t] =
                   [pc |-> "hop", method |-> call[t].method, hop |-> call[t].hop + 1]]
    BY <1>1, <1>2, HopsBound DEF NextHop, Hops
  <2> QED
    BY <2>2, <2>3 DEF ClientInv
<1>3. CASE ~(call[t].hop + 1 < maxHops)
  BY <1>3 DEF NextHop, End, ClientInv, Call
<1> QED
  BY <1>2, <1>3

\* The next address is one of the list, and so is one that was recognised.
LEMMA IndexStays ==
    /\ \A k \in Index : Following(k) \in Index
    /\ \A addr : addrIndex(addr) >= 0 => addrIndex(addr) \in Index
<1>1. Addrs \in Nat /\ Addrs > 0
  BY ClientAssumption
<1>2. ASSUME NEW k \in Index
      PROVE  Following(k) \in Index
  BY <1>1 DEF Index, Following
<1>3. ASSUME NEW addr, addrIndex(addr) >= 0
      PROVE  addrIndex(addr) \in Index
  <2>1. CASE addr \in Advertised
    BY <2>1, ClientAssumption DEF Index, addrIndex
  <2>2. CASE addr \notin Advertised
    <3>1. addrIndex(addr) = -1
      BY <2>2 DEF addrIndex
    <3> QED
      BY <1>3, <3>1
  <2> QED
    BY <2>1, <2>2
<1> QED
  BY <1>2, <1>3

\* Nothing is known at the start.
LEMMA ClientInvInit == Init => ClientInv
<1> SUFFICES ASSUME Init PROVE ClientInv
  OBVIOUS
<1>1. 0 \in Index
  BY ClientAssumption DEF Index
<1>2. Idle \in Call
  BY DEF Call
<1> QED
  BY <1>1, <1>2 DEF Init, ClientInv, Unknown

\* Elections and recorded leaders: the cluster knows no one outside it.
LEMMA ClientInvCluster ==
    ASSUME ClientInv,
           \/ \E b \in Broker, Q \in SUBSET Broker : Elect(b, Q)
           \/ \E b, l \in Broker : AppendEntries(l, b) \/ RecordLeader(b, l)
           \/ \E b \in Broker : Crash(b)
           \/ Settle
           \/ UNCHANGED vars
    PROVE  ClientInv'
<1>1. ASSUME NEW b \in Broker, NEW Q \in SUBSET Broker, Elect(b, Q)
      PROVE  ClientInv'
  BY <1>1 DEF ClientInv, Elect, hintVars, clientVars
<1>2. ASSUME NEW b \in Broker, NEW l \in Broker, AppendEntries(l, b)
      PROVE  ClientInv'
  <2>1. CASE term[l] < term[b]
    BY <1>2, <2>1 DEF ClientInv, AppendEntries, clientVars
  <2>2. CASE ~(term[l] < term[b])
    BY <1>2, <2>2 DEF ClientInv, AppendEntries, clientVars
  <2> QED
    BY <2>1, <2>2
<1>3. ASSUME NEW b \in Broker, NEW l \in Broker, RecordLeader(b, l)
      PROVE  ClientInv'
  BY <1>3 DEF ClientInv, RecordLeader, Recorded, raftVars, clientVars
<1>4. ASSUME NEW b \in Broker, Crash(b)
      PROVE  ClientInv'
  BY <1>4 DEF ClientInv, Crash, hintVars, clientVars
<1>5. ASSUME Settle \/ UNCHANGED vars
      PROVE  ClientInv'
  BY <1>5 DEF ClientInv, Settle, vars, raftVars, hintVars, clientVars
<1> QED
  BY <1>1, <1>2, <1>3, <1>4, <1>5

\* What a broker answers.
LEMMA ReplyIs ==
    ASSUME ClientInv, NEW m \in Method, NEW b \in Broker, NEW r \in Replies(m, b)
    PROVE  r \in Answer
<1>1. currentLeaderAddr(b) \in Broker \cup {Unknown}
  BY DEF ClientInv, currentLeaderAddr
<1>2. r = Ok \/ r = NotLeader(b)
  BY DEF Replies, Method
<1> QED
  BY <1>1, <1>2 DEF NotLeader, Answer

\* A goroutine that begins, sends, is answered or returns leaves current alone.
LEMMA ClientInvCall ==
    ASSUME ClientInv, NEW t \in Thread,
           \/ Send(t) \/ Dial(t) \/ StoreConn(t) \/ Serve(t) \/ Fail(t) \/ Return(t)
           \/ \E m \in Uses[t] : Begin(t, m)
    PROVE  ClientInv'
<1>1. UNCHANGED <<raftVars, hintVars, current>>
  BY DEF Send, Dial, StoreConn, Serve, Fail, Return, Begin
<1>2. call \in [Thread -> Call] /\ current \in Index /\ conns \subseteq Index
  BY DEF ClientInv
<1>3. conns' \subseteq Index
  <2>1. CASE StoreConn(t)
    <3>1. call[t].at \in Index
      BY <2>1, CallFields DEF StoreConn
    <3> QED
      BY <1>2, <2>1, <3>1 DEF StoreConn
  <2>2. CASE UNCHANGED conns
    BY <1>2, <2>2
  <2> QED
    BY <2>1, <2>2 DEF Send, Dial, Serve, Fail, Return, Begin
<1>4. SUFFICES call' \in [Thread -> Call]
  BY <1>1, <1>3 DEF ClientInv, raftVars, hintVars
<1>5. CASE Send(t)
  <2>1. [pc |-> IF current \in conns THEN "sent" ELSE "dial",
         method |-> call[t].method, hop |-> call[t].hop,
         at |-> current, reply |-> Error] \in Call
    BY <1>2, <1>5, CallFields DEF Send, Call, Answer
  <2> QED
    BY <1>2, <1>5, <2>1 DEF Send
<1>6. CASE Dial(t) \/ StoreConn(t)
  <2>1. PICK pc \in {"store", "sent"} : call' = [call EXCEPT ![t].pc = pc]
    BY <1>6 DEF Dial, StoreConn
  <2>2. call[t] \in [pc : {"dial", "store", "sent", "reply"}, method : Method,
                     hop : Hops, at : Index, reply : Answer]
    BY <1>6, CallFields DEF Dial, StoreConn
  <2>3. [call[t] EXCEPT !.pc = pc] \in Call
    BY <2>1, <2>2 DEF Call
  <2> QED
    BY <1>2, <2>1, <2>3
<1>7. CASE Serve(t) \/ Fail(t)
  <2>1. PICK r \in Answer : call' = [call EXCEPT ![t].pc = "reply", ![t].reply = r]
    <3>1. CASE Serve(t)
      <4>1. PICK r \in Replies(call[t].method, call[t].at) :
                call' = [call EXCEPT ![t].pc = "reply", ![t].reply = r]
        BY <3>1 DEF Serve
      <4>2. call[t].method \in Method /\ call[t].at \in Broker
        BY <3>1, CallFields, ClientAssumption DEF Serve, Index, Broker
      <4>3. r \in Answer
        BY <4>2, ReplyIs
      <4> QED
        BY <4>1, <4>3
    <3>2. CASE Fail(t)
      BY <3>2 DEF Fail, Answer
    <3> QED
      BY <1>7, <3>1, <3>2
  <2>2. call[t] \in [pc : {"dial", "store", "sent", "reply"}, method : Method,
                     hop : Hops, at : Index, reply : Answer]
    BY <1>7, CallFields DEF Serve, Fail
  <2>3. [call[t] EXCEPT !.pc = "reply", !.reply = r] \in Call
    BY <2>1, <2>2 DEF Call
  <2>4. call' = [call EXCEPT ![t] = [call[t] EXCEPT !.pc = "reply", !.reply = r]]
    BY <1>2, <2>1
  <2> QED
    BY <1>2, <2>3, <2>4
<1>8. CASE Return(t)
  BY <1>2, <1>8 DEF Return, End, Call
<1>9. ASSUME NEW m \in Uses[t], Begin(t, m)
      PROVE  call' \in [Thread -> Call]
  <2>1. 0 \in Hops /\ m \in Method
    BY HopsBound, ClientAssumption DEF Hops, Method
  <2>2. [pc |-> "hop", method |-> m, hop |-> 0] \in Call
    BY <2>1 DEF Call
  <2> QED
    BY <1>2, <1>9, <2>2 DEF Begin
<1> QED
  BY <1>5, <1>6, <1>7, <1>8, <1>9

\* A goroutine that computes or stores current.
LEMMA ClientInvAdvance ==
    ASSUME ClientInv, NEW t \in Thread,
           FollowRedirect(t) \/ ReadCurrent(t) \/ StoreCurrent(t)
    PROVE  ClientInv'
<1>1. call \in [Thread -> Call] /\ current \in Index
  BY DEF ClientInv
<1>2. CASE FollowRedirect(t)
  <2>1. current' \in Index
    BY <1>2, IndexStays DEF FollowRedirect
  <2>2. call' \in [Thread -> Call]
    BY <1>2, HopStays DEF FollowRedirect
  <2> QED
    BY <1>2, <2>1, <2>2 DEF FollowRedirect, ClientInv, raftVars, hintVars
<1>3. CASE ReadCurrent(t)
  <2>1. call[t].hop \in Hops /\ call[t].method \in Method
    BY <1>3, CallFields DEF ReadCurrent
  <2>2. Following(current) \in Index
    BY <1>1, IndexStays
  <2>3. [pc |-> "advance", method |-> call[t].method, hop |-> call[t].hop,
         next |-> Following(current)] \in Call
    BY <2>1, <2>2 DEF Call
  <2>4. call' \in [Thread -> Call]
    BY <1>1, <1>3, <2>3 DEF ReadCurrent
  <2> QED
    BY <1>3, <2>4 DEF ReadCurrent, ClientInv, raftVars, hintVars
<1>4. CASE StoreCurrent(t)
  <2>1. current' \in Index
    BY <1>4, CallFields DEF StoreCurrent
  <2>2. call' \in [Thread -> Call]
    BY <1>4, HopStays DEF StoreCurrent
  <2> QED
    BY <1>4, <2>1, <2>2 DEF StoreCurrent, ClientInv, raftVars, hintVars
<1> QED
  BY <1>2, <1>3, <1>4

\* The invariant gives the property.
LEMMA ClientInvType == ClientInv => ClientTypeOK
<1> SUFFICES ASSUME ClientInv PROVE ClientTypeOK
  OBVIOUS
<1>1. current \in 0 .. (Addrs - 1)
  BY DEF ClientInv, Index
<1>2. \A b \in Broker : leaderID[b] \in Broker \cup {Unknown}
  BY DEF ClientInv
<1>3. ASSUME NEW t \in Thread
      PROVE  \/ call[t] = Idle
             \/ /\ call[t].pc \in {"hop", "dial", "store", "sent", "reply", "advance"}
                /\ call[t].hop < maxHops
  BY CallFields, HopsBound DEF Hops
<1>4. conns \subseteq 0 .. (Addrs - 1)
  BY DEF ClientInv, Index
<1> QED
  BY <1>1, <1>2, <1>3, <1>4 DEF ClientTypeOK

\* Whatever the goroutines of a process store over each other in current, and
\* whatever stale or unknown leader a broker names, the client's index stays
\* within its address list and its hops within maxHops.
THEOREM ClientTypeCorrect == Spec => []ClientTypeOK
<1>1. ASSUME ClientInv, [Next]_vars PROVE ClientInv'
  BY <1>1, ClientInvCluster, ClientInvCall, ClientInvAdvance DEF Next, Hop
<1> QED
  BY <1>1, ClientInvInit, ClientInvType, PTL DEF Spec
=============================================================================
