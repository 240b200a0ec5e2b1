---------------------------- MODULE BrokerClient ----------------------------
(***************************************************************************)
(* internal/brokerclient: the hop loop by which producers and workers find *)
(* the leader, together with what a broker tells them about it             *)
(* (currentLeaderAddr, leaderID).  The goroutines of a process share one   *)
(* Client, its index current and its map conns, without a lock.  Of raft   *)
(* only terms and leaderships are left; what a call does once the leader   *)
(* has it is the subject of module Broker.                                 *)
(***************************************************************************)
EXTENDS Integers, FiniteSets, FiniteSetsExt

CONSTANTS
    Brokers,    \* size of the cluster; brokers are numbered from 0
    Addrs,      \* the client was given the addresses of 0 .. Addrs - 1
    Advertised, \* brokers that go by the same address in their redirects
    Thread,     \* goroutines that use the client
    Uses,       \* the methods each of them calls
    MaxTerm     \* bound: the highest term

Broker == 0 .. (Brokers - 1)
Unknown == -1       \* no broker, and the empty redirect address

ASSUME ClientAssumption ==
    /\ Brokers \in Nat \ {0} /\ Addrs \in 1 .. Brokers
    /\ Advertised \subseteq 0 .. (Addrs - 1)
    /\ Uses \in [Thread -> SUBSET {"Submit", "Complete", "Poll", "Heartbeat", "GetResult"}]
    /\ MaxTerm \in Nat

VARIABLES
    term,       \* currentTerm of each broker
    leads,      \* brokers that believe they are leader
    up,         \* brokers that have not crashed
    leaderID,   \* whom a broker has last recorded as leader
    accepted,   \* leaders whose AppendEntries a broker accepted but has not
                \* recorded in leaderID yet
    calm,       \* history: are crashes, elections and lost messages over?
    current,    \* index of the address believed to be the leader's
    conns,      \* addresses in the map of connections
    call,       \* the call each thread is in
    ended       \* history: the call that ended last, if none has begun since

raftVars == <<term, leads, up, calm>>
hintVars == <<leaderID, accepted>>
clientVars == <<current, conns, call, ended>>
vars == <<raftVars, hintVars, clientVars>>

Idle == [pc |-> "idle"]
NotEnded == [by |-> {}]

Init ==
    /\ term = [b \in Broker |-> 0]
    /\ leads = {}
    /\ up = Broker
    /\ leaderID = [b \in Broker |-> Unknown]
    /\ accepted = [b \in Broker |-> {}]
    /\ calm = FALSE
    /\ current = 0
    /\ conns = {}
    /\ call = [t \in Thread |-> Idle]
    /\ ended = NotEnded

IsMajority(Q) == 2 * Cardinality(Q) > Brokers

-----------------------------------------------------------------------------
(* The cluster                                                             *)

\* The brokers of Q elect b; the others hear nothing of it.
Elect(b, Q) ==
    LET t == Max({term[q] : q \in Q}) + 1 IN
    /\ ~calm /\ b \in Q /\ Q \subseteq up /\ IsMajority(Q)
    /\ t <= MaxTerm
    /\ term' = [q \in Broker |-> IF q \in Q THEN t ELSE term[q]]
    /\ leads' = (leads \ Q) \cup {b}
    /\ UNCHANGED <<up, calm, hintVars, clientVars>>

\* Bound: a majority stays up, otherwise the cluster never settles.
Crash(b) ==
    /\ ~calm /\ b \in up /\ IsMajority(up \ {b})
    /\ up' = up \ {b}
    /\ leads' = leads \ {b}
    /\ UNCHANGED <<term, calm, hintVars, clientVars>>

\* The handler around raft's AppendEntries.  A leader of an older term is
\* refused and steps down; an accepted one is to be recorded.
AppendEntries(l, b) ==
    /\ l \in leads /\ b \in up \ {l}
    /\ IF term[l] < term[b]
       THEN /\ term' = [term EXCEPT ![l] = term[b]]
            /\ leads' = leads \ {l}
            /\ UNCHANGED accepted
       ELSE /\ term' = [term EXCEPT ![b] = term[l]]
            /\ leads' = leads \ {b}
            /\ accepted' = [accepted EXCEPT ![b] = @ \cup {l}]
    /\ UNCHANGED <<up, calm, leaderID, clientVars>>

\* Mutant: the first leader a broker hears of stays on record.
RecordOnce(b, l) == IF leaderID[b] = Unknown THEN l ELSE leaderID[b]

Recorded(b, l) == l

\* The record is made after raft has let go of its lock, in any order.
RecordLeader(b, l) ==
    /\ b \in up /\ l \in accepted[b]
    /\ leaderID' = [leaderID EXCEPT ![b] = Recorded(b, l)]
    /\ accepted' = [accepted EXCEPT ![b] = @ \ {l}]
    /\ UNCHANGED <<raftVars, clientVars>>

\* Can leader b still get an entry committed?
CanCommit(b) ==
    /\ b \in leads \cap up
    /\ IsMajority({q \in up : term[q] <= term[b]})

\* From now on nothing disturbs the cluster, and it has a leader.
Settle ==
    /\ ~calm
    /\ \E l \in leads : CanCommit(l) /\ \A b \in up : term[b] <= term[l]
    /\ calm' = TRUE
    /\ UNCHANGED <<term, leads, up, hintVars, clientVars>>

-----------------------------------------------------------------------------
(* What a broker answers                                                   *)

currentLeaderAddr(b) == IF b \in leads THEN b ELSE leaderID[b]

Ok == [kind |-> "ok"]
NotLeader(b) == [kind |-> "notLeader", redirect |-> currentLeaderAddr(b)]
Error == [kind |-> "error"]

\* Submit and Complete wait for the entry to commit.  A leader that commits it
\* may answer Ok or, if the wake-up is lost, give up after commitTimeout and
\* name itself.  Poll and Heartbeat look at leadership only, GetResult is
\* answered by any broker.
Replies(method, b) ==
    CASE method = "GetResult" -> {Ok}
      [] method \in {"Poll", "Heartbeat"} ->
           {IF b \in leads THEN Ok ELSE NotLeader(b)}
      [] method \in {"Submit", "Complete"} ->
           {r \in {Ok, NotLeader(b)} : r = Ok => CanCommit(b)}

Serve(t) ==
    /\ call[t].pc = "sent" /\ call[t].at \in up
    /\ \E r \in Replies(call[t].method, call[t].at) :
         call' = [call EXCEPT ![t].pc = "reply", ![t].reply = r]
    /\ UNCHANGED <<raftVars, hintVars, current, conns, ended>>

\* The call cannot be sent or its answer is lost; rpcTimeout, which is
\* commitTimeout, expires while the broker waits; the context of a Heartbeat
\* is cancelled because the task is finished.
Fail(t) ==
    /\ call[t].pc = "sent"
    /\ \/ ~calm
       \/ call[t].at \notin up
       \/ call[t].method \in {"Submit", "Complete", "Heartbeat"}
    /\ call' = [call EXCEPT ![t].pc = "reply", ![t].reply = Error]
    /\ UNCHANGED <<raftVars, hintVars, current, conns, ended>>

-----------------------------------------------------------------------------
(* Client.call                                                             *)

maxHops == Max({2 * Addrs, 2})

addrIndex(addr) == IF addr \in Advertised THEN addr ELSE -1

Begin(t, method) ==
    /\ call[t].pc = "idle"
    /\ call' = [call EXCEPT ![t] = [pc |-> "hop", method |-> method, hop |-> 0]]
    /\ ended' = NotEnded
    /\ UNCHANGED <<raftVars, hintVars, current, conns>>

\* clientFor looks the address up in conns.
Send(t) ==
    /\ call[t].pc = "hop"
    /\ call' = [call EXCEPT ![t] =
                  [pc |-> IF current \in conns THEN "sent" ELSE "dial",
                   method |-> @.method, hop |-> @.hop,
                   at |-> current, reply |-> Error]]
    /\ UNCHANGED <<raftVars, hintVars, current, conns, ended>>

\* grpc.NewClient connects lazily and does not fail; the write to the map ...
Dial(t) ==
    /\ call[t].pc = "dial"
    /\ call' = [call EXCEPT ![t].pc = "store"]
    /\ UNCHANGED <<raftVars, hintVars, current, conns, ended>>

\* ... takes its time.
StoreConn(t) ==
    /\ call[t].pc = "store"
    /\ conns' = conns \cup {call[t].at}
    /\ call' = [call EXCEPT ![t].pc = "sent"]
    /\ UNCHANGED <<raftVars, hintVars, current, ended>>

End(t, result) ==
    /\ call' = [call EXCEPT ![t] = Idle]
    /\ ended' = [by |-> {t}, method |-> call[t].method, result |-> result]

\* Go round the loop, or give up.
NextHop(t) ==
    \/ /\ call[t].hop + 1 < maxHops
       /\ call' = [call EXCEPT ![t] =
                     [pc |-> "hop", method |-> @.method, hop |-> @.hop + 1]]
       /\ UNCHANGED ended
    \/ call[t].hop + 1 >= maxHops /\ End(t, "failed")

Redirects(r) == r.kind = "notLeader" /\ r.redirect # Unknown

\* Without an error and without a redirect the call has succeeded: also when
\* the broker refused it because it knows no leader ("refused").
Return(t) ==
    LET r == call[t].reply IN
    /\ call[t].pc = "reply" /\ r # Error /\ ~Redirects(r)
    /\ End(t, IF r = Ok THEN "ok" ELSE "refused")
    /\ UNCHANGED <<raftVars, hintVars, current, conns>>

FollowRedirect(t) ==
    LET r == call[t].reply IN
    /\ call[t].pc = "reply" /\ Redirects(r) /\ addrIndex(r.redirect) >= 0
    /\ current' = addrIndex(r.redirect)
    /\ NextHop(t)
    /\ UNCHANGED <<raftVars, hintVars, conns>>

\* Mutant: the index runs past the end of the list.
NoWrap(k) == k + 1

Following(k) == (k + 1) % Addrs

\* The next address is computed from current ...
ReadCurrent(t) ==
    LET r == call[t].reply IN
    /\ call[t].pc = "reply"
    /\ r = Error \/ (Redirects(r) /\ addrIndex(r.redirect) < 0)
    /\ call' = [call EXCEPT ![t] =
                  [pc |-> "advance", method |-> @.method, hop |-> @.hop,
                   next |-> Following(current)]]
    /\ UNCHANGED <<raftVars, hintVars, current, conns, ended>>

\* ... and stored, whatever another goroutine has stored in between.
StoreCurrent(t) ==
    /\ call[t].pc = "advance"
    /\ current' = call[t].next
    /\ NextHop(t)
    /\ UNCHANGED <<raftVars, hintVars, conns>>

Hop(t) ==
    \/ Send(t) \/ Dial(t) \/ StoreConn(t) \/ Serve(t) \/ Fail(t)
    \/ Return(t) \/ FollowRedirect(t) \/ ReadCurrent(t) \/ StoreCurrent(t)

-----------------------------------------------------------------------------
Next ==
    \/ \E b \in Broker, Q \in SUBSET Broker : Elect(b, Q)
    \/ \E b, l \in Broker :
         AppendEntries(l, b) \/ RecordLeader(b, l)
    \/ \E b \in Broker : Crash(b)
    \/ Settle
    \/ \E t \in Thread : Hop(t) \/ \E m \in Uses[t] : Begin(t, m)

Acknowledge(t, method) ==
    Serve(t) /\ call[t].method = method /\ call'[t].reply = Ok

\* Leaders send heartbeats and handlers finish.  Calls of one method that
\* reach a leader again and again are not all given up: a wake-up is lost, or
\* a heartbeat cancelled, now and then.
Fairness ==
    /\ \A b, l \in Broker :
         WF_vars(AppendEntries(l, b)) /\ WF_vars(RecordLeader(b, l))
    /\ \A t \in Thread :
         /\ WF_vars(Hop(t))
         /\ \A m \in Uses[t] \ {"Poll", "GetResult"} : SF_vars(Acknowledge(t, m))

Spec == Init /\ [][Next]_vars /\ Fairness

-----------------------------------------------------------------------------
(* Properties                                                              *)

\* The client's index stays within its address list and its hops within
\* maxHops, whatever the goroutines store over each other; brokers only
\* record brokers.
ClientTypeOK ==
    /\ current \in 0 .. (Addrs - 1) /\ conns \subseteq 0 .. (Addrs - 1)
    /\ \A b \in Broker : leaderID[b] \in Broker \cup {Unknown}
    /\ \A t \in Thread :
         \/ call[t] = Idle
         \/ /\ call[t].pc \in {"hop", "dial", "store", "sent", "reply", "advance"}
            /\ call[t].hop < maxHops

Calling(t, method) == call[t].pc # "idle" /\ call[t].method = method
Ended(t, method) == ended.by = {t} /\ ended.method = method

\* The goroutines' calls do not overlap.
OneAtATime ==
    \A t, u \in Thread : t # u => "idle" \in {call[t].pc, call[u].pc}

\* Once the cluster has settled on a leader and calls do not overlap, a method
\* that is called again and again reaches the leader again and again, from
\* whatever address the calls before it left behind: the redirects of brokers
\* that missed the election are put right, and the loop gets past crashed and
\* deposed brokers within its hops (README: "finds the leader by trying each
\* address and following redirect_addr responses").  In the end every call
\* succeeds, except that one which waits for a commit or is cancelled may give
\* up with an error; none is refused.
FindsLeader ==
    <>[](calm /\ OneAtATime) => \A t \in Thread : \A m \in Uses[t] :
        []<>Calling(t, m) =>
            /\ []<>(Ended(t, m) /\ ended.result = "ok")
            /\ <>[](Ended(t, m) => ended.result \in
                      {"ok"} \cup (IF m \in {"Poll", "GetResult"} THEN {} ELSE {"failed"}))

\* "It is safe for concurrent use": while a goroutine writes to the map conns
\* no other looks into it or writes to it, as the Go runtime demands.
ConnsUnshared ==
    [][\A t, u \in Thread :
          t # u /\ call[u].pc = "store" /\ call[t].pc \in {"hop", "dial"}
              => call'[t] = call[t]]_vars

\* "Submit submits a new task payload and returns its assigned task ID": a
\* Submit that ends without an error has been taken by a leader, whatever the
\* broker it was sent to knows of the cluster.
SubmitAcknowledged ==
    [][\A t \in Thread :
          (call[t].pc = "reply" /\ call[t].method = "Submit" /\ call'[t].pc = "idle")
              => ended'.result \in {"ok", "failed"}]_vars
=============================================================================
