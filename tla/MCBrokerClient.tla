--------------------------- MODULE MCBrokerClient ---------------------------
(* The broker client on small instances, for TLC.                          *)
EXTENDS BrokerClient

CONSTANTS
    First,      \* the leader at the start
    beat        \* the goroutine of a worker that sends its heartbeats

\* One goroutine sends heartbeats, the other makes the calls that are answered
\* differently: Submit is answered as Complete is.
WorkerUses ==
    [t \in Thread |-> IF t = beat THEN {"Heartbeat"}
                      ELSE {"Poll", "Complete", "GetResult"}]
ProducerUses == [t \in Thread |-> {"Submit", "GetResult"}]

Addresses == 0 .. (Addrs - 1)

\* The cluster has elected First and everybody has recorded it.
Led ==
    /\ term = [b \in Broker |-> 1]
    /\ leads = {First}
    /\ up = Broker
    /\ leaderID = [b \in Broker |-> IF b = First THEN Unknown ELSE First]
    /\ accepted = [b \in Broker |-> {}]
    /\ calm = FALSE

\* What is to come is the election of a second leader.  The client may believe
\* anything, and has one connection or all.
InitLed ==
    /\ Led
    /\ current \in Addresses
    /\ conns \in {{current}, Addresses}
    /\ call = [t \in Thread |-> Idle]
    /\ ended = NotEnded

\* Bound: calls overlap while the cluster is as it was at the start, which may
\* mean any loss of messages.  Afterwards all connections are made, and there
\* are calls, one at a time, while there is no leader and once the cluster has
\* settled: what calls before have left behind is current, which is arbitrary.
Bound ==
    \/ Led
    \/ /\ conns = Addresses
       /\ \/ ended = NotEnded /\ \A t \in Thread : call[t] = Idle
          \/ OneAtATime /\ (calm \/ leads = {})

SpecLed == InitLed /\ [][Next /\ Bound']_vars /\ Fairness
=============================================================================
