---------------------------- MODULE BrokerProofs ----------------------------
(***************************************************************************)
(* Proofs of the broker's safety properties, from the invariants of        *)
(* BrokerInv: the task tables, the calls that wait for an entry, and the   *)
(* tables of handed-out tasks; and that the brokers together implement one *)
(* TaskQueue: a step of Broker is one of the abstract queue, or stutters.  *)
(***************************************************************************)
EXTENDS BrokerRefinement, BrokerRaftProofs

-----------------------------------------------------------------------------
(* Steps of the broker and steps of the cluster *)

\* The kinds of command.
LEMMA CmdKinds ==
    ASSUME NEW cmd \in Cmd
    PROVE  \/ decodeCommand(cmd) = ""
           \/ decodeCommand(cmd) = "submit" /\ cmd.id \in Task
           \/ /\ decodeCommand(cmd) = "complete"
              /\ cmd.id \in Task /\ cmd.data \in Result
  BY DEF Cmd, decodeCommand

\* Only raft and the two calls that propose change anything in raft.
LEMMA StepActions ==
    ASSUME [Next]_vars
    PROVE  \/ UNCHANGED raftVars
           \/ RaftNext
           \/ \E c \in Submission, i \in Node : Submit(c, i)
           \/ \E c \in Completion, w \in Worker, i \in Node, r \in Result :
                  Complete(c, w, i, r)
<1>1. CASE RaftStep
  BY <1>1 DEF RaftStep
<1>2. CASE \E i \in Node :
             \/ ApplyLoop(i)
             \/ GetState(i, "checkStalledTasks", i) \/ checkStalledTasks(i)
             \/ \E t \in Task : Lapse(i, t)
             \/ \E w \in Worker, call \in {"Poll", "Heartbeat"} :
                    GetState(w, call, i)
  BY <1>2 DEF ApplyLoop, GetState, checkStalledTasks, Lapse
<1>3. CASE \E c \in Op : Register(c) \/ Woken(c) \/ TimedOut(c)
  BY <1>3 DEF Register, Woken, TimedOut
<1>4. CASE \E h \in Thread : refreshLeaderState(h)
  BY <1>4 DEF refreshLeaderState
<1>5. CASE \E w \in Worker : Poll(w) \/ Heartbeat(w) \/ Release(w)
  BY <1>5 DEF Poll, Heartbeat, Release
<1>6. CASE UNCHANGED vars
  BY <1>6 DEF vars
<1> QED
  BY <1>1, <1>2, <1>3, <1>4, <1>5, <1>6 DEF Next

\* The commands they append are well formed.
LEMMA StepKinds ==
    ASSUME SchedulingTypes, [Next]_vars
    PROVE  \/ UNCHANGED raftVars
           \/ RaftNext \/ \E i \in Node, cmd \in Cmd : StartOn(i, cmd)
<1>1. ASSUME NEW c \in Submission, NEW i \in Node, Submit(c, i)
      PROVE  \E cmd \in Cmd : StartOn(i, cmd)
  BY <1>1 DEF Submit, Propose, Cmd, SubmitCmd, Task
<1>2. ASSUME NEW c \in Completion, NEW w \in Worker, NEW i \in Node,
             NEW r \in Result, Complete(c, w, i, r)
      PROVE  \E cmd \in Cmd : StartOn(i, cmd)
  <2>1. holding[w] \in Task
    BY <1>2 DEF Complete, SchedulingTypes
  <2> QED
    BY <1>2, <2>1 DEF Complete, Propose, Cmd, CompleteCmd
<1> QED
  BY <1>1, <1>2, StepActions

\* Every step keeps the cluster's invariant and what is committed.
LEMMA StepKeepsCluster ==
    ASSUME ClusterInv, SchedulingTypes, [Next]_vars
    PROVE  ClusterInv' /\ CommitsStay
<1>1. CASE UNCHANGED raftVars
  <2>1. log' = log /\ commit' = commit /\ term' = term /\ leading' = leading
    BY <1>1 DEF raftVars
  <2>2. \A i \in Node : /\ term[i] \in Nat /\ commit[i] \in Nat
                        /\ Len(log[i]) \in Nat
    BY EntryFacts DEF ClusterInv
  <2>3. CommitsStay
    BY <2>1, <2>2 DEF CommitsStay, SameUpTo
  <2>4. RaftTypes' /\ CalmStep
    BY <2>1, <2>2 DEF CalmStep, ClusterInv, RaftTypes
  <2> QED
    BY <2>3, <2>4, CalmKeeps
<1>2. CASE RaftNext \/ \E i \in Node, cmd \in Cmd : StartOn(i, cmd)
  <2>1. ClusterInv'
    BY <1>2, ClusterKept
  <2>2. RaftTypes'
    BY <2>1 DEF ClusterInv
  <2> QED
    BY <1>2, <2>1, <2>2, CommitsStayOnRaft
<1> QED
  BY <1>1, <1>2, StepKinds

-----------------------------------------------------------------------------
(* What applyLoop builds *)

\* The submitted and the completed tasks depend on the entries up to n only,
\* and entry n + 1 may add one.
LEMMA TasksUpTo ==
    ASSUME NEW l, NEW r, NEW n \in Nat, SameUpTo(l, r, n),
           NEW p \in Nat, p <= n
    PROVE  /\ SubmittedIn(l, p) = SubmittedIn(r, p)
           /\ CompletedIn(l, p) = CompletedIn(r, p)
<1>1. \A k \in 1..p : l[k] = r[k]
  BY DEF SameUpTo
<1> QED
  BY <1>1 DEF SubmittedIn, CompletedIn

\* More entries, more tasks.
LEMMA TasksGrow ==
    ASSUME NEW l, NEW n \in Nat, NEW p \in Nat, p <= n
    PROVE  /\ SubmittedIn(l, p) \subseteq SubmittedIn(l, n)
           /\ CompletedIn(l, p) \subseteq CompletedIn(l, n)
<1>1. \A k \in 1..p : k \in 1..n
  OBVIOUS
<1> QED
  BY <1>1 DEF SubmittedIn, CompletedIn

\* What the next entry adds.
LEMMA TasksNext ==
    ASSUME NEW l, NEW n \in Nat
    PROVE  /\ SubmittedIn(l, n + 1) =
                SubmittedIn(l, n) \cup {t \in Task : IsSubmit(l[n + 1], t)}
           /\ CompletedIn(l, n + 1) =
                CompletedIn(l, n) \cup {t \in Task : IsComplete(l[n + 1], t)}
<1>1. \A k : k \in 1..(n + 1) <=> k \in 1..n \/ k = n + 1
  OBVIOUS
<1> QED
  BY <1>1 DEF SubmittedIn, CompletedIn

\* Nothing, when it submits no new task.
LEMMA TasksSame ==
    ASSUME NEW l, NEW n \in Nat,
           \A t \in Task : IsSubmit(l[n + 1], t) => t \in SubmittedIn(l, n)
    PROVE  SubmittedIn(l, n + 1) = SubmittedIn(l, n)
<1> DEFINE New == {t \in Task : IsSubmit(l[n + 1], t)}
<1>1. SubmittedIn(l, n + 1) = SubmittedIn(l, n) \cup New
  BY TasksNext
<1>2. New \subseteq SubmittedIn(l, n)
  OBVIOUS
<1> HIDE DEF New
<1> QED
  BY <1>1, <1>2

\* Tables made from a log are made from each that is the same so far.
LEMMA MadeFromSame ==
    ASSUME NEW s, NEW e, NEW l, NEW r, NEW n \in Nat, SameUpTo(l, r, n),
           MadeFrom(s, e, l, n)
    PROVE  MadeFrom(s, e, r, n)
<1>1. \A k \in 1..n : l[k] = r[k]
  BY DEF SameUpTo
<1>2. /\ SubmittedIn(l, n) = SubmittedIn(r, n)
      /\ CompletedIn(l, n) = CompletedIn(r, n)
  BY TasksUpTo
<1>3. \A p \in 1..n : /\ SubmittedIn(l, p) = SubmittedIn(r, p)
                      /\ SubmittedIn(l, p - 1) = SubmittedIn(r, p - 1)
  <2>1. ASSUME NEW p \in 1..n
        PROVE  p \in Nat /\ p - 1 \in Nat /\ p <= n /\ p - 1 <= n
    OBVIOUS
  <2> QED
    BY <2>1, TasksUpTo
<1>4. OrderOf(s, r, n)
  <2>1. Range(s) = SubmittedIn(r, n) /\ Len(s) = Cardinality(SubmittedIn(r, n))
    BY <1>2 DEF MadeFrom, OrderOf
  <2>2. ASSUME NEW k \in 1..Len(s)
        PROVE  \E p \in 1..n :
                 /\ IsSubmit(r[p], s[k])
                 /\ s[k] \notin SubmittedIn(r, p - 1)
                 /\ Cardinality(SubmittedIn(r, p)) = k
    BY <1>1, <1>3 DEF MadeFrom, OrderOf
  <2> QED
    BY <2>1, <2>2 DEF OrderOf
<1>5. \A t \in DOMAIN e : LastResult(r, n, t, e[t])
  <2>1. ASSUME NEW t \in DOMAIN e
        PROVE  LastResult(r, n, t, e[t])
    <3>1. PICK k \in 1..n : /\ IsComplete(l[k], t) /\ l[k].cmd.data = e[t]
                            /\ \A m \in (k + 1)..n : ~IsComplete(l[m], t)
      BY DEF MadeFrom, LastResult
    <3>2. \A m \in (k + 1)..n : m \in 1..n
      OBVIOUS
    <3> QED
      BY <1>1, <3>1, <3>2 DEF LastResult
  <2> QED
    BY <2>1
<1> QED
  BY <1>2, <1>4, <1>5 DEF MadeFrom

\* The order stays as it is when the next entry submits nothing new, ...
LEMMA OrderStays ==
    ASSUME NEW s, NEW l, NEW n \in Nat, OrderOf(s, l, n),
           SubmittedIn(l, n + 1) = SubmittedIn(l, n)
    PROVE  OrderOf(s, l, n + 1)
<1>1. \A p \in 1..n : p \in 1..(n + 1)
  OBVIOUS
<1> QED
  BY <1>1 DEF OrderOf

\* ... and ends with the task that it submits first.
LEMMA OrderGrows ==
    ASSUME NEW s \in Seq(Task), NEW l, NEW n \in Nat, OrderOf(s, l, n),
           NEW t \in Task, t \notin Range(s),
           \A u : IsSubmit(l[n + 1], u) <=> u = t
    PROVE  OrderOf(Append(s, t), l, n + 1)
<1> DEFINE S == SubmittedIn(l, n)
           q == Append(s, t)
<1>1. SubmittedIn(l, n + 1) = S \cup {t}
  BY TasksNext
<1>2. /\ Len(s) \in Nat /\ Len(q) = Len(s) + 1 /\ q[Len(s) + 1] = t
      /\ \A k \in 1..Len(s) : q[k] = s[k]
      /\ DOMAIN q = 1..Len(q) /\ DOMAIN s = 1..Len(s)
  OBVIOUS
<1>3. Range(q) = S \cup {t}
  <2>1. \A k : k \in DOMAIN q <=> k \in DOMAIN s \/ k = Len(s) + 1
    BY <1>2
  <2>2. Range(q) = Range(s) \cup {t}
    BY <1>2, <2>1 DEF Range
  <2> QED
    BY <2>2 DEF OrderOf
<1>4. Cardinality(S \cup {t}) = Len(s) + 1
  <2>1. s \in Surjection(1..Len(s), Range(s))
    BY <1>2 DEF Surjection, Range
  <2>2. IsFiniteSet(1..Len(s))
    BY <1>2, FS_Interval
  <2>3. IsFiniteSet(Range(s))
    BY <2>1, <2>2, FS_Surjection
  <2>4. Range(s) = S /\ Cardinality(S) = Len(s)
    BY DEF OrderOf
  <2> QED
    BY <2>3, <2>4, FS_AddElement
<1>5. ASSUME NEW k \in 1..Len(q)
      PROVE  \E p \in 1..(n + 1) :
               /\ IsSubmit(l[p], q[k])
               /\ q[k] \notin SubmittedIn(l, p - 1)
               /\ Cardinality(SubmittedIn(l, p)) = k
  <2>1. CASE k \in 1..Len(s)
    <3>1. PICK p \in 1..n : /\ IsSubmit(l[p], s[k])
                            /\ s[k] \notin SubmittedIn(l, p - 1)
                            /\ Cardinality(SubmittedIn(l, p)) = k
      BY <2>1 DEF OrderOf
    <3>2. p \in 1..(n + 1)
      OBVIOUS
    <3> QED
      BY <1>2, <2>1, <3>1, <3>2
  <2>2. CASE k = Len(s) + 1
    <3>1. n + 1 \in 1..(n + 1) /\ (n + 1) - 1 = n
      OBVIOUS
    <3>2. t \notin S
      BY DEF OrderOf
    <3> QED
      BY <1>1, <1>2, <1>4, <2>2, <3>1, <3>2
  <2> QED
    BY <1>2, <2>1, <2>2
<1> QED
  BY <1>1, <1>2, <1>3, <1>4, <1>5 DEF OrderOf

\* The results stay when the next entry completes nothing, ...
LEMMA ResultsStay ==
    ASSUME NEW e, NEW l, NEW n \in Nat,
           e \in [CompletedIn(l, n) -> Result],
           \A t \in DOMAIN e : LastResult(l, n, t, e[t]),
           \A t : ~IsComplete(l[n + 1], t)
    PROVE  /\ e \in [CompletedIn(l, n + 1) -> Result]
           /\ \A t \in DOMAIN e : LastResult(l, n + 1, t, e[t])
<1>1. CompletedIn(l, n + 1) = CompletedIn(l, n)
  <2>1. {t \in Task : IsComplete(l[n + 1], t)} = {}
    OBVIOUS
  <2>2. CompletedIn(l, n + 1) =
            CompletedIn(l, n) \cup {t \in Task : IsComplete(l[n + 1], t)}
    BY TasksNext
  <2> QED
    BY <2>1, <2>2
<1>2. ASSUME NEW t \in DOMAIN e
      PROVE  LastResult(l, n + 1, t, e[t])
  <2>1. PICK k \in 1..n : /\ IsComplete(l[k], t) /\ l[k].cmd.data = e[t]
                          /\ \A m \in (k + 1)..n : ~IsComplete(l[m], t)
    BY DEF LastResult
  <2>2. /\ k \in 1..(n + 1)
        /\ \A m \in (k + 1)..(n + 1) : m \in (k + 1)..n \/ m = n + 1
    OBVIOUS
  <2> QED
    BY <2>1, <2>2 DEF LastResult
<1> QED
  BY <1>1, <1>2

\* ... and otherwise the entry's result is the last one of its task.
LEMMA ResultsGrow ==
    ASSUME NEW e, NEW l, NEW n \in Nat,
           e \in [CompletedIn(l, n) -> Result],
           \A t \in DOMAIN e : LastResult(l, n, t, e[t]),
           NEW t \in Task, NEW r \in Result, l[n + 1].cmd.data = r,
           \A u : IsComplete(l[n + 1], u) <=> u = t,
           NEW f, f = With(e, t, r)
    PROVE  /\ f \in [CompletedIn(l, n + 1) -> Result]
           /\ \A u \in DOMAIN f : LastResult(l, n + 1, u, f[u])
<1>1. /\ DOMAIN f = CompletedIn(l, n) \cup {t}
      /\ f = [u \in DOMAIN f |-> f[u]]
      /\ f[t] = r /\ \A u \in DOMAIN e : u # t => f[u] = e[u]
      /\ DOMAIN e = CompletedIn(l, n)
  BY DEF With
<1>2. CompletedIn(l, n + 1) = CompletedIn(l, n) \cup {t}
  BY TasksNext
<1>3. \A u \in DOMAIN f : f[u] \in Result
  BY <1>1
<1>4. ASSUME NEW u \in DOMAIN f
      PROVE  LastResult(l, n + 1, u, f[u])
  <2>1. CASE u = t
    <3>1. n + 1 \in 1..(n + 1) /\ \A m \in ((n + 1) + 1)..(n + 1) : FALSE
      OBVIOUS
    <3> QED
      BY <1>1, <2>1, <3>1 DEF LastResult
  <2>2. CASE u # t
    <3>1. u \in DOMAIN e /\ f[u] = e[u]
      BY <1>1, <2>2
    <3>2. PICK k \in 1..n : /\ IsComplete(l[k], u) /\ l[k].cmd.data = e[u]
                            /\ \A m \in (k + 1)..n : ~IsComplete(l[m], u)
      BY <3>1 DEF LastResult
    <3>3. /\ k \in 1..(n + 1)
          /\ \A m \in (k + 1)..(n + 1) : m \in (k + 1)..n \/ m = n + 1
      OBVIOUS
    <3> QED
      BY <2>2, <3>1, <3>2, <3>3 DEF LastResult
  <2> QED
    BY <2>1, <2>2
<1>5. f \in [CompletedIn(l, n + 1) -> Result]
  BY <1>1, <1>2, <1>3
<1> QED
  BY <1>4, <1>5

\* A submission applied.
LEMMA MadeSubmit ==
    ASSUME NEW s \in Seq(Task), NEW e, NEW l, NEW n \in Nat,
           MadeFrom(s, e, l, n), NEW t \in Task,
           decodeCommand(l[n + 1].cmd) = "submit", l[n + 1].cmd.id = t
    PROVE  /\ t \in Range(s) => MadeFrom(s, e, l, n + 1)
           /\ t \notin Range(s) => MadeFrom(Append(s, t), e, l, n + 1)
<1>1. /\ \A u : IsSubmit(l[n + 1], u) <=> u = t
      /\ \A u : ~IsComplete(l[n + 1], u)
  BY DEF IsSubmit, IsComplete
<1>2. /\ OrderOf(s, l, n) /\ e \in [CompletedIn(l, n) -> Result]
      /\ \A u \in DOMAIN e : LastResult(l, n, u, e[u])
  BY DEF MadeFrom
<1>3. /\ e \in [CompletedIn(l, n + 1) -> Result]
      /\ \A u \in DOMAIN e : LastResult(l, n + 1, u, e[u])
  BY <1>1, <1>2, ResultsStay
<1>4. ASSUME t \in Range(s)
      PROVE  OrderOf(s, l, n + 1)
  <2>1. t \in SubmittedIn(l, n)
    BY <1>2, <1>4 DEF OrderOf
  <2>2. SubmittedIn(l, n + 1) = SubmittedIn(l, n)
    BY <1>1, <2>1, TasksSame
  <2> QED
    BY <1>2, <2>2, OrderStays
<1>5. ASSUME t \notin Range(s)
      PROVE  OrderOf(Append(s, t), l, n + 1)
  BY <1>1, <1>2, <1>5, OrderGrows
<1> QED
  BY <1>3, <1>4, <1>5 DEF MadeFrom

\* A completion applied.
LEMMA MadeComplete ==
    ASSUME NEW s, NEW e, NEW l, NEW n \in Nat,
           MadeFrom(s, e, l, n), NEW t \in Task, NEW r \in Result,
           decodeCommand(l[n + 1].cmd) = "complete",
           l[n + 1].cmd.id = t, l[n + 1].cmd.data = r
    PROVE  MadeFrom(s, With(e, t, r), l, n + 1)
<1>0. PICK f : f = With(e, t, r)
  OBVIOUS
<1>1. /\ \A u : IsComplete(l[n + 1], u) <=> u = t
      /\ \A u : ~IsSubmit(l[n + 1], u)
  BY DEF IsSubmit, IsComplete
<1>2. /\ OrderOf(s, l, n) /\ e \in [CompletedIn(l, n) -> Result]
      /\ \A u \in DOMAIN e : LastResult(l, n, u, e[u])
  BY DEF MadeFrom
<1>3. /\ f \in [CompletedIn(l, n + 1) -> Result]
      /\ \A u \in DOMAIN f : LastResult(l, n + 1, u, f[u])
  BY <1>0, <1>1, <1>2, ResultsGrow
<1>4. OrderOf(s, l, n + 1)
  <2>1. SubmittedIn(l, n + 1) = SubmittedIn(l, n)
    BY <1>1, TasksSame
  <2> QED
    BY <1>2, <2>1, OrderStays
<1> QED
  BY <1>0, <1>3, <1>4 DEF MadeFrom

\* A no-op applied.
LEMMA MadeNothing ==
    ASSUME NEW s, NEW e, NEW l, NEW n \in Nat,
           MadeFrom(s, e, l, n), decodeCommand(l[n + 1].cmd) = ""
    PROVE  MadeFrom(s, e, l, n + 1)
<1>1. /\ \A u : ~IsComplete(l[n + 1], u)
      /\ \A u : ~IsSubmit(l[n + 1], u)
  BY DEF IsSubmit, IsComplete
<1>2. /\ OrderOf(s, l, n) /\ e \in [CompletedIn(l, n) -> Result]
      /\ \A u \in DOMAIN e : LastResult(l, n, u, e[u])
  BY DEF MadeFrom
<1>3. /\ e \in [CompletedIn(l, n + 1) -> Result]
      /\ \A u \in DOMAIN e : LastResult(l, n + 1, u, e[u])
  BY <1>1, <1>2, ResultsStay
<1>4. OrderOf(s, l, n + 1)
  <2>1. SubmittedIn(l, n + 1) = SubmittedIn(l, n)
    BY <1>1, TasksSame
  <2> QED
    BY <1>2, <2>1, OrderStays
<1> QED
  BY <1>3, <1>4 DEF MadeFrom

\* The entry that applyLoop takes is in the log, and committed.
LEMMA AppliedIndex ==
    ASSUME ClusterInv, TablesMade, NEW i \in Node, ApplyLoop(i)
    PROVE  /\ applied[i] \in Nat /\ applied[i] + 1 <= commit[i]
           /\ applied[i] + 1 \in 1..Len(log[i])
           /\ log[i][applied[i] + 1] \in LogEntry
           /\ log[i][applied[i] + 1].cmd \in Cmd
<1>1. applied[i] \in Nat /\ applied[i] < commit[i]
  BY DEF ApplyLoop, NextOnCommitCh, TablesMade
<1>2. RaftTypes /\ CommitsProtected
  BY DEF ClusterInv
<1>3. /\ commit[i] \in Nat /\ commit[i] <= Len(log[i]) /\ Len(log[i]) \in Nat
      /\ \A n \in 1..Len(log[i]) : log[i][n] \in LogEntry
  BY <1>2, EntryFacts DEF CommitsProtected
<1>4. applied[i] + 1 \in 1..Len(log[i]) /\ applied[i] + 1 <= commit[i]
  BY <1>1, <1>3
<1> QED
  BY <1>1, <1>3, <1>4 DEF LogEntry

\* An entry applied: the tables are made from one entry more.
LEMMA AppliedTables ==
    ASSUME ClusterInv, TablesMade, NEW i \in Node, ApplyLoop(i)
    PROVE  /\ applied' = [applied EXCEPT ![i] = applied[i] + 1]
           /\ submittedOrder' \in [Node -> Seq(Task)] /\ DOMAIN errors' = Node
           /\ \A j \in Node \ {i} : /\ submittedOrder'[j] = submittedOrder[j]
                                    /\ errors'[j] = errors[j]
           /\ MadeFrom(submittedOrder'[i], errors'[i], log[i], applied[i] + 1)
<1>1. PICK n \in Nat, cmd \in Cmd :
          n = applied[i] /\ cmd = log[i][n + 1].cmd
  BY AppliedIndex
<1>2. PICK s, e, l : s = submittedOrder[i] /\ e = errors[i] /\ l = log[i]
  OBVIOUS
<1>3. /\ MadeFrom(s, e, l, n) /\ s \in Seq(Task) /\ DOMAIN errors = Node
      /\ submittedOrder \in [Node -> Seq(Task)]
  BY <1>1, <1>2 DEF TablesMade
<1>4. /\ applied' = [applied EXCEPT ![i] = n + 1]
      /\ \/ ApplySubmit(i, cmd) \/ ApplyComplete(i, cmd)
         \/ /\ decodeCommand(cmd) = ""
            /\ UNCHANGED <<submittedOrder, errors, inflight>>
  BY <1>1 DEF ApplyLoop
<1>5. /\ submittedOrder' \in [Node -> Seq(Task)] /\ DOMAIN errors' = Node
      /\ \A j \in Node \ {i} : /\ submittedOrder'[j] = submittedOrder[j]
                               /\ errors'[j] = errors[j]
      /\ MadeFrom(submittedOrder'[i], errors'[i], l, n + 1)
  <2>1. CASE ApplySubmit(i, cmd)
    <3>1. PICK t \in Task : /\ t = cmd.id /\ decodeCommand(cmd) = "submit"
                            /\ errors' = errors
      BY <2>1, CmdKinds DEF ApplySubmit
    <3>2. /\ t \in Range(s) => MadeFrom(s, e, l, n + 1)
          /\ t \notin Range(s) => MadeFrom(Append(s, t), e, l, n + 1)
      BY <1>1, <1>2, <1>3, <3>1, MadeSubmit
    <3>3. CASE t \in Range(s)
      <4>1. submittedOrder' = submittedOrder
        BY <1>2, <2>1, <3>1, <3>3 DEF ApplySubmit
      <4> QED
        BY <1>2, <1>3, <3>1, <3>2, <3>3, <4>1
    <3>4. CASE t \notin Range(s)
      <4>1. submittedOrder' = [submittedOrder EXCEPT ![i] = Append(s, t)]
        BY <1>2, <2>1, <3>1, <3>4 DEF ApplySubmit
      <4>2. Append(s, t) \in Seq(Task)
        BY <1>3
      <4> QED
        BY <1>2, <1>3, <3>1, <3>2, <3>4, <4>1, <4>2
    <3> QED
      BY <3>3, <3>4
  <2>2. CASE ApplyComplete(i, cmd)
    <3>1. PICK t \in Task, r \in Result :
              /\ t = cmd.id /\ r = cmd.data
              /\ decodeCommand(cmd) = "complete"
      BY <2>2, CmdKinds DEF ApplyComplete
    <3>2. PICK f : f = With(e, t, r)
      OBVIOUS
    <3>3. errors' = [errors EXCEPT ![i] = f] /\ submittedOrder' = submittedOrder
      BY <1>2, <2>2, <3>1, <3>2 DEF ApplyComplete
    <3>4. MadeFrom(s, f, l, n + 1)
      BY <1>1, <1>2, <1>3, <3>1, <3>2, MadeComplete
    <3> QED
      BY <1>2, <1>3, <3>3, <3>4
  <2>3. CASE /\ decodeCommand(cmd) = ""
             /\ UNCHANGED <<submittedOrder, errors, inflight>>
    BY <1>1, <1>2, <1>3, <2>3, MadeNothing
  <2> QED
    BY <1>4, <2>1, <2>2, <2>3
<1> QED
  BY <1>1, <1>2, <1>4, <1>5

\* Only applyLoop changes the tables.
LEMMA TablesChange ==
    ASSUME [Next]_vars, ~UNCHANGED tables
    PROVE  \E i \in Node : ApplyLoop(i)
<1>1. CASE RaftStep
  BY <1>1 DEF RaftStep, tables
<1>2. CASE \E i \in Node :
             \/ GetState(i, "checkStalledTasks", i) \/ checkStalledTasks(i)
             \/ \E t \in Task : Lapse(i, t)
             \/ \E c \in Submission : Submit(c, i)
             \/ \E c \in Completion, w \in Worker, r \in Result :
                    Complete(c, w, i, r)
             \/ \E w \in Worker, call \in {"Poll", "Heartbeat"} :
                    GetState(w, call, i)
  BY <1>2 DEF GetState, checkStalledTasks, Lapse, Submit, Complete, Propose,
              tables
<1>3. CASE \E c \in Op : Register(c) \/ Woken(c) \/ TimedOut(c)
  BY <1>3 DEF Register, Woken, TimedOut, tables
<1>4. CASE \E h \in Thread : refreshLeaderState(h)
  BY <1>4 DEF refreshLeaderState, tables
<1>5. CASE \E w \in Worker : Poll(w) \/ Heartbeat(w) \/ Release(w)
  BY <1>5 DEF Poll, Heartbeat, Release, tables
<1>6. CASE UNCHANGED vars
  BY <1>6 DEF vars, tables
<1> QED
  BY <1>1, <1>2, <1>3, <1>4, <1>5, <1>6 DEF Next

\* Every step keeps the tables those of the entries applied.
LEMMA TablesKept ==
    ASSUME ClusterInv, TablesMade, CommitsStay, [Next]_vars
    PROVE  TablesMade'
<1>1. CASE UNCHANGED tables
  <2>1. /\ applied' = applied /\ submittedOrder' = submittedOrder
        /\ errors' = errors
    BY <1>1 DEF tables
  <2>2. ASSUME NEW i \in Node
        PROVE  /\ applied[i] <= commit'[i]
               /\ MadeFrom(submittedOrder[i], errors[i], log'[i], applied[i])
    <3>1. /\ applied[i] \in Nat /\ applied[i] <= commit[i]
          /\ MadeFrom(submittedOrder[i], errors[i], log[i], applied[i])
      BY DEF TablesMade
    <3>2. /\ commit[i] \in Nat /\ commit'[i] \in Nat /\ commit'[i] >= commit[i]
          /\ SameUpTo(log'[i], log[i], commit[i])
      BY EntryFacts DEF ClusterInv, CommitsStay
    <3>3. PICK n \in Nat : n = applied[i]
      BY <3>1
    <3>4. PICK s, e, l, r : /\ s = submittedOrder[i] /\ e = errors[i]
                            /\ l = log[i] /\ r = log'[i]
      OBVIOUS
    <3>5. SameUpTo(l, r, n) /\ MadeFrom(s, e, l, n)
      BY <3>1, <3>2, <3>3, <3>4 DEF SameUpTo
    <3>6. MadeFrom(s, e, r, n)
      BY <3>5, MadeFromSame
    <3>7. applied[i] <= commit'[i]
      BY <3>1, <3>2
    <3> QED
      BY <3>3, <3>4, <3>6, <3>7
  <2>3. /\ applied' \in [Node -> Nat] /\ submittedOrder' \in [Node -> Seq(Task)]
        /\ DOMAIN errors' = Node
    BY <2>1 DEF TablesMade
  <2>4. \A i \in Node :
          /\ applied'[i] <= commit'[i]
          /\ MadeFrom(submittedOrder'[i], errors'[i], log'[i], applied'[i])
    BY <2>1, <2>2
  <2> QED
    BY <2>3, <2>4 DEF TablesMade, MadeFrom, OrderOf, LastResult, SubmittedIn,
                      CompletedIn
<1>2. ASSUME NEW i \in Node, ApplyLoop(i)
      PROVE  TablesMade'
  <2>1. /\ applied' = [applied EXCEPT ![i] = applied[i] + 1]
        /\ submittedOrder' \in [Node -> Seq(Task)] /\ DOMAIN errors' = Node
        /\ \A j \in Node \ {i} : /\ submittedOrder'[j] = submittedOrder[j]
                                 /\ errors'[j] = errors[j]
        /\ MadeFrom(submittedOrder'[i], errors'[i], log[i], applied[i] + 1)
    BY <1>2, AppliedTables
  <2>2. applied[i] \in Nat /\ applied[i] + 1 <= commit[i]
    BY <1>2, AppliedIndex
  <2>3. log' = log /\ commit' = commit
    BY <1>2 DEF ApplyLoop, raftVars
  <2>4. /\ applied \in [Node -> Nat]
        /\ \A j \in Node :
             /\ applied[j] <= commit[j]
             /\ MadeFrom(submittedOrder[j], errors[j], log[j], applied[j])
    BY DEF TablesMade
  <2>5. applied' \in [Node -> Nat] /\ applied'[i] = applied[i] + 1
        /\ \A j \in Node \ {i} : applied'[j] = applied[j]
    BY <2>1, <2>2, <2>4
  <2>6. \A j \in Node :
          /\ applied'[j] <= commit'[j]
          /\ MadeFrom(submittedOrder'[j], errors'[j], log'[j], applied'[j])
    <3>1. ASSUME NEW j \in Node, j # i
          PROVE  /\ applied'[j] <= commit'[j]
                 /\ MadeFrom(submittedOrder'[j], errors'[j], log'[j], applied'[j])
      BY <2>1, <2>3, <2>4, <2>5, <3>1
    <3>2. /\ applied'[i] <= commit'[i]
          /\ MadeFrom(submittedOrder'[i], errors'[i], log'[i], applied'[i])
      BY <2>1, <2>2, <2>3, <2>5
    <3> QED
      BY <3>1, <3>2
  <2> QED
    BY <2>1, <2>5, <2>6 DEF TablesMade, MadeFrom, OrderOf, LastResult,
                            SubmittedIn, CompletedIn
<1> QED
  BY <1>1, <1>2, TablesChange

\* Replicas that have applied the same entries have the same tables, and a
\* longer log only adds to them.
LEMMA MadeFromPrefix ==
    ASSUME NEW s \in Seq(Task), NEW r \in Seq(Task), NEW e, NEW f, NEW l,
           NEW n \in Nat, NEW m \in Nat, n <= m,
           MadeFrom(s, e, l, n), MadeFrom(r, f, l, m)
    PROVE  /\ IsPrefix(s, r)
           /\ DOMAIN e \subseteq DOMAIN f
           /\ n = m => e = f
<1>1. /\ OrderOf(s, l, n) /\ OrderOf(r, l, m)
      /\ e \in [CompletedIn(l, n) -> Result]
      /\ f \in [CompletedIn(l, m) -> Result]
      /\ \A t \in DOMAIN e : LastResult(l, n, t, e[t])
      /\ \A t \in DOMAIN f : LastResult(l, m, t, f[t])
  BY DEF MadeFrom
<1>2. DOMAIN e \subseteq DOMAIN f
  BY <1>1, TasksGrow
<1>3. ASSUME n = m
      PROVE  e = f
  <2>1. DOMAIN e = DOMAIN f
    BY <1>1, <1>3
  <2>2. ASSUME NEW t \in DOMAIN e
        PROVE  e[t] = f[t]
    <3>1. PICK k \in 1..n : /\ IsComplete(l[k], t) /\ l[k].cmd.data = e[t]
                            /\ \A h \in (k + 1)..n : ~IsComplete(l[h], t)
      BY <1>1 DEF LastResult
    <3>2. PICK g \in 1..n : /\ IsComplete(l[g], t) /\ l[g].cmd.data = f[t]
                            /\ \A h \in (g + 1)..n : ~IsComplete(l[h], t)
      BY <1>1, <1>3, <2>1 DEF LastResult
    <3>3. ~(g \in (k + 1)..n) /\ ~(k \in (g + 1)..n)
      BY <3>1, <3>2
    <3>4. k = g
      BY <3>3
    <3> QED
      BY <3>1, <3>2, <3>4
  <2> QED
    BY <1>1, <2>1, <2>2
<1>4. /\ Len(s) \in Nat /\ Len(r) \in Nat
      /\ DOMAIN s = 1..Len(s) /\ DOMAIN r = 1..Len(r)
  OBVIOUS
<1>5. \A p \in 0..m : IsFiniteSet(SubmittedIn(l, p))
  <2>1. r \in Surjection(1..Len(r), Range(r))
    BY <1>4 DEF Surjection, Range
  <2>2. IsFiniteSet(Range(r))
    BY <1>4, <2>1, FS_Interval, FS_Surjection
  <2>3. \A p \in 0..m : SubmittedIn(l, p) \subseteq Range(r)
    BY <1>1, TasksGrow DEF OrderOf
  <2> QED
    BY <2>2, <2>3, FS_Subset
<1>6. Len(s) <= Len(r)
  <2>1. SubmittedIn(l, n) \subseteq SubmittedIn(l, m)
    BY TasksGrow
  <2>2. IsFiniteSet(SubmittedIn(l, m))
    BY <1>5
  <2> QED
    BY <1>1, <2>1, <2>2, FS_Subset DEF OrderOf
<1>7. ASSUME NEW k \in 1..Len(s)
      PROVE  s[k] = r[k]
  <2>1. PICK p \in 1..n : /\ IsSubmit(l[p], s[k])
                          /\ s[k] \notin SubmittedIn(l, p - 1)
                          /\ Cardinality(SubmittedIn(l, p)) = k
    BY <1>1 DEF OrderOf
  <2>2. PICK q \in 1..m : /\ IsSubmit(l[q], r[k])
                          /\ r[k] \notin SubmittedIn(l, q - 1)
                          /\ Cardinality(SubmittedIn(l, q)) = k
    <3>1. k \in 1..Len(r)
      BY <1>4, <1>6
    <3> QED
      BY <1>1, <3>1 DEF OrderOf
  <2>3. s[k] \in SubmittedIn(l, p) /\ r[k] \in SubmittedIn(l, q)
    <3>1. s[k] \in Task /\ r[k] \in Task
      BY <1>4, <1>6
    <3>2. p \in 1..p /\ q \in 1..q
      OBVIOUS
    <3> QED
      BY <2>1, <2>2, <3>1, <3>2 DEF SubmittedIn
  <2>4. ~(p < q)
    <3> SUFFICES ASSUME p < q
                 PROVE  FALSE
      OBVIOUS
    <3>1. SubmittedIn(l, p) \subseteq SubmittedIn(l, q)
      BY TasksGrow
    <3>2. IsFiniteSet(SubmittedIn(l, q))
      BY <1>5
    <3>3. SubmittedIn(l, p) = SubmittedIn(l, q)
      BY <2>1, <2>2, <3>1, <3>2, FS_Subset
    <3>4. p \in Nat /\ q - 1 \in Nat /\ p <= q - 1
      OBVIOUS
    <3>5. r[k] \in SubmittedIn(l, q - 1)
      BY <2>3, <3>3, <3>4, TasksGrow
    <3> QED
      BY <2>2, <3>5
  <2>5. ~(q < p)
    <3> SUFFICES ASSUME q < p
                 PROVE  FALSE
      OBVIOUS
    <3>1. SubmittedIn(l, q) \subseteq SubmittedIn(l, p)
      BY TasksGrow
    <3>2. IsFiniteSet(SubmittedIn(l, p))
      BY <1>5
    <3>3. SubmittedIn(l, p) = SubmittedIn(l, q)
      BY <2>1, <2>2, <3>1, <3>2, FS_Subset
    <3>4. q \in Nat /\ p - 1 \in Nat /\ q <= p - 1
      OBVIOUS
    <3>5. s[k] \in SubmittedIn(l, p - 1)
      BY <2>3, <3>3, <3>4, TasksGrow
    <3> QED
      BY <2>1, <3>5
  <2>6. p = q
    BY <2>4, <2>5
  <2> QED
    BY <2>1, <2>2, <2>6 DEF IsSubmit
<1>8. IsPrefix(s, r)
  BY <1>4, <1>6, <1>7 DEF IsPrefix
<1> QED
  BY <1>2, <1>3, <1>8

-----------------------------------------------------------------------------
(* The tables of handed-out tasks *)

\* A table of handed-out tasks, none of which is in D.
IsInflight(f, D) ==
    DOMAIN f \subseteq Task /\ f \in [DOMAIN f -> BOOLEAN] /\ DOMAIN f \cap D = {}

InflightTypes ==
    DOMAIN inflight = Node /\ \A i \in Node : IsInflight(inflight[i], Done(i))

\* What is left of it when tasks are taken out, and when one is put in.
LEMMA InflightParts ==
    ASSUME NEW f, NEW D, IsInflight(f, D), NEW X, NEW t
    PROVE  /\ IsInflight(Without(f, X), D \cup X)
           /\ t \in Task \ D => IsInflight(With(f, t, TRUE), D)
           /\ IsInflight(<<>>, D)
<1>1. IsInflight(Without(f, X), D \cup X)
  BY DEF IsInflight, Without, Restrict
<1>2. ASSUME t \in Task \ D
      PROVE  IsInflight(With(f, t, TRUE), D)
  BY <1>2 DEF IsInflight, With
<1>3. IsInflight(<<>>, D)
  BY DEF IsInflight
<1> QED
  BY <1>1, <1>2, <1>3

\* Only one node's table changes, or one node's tasks get done.
LEMMA InflightSet ==
    ASSUME InflightTypes, NEW i \in Node, NEW f, NEW D,
           inflight' = [inflight EXCEPT ![i] = f], IsInflight(f, D),
           DOMAIN errors'[i] = D,
           \A j \in Node \ {i} : DOMAIN errors'[j] = DOMAIN errors[j]
    PROVE  InflightTypes'
<1>1. DOMAIN inflight' = Node /\ inflight'[i] = f
      /\ \A j \in Node \ {i} : inflight'[j] = inflight[j]
  BY DEF InflightTypes
<1>2. IsInflight(inflight'[i], DOMAIN errors'[i])
  BY <1>1
<1>3. ASSUME NEW j \in Node \ {i}
      PROVE  IsInflight(inflight'[j], DOMAIN errors'[j])
  BY <1>1 DEF InflightTypes, Done
<1>4. \A j \in Node : IsInflight(inflight'[j], DOMAIN errors'[j])
  BY <1>2, <1>3
<1> QED
  BY <1>1, <1>4 DEF InflightTypes, Done, IsInflight

\* The rest of what the handlers keep.
HandlerTypes ==
    /\ wasLeader \in [Node -> BOOLEAN]
    /\ holding \in [Worker -> Task \cup {None}]
    /\ handler \in [Thread -> {IdleHandler} \cup HandlerRecord]

\* Both parts together.
LEMMA SchedulingParts ==
    SchedulingTypes /\ InflightNotDone <=> InflightTypes /\ HandlerTypes
BY DEF SchedulingTypes, InflightNotDone, InflightTypes, HandlerTypes, IsInflight

\* A handler that is not idle has a record.
LEMMA HandlerIs ==
    ASSUME HandlerTypes, NEW h \in Thread, handler[h].pc \in {"read", "work"}
    PROVE  handler[h] \in HandlerRecord /\ handler[h].node \in Node
BY DEF HandlerTypes, IdleHandler, HandlerRecord

\* An answer of raft, or the end of a handler, is of the right shape.
LEMMA HandlerSet ==
    ASSUME HandlerTypes, NEW h \in Thread,
           NEW r \in {IdleHandler} \cup HandlerRecord,
           handler' = [handler EXCEPT ![h] = r]
    PROVE  handler' \in [Thread -> {IdleHandler} \cup HandlerRecord]
BY DEF HandlerTypes

\* applyLoop takes a completed task out of the table of its node.
LEMMA ApplyKeepsInflight ==
    ASSUME ClusterInv, TablesMade, InflightTypes, NEW i \in Node, ApplyLoop(i)
    PROVE  InflightTypes'
<1>1. PICK n \in Nat, cmd \in Cmd :
          n = applied[i] /\ cmd = log[i][n + 1].cmd
  BY AppliedIndex
<1>2. \/ ApplySubmit(i, cmd) \/ ApplyComplete(i, cmd)
      \/ UNCHANGED <<submittedOrder, errors, inflight>>
  BY <1>1 DEF ApplyLoop
<1>3. CASE UNCHANGED <<errors, inflight>>
  BY <1>3 DEF InflightTypes, Done, IsInflight
<1>4. CASE ApplyComplete(i, cmd)
  <2>1. PICK t \in Task, r \in Result : t = cmd.id /\ r = cmd.data
    BY <1>4, CmdKinds DEF ApplyComplete
  <2>2. PICK f, g : f = Without(inflight[i], {t}) /\ g = With(errors[i], t, r)
    OBVIOUS
  <2>3. /\ errors' = [errors EXCEPT ![i] = g]
        /\ inflight' = [inflight EXCEPT ![i] = f]
    BY <1>4, <2>1, <2>2 DEF ApplyComplete, DropAssignment
  <2>4. DOMAIN g = Done(i) \cup {t}
    BY <2>2 DEF With, Done
  <2>5. IsInflight(f, Done(i) \cup {t})
    BY <2>2, InflightParts DEF InflightTypes
  <2>6. /\ DOMAIN errors'[i] = Done(i) \cup {t}
        /\ \A j \in Node \ {i} : DOMAIN errors'[j] = DOMAIN errors[j]
    BY <2>3, <2>4 DEF TablesMade
  <2> QED
    BY <2>3, <2>5, <2>6, InflightSet
<1> QED
  BY <1>2, <1>3, <1>4 DEF ApplySubmit

\* refreshLeaderState forgets, or leaves, what its node had handed out.
LEMMA RefreshKeeps ==
    ASSUME InflightTypes, HandlerTypes, NEW h \in Thread, refreshLeaderState(h)
    PROVE  InflightTypes' /\ HandlerTypes'
<1>1. PICK i \in Node, b \in BOOLEAN :
          /\ i = handler[h].node /\ b = handler[h].isLeader
          /\ handler[h] \in HandlerRecord
  BY HandlerIs DEF refreshLeaderState, HandlerRecord
<1>2. /\ inflight' = IF MustWipe(i, b)
                     THEN [inflight EXCEPT ![i] = <<>>] ELSE inflight
      /\ wasLeader' = [wasLeader EXCEPT ![i] = b]
      /\ handler' = [handler EXCEPT ![h] =
                       IF b THEN [handler[h] EXCEPT !.pc = "work"]
                       ELSE IdleHandler]
      /\ errors' = errors /\ holding' = holding
  BY <1>1 DEF refreshLeaderState, tables
<1>3. InflightTypes'
  <2>1. CASE inflight' = inflight
    BY <1>2, <2>1 DEF InflightTypes, Done, IsInflight
  <2>2. CASE inflight' = [inflight EXCEPT ![i] = <<>>]
    <3>1. IsInflight(<<>>, Done(i))
      BY InflightParts DEF InflightTypes
    <3> QED
      BY <1>2, <2>2, <3>1, InflightSet DEF Done
  <2> QED
    BY <1>2, <2>1, <2>2
<1>4. HandlerTypes'
  <2>1. PICK r : r = IF b THEN [handler[h] EXCEPT !.pc = "work"] ELSE IdleHandler
    OBVIOUS
  <2>2. r \in {IdleHandler} \cup HandlerRecord
    BY <1>1, <2>1 DEF HandlerRecord
  <2>3. handler' \in [Thread -> {IdleHandler} \cup HandlerRecord]
    BY <1>2, <2>1, <2>2, HandlerSet
  <2> QED
    BY <1>1, <1>2, <2>3 DEF HandlerTypes
<1> QED
  BY <1>3, <1>4

\* The task that Poll hands out, if any, is on the list and not done.
LEMMA PollTask ==
    ASSUME TablesMade, HandlerTypes, NEW w \in Worker, Poll(w)
    PROVE  /\ handler[w].node \in Node
           /\ \/ UNCHANGED <<inflight, holding>>
              \/ \E i \in Node, t \in Task :
                   /\ i = handler[w].node
                   /\ t \in Range(submittedOrder[i]) /\ t \notin Done(i)
                   /\ inflight' = [inflight EXCEPT ![i] = With(@, t, TRUE)]
                   /\ holding' = [holding EXCEPT ![w] = t]
<1>1. PICK i \in Node : i = handler[w].node
  <2>1. w \in Thread /\ handler[w].pc \in {"read", "work"}
    BY DEF Poll, Working, Thread
  <2> QED
    BY <2>1, HandlerIs
<1>2. CASE Pending(i) = {}
  BY <1>1, <1>2 DEF Poll
<1>3. CASE Pending(i) # {}
  <2>1. PICK n, t : n = Min(Pending(i)) /\ t = submittedOrder[i][n]
    OBVIOUS
  <2>2. submittedOrder[i] \in Seq(Task)
    BY DEF TablesMade
  <2>3. Pending(i) \subseteq Nat
    BY <2>2 DEF Pending
  <2>4. n \in Pending(i)
    BY <1>3, <2>1, <2>3, MinOfNats
  <2>5. n \in DOMAIN submittedOrder[i] /\ t \in Task /\ t \notin Done(i)
    BY <2>1, <2>4 DEF Pending, Available
  <2>6. t \in Range(submittedOrder[i])
    BY <2>1, <2>5 DEF Range
  <2>7. /\ inflight' = [inflight EXCEPT ![i] = With(@, t, TRUE)]
        /\ holding' = [holding EXCEPT ![w] = t]
    BY <1>1, <1>3, <2>1 DEF Poll
  <2> QED
    BY <1>1, <2>5, <2>6, <2>7
<1> QED
  BY <1>1, <1>2, <1>3

\* Poll hands out a task that is neither done nor handed out.
LEMMA PollKeeps ==
    ASSUME TablesMade, InflightTypes, HandlerTypes, NEW w \in Worker, Poll(w)
    PROVE  InflightTypes' /\ HandlerTypes'
<1>1. /\ errors' = errors /\ wasLeader' = wasLeader
      /\ handler' = [handler EXCEPT ![w] = IdleHandler] /\ w \in Thread
  BY DEF Poll, tables, Finish, Thread
<1>2. handler' \in [Thread -> {IdleHandler} \cup HandlerRecord]
  BY <1>1, HandlerSet
<1>3. CASE UNCHANGED <<inflight, holding>>
  BY <1>1, <1>2, <1>3 DEF InflightTypes, Done, IsInflight, HandlerTypes
<1>4. ASSUME NEW i \in Node, NEW t \in Task, t \notin Done(i),
             inflight' = [inflight EXCEPT ![i] = With(@, t, TRUE)],
             holding' = [holding EXCEPT ![w] = t]
      PROVE  InflightTypes' /\ HandlerTypes'
  <2>1. PICK f : f = With(inflight[i], t, TRUE)
    OBVIOUS
  <2>2. IsInflight(f, Done(i))
    BY <1>4, <2>1, InflightParts DEF InflightTypes
  <2>3. InflightTypes'
    BY <1>1, <1>4, <2>1, <2>2, InflightSet DEF Done
  <2> QED
    BY <1>1, <1>2, <1>4, <2>3 DEF HandlerTypes
<1> QED
  BY <1>3, <1>4, PollTask

\* The handlers that change an assignment in place, or drop stalled ones.
LEMMA OthersKeep ==
    ASSUME InflightTypes, HandlerTypes, RaftTypes,
           \/ \E w \in Worker : Heartbeat(w) \/ Release(w)
           \/ \E i \in Node : \/ i \in Checking /\ checkStalledTasks(i)
                              \/ \E t \in Task : Lapse(i, t)
           \/ \E h \in Thread, i \in Node,
                 call \in {"Poll", "Heartbeat", "checkStalledTasks"} :
                   GetState(h, call, i)
    PROVE  InflightTypes' /\ HandlerTypes'
<1>1. ASSUME NEW i \in Node, NEW t, NEW b \in BOOLEAN,
             t \in DOMAIN inflight[i],
             inflight' = [inflight EXCEPT ![i][t] = b], errors' = errors
      PROVE  InflightTypes'
  <2>1. PICK f : f = [inflight[i] EXCEPT ![t] = b]
    OBVIOUS
  <2>2. inflight' = [inflight EXCEPT ![i] = f]
    BY <1>1, <2>1 DEF InflightTypes
  <2>3. IsInflight(f, Done(i))
    <3>1. IsInflight(inflight[i], Done(i))
      BY DEF InflightTypes
    <3> QED
      BY <1>1, <2>1, <3>1 DEF IsInflight
  <2> QED
    BY <1>1, <2>2, <2>3, InflightSet DEF Done
<1>2. ASSUME inflight' = inflight, errors' = errors
      PROVE  InflightTypes'
  BY <1>2 DEF InflightTypes, Done, IsInflight
<1>3. ASSUME NEW w \in Worker, Heartbeat(w)
      PROVE  InflightTypes' /\ HandlerTypes'
  <2>1. w \in Thread /\ handler[w].pc \in {"read", "work"}
    BY <1>3 DEF Heartbeat, Working, Thread
  <2>2. PICK i, t : i = handler[w].node /\ t = handler[w].task
    OBVIOUS
  <2>3. i \in Node
    BY <2>1, <2>2, HandlerIs
  <2>4. /\ inflight' = IF t \in DOMAIN inflight[i]
                       THEN [inflight EXCEPT ![i][t] = TRUE] ELSE inflight
        /\ handler' = [handler EXCEPT ![w] = IdleHandler]
        /\ errors' = errors /\ wasLeader' = wasLeader /\ holding' = holding
    BY <1>3, <2>2 DEF Heartbeat, Finish, tables
  <2>5. InflightTypes'
    BY <1>1, <1>2, <2>3, <2>4
  <2>6. handler' \in [Thread -> {IdleHandler} \cup HandlerRecord]
    BY <2>1, <2>4, HandlerSet
  <2> QED
    BY <2>4, <2>5, <2>6 DEF HandlerTypes
<1>4. ASSUME NEW w \in Worker, Release(w)
      PROVE  InflightTypes' /\ HandlerTypes'
  <2>1. /\ inflight' = inflight /\ errors' = errors /\ handler' = handler
        /\ wasLeader' = wasLeader /\ holding' = [holding EXCEPT ![w] = None]
    BY <1>4 DEF Release, scheduling, tables
  <2> QED
    BY <1>2, <2>1 DEF HandlerTypes
<1>5. ASSUME NEW i \in Node, i \in Checking, checkStalledTasks(i)
      PROVE  InflightTypes' /\ HandlerTypes'
  <2>1. PICK f : f = Without(inflight[i], Stalled(i))
    OBVIOUS
  <2>2. /\ inflight' = [inflight EXCEPT ![i] = f] /\ errors' = errors
        /\ handler' = [handler EXCEPT ![i] = IdleHandler]
        /\ wasLeader' = wasLeader /\ holding' = holding /\ i \in Thread
    BY <1>5, <2>1 DEF checkStalledTasks, Finish, tables, Thread
  <2>3. IsInflight(f, Done(i))
    <3>1. IsInflight(f, Done(i) \cup Stalled(i))
      BY <2>1, InflightParts DEF InflightTypes
    <3> QED
      BY <3>1 DEF IsInflight
  <2>4. InflightTypes'
    BY <2>2, <2>3, InflightSet DEF Done
  <2>5. handler' \in [Thread -> {IdleHandler} \cup HandlerRecord]
    BY <2>2, HandlerSet
  <2> QED
    BY <2>2, <2>4, <2>5 DEF HandlerTypes
<1>6. ASSUME NEW i \in Node, NEW t \in Task, Lapse(i, t)
      PROVE  InflightTypes' /\ HandlerTypes'
  <2>1. /\ t \in DOMAIN inflight[i]
        /\ inflight' = [inflight EXCEPT ![i][t] = FALSE] /\ errors' = errors
        /\ handler' = handler /\ wasLeader' = wasLeader /\ holding' = holding
    BY <1>6 DEF Lapse, tables
  <2>2. InflightTypes'
    BY <1>1, <2>1
  <2> QED
    BY <2>1, <2>2 DEF HandlerTypes
<1>7. ASSUME NEW h \in Thread, NEW i \in Node,
             NEW call \in {"Poll", "Heartbeat", "checkStalledTasks"},
             GetState(h, call, i)
      PROVE  InflightTypes' /\ HandlerTypes'
  <2>1. PICK r : r = [pc |-> "read", call |-> call, node |-> i,
                      isLeader |-> leading[i],
                      task |-> IF call = "Heartbeat" THEN holding[h] ELSE None]
    OBVIOUS
  <2>2. r \in HandlerRecord
    <3>1. call = "Heartbeat" => holding[h] \in Task
      BY <1>7 DEF GetState, HandlerTypes
    <3> QED
      BY <1>7, <2>1, <3>1 DEF HandlerRecord, RaftTypes
  <2>3. /\ inflight' = inflight /\ errors' = errors /\ wasLeader' = wasLeader
        /\ holding' = holding /\ handler' = [handler EXCEPT ![h] = r]
    BY <1>7, <2>1 DEF GetState, scheduling, tables
  <2>4. handler' \in [Thread -> {IdleHandler} \cup HandlerRecord]
    BY <2>2, <2>3, HandlerSet
  <2> QED
    BY <1>2, <2>3, <2>4 DEF HandlerTypes
<1> QED
  BY <1>3, <1>4, <1>5, <1>6, <1>7

\* Every step keeps the tables of handed-out tasks.
LEMMA SchedulingKept ==
    ASSUME ClusterInv, TablesMade, SchedulingTypes, InflightNotDone, [Next]_vars
    PROVE  SchedulingTypes' /\ InflightNotDone'
<1>1. InflightTypes /\ HandlerTypes /\ RaftTypes
  BY SchedulingParts DEF ClusterInv
<1>0. (InflightTypes /\ HandlerTypes => SchedulingTypes /\ InflightNotDone)'
  BY SchedulingParts, PTL
<1> SUFFICES InflightTypes' /\ HandlerTypes'
  BY <1>0
<1>2. ASSUME inflight' = inflight, errors' = errors, wasLeader' = wasLeader,
             handler' = handler, holding' = holding
      PROVE  InflightTypes' /\ HandlerTypes'
  BY <1>1, <1>2 DEF InflightTypes, Done, IsInflight, HandlerTypes
<1>3. CASE RaftStep
  <2>1. /\ inflight' = inflight /\ errors' = errors /\ wasLeader' = wasLeader
        /\ handler' = handler /\ holding' = holding
    BY <1>3 DEF RaftStep, tables, scheduling
  <2> QED
    BY <1>2, <2>1
<1>4. CASE UNCHANGED vars
  <2>1. /\ inflight' = inflight /\ errors' = errors /\ wasLeader' = wasLeader
        /\ handler' = handler /\ holding' = holding
    BY <1>4 DEF vars, tables, scheduling
  <2> QED
    BY <1>2, <2>1
<1>5. CASE \E c \in Op : Register(c) \/ Woken(c) \/ TimedOut(c)
  <2>1. /\ inflight' = inflight /\ errors' = errors /\ wasLeader' = wasLeader
        /\ handler' = handler /\ holding' = holding
    BY <1>5 DEF Register, Woken, TimedOut, tables, scheduling
  <2> QED
    BY <1>2, <2>1
<1>6. ASSUME NEW c, NEW i \in Node, NEW cmd, Propose(c, i, cmd)
      PROVE  InflightTypes' /\ HandlerTypes'
  <2>1. /\ inflight' = inflight /\ errors' = errors /\ wasLeader' = wasLeader
        /\ handler' = handler /\ holding' = holding
    BY <1>6 DEF Propose, tables, scheduling
  <2> QED
    BY <1>2, <2>1
<1>7. ASSUME NEW i \in Node, ApplyLoop(i)
      PROVE  InflightTypes' /\ HandlerTypes'
  <2>1. InflightTypes'
    BY <1>1, <1>7, ApplyKeepsInflight
  <2> QED
    BY <1>1, <1>7, <2>1 DEF ApplyLoop, HandlerTypes
<1>8. ASSUME NEW h \in Thread, refreshLeaderState(h)
      PROVE  InflightTypes' /\ HandlerTypes'
  BY <1>1, <1>8, RefreshKeeps
<1>9. ASSUME NEW w \in Worker, Poll(w)
      PROVE  InflightTypes' /\ HandlerTypes'
  BY <1>1, <1>9, PollKeeps
<1>10. CASE \/ \E w \in Worker : Heartbeat(w) \/ Release(w)
            \/ \E i \in Node : \/ i \in Checking /\ checkStalledTasks(i)
                               \/ \E t \in Task : Lapse(i, t)
            \/ \E h \in Thread, i \in Node,
                  call \in {"Poll", "Heartbeat", "checkStalledTasks"} :
                    GetState(h, call, i)
  BY <1>1, <1>10, OthersKeep
<1>11. CASE \E i \in Node : i \in Checking /\ GetState(i, "checkStalledTasks", i)
  BY <1>10, <1>11 DEF Thread
<1>12. CASE \E i \in Node, w \in Worker, call \in {"Poll", "Heartbeat"} :
                GetState(w, call, i)
  BY <1>10, <1>12 DEF Thread
<1> QED
  BY <1>3, <1>4, <1>5, <1>6, <1>7, <1>8, <1>9, <1>10, <1>11, <1>12
  DEF Next, Submit, Complete

-----------------------------------------------------------------------------
(* The calls *)

\* The entry at n of j's log is one that j, a leader, has just appended.
Appended(j, n) ==
    leading[j] /\ n = Len(log[j]) + 1 /\ log'[j][n].term = term[j]

\* Where the entries and leaders of any step come from.
LEMMA StepFrom ==
    ASSUME ClusterInv, SchedulingTypes, [Next]_vars, NEW j \in Node
    PROVE  /\ \A n \in DOMAIN log'[j] :
                Carried(j, n) \/ Fresh(j, n) \/ Appended(j, n)
           /\ leading'[j] => LeaderFrom(j)
<1>1. CASE UNCHANGED raftVars
  <2>1. log' = log /\ leading' = leading /\ term' = term
    BY <1>1 DEF raftVars
  <2>2. Len(log[j]) \in Nat
    BY EntryFacts DEF ClusterInv
  <2> QED
    BY <2>1, <2>2 DEF Carried, SameUpTo, LeaderFrom
<1>2. CASE RaftNext
  BY <1>2, RaftFrom
<1>3. ASSUME NEW i \in Node, NEW cmd \in Cmd, StartOn(i, cmd)
      PROVE  /\ \A n \in DOMAIN log'[j] :
                  Carried(j, n) \/ Fresh(j, n) \/ Appended(j, n)
             /\ leading'[j] => LeaderFrom(j)
  <2>1. RaftTypes
    BY DEF ClusterInv
  <2>2. /\ \A n \in DOMAIN log'[j] :
             \/ Carried(j, n)
             \/ /\ j = i /\ n = Len(log[i]) + 1
                /\ log'[j][n] = [term |-> term[i], cmd |-> cmd]
        /\ leading'[j] => LeaderFrom(j)
        /\ leading[i]
    BY <1>3, <2>1, StartFrom
  <2> QED
    BY <2>2 DEF Appended
<1> QED
  BY <1>1, <1>2, <1>3, StepKinds

\* No step gives another command to the term and index of a call.
LEMMA OpEntryStays ==
    ASSUME ClusterInv, SchedulingTypes, [Next]_vars, CommitsStay,
           NEW o, o.term \in Nat, o.index \in Nat, OpEntry(o)
    PROVE  OpEntry(o)'
<1>1. PICK t \in Nat, n \in Nat, cmd \in {o.cmd} :
            t = o.term /\ n = o.index /\ cmd = o.cmd
  OBVIOUS
<1>2. /\ Reached(t)
      /\ \A j \in Node :
           /\ Holds(log[j], n, t) => log[j][n] = [term |-> t, cmd |-> cmd]
           /\ leading[j] /\ term[j] = t => n <= Len(log[j])
  BY <1>1 DEF OpEntry
<1>3. Reached(t)'
  BY <1>2, ReachedStays DEF CommitsStay, ClusterInv
<1>4. ASSUME NEW j \in Node
      PROVE  /\ Len(log[j]) \in Nat /\ Len(log'[j]) \in Nat
             /\ \A k \in DOMAIN log'[j] :
                  Carried(j, k) \/ Fresh(j, k) \/ Appended(j, k)
             /\ leading'[j] => LeaderFrom(j)
  BY StepFrom, EntryFacts DEF ClusterInv, CommitsStay
<1>5. ASSUME NEW j \in Node, Holds(log'[j], n, t)
      PROVE  log'[j][n] = [term |-> t, cmd |-> cmd]
  <2>1. n \in DOMAIN log'[j] /\ log'[j][n].term = t
    <3>1. log'[j] \in Seq(LogEntry)
      BY StepKeepsCluster DEF ClusterInv, RaftTypes
    <3> QED
      BY <1>5, <3>1 DEF Holds, Has
  <2>2. CASE Carried(j, n)
    <3>1. PICK h \in Node : n \in DOMAIN log[h] /\ SameUpTo(log'[j], log[h], n)
      BY <2>2 DEF Carried
    <3>2. n \in 1..n /\ n \in 1..Len(log[h])
      BY <3>1, EntryFacts DEF ClusterInv
    <3>3. log'[j][n] = log[h][n]
      BY <3>1, <3>2 DEF SameUpTo
    <3>4. Holds(log[h], n, t)
      BY <2>1, <3>2, <3>3 DEF Holds, Has
    <3> QED
      BY <1>2, <3>3, <3>4
  <2>3. CASE Fresh(j, n)
    BY <1>2, <2>1, <2>3 DEF Fresh
  <2>4. CASE Appended(j, n)
    BY <1>2, <1>4, <2>1, <2>4 DEF Appended
  <2> QED
    BY <1>4, <2>1, <2>2, <2>3, <2>4
<1>6. ASSUME NEW j \in Node, leading'[j], term'[j] = t
      PROVE  n <= Len(log'[j])
  <2>1. LeaderFrom(j)
    BY <1>4, <1>6
  <2>2. leading[j] /\ term[j] = t /\ Len(log'[j]) >= Len(log[j])
    BY <1>2, <1>6, <2>1 DEF LeaderFrom
  <2> QED
    BY <1>2, <1>4, <2>2
<1>7. (\A j \in Node :
           /\ Holds(log[j], n, t) => log[j][n] = [term |-> t, cmd |-> cmd]
           /\ leading[j] /\ term[j] = t => n <= Len(log[j]))'
  BY <1>5, <1>6 DEF Holds
<1> QED
  BY <1>1, <1>3, <1>7 DEF OpEntry, Reached, Holds

\* No step takes the entry of a woken call from its node.
LEMMA OpWokenStays ==
    ASSUME ClusterInv, TablesMade, TablesMade', CommitsStay, [Next]_vars,
           NEW o, o.node \in Node, o.index \in Nat \ {0}, OpWoken(o)
    PROVE  OpWoken(o)'
<1>1. PICK i \in Node, n \in Nat \ {0} : i = o.node /\ n = o.index
  OBVIOUS
<1>2. applied[i] \in Nat /\ applied'[i] \in Nat /\ applied[i] <= commit[i]
  BY DEF TablesMade
<1>3. applied'[i] >= applied[i]
  <2>1. CASE UNCHANGED tables
    BY <1>2, <2>1 DEF tables
  <2>2. ASSUME NEW j \in Node, ApplyLoop(j)
        PROVE  applied'[i] >= applied[i]
    <3>1. applied' = [applied EXCEPT ![j] = applied[j] + 1]
      BY <2>2 DEF ApplyLoop
    <3>2. applied \in [Node -> Nat]
      BY DEF TablesMade
    <3> QED
      BY <3>1, <3>2
  <2> QED
    BY <2>1, <2>2, TablesChange
<1>4. ASSUME o.closed
      PROVE  n <= applied'[i] /\ log'[i][n].term = o.opTerm
  <2>1. n <= applied[i] /\ log[i][n].term = o.opTerm
    BY <1>1, <1>4 DEF OpWoken
  <2>2. /\ commit[i] \in Nat /\ SameUpTo(log'[i], log[i], commit[i])
    BY EntryFacts DEF ClusterInv, CommitsStay
  <2>3. n \in 1..commit[i]
    BY <1>2, <2>1, <2>2
  <2> QED
    BY <1>2, <1>3, <2>1, <2>2, <2>3 DEF SameUpTo
<1> QED
  BY <1>1, <1>4 DEF OpWoken

\* What a call has become, and what it is.
LEMMA OpPrimed ==
    ASSUME NEW o, NEW c \in Op, op'[c] = o, OpOK(o)'
    PROVE  OpOK(op[c])'
BY DEF OpOK, OpEntry, OpWoken, OpFlags, Reached, Holds

\* The records of calls.
LEMMA OpIs ==
    ASSUME OpsOK, NEW c \in Op, op[c].pc # "idle"
    PROVE  /\ op[c] \in OpRecord
           /\ op[c].node \in Node /\ op[c].term \in Nat
           /\ op[c].index \in Nat \ {0} /\ op[c].opTerm \in Nat
           /\ OpEntry(op[c]) /\ OpWoken(op[c]) /\ OpFlags(op[c])
<1>1. op[c] \in OpRecord
  BY DEF OpsOK, IdleOp
<1>2. OpOK(op[c])
  BY DEF OpsOK
<1> QED
  BY <1>1, <1>2 DEF OpRecord, OpOK

\* A call that stays as it is stays in order.
LEMMA OpStays ==
    ASSUME ClusterInv, SchedulingTypes, TablesMade, TablesMade', CommitsStay,
           [Next]_vars, OpsOK, NEW c \in Op, op'[c] = op[c]
    PROVE  OpOK(op[c])'
<1>1. PICK o : o = op[c]
  OBVIOUS
<1>2. CASE o.pc = "idle"
  BY <1>1, <1>2 DEF OpOK
<1>3. CASE o.pc # "idle"
  <2>1. /\ o.node \in Node /\ o.term \in Nat /\ o.index \in Nat \ {0}
        /\ OpEntry(o) /\ OpWoken(o) /\ OpFlags(o)
    BY <1>1, <1>3, OpIs
  <2>2. OpEntry(o)' /\ OpWoken(o)'
    BY <2>1, OpEntryStays, OpWokenStays
  <2>3. OpOK(o)'
    BY <2>1, <2>2 DEF OpOK, OpFlags
  <2> QED
    BY <1>1, <2>3, OpPrimed
<1> QED
  BY <1>2, <1>3

\* So does one that moves on, if it is woken rightly.
LEMMA OpMoves ==
    ASSUME ClusterInv, SchedulingTypes, CommitsStay, [Next]_vars, OpsOK,
           NEW c \in Op, op[c].pc # "idle", NEW r, op'[c] = r,
           r.node = op[c].node, r.cmd = op[c].cmd, r.term = op[c].term,
           r.index = op[c].index, OpWoken(r)', OpFlags(r)
    PROVE  OpOK(op[c])'
<1>1. PICK o : o = op[c]
  OBVIOUS
<1>2. /\ o.term \in Nat /\ o.index \in Nat /\ OpEntry(o)
      /\ r.cmd = o.cmd /\ r.term = o.term /\ r.index = o.index
  BY <1>1, OpIs
<1>3. OpEntry(o)'
  BY <1>2, OpEntryStays
<1>4. OpEntry(r)'
  BY <1>2, <1>3 DEF OpEntry, Reached, Holds
<1>5. OpOK(r)'
  BY <1>4 DEF OpOK, OpFlags
<1> QED
  BY <1>5, OpPrimed

\* The registered calls.
LEMMA RegisteredCall ==
    ASSUME OpsOK, PendingTypes, RegisteredIsOpen, NEW i \in Node,
           NEW n \in DOMAIN pendingOps[i], NEW c, c = pendingOps[i][n]
    PROVE  /\ c \in Op /\ n \in Nat \ {0} /\ op[c] \in OpRecord
           /\ op[c].pc = "waiting" /\ ~op[c].closed
           /\ op[c].node = i /\ op[c].index = n
<1>1. c \in Op /\ n \in Nat \ {0}
  BY DEF PendingTypes
<1>2. /\ op[c].pc = "waiting" /\ ~op[c].closed
      /\ op[c].node = i /\ op[c].index = n
  BY DEF RegisteredIsOpen
<1> QED
  BY <1>1, <1>2, OpIs

\* A call that is not registered, or is taken off, may change as it likes.
LEMMA PendingShrinks ==
    ASSUME OpsOK, PendingTypes, RegisteredIsOpen, DOMAIN pendingOps' = Node,
           NEW c \in Op,
           \A d \in Op : d # c => op'[d] = op[d],
           \A i \in Node :
               /\ DOMAIN pendingOps'[i] \subseteq DOMAIN pendingOps[i]
               /\ pendingOps'[i] \in [DOMAIN pendingOps'[i] -> Op]
               /\ \A n \in DOMAIN pendingOps'[i] :
                    /\ pendingOps'[i][n] = pendingOps[i][n]
                    /\ pendingOps'[i][n] # c
    PROVE  PendingTypes' /\ RegisteredIsOpen'
<1>1. PendingTypes'
  BY DEF PendingTypes
<1>2. ASSUME NEW i \in Node, NEW n \in DOMAIN pendingOps'[i]
      PROVE  LET o == op'[pendingOps'[i][n]]
             IN  o.pc = "waiting" /\ ~o.closed /\ o.node = i /\ o.index = n
  <2>1. PICK d : d = pendingOps[i][n]
    OBVIOUS
  <2>2. n \in DOMAIN pendingOps[i] /\ pendingOps'[i][n] = d /\ d # c
    BY <2>1
  <2>3. d \in Op /\ op[d].pc = "waiting" /\ ~op[d].closed
        /\ op[d].node = i /\ op[d].index = n
    BY <2>1, <2>2, RegisteredCall
  <2> QED
    BY <2>2, <2>3
<1> QED
  BY <1>1, <1>2 DEF RegisteredIsOpen

\* The calls after a step that changes c only.
LEMMA OpsAfter ==
    ASSUME ClusterInv, SchedulingTypes, TablesMade, TablesMade', CommitsStay,
           [Next]_vars, OpsOK, NEW c \in Op, NEW r \in OpRecord,
           op' = [op EXCEPT ![c] = r], OpOK(op[c])'
    PROVE  OpsOK' /\ op'[c] = r /\ \A d \in Op : d # c => op'[d] = op[d]
<1>1. /\ op' \in [Op -> {IdleOp} \cup OpRecord] /\ op'[c] = r
      /\ \A d \in Op : d # c => op'[d] = op[d]
  BY DEF OpsOK
<1>2. \A d \in Op : OpOK(op[d])'
  BY <1>1, OpStays
<1> QED
  BY <1>1, <1>2 DEF OpsOK

\* Start: the entry is the last of the only leader of its term.
LEMMA ProposeKeeps ==
    ASSUME ClusterInv, SchedulingTypes, TablesMade, TablesMade', CommitsStay,
           CallInv, [Next]_vars,
           NEW c \in Op, NEW i \in Node, NEW cmd \in Cmd, Propose(c, i, cmd)
    PROVE  CallInv'
<1>1. OpsOK /\ PendingTypes /\ RegisteredIsOpen /\ RaftTypes /\ LeaderLog
        /\ EntriesReached
  BY DEF CallInv, ClusterInv
<1>2. PICK t \in Nat, n \in Nat : t = term[i] /\ n = Len(log[i]) + 1
  BY <1>1, EntryFacts
<1>3. PICK e : e = [term |-> t, cmd |-> cmd]
  OBVIOUS
<1>4. /\ leading[i] /\ leading' = leading /\ term' = term
      /\ Len(log'[i]) = n /\ log'[i][n] = e
      /\ \A j \in Node : \A k \in DOMAIN log'[j] :
           Carried(j, k) \/ (j = i /\ k = n /\ log'[j][k] = e)
  <2>1. StartOn(i, cmd)
    BY DEF Propose
  <2>2. \A j \in Node :
          /\ \A k \in DOMAIN log'[j] :
               Carried(j, k) \/ (j = i /\ k = n /\ log'[j][k] = e)
          /\ leading[i] /\ leading' = leading /\ term' = term
          /\ Len(log'[i]) = n /\ log'[i][n] = e
    BY <1>1, <1>2, <1>3, <2>1, StartFrom
  <2> QED
    BY <2>2
<1>5. PICK r : r = [pc |-> "proposed", node |-> i, cmd |-> cmd, term |-> t,
                    index |-> n, opTerm |-> t, closed |-> FALSE]
  OBVIOUS
<1>6. /\ op[c].pc = "idle" /\ op' = [op EXCEPT ![c] = r]
      /\ pendingOps' = pendingOps
  BY <1>2, <1>4, <1>5 DEF Propose, LastIndex
<1>7. r \in OpRecord
  <2>1. n \in Nat \ {0}
    BY <1>1, <1>2, EntryFacts
  <2> QED
    BY <1>5, <2>1 DEF OpRecord
<1>8. OpEntry(r)'
  <2>1. Len(log[i]) \in DOMAIN log[i] /\ log[i][Len(log[i])].term = t
    BY <1>1, <1>2, <1>4, EntryFacts DEF LeaderLog, Holds, Has
  <2>2. Reached(t)
    BY <1>1, <2>1 DEF EntriesReached
  <2>3. Reached(t)'
    BY <1>1, <2>2, ReachedStays DEF CommitsStay
  <2>4. ASSUME NEW j \in Node, Holds(log'[j], n, t)
        PROVE  log'[j][n] = e
    <3>1. n \in DOMAIN log'[j] /\ log'[j][n].term = t
      <4>1. log'[j] \in Seq(LogEntry)
        BY StepKeepsCluster DEF ClusterInv, RaftTypes
      <4> QED
        BY <2>4, <4>1 DEF Holds, Has
    <3>2. ASSUME NEW h \in Node, n \in DOMAIN log[h],
                 SameUpTo(log'[j], log[h], n)
          PROVE  FALSE
      <4>1. n \in 1..n
        BY <1>1, <1>2, EntryFacts
      <4>2. log[h][n].term = t
        BY <3>1, <3>2, <4>1 DEF SameUpTo
      <4>3. n <= Len(log[i])
        BY <1>1, <1>2, <1>4, <3>2, <4>2 DEF LeaderLog
      <4> QED
        BY <1>1, <1>2, <4>3, EntryFacts
    <3> QED
      BY <1>4, <3>1, <3>2 DEF Carried
  <2>5. ASSUME NEW j \in Node, leading'[j], term'[j] = t
        PROVE  n <= Len(log'[j])
    <3>1. j = i
      BY <1>1, <1>2, <1>4, <2>5 DEF LeaderLog
    <3> QED
      BY <1>4, <3>1
  <2>6. (\A j \in Node : /\ Holds(log[j], n, t) => log[j][n] = e
                         /\ leading[j] /\ term[j] = t => n <= Len(log[j]))'
    BY <2>4, <2>5 DEF Holds
  <2>7. r.term = t /\ r.index = n /\ r.cmd = cmd
    BY <1>5
  <2> QED
    BY <1>3, <2>3, <2>6, <2>7 DEF OpEntry, Reached, Holds
<1>9. OpWoken(r)' /\ OpFlags(r)
  BY <1>5 DEF OpWoken, OpFlags
<1>10. OpOK(r)'
  BY <1>8, <1>9 DEF OpOK, OpFlags
<1>11. op'[c] = r
  BY <1>1, <1>6 DEF OpsOK
<1>12. OpOK(op[c])'
  BY <1>10, <1>11, OpPrimed
<1>13. OpsOK' /\ \A d \in Op : d # c => op'[d] = op[d]
  BY <1>1, <1>6, <1>7, <1>12, OpsAfter
<1>14. PendingTypes' /\ RegisteredIsOpen'
  <2>1. ASSUME NEW j \in Node, NEW k \in DOMAIN pendingOps[j]
        PROVE  pendingOps[j][k] # c
    BY <1>1, <1>6, <2>1, RegisteredCall
  <2>2. DOMAIN pendingOps' = Node
    BY <1>1, <1>6 DEF PendingTypes
  <2>3. \A j \in Node : pendingOps[j] \in [DOMAIN pendingOps[j] -> Op]
    BY <1>1 DEF PendingTypes
  <2> QED
    BY <1>1, <1>6, <1>13, <2>1, <2>2, <2>3, PendingShrinks
<1> QED
  BY <1>13, <1>14 DEF CallInv

\* A call registers; it may take the place of another.
LEMMA RegisterKeeps ==
    ASSUME ClusterInv, SchedulingTypes, TablesMade, TablesMade', CommitsStay,
           CallInv, [Next]_vars, NEW c \in Op, Register(c)
    PROVE  CallInv'
<1>1. OpsOK /\ PendingTypes /\ RegisteredIsOpen
  BY DEF CallInv
<1>2. /\ op[c].pc = "proposed" /\ op[c] \in OpRecord /\ op[c].node \in Node
      /\ op[c].index \in Nat \ {0} /\ OpWoken(op[c]) /\ OpFlags(op[c])
  BY <1>1, OpIs DEF Register
<1>3. PICK i \in Node, n \in Nat \ {0} : i = op[c].node /\ n = op[c].index
  BY <1>2
<1>4. PICK r : r = [op[c] EXCEPT !.pc = "waiting"]
  OBVIOUS
<1>5. PICK f : f = With(pendingOps[i], n, c)
  OBVIOUS
<1>6. /\ op' = [op EXCEPT ![c] = r]
      /\ pendingOps' = [pendingOps EXCEPT ![i] = f]
  BY <1>3, <1>4, <1>5 DEF Register
<1>7. /\ r \in OpRecord /\ r.pc = "waiting" /\ r.node = i /\ r.index = n
      /\ r.cmd = op[c].cmd /\ r.term = op[c].term /\ ~r.closed
  BY <1>2, <1>3, <1>4 DEF OpRecord, OpFlags
<1>8. OpWoken(r)' /\ OpFlags(r)
  BY <1>7 DEF OpWoken, OpFlags
<1>9. op'[c] = r
  BY <1>1, <1>6 DEF OpsOK
<1>10. OpOK(op[c])'
  BY <1>1, <1>2, <1>3, <1>7, <1>8, <1>9, OpMoves
<1>11. OpsOK' /\ \A d \in Op : d # c => op'[d] = op[d]
  BY <1>1, <1>6, <1>7, <1>10, OpsAfter
<1>12. /\ DOMAIN pendingOps' = Node /\ pendingOps'[i] = f
       /\ \A j \in Node \ {i} : pendingOps'[j] = pendingOps[j]
  BY <1>1, <1>6 DEF PendingTypes
<1>13. /\ DOMAIN f = DOMAIN pendingOps[i] \cup {n} /\ f[n] = c
       /\ \A k \in DOMAIN f : k # n => f[k] = pendingOps[i][k]
       /\ f \in [DOMAIN f -> Op]
  BY <1>1, <1>5 DEF With, PendingTypes
<1>14. PendingTypes'
  <2>1. DOMAIN f \subseteq Nat \ {0}
    BY <1>1, <1>13 DEF PendingTypes
  <2> QED
    BY <1>1, <1>12, <1>13, <2>1 DEF PendingTypes
<1>15. ASSUME NEW j \in Node, NEW k \in DOMAIN pendingOps'[j]
       PROVE  LET o == op'[pendingOps'[j][k]]
              IN  o.pc = "waiting" /\ ~o.closed /\ o.node = j /\ o.index = k
  <2>1. CASE j = i /\ k = n
    BY <1>7, <1>9, <1>12, <1>13, <2>1
  <2>2. CASE ~(j = i /\ k = n)
    <3>1. k \in DOMAIN pendingOps[j] /\ pendingOps'[j][k] = pendingOps[j][k]
      BY <1>12, <1>13, <1>15, <2>2
    <3>2. PICK d : d = pendingOps[j][k]
      OBVIOUS
    <3>3. /\ d \in Op /\ op[d].pc = "waiting" /\ ~op[d].closed
          /\ op[d].node = j /\ op[d].index = k
      BY <1>1, <3>1, <3>2, RegisteredCall
    <3>4. op'[d] = op[d]
      BY <1>2, <1>11, <3>3
    <3> QED
      BY <3>1, <3>2, <3>3, <3>4
  <2> QED
    BY <2>1, <2>2
<1>16. RegisteredIsOpen'
  BY <1>15 DEF RegisteredIsOpen
<1> QED
  BY <1>11, <1>14, <1>16 DEF CallInv

\* A woken call answers.
LEMMA WokenKeeps ==
    ASSUME ClusterInv, SchedulingTypes, TablesMade, TablesMade', CommitsStay,
           CallInv, [Next]_vars, NEW c \in Op, Woken(c)
    PROVE  CallInv'
<1>1. OpsOK /\ PendingTypes /\ RegisteredIsOpen
  BY DEF CallInv
<1>2. /\ op[c].pc = "waiting" /\ op[c].closed /\ op[c] \in OpRecord
      /\ op[c].node \in Node /\ op[c].index \in Nat \ {0} /\ OpWoken(op[c])
  BY <1>1, OpIs DEF Woken
<1>3. PICK r : r = [op[c] EXCEPT !.pc = IF SameEntry(op[c]) THEN "ok"
                                         ELSE "failed"]
  OBVIOUS
<1>4. op' = [op EXCEPT ![c] = r] /\ pendingOps' = pendingOps
  BY <1>3 DEF Woken
<1>5. /\ r \in OpRecord /\ r.pc = (IF SameEntry(op[c]) THEN "ok" ELSE "failed")
      /\ r.node = op[c].node /\ r.index = op[c].index /\ r.cmd = op[c].cmd
      /\ r.term = op[c].term /\ r.opTerm = op[c].opTerm
      /\ r.closed = op[c].closed
  BY <1>2, <1>3 DEF OpRecord
<1>6. OpFlags(r)
  BY <1>2, <1>5 DEF OpFlags, SameEntry
<1>7. OpWoken(r)'
  <2>1. OpWoken(r)
    BY <1>2, <1>5 DEF OpWoken
  <2> QED
    BY <1>2, <1>5, <2>1, OpWokenStays
<1>8. op'[c] = r
  BY <1>1, <1>4 DEF OpsOK
<1>9. OpOK(op[c])'
  BY <1>1, <1>2, <1>5, <1>6, <1>7, <1>8, OpMoves
<1>10. OpsOK' /\ \A d \in Op : d # c => op'[d] = op[d]
  BY <1>1, <1>4, <1>5, <1>9, OpsAfter
<1>11. PendingTypes' /\ RegisteredIsOpen'
  <2>1. ASSUME NEW j \in Node, NEW k \in DOMAIN pendingOps[j]
        PROVE  pendingOps[j][k] # c
    BY <1>1, <1>2, <2>1, RegisteredCall
  <2>2. DOMAIN pendingOps' = Node
    BY <1>1, <1>4 DEF PendingTypes
  <2>3. \A j \in Node : pendingOps[j] \in [DOMAIN pendingOps[j] -> Op]
    BY <1>1 DEF PendingTypes
  <2> QED
    BY <1>1, <1>4, <1>10, <2>1, <2>2, <2>3, PendingShrinks
<1> QED
  BY <1>10, <1>11 DEF CallInv

\* A call gives up, and whatever is registered at its index is taken off.
LEMMA TimedOutKeeps ==
    ASSUME ClusterInv, SchedulingTypes, TablesMade, TablesMade', CommitsStay,
           CallInv, [Next]_vars, NEW c \in Op, TimedOut(c)
    PROVE  CallInv'
<1>1. OpsOK /\ PendingTypes /\ RegisteredIsOpen
  BY DEF CallInv
<1>2. /\ op[c].pc = "waiting" /\ op[c] \in OpRecord /\ op[c].node \in Node
      /\ op[c].index \in Nat \ {0} /\ OpWoken(op[c])
  BY <1>1, OpIs DEF TimedOut
<1>3. PICK i \in Node, n \in Nat \ {0} : i = op[c].node /\ n = op[c].index
  BY <1>2
<1>4. PICK r : r = [op[c] EXCEPT !.pc = "failed"]
  OBVIOUS
<1>5. PICK f : f = Without(pendingOps[i], {n})
  OBVIOUS
<1>6. /\ op' = [op EXCEPT ![c] = r]
      /\ pendingOps' = [pendingOps EXCEPT ![i] = f]
  BY <1>3, <1>4, <1>5 DEF TimedOut
<1>7. /\ r \in OpRecord /\ r.pc = "failed"
      /\ r.node = op[c].node /\ r.index = op[c].index /\ r.cmd = op[c].cmd
      /\ r.term = op[c].term /\ r.opTerm = op[c].opTerm
      /\ r.closed = op[c].closed
  BY <1>2, <1>4 DEF OpRecord
<1>8. OpFlags(r)
  BY <1>7 DEF OpFlags
<1>9. OpWoken(r)'
  <2>1. OpWoken(r)
    BY <1>2, <1>7 DEF OpWoken
  <2> QED
    BY <1>2, <1>7, <2>1, OpWokenStays
<1>10. op'[c] = r
  BY <1>1, <1>6 DEF OpsOK
<1>11. OpOK(op[c])'
  BY <1>1, <1>2, <1>7, <1>8, <1>9, <1>10, OpMoves
<1>12. OpsOK' /\ \A d \in Op : d # c => op'[d] = op[d]
  BY <1>1, <1>6, <1>7, <1>11, OpsAfter
<1>13. /\ DOMAIN pendingOps' = Node /\ pendingOps'[i] = f
       /\ \A j \in Node \ {i} : pendingOps'[j] = pendingOps[j]
  BY <1>1, <1>6 DEF PendingTypes
<1>14. /\ DOMAIN f = DOMAIN pendingOps[i] \ {n}
       /\ \A k \in DOMAIN f : f[k] = pendingOps[i][k]
       /\ f \in [DOMAIN f -> Op]
  BY <1>1, <1>5 DEF Without, Restrict, PendingTypes
<1>15. ASSUME NEW j \in Node
       PROVE  /\ DOMAIN pendingOps'[j] \subseteq DOMAIN pendingOps[j]
              /\ pendingOps'[j] \in [DOMAIN pendingOps'[j] -> Op]
              /\ \A k \in DOMAIN pendingOps'[j] :
                   /\ pendingOps'[j][k] = pendingOps[j][k]
                   /\ pendingOps'[j][k] # c
  <2>1. ASSUME NEW k \in DOMAIN pendingOps[j], pendingOps[j][k] = c
        PROVE  j = i /\ k = n
    BY <1>1, <1>3, <2>1, RegisteredCall
  <2>2. CASE j = i
    BY <1>13, <1>14, <2>1, <2>2
  <2>3. CASE j # i
    <3>1. pendingOps'[j] = pendingOps[j]
      BY <1>13, <2>3
    <3> QED
      BY <1>1, <2>1, <2>3, <3>1 DEF PendingTypes
  <2> QED
    BY <2>2, <2>3
<1>16. PendingTypes' /\ RegisteredIsOpen'
  BY <1>1, <1>12, <1>13, <1>15, PendingShrinks
<1> QED
  BY <1>12, <1>16 DEF CallInv

\* applyLoop wakes the call registered at the index it applies, and takes it
\* off: no other call it could wake a second time is there.
LEMMA WakeKeeps ==
    ASSUME ClusterInv, SchedulingTypes, TablesMade, TablesMade', CommitsStay,
           CallInv, [Next]_vars, NEW i \in Node, ApplyLoop(i)
    PROVE  CallInv'
<1>1. OpsOK /\ PendingTypes /\ RegisteredIsOpen
  BY DEF CallInv
<1>2. PICK n \in Nat : n = applied[i] + 1
  BY AppliedIndex
<1>3. PICK t \in Nat : t = log[i][n].term
  BY <1>2, AppliedIndex DEF LogEntry
<1>4. WakePending(i, n, t) /\ log' = log /\ applied'[i] = n
  <2>1. /\ applied' = [applied EXCEPT ![i] = n] /\ log' = log
        /\ WakePending(i, n, t)
    BY <1>2, <1>3 DEF ApplyLoop, raftVars
  <2> QED
    BY <2>1 DEF TablesMade
<1>5. CASE n \notin DOMAIN pendingOps[i]
  <2>1. op' = op /\ pendingOps' = pendingOps
    BY <1>4, <1>5 DEF WakePending, calls
  <2>2. \A c \in Op : OpOK(op[c])'
    BY <1>1, <2>1, OpStays
  <2> QED
    BY <1>1, <2>1, <2>2 DEF CallInv, OpsOK, PendingTypes, RegisteredIsOpen
<1>6. CASE n \in DOMAIN pendingOps[i]
  <2>1. PICK c : c = pendingOps[i][n]
    OBVIOUS
  <2>2. /\ c \in Op /\ op[c].pc = "waiting" /\ op[c] \in OpRecord
        /\ op[c].node = i /\ op[c].index = n
    BY <1>1, <1>6, <2>1, RegisteredCall
  <2>3. PICK r : r = [op[c] EXCEPT !.opTerm = t, !.closed = TRUE]
    OBVIOUS
  <2>4. PICK f : f = Without(pendingOps[i], {n})
    OBVIOUS
  <2>5. /\ op' = [op EXCEPT ![c].opTerm = t, ![c].closed = TRUE]
        /\ pendingOps' = [pendingOps EXCEPT ![i] = f]
    BY <1>4, <1>6, <2>1, <2>4 DEF WakePending
  <2>6. op' = [op EXCEPT ![c] = r]
    BY <1>1, <2>2, <2>3, <2>5 DEF OpsOK
  <2>7. /\ r \in OpRecord /\ r.pc = "waiting"
        /\ r.node = i /\ r.index = n /\ r.cmd = op[c].cmd
        /\ r.term = op[c].term /\ r.opTerm = t /\ r.closed
    BY <2>2, <2>3 DEF OpRecord
  <2>8. OpWoken(r)' /\ OpFlags(r)
    BY <1>3, <1>4, <2>7 DEF OpWoken, OpFlags
  <2>9. op'[c] = r
    BY <1>1, <2>2, <2>6 DEF OpsOK
  <2>10. OpOK(op[c])'
    BY <1>1, <2>2, <2>7, <2>8, <2>9, OpMoves
  <2>11. OpsOK' /\ \A d \in Op : d # c => op'[d] = op[d]
    BY <1>1, <2>2, <2>6, <2>7, <2>10, OpsAfter
  <2>12. /\ DOMAIN pendingOps' = Node /\ pendingOps'[i] = f
         /\ \A j \in Node \ {i} : pendingOps'[j] = pendingOps[j]
    BY <1>1, <2>5 DEF PendingTypes
  <2>13. /\ DOMAIN f = DOMAIN pendingOps[i] \ {n}
         /\ \A k \in DOMAIN f : f[k] = pendingOps[i][k]
         /\ f \in [DOMAIN f -> Op]
    BY <1>1, <2>4 DEF Without, Restrict, PendingTypes
  <2>14. ASSUME NEW j \in Node
         PROVE  /\ DOMAIN pendingOps'[j] \subseteq DOMAIN pendingOps[j]
                /\ pendingOps'[j] \in [DOMAIN pendingOps'[j] -> Op]
                /\ \A k \in DOMAIN pendingOps'[j] :
                     /\ pendingOps'[j][k] = pendingOps[j][k]
                     /\ pendingOps'[j][k] # c
    <3>1. ASSUME NEW k \in DOMAIN pendingOps[j], pendingOps[j][k] = c
          PROVE  j = i /\ k = n
      BY <1>1, <2>2, <3>1, RegisteredCall
    <3>2. CASE j = i
      BY <2>12, <2>13, <3>1, <3>2
    <3>3. CASE j # i
      <4>1. pendingOps'[j] = pendingOps[j]
        BY <2>12, <3>3
      <4> QED
        BY <1>1, <3>1, <3>3, <4>1 DEF PendingTypes
    <3> QED
      BY <3>2, <3>3
  <2>15. PendingTypes' /\ RegisteredIsOpen'
    BY <1>1, <2>2, <2>11, <2>12, <2>14, PendingShrinks
  <2> QED
    BY <2>11, <2>15 DEF CallInv
<1> QED
  BY <1>5, <1>6

\* Every step keeps the calls in order.
LEMMA CallsKept ==
    ASSUME ClusterInv, SchedulingTypes, TablesMade, TablesMade', CommitsStay,
           CallInv, [Next]_vars
    PROVE  CallInv'
<1>1. OpsOK /\ PendingTypes /\ RegisteredIsOpen
  BY DEF CallInv
<1>2. ASSUME op' = op, pendingOps' = pendingOps
      PROVE  CallInv'
  <2>1. \A c \in Op : OpOK(op[c])'
    BY <1>1, <1>2, OpStays
  <2> QED
    BY <1>1, <1>2, <2>1 DEF CallInv, OpsOK, PendingTypes, RegisteredIsOpen
<1>3. CASE RaftStep \/ UNCHANGED vars
  BY <1>2, <1>3 DEF RaftStep, vars, calls
<1>4. ASSUME NEW i \in Node, ApplyLoop(i)
      PROVE  CallInv'
  BY <1>4, WakeKeeps
<1>5. ASSUME NEW c \in Submission, NEW i \in Node, Submit(c, i)
      PROVE  CallInv'
  <2>1. c \in Op /\ SubmitCmd(c) \in Cmd /\ Propose(c, i, SubmitCmd(c))
    BY <1>5 DEF Submit, Op, Cmd, SubmitCmd, Task
  <2> QED
    BY <2>1, ProposeKeeps
<1>6. ASSUME NEW c \in Completion, NEW w \in Worker, NEW i \in Node,
             NEW r \in Result, Complete(c, w, i, r)
      PROVE  CallInv'
  <2>1. holding[w] \in Task
    BY <1>6 DEF Complete, SchedulingTypes
  <2>2. PICK cmd : cmd = CompleteCmd(holding[w], r)
    OBVIOUS
  <2>3. c \in Op /\ cmd \in Cmd /\ Propose(c, i, cmd)
    BY <1>6, <2>1, <2>2 DEF Complete, Op, Cmd, CompleteCmd
  <2> QED
    BY <2>3, ProposeKeeps
<1>7. ASSUME NEW c \in Op, Register(c) \/ Woken(c) \/ TimedOut(c)
      PROVE  CallInv'
  BY <1>7, RegisterKeeps, WokenKeeps, TimedOutKeeps
<1>8. CASE \E i \in Node :
             \/ GetState(i, "checkStalledTasks", i) \/ checkStalledTasks(i)
             \/ \E t \in Task : Lapse(i, t)
             \/ \E w \in Worker, call \in {"Poll", "Heartbeat"} :
                    GetState(w, call, i)
  <2>1. op' = op /\ pendingOps' = pendingOps
    BY <1>8 DEF GetState, checkStalledTasks, Lapse, calls
  <2> QED
    BY <1>2, <2>1
<1>9. CASE \/ \E h \in Thread : refreshLeaderState(h)
           \/ \E w \in Worker : Poll(w) \/ Heartbeat(w) \/ Release(w)
  <2>1. op' = op /\ pendingOps' = pendingOps
    BY <1>9 DEF refreshLeaderState, Poll, Heartbeat, Release, calls
  <2> QED
    BY <1>2, <2>1
<1> QED
  BY <1>3, <1>4, <1>5, <1>6, <1>7, <1>8, <1>9 DEF Next

-----------------------------------------------------------------------------
(* Completions come after submissions *)

\* What is dead stays dead: a commit index that has passed an entry by never
\* comes back to it.
LEMMA DeadStays ==
    ASSUME ClusterInv, ClusterInv', CommitsStay,
           NEW n \in Nat \ {0}, NEW u \in Nat, Dead(n, u)
    PROVE  Dead(n, u)'
<1>1. PICK i \in Node : /\ commit[i] # 0 /\ log[i][commit[i]].term > u
                        /\ ~(n <= commit[i] /\ log[i][n].term = u)
  BY DEF Dead
<1>2. PICK c \in Nat, d \in Nat : c = commit[i] /\ d = commit'[i]
  BY DEF CommitsStay, ClusterInv, RaftTypes
<1>3. PICK l, r : l = log[i] /\ r = log'[i]
  OBVIOUS
<1>4. /\ d >= c /\ SameUpTo(r, l, c) /\ c \in 1..c /\ c # 0
  BY <1>1, <1>2, <1>3 DEF CommitsStay
<1>5. r[c] = l[c] /\ l[c].term > u
  BY <1>1, <1>2, <1>3, <1>4 DEF SameUpTo
<1>6. /\ r \in Seq(LogEntry) /\ d <= Len(r)
      /\ \A k \in DOMAIN r : \A m \in 1..k : r[m].term <= r[k].term
  BY <1>2, <1>3 DEF ClusterInv, RaftTypes, CommitsProtected, TermsUp
<1>7. /\ Len(r) \in Nat /\ DOMAIN r = 1..Len(r)
      /\ \A k \in 1..Len(r) : r[k].term \in Nat
  <2>1. Len(r) \in Nat /\ DOMAIN r = 1..Len(r)
    BY <1>6
  <2>2. \A k \in 1..Len(r) : r[k] \in LogEntry
    BY <1>6
  <2>3. \A e \in LogEntry : e.term \in Nat
    BY DEF LogEntry
  <2> QED
    BY <2>1, <2>2, <2>3
<1>8. d \in 1..Len(r) /\ c \in 1..d /\ c \in 1..Len(r)
  BY <1>4, <1>6, <1>7
<1>9. r[d].term > u /\ r[c].term > u
  <2>1. r[c].term <= r[d].term /\ r[c].term \in Nat /\ r[d].term \in Nat
    BY <1>6, <1>7, <1>8
  <2> QED
    BY <1>5, <2>1
<1>10. ~(n <= d /\ r[n].term = u)
  <2> SUFFICES ASSUME n <= d, r[n].term = u
               PROVE  FALSE
    OBVIOUS
  <2>1. CASE n <= c
    <3>1. n \in 1..c
      BY <2>1
    <3>2. r[n] = l[n]
      BY <1>4, <3>1 DEF SameUpTo
    <3> QED
      BY <1>1, <1>2, <1>3, <2>1, <3>2
  <2>2. CASE c < n
    <3>1. n \in 1..Len(r) /\ c \in 1..n
      BY <1>4, <1>8, <2>2
    <3>2. r[c].term <= r[n].term /\ r[c].term \in Nat
      BY <1>6, <1>7, <1>8, <3>1
    <3> QED
      BY <1>9, <3>2
  <2> QED
    BY <2>1, <2>2
<1>11. d # 0
  BY <1>4
<1> QED
  BY <1>2, <1>3, <1>9, <1>10, <1>11 DEF Dead

\* What a node has committed it has committed after the step.
LEMMA CommittedTasksStay ==
    ASSUME ClusterInv, CommitsStay, NEW i \in Node
    PROVE  SubmittedIn(log[i], commit[i]) \subseteq SubmittedIn(log'[i], commit'[i])
<1>1. PICK c \in Nat, d \in Nat : c = commit[i] /\ d = commit'[i]
  BY DEF CommitsStay, ClusterInv, RaftTypes
<1>2. PICK l, r : l = log[i] /\ r = log'[i]
  OBVIOUS
<1>3. d >= c /\ SameUpTo(r, l, c)
  BY <1>1, <1>2 DEF CommitsStay
<1>4. SubmittedIn(r, c) = SubmittedIn(l, c)
  BY <1>3, TasksUpTo
<1>5. SubmittedIn(r, c) \subseteq SubmittedIn(r, d)
  BY <1>3, TasksGrow
<1> QED
  BY <1>1, <1>2, <1>4, <1>5

\* What a node has applied it has committed.
LEMMA AppliedCommitted ==
    ASSUME ClusterInv, TablesMade, NEW i \in Node
    PROVE  /\ Range(submittedOrder[i]) = SubmittedIn(log[i], applied[i])
           /\ SubmittedIn(log[i], applied[i]) \subseteq
                SubmittedIn(log[i], commit[i])
           /\ Done(i) = CompletedIn(log[i], applied[i])
<1>1. PICK n \in Nat, c \in Nat : n = applied[i] /\ c = commit[i]
  BY DEF TablesMade, ClusterInv, RaftTypes
<1>2. n <= c /\ MadeFrom(submittedOrder[i], errors[i], log[i], n)
  BY <1>1 DEF TablesMade
<1>3. /\ Range(submittedOrder[i]) = SubmittedIn(log[i], n)
      /\ DOMAIN errors[i] = CompletedIn(log[i], n)
  BY <1>2 DEF MadeFrom, OrderOf
<1>4. PICK l : l = log[i]
  OBVIOUS
<1>5. SubmittedIn(l, n) \subseteq SubmittedIn(l, c)
  BY <1>2, TasksGrow
<1> QED
  BY <1>1, <1>3, <1>4, <1>5 DEF Done

\* Only Poll and the end of a task change what workers hold.
LEMMA HoldingMoves ==
    ASSUME [Next]_vars, \A w \in Worker : ~Poll(w) /\ ~Release(w)
    PROVE  holding' = holding
<1>1. CASE RaftStep \/ UNCHANGED vars
  BY <1>1 DEF RaftStep, vars
<1>2. CASE \E i \in Node :
             \/ ApplyLoop(i) \/ checkStalledTasks(i)
             \/ \E t \in Task : Lapse(i, t)
  BY <1>2 DEF ApplyLoop, checkStalledTasks, Lapse
<1>3. CASE \E i \in Node :
             \/ GetState(i, "checkStalledTasks", i)
             \/ \E w \in Worker, call \in {"Poll", "Heartbeat"} :
                    GetState(w, call, i)
  BY <1>3 DEF GetState
<1>4. CASE \E i \in Node :
             \/ \E c \in Submission : Submit(c, i)
             \/ \E c \in Completion, w \in Worker, r \in Result :
                    Complete(c, w, i, r)
  BY <1>4 DEF Submit, Complete, Propose
<1>5. CASE \E c \in Op : Register(c) \/ Woken(c) \/ TimedOut(c)
  BY <1>5 DEF Register, Woken, TimedOut
<1>6. CASE \/ \E h \in Thread : refreshLeaderState(h)
           \/ \E w \in Worker : Heartbeat(w)
  BY <1>6 DEF refreshLeaderState, Heartbeat
<1> QED
  BY <1>1, <1>2, <1>3, <1>4, <1>5, <1>6 DEF Next

\* A worker gets its task from a node that has committed its submission.
LEMMA HeldKept ==
    ASSUME ClusterInv, TablesMade, SchedulingTypes, InflightNotDone,
           CommitsStay, HeldCommitted, [Next]_vars
    PROVE  HeldCommitted'
<1>1. ASSUME NEW w \in Worker, holding[w] # None
      PROVE  \E i \in Node : holding[w] \in SubmittedIn(log'[i], commit'[i])
  BY <1>1, CommittedTasksStay DEF HeldCommitted
<1>2. ASSUME NEW i \in Node, NEW t \in Range(submittedOrder[i])
      PROVE  t \in SubmittedIn(log'[i], commit'[i])
  BY <1>2, CommittedTasksStay, AppliedCommitted
<1>3. HandlerTypes
  BY SchedulingParts
<1>4. SUFFICES ASSUME NEW v \in Worker, holding'[v] # None
               PROVE  \E i \in Node :
                          holding'[v] \in SubmittedIn(log'[i], commit'[i])
  BY DEF HeldCommitted, SubmittedIn
<1>5. CASE holding'[v] = holding[v]
  BY <1>1, <1>4, <1>5
<1>6. ASSUME NEW w \in Worker, Poll(w)
      PROVE  \E i \in Node : holding'[v] \in SubmittedIn(log'[i], commit'[i])
  <2>1. \/ holding' = holding
        \/ \E i \in Node, t \in Task : /\ t \in Range(submittedOrder[i])
                                       /\ holding' = [holding EXCEPT ![w] = t]
    BY <1>3, <1>6, PollTask
  <2>2. CASE holding' = holding
    BY <1>5, <2>2
  <2>3. ASSUME NEW i \in Node, NEW t \in Task, t \in Range(submittedOrder[i]),
               holding' = [holding EXCEPT ![w] = t]
        PROVE  \E j \in Node : holding'[v] \in SubmittedIn(log'[j], commit'[j])
    <3>1. CASE v = w
      BY <1>2, <1>3, <2>3, <3>1 DEF HandlerTypes
    <3>2. CASE v # w
      BY <1>3, <1>5, <2>3, <3>2 DEF HandlerTypes
    <3> QED
      BY <3>1, <3>2
  <2> QED
    BY <2>1, <2>2, <2>3
<1>7. ASSUME NEW w \in Worker, Release(w)
      PROVE  holding'[v] = holding[v]
  <2>1. holding' = [holding EXCEPT ![w] = None]
    BY <1>7 DEF Release
  <2> QED
    BY <1>3, <1>4, <2>1 DEF HandlerTypes
<1>8. CASE holding' = holding
  BY <1>5, <1>8
<1> QED
  BY <1>5, <1>6, <1>7, <1>8, HoldingMoves

\* A completion that was carried over still follows its submission.
LEMMA CarriedFollows ==
    ASSUME ClusterInv, ClusterInv', CommitsStay, CompletesFollow,
           NEW j \in Node, NEW n \in DOMAIN log'[j], Carried(j, n),
           NEW t \in Task, IsComplete(log'[j][n], t)
    PROVE  t \in SubmittedIn(log'[j], n) \/ Dead(n, log[j][n].term)'
<1>1. PICK h \in Node : n \in DOMAIN log[h] /\ SameUpTo(log'[j], log[h], n)
  BY DEF Carried
<1>2. PICK l, r : l = log[h] /\ r = log'[j]
  OBVIOUS
<1>3. n \in 1..Len(l) /\ Len(l) \in Nat /\ l[n].term \in Nat
  BY <1>1, <1>2, EntryFacts DEF ClusterInv
<1>4. n \in Nat \ {0} /\ n \in Nat /\ n \in 1..n /\ n <= n
  BY <1>3
<1>5. r[n] = l[n]
  BY <1>1, <1>2, <1>4 DEF SameUpTo
<1>6. t \in SubmittedIn(l, n) \/ Dead(n, l[n].term)
  BY <1>1, <1>2, <1>5 DEF CompletesFollow
<1>7. CASE t \in SubmittedIn(l, n)
  <2>1. SubmittedIn(r, n) = SubmittedIn(l, n)
    BY <1>1, <1>2, <1>4, TasksUpTo
  <2> QED
    BY <1>2, <1>7, <2>1
<1>8. CASE Dead(n, l[n].term)
  <2>1. PICK u \in Nat : u = l[n].term
    BY <1>3
  <2>2. Dead(n, u)'
    BY <1>4, <1>8, <2>1, DeadStays
  <2>3. u = log'[j][n].term
    BY <1>2, <1>5, <2>1
  <2> QED
    BY <2>2, <2>3
<1> QED
  BY <1>6, <1>7, <1>8

\* A leader that appends something about a task that a node has committed
\* holds the submission, or its entry is dead from the start.
LEMMA CommittedFollows ==
    ASSUME ClusterInv, NEW i \in Node, leading[i],
           NEW cmd \in Cmd, StartOn(i, cmd),
           NEW k \in Node, NEW t \in SubmittedIn(log[k], commit[k]),
           NEW n \in Nat, n = Len(log[i]) + 1, NEW u \in Nat, u = term[i]
    PROVE  t \in SubmittedIn(log'[i], n) \/ Dead(n, u)'
<1>1. RaftTypes /\ TermsUp /\ LogsAgree /\ LeaderLog
  BY DEF ClusterInv
<1>2. /\ Len(log[i]) \in Nat /\ DOMAIN log[i] = 1..Len(log[i])
      /\ DOMAIN log[k] = 1..Len(log[k]) /\ Len(log[k]) \in Nat
      /\ term[i] \in Nat /\ commit[k] \in Nat
  BY <1>1, EntryFacts
<1>3. commit[k] # 0
  BY DEF SubmittedIn
<1>4. PICK c \in Nat : c = commit[k]
  BY <1>2
<1>5. PICK s \in Nat : s = log[k][c].term
  BY <1>3, <1>4, CommitIs
<1>6. c \in 1..Len(log[k]) /\ Holds(log[k], c, s)
  BY <1>3, <1>4, <1>5, CommitIs
<1>7. PICK Q \in SUBSET Node : Protected(c, s, Q)
  BY <1>3, <1>4, <1>5, CommitIs
<1>8. /\ Holds(log[i], Len(log[i]), term[i])
      /\ \A m \in DOMAIN log[k] : log[k][m].term = term[i] => m <= Len(log[i])
  BY <1>1 DEF LeaderLog
<1>9. Len(log[i]) \in DOMAIN log[i] /\ log[i][Len(log[i])].term = term[i]
  BY <1>2, <1>8 DEF Holds, Has
<1>10. /\ commit' = commit /\ \A j \in Node \ {i} : log'[j] = log[j]
       /\ SameUpTo(log'[i], log[i], Len(log[i]))
  <2>1. log' = [log EXCEPT ![i] = Append(@, [term |-> term[i], cmd |-> cmd])]
        /\ commit' = commit
    BY DEF StartOn
  <2>2. log \in [Node -> Seq(LogEntry)]
    BY <1>1 DEF RaftTypes
  <2>3. \A j \in Node \ {i} : log'[j] = log[j]
    BY <2>1, <2>2
  <2>4. PICK e : e = [term |-> term[i], cmd |-> cmd]
    OBVIOUS
  <2>5. log'[i] = Append(log[i], e)
    BY <2>1, <2>2, <2>4
  <2>6. e \in LogEntry
    BY <1>2, <2>4 DEF LogEntry
  <2>7. PICK l, r : l = log[i] /\ r = log'[i]
    OBVIOUS
  <2>8. l \in Seq(LogEntry) /\ r = Append(l, e)
    BY <2>2, <2>5, <2>7
  <2>9. SameUpTo(r, l, Len(l))
    BY <2>6, <2>8 DEF SameUpTo
  <2> QED
    BY <2>1, <2>3, <2>7, <2>9
<1>11. CASE Holds(log[i], c, s)
  <2>1. SameUpTo(log[i], log[k], c)
    <3>1. c <= c
      OBVIOUS
    <3> QED
      BY <1>1, <1>6, <1>11, <3>1, AgreeAt
  <2>2. c <= Len(log[i])
    BY <1>2, <1>11 DEF Holds, Has
  <2>3. PICK l, r, q : l = log[i] /\ r = log[k] /\ q = log'[i]
    OBVIOUS
  <2>4. PICK m \in Nat : m = Len(log[i])
    BY <1>2
  <2>5. c <= m /\ c <= n /\ SameUpTo(l, r, c) /\ SameUpTo(q, l, m)
    BY <1>10, <2>1, <2>2, <2>3, <2>4
  <2>6. SubmittedIn(l, c) = SubmittedIn(r, c)
    BY <2>5, TasksUpTo
  <2>7. SubmittedIn(q, c) = SubmittedIn(l, c)
    BY <2>5, TasksUpTo
  <2>8. SubmittedIn(q, c) \subseteq SubmittedIn(q, n)
    BY <2>5, TasksGrow
  <2> QED
    BY <1>4, <2>3, <2>6, <2>7, <2>8
<1>12. CASE s < term[i]
  <2>1. Holds(log[i], c, s)
    BY <1>7, <1>9, <1>12 DEF Protected
  <2> QED
    BY <1>11, <2>1
<1>13. CASE s = term[i]
  <2>1. c <= Len(log[i])
    BY <1>2, <1>5, <1>6, <1>8, <1>13
  <2>2. Holds(log[i], c, s)
    BY <1>1, <1>2, <1>6, <1>8, <1>13, <2>1, AgreeAt
  <2> QED
    BY <1>11, <2>2
<1>14. CASE s > term[i]
  <2>1. k # i
    <3>1. s <= term[k]
      BY <1>1, <1>2, <1>5, <1>6 DEF TermsUp
    <3>2. ~(s <= term[i])
      BY <1>2, <1>14
    <3> QED
      BY <3>1, <3>2
  <2>2. log'[k] = log[k] /\ commit'[k] = c
    BY <1>4, <1>10, <2>1
  <2>3. ~(n <= c /\ log[k][n].term = u)
    <3> SUFFICES ASSUME n <= c, log[k][n].term = u
                 PROVE  FALSE
      OBVIOUS
    <3>1. n \in DOMAIN log[k]
      BY <1>2, <1>6
    <3>2. n <= Len(log[i])
      BY <1>8, <3>1
    <3> QED
      BY <1>2, <3>2
  <2> QED
    BY <1>3, <1>4, <1>5, <1>14, <2>2, <2>3 DEF Dead
<1> QED
  BY <1>2, <1>5, <1>12, <1>13, <1>14

\* No completion overtakes the submission of its task.
LEMMA CompletesKept ==
    ASSUME ClusterInv, ClusterInv', CommitsStay, SchedulingTypes, TaskInv,
           [Next]_vars
    PROVE  CompletesFollow'
<1>1. RaftTypes /\ CompletesFollow /\ HeldCommitted /\ RaftTypes'
  BY DEF TaskInv, ClusterInv
<1>2. SUFFICES ASSUME NEW j \in Node, NEW n \in DOMAIN log'[j], NEW t \in Task,
                      NEW u, u = log'[j][n].term,
                      IsComplete(log'[j][n], t)
               PROVE  t \in SubmittedIn(log'[j], n) \/ Dead(n, u)'
  BY DEF CompletesFollow
<1>3. n \in Nat
  BY <1>1 DEF RaftTypes
<1>4. CASE Carried(j, n)
  BY <1>1, <1>2, <1>4, CarriedFollows
<1>5. ~Fresh(j, n)
  BY <1>2 DEF Fresh, IsComplete, decodeCommand
<1>6. CASE UNCHANGED raftVars
  BY <1>2, <1>4, <1>6 DEF raftVars, Carried, SameUpTo
<1>7. CASE RaftNext
  BY <1>2, <1>4, <1>5, <1>7, RaftFrom
<1>8. ASSUME NEW i \in Node, NEW cmd \in Cmd, StartOn(i, cmd),
             IsComplete([term |-> term[i], cmd |-> cmd], t)
                 => \E k \in Node : t \in SubmittedIn(log[k], commit[k])
      PROVE  t \in SubmittedIn(log'[j], n) \/ Dead(n, u)'
  <2>1. \/ Carried(j, n)
        \/ /\ j = i /\ n = Len(log[i]) + 1
           /\ log'[j][n] = [term |-> term[i], cmd |-> cmd]
    BY <1>1, <1>8, StartFrom
  <2>2. CASE Carried(j, n)
    BY <1>4, <2>2
  <2>3. CASE /\ j = i /\ n = Len(log[i]) + 1
             /\ log'[j][n] = [term |-> term[i], cmd |-> cmd]
    <3>1. u = term[i] /\ u \in Nat /\ leading[i]
      BY <1>1, <1>2, <1>8, <2>3, EntryFacts DEF StartOn
    <3>2. PICK k \in Node : t \in SubmittedIn(log[k], commit[k])
      BY <1>2, <1>8, <2>3
    <3> QED
      BY <1>3, <1>8, <2>3, <3>1, <3>2, CommittedFollows
  <2> QED
    BY <2>1, <2>2, <2>3
<1>9. ASSUME NEW c \in Submission, NEW i \in Node, Submit(c, i)
      PROVE  t \in SubmittedIn(log'[j], n) \/ Dead(n, u)'
  <2>1. PICK cmd \in Cmd : cmd = SubmitCmd(c)
    BY DEF Cmd, SubmitCmd, Task
  <2>2. StartOn(i, cmd)
    BY <1>9, <2>1 DEF Submit, Propose
  <2>3. ~IsComplete([term |-> term[i], cmd |-> cmd], t)
    BY <2>1 DEF IsComplete, decodeCommand, SubmitCmd
  <2> QED
    BY <1>8, <2>2, <2>3
<1>10. ASSUME NEW c \in Completion, NEW w \in Worker, NEW i \in Node,
              NEW r \in Result, Complete(c, w, i, r)
       PROVE  t \in SubmittedIn(log'[j], n) \/ Dead(n, u)'
  <2>1. holding[w] \in Task /\ holding[w] # None
    BY <1>10 DEF Complete, SchedulingTypes
  <2>2. PICK cmd \in Cmd : cmd = CompleteCmd(holding[w], r)
    BY <2>1 DEF Cmd, CompleteCmd
  <2>3. StartOn(i, cmd)
    BY <1>10, <2>2 DEF Complete, Propose
  <2>4. PICK k \in Node : holding[w] \in SubmittedIn(log[k], commit[k])
    BY <1>1, <2>1 DEF HeldCommitted
  <2>5. cmd.id = holding[w]
    BY <2>2 DEF CompleteCmd
  <2>6. IsComplete([term |-> term[i], cmd |-> cmd], t) => t = holding[w]
    BY <2>5 DEF IsComplete
  <2> QED
    BY <1>8, <2>3, <2>4, <2>6
<1>11. \/ UNCHANGED raftVars \/ RaftNext
       \/ \E c \in Submission, i \in Node : Submit(c, i)
       \/ \E c \in Completion, w \in Worker, i \in Node, r \in Result :
              Complete(c, w, i, r)
  BY StepActions
<1> QED
  BY <1>6, <1>7, <1>9, <1>10, <1>11

-----------------------------------------------------------------------------
(* The invariants hold of every behaviour *)

\* The empty log, list and tables.
LEMMA EmptyTables ==
    ASSUME NEW l
    PROVE  /\ MadeFrom(<<>>, <<>>, l, 0)
           /\ <<>> \in [{} -> Result] /\ <<>> \in [{} -> BOOLEAN]
           /\ <<>> \in [{} -> Op] /\ DOMAIN <<>> = {}
<1>1. DOMAIN <<>> = {}
  OBVIOUS
<1>2. ASSUME NEW S
      PROVE  <<>> \in [{} -> S]
  <2>1. <<>> \in Seq(S) /\ 1..Len(<<>>) = {}
    OBVIOUS
  <2> QED
    BY <2>1, LenProperties
<1>3. SubmittedIn(l, 0) = {} /\ CompletedIn(l, 0) = {}
  BY DEF SubmittedIn, CompletedIn
<1>4. Range(<<>>) = {} /\ Len(<<>>) = 0
  BY <1>1 DEF Range
<1>5. Cardinality({}) = 0
  BY FS_EmptySet
<1>6. OrderOf(<<>>, l, 0)
  <2>1. /\ Range(<<>>) = SubmittedIn(l, 0)
        /\ Len(<<>>) = Cardinality(SubmittedIn(l, 0))
    BY <1>3, <1>4, <1>5
  <2>2. \A k : k \notin 1..Len(<<>>)
    BY <1>4
  <2> QED
    BY <2>1, <2>2 DEF OrderOf
<1> QED
  BY <1>1, <1>2, <1>3, <1>6 DEF MadeFrom

\* All that the broker's safety rests on.
BrokerSafe ==
    /\ ClusterInv /\ TablesMade /\ SchedulingTypes /\ InflightNotDone
    /\ CallInv /\ TaskInv

\* It holds at the start, ...
LEMMA InitSafe ==
    ASSUME Init
    PROVE  BrokerSafe
<1>1. /\ term = [i \in Node |-> 0] /\ leading = [i \in Node |-> FALSE]
      /\ log = [i \in Node |-> <<>>] /\ commit = [i \in Node |-> 0]
  BY DEF Init, RaftInit
<1>2. <<>> \in Seq(LogEntry) /\ <<>> \in Seq(Task) /\ Len(<<>>) = 0
      /\ DOMAIN <<>> = {}
  OBVIOUS
<1>3. ClusterInv
  <2>1. RaftTypes
    BY <1>1, <1>2 DEF RaftTypes
  <2>2. TermsUp /\ LogsAgree /\ EntriesReached /\ LeaderLog
    BY <1>1, <1>2 DEF TermsUp, LogsAgree, EntriesReached, LeaderLog
  <2>3. CommitsProtected
    BY <1>1, <1>2 DEF CommitsProtected
  <2> QED
    BY <2>1, <2>2, <2>3 DEF ClusterInv
<1>4. TablesMade
  <2>1. /\ applied = [i \in Node |-> 0]
        /\ submittedOrder = [i \in Node |-> <<>>]
        /\ errors = [i \in Node |-> <<>>]
    BY DEF Init
  <2> QED
    BY <1>1, <1>2, <2>1, EmptyTables DEF TablesMade
<1>5. SchedulingTypes /\ InflightNotDone
  <2>1. /\ inflight = [i \in Node |-> <<>>]
        /\ wasLeader = [i \in Node |-> FALSE]
        /\ holding = [w \in Worker |-> None]
        /\ handler = [h \in Thread |-> IdleHandler]
    BY DEF Init
  <2> QED
    BY <1>2, <2>1, EmptyTables DEF SchedulingTypes, InflightNotDone
<1>6. CallInv
  <2>1. /\ pendingOps = [i \in Node |-> <<>>] /\ op = [c \in Op |-> IdleOp]
    BY DEF Init
  <2>2. OpsOK
    <3>1. IdleOp.pc = "idle"
      BY DEF IdleOp
    <3> QED
      BY <2>1, <3>1 DEF OpsOK, OpOK
  <2>3. PendingTypes /\ RegisteredIsOpen
    BY <1>2, <2>1, EmptyTables DEF PendingTypes, RegisteredIsOpen
  <2> QED
    BY <2>2, <2>3 DEF CallInv
<1>7. TaskInv
  <2>1. holding = [w \in Worker |-> None]
    BY DEF Init
  <2> QED
    BY <1>1, <1>2, <2>1 DEF TaskInv, CompletesFollow, HeldCommitted
<1> QED
  BY <1>3, <1>4, <1>5, <1>6, <1>7 DEF BrokerSafe

\* ... and every step keeps it.
LEMMA NextSafe ==
    ASSUME BrokerSafe, [Next]_vars
    PROVE  BrokerSafe'
<1>1. /\ ClusterInv /\ TablesMade /\ SchedulingTypes /\ InflightNotDone
      /\ CallInv /\ TaskInv /\ HeldCommitted
  BY DEF BrokerSafe, TaskInv
<1>2. ClusterInv' /\ CommitsStay
  BY <1>1, StepKeepsCluster
<1>3. TablesMade'
  BY <1>1, <1>2, TablesKept
<1>4. SchedulingTypes' /\ InflightNotDone'
  BY <1>1, SchedulingKept
<1>5. CallInv'
  BY <1>1, <1>2, <1>3, CallsKept
<1>6. CompletesFollow'
  BY <1>1, <1>2, CompletesKept
<1>7. HeldCommitted'
  BY <1>1, <1>2, HeldKept
<1> QED
  BY <1>2, <1>3, <1>4, <1>5, <1>6, <1>7 DEF BrokerSafe, TaskInv

\* The invariant of the broker: what Raft promises it, what applyLoop has made
\* of the log, what each call has proposed and been told, and where the tasks
\* that are handed out come from.
THEOREM BrokerInvariant == Spec => []BrokerSafe
<1>1. Init => BrokerSafe
  BY InitSafe
<1>2. BrokerSafe /\ [Next]_vars => BrokerSafe'
  BY NextSafe
<1> QED
  BY <1>1, <1>2, PTL DEF Spec

\* What is registered in pendingOps is an open call of that node and index.
THEOREM RegisteredAlwaysOpen == Spec => []RegisteredIsOpen
<1>1. BrokerSafe => RegisteredIsOpen
  BY DEF BrokerSafe, CallInv
<1> QED
  BY BrokerInvariant, <1>1, PTL

\* A task that a node knows to be done is not in its inflight table.
THEOREM InflightNeverDone == Spec => []InflightNotDone
<1>1. BrokerSafe => InflightNotDone
  BY DEF BrokerSafe
<1> QED
  BY BrokerInvariant, <1>1, PTL

-----------------------------------------------------------------------------
(* What follows from them *)

\* Of two nodes, the one that has applied more holds the entries the other
\* has applied.
LEMMA AppliedAgree ==
    ASSUME ClusterInv, TablesMade, NEW i \in Node, NEW j \in Node,
           applied[i] <= applied[j]
    PROVE  SameUpTo(log[i], log[j], applied[i])
<1>1. PICK a \in Nat : a = applied[i]
  BY DEF TablesMade
<1>2. PICK b \in Nat : b = applied[j]
  BY DEF TablesMade
<1>3. PICK c \in Nat : c = commit[i]
  BY DEF ClusterInv, RaftTypes
<1>4. PICK d \in Nat : d = commit[j]
  BY DEF ClusterInv, RaftTypes
<1>5. a <= b /\ a <= c /\ b <= d
  BY <1>1, <1>2, <1>3, <1>4 DEF TablesMade
<1>6. CASE c <= d
  <2>1. SameUpTo(log[i], log[j], c)
    BY <1>3, <1>4, <1>6, CommitsAgree
  <2>2. \A k \in 1..a : k \in 1..c
    BY <1>5
  <2> QED
    BY <1>1, <2>1, <2>2 DEF SameUpTo
<1>7. CASE d <= c
  <2>1. SameUpTo(log[j], log[i], d)
    BY <1>3, <1>4, <1>7, CommitsAgree
  <2>2. \A k \in 1..a : k \in 1..d
    BY <1>5
  <2> QED
    BY <1>1, <2>1, <2>2 DEF SameUpTo
<1> QED
  BY <1>6, <1>7

\* The tables of the two come from one log.
LEMMA ReplicaIsPrefix ==
    ASSUME ClusterInv, TablesMade, NEW i \in Node, NEW j \in Node,
           applied[i] <= applied[j]
    PROVE  /\ IsPrefix(submittedOrder[i], submittedOrder[j])
           /\ Done(i) \subseteq Done(j)
           /\ applied[i] = applied[j] => errors[i] = errors[j]
<1>1. PICK a \in Nat : a = applied[i]
  BY DEF TablesMade
<1>2. PICK b \in Nat : b = applied[j]
  BY DEF TablesMade
<1>3. PICK s \in Seq(Task) : s = submittedOrder[i]
  BY DEF TablesMade
<1>4. PICK r \in Seq(Task) : r = submittedOrder[j]
  BY DEF TablesMade
<1>5. PICK e, f, l, q : /\ e = errors[i] /\ f = errors[j]
                        /\ l = log[i] /\ q = log[j]
  OBVIOUS
<1>6. MadeFrom(s, e, l, a) /\ MadeFrom(r, f, q, b)
  BY <1>1, <1>2, <1>3, <1>4, <1>5 DEF TablesMade
<1>7. SameUpTo(l, q, a) /\ a <= b
  BY <1>1, <1>2, <1>5, AppliedAgree
<1>8. MadeFrom(s, e, q, a)
  BY <1>6, <1>7, MadeFromSame
<1>9. IsPrefix(s, r) /\ DOMAIN e \subseteq DOMAIN f /\ (a = b => e = f)
  BY <1>6, <1>7, <1>8, MadeFromPrefix
<1> QED
  BY <1>1, <1>2, <1>3, <1>4, <1>5, <1>9 DEF Done

\* Replicas that have come equally far hold the same tables, and the order of
\* one is never contradicted by that of another.
THEOREM ReplicasAlwaysAgree == Spec => []ReplicasAgree
<1>1. BrokerSafe => ReplicasAgree
  BY ReplicaIsPrefix DEF BrokerSafe, ReplicasAgree
<1> QED
  BY BrokerInvariant, <1>1, PTL

\* An entry that a node has committed is not dead.
LEMMA CommittedNotDead ==
    ASSUME ClusterInv, NEW i \in Node, NEW n \in 1..commit[i],
           NEW u, u = log[i][n].term, Dead(n, u)
    PROVE  FALSE
<1>1. PICK h \in Node : /\ commit[h] # 0 /\ log[h][commit[h]].term > u
                        /\ ~(n <= commit[h] /\ log[h][n].term = u)
  BY DEF Dead
<1>2. PICK c \in Nat : c = commit[i]
  BY DEF ClusterInv, RaftTypes
<1>3. PICK d \in Nat : d = commit[h]
  BY DEF ClusterInv, RaftTypes
<1>4. n \in Nat /\ n \in 1..c /\ d \in 1..d /\ c # 0
  BY <1>1, <1>2, <1>3
<1>5. CASE c <= d
  <2>1. SameUpTo(log[i], log[h], c)
    BY <1>2, <1>3, <1>5, CommitsAgree
  <2>2. log[h][n].term = u /\ n <= d
    BY <1>4, <1>5, <2>1 DEF SameUpTo
  <2> QED
    BY <1>1, <1>3, <2>2
<1>6. CASE d <= c
  <2>1. SameUpTo(log[h], log[i], d)
    BY <1>2, <1>3, <1>6, CommitsAgree
  <2>2. CASE n <= d
    <3>1. log[h][n].term = u
      BY <1>4, <2>1, <2>2 DEF SameUpTo
    <3> QED
      BY <1>1, <1>3, <2>2, <3>1
  <2>3. CASE d <= n
    <3>1. c \in 1..Len(log[i]) /\ DOMAIN log[i] = 1..Len(log[i])
      BY <1>2, <1>4, CommitIs, EntryFacts DEF ClusterInv
    <3>2. n \in DOMAIN log[i] /\ d \in DOMAIN log[i] /\ d \in 1..n
      BY <1>4, <1>6, <2>3, <3>1
    <3>3. log[i][d].term <= log[i][n].term
      BY <3>2 DEF ClusterInv, TermsUp
    <3>4. log[i][d] = log[h][d]
      BY <1>4, <2>1 DEF SameUpTo
    <3>5. log[i][d].term \in Nat /\ log[i][n].term \in Nat
      BY <3>1, <3>2, EntryFacts DEF ClusterInv
    <3> QED
      BY <1>1, <1>3, <3>3, <3>4, <3>5
  <2> QED
    BY <1>3, <1>4, <2>2, <2>3
<1> QED
  BY <1>5, <1>6

\* What is completed was submitted before.
LEMMA SafeSubmitted == BrokerSafe => CompletedWasSubmitted
<1>1. ASSUME BrokerSafe, NEW i \in Node, NEW t \in Done(i)
      PROVE  t \in Range(submittedOrder[i])
  <2>1. ClusterInv /\ TablesMade /\ CompletesFollow
    BY <1>1 DEF BrokerSafe, TaskInv
  <2>2. PICK a \in Nat : a = applied[i]
    BY <2>1 DEF TablesMade
  <2>3. /\ Range(submittedOrder[i]) = SubmittedIn(log[i], a)
        /\ Done(i) = CompletedIn(log[i], a)
    BY <2>1, <2>2, AppliedCommitted
  <2>4. PICK k \in 1..a : IsComplete(log[i][k], t)
    BY <2>3 DEF CompletedIn
  <2>5. t \in Task
    BY <2>3 DEF CompletedIn
  <2>6. /\ k \in 1..commit[i] /\ k \in DOMAIN log[i]
        /\ k \in Nat /\ k <= a
    <3>1. a <= commit[i] /\ commit[i] <= Len(log[i])
      BY <2>1, <2>2 DEF TablesMade, ClusterInv, CommitsProtected
    <3>2. /\ commit[i] \in Nat /\ Len(log[i]) \in Nat
          /\ DOMAIN log[i] = 1..Len(log[i])
      BY <2>1, EntryFacts DEF ClusterInv
    <3> QED
      BY <3>1, <3>2
  <2>7. ~Dead(k, log[i][k].term)
    BY <2>1, <2>6, CommittedNotDead
  <2>8. t \in SubmittedIn(log[i], k)
    BY <2>1, <2>4, <2>5, <2>6, <2>7 DEF CompletesFollow
  <2>9. PICK l : l = log[i]
    OBVIOUS
  <2>10. SubmittedIn(l, k) \subseteq SubmittedIn(l, a)
    BY <2>6, TasksGrow
  <2> QED
    BY <2>3, <2>8, <2>9, <2>10
<1> QED
  BY <1>1 DEF CompletedWasSubmitted

\* No replica records a result for a task that it has not seen submitted.
THEOREM CompletedAlwaysSubmitted == Spec => []CompletedWasSubmitted
BY BrokerInvariant, SafeSubmitted, PTL

\* Some node has the largest number.
LEMMA SomeNodeLeads ==
    ASSUME NEW f \in [Node -> Nat]
    PROVE  \E i \in Node : \A j \in Node : f[j] <= f[i]
<1> DEFINE S == {f[j] : j \in Node}
<1>1. Node # {} /\ IsFiniteSet(Node)
  BY BrokerAssumption
<1>2. S \subseteq Nat /\ S # {}
  BY <1>1
<1>3. IsFiniteSet(S)
  <2>1. [j \in Node |-> f[j]] \in Surjection(Node, S)
    BY DEF Surjection
  <2> QED
    BY <1>1, <2>1, FS_Surjection
<1>4. Max(S) \in S /\ \A y \in S : Max(S) >= y
  BY <1>2, <1>3, MaxOfFinite
<1>5. PICK m \in Nat : m \in S /\ \A y \in S : m >= y
  BY <1>2, <1>4
<1>6. PICK h \in Node : f[h] = m
  BY <1>5
<1> QED
  BY <1>5, <1>6

\* CommittedLog is the committed part of the log of one of the nodes that
\* know the most.
LEMMA CommittedLogIs ==
    ASSUME ClusterInv
    PROVE  \E i \in Node : /\ CommittedLog = SubSeq(log[i], 1, commit[i])
                           /\ \A j \in Node : commit[j] <= commit[i]
<1>1. commit \in [Node -> Nat]
  BY DEF ClusterInv, RaftTypes
<1>2. PICK h \in Node : \A j \in Node : commit[j] <= commit[h]
  BY <1>1, SomeNodeLeads
<1>3. PICK i : i = CHOOSE k \in Node : \A j \in Node : commit[j] <= commit[k]
  OBVIOUS
<1>4. i \in Node /\ \A j \in Node : commit[j] <= commit[i]
  BY <1>2, <1>3
<1>5. CommittedLog = SubSeq(log[i], 1, commit[i])
  BY <1>3 DEF CommittedLog
<1> QED
  BY <1>4, <1>5

\* It holds what any node has committed.
LEMMA CommittedLogHolds ==
    ASSUME ClusterInv, NEW k \in Node, NEW n \in 1..commit[k]
    PROVE  n <= Len(CommittedLog) /\ CommittedLog[n] = log[k][n]
<1>1. PICK i \in Node : /\ CommittedLog = SubSeq(log[i], 1, commit[i])
                        /\ \A j \in Node : commit[j] <= commit[i]
  BY CommittedLogIs
<1>2. PICK c \in Nat : c = commit[k]
  BY DEF ClusterInv, RaftTypes
<1>3. PICK d \in Nat : d = commit[i]
  BY DEF ClusterInv, RaftTypes
<1>4. SameUpTo(log[k], log[i], c)
  BY <1>1, <1>2, CommitsAgree
<1>5. PICK l : l = log[i]
  OBVIOUS
<1>6. /\ l \in Seq(LogEntry) /\ d <= Len(l) /\ Len(l) \in Nat
      /\ n \in 1..d /\ n \in 1..c
  <2>1. l \in Seq(LogEntry) /\ d <= Len(l)
    BY <1>3, <1>5 DEF ClusterInv, RaftTypes, CommitsProtected
  <2>2. c <= d
    BY <1>1, <1>2, <1>3
  <2> QED
    BY <1>2, <2>1, <2>2
<1>7. Len(SubSeq(l, 1, d)) = d /\ SubSeq(l, 1, d)[n] = l[n]
  BY <1>6
<1>8. log[k][n] = l[n]
  BY <1>4, <1>5, <1>6 DEF SameUpTo
<1> QED
  BY <1>1, <1>3, <1>5, <1>6, <1>7, <1>8

\* A call that was answered Ok has its own command in the committed log.
THEOREM AcksAreDurable == Spec => []AckDurable
<1>1. ASSUME BrokerSafe, NEW c \in Op, op[c].pc = "ok"
      PROVE  /\ op[c].index <= Len(CommittedLog)
             /\ CommittedLog[op[c].index]
                    = [term |-> op[c].term, cmd |-> op[c].cmd]
  <2>1. ClusterInv /\ TablesMade /\ OpsOK
    BY <1>1 DEF BrokerSafe, CallInv
  <2>2. PICK o : o = op[c]
    OBVIOUS
  <2>3. o \in OpRecord /\ OpOK(o)
    <3>1. IdleOp.pc = "idle"
      BY DEF IdleOp
    <3> QED
      BY <1>1, <2>1, <2>2, <3>1 DEF OpsOK
  <2>4. /\ o.node \in Node /\ o.index \in Nat \ {0} /\ o.term \in Nat
        /\ OpEntry(o) /\ OpWoken(o) /\ OpFlags(o)
    BY <1>1, <2>2, <2>3 DEF OpRecord, OpOK
  <2>5. PICK k \in Node : k = o.node
    BY <2>4
  <2>6. PICK n \in Nat \ {0} : n = o.index
    BY <2>4
  <2>7. n <= applied[k] /\ log[k][n].term = o.term
    BY <1>1, <2>2, <2>4, <2>5, <2>6 DEF OpFlags, OpWoken
  <2>8. /\ commit[k] \in Nat /\ applied[k] \in Nat
        /\ applied[k] <= commit[k] /\ commit[k] <= Len(log[k])
        /\ Len(log[k]) \in Nat /\ DOMAIN log[k] = 1..Len(log[k])
    BY <2>1, EntryFacts DEF TablesMade, ClusterInv, RaftTypes, CommitsProtected
  <2>9. n \in 1..commit[k] /\ n \in DOMAIN log[k]
    BY <2>7, <2>8
  <2>10. Holds(log[k], n, o.term)
    BY <2>7, <2>8, <2>9 DEF Holds, Has
  <2>11. log[k][n] = [term |-> o.term, cmd |-> o.cmd]
    BY <2>4, <2>5, <2>6, <2>10 DEF OpEntry
  <2>12. n <= Len(CommittedLog) /\ CommittedLog[n] = log[k][n]
    BY <2>1, <2>9, CommittedLogHolds
  <2> QED
    BY <2>2, <2>6, <2>11, <2>12
<1>2. BrokerSafe => AckDurable
  BY <1>1 DEF AckDurable
<1> QED
  BY BrokerInvariant, <1>2, PTL

\* Every table is of the shape that its type gives it.
THEOREM BrokerTypes == Spec => []BrokerTypeOK
<1>1. ASSUME BrokerSafe, NEW i \in Node
      PROVE  /\ applied[i] \in 0 .. commit[i] /\ commit[i] <= LastIndex(log[i])
             /\ submittedOrder[i] \in Seq(Task)
             /\ Done(i) \subseteq Task /\ Range(errors[i]) \subseteq Result
             /\ DOMAIN inflight[i] \subseteq Task
             /\ wasLeader[i] \in BOOLEAN
             /\ DOMAIN pendingOps[i] \subseteq Nat \ {0}
             /\ Range(pendingOps[i]) \subseteq Op
  <2>1. ClusterInv /\ TablesMade /\ SchedulingTypes /\ PendingTypes
    BY <1>1 DEF BrokerSafe, CallInv
  <2>2. applied[i] \in 0 .. commit[i] /\ commit[i] <= LastIndex(log[i])
    <3>1. /\ applied[i] \in Nat /\ commit[i] \in Nat
          /\ applied[i] <= commit[i] /\ commit[i] <= Len(log[i])
      BY <2>1 DEF TablesMade, ClusterInv, RaftTypes, CommitsProtected
    <3> QED
      BY <3>1 DEF LastIndex
  <2>3. submittedOrder[i] \in Seq(Task)
    BY <2>1 DEF TablesMade
  <2>4. Done(i) \subseteq Task /\ Range(errors[i]) \subseteq Result
    <3>1. errors[i] \in [CompletedIn(log[i], applied[i]) -> Result]
      BY <2>1 DEF TablesMade, MadeFrom
    <3>2. CompletedIn(log[i], applied[i]) \subseteq Task
      BY DEF CompletedIn
    <3> QED
      BY <3>1, <3>2 DEF Done, Range
  <2>5. DOMAIN inflight[i] \subseteq Task /\ wasLeader[i] \in BOOLEAN
    BY <2>1 DEF SchedulingTypes
  <2>6. /\ DOMAIN pendingOps[i] \subseteq Nat \ {0}
        /\ Range(pendingOps[i]) \subseteq Op
    BY <2>1 DEF PendingTypes, Range
  <2> QED
    BY <2>2, <2>3, <2>4, <2>5, <2>6
<1>2. ASSUME BrokerSafe, NEW c \in Op
      PROVE  op[c].pc \in {"idle", "proposed", "waiting", "ok", "failed"}
  <2>1. op[c] \in {IdleOp} \cup OpRecord
    BY <1>2 DEF BrokerSafe, CallInv, OpsOK
  <2> QED
    BY <2>1 DEF IdleOp, OpRecord
<1>3. ASSUME BrokerSafe, NEW h \in Thread
      PROVE  handler[h].pc \in {"idle", "read", "work"}
  <2>1. handler[h] \in {IdleHandler} \cup HandlerRecord
    BY <1>3 DEF BrokerSafe, SchedulingTypes
  <2> QED
    BY <2>1 DEF IdleHandler, HandlerRecord
<1>4. BrokerSafe => BrokerTypeOK
  BY <1>1, <1>2, <1>3 DEF BrokerTypeOK
<1> QED
  BY BrokerInvariant, <1>4, PTL

-----------------------------------------------------------------------------
(* What calls have proposed, and what workers hold *)

\* No call starts, ends its life, or changes its command.
SameCalls ==
    \A c \in Op : /\ op'[c].pc # "idle" <=> op[c].pc # "idle"
                  /\ op[c].pc # "idle" => op'[c].cmd = op[c].cmd

\* Call c starts, with the command cmd.
NewCall(c, cmd) ==
    /\ c \in Op /\ op[c].pc = "idle"
    /\ op'[c].pc # "idle" /\ op'[c].cmd = cmd
    /\ \A d \in Op \ {c} : op'[d] = op[d]

\* Fields of one record change, but not its command.
LEMMA RecordMoves ==
    ASSUME OpsOK, NEW c \in Op, op[c].pc # "idle", NEW r,
           op' = [op EXCEPT ![c] = r], r.pc # "idle", r.cmd = op[c].cmd
    PROVE  SameCalls
<1>1. op'[c] = r /\ \A d \in Op : d # c => op'[d] = op[d]
  BY DEF OpsOK
<1> QED
  BY <1>1 DEF SameCalls

\* applyLoop tells a call something, and no more.
LEMMA WakeSame ==
    ASSUME CallInv, NEW i \in Node, ApplyLoop(i)
    PROVE  SameCalls
<1>1. OpsOK /\ PendingTypes /\ RegisteredIsOpen
  BY DEF CallInv
<1>2. PICK n, t : WakePending(i, n, t)
  BY DEF ApplyLoop
<1>3. CASE n \notin DOMAIN pendingOps[i]
  <2>1. op' = op
    BY <1>2, <1>3 DEF WakePending, calls
  <2> QED
    BY <2>1 DEF SameCalls
<1>4. CASE n \in DOMAIN pendingOps[i]
  <2>1. PICK c : c = pendingOps[i][n]
    OBVIOUS
  <2>2. c \in Op /\ op[c].pc = "waiting" /\ op[c] \in OpRecord
    BY <1>1, <1>4, <2>1, RegisteredCall
  <2>3. PICK r : r = [op[c] EXCEPT !.opTerm = t, !.closed = TRUE]
    OBVIOUS
  <2>4. op' = [op EXCEPT ![c].opTerm = t, ![c].closed = TRUE]
    BY <1>2, <1>4, <2>1 DEF WakePending
  <2>5. op' = [op EXCEPT ![c] = r]
    BY <1>1, <2>2, <2>3, <2>4 DEF OpsOK
  <2>6. r.pc = "waiting" /\ r.cmd = op[c].cmd
    BY <2>2, <2>3 DEF OpRecord
  <2> QED
    BY <1>1, <2>2, <2>5, <2>6, RecordMoves
<1> QED
  BY <1>3, <1>4

\* So do the steps of a call that is under way.
LEMMA CallSame ==
    ASSUME CallInv, NEW c \in Op, Register(c) \/ Woken(c) \/ TimedOut(c)
    PROVE  SameCalls
<1>1. OpsOK
  BY DEF CallInv
<1>2. PICK pc \in {"waiting", "ok", "failed"} :
          op' = [op EXCEPT ![c].pc = pc] /\ op[c].pc # "idle"
  BY DEF Register, Woken, TimedOut
<1>3. op[c] \in OpRecord
  BY <1>1, <1>2, OpIs
<1>4. PICK r : r = [op[c] EXCEPT !.pc = pc]
  OBVIOUS
<1>5. op' = [op EXCEPT ![c] = r]
  BY <1>1, <1>2, <1>4 DEF OpsOK
<1>6. r.pc = pc /\ r.cmd = op[c].cmd
  BY <1>3, <1>4 DEF OpRecord
<1> QED
  BY <1>1, <1>2, <1>5, <1>6, RecordMoves

\* Submit and Complete start one.
LEMMA ProposeStarts ==
    ASSUME CallInv, NEW c \in Op, NEW i, NEW cmd, Propose(c, i, cmd)
    PROVE  NewCall(c, cmd)
<1>1. PICK r : /\ r = [pc |-> "proposed", node |-> i, cmd |-> cmd,
                       term |-> term[i], index |-> LastIndex(log'[i]),
                       opTerm |-> term[i], closed |-> FALSE]
               /\ op' = [op EXCEPT ![c] = r]
  BY DEF Propose
<1>2. r.pc = "proposed" /\ r.cmd = cmd
  BY <1>1
<1>3. op'[c] = r /\ \A d \in Op \ {c} : op'[d] = op[d]
  BY <1>1 DEF CallInv, OpsOK
<1> QED
  BY <1>2, <1>3 DEF NewCall, Propose

\* The steps that no call has a part in.
LEMMA OthersSame ==
    ASSUME CallInv, [Next]_vars
    PROVE  \/ SameCalls
           \/ \E c \in Submission, i \in Node : Submit(c, i)
           \/ \E c \in Completion, w \in Worker, i \in Node, r \in Result :
                  Complete(c, w, i, r)
<1>1. CASE op' = op
  BY <1>1 DEF SameCalls
<1>2. CASE RaftStep \/ UNCHANGED vars
  BY <1>1, <1>2 DEF RaftStep, vars, calls
<1>3. CASE \E i \in Node : ApplyLoop(i)
  BY <1>3, WakeSame
<1>4. CASE \E i \in Node :
             \/ GetState(i, "checkStalledTasks", i) \/ checkStalledTasks(i)
             \/ \E t \in Task : Lapse(i, t)
             \/ \E w \in Worker, call \in {"Poll", "Heartbeat"} :
                    GetState(w, call, i)
  BY <1>1, <1>4 DEF GetState, checkStalledTasks, Lapse, calls
<1>5. CASE \E c \in Op : Register(c) \/ Woken(c) \/ TimedOut(c)
  BY <1>5, CallSame
<1>6. CASE \/ \E h \in Thread : refreshLeaderState(h)
           \/ \E w \in Worker : Poll(w) \/ Heartbeat(w) \/ Release(w)
  BY <1>1, <1>6 DEF refreshLeaderState, Poll, Heartbeat, Release, calls
<1> QED
  BY <1>2, <1>3, <1>4, <1>5, <1>6 DEF Next

\* Once proposed, always proposed.
LEMMA ProposedStays ==
    ASSUME SameCalls \/ \E c \in Op, cmd \in Cmd : NewCall(c, cmd),
           NEW cmd, \E c \in Op : op[c].pc # "idle" /\ op[c].cmd = cmd
    PROVE  \E c \in Op : op'[c].pc # "idle" /\ op'[c].cmd = cmd
BY DEF SameCalls, NewCall

\* What is in the logs after a step some call has proposed.
LEMMA ProposedKept ==
    ASSUME ClusterInv, ClusterInv', SchedulingTypes, CallInv, EntriesProposed,
           [Next]_vars
    PROVE  EntriesProposed'
<1>1. RaftTypes
  BY DEF ClusterInv
<1>2. SUFFICES ASSUME NEW j \in Node, NEW n \in DOMAIN log'[j],
                      NEW cmd, cmd = log'[j][n].cmd, cmd # Noop
               PROVE  \E c \in Op : op'[c].pc # "idle" /\ op'[c].cmd = cmd
  BY DEF EntriesProposed
<1>3. ASSUME Carried(j, n)
      PROVE  \E c \in Op : op[c].pc # "idle" /\ op[c].cmd = cmd
  <2>1. PICK h \in Node : n \in DOMAIN log[h] /\ SameUpTo(log'[j], log[h], n)
    BY <1>3 DEF Carried
  <2>2. n \in 1..n
    BY <1>1, <2>1, EntryFacts
  <2>3. log'[j][n] = log[h][n]
    BY <2>1, <2>2 DEF SameUpTo
  <2> QED
    BY <1>2, <2>1, <2>3 DEF EntriesProposed
<1>4. ~Fresh(j, n)
  BY <1>2 DEF Fresh
<1>5. CASE SameCalls /\ (UNCHANGED raftVars \/ RaftNext)
  <2>1. Carried(j, n)
    <3>1. CASE UNCHANGED raftVars
      BY <1>2, <3>1 DEF raftVars, Carried, SameUpTo
    <3>2. CASE RaftNext
      BY <1>2, <1>4, <3>2, RaftFrom
    <3> QED
      BY <1>5, <3>1, <3>2
  <2> QED
    BY <1>3, <1>5, <2>1, ProposedStays
<1>6. ASSUME NEW c \in Op, NEW i \in Node, NEW e \in Cmd, Propose(c, i, e)
      PROVE  \E d \in Op : op'[d].pc # "idle" /\ op'[d].cmd = cmd
  <2>1. StartOn(i, e) /\ NewCall(c, e)
    BY <1>6, ProposeStarts DEF Propose
  <2>2. \/ Carried(j, n)
        \/ log'[j][n] = [term |-> term[i], cmd |-> e]
    BY <1>1, <1>2, <2>1, StartFrom
  <2>3. CASE Carried(j, n)
    BY <1>3, <2>1, <2>3, ProposedStays
  <2>4. CASE log'[j][n] = [term |-> term[i], cmd |-> e]
    BY <1>2, <2>1, <2>4 DEF NewCall
  <2> QED
    BY <2>2, <2>3, <2>4
<1>7. ASSUME NEW c \in Submission, NEW i \in Node, Submit(c, i)
      PROVE  \E d \in Op : op'[d].pc # "idle" /\ op'[d].cmd = cmd
  <2>1. PICK e \in Cmd : e = SubmitCmd(c)
    BY DEF Cmd, SubmitCmd, Task
  <2>2. c \in Op /\ Propose(c, i, e)
    BY <1>7, <2>1 DEF Submit, Op
  <2> QED
    BY <1>6, <2>2
<1>8. ASSUME NEW c \in Completion, NEW w \in Worker, NEW i \in Node,
             NEW r \in Result, Complete(c, w, i, r)
      PROVE  \E d \in Op : op'[d].pc # "idle" /\ op'[d].cmd = cmd
  <2>1. holding[w] \in Task
    BY <1>8 DEF Complete, SchedulingTypes
  <2>2. PICK e \in Cmd : e = CompleteCmd(holding[w], r)
    BY <2>1 DEF Cmd, CompleteCmd
  <2>3. c \in Op /\ Propose(c, i, e)
    BY <1>8, <2>2 DEF Complete, Op
  <2> QED
    BY <1>6, <2>3
<1> QED
  BY <1>5, <1>7, <1>8, OthersSame, StepActions

\* A worker asks for a task only while it has none, and gets one only then.
LEMMA PollersKept ==
    ASSUME SchedulingTypes, InflightNotDone, TablesMade, PollersFree,
           [Next]_vars
    PROVE  PollersFree'
<1>1. HandlerTypes
  BY SchedulingParts
<1>2. SUFFICES ASSUME NEW v \in Worker,
                      handler'[v].pc # "idle", handler'[v].call = "Poll"
               PROVE  holding'[v] = None
  BY DEF PollersFree
<1>3. v \in Thread /\ IdleHandler.pc = "idle"
  BY DEF Thread, IdleHandler
<1>4. CASE handler'[v] = handler[v] /\ holding'[v] \in {holding[v], None}
  BY <1>2, <1>4 DEF PollersFree
<1>5. ASSUME NEW h \in Thread, NEW call, NEW i, GetState(h, call, i)
      PROVE  holding'[v] = None
  <2>1. PICK r : /\ handler' = [handler EXCEPT ![h] = r] /\ r.call = call
                 /\ holding' = holding
    <3>1. PICK r : r = [pc |-> "read", call |-> call, node |-> i,
                        isLeader |-> leading[i],
                        task |-> IF call = "Heartbeat" THEN holding[h]
                                 ELSE None]
      OBVIOUS
    <3>2. handler' = [handler EXCEPT ![h] = r] /\ holding' = holding
      BY <1>5, <3>1 DEF GetState
    <3>3. r.call = call
      BY <3>1
    <3> QED
      BY <3>2, <3>3
  <2>2. CASE h = v
    BY <1>1, <1>2, <1>3, <1>5, <2>1, <2>2 DEF GetState, HandlerTypes
  <2>3. CASE h # v
    BY <1>1, <1>3, <1>4, <2>1, <2>3 DEF HandlerTypes
  <2> QED
    BY <2>2, <2>3
<1>6. ASSUME NEW h \in Thread, refreshLeaderState(h)
      PROVE  holding'[v] = None
  <2>1. handler[h].pc = "read" /\ holding' = holding
    BY <1>6 DEF refreshLeaderState
  <2>2. PICK r : /\ handler' = [handler EXCEPT ![h] = r]
                 /\ \/ r = [handler[h] EXCEPT !.pc = "work"]
                    \/ r = IdleHandler
    BY <1>6 DEF refreshLeaderState
  <2>3. CASE h = v
    <3>1. handler'[v] = r
      BY <1>1, <1>3, <2>2, <2>3 DEF HandlerTypes
    <3>2. handler[v] \in HandlerRecord
      BY <1>1, <1>3, <2>1, <2>3, HandlerIs
    <3>3. r.call = handler[v].call
      BY <1>2, <1>3, <2>2, <2>3, <3>1, <3>2 DEF HandlerRecord
    <3> QED
      BY <1>2, <2>1, <2>3, <3>1, <3>3 DEF PollersFree
  <2>4. CASE h # v
    BY <1>1, <1>3, <1>4, <2>1, <2>2, <2>4 DEF HandlerTypes
  <2> QED
    BY <2>3, <2>4
<1>7. ASSUME NEW h \in Thread, handler' = [handler EXCEPT ![h] = IdleHandler],
             \A w \in Worker : w # h => holding'[w] = holding[w]
      PROVE  holding'[v] = None
  <2>1. h # v
    BY <1>1, <1>2, <1>3, <1>7 DEF HandlerTypes
  <2> QED
    BY <1>1, <1>3, <1>4, <1>7, <2>1 DEF HandlerTypes
<1>8. ASSUME NEW w \in Worker, Poll(w)
      PROVE  holding'[v] = None
  <2>1. \A u \in Worker : u # w => holding'[u] = holding[u]
    <3>1. \/ holding' = holding
          \/ \E t \in Task : holding' = [holding EXCEPT ![w] = t]
      BY <1>1, <1>8, PollTask
    <3> QED
      BY <1>1, <3>1 DEF HandlerTypes
  <2>2. w \in Thread /\ handler' = [handler EXCEPT ![w] = IdleHandler]
    BY <1>8 DEF Poll, Finish, Thread
  <2> QED
    BY <1>7, <2>1, <2>2
<1>9. ASSUME NEW h \in Thread,
             (h \in Worker /\ Heartbeat(h)) \/ checkStalledTasks(h)
      PROVE  holding'[v] = None
  <2>1. /\ handler' = [handler EXCEPT ![h] = IdleHandler]
        /\ holding' = holding
    BY <1>9 DEF Heartbeat, checkStalledTasks, Finish
  <2> QED
    BY <1>7, <2>1
<1>10. ASSUME NEW w \in Worker, Release(w)
       PROVE  holding'[v] = None
  <2>1. handler' = handler /\ holding' = [holding EXCEPT ![w] = None]
    BY <1>10 DEF Release
  <2> QED
    BY <1>1, <1>4, <2>1 DEF HandlerTypes
<1>11. CASE handler' = handler /\ holding' = holding
  BY <1>4, <1>11
<1>12. CASE RaftStep \/ UNCHANGED vars
  BY <1>11, <1>12 DEF RaftStep, vars
<1>13. ASSUME NEW i \in Node,
              \/ ApplyLoop(i)
              \/ \E t \in Task : Lapse(i, t)
              \/ \E c \in Submission : Submit(c, i)
              \/ \E c \in Completion, w \in Worker, r \in Result :
                     Complete(c, w, i, r)
       PROVE  holding'[v] = None
  BY <1>11, <1>13 DEF ApplyLoop, Lapse, Submit, Complete, Propose
<1>14. CASE \E c \in Op : Register(c) \/ Woken(c) \/ TimedOut(c)
  BY <1>11, <1>14 DEF Register, Woken, TimedOut
<1>15. ASSUME NEW i \in Checking,
              GetState(i, "checkStalledTasks", i) \/ checkStalledTasks(i)
       PROVE  holding'[v] = None
  BY <1>5, <1>9, <1>15 DEF Thread
<1>16. ASSUME NEW w \in Worker, NEW call, NEW i, GetState(w, call, i)
       PROVE  holding'[v] = None
  BY <1>5, <1>16 DEF Thread
<1>17. ASSUME NEW w \in Worker, Heartbeat(w)
       PROVE  holding'[v] = None
  BY <1>9, <1>17 DEF Thread
<1> QED
  BY <1>6, <1>8, <1>10, <1>12, <1>13, <1>14, <1>15, <1>16, <1>17 DEF Next

\* No call proposes a no-op.
LEMMA RealKept ==
    ASSUME SchedulingTypes, CallInv, CallsReal, [Next]_vars
    PROVE  CallsReal'
<1>1. CASE SameCalls
  BY <1>1 DEF SameCalls, CallsReal
<1>2. ASSUME NEW c, NEW cmd, NewCall(c, cmd), cmd # Noop
      PROVE  CallsReal'
  BY <1>2 DEF NewCall, CallsReal
<1>3. ASSUME NEW c \in Submission, NEW i \in Node, Submit(c, i)
      PROVE  CallsReal'
  <2>1. c \in Op /\ Propose(c, i, SubmitCmd(c)) /\ SubmitCmd(c) # Noop
    BY <1>3, NoopAssumption DEF Submit, Op, Task
  <2> QED
    BY <1>2, <2>1, ProposeStarts
<1>4. ASSUME NEW c \in Completion, NEW w \in Worker, NEW i \in Node,
             NEW r \in Result, Complete(c, w, i, r)
      PROVE  CallsReal'
  <2>1. holding[w] \in Task
    BY <1>4 DEF Complete, SchedulingTypes
  <2>2. PICK cmd : cmd = CompleteCmd(holding[w], r)
    OBVIOUS
  <2>3. c \in Op /\ Propose(c, i, cmd) /\ cmd # Noop
    BY <1>4, <2>1, <2>2, NoopAssumption DEF Complete, Op
  <2> QED
    BY <1>2, <2>3, ProposeStarts
<1> QED
  BY <1>1, <1>3, <1>4, OthersSame

\* All of it, in every behaviour.
QueueSafe == BrokerSafe /\ QueueInv

\* Each part is kept.
LEMMA QueueInvariant == Spec => []QueueSafe
<1>1. Init => QueueInv
  <2> SUFFICES ASSUME Init PROVE QueueInv
    OBVIOUS
  <2>1. /\ log = [i \in Node |-> <<>>]
        /\ handler = [h \in Thread |-> IdleHandler]
    BY DEF Init, RaftInit
  <2>2. PollersFree
    BY <2>1 DEF PollersFree, Thread, IdleHandler
  <2>3. EntriesProposed
    BY <2>1 DEF EntriesProposed
  <2>4. CallsReal
    BY DEF Init, CallsReal, IdleOp
  <2> QED
    BY <2>2, <2>3, <2>4 DEF QueueInv
<1>2. BrokerSafe /\ BrokerSafe' /\ QueueInv /\ [Next]_vars => QueueInv'
  <2> SUFFICES ASSUME BrokerSafe, BrokerSafe', QueueInv, [Next]_vars
               PROVE  QueueInv'
    OBVIOUS
  <2>1. /\ ClusterInv /\ TablesMade /\ SchedulingTypes /\ InflightNotDone
        /\ CallInv /\ PollersFree /\ EntriesProposed /\ CallsReal
        /\ ClusterInv'
    BY DEF BrokerSafe, QueueInv
  <2>2. PollersFree'
    BY <2>1, PollersKept
  <2>3. EntriesProposed'
    BY <2>1, ProposedKept
  <2>4. CallsReal'
    BY <2>1, RealKept
  <2> QED
    BY <2>2, <2>3, <2>4 DEF QueueInv
<1> QED
  BY BrokerInvariant, <1>1, <1>2, PTL DEF Spec, QueueSafe

-----------------------------------------------------------------------------
(* What has taken effect *)

\* Some replica is furthest ahead.
LEMMA AheadIs ==
    ASSUME TablesMade
    PROVE  Ahead \in Node /\ \A j \in Node : applied[j] <= applied[Ahead]
<1>1. applied \in [Node -> Nat]
  BY DEF TablesMade
<1>2. PICK i \in Node : \A j \in Node : applied[j] <= applied[i]
  BY <1>1, SomeNodeLeads
<1> QED
  BY <1>2 DEF Ahead

\* The commands at the first n places of l.
CmdsOf(l, n) == {l[k].cmd : k \in 1..n}

\* What the abstract queue is made from: the log l as far as n, from which the
\* tables of i, which is furthest ahead, are made.
QueueFrom(i, n, l) ==
    /\ i \in Node /\ i = Ahead /\ n \in Nat /\ n = applied[i] /\ l = log[i]
    /\ \A j \in Node : applied[j] <= n
    /\ AppliedCmds = CmdsOf(l, n)
    /\ MadeFrom(submittedOrder[i], errors[i], l, n)
    /\ submittedOrder[i] \in Seq(Task)
    /\ \A k \in 1..n : l[k].cmd \in Cmd

QueueShape == \E i, n, l : QueueFrom(i, n, l)

\* In every state there is such a replica.
LEMMA QueueIsFrom ==
    ASSUME ClusterInv, TablesMade
    PROVE  QueueShape
<1>1. PICK i : i = Ahead
  OBVIOUS
<1>2. i \in Node /\ \A j \in Node : applied[j] <= applied[i]
  BY <1>1, AheadIs
<1>3. PICK n \in Nat : n = applied[i]
  BY <1>2 DEF TablesMade
<1>4. PICK l : l = log[i]
  OBVIOUS
<1>5. /\ MadeFrom(submittedOrder[i], errors[i], l, n)
      /\ submittedOrder[i] \in Seq(Task) /\ n <= commit[i]
  BY <1>2, <1>3, <1>4 DEF TablesMade
<1>6. AppliedCmds = CmdsOf(l, n)
  BY <1>1, <1>3, <1>4 DEF AppliedCmds, CmdsOf
<1>7. \A k \in 1..n : l[k].cmd \in Cmd
  <2>1. /\ commit[i] <= Len(log[i]) /\ commit[i] \in Nat
        /\ Len(log[i]) \in Nat
    BY <1>2, EntryFacts DEF ClusterInv, CommitsProtected
  <2>2. \A k \in 1..n : k \in 1..Len(log[i])
    BY <1>5, <2>1
  <2>3. \A k \in 1..Len(log[i]) : log[i][k] \in LogEntry
    BY <1>2, EntryFacts DEF ClusterInv
  <2>4. \A e \in LogEntry : e.cmd \in Cmd
    BY DEF LogEntry
  <2> QED
    BY <1>4, <2>2, <2>3, <2>4
<1> QED
  BY <1>1, <1>2, <1>3, <1>4, <1>5, <1>6, <1>7 DEF QueueShape, QueueFrom

\* What a prefix is.
LEMMA PrefixIs ==
    ASSUME NEW S, NEW s \in Seq(S), NEW r \in Seq(S), IsPrefix(s, r)
    PROVE  /\ Len(s) <= Len(r) /\ Len(s) \in Nat /\ Len(r) \in Nat
           /\ \A k \in 1..Len(s) : s[k] = r[k]
<1>1. /\ Len(s) <= Len(r) /\ Len(s) \in Nat /\ Len(r) \in Nat
      /\ SubSeq(s, 1, Len(s)) = SubSeq(r, 1, Len(s))
  BY DEF IsPrefix
<1>2. ASSUME NEW k \in 1..Len(s)
      PROVE  s[k] = r[k]
  <2>1. SubSeq(s, 1, Len(s))[k] = s[k]
    BY <1>1
  <2>2. SubSeq(r, 1, Len(s))[k] = r[k]
    BY <1>1
  <2> QED
    BY <1>1, <2>1, <2>2
<1> QED
  BY <1>1, <1>2

\* Prefixes of each other are equal.
LEMMA PrefixesBothWays ==
    ASSUME NEW S, NEW s \in Seq(S), NEW r \in Seq(S),
           IsPrefix(s, r), IsPrefix(r, s)
    PROVE  s = r
<1>1. /\ Len(s) <= Len(r) /\ Len(r) <= Len(s)
      /\ Len(s) \in Nat /\ Len(r) \in Nat
      /\ \A k \in 1..Len(s) : s[k] = r[k]
  BY PrefixIs
<1>2. Len(s) = Len(r)
  BY <1>1
<1> QED
  BY <1>1, <1>2

\* The tables are made in one way only.
LEMMA MadeOnce ==
    ASSUME NEW s \in Seq(Task), NEW r \in Seq(Task), NEW e, NEW f, NEW l,
           NEW n \in Nat, MadeFrom(s, e, l, n), MadeFrom(r, f, l, n)
    PROVE  s = r
<1>1. n <= n
  OBVIOUS
<1>2. IsPrefix(s, r) /\ IsPrefix(r, s)
  BY <1>1, MadeFromPrefix
<1> QED
  BY <1>2, PrefixesBothWays

\* An entry submits or completes a task when it has the command to.
LEMMA CmdOf ==
    ASSUME NEW e, e.cmd \in Cmd, NEW t \in Task
    PROVE  /\ IsSubmit(e, t) <=> e.cmd = SubmitCmd(t)
           /\ \A r \in Result :
                IsComplete(e, t) /\ e.cmd.data = r <=> e.cmd = CompleteCmd(t, r)
<1>1. CASE e.cmd = Noop
  BY <1>1, NoopAssumption DEF IsSubmit, IsComplete, decodeCommand
<1>2. CASE e.cmd # Noop /\ e.cmd \in [op : {"submit"}, id : Task]
  BY <1>2 DEF IsSubmit, IsComplete, decodeCommand, SubmitCmd, CompleteCmd
<1>3. CASE /\ e.cmd # Noop
           /\ e.cmd \in [op : {"complete"}, id : Task, data : Result]
  BY <1>3 DEF IsSubmit, IsComplete, decodeCommand, SubmitCmd, CompleteCmd
<1> QED
  BY <1>1, <1>2, <1>3 DEF Cmd

\* The tasks in the abstract list are those whose submission has taken effect.
LEMMA SubmittedCmds ==
    ASSUME NEW l, NEW n \in Nat, \A k \in 1..n : l[k].cmd \in Cmd,
           NEW t \in Task
    PROVE  t \in SubmittedIn(l, n) <=> SubmitCmd(t) \in CmdsOf(l, n)
<1>1. \A k \in 1..n : IsSubmit(l[k], t) <=> l[k].cmd = SubmitCmd(t)
  BY CmdOf
<1> QED
  BY <1>1 DEF SubmittedIn, CmdsOf

\* Logs that are the same so far have the same commands.
LEMMA CmdsSame ==
    ASSUME NEW l, NEW r, NEW n \in Nat, SameUpTo(l, r, n)
    PROVE  CmdsOf(l, n) = CmdsOf(r, n)
BY DEF SameUpTo, CmdsOf

\* What calls have proposed.
Called == {op[c].cmd : c \in {d \in Op : op[d].pc # "idle"}}

\* What is proposed.
UnappliedAre == Unapplied = Called \ AppliedCmds

LEMMA UnappliedIs == Unapplied = Called \ AppliedCmds
BY DEF Unapplied, Called

\* What has come of it.
LEMMA OutcomesAre ==
    Outcomes = [t \in Task |-> {r \in Result : CompleteCmd(t, r) \in AppliedCmds}]
BY DEF Outcomes

\* The same in the next state.
LEMMA UnappliedNext == Unapplied' = Called' \ AppliedCmds'
<1>1. UnappliedAre
  BY UnappliedIs DEF UnappliedAre
<1>2. UnappliedAre'
  BY <1>1, PTL
<1> QED
  BY <1>2 DEF UnappliedAre

\* How a step changes what calls have proposed.
LEMMA CalledMoves ==
    /\ SameCalls => Called' = Called
    /\ \A c, cmd : NewCall(c, cmd) => Called' = Called \cup {cmd}
<1>1. ASSUME SameCalls
      PROVE  Called' = Called
  BY <1>1 DEF SameCalls, Called
<1>2. ASSUME NEW c, NEW cmd, NewCall(c, cmd)
      PROVE  Called' = Called \cup {cmd}
  <2>1. \A x : x \in Called' <=> x \in Called \/ x = cmd
    BY <1>2 DEF NewCall, Called
  <2> QED
    BY <2>1
<1> QED
  BY <1>1, <1>2

-----------------------------------------------------------------------------
(* The steps *)

\* Of two nodes, the one that has applied more has the log of the other.
AllAgree ==
    \A i, j \in Node : applied[i] <= applied[j]
                           => SameUpTo(log[i], log[j], applied[i])

LEMMA SafeFacts == BrokerSafe => QueueShape /\ AllAgree /\ CompletedWasSubmitted
BY QueueIsFrom, AppliedAgree, SafeSubmitted DEF BrokerSafe, AllAgree

\* The same in the next state.
LEMMA SafeFactsNext ==
    BrokerSafe' => QueueShape' /\ AllAgree' /\ CompletedWasSubmitted'
BY SafeFacts, PTL

\* No more than one entry takes effect in a step, and what has taken effect
\* stays.
LEMMA QueueMoves ==
    ASSUME BrokerSafe, BrokerSafe', [Next]_vars,
           NEW i, NEW n, NEW l, QueueFrom(i, n, l),
           NEW j, NEW m, NEW r, QueueFrom(j, m, r)'
    PROVE  /\ SameUpTo(l, r, n)
           /\ m = n \/ (m = n + 1 /\ \E h \in Node : ApplyLoop(h))
<1>1. /\ ClusterInv /\ TablesMade /\ SchedulingTypes /\ AllAgree'
      /\ TablesMade'
  BY SafeFactsNext DEF BrokerSafe
<1>2. /\ i \in Node /\ n \in Nat /\ n = applied[i] /\ l = log[i]
      /\ \A h \in Node : applied[h] <= n /\ applied[h] \in Nat
  BY <1>1 DEF QueueFrom, TablesMade
<1>3. /\ j \in Node /\ m \in Nat /\ m = applied'[j] /\ r = log'[j]
      /\ \A h \in Node : applied'[h] <= m /\ applied'[h] \in Nat
  BY <1>1 DEF QueueFrom, TablesMade
<1>4. \A h \in Node : applied'[h] = applied[h]
          \/ (applied'[h] = applied[h] + 1 /\ ApplyLoop(h))
  <2>1. CASE UNCHANGED tables
    BY <2>1 DEF tables
  <2>2. ASSUME NEW k \in Node, ApplyLoop(k)
        PROVE  \A h \in Node : applied'[h] = applied[h]
                   \/ (applied'[h] = applied[h] + 1 /\ ApplyLoop(h))
    <3>1. applied' = [applied EXCEPT ![k] = applied[k] + 1]
      BY <1>1, <2>2, AppliedTables
    <3> QED
      BY <1>1, <2>2, <3>1 DEF TablesMade
  <2> QED
    BY <2>1, <2>2, TablesChange
<1>5. n <= applied'[i] /\ applied'[i] <= m
  <2>1. applied'[i] = n \/ applied'[i] = n + 1
    BY <1>2, <1>4
  <2> QED
    BY <1>2, <1>3, <2>1
<1>6. m = n \/ (m = n + 1 /\ \E h \in Node : ApplyLoop(h))
  <2>1. m = applied[j] \/ (m = applied[j] + 1 /\ ApplyLoop(j))
    BY <1>3, <1>4
  <2>2. applied[j] <= n /\ applied[j] \in Nat /\ n <= m
    BY <1>2, <1>3, <1>5
  <2> QED
    BY <1>2, <1>3, <2>1, <2>2
<1>7. SameUpTo(l, r, n)
  <2>1. PICK a \in Nat : a = applied'[i]
    BY <1>2, <1>3
  <2>2. PICK q : q = log'[i]
    OBVIOUS
  <2>3. SameUpTo(q, r, a) /\ n <= a
    BY <1>1, <1>2, <1>3, <1>5, <2>1, <2>2 DEF AllAgree
  <2>4. PICK c \in Nat : c = commit[i]
    BY <1>1, <1>2 DEF ClusterInv, RaftTypes
  <2>5. CommitsStay
    BY <1>1, StepKeepsCluster
  <2>6. SameUpTo(q, l, c) /\ n <= c
    BY <1>1, <1>2, <2>2, <2>4, <2>5 DEF CommitsStay, TablesMade
  <2>7. \A k \in 1..n : k \in 1..a /\ k \in 1..c
    BY <1>2, <2>3, <2>6
  <2> QED
    BY <2>3, <2>6, <2>7 DEF SameUpTo
<1> QED
  BY <1>6, <1>7

\* A step in which nothing takes effect leaves list and outcomes as they are.
Still == /\ AppliedCmds' = AppliedCmds /\ Outcomes' = Outcomes
         /\ submittedOrder'[Ahead'] = submittedOrder[Ahead]

LEMMA NothingNew ==
    ASSUME NEW i, NEW n, NEW l, QueueFrom(i, n, l),
           NEW j, NEW r, QueueFrom(j, n, r)', SameUpTo(l, r, n)
    PROVE  Still
<1>1. PICK s \in Seq(Task) : s = submittedOrder[i]
  BY DEF QueueFrom
<1>2. PICK q \in Seq(Task) : q = submittedOrder'[j]
  BY DEF QueueFrom
<1>3. PICK e, f : e = errors[i] /\ f = errors'[j]
  OBVIOUS
<1>4. /\ n \in Nat /\ MadeFrom(s, e, l, n) /\ AppliedCmds = CmdsOf(l, n)
      /\ i = Ahead
  BY <1>1, <1>3 DEF QueueFrom
<1>5. /\ MadeFrom(q, f, r, n) /\ AppliedCmds' = CmdsOf(r, n) /\ j = Ahead'
  BY <1>2, <1>3 DEF QueueFrom
<1>6. MadeFrom(s, e, r, n)
  BY <1>4, MadeFromSame
<1>7. s = q
  BY <1>4, <1>5, <1>6, MadeOnce
<1>8. AppliedCmds' = AppliedCmds
  BY <1>4, <1>5, CmdsSame
<1>9. Outcomes' = Outcomes
  BY <1>8 DEF Outcomes
<1> QED
  BY <1>1, <1>2, <1>4, <1>5, <1>7, <1>8, <1>9 DEF Still

\* The abstract state does not change.
Stutter == UNCHANGED <<Unapplied, submittedOrder[Ahead], Outcomes, holding>>

LEMMA StutterIs ==
    ASSUME Still, SameCalls, holding' = holding
    PROVE  Stutter
<1>1. Unapplied' = Unapplied
  BY CalledMoves, UnappliedIs, UnappliedNext DEF Still
<1> QED
  BY <1>1 DEF Still, Stutter

\* A call proposes a command that has not taken effect, or it stutters.
LEMMA ProposeRefines ==
    ASSUME Still, holding' = holding, NEW c, NEW cmd, NewCall(c, cmd),
           cmd \notin AppliedCmds => ~Queue!Recorded(cmd)
    PROVE  Stutter \/ Queue!Propose(cmd)
<1>1. Called' = Called \cup {cmd}
  BY CalledMoves
<1>2. CASE cmd \in AppliedCmds
  <2>1. Unapplied' = Unapplied
    BY <1>1, <1>2, UnappliedIs, UnappliedNext DEF Still
  <2> QED
    BY <2>1 DEF Still, Stutter
<1>3. CASE cmd \notin AppliedCmds
  <2>1. Unapplied' = Unapplied \cup {cmd}
    BY <1>1, <1>3, UnappliedIs, UnappliedNext DEF Still
  <2> QED
    BY <1>3, <2>1 DEF Still, Queue!Propose
<1> QED
  BY <1>2, <1>3

\* A command about a task is recorded when it has taken effect.
LEMMA RecordedIs ==
    ASSUME NEW i, NEW n, NEW l, QueueFrom(i, n, l), NEW t \in Task
    PROVE  /\ Queue!Recorded(SubmitCmd(t)) => SubmitCmd(t) \in AppliedCmds
           /\ \A r \in Result : Queue!Recorded(CompleteCmd(t, r))
                                    => CompleteCmd(t, r) \in AppliedCmds
<1>1. /\ n \in Nat /\ AppliedCmds = CmdsOf(l, n) /\ i = Ahead
      /\ Range(submittedOrder[i]) = SubmittedIn(l, n)
      /\ \A k \in 1..n : l[k].cmd \in Cmd
  BY DEF QueueFrom, MadeFrom, OrderOf
<1>2. t \in SubmittedIn(l, n) <=> SubmitCmd(t) \in CmdsOf(l, n)
  BY <1>1, SubmittedCmds
<1>3. Queue!Recorded(SubmitCmd(t)) => t \in Range(submittedOrder[Ahead])
  BY DEF Queue!Recorded, Queue!Submitted, Queue!Range, Range, SubmitCmd
<1>4. ASSUME NEW r \in Result, Queue!Recorded(CompleteCmd(t, r))
      PROVE  CompleteCmd(t, r) \in AppliedCmds
  <2>1. r \in Outcomes[t]
    BY <1>4 DEF Queue!Recorded, CompleteCmd
  <2> QED
    BY <2>1, OutcomesAre
<1> QED
  BY <1>1, <1>2, <1>3, <1>4

\* The last entry that has taken effect, unless it is a no-op, some call has
\* proposed.
LastCalled ==
    \A i, n, l : QueueFrom(i, n, l) /\ n # 0 /\ l[n].cmd # Noop
                     => l[n].cmd \in Called

LEMMA LastIsCalled == BrokerSafe /\ QueueInv => LastCalled
<1>1. ASSUME BrokerSafe, QueueInv, NEW i, NEW n, NEW l, QueueFrom(i, n, l),
             n # 0, l[n].cmd # Noop
      PROVE  l[n].cmd \in Called
  <2>1. /\ i \in Node /\ n \in Nat /\ n = applied[i] /\ l = log[i]
        /\ ClusterInv /\ TablesMade /\ EntriesProposed
    BY <1>1 DEF QueueFrom, BrokerSafe, QueueInv
  <2>2. PICK c \in Nat : c = commit[i]
    BY <2>1 DEF ClusterInv, RaftTypes
  <2>3. n <= c /\ c <= Len(l) /\ Len(l) \in Nat /\ DOMAIN l = 1..Len(l)
    BY <2>1, <2>2, EntryFacts DEF TablesMade, ClusterInv, CommitsProtected
  <2>4. n \in DOMAIN log[i]
    BY <1>1, <2>1, <2>3
  <2>5. PICK d \in Op : op[d].pc # "idle" /\ op[d].cmd = l[n].cmd
    BY <1>1, <2>1, <2>4 DEF EntriesProposed
  <2> QED
    BY <2>5 DEF Called
<1> QED
  BY <1>1 DEF LastCalled

\* The same in the next state.
LEMMA LastIsCalledNext == BrokerSafe' /\ QueueInv' => LastCalled'
BY LastIsCalled, PTL

\* What becomes of the results when the command cmd takes effect.
LEMMA OutcomesMove ==
    ASSUME NEW cmd \in Cmd, AppliedCmds' = AppliedCmds \cup {cmd}
    PROVE  /\ cmd \in AppliedCmds => Outcomes' = Outcomes
           /\ (\A t \in Task : \A x \in Result : cmd # CompleteCmd(t, x))
                  => Outcomes' = Outcomes
           /\ \A t \in Task, x \in Result : cmd = CompleteCmd(t, x) =>
                  Outcomes' = [Outcomes EXCEPT ![t] = @ \cup {x}]
<1>1. Outcomes' = [t \in Task |->
                      {x \in Result : CompleteCmd(t, x) \in AppliedCmds'}]
  BY DEF Outcomes, CompleteCmd
<1>2. CASE cmd \in AppliedCmds
  BY <1>1, <1>2, OutcomesAre
<1>3. CASE \A t \in Task : \A x \in Result : cmd # CompleteCmd(t, x)
  <2>1. \A t \in Task : \A x \in Result :
            CompleteCmd(t, x) \in AppliedCmds'
                <=> CompleteCmd(t, x) \in AppliedCmds
    BY <1>3
  <2> QED
    BY <1>1, <2>1, OutcomesAre
<1>4. ASSUME NEW t \in Task, NEW x \in Result, cmd = CompleteCmd(t, x)
      PROVE  Outcomes' = [Outcomes EXCEPT ![t] = @ \cup {x}]
  <2>1. \A u \in Task : \A y \in Result :
            CompleteCmd(u, y) = cmd <=> u = t /\ y = x
    BY <1>4 DEF CompleteCmd
  <2>2. \A u \in Task : \A y \in Result :
            CompleteCmd(u, y) \in AppliedCmds'
                <=> CompleteCmd(u, y) \in AppliedCmds \/ (u = t /\ y = x)
    BY <2>1
  <2>3. \A u \in Task : Outcomes'[u] =
            IF u = t THEN Outcomes[t] \cup {x} ELSE Outcomes[u]
    BY <1>1, <2>2, OutcomesAre
  <2>4. DOMAIN Outcomes = Task /\ DOMAIN Outcomes' = Task
    BY <1>1, OutcomesAre
  <2> QED
    BY <1>1, <2>3, <2>4, OutcomesAre
<1> QED
  BY <1>2, <1>3, <1>4

\* The proposed command that takes effect is no longer proposed.
LEMMA UnappliedMoves ==
    ASSUME SameCalls, NEW cmd, AppliedCmds' = AppliedCmds \cup {cmd}
    PROVE  /\ Unapplied' = Unapplied \ {cmd}
           /\ cmd \in AppliedCmds \/ cmd \notin Called => Unapplied' = Unapplied
BY CalledMoves, UnappliedIs, UnappliedNext

\* An entry that takes effect: the command of a call, for the first time, or
\* nothing that shows.
LEMMA CommitRefines ==
    ASSUME BrokerSafe, BrokerSafe', QueueInv, QueueInv',
           SameCalls, holding' = holding,
           NEW i, NEW n, NEW l, QueueFrom(i, n, l),
           NEW j, NEW m, NEW r, QueueFrom(j, m, r)',
           m = n + 1, SameUpTo(l, r, n)
    PROVE  Stutter \/ \E cmd \in Unapplied : Queue!Commit(cmd)
<1>1. PICK s \in Seq(Task) : s = submittedOrder[i]
  BY DEF QueueFrom
<1>2. PICK q \in Seq(Task) : q = submittedOrder'[j]
  BY DEF QueueFrom
<1>3. PICK e, f : e = errors[i] /\ f = errors'[j]
  OBVIOUS
<1>4. /\ n \in Nat /\ MadeFrom(s, e, l, n) /\ AppliedCmds = CmdsOf(l, n)
      /\ s = submittedOrder[Ahead] /\ \A k \in 1..n : l[k].cmd \in Cmd
  BY <1>1, <1>3 DEF QueueFrom
<1>5. /\ m \in Nat /\ MadeFrom(q, f, r, m) /\ AppliedCmds' = CmdsOf(r, m)
      /\ q = submittedOrder'[Ahead'] /\ \A k \in 1..m : r[k].cmd \in Cmd
      /\ j \in Node
  BY <1>2, <1>3 DEF QueueFrom
<1>6. MadeFrom(s, e, r, n)
  BY <1>4, MadeFromSame
<1>7. m # 0 /\ m \in 1..m
  BY <1>4, <1>5
<1>8. PICK cmd \in Cmd : cmd = r[m].cmd
  BY <1>5, <1>7
<1>9. AppliedCmds' = AppliedCmds \cup {cmd}
  <2>1. CmdsOf(l, n) = CmdsOf(r, n)
    BY <1>4, CmdsSame
  <2>2. \A k : k \in 1..m <=> k \in 1..n \/ k = m
    BY <1>4
  <2>3. CmdsOf(r, m) = CmdsOf(r, n) \cup {cmd}
    BY <1>8, <2>2 DEF CmdsOf
  <2> QED
    BY <1>4, <1>5, <2>1, <2>3
<1>10. cmd # Noop => cmd \in Called
  <2>1. LastCalled'
    BY LastIsCalledNext
  <2>2. cmd # Noop => cmd \in Called'
    BY <1>7, <1>8, <2>1 DEF LastCalled
  <2> QED
    BY <2>2, CalledMoves
<1>11. cmd = r[n + 1].cmd
  BY <1>8
<1>12. /\ Unapplied' = Unapplied \ {cmd}
       /\ cmd \in AppliedCmds \/ cmd \notin Called => Unapplied' = Unapplied
  BY <1>9, UnappliedMoves
<1>13. ASSUME q = s, Outcomes' = Outcomes, Unapplied' = Unapplied
       PROVE  Stutter
  BY <1>4, <1>5, <1>13 DEF Stutter
<1>14. MadeFrom(s, e, r, m) \/ (\E g : MadeFrom(s, g, r, m)) => q = s
  BY <1>5, MadeOnce
<1>15. CASE cmd = Noop
  <2>1. decodeCommand(cmd) = ""
    BY <1>15 DEF decodeCommand
  <2>2. q = s
    BY <1>4, <1>6, <1>11, <1>14, <2>1, MadeNothing
  <2>3. Outcomes' = Outcomes
    BY <1>9, <1>15, OutcomesMove, NoopAssumption
  <2>4. Noop \notin Called
    BY DEF QueueInv, CallsReal, Called
  <2> QED
    BY <1>12, <1>13, <1>15, <2>2, <2>3, <2>4
<1>16. ASSUME NEW t \in Task, cmd # Noop, cmd = SubmitCmd(t)
       PROVE  Stutter \/ \E c \in Unapplied : Queue!Commit(c)
  <2>1. decodeCommand(cmd) = "submit" /\ cmd.id = t
    BY <1>16 DEF decodeCommand, SubmitCmd
  <2>2. t \in Range(s) <=> cmd \in AppliedCmds
    BY <1>4, <1>16, SubmittedCmds DEF MadeFrom, OrderOf
  <2>3. Outcomes' = Outcomes
    <3>1. \A u \in Task : \A x \in Result : cmd # CompleteCmd(u, x)
      BY <2>1, <1>16 DEF SubmitCmd, CompleteCmd
    <3> QED
      BY <1>9, <3>1, OutcomesMove
  <2>4. /\ t \in Range(s) => MadeFrom(s, e, r, m)
        /\ t \notin Range(s) => MadeFrom(Append(s, t), e, r, m)
    BY <1>4, <1>6, <1>11, <2>1, MadeSubmit
  <2>5. CASE cmd \in AppliedCmds
    BY <1>12, <1>13, <1>14, <2>2, <2>3, <2>4, <2>5
  <2>6. CASE cmd \notin AppliedCmds
    <3>1. PICK o \in Seq(Task) : o = Append(s, t)
      <4>1. Append(s, t) \in Seq(Task)
        OBVIOUS
      <4> QED
        BY <4>1
    <3>2. q = o
      BY <1>5, <2>2, <2>4, <2>6, <3>1, MadeOnce
    <3>3. cmd \in Unapplied
      BY <1>10, <1>16, <2>6, UnappliedIs
    <3>4. submittedOrder'[Ahead'] = Append(submittedOrder[Ahead], cmd.id)
      BY <1>4, <1>5, <2>1, <3>1, <3>2
    <3>5. cmd.op = "submit"
      BY <1>16 DEF SubmitCmd
    <3>6. Queue!Commit(cmd)
      BY <1>12, <2>3, <3>3, <3>4, <3>5 DEF Queue!Commit
    <3> QED
      BY <3>3, <3>6
  <2> QED
    BY <2>5, <2>6
<1>17. ASSUME NEW t \in Task, NEW x \in Result,
              cmd # Noop, cmd = CompleteCmd(t, x)
       PROVE  Stutter \/ \E c \in Unapplied : Queue!Commit(c)
  <2>1. decodeCommand(cmd) = "complete" /\ cmd.id = t /\ cmd.data = x
    BY <1>17 DEF decodeCommand, CompleteCmd
  <2>2. q = s
    <3>1. PICK g : g = With(e, t, x)
      OBVIOUS
    <3>2. MadeFrom(s, g, r, m)
      BY <1>4, <1>6, <1>11, <2>1, <3>1, MadeComplete
    <3> QED
      BY <1>14, <3>2
  <2>3. CASE cmd \in AppliedCmds
    BY <1>9, <1>12, <1>13, <2>2, <2>3, OutcomesMove
  <2>4. CASE cmd \notin AppliedCmds
    <3>1. t \in Range(s)
      <4>1. t \in CompletedIn(r, m)
        BY <1>7, <1>8, <2>1 DEF CompletedIn, IsComplete
      <4>2. t \in Done(j)'
        BY <1>3, <1>5, <4>1 DEF MadeFrom, Done
      <4>3. CompletedWasSubmitted'
        BY SafeFactsNext
      <4> QED
        BY <1>2, <1>5, <2>2, <4>2, <4>3 DEF CompletedWasSubmitted
    <3>2. cmd \in Unapplied
      BY <1>10, <1>17, <2>4, UnappliedIs
    <3>3. Outcomes' = [Outcomes EXCEPT ![cmd.id] = @ \cup {cmd.data}]
      BY <1>9, <1>17, <2>1, OutcomesMove
    <3>4. cmd.op = "complete"
      BY <1>17 DEF CompleteCmd
    <3>5. submittedOrder'[Ahead'] = submittedOrder[Ahead]
      BY <1>4, <1>5, <2>2
    <3>6. cmd.id \in Queue!Submitted
      BY <1>4, <2>1, <3>1 DEF Queue!Submitted, Queue!Range, Range
    <3>7. Queue!Commit(cmd)
      BY <1>12, <3>2, <3>3, <3>4, <3>5, <3>6 DEF Queue!Commit
    <3> QED
      BY <3>2, <3>7
  <2> QED
    BY <2>3, <2>4
<1>18. \/ cmd = Noop
       \/ \E t \in Task : cmd = SubmitCmd(t)
       \/ \E t \in Task, x \in Result : cmd = CompleteCmd(t, x)
  BY DEF Cmd, SubmitCmd, CompleteCmd
<1> QED
  BY <1>15, <1>16, <1>17, <1>18

\* A list has what its prefixes have.
LEMMA PrefixRange ==
    ASSUME NEW S, NEW s \in Seq(S), NEW r \in Seq(S), IsPrefix(s, r),
           NEW t \in Range(s)
    PROVE  t \in Range(r)
<1>1. PICK k \in 1..Len(s) : t = s[k]
  BY DEF Range
<1>2. /\ Len(s) <= Len(r) /\ Len(s) \in Nat /\ Len(r) \in Nat
      /\ \A m \in 1..Len(s) : s[m] = r[m]
  BY PrefixIs
<1>3. s[k] = r[k] /\ k \in 1..Len(r)
  BY <1>2
<1> QED
  BY <1>1, <1>3 DEF Range

\* Poll lends a task that the furthest replica lists, or none.
LEMMA PollRefines ==
    ASSUME BrokerSafe, QueueInv, Still, SameCalls, NEW w \in Worker, Poll(w)
    PROVE  Stutter \/ \E t \in Task : Queue!Lend(w, t)
<1>1. /\ TablesMade /\ HandlerTypes /\ ClusterInv /\ PollersFree
      /\ holding[w] = None
  <2>1. /\ TablesMade /\ SchedulingTypes /\ InflightNotDone /\ ClusterInv
        /\ PollersFree
    BY DEF BrokerSafe, QueueInv
  <2>2. HandlerTypes
    BY <2>1, SchedulingParts
  <2>3. handler[w].pc # "idle" /\ handler[w].call = "Poll"
    BY DEF Poll, Working
  <2> QED
    BY <2>1, <2>2, <2>3 DEF PollersFree
<1>2. CASE holding' = holding
  BY <1>2, StutterIs
<1>3. CASE \E i \in Node, t \in Task :
             t \in Range(submittedOrder[i])
                 /\ holding' = [holding EXCEPT ![w] = t]
  <2>1. PICK i \in Node, t \in Task :
            t \in Range(submittedOrder[i])
                /\ holding' = [holding EXCEPT ![w] = t]
    BY <1>3
  <2>2. PICK a \in Node : a = Ahead /\ applied[i] <= applied[a]
    BY <1>1, AheadIs
  <2>3. PICK s \in Seq(Task) : s = submittedOrder[i]
    BY <1>1 DEF TablesMade
  <2>4. PICK q \in Seq(Task) : q = submittedOrder[a]
    BY <1>1 DEF TablesMade
  <2>5. IsPrefix(s, q)
    BY <1>1, <2>2, <2>3, <2>4, ReplicaIsPrefix
  <2>6. t \in Range(s)
    BY <2>1, <2>3
  <2>7. t \in Range(q)
    BY <2>5, <2>6, PrefixRange
  <2>8. t \in Queue!Submitted
    BY <2>2, <2>4, <2>7 DEF Queue!Submitted, Queue!Range, Range
  <2>9. Unapplied' = Unapplied
    BY CalledMoves, UnappliedIs, UnappliedNext DEF Still
  <2>10. Queue!Lend(w, t)
    BY <1>1, <2>1, <2>8, <2>9 DEF Still, Queue!Lend
  <2> QED
    BY <2>10
<1> QED
  BY <1>1, <1>2, <1>3, PollTask

\* A step in which nothing takes effect: a call is made, a task is lent or
\* given up, or nothing shows.
LEMMA QuietRefines ==
    ASSUME BrokerSafe, QueueInv, QueueShape, Still, [Next]_vars
    PROVE  Queue!QueueNext \/ Stutter
<1>1. /\ CallInv /\ SchedulingTypes
  BY DEF BrokerSafe
<1>2. PICK i, n, l : QueueFrom(i, n, l)
  BY DEF QueueShape
<1>3. ASSUME NEW c \in Submission, NEW h \in Node, Submit(c, h)
      PROVE  Queue!QueueNext \/ Stutter
  <2>1. PICK cmd : cmd = SubmitCmd(c)
    OBVIOUS
  <2>2. /\ c \in Task /\ c \in Op /\ Propose(c, h, cmd) /\ holding' = holding
    BY <1>3, <2>1 DEF Submit, Propose, Op, Task
  <2>3. NewCall(c, cmd)
    BY <1>1, <2>2, ProposeStarts
  <2>4. cmd \notin AppliedCmds => ~Queue!Recorded(cmd)
    BY <1>2, <2>1, <2>2, RecordedIs
  <2>5. Stutter \/ Queue!Propose(cmd)
    BY <2>2, <2>3, <2>4, ProposeRefines
  <2>6. cmd = Queue!SubmitCmd(c)
    BY <2>1 DEF SubmitCmd, Queue!SubmitCmd
  <2> QED
    BY <2>2, <2>5, <2>6 DEF Queue!QueueNext
<1>4. ASSUME NEW c \in Completion, NEW w \in Worker, NEW h \in Node,
             NEW x \in Result, Complete(c, w, h, x)
      PROVE  Queue!QueueNext \/ Stutter
  <2>1. PICK t \in Task : t = holding[w] /\ t # None
    BY <1>1, <1>4 DEF Complete, SchedulingTypes
  <2>2. PICK cmd : cmd = CompleteCmd(t, x)
    OBVIOUS
  <2>3. c \in Op /\ Propose(c, h, cmd) /\ holding' = holding
    BY <1>4, <2>1, <2>2 DEF Complete, Propose, Op
  <2>4. NewCall(c, cmd)
    BY <1>1, <2>3, ProposeStarts
  <2>5. cmd \notin AppliedCmds => ~Queue!Recorded(cmd)
    BY <1>2, <2>2, RecordedIs
  <2>6. Stutter \/ Queue!Propose(cmd)
    BY <2>3, <2>4, <2>5, ProposeRefines
  <2>7. cmd = Queue!CompleteCmd(holding[w], x) /\ holding[w] # None
    BY <2>1, <2>2 DEF CompleteCmd, Queue!CompleteCmd
  <2> QED
    BY <2>6, <2>7 DEF Queue!QueueNext
<1>5. CASE SameCalls
  <2>1. ASSUME NEW w \in Worker, Poll(w)
        PROVE  Queue!QueueNext \/ Stutter
    BY <1>5, <2>1, PollRefines DEF Queue!QueueNext
  <2>2. ASSUME NEW w \in Worker, Release(w)
        PROVE  Queue!QueueNext \/ Stutter
    <3>1. Unapplied' = Unapplied
      BY <1>5, CalledMoves, UnappliedIs, UnappliedNext DEF Still
    <3>2. Queue!Release(w)
      BY <2>2, <3>1 DEF Still, Release, Queue!Release
    <3> QED
      BY <3>2 DEF Queue!QueueNext
  <2>3. CASE holding' = holding
    BY <1>5, <2>3, StutterIs
  <2> QED
    BY <2>1, <2>2, <2>3, HoldingMoves
<1> QED
  BY <1>1, <1>3, <1>4, <1>5, OthersSame

\* Every step of the brokers is one of the queue, or stutters.
LEMMA StepRefines ==
    ASSUME BrokerSafe, BrokerSafe', QueueInv, QueueInv', [Next]_vars
    PROVE  Queue!QueueNext \/ Stutter
<1>1. QueueShape /\ QueueShape'
  BY SafeFacts, SafeFactsNext
<1>2. PICK i, n, l : QueueFrom(i, n, l)
  BY <1>1 DEF QueueShape
<1>3. PICK j, m, r : QueueFrom(j, m, r)'
  BY <1>1 DEF QueueShape
<1>4. /\ SameUpTo(l, r, n)
      /\ m = n \/ (m = n + 1 /\ \E h \in Node : ApplyLoop(h))
  BY <1>2, <1>3, QueueMoves
<1>5. CASE m = n
  <2>1. Still
    BY <1>2, <1>3, <1>4, <1>5, NothingNew
  <2> QED
    BY <1>1, <2>1, QuietRefines
<1>6. CASE m = n + 1 /\ \E h \in Node : ApplyLoop(h)
  <2>1. PICK h \in Node : ApplyLoop(h)
    BY <1>6
  <2>2. CallInv
    BY DEF BrokerSafe
  <2>3. SameCalls /\ holding' = holding
    BY <2>1, <2>2, WakeSame DEF ApplyLoop
  <2>4. Stutter \/ \E cmd \in Unapplied : Queue!Commit(cmd)
    BY <1>2, <1>3, <1>4, <1>6, <2>3, CommitRefines
  <2> QED
    BY <2>4 DEF Queue!QueueNext
<1> QED
  BY <1>4, <1>5, <1>6

\* Nothing has taken effect at first.
LEMMA InitRefines == Init => Queue!QueueInit
<1> SUFFICES ASSUME Init PROVE Queue!QueueInit
  OBVIOUS
<1>1. BrokerSafe
  BY InitSafe
<1>2. /\ applied = [i \in Node |-> 0] /\ op = [c \in Op |-> IdleOp]
      /\ submittedOrder = [i \in Node |-> <<>>]
      /\ holding = [w \in Worker |-> None]
  BY DEF Init
<1>3. PICK a \in Node : a = Ahead
  BY <1>1, AheadIs DEF BrokerSafe
<1>4. AppliedCmds = {}
  BY <1>2, <1>3 DEF AppliedCmds
<1>5. Unapplied = {}
  BY <1>2 DEF Unapplied, IdleOp
<1>6. submittedOrder[Ahead] = <<>>
  BY <1>2, <1>3
<1>7. Outcomes = [t \in Task |-> {}]
  BY <1>4, OutcomesAre
<1> QED
  BY <1>2, <1>5, <1>6, <1>7 DEF Queue!QueueInit

\* The brokers together are one queue of tasks: what they apply, answer and
\* hand out, through changes of leader, entries that are overwritten and
\* handlers that act on leadership they have lost, is what TaskQueue allows.
THEOREM BrokerImplementsTaskQueue == Spec => ImplementsTaskQueue
<1>1. Init => Queue!QueueInit
  BY InitRefines
<1>2. QueueSafe /\ QueueSafe' /\ [Next]_vars
          => [Queue!QueueNext]_(Queue!queueVars)
  BY StepRefines DEF QueueSafe, Stutter, Queue!queueVars
<1> QED
  BY QueueInvariant, <1>1, <1>2, PTL
     DEF Spec, ImplementsTaskQueue, Queue!QueueSpec
=============================================================================
