----------------------------- MODULE RaftProofs -----------------------------
(***************************************************************************)
(* Proofs about Raft, for every finite cluster, every set of commands and  *)
(* every bound.                                                            *)
(***************************************************************************)
EXTENDS RaftInv, RaftLogProofs

-----------------------------------------------------------------------------
(* Type correctness *)

\* The initial state of NewPaused is well-typed.
LEMMA TypeInit == Init => TypeInv
<1> SUFFICES ASSUME Init PROVE TypeInv
  OBVIOUS
<1>1. <<>> \in Seq(Entry)
  BY EmptySeq
<1>2. TypeOK
  BY <1>1 DEF Init, TypeOK, Follower, Candidate, Leader
<1>3. LeaderNextPositive
  BY DEF Init, LeaderNextPositive, Follower, Leader
<1> QED
  BY <1>2, <1>3 DEF TypeInv

\* startElection keeps the types.
LEMMA TypeStartElection ==
    ASSUME TypeInv, NEW i \in Server, StartElection(i)
    PROVE  TypeInv'
<1>1. log[i] \in Seq(Entry) /\ currentTerm[i] + 1 \in Nat
  BY DEF TypeInv, TypeOK
<1>2. LastIndex(log[i]) \in Nat
  BY <1>1 DEF LastIndex
<1>3. LastTerm(log[i]) \in Nat
  <2>1. CASE log[i] # <<>>
    <3>1. log[i][Len(log[i])] \in Entry
      BY <2>1, <1>1
    <3> QED
      BY <2>1, <3>1 DEF LastTerm, Entry
  <2>2. CASE log[i] = <<>>
    BY <2>2 DEF LastTerm
  <2> QED
    BY <2>1, <2>2
<1>4. voteReqs' \subseteq VoteReq
  <2>1. ASSUME NEW p \in Server \ {i}
        PROVE  [from |-> i, to |-> p, term |-> currentTerm[i] + 1,
                lastLogIndex |-> LastIndex(log[i]),
                lastLogTerm |-> LastTerm(log[i])] \in VoteReq
    BY <1>1, <1>2, <1>3 DEF VoteReq
  <2> QED
    BY <2>1 DEF StartElection, TypeInv, TypeOK
<1>5. elections' \in Nat /\ currentTerm' \in [Server -> Nat]
  BY <1>1 DEF StartElection, TypeInv, TypeOK
<1>6. /\ votedFor' \in [Server -> Server \cup {None}]
      /\ votes' \in [Server -> SUBSET Server]
  BY DEF StartElection, TypeInv, TypeOK
<1>7. /\ state' \in [Server -> {Follower, Candidate, Leader}]
      /\ \A j \in Server : state'[j] = Leader => state[j] = Leader
  BY DEF StartElection, TypeInv, TypeOK, Candidate, Leader
<1> QED
  BY <1>4, <1>5, <1>6, <1>7
     DEF StartElection, TypeInv, TypeOK, LeaderNextPositive, logVars,
         applyVars, leaderVars, appMsgs

\* becomeFollower keeps the types of what it writes.
LEMMA TypeAdoptTerm ==
    ASSUME TypeInv, NEW i \in Server, NEW t \in Nat, AdoptTerm(i, t)
    PROVE  /\ currentTerm' \in [Server -> Nat]
           /\ votedFor' \in [Server -> Server \cup {None}]
           /\ state' \in [Server -> {Follower, Candidate, Leader}]
           /\ \A j \in Server : state'[j] = Leader => state[j] = Leader
BY DEF TypeInv, TypeOK, AdoptTerm, Follower, Leader

\* The reply to a RequestVote is a well-formed vote reply.
LEMMA TypeReplyVote ==
    ASSUME TypeInv, NEW m \in voteReqs, NEW t \in Nat, NEW g \in BOOLEAN,
           ReplyVote(m, t, g)
    PROVE  voteReqs' \subseteq VoteReq /\ voteReps' \subseteq VoteRep
<1>1. m \in VoteReq
  BY DEF TypeInv, TypeOK
<1>2. [from |-> m.to, to |-> m.from, term |-> t, reqTerm |-> m.term,
       voteGranted |-> g] \in VoteRep
  BY <1>1 DEF VoteReq, VoteRep
<1> QED
  BY <1>2 DEF ReplyVote, TypeInv, TypeOK

\* The RequestVote handler keeps the types, granting or refusing.
LEMMA TypeHandleVoteReq ==
    ASSUME TypeInv, NEW m \in voteReqs, HandleVoteReq(m)
    PROVE  TypeInv'
<1>1. m.to \in Server /\ m.from \in Server /\ m.term \in Nat
  BY DEF TypeInv, TypeOK, VoteReq
<1>2. currentTerm[m.to] \in Nat
  BY <1>1 DEF TypeInv, TypeOK
<1>3. CASE RequestVoteStale(m)
  <2>1. voteReqs' \subseteq VoteReq /\ voteReps' \subseteq VoteRep
    BY <1>2, <1>3, TypeReplyVote DEF RequestVoteStale
  <2> QED
    BY <1>3, <2>1
       DEF RequestVoteStale, TypeInv, TypeOK, LeaderNextPositive,
           electionVars, logVars, applyVars, leaderVars, appMsgs
<1>4. CASE RequestVote(m)
  <2> DEFINE i == m.to
             newer == m.term > currentTerm[i]
             vote == IF newer THEN None ELSE votedFor[i]
             grant == VoteFree(vote, m) /\ UpToDate(m, log[i])
  <2>1. voteReqs' \subseteq VoteReq /\ voteReps' \subseteq VoteRep
    <3>1. grant \in BOOLEAN
      BY DEF VoteFree, UpToDate
    <3>2. ReplyVote(m, m.term, grant)
      BY <1>4 DEF RequestVote
    <3> QED
      BY <1>1, <3>1, <3>2, TypeReplyVote
  <2>2. currentTerm' \in [Server -> Nat]
    BY <1>1, <1>4 DEF RequestVote, TypeInv, TypeOK
  <2>3. votedFor' \in [Server -> Server \cup {None}]
    <3>1. vote \in Server \cup {None}
      BY <1>1 DEF TypeInv, TypeOK
    <3>2. votedFor' = [votedFor EXCEPT ![i] = IF grant THEN m.from ELSE vote]
      BY <1>4 DEF RequestVote
    <3> HIDE DEF vote, grant
    <3> QED
      BY <1>1, <3>1, <3>2 DEF TypeInv, TypeOK
  <2>4. /\ state' \in [Server -> {Follower, Candidate, Leader}]
        /\ \A j \in Server : state'[j] = Leader => state[j] = Leader
    BY <1>1, <1>4 DEF RequestVote, TypeInv, TypeOK, Follower, Leader
  <2>5. UNCHANGED <<elections, votes, logVars, applyVars, leaderVars, appMsgs>>
    BY <1>4 DEF RequestVote
  <2> QED
    BY <2>1, <2>2, <2>3, <2>4, <2>5
       DEF TypeInv, TypeOK, LeaderNextPositive, logVars, applyVars,
           leaderVars, appMsgs
<1> QED
  BY <1>3, <1>4 DEF HandleVoteReq

\* The entry that becomeLeader and Start append has its place in the log.
LEMMA TypeAppend ==
    ASSUME TypeInv, NEW i \in Server, NEW c \in Command \cup {Noop}
    PROVE  Append(log[i], [index |-> LastIndex(log[i]) + 1,
                           term |-> currentTerm[i],
                           command |-> c]) \in Seq(Entry)
<1>1. [index |-> LastIndex(log[i]) + 1, term |-> currentTerm[i],
       command |-> c] \in Entry
  BY DEF TypeInv, TypeOK, Entry, LastIndex
<1> QED
  BY <1>1, AppendProperties DEF TypeInv, TypeOK

\* The goroutine that gets a vote reply keeps the types; becomeLeader
\* starts nextIndex at 1 or above.
LEMMA TypeHandleVoteRep ==
    ASSUME TypeInv, NEW m \in voteReps, HandleVoteRep(m)
    PROVE  TypeInv'
<1>1. m.to \in Server /\ m.from \in Server /\ m.term \in Nat
  BY DEF TypeInv, TypeOK, VoteRep
<1>2. voteReps \ {m} \subseteq VoteRep
  BY DEF TypeInv, TypeOK
<1>3. votes[m.to] \cup {m.from} \subseteq Server
  BY <1>1 DEF TypeInv, TypeOK
<1>4. CASE VoteReplyNewerTerm(m)
  BY <1>1, <1>2, <1>4, TypeAdoptTerm
     DEF VoteReplyNewerTerm, TypeInv, TypeOK, LeaderNextPositive, logVars,
         applyVars, leaderVars, appMsgs
<1>5. CASE VoteReplyIgnored(m)
  BY <1>2, <1>5
     DEF VoteReplyIgnored, TypeInv, TypeOK, LeaderNextPositive, electionVars,
         logVars, applyVars, leaderVars, appMsgs
<1>6. CASE VoteReplyCounted(m)
  <2>1. votes' \in [Server -> SUBSET Server]
    BY <1>3, <1>6 DEF VoteReplyCounted, TypeInv, TypeOK
  <2> QED
    BY <1>2, <1>6, <2>1
       DEF VoteReplyCounted, TypeInv, TypeOK, LeaderNextPositive, logVars,
           applyVars, leaderVars, appMsgs
<1>7. CASE BecomeLeader(m)
  <2>1. votes' \in [Server -> SUBSET Server]
    BY <1>3, <1>7 DEF BecomeLeader, TypeInv, TypeOK
  <2>2. log' \in [Server -> Seq(Entry)]
    BY <1>1, <1>7, TypeAppend DEF BecomeLeader, TypeInv, TypeOK
  <2>3. state' \in [Server -> {Follower, Candidate, Leader}]
    BY <1>1, <1>7 DEF BecomeLeader, TypeInv, TypeOK
  <2>4. /\ nextIndex' \in [Server -> [Server -> Nat]]
        /\ LeaderNextPositive'
    <3> DEFINE l == log[m.to]
    <3>0. l \in Seq(Entry)
      BY <1>1 DEF TypeInv, TypeOK
    <3> HIDE DEF l
    <3>1. LastIndex(l) + 1 \in Nat /\ LastIndex(l) + 1 >= 1
      BY <3>0 DEF LastIndex
    <3> USE DEF l
    <3> QED
      BY <1>1, <1>7, <3>1
         DEF BecomeLeader, TypeInv, TypeOK, LeaderNextPositive, Leader
  <2>5. matchIndex' \in [Server -> [Server -> Nat]]
    BY <1>1, <1>7 DEF BecomeLeader, ResetMatchIndex, TypeInv, TypeOK
  <2> QED
    BY <1>2, <1>7, <2>1, <2>2, <2>3, <2>4, <2>5
       DEF BecomeLeader, TypeInv, TypeOK, applyVars, appMsgs
<1> QED
  BY <1>4, <1>5, <1>6, <1>7 DEF HandleVoteRep

\* Start keeps the types.
LEMMA TypeStart ==
    ASSUME TypeInv, NEW i \in Server, NEW cmd \in Command, Start(i, cmd)
    PROVE  TypeInv'
<1>1. log' \in [Server -> Seq(Entry)]
  BY TypeAppend DEF Start, TypeInv, TypeOK
<1> QED
  BY <1>1 DEF Start, TypeInv, TypeOK, LeaderNextPositive, electionVars,
              applyVars, leaderVars, voteMsgs, appMsgs

\* The request a leader builds is well formed; prevLogIndex is a natural
\* number because the nextIndex of a leader is positive.
LEMMA TypeSendAppendEntries ==
    ASSUME TypeInv, NEW i \in Server, NEW p \in Server, NEW k \in Call,
           SendAppendEntries(i, p, k)
    PROVE  TypeInv'
<1> DEFINE prev == nextIndex[i][p] - 1
           pterm == IF Has(log[i], prev) THEN log[i][prev].term ELSE 0
           es == Entries(log[i], nextIndex[i][p], LastIndex(log[i]) + 1)
<1>1. log[i] \in Seq(Entry) /\ currentTerm[i] \in Nat /\ commitIndex[i] \in Nat
  BY DEF TypeInv, TypeOK
<1>2. nextIndex[i][p] \in Nat /\ prev \in Nat
  <2>1. nextIndex[i][p] \in Nat
    BY DEF TypeInv, TypeOK
  <2>2. nextIndex[i][p] >= 1
    BY DEF TypeInv, LeaderNextPositive, SendAppendEntries
  <2> QED
    BY <2>1, <2>2
<1> HIDE DEF prev
<1>3. pterm \in Nat
  <2>1. CASE Has(log[i], prev)
    <3>1. log[i][prev] \in Entry
      BY <2>1, <1>1 DEF Has
    <3> QED
      BY <2>1, <3>1 DEF Entry
  <2>2. CASE ~Has(log[i], prev)
    BY <2>2
  <2> QED
    BY <2>1, <2>2
<1>4. es \in Seq(Entry)
  <2>1. LastIndex(log[i]) + 1 \in Int
    BY <1>1 DEF LastIndex
  <2> QED
    BY <1>1, <1>2, <2>1, EntriesType
<1> HIDE DEF pterm, es
<1>5. AppendEntriesArgs(i, p, k) \in AppReq
  <2>1. AppendEntriesArgs(i, p, k)
            = [call |-> k, from |-> i, to |-> p, term |-> currentTerm[i],
               prevLogIndex |-> prev, prevLogTerm |-> pterm, entries |-> es,
               leaderCommit |-> commitIndex[i]]
    BY DEF AppendEntriesArgs, prev, pterm, es
  <2> QED
    BY <2>1, <1>1, <1>2, <1>3, <1>4 DEF AppReq
<1>6. appReqs' \subseteq AppReq /\ appReps' \subseteq AppRep
  BY <1>5 DEF SendAppendEntries, TypeInv, TypeOK
<1> QED
  BY <1>6 DEF SendAppendEntries, TypeInv, TypeOK, LeaderNextPositive,
              electionVars, logVars, applyVars, leaderVars, voteMsgs

\* The reply to an AppendEntries is a well-formed append reply.
LEMMA TypeReplyAppend ==
    ASSUME TypeInv, NEW m \in appReqs, NEW t \in Nat, NEW ok \in BOOLEAN,
           ReplyAppend(m, t, ok)
    PROVE  appReqs' \subseteq AppReq /\ appReps' \subseteq AppRep
<1>1. m \in AppReq
  BY DEF TypeInv, TypeOK
<1>2. m.prevLogIndex + Len(m.entries) \in Nat
  <2>1. m.prevLogIndex \in Nat /\ m.entries \in Seq(Entry)
    BY <1>1 DEF AppReq
  <2> QED
    BY <2>1
<1>3. [call |-> m.call, from |-> m.to, to |-> m.from, term |-> t,
       success |-> ok, sentTerm |-> m.term,
       newMatch |-> m.prevLogIndex + Len(m.entries)] \in AppRep
  BY <1>1, <1>2 DEF AppReq, AppRep
<1> QED
  BY <1>3 DEF ReplyAppend, TypeInv, TypeOK

\* What AppendEntries does to the election state keeps its type.
LEMMA TypeAcceptLeader ==
    ASSUME TypeInv, NEW m \in appReqs, AcceptLeader(m)
    PROVE  /\ currentTerm' \in [Server -> Nat]
           /\ votedFor' \in [Server -> Server \cup {None}]
           /\ state' \in [Server -> {Follower, Candidate, Leader}]
           /\ votes' = votes
           /\ \A j \in Server : state'[j] = Leader => state[j] = Leader
<1>1. m.to \in Server /\ m.term \in Nat
  BY DEF TypeInv, TypeOK, AppReq
<1>2. CASE m.term > currentTerm[m.to]
  BY <1>1, <1>2, TypeAdoptTerm DEF AcceptLeader
<1>3. CASE ~(m.term > currentTerm[m.to])
  BY <1>3 DEF AcceptLeader, electionVars, TypeInv, TypeOK
<1> QED
  BY <1>2, <1>3

\* The commit index a follower moves to is a natural number.
LEMMA TypeFollowerCommit ==
    ASSUME NEW m \in AppReq, NEW c \in Nat, NEW l \in Seq(Entry)
    PROVE  FollowerCommit(m, c, l) \in Nat
<1>1. m.leaderCommit \in Nat /\ LastIndex(l) \in Nat
  BY DEF AppReq, LastIndex
<1>2. Min({m.leaderCommit, LastIndex(l)}) \in {m.leaderCommit, LastIndex(l)}
  <2>1. m.leaderCommit \in Int /\ LastIndex(l) \in Int
    BY <1>1
  <2> QED
    BY <2>1, MinMaxPair, Zenon
<1> QED
  BY <1>1, <1>2 DEF FollowerCommit

\* The AppendEntries handler keeps the types.
LEMMA TypeHandleAppReq ==
    ASSUME TypeInv, NEW m \in appReqs, HandleAppReq(m)
    PROVE  TypeInv'
<1>1. m \in AppReq /\ m.to \in Server /\ m.term \in Nat
  BY DEF TypeInv, TypeOK, AppReq
<1>2. currentTerm[m.to] \in Nat
  BY <1>1 DEF TypeInv, TypeOK
<1>3. CASE AppendEntriesStale(m)
  <2>1. appReqs' \subseteq AppReq /\ appReps' \subseteq AppRep
    BY <1>2, <1>3, TypeReplyAppend DEF AppendEntriesStale
  <2> QED
    BY <1>3, <2>1
       DEF AppendEntriesStale, TypeInv, TypeOK, LeaderNextPositive,
           electionVars, logVars, applyVars, leaderVars, voteMsgs
<1>4. CASE AppendEntriesMismatch(m)
  <2>1. appReqs' \subseteq AppReq /\ appReps' \subseteq AppRep
    BY <1>1, <1>4, TypeReplyAppend DEF AppendEntriesMismatch
  <2>2. AcceptLeader(m)
    BY <1>4 DEF AppendEntriesMismatch
  <2>3. UNCHANGED <<elections, logVars, applyVars, leaderVars, voteMsgs>>
    BY <1>4 DEF AppendEntriesMismatch
  <2> QED
    BY <2>1, <2>2, <2>3, TypeAcceptLeader
       DEF TypeInv, TypeOK, LeaderNextPositive, logVars, applyVars,
           leaderVars, voteMsgs
<1>5. CASE AppendEntries(m)
  <2> DEFINE i == m.to
             merged == Merge(log[i], m.prevLogIndex, m.entries)
  <2>1. appReqs' \subseteq AppReq /\ appReps' \subseteq AppRep
    BY <1>1, <1>5, TypeReplyAppend DEF AppendEntries
  <2>2. AcceptLeader(m)
    BY <1>5 DEF AppendEntries
  <2>3. merged \in Seq(Entry)
    <3>1. m.prevLogIndex \in Nat /\ m.entries \in Seq(Entry)
      BY <1>1 DEF AppReq
    <3>2. log[i] \in Seq(Entry)
      BY <1>1 DEF TypeInv, TypeOK
    <3> QED
      BY <3>1, <3>2, MergeType
  <2>4. log' \in [Server -> Seq(Entry)]
    <3>1. log' = [log EXCEPT ![i] = merged]
      BY <1>5 DEF AppendEntries
    <3> HIDE DEF merged
    <3> QED
      BY <1>1, <2>3, <3>1 DEF TypeInv, TypeOK
  <2>5. commitIndex' \in [Server -> Nat]
    <3>1. commitIndex' = [commitIndex EXCEPT
              ![i] = FollowerCommit(m, commitIndex[i], merged)]
      BY <1>5 DEF AppendEntries
    <3> HIDE DEF merged
    <3>2. FollowerCommit(m, commitIndex[i], merged) \in Nat
      BY <1>1, <2>3, TypeFollowerCommit DEF TypeInv, TypeOK
    <3> QED
      BY <1>1, <3>1, <3>2 DEF TypeInv, TypeOK
  <2>6. UNCHANGED <<elections, applyVars, leaderVars, voteMsgs>>
    BY <1>5 DEF AppendEntries
  <2> QED
    BY <2>1, <2>2, <2>4, <2>5, <2>6, TypeAcceptLeader
       DEF TypeInv, TypeOK, LeaderNextPositive, applyVars, leaderVars,
           voteMsgs
<1> QED
  BY <1>3, <1>4, <1>5 DEF HandleAppReq

\* advanceCommitIndex returns a natural number.
LEMMA TypeAdvanceCommitIndex ==
    ASSUME TypeInv, NEW i \in Server, NEW match
    PROVE  AdvanceCommitIndex(i, match) \in Nat
<1> DEFINE N == {n \in (commitIndex[i] + 1) .. LastIndex(log[i]) :
                     Committable(i, match, n)}
           b == LastIndex(log[i])
<1>1. commitIndex[i] \in Nat /\ b \in Nat
  BY DEF TypeInv, TypeOK, LastIndex
<1>2. N \subseteq 0 .. b
  BY <1>1
<1>3. CASE N = {}
  <2>1. AdvanceCommitIndex(i, match) = commitIndex[i]
    BY <1>3 DEF AdvanceCommitIndex
  <2> QED
    BY <1>1, <2>1
<1>4. CASE N # {}
  <2>1. AdvanceCommitIndex(i, match) = Max(N)
    BY <1>4 DEF AdvanceCommitIndex
  <2> HIDE DEF N, b
  <2>2. Max(N) \in N
    BY <1>1, <1>2, <1>4, MaxOfBounded
  <2>3. Max(N) \in 0 .. b
    BY <1>2, <2>2
  <2> QED
    BY <1>1, <2>1, <2>3
<1> QED
  BY <1>3, <1>4

\* The goroutine that gets an append reply keeps the types, and backing up
\* keeps nextIndex positive.
LEMMA TypeHandleAppRep ==
    ASSUME TypeInv, NEW m \in appReps, HandleAppRep(m)
    PROVE  TypeInv'
<1>1. /\ m.to \in Server /\ m.from \in Server
      /\ m.term \in Nat /\ m.newMatch \in Nat
  BY DEF TypeInv, TypeOK, AppRep
<1>2. appReps \ {m} \subseteq AppRep
  BY DEF TypeInv, TypeOK
<1>3. CASE AppendReplyNewerTerm(m)
  BY <1>1, <1>2, <1>3, TypeAdoptTerm
     DEF AppendReplyNewerTerm, TypeInv, TypeOK, LeaderNextPositive, logVars,
         applyVars, leaderVars, voteMsgs
<1>4. CASE AppendReplyIgnored(m)
  BY <1>2, <1>4
     DEF AppendReplyIgnored, TypeInv, TypeOK, LeaderNextPositive,
         electionVars, logVars, applyVars, leaderVars, voteMsgs
<1>5. CASE AppendReplySuccess(m)
  <2> DEFINE i == m.to
             forward == m.newMatch > matchIndex[i][m.from]
             match == IF forward
                      THEN [matchIndex[i] EXCEPT ![m.from] = m.newMatch]
                      ELSE matchIndex[i]
  <2>1. match \in [Server -> Nat]
    <3>1. matchIndex[i] \in [Server -> Nat]
      BY <1>1 DEF TypeInv, TypeOK
    <3> QED
      BY <1>1, <3>1
  <2>2. matchIndex' = [matchIndex EXCEPT ![i] = match]
    BY <1>5 DEF AppendReplySuccess
  <2>3. commitIndex' = [commitIndex EXCEPT ![i] = AdvanceCommitIndex(i, match)]
    BY <1>5 DEF AppendReplySuccess
  <2>4. /\ nextIndex' \in [Server -> [Server -> Nat]]
        /\ LeaderNextPositive'
    <3>1. \E n \in Nat :
            /\ n >= 1 \/ n = nextIndex[i][m.from]
            /\ nextIndex' = [nextIndex EXCEPT ![i][m.from] = n]
      <4>1. CASE forward
        <5>1. m.newMatch + 1 \in Nat /\ m.newMatch + 1 >= 1
          BY <1>1
        <5>2. nextIndex' = [nextIndex EXCEPT ![i][m.from] = m.newMatch + 1]
          BY <1>5, <4>1 DEF AppendReplySuccess
        <5> QED
          BY <5>1, <5>2
      <4>2. CASE ~forward
        <5>1. nextIndex' = [nextIndex EXCEPT ![i][m.from] = nextIndex[i][m.from]]
          BY <1>5, <4>2 DEF AppendReplySuccess
        <5> QED
          BY <1>1, <5>1 DEF TypeInv, TypeOK
      <4> QED
        BY <4>1, <4>2
    <3>2. state' = state
      BY <1>5 DEF AppendReplySuccess, electionVars
    <3>3. PICK n \in Nat :
            /\ n >= 1 \/ n = nextIndex[i][m.from]
            /\ nextIndex' = [nextIndex EXCEPT ![i][m.from] = n]
      BY <3>1
    <3>4. nextIndex' \in [Server -> [Server -> Nat]]
      BY <1>1, <3>3 DEF TypeInv, TypeOK
    <3>5. ASSUME NEW a \in Server, NEW j \in Server, state'[a] = Leader
          PROVE  nextIndex'[a][j] >= 1
      <4>1. nextIndex[a][j] >= 1
        BY <3>2, <3>5 DEF TypeInv, LeaderNextPositive
      <4>3. CASE a = i /\ j = m.from
        BY <1>1, <3>3, <4>1, <4>3 DEF TypeInv, TypeOK
      <4>4. CASE ~(a = i /\ j = m.from)
        BY <1>1, <3>3, <4>1, <4>4 DEF TypeInv, TypeOK
      <4> QED
        BY <4>3, <4>4
    <3> QED
      BY <3>4, <3>5 DEF LeaderNextPositive
  <2> HIDE DEF match
  <2>5. matchIndex' \in [Server -> [Server -> Nat]]
    BY <1>1, <2>1, <2>2 DEF TypeInv, TypeOK
  <2>6. commitIndex' \in [Server -> Nat]
    BY <1>1, <2>3, TypeAdvanceCommitIndex DEF TypeInv, TypeOK
  <2>7. /\ appReps' = appReps \ {m}
        /\ UNCHANGED <<elections, electionVars, log, applyVars, voteMsgs,
                       appReqs>>
    BY <1>5 DEF AppendReplySuccess
  <2> QED
    BY <1>2, <2>4, <2>5, <2>6, <2>7
       DEF TypeInv, TypeOK, electionVars, applyVars, voteMsgs
<1>6. CASE AppendReplyReject(m)
  <2> DEFINE n == nextIndex[m.to][m.from]
  <2>1. n \in Nat
    BY <1>1 DEF TypeInv, TypeOK
  <2>2. BackUp(n) \in Nat /\ (n >= 1 => BackUp(n) >= 1)
    BY <2>1 DEF BackUp
  <2>3. nextIndex' = [nextIndex EXCEPT ![m.to][m.from] = BackUp(n)]
    BY <1>6 DEF AppendReplyReject
  <2>4. /\ appReps' = appReps \ {m}
        /\ UNCHANGED <<elections, electionVars, logVars, applyVars, matchIndex,
                       voteMsgs, appReqs>>
    BY <1>6 DEF AppendReplyReject
  <2>5. nextIndex' \in [Server -> [Server -> Nat]] /\ LeaderNextPositive'
    <3>1. state' = state
      BY <2>4 DEF electionVars
    <3> QED
      BY <1>1, <2>2, <2>3, <3>1 DEF TypeInv, TypeOK, LeaderNextPositive
  <2> QED
    BY <1>2, <2>4, <2>5
       DEF TypeInv, TypeOK, electionVars, logVars, applyVars, voteMsgs
<1> QED
  BY <1>3, <1>4, <1>5, <1>6 DEF HandleAppRep

\* applyLoop keeps the types.
LEMMA TypeApplyLoop ==
    ASSUME TypeInv, NEW i \in Server, ApplyLoop(i)
    PROVE  TypeInv'
<1> DEFINE n == lastApplied[i] + 1
<1>1. n \in Nat /\ log[i] \in Seq(Entry) /\ applied[i] \in Seq(Entry)
  BY DEF TypeInv, TypeOK
<1>2. lastApplied' \in [Server -> Nat]
  BY <1>1 DEF ApplyLoop, TypeInv, TypeOK
<1>3. applied' \in [Server -> Seq(Entry)]
  <2>1. CASE Has(log[i], n)
    <3>1. log[i][n] \in Entry
      BY <1>1, <2>1 DEF Has
    <3>2. Append(applied[i], log[i][n]) \in Seq(Entry)
      BY <1>1, <3>1, AppendProperties
    <3>3. applied' = [applied EXCEPT ![i] = Append(applied[i], log[i][n])]
      BY <2>1 DEF ApplyLoop
    <3> QED
      BY <3>2, <3>3 DEF TypeInv, TypeOK
  <2>2. CASE ~Has(log[i], n)
    <3>1. applied' = [applied EXCEPT ![i] = applied[i]]
      BY <2>2 DEF ApplyLoop
    <3> QED
      BY <3>1 DEF TypeInv, TypeOK
  <2> QED
    BY <2>1, <2>2
<1> QED
  BY <1>2, <1>3
     DEF ApplyLoop, TypeInv, TypeOK, LeaderNextPositive, electionVars,
         logVars, leaderVars, voteMsgs, appMsgs

\* Every step keeps the types.
LEMMA TypeStep == TypeInv /\ [Next]_vars => TypeInv'
<1> SUFFICES ASSUME TypeInv, [Next]_vars PROVE TypeInv'
  OBVIOUS
<1>1. CASE Next
  BY <1>1, TypeStartElection, TypeHandleVoteReq, TypeHandleVoteRep, TypeStart,
     TypeSendAppendEntries, TypeHandleAppReq, TypeHandleAppRep, TypeApplyLoop
     DEF Next
<1>2. CASE UNCHANGED vars
  BY <1>2 DEF vars, TypeInv, TypeOK, LeaderNextPositive, electionVars, logVars,
              applyVars, leaderVars, voteMsgs, appMsgs
<1> QED
  BY <1>1, <1>2

\* Every value a node stores or sends has its type: in particular no handler
\* computes a negative index, whatever the order of requests and replies.
THEOREM TypeCorrect == Spec => []TypeOK
<1>1. TypeInv => TypeOK
  BY DEF TypeInv
<1> QED
  BY TypeInit, TypeStep, <1>1, PTL DEF Spec

-----------------------------------------------------------------------------
(* Elections *)

\* j's vote for c in term t is cast in this step: j had not reached the term,
\* or it had not voted in it, or it repeats its vote.
CastNow(j, t, c) ==
    /\ currentTerm'[j] = t /\ votedFor'[j] = c
    /\ \/ t > currentTerm[j]
       \/ t = currentTerm[j] /\ votedFor[j] \in {None, c}

\* The step keeps every node's term from falling and its vote while the term
\* lasts (the body of VoteStands).
VotesStand ==
    \A j \in Server :
        /\ currentTerm'[j] >= currentTerm[j]
        /\ currentTerm'[j] = currentTerm[j] /\ votedFor[j] # None
               => votedFor'[j] = votedFor[j]

\* Every ballot after the step was there before or is cast by it.
NoForgedBallot ==
    \A j, c \in Server : \A t \in Nat :
        Ballot(j, t, c)' => Ballot(j, t, c) \/ CastNow(j, t, c)

\* What a step has to satisfy to preserve the election invariant.
ElectionStep ==
    VotesStand /\ NoForgedBallot /\ LeaderElected' /\ GrantedInTerm'

\* Every ballot is of one of the terms the invariant quantifies over.
LEMMA BallotTermsCover ==
    ASSUME NEW j \in Server, NEW c \in Server, NEW t, Ballot(j, t, c)
    PROVE  t \in BallotTerms
BY DEF Ballot, BallotTerms

\* Such a step preserves the election invariant.
LEMMA ElectionStepPreserves ==
    ASSUME TypeInv, TypeInv', ElectionInv, ElectionStep
    PROVE  ElectionInv'
<1>1. ASSUME NEW j \in Server
      PROVE  currentTerm[j] \in Nat /\ currentTerm'[j] \in Nat
  BY DEF TypeInv, TypeOK
<1>2. ASSUME NEW j \in Server, NEW c \in Server, NEW t, Ballot(j, t, c)
      PROVE  t <= currentTerm[j] /\ (t = currentTerm[j] => votedFor[j] = c)
  BY <1>2, BallotTermsCover DEF ElectionInv, BallotsRemembered
<1>3. ASSUME NEW j \in Server, NEW c \in Server, NEW t \in Nat,
             Ballot(j, t, c)'
      PROVE  t <= currentTerm'[j] /\ (t = currentTerm'[j] => votedFor'[j] = c)
  <2>1. CASE Ballot(j, t, c)
    <3>1. t <= currentTerm[j] /\ (t = currentTerm[j] => votedFor[j] = c)
      BY <1>2, <2>1
    <3>2. c # None
      BY ServerAssumption
    <3> QED
      BY <1>1, <3>1, <3>2 DEF ElectionStep, VotesStand
  <2>2. CASE CastNow(j, t, c)
    BY <2>2 DEF CastNow
  <2> QED
    BY <1>3, <2>1, <2>2 DEF ElectionStep, NoForgedBallot
<1>4. ASSUME NEW j \in Server, NEW c \in Server, NEW d \in Server,
             NEW t \in Nat, Ballot(j, t, c), CastNow(j, t, d)
      PROVE  c = d
  <2>1. t <= currentTerm[j] /\ (t = currentTerm[j] => votedFor[j] = c)
    BY <1>2, <1>4
  <2>2. c # None
    BY ServerAssumption
  <2> QED
    BY <1>1, <1>4, <2>1, <2>2 DEF CastNow
<1>5. ASSUME NEW j \in Server, NEW c \in Server, NEW d \in Server,
             NEW t \in Nat, Ballot(j, t, c)', Ballot(j, t, d)'
      PROVE  c = d
  <2>1. Ballot(j, t, c) \/ CastNow(j, t, c)
    BY <1>5 DEF ElectionStep, NoForgedBallot
  <2>2. Ballot(j, t, d) \/ CastNow(j, t, d)
    BY <1>5 DEF ElectionStep, NoForgedBallot
  <2>3. CASE Ballot(j, t, c) /\ Ballot(j, t, d)
    BY <2>3, BallotTermsCover DEF ElectionInv, BallotsUnique
  <2>4. CASE CastNow(j, t, c) /\ CastNow(j, t, d)
    BY <2>4 DEF CastNow
  <2> QED
    BY <1>4, <2>1, <2>2, <2>3, <2>4
<1>6. BallotTerms' \subseteq Nat
  <2>1. \A i \in Server : currentTerm'[i] \in Nat
    BY DEF TypeInv, TypeOK
  <2>2. \A m \in voteReps' : m.reqTerm \in Nat
    BY DEF TypeInv, TypeOK, VoteRep
  <2> QED
    BY <2>1, <2>2 DEF BallotTerms
<1>7. BallotsRemembered'
  BY <1>3, <1>6 DEF BallotsRemembered
<1>8. BallotsUnique'
  BY <1>5, <1>6 DEF BallotsUnique
<1> QED
  BY <1>7, <1>8 DEF ElectionInv, ElectionStep

\* A step that touches neither the election state nor the vote replies.
LEMMA QuietStep ==
    ASSUME TypeInv, ElectionInv, UNCHANGED <<electionVars, voteReps>>
    PROVE  ElectionStep
<1>1. VotesStand
  BY DEF VotesStand, electionVars, TypeInv, TypeOK
<1>2. NoForgedBallot
  BY DEF NoForgedBallot, Ballot, electionVars
<1>3. LeaderElected' /\ GrantedInTerm'
  BY DEF ElectionInv, LeaderElected, GrantedInTerm, electionVars, Majority
<1> QED
  BY <1>1, <1>2, <1>3 DEF ElectionStep

\* A node that adopts a newer term, while vote replies at most disappear.
LEMMA AdoptStep ==
    ASSUME TypeInv, ElectionInv, NEW i \in Server, NEW t \in Nat,
           t > currentTerm[i], AdoptTerm(i, t), votes' = votes,
           voteReps' \subseteq voteReps
    PROVE  ElectionStep
<1>1. VotesStand
  BY SMTT(30) DEF VotesStand, AdoptTerm, TypeInv, TypeOK
<1>2. NoForgedBallot
  <2> SUFFICES ASSUME NEW j \in Server, NEW c \in Server, NEW u \in Nat,
                      Ballot(j, u, c)'
               PROVE  Ballot(j, u, c)
    BY DEF NoForgedBallot
  <2>1. CASE currentTerm'[j] = u /\ votedFor'[j] = c
    <3>1. j # i
      BY <2>1, ServerAssumption DEF AdoptTerm, TypeInv, TypeOK
    <3> QED
      BY <2>1, <3>1 DEF Ballot, AdoptTerm, TypeInv, TypeOK
  <2>2. CASE \E m \in voteReps' : /\ m.voteGranted
                                 /\ m.from = j /\ m.to = c /\ m.reqTerm = u
    BY <2>2 DEF Ballot
  <2>3. CASE /\ currentTerm'[c] = u /\ state'[c] \in {Candidate, Leader}
             /\ j \in votes'[c]
    <3>1. c # i
      BY <2>3 DEF AdoptTerm, TypeInv, TypeOK, Follower, Candidate, Leader
    <3> QED
      BY <2>3, <3>1 DEF Ballot, AdoptTerm, TypeInv, TypeOK
  <2> QED
    BY <2>1, <2>2, <2>3 DEF Ballot
<1>3. LeaderElected' /\ GrantedInTerm'
  BY DEF ElectionInv, LeaderElected, GrantedInTerm, AdoptTerm, Majority,
         TypeInv, TypeOK, Follower, Leader
<1> QED
  BY <1>1, <1>2, <1>3 DEF ElectionStep

\* startElection: the vote of the candidate for itself is the first ballot
\* of its new term.
LEMMA ElectionStartElection ==
    ASSUME TypeInv, ElectionInv, NEW i \in Server, StartElection(i)
    PROVE  ElectionStep
<1>1. /\ currentTerm' = [currentTerm EXCEPT ![i] = currentTerm[i] + 1]
      /\ state' = [state EXCEPT ![i] = Candidate]
      /\ votedFor' = [votedFor EXCEPT ![i] = i]
      /\ votes' = [votes EXCEPT ![i] = {i}]
      /\ voteReps' = voteReps
  BY DEF StartElection
<1>2. VotesStand
  BY <1>1, SMTT(30) DEF VotesStand, TypeInv, TypeOK
<1>3. NoForgedBallot
  <2> SUFFICES ASSUME NEW j \in Server, NEW c \in Server, NEW t \in Nat,
                      Ballot(j, t, c)'
               PROVE  Ballot(j, t, c) \/ CastNow(j, t, c)
    BY DEF NoForgedBallot
  <2>1. CASE currentTerm'[j] = t /\ votedFor'[j] = c
    BY <1>1, <2>1 DEF Ballot, CastNow, TypeInv, TypeOK
  <2>2. CASE \E m \in voteReps' : /\ m.voteGranted
                                 /\ m.from = j /\ m.to = c /\ m.reqTerm = t
    BY <1>1, <2>2 DEF Ballot
  <2>3. CASE /\ currentTerm'[c] = t /\ state'[c] \in {Candidate, Leader}
             /\ j \in votes'[c]
    <3>1. CASE c = i
      <4>1. j = i /\ t = currentTerm[i] + 1
        BY <1>1, <2>3, <3>1 DEF TypeInv, TypeOK
      <4> QED
        BY <1>1, <3>1, <4>1 DEF CastNow, TypeInv, TypeOK
    <3>2. CASE c # i
      BY <1>1, <2>3, <3>2 DEF Ballot, TypeInv, TypeOK
    <3> QED
      BY <3>1, <3>2
  <2> QED
    BY <2>1, <2>2, <2>3 DEF Ballot
<1>4. LeaderElected'
  BY <1>1 DEF ElectionInv, LeaderElected, Majority, TypeInv, TypeOK, Candidate,
              Leader
<1>5. GrantedInTerm'
  BY <1>1 DEF ElectionInv, GrantedInTerm
<1> QED
  BY <1>2, <1>3, <1>4, <1>5 DEF ElectionStep

\* RequestVote: a granted vote is a new ballot, or a repetition of the one
\* that votedFor remembers.
LEMMA ElectionHandleVoteReq ==
    ASSUME TypeInv, ElectionInv, NEW m \in voteReqs, HandleVoteReq(m)
    PROVE  ElectionStep
<1>1. m.to \in Server /\ m.from \in Server /\ m.term \in Nat
  BY DEF TypeInv, TypeOK, VoteReq
<1>2. CASE RequestVoteStale(m)
  <2> DEFINE r == [from |-> m.to, to |-> m.from, term |-> currentTerm[m.to],
                   reqTerm |-> m.term, voteGranted |-> FALSE]
  <2>1. /\ voteReps' = voteReps \cup {r} /\ r.voteGranted = FALSE
        /\ UNCHANGED electionVars
    BY <1>2 DEF RequestVoteStale, ReplyVote
  <2> HIDE DEF r
  <2>2. VotesStand
    BY <2>1 DEF VotesStand, electionVars, TypeInv, TypeOK
  <2>3. NoForgedBallot
    BY <2>1 DEF NoForgedBallot, Ballot, electionVars
  <2>4. LeaderElected' /\ GrantedInTerm'
    BY <2>1 DEF ElectionInv, LeaderElected, GrantedInTerm, electionVars,
                Majority
  <2> QED
    BY <2>2, <2>3, <2>4 DEF ElectionStep
<1>3. CASE RequestVote(m)
  <2> DEFINE i == m.to
             newer == m.term > currentTerm[i]
             vote == IF newer THEN None ELSE votedFor[i]
             grant == VoteFree(vote, m) /\ UpToDate(m, log[i])
             r == [from |-> m.to, to |-> m.from, term |-> m.term,
                   reqTerm |-> m.term, voteGranted |-> grant]
  <2>1. /\ m.term >= currentTerm[i]
        /\ currentTerm' = [currentTerm EXCEPT ![i] = m.term]
        /\ state' = [state EXCEPT ![i] = IF newer THEN Follower ELSE state[i]]
        /\ votedFor' = [votedFor EXCEPT ![i] = IF grant THEN m.from ELSE vote]
        /\ votes' = votes
    BY <1>3 DEF RequestVote
  <2>2. /\ voteReps' = voteReps \cup {r}
        /\ r.from = i /\ r.to = m.from
        /\ r.term = m.term /\ r.reqTerm = m.term /\ r.voteGranted = grant
    BY <1>3 DEF RequestVote, ReplyVote
  <2>3. grant => vote \in {None, m.from}
    BY DEF VoteFree
  <2> HIDE DEF grant, r
  <2>4. currentTerm[i] \in Nat /\ i \in Server
    BY <1>1 DEF TypeInv, TypeOK
  <2>5. /\ currentTerm'[i] = m.term
        /\ votedFor'[i] = IF grant THEN m.from ELSE vote
        /\ \A j \in Server \ {i} : /\ currentTerm'[j] = currentTerm[j]
                                    /\ votedFor'[j] = votedFor[j]
                                    /\ state'[j] = state[j]
    BY <2>1, <2>4 DEF TypeInv, TypeOK
  <2>6. VotesStand
    <3>1. ASSUME NEW j \in Server
          PROVE  /\ currentTerm'[j] >= currentTerm[j]
                 /\ currentTerm'[j] = currentTerm[j] /\ votedFor[j] # None
                        => votedFor'[j] = votedFor[j]
      <4>1. CASE j = i
        BY <1>1, <2>1, <2>3, <2>4, <2>5, <4>1
      <4>2. CASE j # i
        BY <2>5, <4>2 DEF TypeInv, TypeOK
      <4> QED
        BY <4>1, <4>2
    <3> QED
      BY <3>1 DEF VotesStand
  <2>7. grant => CastNow(i, m.term, m.from)
    BY <1>1, <2>1, <2>3, <2>4, <2>5 DEF CastNow
  <2>8. NoForgedBallot
    <3> SUFFICES ASSUME NEW j \in Server, NEW c \in Server, NEW t \in Nat,
                        Ballot(j, t, c)'
                 PROVE  Ballot(j, t, c) \/ CastNow(j, t, c)
      BY DEF NoForgedBallot
    <3>1. CASE currentTerm'[j] = t /\ votedFor'[j] = c
      <4>1. CASE j # i
        BY <2>5, <3>1, <4>1 DEF Ballot
      <4>2. CASE j = i /\ grant
        BY <2>5, <2>7, <3>1, <4>2
      <4>3. CASE j = i /\ ~grant
        <5>1. vote = c /\ ~newer
          BY <2>5, <3>1, <4>3, ServerAssumption
        <5> QED
          BY <1>1, <2>1, <2>4, <2>5, <3>1, <4>3, <5>1 DEF Ballot
      <4> QED
        BY <4>1, <4>2, <4>3
    <3>2. CASE \E n \in voteReps' : /\ n.voteGranted
                                   /\ n.from = j /\ n.to = c /\ n.reqTerm = t
      <4>1. PICK n \in voteReps' : /\ n.voteGranted
                                   /\ n.from = j /\ n.to = c /\ n.reqTerm = t
        BY <3>2
      <4>2. CASE n = r
        BY <2>2, <2>7, <4>1, <4>2
      <4>3. CASE n \in voteReps
        BY <4>1, <4>3 DEF Ballot
      <4> QED
        BY <2>2, <4>1, <4>2, <4>3
    <3>3. CASE /\ currentTerm'[c] = t /\ state'[c] \in {Candidate, Leader}
               /\ j \in votes'[c]
      <4>1. CASE c # i
        BY <2>1, <2>5, <3>3, <4>1 DEF Ballot
      <4>2. CASE c = i
        <5>1. ~newer
          BY <2>1, <2>4, <3>3, <4>2
             DEF TypeInv, TypeOK, Follower, Candidate, Leader
        <5>2. currentTerm'[i] = currentTerm[i]
          BY <1>1, <2>1, <2>4, <2>5, <5>1
        <5>3. state'[i] = state[i]
          BY <2>1, <2>4, <5>1 DEF TypeInv, TypeOK
        <5> QED
          BY <2>1, <3>3, <4>2, <5>2, <5>3 DEF Ballot
      <4> QED
        BY <4>1, <4>2
    <3> QED
      BY <3>1, <3>2, <3>3 DEF Ballot
  <2>9. LeaderElected'
    BY <2>1, <2>4 DEF ElectionInv, LeaderElected, Majority, TypeInv, TypeOK,
                      Follower, Leader
  <2>10. GrantedInTerm'
    BY <2>2 DEF ElectionInv, GrantedInTerm
  <2> QED
    BY <2>6, <2>8, <2>9, <2>10 DEF ElectionStep
<1> QED
  BY <1>2, <1>3 DEF HandleVoteReq

\* A counted vote was already on its way as a ballot; in both cases the node
\* stays or becomes one of {Candidate, Leader} in the same term.
LEMMA ElectionVoteCounted ==
    ASSUME TypeInv, ElectionInv, NEW m \in voteReps,
           VoteReplyCounted(m) \/ BecomeLeader(m)
    PROVE  ElectionStep
<1> DEFINE i == m.to
<1>1. i \in Server /\ m.from \in Server
  BY DEF TypeInv, TypeOK, VoteRep
<1>2. /\ state[i] = Candidate /\ currentTerm[i] = m.reqTerm /\ m.voteGranted
      /\ votes' = [votes EXCEPT ![i] = votes[i] \cup {m.from}]
      /\ voteReps' = voteReps \ {m}
      /\ UNCHANGED <<currentTerm, votedFor>>
      /\ \/ state' = state
         \/ /\ state' = [state EXCEPT ![i] = Leader]
            /\ Majority(votes[i] \cup {m.from})
  BY DEF VoteReplyCounted, BecomeLeader, VoteCurrent
<1>3. VotesStand
  BY <1>2 DEF VotesStand, TypeInv, TypeOK
<1>4. NoForgedBallot
  <2> SUFFICES ASSUME NEW j \in Server, NEW c \in Server, NEW t \in Nat,
                      Ballot(j, t, c)'
               PROVE  Ballot(j, t, c)
    BY DEF NoForgedBallot
  <2>1. CASE currentTerm'[j] = t /\ votedFor'[j] = c
    BY <1>2, <2>1 DEF Ballot
  <2>2. CASE \E n \in voteReps' : /\ n.voteGranted
                                 /\ n.from = j /\ n.to = c /\ n.reqTerm = t
    BY <1>2, <2>2 DEF Ballot
  <2>3. CASE /\ currentTerm'[c] = t /\ state'[c] \in {Candidate, Leader}
             /\ j \in votes'[c]
    <3>1. CASE c # i
      BY <1>1, <1>2, <2>3, <3>1 DEF Ballot, TypeInv, TypeOK
    <3>2. CASE c = i /\ j = m.from
      BY <1>2, <2>3, <3>2 DEF Ballot
    <3>3. CASE c = i /\ j # m.from
      <4>1. j \in votes[i]
        BY <1>1, <1>2, <2>3, <3>3 DEF TypeInv, TypeOK
      <4> QED
        BY <1>2, <2>3, <3>3, <4>1 DEF Ballot
    <3> QED
      BY <3>1, <3>2, <3>3
  <2> QED
    BY <2>1, <2>2, <2>3 DEF Ballot
<1>5. LeaderElected'
  <2> SUFFICES ASSUME NEW k \in Server, state'[k] = Leader
               PROVE  Majority(votes'[k])
    BY DEF LeaderElected, Majority
  <2>1. CASE k = i
    <3>1. Majority(votes[i] \cup {m.from})
      BY <1>1, <1>2, <2>1 DEF Candidate, Leader, TypeInv, TypeOK
    <3>2. votes'[k] = votes[i] \cup {m.from}
      BY <1>1, <1>2, <2>1 DEF TypeInv, TypeOK
    <3> QED
      BY <3>1, <3>2
  <2>2. CASE k # i
    <3>1. state[k] = Leader /\ votes'[k] = votes[k]
      BY <1>1, <1>2, <2>2 DEF TypeInv, TypeOK
    <3> QED
      BY <3>1 DEF ElectionInv, LeaderElected
  <2> QED
    BY <2>1, <2>2
<1>6. GrantedInTerm'
  BY <1>2 DEF ElectionInv, GrantedInTerm
<1> QED
  BY <1>3, <1>4, <1>5, <1>6 DEF ElectionStep

\* A vote reply moves a ballot from the network to the candidate's count,
\* or drops it.
LEMMA ElectionHandleVoteRep ==
    ASSUME TypeInv, ElectionInv, NEW m \in voteReps, HandleVoteRep(m)
    PROVE  ElectionStep
<1>1. m.to \in Server /\ m.term \in Nat
  BY DEF TypeInv, TypeOK, VoteRep
<1>2. CASE VoteReplyNewerTerm(m)
  BY <1>1, <1>2, AdoptStep DEF VoteReplyNewerTerm
<1>3. CASE VoteReplyIgnored(m)
  <2>1. voteReps' \subseteq voteReps /\ UNCHANGED electionVars
    BY <1>3 DEF VoteReplyIgnored
  <2>2. VotesStand
    BY <2>1 DEF VotesStand, electionVars, TypeInv, TypeOK
  <2>3. NoForgedBallot
    BY <2>1 DEF NoForgedBallot, Ballot, electionVars
  <2>4. LeaderElected' /\ GrantedInTerm'
    BY <2>1 DEF ElectionInv, LeaderElected, GrantedInTerm, electionVars,
                Majority
  <2> QED
    BY <2>2, <2>3, <2>4 DEF ElectionStep
<1>4. CASE VoteReplyCounted(m) \/ BecomeLeader(m)
  BY <1>4, ElectionVoteCounted
<1> QED
  BY <1>2, <1>3, <1>4 DEF HandleVoteRep

\* AppendEntries touches the election state only by adopting a newer term.
LEMMA ElectionHandleAppReq ==
    ASSUME TypeInv, ElectionInv, NEW m \in appReqs, HandleAppReq(m)
    PROVE  ElectionStep
<1>1. m.to \in Server /\ m.term \in Nat
  BY DEF TypeInv, TypeOK, AppReq
<1>2. CASE AppendEntriesStale(m)
  BY <1>2, QuietStep DEF AppendEntriesStale, voteMsgs
<1>3. CASE AppendEntriesMismatch(m) \/ AppendEntries(m)
  <2>1. AcceptLeader(m) /\ voteReps' = voteReps
    BY <1>3 DEF AppendEntriesMismatch, AppendEntries, voteMsgs
  <2>2. CASE m.term > currentTerm[m.to]
    BY <1>1, <2>1, <2>2, AdoptStep DEF AcceptLeader
  <2>3. CASE ~(m.term > currentTerm[m.to])
    BY <2>1, <2>3, QuietStep DEF AcceptLeader
  <2> QED
    BY <2>2, <2>3
<1> QED
  BY <1>2, <1>3 DEF HandleAppReq

\* An append reply touches the election state only by adopting a newer term.
LEMMA ElectionHandleAppRep ==
    ASSUME TypeInv, ElectionInv, NEW m \in appReps, HandleAppRep(m)
    PROVE  ElectionStep
<1>1. m.to \in Server /\ m.term \in Nat
  BY DEF TypeInv, TypeOK, AppRep
<1>2. CASE AppendReplyNewerTerm(m)
  BY <1>1, <1>2, AdoptStep DEF AppendReplyNewerTerm, voteMsgs
<1>3. CASE AppendReplyIgnored(m)
  BY <1>3, QuietStep DEF AppendReplyIgnored, voteMsgs
<1>4. CASE AppendReplySuccess(m)
  BY <1>4, QuietStep DEF AppendReplySuccess, voteMsgs
<1>5. CASE AppendReplyReject(m)
  BY <1>5, QuietStep DEF AppendReplyReject, voteMsgs
<1> QED
  BY <1>2, <1>3, <1>4, <1>5 DEF HandleAppRep

\* Every step of the program is an election step.
LEMMA NextIsElectionStep ==
    ASSUME TypeInv, ElectionInv, [Next]_vars
    PROVE  ElectionStep
<1>1. ASSUME NEW i \in Server, StartElection(i)
      PROVE  ElectionStep
  BY <1>1, ElectionStartElection
<1>2. ASSUME NEW i \in Server, NEW cmd \in Command, Start(i, cmd)
      PROVE  ElectionStep
  BY <1>2, QuietStep DEF Start, voteMsgs
<1>3. ASSUME NEW i \in Server, NEW p \in Server, NEW k \in Call,
             SendAppendEntries(i, p, k)
      PROVE  ElectionStep
  BY <1>3, QuietStep DEF SendAppendEntries, voteMsgs
<1>4. ASSUME NEW i \in Server, ApplyLoop(i)
      PROVE  ElectionStep
  BY <1>4, QuietStep DEF ApplyLoop, voteMsgs
<1>5. CASE UNCHANGED vars
  BY <1>5, QuietStep DEF vars, voteMsgs
<1> QED
  BY <1>1, <1>2, <1>3, <1>4, <1>5, ElectionHandleVoteReq,
     ElectionHandleVoteRep, ElectionHandleAppReq, ElectionHandleAppRep
     DEF Next

\* No ballot has been cast in the initial state.
LEMMA ElectionInit == Init => ElectionInv
<1> SUFFICES ASSUME Init PROVE ElectionInv
  OBVIOUS
<1>1. \A j, c \in Server : \A t : ~Ballot(j, t, c)
  BY ServerAssumption DEF Init, Ballot, Follower, Candidate, Leader
<1>2. LeaderElected /\ GrantedInTerm
  BY DEF Init, LeaderElected, GrantedInTerm, Follower, Leader
<1> QED
  BY <1>1, <1>2 DEF ElectionInv, BallotsRemembered, BallotsUnique

\* The election invariant holds throughout.
THEOREM ElectionInvariant == Spec => [](TypeInv /\ ElectionInv)
<1>1. Init => TypeInv /\ ElectionInv
  BY TypeInit, ElectionInit
<1>2. TypeInv /\ ElectionInv /\ [Next]_vars => TypeInv' /\ ElectionInv'
  BY TypeStep, NextIsElectionStep, ElectionStepPreserves
<1> QED
  BY <1>1, <1>2, PTL DEF Spec

\* Two leaders of one term would each have a majority of ballots, hence share
\* a voter, who voted once.
LEMMA ElectionSafetyFromInv ==
    ASSUME TypeInv, ElectionInv
    PROVE  ElectionSafety
<1> SUFFICES ASSUME NEW i \in Server, NEW k \in Server,
                    state[i] = Leader, state[k] = Leader,
                    currentTerm[i] = currentTerm[k]
             PROVE  i = k
  BY DEF ElectionSafety
<1>1. votes[i] \subseteq Server /\ votes[k] \subseteq Server
  BY DEF TypeInv, TypeOK
<1>2. Majority(votes[i]) /\ Majority(votes[k])
  BY DEF ElectionInv, LeaderElected
<1>3. /\ Cardinality(Server) \in Nat
      /\ Cardinality(votes[i]) \in Nat /\ Cardinality(votes[k]) \in Nat
  BY <1>1, ServerAssumption, FS_CardinalityType, FS_Subset
<1>4. Cardinality(votes[i]) + Cardinality(votes[k]) > Cardinality(Server)
  BY <1>2, <1>3 DEF Majority
<1>5. PICK j \in Server : j \in votes[i] /\ j \in votes[k]
  BY <1>1, <1>4, ServerAssumption, FS_MajoritiesIntersect
<1>6. Ballot(j, currentTerm[i], i) /\ Ballot(j, currentTerm[i], k)
  BY <1>5 DEF Ballot
<1> QED
  BY <1>6, BallotTermsCover DEF ElectionInv, BallotsUnique

\* Election safety, for every cluster size: late, lost and reordered votes
\* never make two leaders in one term.
THEOREM ElectionSafe == Spec => []ElectionSafety
<1>1. TypeInv /\ ElectionInv => ElectionSafety
  BY ElectionSafetyFromInv
<1> QED
  BY ElectionInvariant, <1>1, PTL

\* "a server votes for at most one candidate per term", for every cluster.
THEOREM VotesOnce == Spec => []OneVotePerTerm
<1>1. ASSUME TypeInv, ElectionInv
      PROVE  OneVotePerTerm
  <2> SUFFICES ASSUME NEW m \in voteReps, NEW n \in voteReps,
                      m.voteGranted, n.voteGranted,
                      m.from = n.from, m.term = n.term
               PROVE  m.to = n.to
    BY DEF OneVotePerTerm
  <2>1. m.from \in Server /\ m.to \in Server /\ n.to \in Server
    BY <1>1 DEF TypeInv, TypeOK, VoteRep
  <2>2. m.reqTerm = n.reqTerm
    BY <1>1 DEF ElectionInv, GrantedInTerm
  <2>3. Ballot(m.from, m.reqTerm, m.to) /\ Ballot(m.from, m.reqTerm, n.to)
    BY <2>2 DEF Ballot
  <2> QED
    BY <1>1, <2>1, <2>3, BallotTermsCover DEF ElectionInv, BallotsUnique
<1> QED
  BY ElectionInvariant, <1>1, PTL

\* No step lowers a term or changes a vote within a term.
THEOREM VotesStandAlways == Spec => VoteStands
<1>1. TypeInv /\ ElectionInv /\ [Next]_vars => VotesStand
  BY NextIsElectionStep DEF ElectionStep
<1>2. TypeInv /\ ElectionInv /\ [Next]_vars
        => [\A i \in Server :
              /\ currentTerm'[i] >= currentTerm[i]
              /\ currentTerm'[i] = currentTerm[i] /\ votedFor[i] # None
                     => votedFor'[i] = votedFor[i]]_vars
  BY <1>1 DEF VotesStand
<1> QED
  BY ElectionInvariant, <1>2, PTL DEF Spec, VoteStands
=============================================================================
