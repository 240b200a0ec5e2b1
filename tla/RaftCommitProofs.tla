------------------------- MODULE RaftCommitProofs -------------------------
(***************************************************************************)
(* Proofs that what Raft has committed stands: it is in the log of every   *)
(* later leader, no node removes it, and all nodes apply the same entries. *)
(* Hence Raft implements ReplicatedLog: a step of Raft is a Commit, a      *)
(* Deliver or a stuttering step of the abstract log.                       *)
(***************************************************************************)
EXTENDS RaftRefinement, RaftLogSafety

-----------------------------------------------------------------------------
(* The kinds of steps, once more *)

\* How a step can change the log of a node.
LEMMA LogKinds ==
    ASSUME LogInv, [Next]_vars, NEW q \in Server
    PROVE  \/ log'[q] = log[q]
           \/ \E cmd \in Command \cup {Noop} : AppendStep(q, cmd)
           \/ \E m \in appReqs : AppendEntries(m) /\ m.to = q
<1>1. log \in [Server -> Seq(Entry)]
  BY DEF LogInv, TypeInv, TypeOK
<1>2. ASSUME NEW i \in Server, NEW cmd \in Command \cup {Noop},
             AppendStep(i, cmd), i # q
      PROVE  log'[q] = log[q]
  BY <1>1, <1>2 DEF AppendStep
<1>3. ASSUME NEW m \in appReqs, AppendEntries(m), m.to # q
      PROVE  log'[q] = log[q]
  BY <1>1, <1>3 DEF AppendEntries
<1>4. QuietLog => log'[q] = log[q]
  BY DEF QuietLog
<1>5. ASSUME NEW i \in Server, NEW p \in Server \ {i}, NEW k \in Call,
             SendAppendEntries(i, p, k)
      PROVE  log'[q] = log[q]
  BY <1>5 DEF SendAppendEntries, logVars
<1> QED
  BY <1>2, <1>3, <1>4, <1>5, StepKinds DEF LogInv

\* A new link is the one a leader appends.
LEMMA LinkKinds ==
    ASSUME LogInv, TypeInv', [Next]_vars, NEW x \in Links'
    PROVE  \/ x \in Links
           \/ \E i \in Server, cmd \in Command \cup {Noop} :
                 AppendStep(i, cmd) /\ x = AppendedLink(i, cmd)
<1>1. RoleStep /\ TypeInv /\ ElectionInv /\ ChainInv /\ NextIndexInLog /\ LogTerms
  BY NextRoleStep DEF LogInv, AckInv, ChainInv
<1>2. QuietLog => Links' \subseteq Links
  BY DEF Links, QuietLog
<1>3. ASSUME NEW i \in Server, NEW p \in Server \ {i}, NEW k \in Call,
             SendAppendEntries(i, p, k)
      PROVE  Links' \subseteq Links
  BY <1>1, <1>3, SendAddsNoLink
<1>4. ASSUME NEW m \in appReqs, AppendEntries(m)
      PROVE  Links' \subseteq Links
  BY <1>1, <1>4, ChainAccept
<1>5. ASSUME NEW i \in Server, NEW cmd \in Command \cup {Noop},
             AppendStep(i, cmd)
      PROVE  x \in Links \/ x = AppendedLink(i, cmd)
  BY <1>1, <1>5, AppendAddsLink
<1> QED
  BY <1>1, <1>2, <1>3, <1>4, <1>5, StepKinds

\* A node begins to lead only in becomeLeader.
LEMMA NewLeaderKinds ==
    ASSUME TypeInv, [Next]_vars, NEW i \in Server, state'[i] = Leader,
           state[i] # Leader
    PROVE  \E m \in voteReps : BecomeLeader(m) /\ m.to = i
<1>1. ASSUME NEW m \in appReps, AppendReplySuccess(m) \/ AppendReplyReject(m)
      PROVE  FALSE
  BY <1>1 DEF AppendReplySuccess, AppendReplyReject, electionVars
<1>2. ASSUME NEW m \in voteReps, BecomeLeader(m), m.to # i
      PROVE  FALSE
  BY <1>2 DEF BecomeLeader, TypeInv, TypeOK
<1>3. ~NoNewLeader
  BY DEF NoNewLeader
<1> QED
  BY <1>1, <1>2, <1>3, LeaderKinds

\* A node becomes a candidate, and its vote changes, only when its timer fires
\* or in RequestVote.
LEMMA VoteKinds ==
    ASSUME TypeInv, [Next]_vars, NEW q \in Server
    PROVE  /\ state'[q] = Candidate
                => \/ state[q] = Candidate /\ currentTerm'[q] = currentTerm[q]
                   \/ StartElection(q)
           /\ votedFor'[q] # None
                => \/ /\ votedFor'[q] = votedFor[q]
                      /\ currentTerm'[q] = currentTerm[q]
                   \/ StartElection(q)
                   \/ \E m \in voteReqs : RequestVote(m) /\ m.to = q
<1> DEFINE Same == /\ currentTerm'[q] = currentTerm[q]
                   /\ votedFor'[q] = votedFor[q] /\ state'[q] = state[q]
           Adopt == state'[q] = Follower /\ votedFor'[q] = None
           Lead == /\ currentTerm'[q] = currentTerm[q]
                   /\ votedFor'[q] = votedFor[q] /\ state'[q] = Leader
           Ask == /\ \E m \in voteReqs : RequestVote(m) /\ m.to = q
                  /\ \/ state'[q] = Follower
                     \/ state'[q] = state[q] /\ currentTerm'[q] = currentTerm[q]
           Goal == Same \/ Adopt \/ Lead \/ StartElection(q) \/ Ask
<1>t. /\ currentTerm \in [Server -> Nat] /\ state \in [Server -> {Follower, Candidate, Leader}]
      /\ votedFor \in [Server -> Server \cup {None}]
  BY DEF TypeInv, TypeOK
<1>0. ASSUME UNCHANGED <<currentTerm, votedFor, state>>
      PROVE  Goal
  BY <1>0
<1>a. ASSUME NEW i \in Server, NEW t, AdoptTerm(i, t)
      PROVE  Goal
  BY <1>t, <1>a DEF AdoptTerm
<1>1. ASSUME NEW i \in Server, StartElection(i)
      PROVE  Goal
  BY <1>t, <1>1 DEF StartElection
<1>2. ASSUME NEW m \in voteReqs, HandleVoteReq(m)
      PROVE  Goal
  <2>1. m.to \in Server /\ m.term \in Nat /\ currentTerm[m.to] \in Nat
    BY DEF TypeInv, TypeOK, VoteReq
  <2>2. CASE RequestVoteStale(m)
    BY <1>0, <2>2 DEF RequestVoteStale, electionVars
  <2>3. CASE RequestVote(m) /\ m.to = q
    <3>1. /\ currentTerm' = [currentTerm EXCEPT ![q] = m.term]
          /\ state' = [state EXCEPT ![q] =
                          IF m.term > currentTerm[q] THEN Follower ELSE @]
          /\ m.term >= currentTerm[q]
      BY <2>3 DEF RequestVote
    <3>2. CASE m.term > currentTerm[q]
      BY <1>t, <2>3, <3>1, <3>2
    <3>3. CASE ~(m.term > currentTerm[q])
      BY <1>t, <2>1, <2>3, <3>1, <3>3
    <3> QED
      BY <3>2, <3>3
  <2>4. CASE RequestVote(m) /\ m.to # q
    BY <1>t, <2>4 DEF RequestVote
  <2> QED
    BY <1>2, <2>2, <2>3, <2>4 DEF HandleVoteReq
<1>3. ASSUME NEW m \in voteReps, HandleVoteRep(m)
      PROVE  Goal
  <2>1. m.to \in Server
    BY DEF TypeInv, TypeOK, VoteRep
  <2>2. CASE VoteReplyNewerTerm(m)
    BY <1>a, <2>1, <2>2 DEF VoteReplyNewerTerm
  <2>3. CASE VoteReplyIgnored(m) \/ VoteReplyCounted(m)
    BY <1>0, <2>3 DEF VoteReplyIgnored, VoteReplyCounted, electionVars
  <2>4. CASE BecomeLeader(m)
    BY <1>t, <2>1, <2>4 DEF BecomeLeader
  <2> QED
    BY <1>3, <2>2, <2>3, <2>4 DEF HandleVoteRep
<1>4. ASSUME NEW i \in Server, NEW cmd \in Command, Start(i, cmd)
      PROVE  Goal
  BY <1>0, <1>4 DEF Start, electionVars
<1>5. ASSUME NEW i \in Server, NEW p \in Server, NEW k \in Call,
             SendAppendEntries(i, p, k)
      PROVE  Goal
  BY <1>0, <1>5 DEF SendAppendEntries, electionVars
<1>6. ASSUME NEW m \in appReqs, HandleAppReq(m)
      PROVE  Goal
  <2>1. m.to \in Server
    BY DEF TypeInv, TypeOK, AppReq
  <2>2. CASE AppendEntriesStale(m)
    BY <1>0, <2>2 DEF AppendEntriesStale, electionVars
  <2>3. CASE AcceptLeader(m)
    BY <1>0, <1>a, <2>1, <2>3 DEF AcceptLeader, electionVars
  <2> QED
    BY <1>6, <2>2, <2>3 DEF HandleAppReq, AppendEntriesMismatch, AppendEntries
<1>7. ASSUME NEW m \in appReps, HandleAppRep(m)
      PROVE  Goal
  <2>1. m.to \in Server
    BY DEF TypeInv, TypeOK, AppRep
  <2>2. CASE AppendReplyNewerTerm(m)
    BY <1>a, <2>1, <2>2 DEF AppendReplyNewerTerm
  <2>3. CASE AppendReplyIgnored(m) \/ AppendReplySuccess(m) \/ AppendReplyReject(m)
    BY <1>0, <2>3 DEF AppendReplyIgnored, AppendReplySuccess,
                      AppendReplyReject, electionVars
  <2> QED
    BY <1>7, <2>2, <2>3 DEF HandleAppRep
<1>8. ASSUME NEW i \in Server, ApplyLoop(i)
      PROVE  Goal
  BY <1>0, <1>8 DEF ApplyLoop, electionVars
<1>9. ASSUME UNCHANGED vars
      PROVE  Goal
  BY <1>0, <1>9 DEF vars, electionVars
<1> HIDE DEF Goal
<1>10. Goal
  BY <1>1, <1>2, <1>3, <1>4, <1>5, <1>6, <1>7, <1>8, <1>9 DEF Next
<1> QED
  BY <1>10 DEF Goal, Follower, Candidate, Leader

-----------------------------------------------------------------------------
(* Votes and the logs behind them *)

\* A vote after a step was there before, or its candidate just voted for
\* itself, or the voter just granted it.
LEMMA BallotKinds ==
    ASSUME TypeInv, TypeInv', ElectionInv, [Next]_vars,
           NEW q \in Server, NEW c \in Server, NEW t \in Nat, Ballot(q, t, c)'
    PROVE  \/ Ballot(q, t, c)
           \/ StartElection(q) /\ q = c /\ t = currentTerm[q] + 1
           \/ \E m \in voteReqs : /\ RequestVote(m) /\ UpToDate(m, log[q])
                                  /\ m.to = q /\ m.from = c /\ m.term = t
<1>1. CASE Ballot(q, t, c)
  BY <1>1
<1>2. CASE ~Ballot(q, t, c)
  <2>1. CastNow(q, t, c)
    BY <1>2, NextIsElectionStep DEF ElectionStep, NoForgedBallot
  <2>2. currentTerm'[q] = t /\ votedFor'[q] = c /\ c # None
    BY <2>1, ServerAssumption DEF CastNow
  <2>3. ~(votedFor'[q] = votedFor[q] /\ currentTerm'[q] = currentTerm[q])
    BY <1>2, <2>2 DEF Ballot
  <2>4. CASE StartElection(q)
    <3>1. currentTerm'[q] = currentTerm[q] + 1 /\ votedFor'[q] = q
      BY <2>4 DEF StartElection, TypeInv, TypeOK
    <3> QED
      BY <2>2, <2>4, <3>1
  <2>5. ASSUME NEW m \in voteReqs, RequestVote(m), m.to = q
        PROVE  UpToDate(m, log[q]) /\ m.from = c /\ m.term = t
    <3> DEFINE newer == m.term > currentTerm[q]
               vote == IF newer THEN None ELSE votedFor[q]
               grant == VoteFree(vote, m) /\ UpToDate(m, log[q])
    <3>1. m.term \in Nat /\ currentTerm[q] \in Nat
      BY DEF TypeInv, TypeOK, VoteReq
    <3>2. /\ m.term >= currentTerm[q] /\ currentTerm'[q] = m.term
          /\ votedFor'[q] = IF grant THEN m.from ELSE vote
      BY <2>5 DEF RequestVote, TypeInv, TypeOK
    <3>3. grant
      <4> SUFFICES ASSUME ~grant PROVE FALSE
        OBVIOUS
      <4>1. votedFor'[q] = vote
        BY <3>2
      <4>2. CASE newer
        BY <2>2, <4>1, <4>2
      <4>3. CASE ~newer
        BY <2>3, <3>1, <3>2, <4>1, <4>3
      <4> QED
        BY <4>2, <4>3
    <3> QED
      BY <2>2, <3>2, <3>3
  <2> QED
    BY <2>2, <2>3, <2>4, <2>5, VoteKinds
<1> QED
  BY <1>1, <1>2

\* Every ballot, whatever its term, is for an election that was started.
LEMMA BallotAsked ==
    ASSUME BallotsAsked, NEW j \in Server, NEW c \in Server, NEW t,
           Ballot(j, t, c)
    PROVE  t <= currentTerm[c]
BY BallotTermsCover DEF BallotsAsked

\* Terms never fall.
LEMMA TermsRise ==
    ASSUME TypeInv, TypeInv', ElectionInv, [Next]_vars
    PROVE  \A j \in Server : /\ currentTerm[j] \in Nat /\ currentTerm'[j] \in Nat
                             /\ currentTerm[j] <= currentTerm'[j]
BY NextIsElectionStep DEF ElectionStep, VotesStand, TypeInv, TypeOK

\* A vote is asked for before it is given.
LEMMA BallotsAskedStep ==
    ASSUME TypeInv, TypeInv', ElectionInv, VoteLogInv, [Next]_vars
    PROVE  BallotsAsked'
<1> SUFFICES ASSUME NEW j \in Server, NEW c \in Server, NEW t \in BallotTerms',
                    Ballot(j, t, c)'
             PROVE  t <= currentTerm'[c]
  BY DEF BallotsAsked
<1>1. /\ currentTerm[c] \in Nat /\ currentTerm'[c] \in Nat
      /\ currentTerm[c] <= currentTerm'[c]
  BY TermsRise
<1>2. t \in Nat
  <2>1. CASE \E i \in Server : t = currentTerm'[i]
    BY <2>1 DEF TypeInv, TypeOK
  <2>2. CASE \E m \in voteReps' : t = m.reqTerm
    BY <2>2 DEF TypeInv, TypeOK, VoteRep
  <2> QED
    BY <2>1, <2>2 DEF BallotTerms
<1>3. CASE Ballot(j, t, c)
  BY <1>1, <1>2, <1>3, BallotAsked DEF VoteLogInv
<1>4. CASE StartElection(j) /\ j = c /\ t = currentTerm[j] + 1
  <2>1. currentTerm'[j] = currentTerm[j] + 1
    BY <1>4 DEF StartElection, TypeInv, TypeOK
  <2> QED
    BY <1>1, <1>4, <2>1
<1>5. ASSUME NEW m \in voteReqs, m.from = c, m.term = t
      PROVE  t <= currentTerm'[c]
  <2>1. t <= currentTerm[c]
    BY <1>5 DEF VoteLogInv, VoteReqOK
  <2> QED
    BY <1>1, <1>2, <2>1
<1> QED
  BY <1>2, <1>3, <1>4, <1>5, BallotKinds

\* A request for a vote is made only when a timer fires.
LEMMA VoteReqKinds ==
    ASSUME [Next]_vars, NEW m \in voteReqs', m \notin voteReqs
    PROVE  \E i \in Server : /\ StartElection(i) /\ m.from = i
                             /\ m.term = currentTerm[i] + 1
                             /\ m.lastLogIndex = LastIndex(log[i])
                             /\ m.lastLogTerm = LastTerm(log[i])
<1>1. ASSUME NEW r \in voteReqs, HandleVoteReq(r)
      PROVE  FALSE
  BY <1>1 DEF HandleVoteReq, RequestVote, RequestVoteStale, ReplyVote
<1>2. ASSUME NEW r \in voteReps, HandleVoteRep(r)
      PROVE  FALSE
  BY <1>2 DEF HandleVoteRep, VoteReplyNewerTerm, VoteReplyIgnored,
              VoteReplyCounted, BecomeLeader
<1>3. ASSUME NEW i \in Server, NEW cmd \in Command, Start(i, cmd)
      PROVE  FALSE
  BY <1>3 DEF Start, voteMsgs
<1>4. ASSUME NEW i \in Server, NEW p \in Server, NEW k \in Call,
             SendAppendEntries(i, p, k)
      PROVE  FALSE
  BY <1>4 DEF SendAppendEntries, voteMsgs
<1>5. ASSUME NEW r \in appReqs, HandleAppReq(r)
      PROVE  FALSE
  BY <1>5 DEF HandleAppReq, AppendEntriesStale, AppendEntriesMismatch,
              AppendEntries, voteMsgs
<1>6. ASSUME NEW r \in appReps, HandleAppRep(r)
      PROVE  FALSE
  BY <1>6 DEF HandleAppRep, AppendReplyNewerTerm, AppendReplyIgnored,
              AppendReplySuccess, AppendReplyReject, voteMsgs
<1>7. ASSUME NEW i \in Server, ApplyLoop(i)
      PROVE  FALSE
  BY <1>7 DEF ApplyLoop, voteMsgs
<1>8. CASE UNCHANGED vars
  BY <1>8 DEF vars, voteMsgs
<1>9. PICK i \in Server : StartElection(i)
  BY <1>1, <1>2, <1>3, <1>4, <1>5, <1>6, <1>7, <1>8 DEF Next
<1>10. m \in {[from |-> i, to |-> p, term |-> currentTerm[i] + 1,
               lastLogIndex |-> LastIndex(log[i]),
               lastLogTerm |-> LastTerm(log[i])] : p \in Server \ {i}}
  BY <1>9 DEF StartElection
<1> QED
  BY <1>9, <1>10

\* The log a node has after it accepted request m.
LEMMA AcceptedLog ==
    ASSUME LogInv, TypeInv', [Next]_vars, NEW m \in appReqs, AppendEntries(m)
    PROVE  /\ m.to \in Server /\ m.term \in Nat /\ ReqEnd(m) \in Nat
           /\ log[m.to] \in Seq(Entry) /\ log'[m.to] \in Seq(Entry)
           /\ log'[m.to] = Merge(log[m.to], m.prevLogIndex, m.entries)
           /\ LogLinks(log'[m.to]) \subseteq Links
           /\ Holds(log'[m.to], ReqEnd(m), m.term)
           /\ log'[m.to] = log[m.to] \/ Len(log'[m.to]) = ReqEnd(m)
           /\ currentTerm'[m.to] = m.term /\ state'[m.to] # Leader
           /\ currentTerm[m.to] <= m.term
<1>1. RoleStep /\ TypeInv /\ ElectionInv /\ ChainInv
  BY NextRoleStep DEF LogInv
<1>2. /\ m \in AppReq /\ m.to \in Server /\ m.term \in Nat /\ ReqEnd(m) \in Nat
  BY <1>1, ReqFields DEF TypeInv, TypeOK
<1>3. log[m.to] \in Seq(Entry) /\ log'[m.to] \in Seq(Entry)
  BY <1>1, <1>2 DEF TypeInv, TypeOK
<1>4. /\ log'[m.to] = Merge(log[m.to], m.prevLogIndex, m.entries)
      /\ PrevMatches(log[m.to], m) /\ m.term >= currentTerm[m.to]
  BY <1>1, <1>2 DEF AppendEntries, TypeInv, TypeOK
<1>5. /\ LogLinks(log'[m.to]) \subseteq Links
      /\ Holds(log'[m.to], ReqEnd(m), m.term)
  BY <1>1, ChainAccept
<1>6. log'[m.to] = log[m.to] \/ Len(log'[m.to]) = ReqEnd(m)
  BY <1>1, <1>2, <1>3, <1>4, MergeReaches DEF ChainInv, ReqsOK, ReqOK
<1>7. currentTerm'[m.to] = m.term /\ state'[m.to] # Leader
  BY <1>1, AcceptorFollows DEF ChainInv
<1>8. currentTerm[m.to] <= m.term
  BY <1>1, <1>2, <1>4 DEF TypeInv, TypeOK
<1> QED
  BY <1>2, <1>3, <1>4, <1>5, <1>6, <1>7, <1>8

\* A request for a vote keeps describing the candidate's log.
LEMMA VoteLogStep ==
    ASSUME LogInv, TypeInv', VoteLogInv, [Next]_vars
    PROVE  VoteLogInv'
<1>1. TypeInv /\ ElectionInv
  BY DEF LogInv
<1>2. BallotsAsked'
  BY <1>1, BallotsAskedStep
<1>3. ASSUME NEW m \in voteReqs'
      PROVE  VoteReqOK(m)'
  <2> DEFINE c == m.from
  <2>1. c \in Server /\ m.term \in Nat
    BY DEF TypeInv, TypeOK, VoteReq
  <2>2. /\ currentTerm[c] \in Nat /\ currentTerm'[c] \in Nat
        /\ currentTerm[c] <= currentTerm'[c]
    BY <1>1, <2>1, TermsRise
  <2>3. ASSUME m \notin voteReqs
        PROVE  VoteReqOK(m)'
    <3>1. PICK i \in Server : /\ StartElection(i) /\ m.from = i
                             /\ m.term = currentTerm[i] + 1
                             /\ m.lastLogIndex = LastIndex(log[i])
                             /\ m.lastLogTerm = LastTerm(log[i])
      BY <2>3, VoteReqKinds
    <3>2. log' = log /\ currentTerm'[i] = currentTerm[i] + 1
      BY <1>1, <3>1 DEF StartElection, logVars, TypeInv, TypeOK
    <3> QED
      BY <2>2, <3>1, <3>2 DEF VoteReqOK, LastTerm, LastIndex
  <2>4. ASSUME m \in voteReqs
        PROVE  VoteReqOK(m)'
    <3>1. /\ m.term <= currentTerm[c]
          /\ state[c] = Candidate /\ currentTerm[c] = m.term
               => \/ LastTerm(log[c]) = m.term
                  \/ /\ m.lastLogTerm = LastTerm(log[c])
                     /\ m.lastLogIndex = LastIndex(log[c])
      BY <2>4 DEF VoteLogInv, VoteReqOK
    <3>2. m.term <= currentTerm'[c]
      BY <2>1, <2>2, <3>1
    <3>3. ASSUME state'[c] = Candidate, currentTerm'[c] = m.term
          PROVE  \/ LastTerm(log'[c]) = m.term
                 \/ /\ m.lastLogTerm = LastTerm(log'[c])
                    /\ m.lastLogIndex = LastIndex(log'[c])
      <4>1. state[c] = Candidate /\ currentTerm[c] = m.term
        <5>1. CASE StartElection(c)
          <6>1. currentTerm'[c] = currentTerm[c] + 1
            BY <1>1, <2>1, <5>1 DEF StartElection, TypeInv, TypeOK
          <6> QED
            BY <2>1, <2>2, <3>1, <3>3, <6>1
        <5> QED
          BY <1>1, <2>1, <3>3, <5>1, VoteKinds
      <4>2. CASE log'[c] = log[c]
        BY <3>1, <4>1, <4>2
      <4>3. ASSUME NEW cmd \in Command \cup {Noop}, AppendStep(c, cmd)
            PROVE  FALSE
        BY <3>3, <4>3 DEF AppendStep, Leader, Candidate
      <4>4. ASSUME NEW r \in appReqs, AppendEntries(r), r.to = c
            PROVE  log'[c] = log[c] \/ LastTerm(log'[c]) = m.term
        <5>1. /\ log'[c] = log[c] \/ Len(log'[c]) = ReqEnd(r)
              /\ Holds(log'[c], ReqEnd(r), r.term)
              /\ currentTerm'[c] = r.term /\ log'[c] \in Seq(Entry)
          BY <4>4, AcceptedLog
        <5>2. CASE Len(log'[c]) = ReqEnd(r)
          <6>1. log'[c] # <<>>
            BY <5>1, <5>2 DEF Holds, Has
          <6> QED
            BY <3>3, <5>1, <5>2, <6>1 DEF Holds, LastTerm
        <5> QED
          BY <5>1, <5>2
      <4> QED
        BY <2>1, <4>2, <4>3, <4>4, LogKinds
    <3> QED
      BY <3>2, <3>3 DEF VoteReqOK, LastTerm, LastIndex
  <2> QED
    BY <2>3, <2>4
<1> QED
  BY <1>2, <1>3 DEF VoteLogInv

-----------------------------------------------------------------------------
(* Secured entries *)

\* An entry of a log is a link.
LEMMA HoldsLink ==
    ASSUME TypeInv, NEW i \in Server, NEW n, NEW t, Holds(log[i], n, t)
    PROVE  /\ n \in Nat \ {0} /\ t \in Nat /\ n <= Len(log[i])
           /\ \E x \in Links : x.n = n /\ x.e = log[i][n] /\ x.e.term = t
<1>1. log[i] \in Seq(Entry) /\ n \in 1..Len(log[i]) /\ log[i][n].term = t
  BY DEF TypeInv, TypeOK, Holds, Has
<1>2. PICK x \in LogLinks(log[i]) : x.n = n /\ x.e = log[i][n]
  BY <1>1, LogLinkAt
<1>3. x \in Links
  BY DEF Links
<1>4. t \in Nat
  BY <1>1, EntryAt
<1> QED
  BY <1>1, <1>2, <1>3, <1>4

\* An entry of a log is found among the links by its position and its term.
LEMMA HoldsSomeLink ==
    ASSUME TypeInv, NEW i \in Server, NEW n, NEW t, Holds(log[i], n, t)
    PROVE  \E x \in Links : x.n = n /\ x.e.term = t
<1>1. log[i] \in Seq(Entry) /\ n \in 1..Len(log[i]) /\ log[i][n].term = t
  BY DEF TypeInv, TypeOK, Holds, Has
<1>2. PICK x \in LogLinks(log[i]) : x.n = n /\ x.e = log[i][n]
  BY <1>1, LogLinkAt
<1> QED
  BY <1>1, <1>2 DEF Links

\* What every log is.
LEMMA LogFacts ==
    ASSUME LogInv, NEW i \in Server
    PROVE  /\ log[i] \in Seq(Entry) /\ Len(log[i]) \in Nat
           /\ LogLinks(log[i]) \subseteq Links
           /\ currentTerm[i] \in Nat
<1>1. log[i] \in Seq(Entry) /\ currentTerm[i] \in Nat
  BY DEF LogInv, TypeInv, TypeOK
<1>2. LogLinks(log[i]) \subseteq Links
  BY DEF Links
<1> QED
  BY <1>1, <1>2

\* A log made of known links with an entry of a term after t has the entry of
\* term t at n, once that is carried.
LEMMA CarriedLog ==
    ASSUME LogInv, NEW y \in Links, Carried(y.n, y.e.term),
           NEW l \in Seq(Entry), LogLinks(l) \subseteq Links,
           NEW E \in Nat, NEW u \in Nat, Holds(l, E, u), u > y.e.term
    PROVE  Holds(l, y.n, y.e.term) /\ y.n < E
<1>1. y.n \in Nat \ {0} /\ y.e.term \in Nat
  BY LinkTypes DEF LogInv
<1>2. LinksRun(Links)
  BY DEF LogInv, ChainInv, LinksOK
<1> QED
  BY <1>1, <1>2, CarryDescent DEF Carried

\* The last entry of a log that holds an entry of term t is of term t or later.
LEMMA LastTermReaches ==
    ASSUME LogInv, NEW i \in Server, NEW n, NEW t, Holds(log[i], n, t)
    PROVE  /\ LastTerm(log[i]) \in Nat /\ LastTerm(log[i]) >= t
           /\ Holds(log[i], Len(log[i]), LastTerm(log[i]))
<1> DEFINE l == log[i]
<1>1. /\ l \in Seq(Entry) /\ LogLinks(l) \subseteq Links /\ Len(l) \in Nat
      /\ LinksOrdered(Links)
  BY LogFacts DEF LogInv, ChainInv, LinksOK
<1>2. n \in Nat \ {0} /\ t \in Nat /\ n <= Len(l)
  BY HoldsLink DEF LogInv
<1>3. \A k \in n..Len(l) : l[k].term >= t
  BY <1>1, <1>2, TermsMonotone
<1>4. Len(l) \in n..Len(l) /\ Len(l) \in 1..Len(l) /\ l # <<>>
  BY <1>1, <1>2
<1>5. LastTerm(l) = l[Len(l)].term
  BY <1>4 DEF LastTerm
<1>6. l[Len(l)].term \in Nat
  BY <1>1, <1>4, EntryAt
<1> QED
  BY <1>3, <1>4, <1>5, <1>6 DEF Holds, Has

\* A leader of a term after t that appends has the secured entry.
LEMMA LeaderCarries ==
    ASSUME LogInv, LogInv', [Next]_vars, NEW y \in Links,
           NEW Q \in SUBSET Server, Secured(y.n, y.e.term, Q),
           NEW i \in Server, NEW cmd \in Command \cup {Noop},
           AppendStep(i, cmd), currentTerm[i] > y.e.term
    PROVE  Holds(log[i], y.n, y.e.term)
<1>1. /\ currentTerm[i] \in Nat /\ log[i] \in Seq(Entry) /\ Len(log[i]) \in Nat
      /\ LogLinks(log[i]) \subseteq Links
  BY LogFacts
<1>2. CASE state[i] = Leader
  <2>1. Holds(log[i], Len(log[i]), currentTerm[i])
    BY <1>2 DEF LogInv, ChainInv, LogTerms
  <2> QED
    BY <1>1, <2>1, CarriedLog DEF Secured
<1>3. CASE state[i] # Leader
  <2>1. PICK m \in voteReps : BecomeLeader(m) /\ m.to = i
    BY <1>3, NewLeaderKinds DEF LogInv, AppendStep
  <2> DEFINE V == votes[i] \cup {m.from}
  <2>2. V \in SUBSET Server /\ \A v \in V : Ballot(v, currentTerm[i], i)
    BY <2>1, NewLeaderTerm DEF LogInv, ChainInv
  <2>3. Majority(V) /\ state[i] = Candidate
    BY <2>1 DEF BecomeLeader, VoteCurrent
  <2> HIDE DEF V
  <2>4. PICK q \in Server : q \in Q /\ q \in V
    BY <2>2, <2>3, MajoritiesMeet DEF Secured
  <2>5. currentTerm[i] <= currentTerm[q] /\ currentTerm[q] \in Nat
    BY <2>2, <2>4, BallotFacts DEF LogInv, TypeInv, TypeOK
  <2>6. y.e.term \in Nat
    BY LinkTypes DEF LogInv
  <2>7. Kept(q, y.n, y.e.term)
    <3>1. currentTerm[q] > y.e.term
      BY <1>1, <2>5, <2>6
    <3> QED
      BY <2>4, <3>1 DEF Secured
  <2> QED
    BY <2>2, <2>3, <2>4, <2>7 DEF Kept
<1> QED
  BY <1>2, <1>3

\* What is carried stays so: a later leader appends after the entry.
LEMMA CarriedStep ==
    ASSUME LogInv, LogInv', [Next]_vars, NEW y \in Links,
           NEW Q \in SUBSET Server, Secured(y.n, y.e.term, Q)
    PROVE  Carried(y.n, y.e.term)'
<1> DEFINE n == y.n
           t == y.e.term
<1>1. n \in Nat /\ t \in Nat
  BY LinkTypes DEF LogInv
<1> SUFFICES ASSUME NEW x \in Links', x.e.term > t
             PROVE  x.n > n /\ x.p >= t
  BY DEF Carried, CarriedIn
<1>2. CASE x \in Links
  BY <1>2 DEF Secured, Carried, CarriedIn
<1>3. ASSUME NEW i \in Server, NEW cmd \in Command \cup {Noop},
             AppendStep(i, cmd), x = AppendedLink(i, cmd)
      PROVE  x.n > n /\ x.p >= t
  <2>1. /\ x.n = Len(log[i]) + 1 /\ x.p = LastTerm(log[i])
        /\ x.e.term = currentTerm[i]
    BY <1>3 DEF AppendedLink, Link
  <2>2. Holds(log[i], n, t)
    BY <1>3, <2>1, LeaderCarries
  <2>3. LastTerm(log[i]) \in Nat /\ LastTerm(log[i]) >= t
    BY <2>2, LastTermReaches
  <2>4. n <= Len(log[i])
    BY <2>2, HoldsLink, ZenonT(60) DEF LogInv
  <2>5. Len(log[i]) \in Nat
    BY DEF LogInv, TypeInv, TypeOK
  <2> QED
    BY <1>1, <2>1, <2>3, <2>4, <2>5
<1> QED
  BY <1>2, <1>3, LinkKinds DEF LogInv

\* The log of a node that takes a request of a term after t has the entry.
LEMMA AcceptedCarries ==
    ASSUME LogInv, TypeInv', [Next]_vars, NEW y \in Links,
           Carried(y.n, y.e.term), NEW m \in appReqs, AppendEntries(m),
           m.term > y.e.term
    PROVE  Holds(log'[m.to], y.n, y.e.term)
<1>1. /\ m.term \in Nat /\ ReqEnd(m) \in Nat /\ log'[m.to] \in Seq(Entry)
      /\ LogLinks(log'[m.to]) \subseteq Links
      /\ Holds(log'[m.to], ReqEnd(m), m.term)
  BY AcceptedLog
<1> QED
  BY <1>1, CarriedLog

\* Every way a log changes, a secured entry that it holds is still there, when
\* its node is then in a later term.
LEMMA HoldsLater ==
    ASSUME LogInv, LogInv', [Next]_vars, NEW y \in Links,
           Carried(y.n, y.e.term), NEW q \in Server,
           currentTerm'[q] > y.e.term, Holds(log[q], y.n, y.e.term)
    PROVE  Holds(log'[q], y.n, y.e.term)
<1>1. TypeInv' /\ log[q] \in Seq(Entry)
  BY DEF LogInv, TypeInv, TypeOK
<1>2. ASSUME NEW cmd \in Command \cup {Noop}, AppendStep(q, cmd)
      PROVE  Holds(log'[q], y.n, y.e.term)
  <2>1. state'[q] = Leader
    BY <1>2 DEF AppendStep
  <2> QED
    BY <1>1, <2>1, LeaderLogKept DEF LogInv
<1>3. ASSUME NEW m \in appReqs, AppendEntries(m), m.to = q
      PROVE  Holds(log'[q], y.n, y.e.term)
  <2>1. m.term > y.e.term
    BY <1>1, <1>3, AcceptedLog
  <2> QED
    BY <1>1, <1>3, <2>1, AcceptedCarries
<1> QED
  BY <1>2, <1>3, LogKinds

\* A candidate that gets a vote from a holder of a secured entry holds it too:
\* its last entry is of a later term, or of the same term and no earlier.
LEMMA GrantedCarries ==
    ASSUME LogInv, VoteLogInv, NEW y \in Links, Carried(y.n, y.e.term),
           NEW m \in voteReqs, UpToDate(m, log[m.to]),
           Holds(log[m.to], y.n, y.e.term),
           state[m.from] = Candidate, currentTerm[m.from] = m.term,
           m.term > y.e.term
    PROVE  Holds(log[m.from], y.n, y.e.term)
<1> DEFINE n == y.n
           t == y.e.term
           q == m.to
           c == m.from
           l == log[c]
<1>1. q \in Server /\ c \in Server /\ m.term \in Nat
  BY DEF LogInv, TypeInv, TypeOK, VoteReq
<1>2. n \in Nat \ {0} /\ t \in Nat
  BY LinkTypes DEF LogInv
<1>3. /\ l \in Seq(Entry) /\ Len(l) \in Nat /\ LogLinks(l) \subseteq Links
      /\ log[q] \in Seq(Entry) /\ Len(log[q]) \in Nat
  BY <1>1, LogFacts
<1>4. LastTerm(l) \in Nat
  BY <1>1, LastTermBound DEF LogInv, ChainInv
<1>5. /\ LastTerm(log[q]) \in Nat /\ LastTerm(log[q]) >= t
      /\ n <= Len(log[q])
  <2>1. Holds(log[q], n, t)
    OBVIOUS
  <2> HIDE DEF n, t, q
  <2> QED
    BY <1>1, <2>1, LastTermReaches, HoldsLink DEF LogInv
<1>6. ASSUME LastTerm(l) # 0
      PROVE  Holds(l, Len(l), LastTerm(l))
  <2>1. l # <<>> /\ LastTerm(l) = l[Len(l)].term
    BY <1>6 DEF LastTerm
  <2>2. Len(l) \in 1..Len(l)
    BY <1>3, <2>1
  <2> QED
    BY <2>1, <2>2 DEF Holds, Has
<1>7. CASE LastTerm(l) > t
  <2>1. Holds(l, Len(l), LastTerm(l))
    BY <1>2, <1>4, <1>6, <1>7
  <2> QED
    BY <1>3, <1>4, <1>7, <2>1, CarriedLog
<1>8. CASE LastTerm(l) = t /\ Len(l) >= Len(log[q])
  <2>1. Holds(l, Len(l), t)
    <3>1. CASE t # 0
      BY <1>6, <1>8, <3>1
    <3>2. CASE t = 0
      <4>1. l # <<>>
        BY <1>2, <1>3, <1>5, <1>8
      <4>2. Len(l) \in 1..Len(l)
        BY <1>3, <4>1
      <4> QED
        BY <1>8, <4>1, <4>2 DEF LastTerm, Holds, Has
    <3> QED
      BY <3>1, <3>2
  <2>2. n <= Len(l)
    BY <1>2, <1>3, <1>5, <1>8
  <2>3. LinksRun(Links)
    BY DEF LogInv, ChainInv, LinksOK
  <2> QED
    BY <1>2, <1>3, <2>1, <2>2, <2>3, RunDescent
<1>9. LastTerm(l) > t \/ (LastTerm(l) = t /\ Len(l) >= Len(log[q]))
  <2>1. \/ LastTerm(l) = m.term
        \/ m.lastLogTerm = LastTerm(l) /\ m.lastLogIndex = Len(l)
    BY DEF VoteLogInv, VoteReqOK, LastIndex
  <2>2. CASE LastTerm(l) = m.term
    BY <1>1, <2>2
  <2>3. CASE m.lastLogTerm = LastTerm(l) /\ m.lastLogIndex = Len(l)
    <3>1. \/ LastTerm(l) > LastTerm(log[q])
          \/ LastTerm(l) = LastTerm(log[q]) /\ Len(l) >= Len(log[q])
      BY <2>3 DEF UpToDate, LastIndex
    <3> HIDE DEF l, q, t
    <3> QED
      BY <1>2, <1>4, <1>5, <3>1
  <2> QED
    BY <2>1, <2>2, <2>3
<1> QED
  BY <1>7, <1>8, <1>9

(***************************************************************************)
(* A secured entry stays secured, as long as the nodes of its majority     *)
(* that leave its term take it with them.                                  *)
(***************************************************************************)
LEMMA SecuredStep ==
    ASSUME LogInv, LogInv', VoteLogInv, [Next]_vars, NEW y \in Links,
           NEW Q \in SUBSET Server, Secured(y.n, y.e.term, Q),
           \A q \in Q : /\ currentTerm[q] <= y.e.term
                        /\ currentTerm'[q] > y.e.term
                        => Holds(log[q], y.n, y.e.term)
    PROVE  Secured(y.n, y.e.term, Q)'
<1> DEFINE n == y.n
           t == y.e.term
<1>1. TypeInv /\ TypeInv' /\ ElectionInv /\ n \in Nat \ {0} /\ t \in Nat
  BY LinkTypes DEF LogInv
<1>2. \A j \in Server : /\ currentTerm[j] \in Nat /\ currentTerm'[j] \in Nat
                        /\ currentTerm[j] <= currentTerm'[j]
  BY <1>1, TermsRise
<1>3. Carried(n, t) /\ Carried(n, t)'
  BY CarriedStep DEF Secured
<1>4. Majority(Q)'
  BY DEF Secured, Majority
<1> HIDE DEF n, t
<1>5. ASSUME NEW q \in Q, currentTerm'[q] > t
      PROVE  Holds(log[q], n, t) /\ Holds(log'[q], n, t)
  <2>1. q \in Server
    OBVIOUS
  <2>2. Holds(log[q], n, t)
    <3>1. CASE currentTerm[q] <= t
      BY <1>5, <3>1 DEF n, t
    <3>2. CASE currentTerm[q] > t
      BY <3>2 DEF Secured, Kept, n, t
    <3> QED
      BY <1>1, <1>2, <2>1, <3>1, <3>2
  <2>3. Holds(log'[q], n, t)
    BY <1>3, <1>5, <2>1, <2>2, HoldsLater DEF n, t
  <2> QED
    BY <2>2, <2>3
<1>6. ASSUME NEW q \in Q, currentTerm'[q] > t, NEW c \in Server,
             state'[c] = Candidate, NEW u, u = currentTerm'[c], u > t,
             Ballot(q, u, c)'
      PROVE  Holds(log'[c], n, t)
  <2>1. q \in Server /\ u \in Nat /\ currentTerm[q] \in Nat
    BY <1>2, <1>6
  <2>2. CASE StartElection(c)
    <3>1. u = currentTerm[c] + 1
      BY <1>1, <1>6, <2>2 DEF StartElection, TypeInv, TypeOK
    <3>2. ~Ballot(q, u, c)
      <4> SUFFICES ASSUME Ballot(q, u, c) PROVE FALSE
        OBVIOUS
      <4>1. u <= currentTerm[c]
        BY <2>1, BallotAsked DEF VoteLogInv
      <4> QED
        BY <1>2, <3>1, <4>1
    <3>3. ASSUME NEW m \in voteReqs, RequestVote(m), m.from = c, m.term = u
          PROVE  FALSE
      <4>1. m.term <= currentTerm[c]
        BY <3>3 DEF VoteLogInv, VoteReqOK
      <4> QED
        BY <1>2, <3>1, <3>3, <4>1
    <3>4. q = c
      BY <1>1, <1>6, <2>1, <3>2, <3>3, BallotKinds
    <3> QED
      BY <1>5, <1>6, <3>4
  <2>3. CASE ~StartElection(c)
    <3>1. state[c] = Candidate /\ currentTerm[c] = u
      BY <1>1, <1>6, <2>3, VoteKinds
    <3>2. Holds(log[c], n, t)
      <4>1. CASE Ballot(q, u, c)
        <5>1. u <= currentTerm[q]
          BY <1>1, <2>1, <4>1, BallotFacts
        <5>2. currentTerm[q] > t
          BY <1>1, <1>6, <2>1, <5>1
        <5>3. Kept(q, n, t)
          BY <5>2 DEF Secured, n, t
        <5> QED
          BY <1>6, <3>1, <4>1, <5>3 DEF Kept
      <4>2. CASE StartElection(q) /\ q = c
        BY <2>3, <4>2
      <4>3. ASSUME NEW m \in voteReqs, UpToDate(m, log[q]),
                   m.to = q, m.from = c, m.term = u
            PROVE  Holds(log[c], n, t)
        <5>1. Holds(log[q], n, t)
          BY <1>5, <1>6
        <5> QED
          BY <1>3, <1>6, <3>1, <4>3, <5>1, GrantedCarries DEF n, t
      <4> QED
        BY <1>1, <1>6, <2>1, <4>1, <4>2, <4>3, BallotKinds
    <3>3. currentTerm'[c] > t
      BY <1>6
    <3> QED
      BY <1>3, <3>2, <3>3, HoldsLater DEF n, t
  <2> QED
    BY <2>2, <2>3
<1>7. ASSUME NEW q \in Q, currentTerm'[q] > t
      PROVE  Kept(q, n, t)'
  <2>1. Holds(log'[q], n, t)
    BY <1>5, <1>7
  <2>2. ASSUME NEW c \in Server, state'[c] = Candidate, currentTerm'[c] > t,
               Ballot(q, currentTerm[c], c)'
        PROVE  Holds(log'[c], n, t)
    <3> DEFINE u == currentTerm'[c]
    <3>1. \E v : v = u /\ Ballot(q, v, c)'
      BY <2>2 DEF Ballot
    <3> QED
      BY <1>6, <1>7, <2>2, <3>1
  <2> QED
    BY <2>1, <2>2 DEF Kept, Holds, Has, n, t
<1> QED
  BY <1>3, <1>4, <1>7 DEF Secured, n, t

\* A node that acknowledged an entry of its term, or a later one, holds it.
LEMMA AckedHolds ==
    ASSUME LogInv, NEW y \in Links, NEW a \in Acks, a.term = y.e.term,
           a.upto >= y.n
    PROVE  /\ a.by \in Server /\ a.term <= currentTerm[a.by]
           /\ currentTerm[a.by] <= y.e.term => Holds(log[a.by], y.n, y.e.term)
<1>1. AckOK(a) /\ a.by \in Server /\ a.upto \in Nat /\ a.term \in Nat
  BY AckFacts DEF LogInv, AckInv
<1>2. y.n \in Nat \ {0} /\ LinksRun(Links)
  BY LinkTypes DEF LogInv, ChainInv, LinksOK
<1>3. /\ log[a.by] \in Seq(Entry) /\ LogLinks(log[a.by]) \subseteq Links
      /\ currentTerm[a.by] \in Nat
  BY <1>1, LogFacts
<1>4. a.term <= currentTerm[a.by]
  BY <1>1 DEF AckOK
<1>5. ASSUME currentTerm[a.by] <= y.e.term
      PROVE  Holds(log[a.by], y.n, y.e.term)
  <2>1. currentTerm[a.by] = a.term
    BY <1>1, <1>3, <1>4, <1>5
  <2>2. Holds(log[a.by], a.upto, y.e.term)
    BY <1>1, <2>1 DEF AckOK
  <2>3. y.n <= a.upto
    BY <1>1, <1>2
  <2> QED
    BY <1>1, <1>2, <1>3, <2>2, <2>3, RunDescent
<1> QED
  BY <1>1, <1>4, <1>5

\* Nobody has acknowledged the entry that a leader is about to append.
LEMMA AppendUnacked ==
    ASSUME LogInv, LogInv', [Next]_vars, NEW i \in Server,
           NEW cmd \in Command \cup {Noop}, AppendStep(i, cmd),
           NEW a \in Acks', a.term = currentTerm[i]
    PROVE  a.upto <= Len(log[i])
<1>1. RoleStep /\ TypeInv /\ TypeInv' /\ ElectionInv /\ ElectionInv'
  BY NextRoleStep DEF LogInv
<1>2. /\ log'[i] # log[i] /\ state'[i] = Leader /\ currentTerm' = currentTerm
  <2>1. log[i] \in Seq(Entry)
    BY LogFacts
  <2>2. /\ state'[i] = Leader /\ currentTerm' = currentTerm
        /\ log'[i] = Append(log[i], [index |-> LastIndex(log[i]) + 1,
                                     term |-> currentTerm[i],
                                     command |-> cmd])
    BY <1>1 DEF AppendStep, TypeInv, TypeOK
  <2>3. Len(log'[i]) = Len(log[i]) + 1 /\ Len(log[i]) \in Nat
    BY <2>1, <2>2
  <2>4. Len(log'[i]) # Len(log[i])
    BY <2>3
  <2> QED
    BY <2>2, <2>4
<1>3. a \in Acks
  <2> SUFFICES ASSUME NEW m \in appReqs, AppendEntries(m) PROVE FALSE
    BY <1>1, AcksStep
  <2>1. CASE m.to = i
    BY <1>1, <1>2, <2>1, AcceptedLog
  <2>2. CASE m.to # i
    BY <1>1, <1>2, <2>2 DEF AppendEntries, TypeInv, TypeOK
  <2> QED
    BY <2>1, <2>2
<1>4. /\ AckOK(a) /\ a.upto \in Nat /\ a.term \in Nat
      /\ \E c \in Server : Won(c, a.term)
  BY <1>1, <1>3, AckFacts DEF LogInv, AckInv
<1>5. state[i] = Leader
  <2>1. PICK c \in Server : Won(c, a.term)
    BY <1>4
  <2>2. Won(c, a.term)'
    BY <1>1, <1>4, <2>1, WonStable
  <2>3. c = i
    BY <1>1, <1>2, <2>2, LeadersWonNext DEF LeadersWon
  <2> QED
    BY <1>4, <2>1, <2>3 DEF Won
<1>6. Holds(log[i], a.upto, a.term)
  BY <1>4, <1>5 DEF AckOK
<1> QED
  BY <1>1, <1>6, HoldsLink

\* The types of the links, after a step.
LinksTyped == \A x \in Links : x.n \in Nat \ {0} /\ x.e.term \in Nat

\* They follow from the type invariant.
LEMMA LinksTypedNext == TypeInv' => LinksTyped'
<1>1. TypeInv => LinksTyped
  BY LinkTypes DEF LinksTyped
<1>2. (TypeInv => LinksTyped)'
  BY <1>1, PTL
<1> QED
  BY <1>2

\* What may become committed is secured: after every step, too.
LEMMA ChoosableStep ==
    ASSUME LogInv, LogInv', VoteLogInv, ChoosableSecured, [Next]_vars
    PROVE  ChoosableSecured'
<1>1. TypeInv /\ TypeInv' /\ ElectionInv
  BY DEF LogInv
<1>2. \A j \in Server : /\ currentTerm[j] \in Nat /\ currentTerm'[j] \in Nat
                        /\ currentTerm[j] <= currentTerm'[j]
  BY <1>1, TermsRise
<1> SUFFICES ASSUME NEW x \in Links', NEW Q \in SUBSET Server, Majority(Q),
                    \A q \in Q : MayAck(q, x.n, x.e.term)'
             PROVE  Secured(x.n, x.e.term, Q)'
  BY DEF ChoosableSecured, Majority
<1>3. ASSUME NEW q \in Q
      PROVE  \/ currentTerm'[q] <= x.e.term
             \/ \E a \in Acks' : a.by = q /\ a.term = x.e.term /\ a.upto >= x.n
  BY DEF MayAck
<1>4. CASE x \in Links
  <2>1. x.e.term \in Nat
    BY <1>1, <1>4, LinkTypes
  <2>2. ASSUME NEW q \in Q
        PROVE  \/ currentTerm'[q] <= x.e.term
               \/ \E a \in Acks : a.by = q /\ a.term = x.e.term /\ a.upto >= x.n
    <3>1. CASE currentTerm'[q] <= x.e.term
      BY <3>1
    <3>2. ASSUME NEW a \in Acks', a.by = q, a.term = x.e.term
          PROVE  a \in Acks \/ currentTerm'[q] <= x.e.term
      <4>1. ASSUME NEW m \in appReqs, AppendEntries(m), a = NewAck(m)
            PROVE  currentTerm'[q] <= x.e.term
        <5>1. currentTerm'[m.to] = m.term /\ m.to = q /\ m.term = x.e.term
          BY <1>1, <3>2, <4>1, AcceptedLog DEF NewAck
        <5> QED
          BY <2>1, <5>1
      <4> QED
        BY <1>1, <4>1, AcksStep
    <3> QED
      BY <1>3, <3>1, <3>2
  <2>3. \A q \in Q : MayAck(q, x.n, x.e.term)
    <3> SUFFICES ASSUME NEW q \in Q PROVE MayAck(q, x.n, x.e.term)
      OBVIOUS
    <3>1. currentTerm'[q] <= x.e.term => currentTerm[q] <= x.e.term
      BY <1>2, <2>1
    <3> QED
      BY <2>2, <3>1 DEF MayAck
  <2>4. Secured(x.n, x.e.term, Q)
    BY <1>4, <2>3 DEF ChoosableSecured
  <2>5. ASSUME NEW q \in Q, currentTerm[q] <= x.e.term,
               currentTerm'[q] > x.e.term
        PROVE  Holds(log[q], x.n, x.e.term)
    <3>1. ~(currentTerm'[q] <= x.e.term)
      BY <1>2, <2>1, <2>5
    <3>2. PICK a \in Acks : a.by = q /\ a.term = x.e.term /\ a.upto >= x.n
      BY <2>2, <3>1
    <3> QED
      BY <1>4, <2>5, <3>2, AckedHolds
  <2> QED
    BY <1>4, <2>4, <2>5, SecuredStep
<1>5. ASSUME NEW i \in Server, NEW cmd \in Command \cup {Noop},
             AppendStep(i, cmd), x = AppendedLink(i, cmd)
      PROVE  Secured(x.n, x.e.term, Q)'
  <2>1. x.n = Len(log[i]) + 1 /\ x.e.term = currentTerm[i]
    BY <1>5 DEF AppendedLink, Link
  <2>2. Len(log[i]) \in Nat /\ currentTerm[i] \in Nat
    BY LogFacts
  <2>3. ASSUME NEW q \in Q
        PROVE  currentTerm'[q] <= x.e.term
    <3> SUFFICES ASSUME NEW a \in Acks', a.term = x.e.term, a.upto >= x.n
                 PROVE  FALSE
      BY <1>3
    <3>1. a.upto <= Len(log[i])
      BY <1>5, <2>1, AppendUnacked
    <3>2. a.upto \in Nat
      <4>1. a \in Acks \/ \E m \in appReqs : AppendEntries(m) /\ a = NewAck(m)
        BY <1>1, AcksStep
      <4>2. ASSUME NEW m \in appReqs, AppendEntries(m), a = NewAck(m)
            PROVE  a.upto \in Nat
        BY <1>1, <4>2, AcceptedLog DEF NewAck
      <4> QED
        BY <4>1, <4>2, AckFacts DEF LogInv
    <3> QED
      BY <2>1, <2>2, <3>1, <3>2
  <2>4. Carried(x.n, x.e.term)'
    <3>1. \A z \in Links' : ~(z.e.term > x.e.term)
      <4>1. x.e.term \in Nat
        BY <2>1, <2>2
      <4>2. Majority(Q)'
        BY DEF Majority
      <4> SUFFICES ASSUME NEW z \in Links', z.e.term > x.e.term PROVE FALSE
        OBVIOUS
      <4>3. z.e.term \in Nat
        BY <1>1, LinksTypedNext DEF LinksTyped
      <4>4. PICK c \in Server : Won(c, z.e.term)'
        BY DEF LogInv, ChainInv, LinksWon
      <4>5. PICK R \in SUBSET Server :
               /\ Majority(R)
               /\ \A q \in R : \/ currentTerm'[q] > z.e.term
                               \/ currentTerm'[q] = z.e.term
        BY <4>4 DEF Won, Majority
      <4>6. PICK q \in Server : q \in Q /\ q \in R
        BY <4>5, MajoritiesMeet
      <4> QED
        BY <1>2, <2>3, <4>1, <4>3, <4>5, <4>6
    <3> QED
      BY <3>1 DEF Carried, CarriedIn
  <2>5. \A q \in Q : ~(currentTerm'[q] > x.e.term)
    BY <1>2, <2>1, <2>2, <2>3
  <2> QED
    BY <2>4, <2>5 DEF Secured, Majority
<1> QED
  BY <1>1, <1>4, <1>5, LinkKinds

-----------------------------------------------------------------------------
(* Protected entries, and what is committed *)

\* A majority is not empty.
LEMMA MajoritySome ==
    ASSUME NEW Q \in SUBSET Server, Majority(Q)
    PROVE  \E q \in Server : q \in Q
BY MajoritiesMeet

\* The holders of a protected entry keep it, and all that is before it.
LEMMA ProtectedStep ==
    ASSUME LogInv, LogInv', VoteLogInv, [Next]_vars, NEW y \in Links,
           NEW Q \in SUBSET Server, Protected(y.n, y.e.term, Q)
    PROVE  /\ Protected(y.n, y.e.term, Q)'
           /\ \A q \in Q : \A k \in 1..y.n : log'[q][k] = log[q][k]
<1> DEFINE n == y.n
           t == y.e.term
<1>1. TypeInv /\ TypeInv' /\ ElectionInv /\ n \in Nat \ {0} /\ t \in Nat
  BY LinkTypes DEF LogInv
<1>2. Carried(n, t) /\ Secured(n, t, Q) /\ \A q \in Q : Holds(log[q], n, t)
  BY DEF Protected, Secured
<1>3. Secured(n, t, Q)'
  BY <1>2, SecuredStep
<1> HIDE DEF n, t
<1>4. ASSUME NEW q \in Q
      PROVE  Holds(log'[q], n, t) /\ \A k \in 1..n : log'[q][k] = log[q][k]
  <2>1. /\ q \in Server /\ log[q] \in Seq(Entry)
        /\ LogLinks(log[q]) \subseteq Links /\ Holds(log[q], n, t)
        /\ currentTerm[q] \in Nat /\ n <= Len(log[q])
    BY <1>1, <1>2, LogFacts, HoldsLink
  <2>2. CASE log'[q] = log[q]
    BY <2>1, <2>2
  <2>3. ASSUME NEW cmd \in Command \cup {Noop}, AppendStep(q, cmd)
        PROVE  Holds(log'[q], n, t) /\ \A k \in 1..n : log'[q][k] = log[q][k]
    <3>1. state'[q] = Leader
      BY <2>3 DEF AppendStep
    <3>2. /\ \A k \in 1..Len(log[q]) : log'[q][k] = log[q][k]
          /\ Holds(log'[q], n, t)
      BY <1>1, <2>1, <3>1, LeaderLogKept DEF LogInv
    <3>3. \A k \in 1..n : k \in 1..Len(log[q])
      BY <1>1, <2>1
    <3> QED
      BY <3>2, <3>3
  <2>4. ASSUME NEW m \in appReqs, AppendEntries(m), m.to = q
        PROVE  Holds(log'[q], n, t) /\ \A k \in 1..n : log'[q][k] = log[q][k]
    <3>1. /\ m.term \in Nat /\ currentTerm[q] <= m.term
          /\ log'[q] = Merge(log[q], m.prevLogIndex, m.entries)
          /\ log'[q] \in Seq(Entry) /\ LogLinks(log'[q]) \subseteq Links
      BY <1>1, <2>4, AcceptedLog
    <3>2. t <= m.term
      <4>1. PICK x \in LogLinks(log[q]) : x.e = log[q][n]
        BY <2>1, LogLinkAt DEF Holds, Has
      <4>2. t <= currentTerm[q]
        BY <2>1, <4>1 DEF LogInv, ChainInv, LogTerms, Holds
      <4> QED
        BY <1>1, <2>1, <3>1, <4>2
    <3>3. Holds(log'[q], n, t)
      <4>1. CASE m.term > t
        BY <1>1, <1>2, <2>4, <4>1, AcceptedCarries DEF n, t
      <4>2. CASE m.term = t
        <5>1. /\ m \in AppReq /\ ReqLinks(m) \subseteq Links
              /\ LinksUnique(Links) /\ LinksRun(Links) /\ ReqOK(m)
              /\ PrevMatches(log[q], m) /\ Holds(log[q], n, m.term)
          BY <1>1, <2>1, <2>4, <4>2 DEF LogInv, ChainInv, LinksOK, ReqsOK,
             TypeInv, TypeOK, Links, AppendEntries
        <5>2. Holds(Merge(log[q], m.prevLogIndex, m.entries), n, m.term)
          BY <1>1, <2>1, <5>1, MergeKeeps DEF ReqOK
        <5> QED
          BY <3>1, <4>2, <5>2
      <4> QED
        BY <1>1, <3>1, <3>2, <4>1, <4>2
    <3>4. LinksUnique(Links)
      BY DEF LogInv, ChainInv, LinksOK
    <3> DEFINE l == log'[q]
               r == log[q]
    <3>5. l \in Seq(Entry) /\ LogLinks(l) \subseteq Links /\ Holds(l, n, t)
      BY <3>1, <3>3
    <3>6. r \in Seq(Entry) /\ LogLinks(r) \subseteq Links /\ Holds(r, n, t)
      BY <2>1
    <3> HIDE DEF l, r
    <3>7. \A k \in 1..n : l[k] = r[k]
      BY <1>1, <3>4, <3>5, <3>6, ChainsMatch
    <3> QED
      BY <3>3, <3>7 DEF l, r
  <2> QED
    BY <2>1, <2>2, <2>3, <2>4, LogKinds
<1>5. \A q \in Q : Holds(log[q], n, t)'
  BY <1>4 DEF Holds, Has, n, t
<1> QED
  BY <1>3, <1>4, <1>5 DEF Protected, n, t

\* What is fixed stays fixed, in every later term.
LEMMA FixedStep ==
    ASSUME LogInv, LogInv', VoteLogInv, [Next]_vars,
           NEW k \in Nat \ {0}, NEW s, NEW T \in Nat, NEW U \in Nat, T <= U,
           Fixed(k, s, T)
    PROVE  Fixed(k, s, U)' /\ \E z \in Links' : z.n = k /\ z.e.term = s
<1>1. PICK x \in Links, Q \in SUBSET Server :
        /\ Protected(x.n, x.e.term, Q)
        /\ k <= x.n /\ x.e.term <= T
        /\ \A q \in Q : Holds(log[q], k, s)
  BY DEF Fixed
<1>2. TypeInv /\ TypeInv' /\ x.n \in Nat \ {0} /\ x.e.term \in Nat
  BY LinkTypes DEF LogInv
<1>3. /\ Protected(x.n, x.e.term, Q)'
      /\ \A q \in Q : \A j \in 1..x.n : log'[q][j] = log[q][j]
  BY <1>1, ProtectedStep
<1>4. \A q \in Q : Holds(log'[q], x.n, x.e.term)
  BY <1>3 DEF Protected, Holds, Has
<1>5. ASSUME NEW q \in Q
      PROVE  Holds(log'[q], k, s)
  <2>1. q \in Server /\ log'[q] \in Seq(Entry)
    BY <1>2 DEF TypeInv, TypeOK
  <2>2. k \in 1..x.n /\ x.n \in 1..Len(log'[q]) /\ k \in 1..Len(log'[q])
    BY <1>1, <1>2, <1>4, <2>1 DEF Holds, Has
  <2>3. log'[q][k] = log[q][k] /\ Holds(log[q], k, s)
    BY <1>1, <1>3, <2>2
  <2> QED
    BY <2>2, <2>3 DEF Holds, Has
<1>6. PICK p \in Server : p \in Q
  BY <1>1, MajoritySome DEF Protected, Secured
<1>7. ASSUME NEW n, NEW t, Holds(log'[p], n, t)
      PROVE  \E z \in Links' : z.n = n /\ z.e.term = t
  <2>1. log'[p] \in Seq(Entry) /\ n \in 1..Len(log'[p]) /\ log'[p][n].term = t
    BY <1>2, <1>7 DEF TypeInv, TypeOK, Holds, Has
  <2>2. PICK z \in LogLinks(log'[p]) : z.n = n /\ z.e = log'[p][n]
    BY <2>1, LogLinkAt
  <2>3. z \in Links'
    BY <2>2 DEF Links, LogLinks, ChainLinks, Link
  <2> QED
    BY <2>1, <2>2, <2>3
<1>8. PICK z \in Links' : z.n = x.n /\ z.e.term = x.e.term
  BY <1>4, <1>6, <1>7
<1>9. z.e.term <= U
  BY <1>1, <1>2, <1>8
<1>10. Protected(z.n, z.e.term, Q)'
  BY <1>3, <1>8
<1>11. Fixed(k, s, U)'
  <2>1. \A q \in Q : Holds(log[q], k, s)'
    BY <1>5 DEF Holds, Has
  <2> QED
    BY <1>1, <1>8, <1>9, <1>10, <2>1 DEF Fixed
<1> QED
  BY <1>5, <1>6, <1>7, <1>11

(***************************************************************************)
(* A log made of known links that reaches k, and has an entry of term T or *)
(* later there or beyond, has what is fixed at k.                          *)
(***************************************************************************)
LEMMA FixedReach ==
    ASSUME LogInv, NEW k \in Nat \ {0}, NEW s, NEW T \in Nat, Fixed(k, s, T),
           NEW l \in Seq(Entry), LogLinks(l) \subseteq Links,
           NEW E \in Nat, NEW u \in Nat, Holds(l, E, u), u >= T, k <= E
    PROVE  Holds(l, k, s)
<1>1. PICK x \in Links, Q \in SUBSET Server :
        /\ Protected(x.n, x.e.term, Q)
        /\ k <= x.n /\ x.e.term <= T
        /\ \A q \in Q : Holds(log[q], k, s)
  BY DEF Fixed
<1> DEFINE n == x.n
           t == x.e.term
<1>2. /\ n \in Nat \ {0} /\ t \in Nat /\ LinksRun(Links) /\ LinksUnique(Links)
  BY LinkTypes DEF LogInv, ChainInv, LinksOK
<1>3. PICK q \in Server : q \in Q
  BY <1>1, MajoritySome DEF Protected, Secured
<1> DEFINE r == log[q]
<1>4. /\ r \in Seq(Entry) /\ LogLinks(r) \subseteq Links
      /\ Holds(r, n, t) /\ Holds(r, k, s)
  BY <1>1, <1>3, LogFacts DEF Protected
<1>5. Carried(n, t)
  BY <1>1 DEF Protected, Secured
<1>6. k \in 1..E /\ E \in 1..Len(l) /\ k \in 1..Len(l)
  BY DEF Holds, Has
<1>7. ASSUME NEW w \in Nat, NEW v, k <= w, Holds(l, w, v), Holds(r, w, v)
      PROVE  Holds(l, k, s)
  <2>1. \A j \in 1..w : l[j] = r[j]
    <3> HIDE DEF r
    <3> QED
      BY <1>2, <1>4, <1>7, ChainsMatch
  <2>2. l[k] = r[k]
    BY <1>7, <2>1
  <2> QED
    BY <1>4, <1>6, <2>2 DEF Holds, Has
<1>8. CASE u > t
  BY <1>1, <1>2, <1>4, <1>5, <1>7, <1>8, CarriedLog
<1>9. CASE u = t /\ n <= E
  BY <1>1, <1>2, <1>4, <1>7, <1>9, RunDescent
<1>10. CASE u = t /\ E < n
  <2>1. PICK z \in LogLinks(l) : z.n = E /\ z.e = l[E]
    BY <1>6, LogLinkAt
  <2>2. z \in Links /\ z.e.term = t /\ z.n \in Nat \ {0} /\ z.n <= n
    BY <1>2, <1>6, <1>10, <2>1 DEF Holds
  <2>3. Holds(r, n, z.e.term)
    BY <1>4, <2>2
  <2>4. Holds(r, z.n, z.e.term)
    <3> HIDE DEF r, n
    <3> QED
      BY <1>2, <1>4, <2>2, <2>3, RunDescent
  <2>5. Holds(r, E, u)
    BY <1>10, <2>1, <2>2, <2>4
  <2> QED
    BY <1>7, <2>5
<1> QED
  BY <1>1, <1>2, <1>8, <1>9, <1>10

\* What a node has committed is in its log and fixed.
LEMMA CommittedEntry ==
    ASSUME LogInv, CommitInv, NEW j \in Server, commitIndex[j] # 0
    PROVE  /\ commitIndex[j] \in Nat \ {0} /\ commitIndex[j] <= Len(log[j])
           /\ Holds(log[j], commitIndex[j], log[j][commitIndex[j]].term)
           /\ Fixed(commitIndex[j], log[j][commitIndex[j]].term, currentTerm[j])
<1>1. commitIndex[j] \in Nat /\ Len(log[j]) \in Nat
  BY LogFacts DEF LogInv, TypeInv, TypeOK
<1>2. commitIndex[j] <= Len(log[j])
  BY DEF CommitInv, CommitInLog
<1>3. commitIndex[j] \in 1..Len(log[j])
  BY <1>1, <1>2
<1>4. Fixed(commitIndex[j], log[j][commitIndex[j]].term, currentTerm[j])
  BY DEF CommitInv, CommitsFixed
<1> QED
  BY <1>1, <1>2, <1>3, <1>4 DEF Holds, Has

\* Accepting a request never touches what its receiver has committed: a
\* request that ends before the commit index brings nothing new.
LEMMA AcceptKeepsCommitted ==
    ASSUME LogInv, TypeInv', CommitInv, [Next]_vars,
           NEW m \in appReqs, AppendEntries(m), commitIndex[m.to] # 0
    PROVE  /\ commitIndex[m.to] <= Len(log'[m.to])
           /\ \A k \in 1..commitIndex[m.to] : log'[m.to][k] = log[m.to][k]
<1> DEFINE j == m.to
           c == commitIndex[j]
           l == log[j]
           r == log'[j]
           s == l[c].term
           E == ReqEnd(m)
<1>1. /\ j \in Server /\ m.term \in Nat /\ E \in Nat
      /\ l \in Seq(Entry) /\ r \in Seq(Entry)
      /\ r = Merge(l, m.prevLogIndex, m.entries)
      /\ LogLinks(r) \subseteq Links
      /\ Holds(r, E, m.term) /\ currentTerm[j] <= m.term
  BY AcceptedLog
<1>2. LogLinks(l) \subseteq Links /\ currentTerm[j] \in Nat
  BY <1>1, LogFacts
<1>3. /\ c \in Nat \ {0} /\ c <= Len(l) /\ Holds(l, c, s)
      /\ Fixed(c, s, currentTerm[j])
  BY <1>1, CommittedEntry
<1>4. LinksUnique(Links) /\ LinksRun(Links)
  BY DEF LogInv, ChainInv, LinksOK
<1>5. CASE c <= E
  <2> HIDE DEF c, l, r, s, E
  <2>1. m.term >= currentTerm[j]
    BY <1>1, <1>2
  <2>2. Holds(r, c, s)
    BY <1>1, <1>2, <1>3, <1>5, <2>1, FixedReach
  <2>3. \A k \in 1..c : r[k] = l[k]
    BY <1>1, <1>2, <1>3, <1>4, <2>2, ChainsMatch
  <2>4. c <= Len(r)
    BY <1>1, <1>3, <2>2 DEF Holds, Has
  <2> QED
    BY <2>3, <2>4 DEF c, l, r
<1>6. CASE E < c
  <2>1. PICK x \in Links, Q \in SUBSET Server :
          /\ Protected(x.n, x.e.term, Q)
          /\ c <= x.n /\ x.e.term <= currentTerm[j]
          /\ \A q \in Q : Holds(log[q], c, s)
    BY <1>3 DEF Fixed
  <2>2. x.n \in Nat \ {0} /\ x.e.term \in Nat
    BY LinkTypes DEF LogInv
  <2>3. PICK q \in Server : q \in Q
    BY <2>1, MajoritySome DEF Protected, Secured
  <2> DEFINE g == log[q]
  <2>4. /\ g \in Seq(Entry) /\ LogLinks(g) \subseteq Links
        /\ Holds(g, x.n, x.e.term) /\ Holds(g, c, s)
    BY <2>1, <2>3, LogFacts DEF Protected
  <2>5. Carried(x.n, x.e.term)
    BY <2>1 DEF Protected, Secured
  <2> HIDE DEF c, l, r, s, E, g
  <2>6. m.term = x.e.term
    <3>1. CASE m.term > x.e.term
      <4>1. x.n < E
        BY <1>1, <2>5, <3>1, CarriedLog
      <4> QED
        BY <1>1, <1>3, <1>6, <2>1, <2>2, <4>1
    <3> QED
      BY <1>1, <1>2, <2>1, <2>2, <3>1
  <2>7. E \in 1..Len(r) /\ r[E].term = m.term
    BY <1>1 DEF Holds, Has
  <2>8. PICK z \in LogLinks(r) : z.n = E /\ z.e = r[E]
    BY <1>1, <2>7, LogLinkAt
  <2>9. z \in Links /\ z.e.term = m.term /\ z.n \in Nat \ {0} /\ z.n <= x.n
    BY <1>1, <1>3, <1>6, <2>1, <2>2, <2>7, <2>8
  <2>10. Holds(g, x.n, z.e.term)
    BY <2>4, <2>6, <2>9
  <2>11. Holds(g, z.n, z.e.term)
    BY <1>4, <2>2, <2>4, <2>9, <2>10, RunDescent
  <2>12. \A k \in 1..c : g[k] = l[k]
    BY <1>1, <1>2, <1>3, <1>4, <2>4, ChainsMatch
  <2>13. Holds(l, E, m.term)
    <3>1. E \in 1..c /\ E \in 1..Len(l)
      BY <1>1, <1>3, <1>6, <2>7
    <3>2. g[E].term = m.term
      BY <2>8, <2>9, <2>11 DEF Holds
    <3> QED
      BY <2>12, <3>1, <3>2 DEF Holds, Has
  <2>14. /\ m \in AppReq /\ ReqLinks(m) \subseteq Links /\ ReqOK(m)
    BY DEF LogInv, ChainInv, ReqsOK, TypeInv, TypeOK, Links
  <2>15. PrevMatches(l, m)
    BY DEF AppendEntries, l, j
  <2>16. r = l
    BY <1>1, <1>2, <1>4, <2>13, <2>14, <2>15, MergeKeeps DEF ReqOK, E
  <2> QED
    BY <1>3, <2>16 DEF c, l, r
<1> QED
  BY <1>1, <1>3, <1>5, <1>6

\* No step removes or replaces a committed entry.
LEMMA CommittedKept ==
    ASSUME LogInv, LogInv', CommitInv, [Next]_vars, NEW j \in Server
    PROVE  /\ commitIndex[j] <= Len(log'[j])
           /\ \A k \in 1..commitIndex[j] : log'[j][k] = log[j][k]
<1>1. /\ commitIndex[j] \in Nat /\ Len(log[j]) \in Nat /\ TypeInv'
      /\ Len(log'[j]) \in Nat /\ commitIndex[j] <= Len(log[j])
  <2>1. /\ commitIndex[j] \in Nat /\ TypeInv'
        /\ log[j] \in Seq(Entry) /\ log'[j] \in Seq(Entry)
    BY DEF LogInv, TypeInv, TypeOK
  <2>2. commitIndex[j] <= Len(log[j])
    BY DEF CommitInv, CommitInLog
  <2> QED
    BY <2>1, <2>2
<1>2. CASE commitIndex[j] = 0
  BY <1>1, <1>2
<1>3. CASE log'[j] = log[j]
  BY <1>1, <1>3
<1>4. ASSUME NEW cmd \in Command \cup {Noop}, AppendStep(j, cmd)
      PROVE  /\ commitIndex[j] <= Len(log'[j])
             /\ \A k \in 1..commitIndex[j] : log'[j][k] = log[j][k]
  <2>1. state'[j] = Leader
    BY <1>4 DEF AppendStep
  <2>2. /\ Len(log'[j]) >= Len(log[j])
        /\ \A k \in 1..Len(log[j]) : log'[j][k] = log[j][k]
    BY <1>1, <2>1, LeaderLogKept DEF LogInv
  <2>3. \A k \in 1..commitIndex[j] : k \in 1..Len(log[j])
    BY <1>1
  <2> QED
    BY <1>1, <2>2, <2>3
<1>5. ASSUME NEW m \in appReqs, AppendEntries(m), m.to = j,
             commitIndex[j] # 0
      PROVE  /\ commitIndex[j] <= Len(log'[j])
             /\ \A k \in 1..commitIndex[j] : log'[j][k] = log[j][k]
  BY <1>1, <1>5, AcceptKeepsCommitted
<1> QED
  BY <1>2, <1>3, <1>4, <1>5, LogKinds

\* Only a request and a reply move a commit index.
LEMMA CommitKinds ==
    ASSUME TypeInv, [Next]_vars, NEW j \in Server
    PROVE  \/ commitIndex'[j] = commitIndex[j]
           \/ \E m \in appReqs : AppendEntries(m) /\ m.to = j
           \/ \E m \in appReps : AppendReplySuccess(m) /\ m.to = j
<1> DEFINE Goal == \/ commitIndex'[j] = commitIndex[j]
                   \/ \E m \in appReqs : AppendEntries(m) /\ m.to = j
                   \/ \E m \in appReps : AppendReplySuccess(m) /\ m.to = j
<1>0. commitIndex \in [Server -> Nat]
  BY DEF TypeInv, TypeOK
<1>1. ASSUME NEW i \in Server, StartElection(i)
      PROVE  Goal
  BY <1>1 DEF StartElection, logVars
<1>2. ASSUME NEW m \in voteReqs, HandleVoteReq(m)
      PROVE  Goal
  BY <1>2 DEF HandleVoteReq, RequestVote, RequestVoteStale, logVars
<1>3. ASSUME NEW m \in voteReps, HandleVoteRep(m)
      PROVE  Goal
  BY <1>3 DEF HandleVoteRep, VoteReplyNewerTerm, VoteReplyIgnored,
              VoteReplyCounted, BecomeLeader, logVars
<1>4. ASSUME NEW i \in Server, NEW cmd \in Command, Start(i, cmd)
      PROVE  Goal
  BY <1>4 DEF Start
<1>5. ASSUME NEW i \in Server, NEW p \in Server, NEW k \in Call,
             SendAppendEntries(i, p, k)
      PROVE  Goal
  BY <1>5 DEF SendAppendEntries, logVars
<1>6. ASSUME NEW m \in appReqs, HandleAppReq(m)
      PROVE  Goal
  <2>1. CASE AppendEntries(m)
    BY <1>0, <2>1 DEF AppendEntries
  <2> QED
    BY <1>6, <2>1 DEF HandleAppReq, AppendEntriesStale, AppendEntriesMismatch,
                      logVars
<1>7. ASSUME NEW m \in appReps, HandleAppRep(m)
      PROVE  Goal
  <2>1. CASE AppendReplySuccess(m)
    BY <1>0, <2>1 DEF AppendReplySuccess
  <2> QED
    BY <1>7, <2>1 DEF HandleAppRep, AppendReplyNewerTerm, AppendReplyIgnored,
                      AppendReplyReject, logVars
<1>8. ASSUME NEW i \in Server, ApplyLoop(i)
      PROVE  Goal
  BY <1>8 DEF ApplyLoop, logVars
<1>9. ASSUME UNCHANGED vars
      PROVE  Goal
  BY <1>9 DEF vars, logVars
<1> HIDE DEF Goal
<1>10. Goal
  BY <1>1, <1>2, <1>3, <1>4, <1>5, <1>6, <1>7, <1>8, <1>9 DEF Next
<1> QED
  BY <1>10 DEF Goal

\* A follower commits what the leader announced: min(leaderCommit, last index)
\* is leaderCommit, and the entry there is the fixed one.
LEMMA FollowerCommits ==
    ASSUME LogInv, TypeInv', CommitInv, [Next]_vars,
           NEW m \in appReqs, AppendEntries(m),
           commitIndex'[m.to] # commitIndex[m.to]
    PROVE  /\ commitIndex'[m.to] = m.leaderCommit
           /\ m.leaderCommit > commitIndex[m.to]
           /\ \E s : /\ Fixed(m.leaderCommit, s, m.term)
                     /\ Holds(log'[m.to], m.leaderCommit, s)
<1> DEFINE j == m.to
           c == m.leaderCommit
           r == log'[j]
           E == ReqEnd(m)
<1>1. /\ j \in Server /\ m.term \in Nat /\ E \in Nat /\ r \in Seq(Entry)
      /\ r = Merge(log[j], m.prevLogIndex, m.entries)
      /\ LogLinks(r) \subseteq Links /\ Holds(r, E, m.term)
  BY AcceptedLog
<1>2. c \in Nat /\ commitIndex[j] \in Nat /\ Len(r) \in Nat
  <2>1. m \in AppReq /\ commitIndex \in [Server -> Nat]
    BY DEF LogInv, TypeInv, TypeOK
  <2> QED
    BY <1>1, <2>1, ReqFields
<1>3. commitIndex'[j] = FollowerCommit(m, commitIndex[j], r)
  BY <1>1 DEF AppendEntries, LogInv, TypeInv, TypeOK
<1>4. c > commitIndex[j] /\ commitIndex'[j] = Min({c, Len(r)})
  BY <1>3 DEF FollowerCommit, LastIndex
<1>5. c <= E /\ E <= Len(r)
  BY <1>1, <1>2 DEF CommitInv, RequestCoversCommit, ReqEnd, Holds, Has
<1>6. commitIndex'[j] = c
  <2>1. Min({c, Len(r)}) \in {c, Len(r)} /\ Min({c, Len(r)}) <= c
    BY <1>2, MinMaxPair
  <2> HIDE DEF c, r
  <2> QED
    BY <1>1, <1>2, <1>4, <1>5, <2>1
<1>7. c # 0 /\ c \in Nat \ {0}
  BY <1>2, <1>4
<1>8. PICK x \in Links : x.n = c /\ Fixed(x.n, x.e.term, m.term)
  BY <1>7 DEF CommitInv, CommitsFixed
<1>9. Holds(r, c, x.e.term)
  <2>1. m.term >= m.term /\ Fixed(c, x.e.term, m.term)
    BY <1>1, <1>8
  <2> HIDE DEF c, r, E
  <2> QED
    BY <1>1, <1>5, <1>7, <2>1, FixedReach
<1> QED
  BY <1>4, <1>6, <1>8, <1>9

(***************************************************************************)
(* A leader commits an entry of its own term that a majority acknowledged: *)
(* it was secured, and each of that majority holds it, so it is fixed.     *)
(***************************************************************************)
LEMMA LeaderCommits ==
    ASSUME LogInv, CommitInv, [Next]_vars,
           NEW m \in appReps, AppendReplySuccess(m),
           commitIndex'[m.to] # commitIndex[m.to]
    PROVE  /\ commitIndex'[m.to] \in Nat
           /\ commitIndex'[m.to] > commitIndex[m.to]
           /\ Holds(log[m.to], commitIndex'[m.to], currentTerm[m.to])
           /\ Fixed(commitIndex'[m.to], currentTerm[m.to], currentTerm[m.to])
<1> DEFINE i == m.to
           t == currentTerm[i]
           match == IF m.newMatch > matchIndex[i][m.from]
                    THEN [matchIndex[i] EXCEPT ![m.from] = m.newMatch]
                    ELSE matchIndex[i]
           N == {n \in (commitIndex[i] + 1) .. LastIndex(log[i]) :
                     Committable(i, match, n)}
           n == commitIndex'[i]
           A == {p \in Server : p # i /\ match[p] >= n}
           Q == {i} \cup A
<1>1. /\ i \in Server /\ m.from \in Server /\ m.newMatch \in Nat
      /\ matchIndex[i] \in [Server -> Nat] /\ commitIndex[i] \in Nat
      /\ commitIndex \in [Server -> Nat]
  BY DEF LogInv, TypeInv, TypeOK, AppRep
<1>2. log[i] \in Seq(Entry) /\ Len(log[i]) \in Nat /\ t \in Nat
  BY <1>1, LogFacts
<1>3. /\ state[i] = Leader /\ m.sentTerm = t /\ m.success
      /\ commitIndex'[i] = AdvanceCommitIndex(i, match)
  BY <1>1 DEF AppendReplySuccess, ReplyCurrent
<1>4. N # {} /\ n = Max(N)
  BY <1>3 DEF AdvanceCommitIndex
<1>5. n \in N
  <2>1. N \subseteq 0 .. Len(log[i])
    BY <1>1, <1>2 DEF LastIndex
  <2> HIDE DEF N, n
  <2> QED
    BY <1>2, <1>4, <2>1, MaxOfBounded
<1>6. /\ n \in (commitIndex[i] + 1) .. Len(log[i])
      /\ log[i][n].term = t /\ Majority(Q)
  <2>1. n \in (commitIndex[i] + 1) .. Len(log[i]) /\ Committable(i, match, n)
    BY <1>5 DEF LastIndex
  <2> QED
    BY <2>1 DEF Committable
<1>7. ASSUME NEW p \in Server, match[p] # 0
      PROVE  \E a \in Acks : a.by = p /\ a.term = t /\ a.upto = match[p]
  <2>1. \/ match[p] = matchIndex[i][p]
        \/ p = m.from /\ match[p] = m.newMatch
    BY <1>1
  <2>2. CASE match[p] = matchIndex[i][p]
    <3> DEFINE a == [by |-> p, upto |-> matchIndex[i][p],
                     term |-> currentTerm[i]]
    <3>1. AckCounted(a)
      BY <1>1, <1>3, <1>7, <2>2 DEF AckCounted
    <3>2. a \in Acks
      BY <3>1, AckPlaces DEF AcksPlaced
    <3> QED
      BY <2>2, <3>2
  <2>3. CASE p = m.from /\ match[p] = m.newMatch
    <3> DEFINE a == [by |-> m.from, upto |-> m.newMatch, term |-> m.sentTerm]
    <3>1. AckOnItsWay(a)
      BY <1>3 DEF AckOnItsWay
    <3>2. a \in Acks
      BY <3>1, AckPlaces DEF AcksPlaced
    <3> QED
      BY <1>3, <2>3, <3>2
  <2> QED
    BY <2>1, <2>2, <2>3
<1>8. \A p \in Server : match[p] \in Nat
  BY <1>1
<1> HIDE DEF match, N, n
<1>9. n \in Nat \ {0} /\ n > commitIndex[i] /\ n \in 1..Len(log[i])
  BY <1>1, <1>2, <1>6
<1>10. Holds(log[i], n, t)
  BY <1>6, <1>9 DEF Holds, Has
<1>11. PICK y \in Links : y.n = n /\ y.e.term = t
  <2>1. TypeInv /\ i \in Server /\ Holds(log[i], n, t)
    BY <1>1, <1>10 DEF LogInv
  <2> HIDE DEF i, t
  <2> QED
    BY <2>1, HoldsSomeLink
<1>12. ASSUME NEW p \in A
       PROVE  /\ p \in Server
              /\ \E a \in Acks : a.by = p /\ a.term = t /\ a.upto >= n
  <2>1. p \in Server /\ match[p] >= n /\ match[p] # 0
    BY <1>8, <1>9
  <2> QED
    BY <1>7, <2>1
<1>13. \A q \in Q : q \in Server /\ MayAck(q, n, t)
  <2>1. MayAck(i, n, t)
    BY <1>2 DEF MayAck
  <2>2. \A p \in A : p \in Server /\ MayAck(p, n, t)
    BY <1>12 DEF MayAck
  <2> QED
    BY <1>1, <2>1, <2>2
<1>14. Q \in SUBSET Server
  <2>1. Q \subseteq Server
    BY <1>1
  <2> HIDE DEF Q
  <2> QED
    BY <2>1
<1>15. Secured(y.n, y.e.term, Q)
  <2> HIDE DEF Q, t
  <2> QED
    BY <1>6, <1>11, <1>13, <1>14 DEF CommitInv, ChoosableSecured
<1>16. ASSUME NEW q \in Q
       PROVE  Holds(log[q], y.n, y.e.term)
  <2>1. CASE q = i
    BY <1>10, <1>11, <2>1
  <2>2. CASE q \in A
    <3>1. PICK a \in Acks : a.by = q /\ a.term = t /\ a.upto >= n
      BY <1>12, <2>2
    <3>2. CASE currentTerm[q] <= t
      BY <1>11, <3>1, <3>2, AckedHolds
    <3>3. CASE currentTerm[q] > t
      BY <1>11, <1>15, <3>3 DEF Secured, Kept
    <3>4. currentTerm[q] \in Nat
      BY <1>12, <2>2, LogFacts
    <3> QED
      BY <1>2, <3>2, <3>3, <3>4
  <2> QED
    BY <2>1, <2>2
<1>17. Fixed(n, t, t)
  <2>1. Protected(y.n, y.e.term, Q)
    BY <1>15, <1>16 DEF Protected
  <2>2. n <= y.n /\ y.e.term <= t
    BY <1>2, <1>9, <1>11
  <2>3. \A q \in Q : Holds(log[q], n, t)
    BY <1>11, <1>16
  <2> HIDE DEF Q, t
  <2> QED
    BY <1>14, <2>1, <2>2, <2>3 DEF Fixed
<1> QED
  BY <1>9, <1>10, <1>17 DEF n

\* A commit index only rises, stays in the log, and points at a fixed entry.
LEMMA CommitMoves ==
    ASSUME LogInv, LogInv', CommitInv, [Next]_vars, NEW j \in Server
    PROVE  /\ commitIndex[j] \in Nat /\ commitIndex'[j] \in Nat
           /\ commitIndex'[j] >= commitIndex[j]
           /\ commitIndex'[j] <= Len(log'[j])
           /\ commitIndex'[j] # 0
                => Fixed(commitIndex[j], log[j][commitIndex[j]].term,
                         currentTerm[j])'
<1> DEFINE c == commitIndex[j]
           d == commitIndex'[j]
<1>1. /\ c \in Nat /\ d \in Nat /\ log'[j] \in Seq(Entry)
      /\ TypeInv /\ TypeInv' /\ ElectionInv /\ VoteLogInv
  BY DEF LogInv, TypeInv, TypeOK, CommitInv
<1>2. /\ currentTerm[j] \in Nat /\ currentTerm'[j] \in Nat
      /\ currentTerm[j] <= currentTerm'[j]
  BY <1>1, TermsRise
<1>3. ASSUME NEW n \in Nat \ {0}, NEW s, NEW T \in Nat, Fixed(n, s, T),
             T <= currentTerm'[j], Holds(log'[j], n, s), d = n
      PROVE  Fixed(commitIndex[j], log[j][commitIndex[j]].term, currentTerm[j])'
  <2> DEFINE U == currentTerm'[j]
  <2>1. U \in Nat /\ T <= U
    BY <1>2, <1>3
  <2>2. ASSUME NEW V \in Nat, V = U
        PROVE  Fixed(n, s, V)'
    BY <1>1, <1>3, <2>2, FixedStep
  <2>3. PICK V \in Nat : V = U
    BY <2>1
  <2>4. Fixed(n, s, V)' /\ V = currentTerm'[j] /\ s = log'[j][n].term
    BY <1>3, <2>2, <2>3 DEF Holds
  <2> QED
    BY <1>3, <2>4 DEF Fixed
<1>4. CASE d = c
  <2>1. c <= Len(log'[j]) /\ \A k \in 1..c : log'[j][k] = log[j][k]
    BY CommittedKept
  <2>2. ASSUME d # 0
        PROVE  Fixed(commitIndex[j], log[j][commitIndex[j]].term, currentTerm[j])'
    <3> DEFINE s == log[j][c].term
    <3>1. c \in Nat \ {0} /\ Fixed(c, s, currentTerm[j])
      BY <1>4, <2>2, CommittedEntry
    <3>2. Holds(log'[j], c, s)
      <4>1. c \in 1..Len(log'[j]) /\ c \in 1..c
        BY <1>1, <2>1, <3>1
      <4> QED
        BY <2>1, <4>1 DEF Holds, Has
    <3> HIDE DEF c, s, d
    <3> QED
      BY <1>2, <1>3, <1>4, <3>1, <3>2
  <2>3. d >= c /\ d <= Len(log'[j])
    BY <1>1, <1>4, <2>1
  <2> QED
    BY <1>1, <2>2, <2>3
<1>5. ASSUME NEW m \in appReqs, AppendEntries(m), m.to = j, d # c
      PROVE  /\ d >= c /\ d <= Len(log'[j])
             /\ Fixed(commitIndex[j], log[j][commitIndex[j]].term,
                      currentTerm[j])'
  <2>1. d = m.leaderCommit /\ m.leaderCommit > c
    BY <1>1, <1>5, FollowerCommits
  <2>2. PICK s : Fixed(m.leaderCommit, s, m.term)
                 /\ Holds(log'[j], m.leaderCommit, s)
    BY <1>1, <1>5, FollowerCommits
  <2>3. currentTerm'[j] = m.term /\ m.term \in Nat
    BY <1>1, <1>5, AcceptedLog
  <2>4. d \in Nat \ {0} /\ d >= c
    BY <1>1, <2>1
  <2>5. d <= Len(log'[j])
    BY <1>1, <2>1, <2>2 DEF Holds, Has
  <2>6. Fixed(d, s, m.term) /\ Holds(log'[j], d, s) /\ m.term <= currentTerm'[j]
    BY <2>1, <2>2, <2>3
  <2> HIDE DEF d
  <2> QED
    BY <1>3, <2>3, <2>4, <2>5, <2>6
<1>6. ASSUME NEW m \in appReps, AppendReplySuccess(m), m.to = j, d # c
      PROVE  /\ d >= c /\ d <= Len(log'[j])
             /\ Fixed(commitIndex[j], log[j][commitIndex[j]].term,
                      currentTerm[j])'
  <2>1. /\ d > c /\ Holds(log[j], d, currentTerm[j])
        /\ Fixed(d, currentTerm[j], currentTerm[j])
    BY <1>6, LeaderCommits
  <2>2. log'[j] = log[j]
    BY <1>6 DEF AppendReplySuccess
  <2>3. d \in Nat \ {0} /\ d >= c
    BY <1>1, <2>1
  <2>4. d <= Len(log'[j]) /\ Holds(log'[j], d, currentTerm[j])
    BY <1>1, <2>1, <2>2 DEF Holds, Has
  <2> DEFINE s == currentTerm[j]
  <2>5. s \in Nat /\ Fixed(d, s, s) /\ Holds(log'[j], d, s) /\ s <= currentTerm'[j]
    BY <1>2, <2>1, <2>4
  <2> HIDE DEF d, s
  <2> QED
    BY <1>3, <2>3, <2>4, <2>5
<1> QED
  BY <1>1, <1>4, <1>5, <1>6, CommitKinds

\* What a request commits is fixed, and the request reaches it.
LEMMA RequestCommits ==
    ASSUME LogInv, LogInv', CommitInv, [Next]_vars, NEW r \in appReqs'
    PROVE  /\ r.leaderCommit <= ReqEnd(r)
           /\ r.leaderCommit # 0 =>
                \E x \in Links' : x.n = r.leaderCommit
                                  /\ Fixed(x.n, x.e.term, r.term)'
<1>1. /\ TypeInv /\ TypeInv' /\ VoteLogInv /\ r \in AppReq
      /\ r.term \in Nat /\ r.leaderCommit \in Nat
  BY ReqFields DEF LogInv, TypeInv, TypeOK, CommitInv
<1>2. ASSUME NEW n \in Nat \ {0}, NEW s, Fixed(n, s, r.term), n = r.leaderCommit
      PROVE  \E x \in Links' : x.n = r.leaderCommit
                               /\ Fixed(x.n, x.e.term, r.term)'
  <2> DEFINE T == r.term
  <2>1. T \in Nat /\ T <= T /\ Fixed(n, s, T)
    BY <1>1, <1>2
  <2> HIDE DEF T
  <2>2. Fixed(n, s, T)' /\ \E z \in Links' : z.n = n /\ z.e.term = s
    BY <1>1, <2>1, FixedStep
  <2> QED
    BY <1>2, <2>2 DEF T
<1>3. CASE r \in appReqs
  <2>1. r.leaderCommit <= ReqEnd(r)
    BY <1>3 DEF CommitInv, RequestCoversCommit, ReqEnd
  <2>2. ASSUME r.leaderCommit # 0
        PROVE  \E x \in Links' : x.n = r.leaderCommit
                                 /\ Fixed(x.n, x.e.term, r.term)'
    <3>1. PICK x \in Links : x.n = r.leaderCommit /\ Fixed(x.n, x.e.term, r.term)
      BY <1>3, <2>2 DEF CommitInv, CommitsFixed
    <3>2. r.leaderCommit \in Nat \ {0}
      BY <1>1, <2>2
    <3> QED
      BY <1>2, <3>1, <3>2
  <2> QED
    BY <2>1, <2>2
<1>4. CASE r \notin appReqs
  <2>1. PICK i \in Server, p \in Server, k \in Call :
               SendAppendEntries(i, p, k) /\ p # i
    BY <1>1, <1>4, StepKinds DEF LogInv, QuietLog, AppendStep, AppendEntries,
                                 ReplyAppend
  <2>2. r = AppendEntriesArgs(i, p, k) /\ state[i] = Leader
    BY <1>4, <2>1 DEF SendAppendEntries
  <2>3. /\ r.term = currentTerm[i] /\ r.leaderCommit = commitIndex[i]
        /\ ReqEnd(r) = Len(log[i])
    BY <1>1, <2>1, <2>2, SentRequest DEF LogInv, AckInv, ChainInv
  <2>4. r.leaderCommit <= ReqEnd(r)
    BY <2>3 DEF CommitInv, CommitInLog
  <2>5. ASSUME r.leaderCommit # 0
        PROVE  \E x \in Links' : x.n = r.leaderCommit
                                 /\ Fixed(x.n, x.e.term, r.term)'
    <3> DEFINE s == log[i][commitIndex[i]].term
    <3>1. /\ commitIndex[i] \in Nat \ {0}
          /\ Fixed(commitIndex[i], s, currentTerm[i])
      BY <2>3, <2>5, CommittedEntry
    <3> HIDE DEF s
    <3> QED
      BY <1>2, <2>3, <3>1
  <2> QED
    BY <2>4, <2>5
<1> QED
  BY <1>3, <1>4

\* Every step keeps the commit invariant.
LEMMA CommitStep ==
    ASSUME LogInv, LogInv', CommitInv, [Next]_vars
    PROVE  CommitInv'
<1>1. VoteLogInv' /\ ChoosableSecured'
  BY VoteLogStep, ChoosableStep DEF CommitInv, LogInv
<1>2. ASSUME NEW j \in Server
      PROVE  /\ commitIndex'[j] <= Len(log'[j])
             /\ commitIndex'[j] # 0
                  => Fixed(commitIndex[j], log[j][commitIndex[j]].term,
                           currentTerm[j])'
  BY CommitMoves
<1>3. CommitInLog'
  BY <1>2 DEF CommitInLog
<1>4. CommitsFixed'
  BY <1>2, RequestCommits DEF CommitsFixed
<1>5. RequestCoversCommit'
  BY RequestCommits DEF RequestCoversCommit, ReqEnd
<1> QED
  BY <1>1, <1>3, <1>4, <1>5 DEF CommitInv

-----------------------------------------------------------------------------
(* applyLoop *)

\* Nothing is voted for, committed or asked for in the initial state.
LEMMA InitCommit == Init => CommitInv /\ AppliedFromLog
<1> SUFFICES ASSUME Init PROVE CommitInv /\ AppliedFromLog
  OBVIOUS
<1>1. \A i \in Server : /\ state[i] = Follower /\ votedFor[i] \notin Server
                        /\ log[i] = <<>> /\ applied[i] = <<>>
                        /\ commitIndex[i] = 0 /\ lastApplied[i] = 0
  BY ServerAssumption DEF Init
<1>2. voteReqs = {} /\ voteReps = {} /\ appReqs = {}
  BY DEF Init
<1>3. \A j, c \in Server : \A t : ~Ballot(j, t, c)
  BY <1>1, <1>2 DEF Ballot, Follower, Candidate, Leader
<1>4. Links = {}
  <2>1. \A i \in Server : LogLinks(log[i]) = {}
    BY <1>1 DEF LogLinks, ChainLinks
  <2> QED
    BY <1>2, <2>1 DEF Links
<1>5. VoteLogInv /\ ChoosableSecured
  BY <1>2, <1>3, <1>4 DEF VoteLogInv, BallotsAsked, ChoosableSecured
<1>6. CommitsFixed /\ CommitInLog /\ RequestCoversCommit
  BY <1>1, <1>2 DEF CommitsFixed, CommitInLog, RequestCoversCommit
<1>7. AppliedFromLog
  <2>1. SubSeq(<<>>, 1, 0) = <<>> /\ 0 <= Len(<<>>)
    OBVIOUS
  <2> QED
    BY <1>1, <2>1 DEF AppliedFromLog, LastIndex
<1> QED
  BY <1>5, <1>6, <1>7 DEF CommitInv

\* Only a turn of applyLoop changes what was applied.
LEMMA ApplySteps ==
    ASSUME [Next]_vars
    PROVE  UNCHANGED applyVars \/ \E i \in Server : ApplyLoop(i)
BY DEF Next, vars, StartElection, HandleVoteReq, RequestVote,
       RequestVoteStale, HandleVoteRep, VoteReplyNewerTerm, VoteReplyIgnored,
       VoteReplyCounted, BecomeLeader, Start, SendAppendEntries,
       HandleAppReq, AppendEntriesStale, AppendEntriesMismatch,
       AppendEntries, HandleAppRep, AppendReplyNewerTerm,
       AppendReplyIgnored, AppendReplySuccess, AppendReplyReject

\* Only a turn of its applyLoop changes what a node has applied.
LEMMA ApplyKinds ==
    ASSUME TypeInv, [Next]_vars, NEW j \in Server
    PROVE  \/ lastApplied'[j] = lastApplied[j] /\ applied'[j] = applied[j]
           \/ ApplyLoop(j)
<1>1. lastApplied \in [Server -> Nat] /\ applied \in [Server -> Seq(Entry)]
  BY DEF TypeInv, TypeOK
<1>2. ASSUME NEW i \in Server, ApplyLoop(i)
      PROVE  \/ lastApplied'[j] = lastApplied[j] /\ applied'[j] = applied[j]
             \/ ApplyLoop(j)
  <2>1. CASE i # j
    BY <1>1, <1>2, <2>1 DEF ApplyLoop
  <2> QED
    BY <1>2, <2>1
<1>3. CASE UNCHANGED applyVars
  BY <1>3 DEF applyVars
<1> QED
  BY <1>2, <1>3, ApplySteps

\* A prefix that grows by the next entry.
LEMMA PrefixGrows ==
    ASSUME NEW l \in Seq(Entry), NEW n \in Nat, n < Len(l)
    PROVE  Append(SubSeq(l, 1, n), l[n + 1]) = SubSeq(l, 1, n + 1)
<1>1. Len(l) \in Nat /\ n \in Int /\ 1 \in Int /\ n + 1 \in Nat
      /\ n + 1 \in 1..Len(l) /\ l[n + 1] \in Entry
  OBVIOUS
<1>2. \A k \in 1..n + 1 : l[k] \in Entry
  BY <1>1
<1> DEFINE a == SubSeq(l, 1, n)
           b == SubSeq(l, 1, n + 1)
           c == Append(a, l[n + 1])
<1>3. a \in Seq(Entry) /\ Len(a) = n /\ \A k \in 1..n : a[k] = l[k]
  <2>1. /\ a \in Seq(Entry)
        /\ Len(a) = IF 1 <= n THEN n - 1 + 1 ELSE 0
        /\ \A k \in 1 .. n - 1 + 1 : a[k] = l[1 + k - 1]
    BY <1>1, <1>2, SubSeqProperties
  <2> HIDE DEF a
  <2> QED
    BY <1>1, <2>1
<1>4. b \in Seq(Entry) /\ Len(b) = n + 1 /\ \A k \in 1..n + 1 : b[k] = l[k]
  <2> DEFINE d == n + 1
  <2>1. /\ b \in Seq(Entry)
        /\ Len(b) = IF 1 <= d THEN d - 1 + 1 ELSE 0
        /\ \A k \in 1 .. d - 1 + 1 : b[k] = l[1 + k - 1]
    BY <1>1, <1>2, SubSeqProperties
  <2> HIDE DEF b
  <2> QED
    BY <1>1, <2>1
<1> HIDE DEF a, b
<1>5. /\ c \in Seq(Entry) /\ Len(c) = n + 1
      /\ c[n + 1] = l[n + 1] /\ \A k \in 1..n : c[k] = l[k]
  BY <1>1, <1>3
<1>6. \A k \in 1..n + 1 : c[k] = b[k]
  BY <1>1, <1>4, <1>5
<1> HIDE DEF c
<1>7. c = b
  BY <1>4, <1>5, <1>6, SeqEqual
<1> QED
  BY <1>7 DEF a, b, c

\* A turn of applyLoop passes on the next committed entry, and no other step
\* takes an applied entry out of the log.
LEMMA AppliedStep ==
    ASSUME LogInv, LogInv', CommitInv, AppliedFromLog, [Next]_vars
    PROVE  AppliedFromLog'
<1> SUFFICES ASSUME NEW j \in Server
             PROVE  /\ lastApplied'[j] <= commitIndex'[j]
                    /\ commitIndex'[j] <= Len(log'[j])
                    /\ applied'[j] = SubSeq(log'[j], 1, lastApplied'[j])
  BY DEF AppliedFromLog, LastIndex
<1> DEFINE l == log[j]
           r == log'[j]
           n == lastApplied[j]
           c == commitIndex[j]
<1>1. /\ l \in Seq(Entry) /\ r \in Seq(Entry) /\ n \in Nat /\ c \in Nat
      /\ commitIndex'[j] \in Nat /\ TypeInv
      /\ lastApplied \in [Server -> Nat] /\ applied \in [Server -> Seq(Entry)]
  BY DEF LogInv, TypeInv, TypeOK
<1>2. n <= c /\ c <= Len(l) /\ applied[j] = SubSeq(l, 1, n)
  BY DEF AppliedFromLog, LastIndex
<1>3. commitIndex'[j] >= c /\ commitIndex'[j] <= Len(r)
  BY CommitMoves
<1>4. c <= Len(r) /\ \A k \in 1..c : r[k] = l[k]
  BY CommittedKept
<1>5. Len(l) \in Nat /\ Len(r) \in Nat
  BY <1>1
<1>6. CASE lastApplied'[j] = n /\ applied'[j] = applied[j]
  <2>1. n <= Len(l) /\ n <= Len(r) /\ \A k \in 1..n : l[k] = r[k]
    BY <1>1, <1>2, <1>4, <1>5
  <2>2. n <= commitIndex'[j]
    BY <1>1, <1>2, <1>3
  <2> HIDE DEF l, r, n
  <2>3. SubSeq(l, 1, n) = SubSeq(r, 1, n)
    BY <1>1, <2>1, PrefixesEqual
  <2> QED
    BY <1>2, <1>3, <1>6, <2>2, <2>3 DEF r
<1>7. CASE ApplyLoop(j)
  <2>1. /\ n < c /\ lastApplied'[j] = n + 1 /\ r = l
        /\ commitIndex'[j] = c
        /\ applied'[j] = IF Has(l, n + 1) THEN Append(applied[j], l[n + 1])
                                          ELSE applied[j]
    BY <1>1, <1>7 DEF ApplyLoop, logVars
  <2>2. n < Len(l) /\ Has(l, n + 1) /\ n + 1 <= c
    BY <1>1, <1>2, <1>5, <2>1 DEF Has
  <2> HIDE DEF l, r, n, c
  <2>3. applied'[j] = SubSeq(l, 1, n + 1)
    BY <1>1, <1>2, <2>1, <2>2, PrefixGrows
  <2> QED
    BY <1>3, <2>1, <2>2, <2>3 DEF r
<1> QED
  BY <1>1, <1>6, <1>7, ApplyKinds

-----------------------------------------------------------------------------
(* The theorems *)

\* What two nodes have both committed is the same: the majorities that hold
\* the two commits for good have a node in common.
LEMMA CommitsAgree ==
    ASSUME LogInv, CommitInv, NEW i \in Server, NEW j \in Server,
           NEW k \in Nat \ {0}, k <= commitIndex[i], k <= commitIndex[j]
    PROVE  log[i][k] = log[j][k]
<1> DEFINE Agrees(h, q) == \A n \in 1..commitIndex[h] : log[h][n] = log[q][n]
<1>1. commitIndex[i] \in Nat /\ commitIndex[j] \in Nat
      /\ commitIndex[i] # 0 /\ commitIndex[j] # 0
  BY SMTT(30) DEF LogInv, TypeInv, TypeOK
<1>2. ASSUME NEW h \in Server, commitIndex[h] # 0
      PROVE  \E Q \in SUBSET Server : Majority(Q) /\ \A q \in Q : Agrees(h, q)
  <2> DEFINE c == commitIndex[h]
             s == log[h][c].term
  <2>1. c \in Nat \ {0} /\ Holds(log[h], c, s) /\ Fixed(c, s, currentTerm[h])
    BY <1>2, CommittedEntry
  <2>2. PICK x \in Links, Q \in SUBSET Server :
          Protected(x.n, x.e.term, Q) /\ \A q \in Q : Holds(log[q], c, s)
    BY <2>1 DEF Fixed
  <2>3. Majority(Q)
    BY <2>2 DEF Protected, Secured
  <2>4. ASSUME NEW q \in Q
        PROVE  \A n \in 1..c : log[h][n] = log[q][n]
    <3> DEFINE l == log[h]
               r == log[q]
    <3>1. /\ l \in Seq(Entry) /\ LogLinks(l) \subseteq Links
          /\ r \in Seq(Entry) /\ LogLinks(r) \subseteq Links
          /\ LinksUnique(Links)
      BY LogFacts DEF LogInv, ChainInv, LinksOK
    <3>2. c \in Nat /\ Holds(l, c, s) /\ Holds(r, c, s)
      BY <2>1, <2>2
    <3> HIDE DEF l, r, c, s
    <3>3. \A n \in 1..c : l[n] = r[n]
      BY <3>1, <3>2, ChainsMatch
    <3> QED
      BY <3>3 DEF l, r
  <2> QED
    BY <2>3, <2>4
<1>3. PICK P \in SUBSET Server : Majority(P) /\ \A q \in P : Agrees(i, q)
  BY <1>1, <1>2
<1>4. PICK Q \in SUBSET Server : Majority(Q) /\ \A q \in Q : Agrees(j, q)
  BY <1>1, <1>2
<1>5. PICK q \in Server : q \in P /\ q \in Q
  BY <1>3, <1>4, MajoritiesMeet
<1>6. k \in 1..commitIndex[i] /\ k \in 1..commitIndex[j]
  BY <1>1
<1> QED
  BY <1>3, <1>4, <1>5, <1>6

\* The invariant of the votes, the commits and applyLoop.
CommitSafe == LogInv /\ CommitInv /\ AppliedFromLog

(***************************************************************************)
(* The invariant of the commits, for every cluster, every number of        *)
(* elections and every length of the logs.                                 *)
(***************************************************************************)
THEOREM CommitInvariant == Spec => []CommitSafe
<1>1. Init /\ LogInv => CommitSafe
  BY InitCommit DEF CommitSafe
<1>2. CommitSafe /\ [Next]_vars /\ LogInv' => CommitSafe'
  BY CommitStep, AppliedStep DEF CommitSafe
<1> QED
  BY LogInvariant, <1>1, <1>2, PTL DEF Spec

\* applyLoop never meets a missing entry and never runs ahead: what went to
\* commitCh is exactly the log up to lastApplied.
THEOREM AppliedAlwaysFromLog == Spec => []AppliedFromLog
<1>1. CommitSafe => AppliedFromLog
  BY DEF CommitSafe
<1> QED
  BY CommitInvariant, <1>1, PTL

\* Every request reaches the commit index it announces, so that a follower
\* that takes the smaller of leaderCommit and its last index commits nothing
\* the leader has not.
THEOREM RequestsCoverCommit == Spec => []RequestCoversCommit
<1>1. CommitSafe => RequestCoversCommit
  BY DEF CommitSafe, CommitInv
<1> QED
  BY CommitInvariant, <1>1, PTL

\* What a node has committed is in the log of every leader of its term or of
\* a later one, and equal there.
THEOREM LeadersComplete == Spec => []LeaderCompleteness
<1>1. ASSUME LogInv, CommitInv
      PROVE  LeaderCompleteness
  <2> SUFFICES ASSUME NEW i \in Server, NEW j \in Server, state[i] = Leader,
                      currentTerm[i] >= currentTerm[j]
               PROVE  /\ commitIndex[j] <= Len(log[i])
                      /\ SubSeq(log[j], 1, commitIndex[j])
                             = SubSeq(log[i], 1, commitIndex[j])
    BY DEF LeaderCompleteness, LastIndex
  <2> DEFINE c == commitIndex[j]
             l == log[i]
             r == log[j]
             s == r[c].term
             u == currentTerm[i]
  <2>1. /\ l \in Seq(Entry) /\ LogLinks(l) \subseteq Links /\ Len(l) \in Nat
        /\ r \in Seq(Entry) /\ Len(r) \in Nat
        /\ u \in Nat /\ currentTerm[j] \in Nat
    BY <1>1, LogFacts
  <2>2. CASE c = 0
    <3>1. \A k \in 1..0 : r[k] = l[k]
      OBVIOUS
    <3> HIDE DEF l, r
    <3>2. SubSeq(r, 1, 0) = SubSeq(l, 1, 0)
      BY <2>1, <3>1, PrefixesEqual
    <3> QED
      BY <2>1, <2>2, <3>2 DEF l, r
  <2>3. CASE c # 0
    <3>1. c \in Nat \ {0} /\ Holds(r, c, s) /\ Fixed(c, s, currentTerm[j])
      BY <1>1, <2>3, CommittedEntry
    <3>2. Holds(l, Len(l), u)
      BY <1>1 DEF LogInv, ChainInv, LogTerms
    <3>3. PICK x \in Links, Q \in SUBSET Server :
            /\ Protected(x.n, x.e.term, Q)
            /\ c <= x.n /\ x.e.term <= currentTerm[j]
      BY <3>1 DEF Fixed
    <3>4. x.n \in Nat \ {0} /\ x.e.term \in Nat /\ Carried(x.n, x.e.term)
      BY <1>1, <3>3, LinkTypes DEF LogInv, Protected, Secured
    <3>5. x.n <= Len(l)
      <4>1. CASE u = x.e.term
        BY <1>1, <4>1 DEF LogInv, ChainInv, LeaderHasTerm
      <4>2. CASE u > x.e.term
        <5>1. x.n < Len(l)
          <6> HIDE DEF l, u
          <6> QED
            BY <1>1, <2>1, <3>2, <3>4, <4>2, CarriedLog
        <5> QED
          BY <2>1, <3>4, <5>1
      <4> QED
        BY <2>1, <3>3, <3>4, <4>1, <4>2
    <3>6. c <= Len(l)
      BY <2>1, <3>1, <3>3, <3>4, <3>5
    <3>7. Holds(l, c, s)
      <4>1. u >= currentTerm[j]
        OBVIOUS
      <4> HIDE DEF l, u, c, s
      <4> QED
        BY <1>1, <2>1, <3>1, <3>2, <3>6, <4>1, FixedReach
    <3>8. SubSeq(r, 1, c) = SubSeq(l, 1, c)
      <4> HIDE DEF c, s
      <4> QED
        BY <1>1, <3>1, <3>7, LogsMatch
    <3> QED
      BY <3>6, <3>8
  <2> QED
    BY <2>2, <2>3
<1>2. CommitSafe => LeaderCompleteness
  BY <1>1 DEF CommitSafe
<1> QED
  BY CommitInvariant, <1>2, PTL

\* The nodes hand the same commands to their brokers in the same order.
THEOREM StateMachinesAgree == Spec => []StateMachineSafety
<1>1. ASSUME CommitSafe
      PROVE  StateMachineSafety
  <2>1. LogInv /\ CommitInv /\ AppliedFromLog
    BY <1>1 DEF CommitSafe
  <2>2. ASSUME NEW h \in Server, NEW n \in DOMAIN applied[h]
        PROVE  /\ n \in Nat \ {0} /\ n <= commitIndex[h]
               /\ applied[h][n] = log[h][n]
    <3> DEFINE l == log[h]
               a == applied[h]
               e == lastApplied[h]
    <3>1. l \in Seq(Entry) /\ a \in Seq(Entry) /\ e \in Nat
          /\ commitIndex[h] \in Nat
      BY <2>1 DEF LogInv, TypeInv, TypeOK
    <3>2. e <= commitIndex[h] /\ commitIndex[h] <= Len(l)
          /\ a = SubSeq(l, 1, e)
      BY <2>1 DEF AppliedFromLog, LastIndex
    <3>3. Len(l) \in Nat /\ n \in DOMAIN a
      BY <2>2, <3>1
    <3> HIDE DEF l, a, e
    <3>4. e <= Len(l) /\ \A k \in 1..e : l[k] \in Entry
      BY <3>1, <3>2, <3>3
    <3>5. /\ Len(a) = IF 1 <= e THEN e - 1 + 1 ELSE 0
          /\ \A k \in 1 .. e - 1 + 1 : a[k] = l[1 + k - 1]
      BY <3>1, <3>2, <3>4, SubSeqProperties
    <3>6. Len(a) = e /\ \A k \in 1..e : a[k] = l[k]
      BY <3>1, <3>5
    <3>7. n \in 1..e
      BY <3>1, <3>3, <3>6
    <3> QED
      BY <3>1, <3>2, <3>6, <3>7 DEF l, a
  <2> SUFFICES ASSUME NEW i \in Server, NEW j \in Server,
                      NEW n \in DOMAIN applied[i] \cap DOMAIN applied[j]
               PROVE  applied[i][n] = applied[j][n]
    BY DEF StateMachineSafety
  <2>3. /\ n \in Nat \ {0} /\ n <= commitIndex[i] /\ n <= commitIndex[j]
        /\ applied[i][n] = log[i][n] /\ applied[j][n] = log[j][n]
    BY <2>2
  <2>4. log[i][n] = log[j][n]
    BY <2>1, <2>3, CommitsAgree
  <2> QED
    BY <2>3, <2>4
<1>2. CommitSafe => StateMachineSafety
  BY <1>1
<1> QED
  BY CommitInvariant, <1>2, PTL

\* No step removes or replaces a committed entry, on any node, and no commit
\* index moves back.
THEOREM CommitsStand == Spec => CommittedStands
<1>1. ASSUME LogInv, LogInv', CommitInv, [Next]_vars, NEW i \in Server
      PROVE  /\ commitIndex'[i] >= commitIndex[i]
             /\ SubSeq(log'[i], 1, commitIndex[i])
                    = SubSeq(log[i], 1, commitIndex[i])
  <2> DEFINE l == log[i]
             r == log'[i]
             c == commitIndex[i]
  <2>1. l \in Seq(Entry) /\ r \in Seq(Entry) /\ c \in Nat /\ c <= Len(l)
    BY <1>1 DEF LogInv, TypeInv, TypeOK, CommitInv, CommitInLog
  <2>2. c <= Len(r) /\ \A k \in 1..c : r[k] = l[k]
    BY <1>1, CommittedKept
  <2>3. commitIndex'[i] >= c
    BY <1>1, CommitMoves
  <2> HIDE DEF l, r, c
  <2>4. SubSeq(r, 1, c) = SubSeq(l, 1, c)
    BY <2>1, <2>2, PrefixesEqual
  <2> QED
    BY <2>3, <2>4 DEF l, r, c
<1>2. CommitSafe /\ CommitSafe' /\ [Next]_vars
        => [\A i \in Server :
               /\ commitIndex'[i] >= commitIndex[i]
               /\ SubSeq(log'[i], 1, commitIndex[i])
                      = SubSeq(log[i], 1, commitIndex[i])]_vars
  BY <1>1 DEF CommitSafe
<1> QED
  BY CommitInvariant, <1>2, PTL DEF Spec, CommittedStands

-----------------------------------------------------------------------------
(* Raft implements ReplicatedLog *)

\* Some node has committed most: the sets of nodes that are ahead of a node
\* are finite, so that one of them has no strict subset among them.
LEMMA SomeNodeLeads ==
    ASSUME NEW f \in [Server -> Nat]
    PROVE  \E i \in Server : \A j \in Server : f[j] <= f[i]
<1> DEFINE Ahead(i) == {j \in Server : f[j] > f[i]}
           T == {Ahead(i) : i \in Server}
<1>1. T \subseteq FiniteSubsetsOf(Server) /\ T # {}
  <2>1. ASSUME NEW i \in Server
        PROVE  Ahead(i) \in FiniteSubsetsOf(Server)
    <3>1. Ahead(i) \in SUBSET Server
      OBVIOUS
    <3>2. IsFiniteSet(Ahead(i))
      BY <3>1, ServerAssumption, FS_Subset
    <3> QED
      BY <3>1, <3>2 DEF FiniteSubsetsOf
  <2>2. T # {}
    <3>1. PICK i : i \in Server
      BY ClusterAssumption
    <3>2. Ahead(i) \in T
      BY <3>1
    <3> QED
      BY <3>2
  <2> HIDE DEF Ahead
  <2> QED
    BY <2>1, <2>2
<1>2. PICK t \in T : \A u \in T : ~(<<u, t>> \in StrictSubsetOrdering(Server))
  BY <1>1, FS_StrictSubsetOrderingWellFounded, WFMin, Zenon
<1>3. PICK i \in Server : t = Ahead(i)
  OBVIOUS
<1>4. ASSUME NEW j \in Server, ~(f[j] <= f[i])
      PROVE  FALSE
  <2>1. f[i] \in Nat /\ f[j] \in Nat /\ f[j] > f[i]
    BY <1>4
  <2>2. j \in Ahead(i) /\ j \notin Ahead(j)
    BY <2>1
  <2>3. Ahead(j) \subseteq Ahead(i)
    BY <2>1
  <2>4. Ahead(j) \subseteq Server /\ Ahead(i) \subseteq Server
    OBVIOUS
  <2>5. <<Ahead(j), Ahead(i)>> \in StrictSubsetOrdering(Server)
    BY <2>2, <2>3, <2>4 DEF StrictSubsetOrdering
  <2> QED
    BY <1>2, <1>3, <2>5
<1> QED
  BY <1>4

\* What the abstract log is: the log of every node as far as it has committed,
\* and no longer than the longest of them.
CommittedShape ==
    /\ Committed \in Seq(Entry)
    /\ \E i \in Server : Len(Committed) = commitIndex[i]
    /\ \A j \in Server :
         /\ commitIndex[j] <= Len(Committed)
         /\ \A k \in 1..commitIndex[j] : Committed[k] = log[j][k]

\* The committed prefixes of the nodes are prefixes of the abstract log.
LEMMA CommittedIs == CommitSafe => CommittedShape
<1> SUFFICES ASSUME CommitSafe PROVE CommittedShape
  OBVIOUS
<1> DEFINE i == CHOOSE i \in Server :
                    \A j \in Server : commitIndex[j] <= commitIndex[i]
           l == log[i]
           c == commitIndex[i]
<1>1. /\ LogInv /\ CommitInv
      /\ commitIndex \in [Server -> Nat] /\ log \in [Server -> Seq(Entry)]
  BY DEF CommitSafe, LogInv, TypeInv, TypeOK
<1>2. i \in Server /\ \A j \in Server : commitIndex[j] <= commitIndex[i]
  BY <1>1, SomeNodeLeads
<1>3. Committed = SubSeq(l, 1, c)
  BY DEF Committed
<1> HIDE DEF i
<1>4. /\ l \in Seq(Entry) /\ c \in Nat /\ c <= Len(l) /\ Len(l) \in Nat
  <2>1. l \in Seq(Entry) /\ c \in Nat
    BY <1>1, <1>2
  <2> QED
    BY <1>1, <1>2, <2>1 DEF CommitInv, CommitInLog
<1>5. /\ Committed \in Seq(Entry) /\ Len(Committed) = c
      /\ \A k \in 1..c : Committed[k] = l[k]
  <2> HIDE DEF l, c
  <2>1. 1 \in Int /\ c \in Int /\ \A k \in 1..c : l[k] \in Entry
    BY <1>4
  <2>2. /\ SubSeq(l, 1, c) \in Seq(Entry)
        /\ Len(SubSeq(l, 1, c)) = IF 1 <= c THEN c - 1 + 1 ELSE 0
        /\ \A k \in 1 .. c - 1 + 1 : SubSeq(l, 1, c)[k] = l[1 + k - 1]
    BY <1>4, <2>1, SubSeqProperties
  <2> QED
    BY <1>3, <1>4, <2>2
<1>6. ASSUME NEW j \in Server
      PROVE  /\ commitIndex[j] <= Len(Committed)
             /\ \A k \in 1..commitIndex[j] : Committed[k] = log[j][k]
  <2>1. commitIndex[j] \in Nat /\ commitIndex[j] <= c
    BY <1>1, <1>2
  <2>2. ASSUME NEW k \in 1..commitIndex[j]
        PROVE  Committed[k] = log[j][k]
    <3>1. k \in Nat \ {0} /\ k <= c /\ k \in 1..c /\ k <= commitIndex[j]
      BY <1>4, <2>1
    <3>2. log[i][k] = log[j][k]
      BY <1>1, <1>2, <3>1, CommitsAgree
    <3> QED
      BY <1>5, <3>1, <3>2
  <2> QED
    BY <1>5, <2>1, <2>2
<1> QED
  BY <1>2, <1>5, <1>6 DEF CommittedShape

\* The same in the next state.
LEMMA CommittedIsNext == CommitSafe' => CommittedShape'
  BY CommittedIs, PTL

\* The abstract log only grows.
LEMMA CommittedGrows ==
    ASSUME CommitSafe, CommitSafe', [Next]_vars
    PROVE  /\ Len(Committed) <= Len(Committed')
           /\ SubSeq(Committed, 1, Len(Committed))
                  = SubSeq(Committed', 1, Len(Committed))
<1>1. CommittedShape /\ CommittedShape'
  BY CommittedIs, CommittedIsNext
<1> DEFINE a == Committed
           b == Committed'
<1>2. a \in Seq(Entry) /\ b \in Seq(Entry)
  BY <1>1 DEF CommittedShape
<1>3. PICK i \in Server : Len(a) = commitIndex[i]
  BY <1>1 DEF CommittedShape
<1>4. LogInv /\ LogInv' /\ CommitInv
  BY DEF CommitSafe
<1>5. /\ commitIndex[i] \in Nat /\ commitIndex'[i] \in Nat
      /\ commitIndex[i] <= commitIndex'[i]
  BY <1>4, CommitMoves
<1>6. /\ commitIndex'[i] <= Len(b)
      /\ \A k \in 1..commitIndex'[i] : b[k] = log'[i][k]
      /\ \A k \in 1..commitIndex[i] : a[k] = log[i][k]
  BY <1>1 DEF CommittedShape
<1>7. \A k \in 1..commitIndex[i] : log'[i][k] = log[i][k]
  BY <1>4, CommittedKept
<1> HIDE DEF a, b
<1>8. Len(a) \in Nat /\ Len(b) \in Nat /\ Len(a) <= Len(b)
  BY <1>2, <1>3, <1>5, <1>6
<1>9. \A k \in 1..Len(a) : a[k] = b[k]
  BY <1>3, <1>5, <1>6, <1>7
<1>10. SubSeq(a, 1, Len(a)) = SubSeq(b, 1, Len(a))
  BY <1>2, <1>8, <1>9, PrefixesEqual
<1> QED
  BY <1>8, <1>10 DEF a, b

\* A turn of applyLoop hands over the next entry of the abstract log.
LEMMA ApplyDelivers ==
    ASSUME CommitSafe, NEW i \in Server, ApplyLoop(i)
    PROVE  RL!Deliver(i)
<1> DEFINE n == lastApplied[i]
           l == log[i]
           a == applied[i]
<1>1. CommittedShape /\ AppliedFromLog /\ LogInv
  BY CommittedIs DEF CommitSafe
<1>2. /\ n \in Nat /\ commitIndex[i] \in Nat /\ l \in Seq(Entry)
      /\ a \in Seq(Entry) /\ applied \in [Server -> Seq(Entry)]
  BY <1>1 DEF LogInv, TypeInv, TypeOK
<1>3. /\ n < commitIndex[i] /\ UNCHANGED <<log, commitIndex>>
      /\ applied' = [applied EXCEPT
             ![i] = IF Has(l, n + 1) THEN Append(@, l[n + 1]) ELSE @]
  BY DEF ApplyLoop, logVars
<1>4. commitIndex[i] <= Len(l) /\ a = SubSeq(l, 1, n)
  BY <1>1 DEF AppliedFromLog, LastIndex
<1>5. Len(a) = n
  <2> HIDE DEF l, a, n
  <2>1. Len(l) \in Nat /\ n \in Int /\ 1 \in Int /\ \A k \in 1..n : l[k] \in Entry
    BY <1>2, <1>3, <1>4
  <2>2. Len(a) = IF 1 <= n THEN n - 1 + 1 ELSE 0
    BY <1>2, <1>4, <2>1, SubSeqProperties
  <2> QED
    BY <1>2, <2>2
<1>6. Has(l, n + 1) /\ n + 1 \in 1..commitIndex[i]
  BY <1>2, <1>3, <1>4 DEF Has
<1>7. Committed \in Seq(Entry) /\ commitIndex[i] <= Len(Committed)
      /\ Committed[n + 1] = l[n + 1]
  BY <1>1, <1>6 DEF CommittedShape
<1>8. UNCHANGED Committed
  BY <1>3 DEF Committed
<1>9. Len(applied[i]) < Len(Committed)
  BY <1>2, <1>3, <1>5, <1>7
<1>10. applied' = [applied EXCEPT ![i] = Append(@, Committed[Len(@) + 1])]
  BY <1>3, <1>5, <1>6, <1>7
<1> QED
  BY <1>8, <1>9, <1>10 DEF RL!Deliver

\* Every step of Raft is a step of the abstract log, or none.
LEMMA StepRefines ==
    ASSUME CommitSafe, CommitSafe', [Next]_vars
    PROVE  [RL!RLNext]_<<Committed, applied>>
<1>1. CASE \E i \in Server : ApplyLoop(i)
  BY <1>1, ApplyDelivers DEF RL!RLNext
<1>2. CASE UNCHANGED applyVars
  <2>1. UNCHANGED applied
    BY <1>2 DEF applyVars
  <2>2. CASE Committed' = Committed
    BY <2>1, <2>2
  <2>3. CASE Committed' # Committed
    <3>1. RL!IsStrictPrefix(Committed, Committed')
      BY <2>3, CommittedGrows DEF RL!IsStrictPrefix, RL!IsPrefix
    <3> QED
      BY <2>1, <3>1 DEF RL!RLNext, RL!Commit
  <2> QED
    BY <2>2, <2>3
<1> QED
  BY <1>1, <1>2, ApplySteps

(***************************************************************************)
(* Raft implements ReplicatedLog, for every cluster: the brokers see one   *)
(* log that only grows, and each is fed from it in order, without a gap    *)
(* and without a repetition.                                               *)
(***************************************************************************)
THEOREM RaftImplementsReplicatedLog == Spec => ImplementsReplicatedLog
<1>1. Init => RL!RLInit
  <2> SUFFICES ASSUME Init PROVE RL!RLInit
    OBVIOUS
  <2> DEFINE i == CHOOSE i \in Server :
                      \A j \in Server : commitIndex[j] <= commitIndex[i]
  <2>1. commitIndex = [j \in Server |-> 0] /\ log = [j \in Server |-> <<>>]
    BY DEF Init
  <2>2. i \in Server
    <3>1. commitIndex \in [Server -> Nat]
      BY <2>1
    <3> QED
      BY <3>1, SomeNodeLeads
  <2>3. Committed = SubSeq(log[i], 1, commitIndex[i])
    BY DEF Committed
  <2> HIDE DEF i
  <2>4. log[i] = <<>> /\ commitIndex[i] = 0
    BY <2>1, <2>2
  <2>5. SubSeq(<<>>, 1, 0) = <<>>
    OBVIOUS
  <2>6. Committed = <<>> /\ applied = [j \in Server |-> <<>>]
    BY <2>3, <2>4, <2>5 DEF Init
  <2> QED
    BY <2>6 DEF RL!RLInit
<1>2. CommitSafe /\ CommitSafe' /\ [Next]_vars
        => [RL!RLNext]_<<Committed, applied>>
  BY StepRefines
<1> QED
  BY CommitInvariant, <1>1, <1>2, PTL DEF Spec, ImplementsReplicatedLog,
     RL!RLSpec
=============================================================================
