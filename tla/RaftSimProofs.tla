---------------------------- MODULE RaftSimProofs ----------------------------
(***************************************************************************)
(* The simulator for every cluster, every interval and every schedule of   *)
(* its faults.  Its nodes take the steps of Raft: the bus and the clock    *)
(* decide when a message arrives, never what it says, so what the          *)
(* simulator does to the nodes is what Raft's network could have done, and *)
(* the theorems of RaftProofs hold of it.  And where the network delivers  *)
(* at once (Steady), a leader that all other nodes follow is not           *)
(* challenged: that follows from the two intervals alone.                  *)
(***************************************************************************)
EXTENDS RaftSim, FiniteSetTheorems, SequenceTheorems, TLAPS

R == INSTANCE RaftProofs

\* The handlers that the theorems about Raft speak of are the simulator's.
LEMMA RaftHandlers ==
  /\ \A S : R!IsFiniteSet(S) <=> IsFiniteSet(S)
  /\ R!NewNode = NewNode /\ R!Leader = Leader
  /\ \A log : R!LastIndex(log) = LastIndex(log)
  /\ \A n, out, reset : R!Done(n, out, reset) = Done(n, out, reset)
  /\ \A i, n : R!StartElection(i, n) = StartElection(i, n)
  /\ \A i, n : R!BroadcastAppendEntries(i, n) = BroadcastAppendEntries(i, n)
  /\ \A i, n, command : R!ClientPropose(i, n, command) = ClientPropose(i, n, command)
  /\ \A i, n, from, m : R!Handle(i, n, from, m) = Handle(i, n, from, m)
<1>1. \A S : R!Cardinality(S) = Cardinality(S)
  BY Zenon DEF Cardinality, R!Cardinality
<1>2. \A S : R!Min(S) = Min(S)
  BY Zenon DEF Min, R!Min
<1>3. \A S : R!Max(S) = Max(S)
  BY Zenon DEF Max, R!Max
<1>4. \A votes : R!IsMajority(votes) <=> IsMajority(votes)
  BY <1>1, Zenon DEF IsMajority, R!IsMajority
<1>5. \A log, prev, entries : R!Splice(log, prev, entries) = Splice(log, prev, entries)
  BY <1>2, ZenonT(30) DEF Splice, Clashes, R!Splice, R!Clashes
<1>6. \A n, index : R!CommitAt(n, index) = CommitAt(n, index)
  BY Zenon DEF CommitAt, ApplyCommitted, Smaller, R!CommitAt,
         R!ApplyCommitted, R!Smaller
<1>7. \A n, index : R!ReplicationCount(n, index) = ReplicationCount(n, index)
  BY <1>1, Zenon DEF ReplicationCount, R!ReplicationCount
<1>8. \A n : R!Committable(n) = Committable(n)
  BY <1>4, <1>7, Zenon DEF Committable, TermAt, LastIndex, R!Committable,
         R!TermAt, R!LastIndex
<1>9. \A n : R!MaybeAdvanceCommit(n) = MaybeAdvanceCommit(n)
  BY <1>3, <1>6, <1>8, Zenon DEF MaybeAdvanceCommit, R!MaybeAdvanceCommit
<1>10. \A i, n : R!StartElection(i, n) = StartElection(i, n)
  BY Zenon DEF StartElection, Done, LastIndex, LastTerm, Peers, Candidate,
         R!StartElection, R!Done, R!LastIndex, R!LastTerm, R!Peers,
         R!Candidate
<1>11. \A i, n : R!BroadcastAppendEntries(i, n) = BroadcastAppendEntries(i, n)
  BY Zenon DEF BroadcastAppendEntries, AppendEntriesFor, TermAt, SliceFrom,
         Peers, R!BroadcastAppendEntries, R!AppendEntriesFor, R!TermAt,
         R!SliceFrom, R!Peers
<1>12. \A n : R!BecomeLeader(n) = BecomeLeader(n)
  BY Zenon DEF BecomeLeader, Leader, LastIndex, R!BecomeLeader, R!Leader,
         R!LastIndex
<1>13. \A i, n, command : R!ClientPropose(i, n, command) = ClientPropose(i, n, command)
  BY <1>9, <1>11, Zenon DEF ClientPropose, Done, Leader, Extended,
         R!ClientPropose, R!Done, R!Leader, R!Extended
<1>14. \A i, n, from, m : R!OnRequestVote(i, n, from, m) = OnRequestVote(i, n, from, m)
  BY ZenonT(30) DEF OnRequestVote, Done, Reply, ShouldGrantVote,
         CandidateLogIsUpToDate, LastTerm, LastIndex, R!OnRequestVote, R!Done,
         R!Reply, R!ShouldGrantVote, R!CandidateLogIsUpToDate, R!LastTerm,
         R!LastIndex
<1>15. \A i, n, from, m : R!OnVoteReply(i, n, from, m) = OnVoteReply(i, n, from, m)
  <2> SUFFICES ASSUME NEW i, NEW n, NEW from, NEW m
               PROVE  R!OnVoteReply(i, n, from, m) = OnVoteReply(i, n, from, m)
    OBVIOUS
  <2> DEFINE votes == IF m.granted THEN n.votes_received \cup {from}
                                   ELSE n.votes_received \ {from}
  <2>1. /\ R!IsMajority(R!Cardinality(votes)) <=> IsMajority(Cardinality(votes))
        /\ R!AwaitsVote(n, m) <=> AwaitsVote(n, m)
        /\ \A a, o, r : R!Done(a, o, r) = Done(a, o, r)
    BY <1>1, <1>4, Zenon
       DEF Done, AwaitsVote, Candidate, R!Done, R!AwaitsVote, R!Candidate
  <2>2. CASE ~AwaitsVote(n, m)
    BY <2>1, <2>2, Zenon DEF OnVoteReply, R!OnVoteReply
  <2>3. CASE AwaitsVote(n, m) /\ IsMajority(Cardinality(votes))
    BY <2>1, <2>3, <1>11, <1>12, Zenon DEF OnVoteReply, R!OnVoteReply
  <2>4. CASE AwaitsVote(n, m) /\ ~IsMajority(Cardinality(votes))
    BY <2>1, <2>4, Zenon DEF OnVoteReply, R!OnVoteReply
  <2> QED  BY <2>2, <2>3, <2>4
<1>16. \A i, n, from, m : R!OnAppendEntries(i, n, from, m) = OnAppendEntries(i, n, from, m)
  <2> SUFFICES ASSUME NEW i, NEW n, NEW from, NEW m
               PROVE  R!OnAppendEntries(i, n, from, m) = OnAppendEntries(i, n, from, m)
    OBVIOUS
  <2> DEFINE matches == Matches(n.log, m.prev_log_index, m.prev_log_term)
  <2>1. /\ \A a, o, r : R!Done(a, o, r) = Done(a, o, r)
        /\ \A j, t, a, b, k : R!AppendReply(j, t, a, b, k) = AppendReply(j, t, a, b, k)
        /\ R!Follower = Follower
        /\ \A a, b : R!Smaller(a, b) = Smaller(a, b)
        /\ \A a : R!LastIndex(a) = LastIndex(a)
    BY Zenon DEF AppendReply, Reply, Done, Follower, Smaller, LastIndex, R!AppendReply,
                 R!Reply, R!Done, R!Follower, R!Smaller, R!LastIndex
  <2>2. R!Matches(n.log, m.prev_log_index, m.prev_log_term) <=> matches
    BY Zenon DEF Matches, TermAt, R!Matches, R!TermAt
  <2>3. CASE m.term < n.current_term
    BY <2>1, <2>3, Zenon DEF OnAppendEntries, R!OnAppendEntries
  <2>4. CASE ~(m.term < n.current_term) /\ ~matches
    BY <2>1, <2>2, <2>4, Zenon DEF OnAppendEntries, R!OnAppendEntries
  <2>5. CASE ~(m.term < n.current_term) /\ matches
    <3> DEFINE f == [n EXCEPT !.role = Follower]
               s == [f EXCEPT !.log = Splice(@, m.prev_log_index, m.entries)]
               d == IF m.leader_commit > s.commit_index
                    THEN CommitAt(s, Smaller(m.leader_commit, LastIndex(s.log))) ELSE s
               g == [n EXCEPT !.role = R!Follower]
               t == [g EXCEPT !.log = R!Splice(@, m.prev_log_index, m.entries)]
               c == IF m.leader_commit > t.commit_index
                    THEN R!CommitAt(t, R!Smaller(m.leader_commit, R!LastIndex(t.log))) ELSE t
    <3>1. R!OnAppendEntries(i, n, from, m)
            = R!Done(c, R!AppendReply(i, from, c, TRUE, R!LastIndex(t.log)), TRUE)
      BY <2>2, <2>5, Zenon DEF R!OnAppendEntries
    <3>2. OnAppendEntries(i, n, from, m)
            = Done(d, AppendReply(i, from, d, TRUE, LastIndex(s.log)), TRUE)
      BY <2>5, Zenon DEF OnAppendEntries
    <3>3. t = s
      BY <2>1, <1>5, Zenon
    <3> HIDE DEF t, s
    <3>4. c = d
      BY <2>1, <3>3, <1>6, Zenon
    <3> HIDE DEF c, d
    <3> QED  BY <2>1, <3>1, <3>2, <3>3, <3>4, Zenon
  <2> QED  BY <2>3, <2>4, <2>5
<1>17. \A i, n, from, m : R!OnAppendReply(i, n, from, m) = OnAppendReply(i, n, from, m)
  <2> SUFFICES ASSUME NEW i, NEW n, NEW from, NEW m
               PROVE  R!OnAppendReply(i, n, from, m) = OnAppendReply(i, n, from, m)
    OBVIOUS
  <2> DEFINE stale == n.role # Leader \/ m.term # n.current_term
  <2>1. /\ \A x : R!BackOff(x) = BackOff(x)
        /\ \A a, o, r : R!Done(a, o, r) = Done(a, o, r)
        /\ R!Leader = Leader
    BY Zenon DEF BackOff, Done, Leader, R!BackOff, R!Done, R!Leader
  <2>2. CASE stale
    BY <2>1, <2>2, Zenon DEF OnAppendReply, R!OnAppendReply
  <2>3. CASE ~stale /\ m.success
    <3> DEFINE a == [n EXCEPT !.match_index[from] = m.match_index,
                              !.next_index[from] = m.match_index + 1]
    <3>1. R!OnAppendReply(i, n, from, m) = R!Done(R!MaybeAdvanceCommit(a), {}, FALSE)
      BY <2>1, <2>3, Zenon DEF R!OnAppendReply
    <3>2. OnAppendReply(i, n, from, m) = Done(MaybeAdvanceCommit(a), {}, FALSE)
      BY <2>3, Zenon DEF OnAppendReply
    <3> HIDE DEF a
    <3> QED  BY <2>1, <3>1, <3>2, <1>9, Zenon
  <2>4. CASE ~stale /\ ~m.success
    BY <2>1, <2>4, Zenon DEF OnAppendReply, R!OnAppendReply
  <2> QED  BY <2>2, <2>3, <2>4
<1>18. \A i, n, from, m : R!Dispatch(i, n, from, m) = Dispatch(i, n, from, m)
  BY <1>14, <1>15, <1>16, <1>17, ZenonT(30) DEF Dispatch, R!Dispatch
<1>19. \A n, m : R!AtTermOf(n, m) = AtTermOf(n, m)
  BY Zenon DEF AtTermOf, StepDown, Follower, R!AtTermOf, R!StepDown,
         R!Follower
<1>20. \A i, n, from, m : R!Handle(i, n, from, m) = Handle(i, n, from, m)
  BY <1>18, <1>19, ZenonT(30) DEF Handle, R!Handle
<1>21. \A S : R!IsFiniteSet(S) <=> IsFiniteSet(S)
  BY Zenon DEF IsFiniteSet, R!IsFiniteSet
<1>22. /\ R!NewNode = NewNode /\ R!Leader = Leader
       /\ \A log : R!LastIndex(log) = LastIndex(log)
       /\ \A n, out, reset : R!Done(n, out, reset) = Done(n, out, reset)
  BY Zenon DEF NewNode, Leader, Follower, LastIndex, Done,
               R!NewNode, R!Leader, R!Follower, R!LastIndex, R!Done
<1> QED  BY <1>10, <1>11, <1>13, <1>20, <1>21, <1>22, Zenon

\* So are those of the specification that RefinesRaft names.
LEMMA TransportHandlers ==
  /\ \A S : Transport!IsFiniteSet(S) <=> IsFiniteSet(S)
  /\ Transport!NewNode = NewNode /\ Transport!Leader = Leader
  /\ \A log : Transport!LastIndex(log) = LastIndex(log)
  /\ \A n, out, reset : Transport!Done(n, out, reset) = Done(n, out, reset)
  /\ \A i, n : Transport!StartElection(i, n) = StartElection(i, n)
  /\ \A i, n : Transport!BroadcastAppendEntries(i, n) = BroadcastAppendEntries(i, n)
  /\ \A i, n, command : Transport!ClientPropose(i, n, command) = ClientPropose(i, n, command)
  /\ \A i, n, from, m : Transport!Handle(i, n, from, m) = Handle(i, n, from, m)
<1>1. \A S : Transport!Cardinality(S) = Cardinality(S)
  BY Zenon DEF Cardinality, Transport!Cardinality
<1>2. \A S : Transport!Min(S) = Min(S)
  BY Zenon DEF Min, Transport!Min
<1>3. \A S : Transport!Max(S) = Max(S)
  BY Zenon DEF Max, Transport!Max
<1>4. \A votes : Transport!IsMajority(votes) <=> IsMajority(votes)
  BY <1>1, Zenon DEF IsMajority, Transport!IsMajority
<1>5. \A log, prev, entries : Transport!Splice(log, prev, entries) = Splice(log, prev, entries)
  BY <1>2, ZenonT(30) DEF Splice, Clashes, Transport!Splice, Transport!Clashes
<1>6. \A n, index : Transport!CommitAt(n, index) = CommitAt(n, index)
  BY Zenon DEF CommitAt, ApplyCommitted, Smaller, Transport!CommitAt,
         Transport!ApplyCommitted, Transport!Smaller
<1>7. \A n, index : Transport!ReplicationCount(n, index) = ReplicationCount(n, index)
  BY <1>1, Zenon DEF ReplicationCount, Transport!ReplicationCount
<1>8. \A n : Transport!Committable(n) = Committable(n)
  BY <1>4, <1>7, Zenon DEF Committable, TermAt, LastIndex,
         Transport!Committable, Transport!TermAt, Transport!LastIndex
<1>9. \A n : Transport!MaybeAdvanceCommit(n) = MaybeAdvanceCommit(n)
  BY <1>3, <1>6, <1>8, Zenon DEF MaybeAdvanceCommit,
         Transport!MaybeAdvanceCommit
<1>10. \A i, n : Transport!StartElection(i, n) = StartElection(i, n)
  BY Zenon DEF StartElection, Done, LastIndex, LastTerm, Peers, Candidate,
         Transport!StartElection, Transport!Done, Transport!LastIndex,
         Transport!LastTerm, Transport!Peers, Transport!Candidate
<1>11. \A i, n : Transport!BroadcastAppendEntries(i, n) = BroadcastAppendEntries(i, n)
  BY Zenon DEF BroadcastAppendEntries, AppendEntriesFor, TermAt, SliceFrom,
         Peers, Transport!BroadcastAppendEntries, Transport!AppendEntriesFor,
         Transport!TermAt, Transport!SliceFrom, Transport!Peers
<1>12. \A n : Transport!BecomeLeader(n) = BecomeLeader(n)
  BY Zenon DEF BecomeLeader, Leader, LastIndex, Transport!BecomeLeader,
         Transport!Leader, Transport!LastIndex
<1>13. \A i, n, command : Transport!ClientPropose(i, n, command) = ClientPropose(i, n, command)
  BY <1>9, <1>11, Zenon DEF ClientPropose, Done, Leader, Extended,
         Transport!ClientPropose, Transport!Done, Transport!Leader,
         Transport!Extended
<1>14. \A i, n, from, m : Transport!OnRequestVote(i, n, from, m) = OnRequestVote(i, n, from, m)
  BY ZenonT(30) DEF OnRequestVote, Done, Reply, ShouldGrantVote,
         CandidateLogIsUpToDate, LastTerm, LastIndex, Transport!OnRequestVote,
         Transport!Done, Transport!Reply, Transport!ShouldGrantVote,
         Transport!CandidateLogIsUpToDate, Transport!LastTerm,
         Transport!LastIndex
<1>15. \A i, n, from, m : Transport!OnVoteReply(i, n, from, m) = OnVoteReply(i, n, from, m)
  <2> SUFFICES ASSUME NEW i, NEW n, NEW from, NEW m
               PROVE  Transport!OnVoteReply(i, n, from, m) = OnVoteReply(i, n, from, m)
    OBVIOUS
  <2> DEFINE votes == IF m.granted THEN n.votes_received \cup {from}
                                   ELSE n.votes_received \ {from}
  <2>1. /\ Transport!IsMajority(Transport!Cardinality(votes)) <=> IsMajority(Cardinality(votes))
        /\ Transport!AwaitsVote(n, m) <=> AwaitsVote(n, m)
        /\ \A a, o, r : Transport!Done(a, o, r) = Done(a, o, r)
    BY <1>1, <1>4, Zenon
       DEF Done, AwaitsVote, Candidate, Transport!Done, Transport!AwaitsVote, Transport!Candidate
  <2>2. CASE ~AwaitsVote(n, m)
    BY <2>1, <2>2, Zenon DEF OnVoteReply, Transport!OnVoteReply
  <2>3. CASE AwaitsVote(n, m) /\ IsMajority(Cardinality(votes))
    BY <2>1, <2>3, <1>11, <1>12, Zenon DEF OnVoteReply, Transport!OnVoteReply
  <2>4. CASE AwaitsVote(n, m) /\ ~IsMajority(Cardinality(votes))
    BY <2>1, <2>4, Zenon DEF OnVoteReply, Transport!OnVoteReply
  <2> QED  BY <2>2, <2>3, <2>4
<1>16. \A i, n, from, m : Transport!OnAppendEntries(i, n, from, m) = OnAppendEntries(i, n, from, m)
  <2> SUFFICES ASSUME NEW i, NEW n, NEW from, NEW m
               PROVE  Transport!OnAppendEntries(i, n, from, m) = OnAppendEntries(i, n, from, m)
    OBVIOUS
  <2> DEFINE matches == Matches(n.log, m.prev_log_index, m.prev_log_term)
  <2>1. /\ \A a, o, r : Transport!Done(a, o, r) = Done(a, o, r)
        /\ \A j, t, a, b, k : Transport!AppendReply(j, t, a, b, k) = AppendReply(j, t, a, b, k)
        /\ Transport!Follower = Follower
        /\ \A a, b : Transport!Smaller(a, b) = Smaller(a, b)
        /\ \A a : Transport!LastIndex(a) = LastIndex(a)
    BY Zenon DEF AppendReply, Reply, Done, Follower, Smaller, LastIndex, Transport!AppendReply,
                 Transport!Reply, Transport!Done, Transport!Follower, Transport!Smaller,
                 Transport!LastIndex
  <2>2. Transport!Matches(n.log, m.prev_log_index, m.prev_log_term) <=> matches
    BY Zenon DEF Matches, TermAt, Transport!Matches, Transport!TermAt
  <2>3. CASE m.term < n.current_term
    BY <2>1, <2>3, Zenon DEF OnAppendEntries, Transport!OnAppendEntries
  <2>4. CASE ~(m.term < n.current_term) /\ ~matches
    BY <2>1, <2>2, <2>4, Zenon DEF OnAppendEntries, Transport!OnAppendEntries
  <2>5. CASE ~(m.term < n.current_term) /\ matches
    <3> DEFINE f == [n EXCEPT !.role = Follower]
               s == [f EXCEPT !.log = Splice(@, m.prev_log_index, m.entries)]
               d == IF m.leader_commit > s.commit_index
                    THEN CommitAt(s, Smaller(m.leader_commit, LastIndex(s.log))) ELSE s
               g == [n EXCEPT !.role = Transport!Follower]
               t == [g EXCEPT !.log = Transport!Splice(@, m.prev_log_index, m.entries)]
               c == IF m.leader_commit > t.commit_index
                    THEN Transport!CommitAt(t, Transport!Smaller(m.leader_commit,
                                                                 Transport!LastIndex(t.log)))
                    ELSE t
    <3>1. Transport!OnAppendEntries(i, n, from, m)
            = Transport!Done(c, Transport!AppendReply(i, from, c, TRUE,
                                                      Transport!LastIndex(t.log)), TRUE)
      BY <2>2, <2>5, Zenon DEF Transport!OnAppendEntries
    <3>2. OnAppendEntries(i, n, from, m)
            = Done(d, AppendReply(i, from, d, TRUE, LastIndex(s.log)), TRUE)
      BY <2>5, Zenon DEF OnAppendEntries
    <3>3. t = s
      BY <2>1, <1>5, Zenon
    <3> HIDE DEF t, s
    <3>4. c = d
      BY <2>1, <3>3, <1>6, Zenon
    <3> HIDE DEF c, d
    <3> QED  BY <2>1, <3>1, <3>2, <3>3, <3>4, Zenon
  <2> QED  BY <2>3, <2>4, <2>5
<1>17. \A i, n, from, m : Transport!OnAppendReply(i, n, from, m) = OnAppendReply(i, n, from, m)
  <2> SUFFICES ASSUME NEW i, NEW n, NEW from, NEW m
               PROVE  Transport!OnAppendReply(i, n, from, m) = OnAppendReply(i, n, from, m)
    OBVIOUS
  <2> DEFINE stale == n.role # Leader \/ m.term # n.current_term
  <2>1. /\ \A x : Transport!BackOff(x) = BackOff(x)
        /\ \A a, o, r : Transport!Done(a, o, r) = Done(a, o, r)
        /\ Transport!Leader = Leader
    BY Zenon DEF BackOff, Done, Leader, Transport!BackOff, Transport!Done, Transport!Leader
  <2>2. CASE stale
    BY <2>1, <2>2, Zenon DEF OnAppendReply, Transport!OnAppendReply
  <2>3. CASE ~stale /\ m.success
    <3> DEFINE a == [n EXCEPT !.match_index[from] = m.match_index,
                              !.next_index[from] = m.match_index + 1]
    <3>1. Transport!OnAppendReply(i, n, from, m)
            = Transport!Done(Transport!MaybeAdvanceCommit(a), {}, FALSE)
      BY <2>1, <2>3, Zenon DEF Transport!OnAppendReply
    <3>2. OnAppendReply(i, n, from, m) = Done(MaybeAdvanceCommit(a), {}, FALSE)
      BY <2>3, Zenon DEF OnAppendReply
    <3> HIDE DEF a
    <3> QED  BY <2>1, <3>1, <3>2, <1>9, Zenon
  <2>4. CASE ~stale /\ ~m.success
    BY <2>1, <2>4, Zenon DEF OnAppendReply, Transport!OnAppendReply
  <2> QED  BY <2>2, <2>3, <2>4
<1>18. \A i, n, from, m : Transport!Dispatch(i, n, from, m) = Dispatch(i, n, from, m)
  BY <1>14, <1>15, <1>16, <1>17, ZenonT(30) DEF Dispatch, Transport!Dispatch
<1>19. \A n, m : Transport!AtTermOf(n, m) = AtTermOf(n, m)
  BY Zenon DEF AtTermOf, StepDown, Follower, Transport!AtTermOf,
         Transport!StepDown, Transport!Follower
<1>20. \A i, n, from, m : Transport!Handle(i, n, from, m) = Handle(i, n, from, m)
  BY <1>18, <1>19, ZenonT(30) DEF Handle, Transport!Handle
<1>21. \A S : Transport!IsFiniteSet(S) <=> IsFiniteSet(S)
  BY Zenon DEF IsFiniteSet, Transport!IsFiniteSet
<1>22. /\ Transport!NewNode = NewNode /\ Transport!Leader = Leader
       /\ \A log : Transport!LastIndex(log) = LastIndex(log)
       /\ \A n, out, reset : Transport!Done(n, out, reset) = Done(n, out, reset)
  BY Zenon DEF NewNode, Leader, Follower, LastIndex, Done,
               Transport!NewNode, Transport!Leader, Transport!Follower, Transport!LastIndex, Transport!Done
<1> QED  BY <1>10, <1>11, <1>13, <1>20, <1>21, <1>22, Zenon
-----------------------------------------------------------------------------
(* The order of one handler's envelopes.                                   *)

\* Envelopes a handler may return: finitely many, no two to one node.
Addressed(out) == /\ IsFiniteSet(out)
                  /\ \A e \in out : e.to \in Nat
                  /\ \A d, e \in out : d.to = e.to => d = e

\* Addressed envelopes can be put in order: an envelope's place is the number of
\* those to smaller ids.
LEMMA OrderExists ==
  ASSUME NEW out, Addressed(out)
  PROVE  \E s \in [1..Cardinality(out) -> out] :
           \A k, l \in DOMAIN s : k < l => s[k].to < s[l].to
<1> DEFINE n == Cardinality(out)
           Before(e) == {d \in out : d.to < e.to}
           place == [e \in out |-> Cardinality(Before(e)) + 1]
<1>1. /\ IsFiniteSet(out) /\ n \in Nat
      /\ \A e \in out : e.to \in Nat
      /\ \A d, e \in out : d.to = e.to => d = e
  BY FS_CardinalityType DEF Addressed
<1>2. ASSUME NEW e \in out
      PROVE  IsFiniteSet(Before(e)) /\ Cardinality(Before(e)) \in 0..n - 1
  <2>1. IsFiniteSet(out \ {e}) /\ Cardinality(out \ {e}) = n - 1
    BY <1>1, <1>2, FS_RemoveElement
  <2>2. Before(e) \in SUBSET (out \ {e})
    BY <1>1
  <2>3. IsFiniteSet(Before(e)) /\ Cardinality(Before(e)) <= n - 1
    BY <2>1, <2>2, FS_Subset
  <2>4. Cardinality(Before(e)) \in Nat
    BY <2>3, FS_CardinalityType
  <2> QED  BY <1>1, <2>3, <2>4
<1>3. ASSUME NEW d \in out, NEW e \in out, d.to < e.to
      PROVE  place[d] < place[e]
  <2>1. Before(d) \cup {d} \in SUBSET Before(e)
    BY <1>1, <1>3
  <2>2. d \notin Before(d)
    BY <1>1
  <2>3. Cardinality(Before(d) \cup {d}) = Cardinality(Before(d)) + 1
    BY <1>2, <2>2, FS_AddElement
  <2>4. Cardinality(Before(d) \cup {d}) <= Cardinality(Before(e))
    BY <1>2, <2>1, FS_Subset
  <2> HIDE DEF Before, n
  <2>5. Cardinality(Before(d)) \in Nat /\ Cardinality(Before(e)) \in Nat
    BY <1>1, <1>2
  <2> QED  BY <2>3, <2>4, <2>5
<1>4. place \in [out -> 1..n]
  <2> HIDE DEF Before, n
  <2>1. \A e \in out : Cardinality(Before(e)) + 1 \in 1..n
    BY <1>1, <1>2
  <2> QED  BY <2>1
<1>5. \A e \in out : place[e] \in Nat
  BY <1>1, <1>4
<1> HIDE DEF place
<1>6. place \in Injection(out, 1..n)
  <2>1. \A d, e \in out : place[d] = place[e] => d = e
    <3> SUFFICES ASSUME NEW d \in out, NEW e \in out, place[d] = place[e], d # e
                 PROVE  FALSE
      OBVIOUS
    <3>1. d.to < e.to \/ e.to < d.to
      BY <1>1
    <3> QED  BY <1>3, <1>5, <3>1
  <2> QED  BY <1>4, <2>1 DEF Injection, IsInjective
<1>7. place \in Surjection(out, 1..n)
  <2>1. IsFiniteSet(1..n) /\ Cardinality(1..n) = n
    BY <1>1, FS_Interval
  <2> QED  BY <1>6, <2>1, FS_Injection
<1>8. \A k \in 1..n : \E e \in out : place[e] = k
  BY <1>7 DEF Surjection
<1> DEFINE s == [k \in 1..n |-> CHOOSE e \in out : place[e] = k]
<1>9. \A k \in 1..n : s[k] \in out /\ place[s[k]] = k
  BY <1>8
<1>10. s \in [1..n -> out] /\ DOMAIN s = 1..n
  BY <1>9
<1> HIDE DEF s
<1>11. ASSUME NEW k \in 1..n, NEW l \in 1..n, k < l
       PROVE  s[k].to < s[l].to
  <2>1. s[k] \in out /\ s[l] \in out /\ place[s[k]] = k /\ place[s[l]] = l
    BY <1>9
  <2>2. s[k].to \in Nat /\ s[l].to \in Nat
    BY <1>1, <2>1
  <2>3. CASE s[l].to < s[k].to
    <3>1. place[s[l]] < place[s[k]]
      BY <1>3, <2>1, <2>3
    <3> QED  BY <1>1, <1>11, <2>1, <3>1
  <2>4. CASE s[l].to = s[k].to
    BY <1>1, <1>11, <2>1, <2>4
  <2> QED  BY <2>2, <2>3, <2>4
<1> QED  BY <1>10, <1>11

\* InOrder lists exactly the envelopes it is given.
LEMMA InOrderLists ==
  ASSUME NEW out, Addressed(out)
  PROVE  /\ InOrder(out) \in Seq(out)
         /\ \A e \in out : \E k \in 1..Len(InOrder(out)) : InOrder(out)[k] = e
<1> DEFINE n == Cardinality(out)
           s == InOrder(out)
<1>1. /\ IsFiniteSet(out) /\ n \in Nat
      /\ \A e \in out : e.to \in Nat
  BY FS_CardinalityType DEF Addressed
<1>2. s \in [1..n -> out] /\ \A k, l \in DOMAIN s : k < l => s[k].to < s[l].to
  BY OrderExists DEF InOrder
<1> HIDE DEF s
<1>3. s \in Seq(out) /\ Len(s) = n
  BY <1>1, <1>2
<1>4. s \in Injection(1..n, out)
  <2>1. \A k, l \in 1..n : s[k] = s[l] => k = l
    <3> SUFFICES ASSUME NEW k \in 1..n, NEW l \in 1..n, s[k] = s[l], k # l
                 PROVE  FALSE
      OBVIOUS
    <3>1. k < l \/ l < k
      BY <1>1
    <3>2. s[k].to < s[l].to \/ s[l].to < s[k].to
      BY <1>2, <3>1
    <3>3. s[k].to \in Nat
      BY <1>1, <1>2
    <3> QED  BY <3>2, <3>3
  <2> QED  BY <1>2, <2>1 DEF Injection, IsInjective
<1>5. s \in Surjection(1..n, out)
  <2>1. Cardinality(1..n) = n
    BY <1>1, FS_Interval
  <2> QED  BY <1>1, <1>4, <2>1, FS_Injection
<1> QED  BY <1>3, <1>5 DEF Surjection, s


\* The ids of the nodes are their places in the cluster.
LEMMA Ids == /\ IsFiniteSet(Server) /\ Cardinality(Server) \in Nat
             /\ \A i \in Server : i \in Nat /\ i < Cardinality(Server)
<1>1. IsFiniteSet(Server) /\ Cardinality(Server) \in Nat
  BY ServerAssumption, FS_CardinalityType
<1> QED  BY <1>1, SimAssumption

\* No envelope, one reply, and one envelope to each peer are addressed, and so is
\* what gets through of them.
LEMMA AddressedOuts ==
  /\ Addressed({})
  /\ \A i, m : \A to \in Server : Addressed(Reply(i, to, m))
  /\ \A i : \A msgs : Addressed({[from |-> i, to |-> p, msg |-> msgs[p]] : p \in Peers(i)})
  /\ \A out : Addressed(out) => Addressed(Reachable(out))
<1>1. Addressed({})
  BY FS_EmptySet DEF Addressed
<1>2. ASSUME NEW i, NEW m, NEW to \in Server
      PROVE  Addressed(Reply(i, to, m))
  <2> DEFINE e == [from |-> i, to |-> to, msg |-> m]
  <2>1. e.to = to /\ to \in Nat
    BY Ids
  <2>2. IsFiniteSet({e})
    BY FS_Singleton
  <2> HIDE DEF e
  <2>3. Addressed({e})
    BY <2>1, <2>2 DEF Addressed
  <2> QED  BY <2>3 DEF Reply, e
<1>3. ASSUME NEW i, NEW msgs
      PROVE  Addressed({[from |-> i, to |-> p, msg |-> msgs[p]] : p \in Peers(i)})
  <2> DEFINE Env(p) == [from |-> i, to |-> p, msg |-> msgs[p]]
             out == {Env(p) : p \in Peers(i)}
             f == [p \in Peers(i) |-> Env(p)]
  <2>1. IsFiniteSet(Peers(i)) /\ \A p \in Peers(i) : p \in Nat
    BY Ids, FS_RemoveElement DEF Peers
  <2>2. \A p : Env(p).to = p
    OBVIOUS
  <2> HIDE DEF Env
  <2>3. f \in Surjection(Peers(i), out)
    BY DEF Surjection
  <2>4. IsFiniteSet(out)
    BY <2>1, <2>3, FS_Surjection
  <2>5. Addressed(out)
    BY <2>1, <2>2, <2>4 DEF Addressed
  <2> QED  BY <2>5 DEF Env
<1>4. ASSUME NEW out, Addressed(out)
      PROVE  Addressed(Reachable(out))
  <2>1. Reachable(out) \in SUBSET out
    BY DEF Reachable
  <2> QED  BY <1>4, <2>1, FS_Subset DEF Addressed
<1> QED  BY <1>1, <1>2, <1>3, <1>4

\* Every handler returns addressed envelopes.
LEMMA BroadcastAddressed ==
  ASSUME NEW i, NEW n
  PROVE  /\ Addressed(BroadcastAppendEntries(i, n))
         /\ Addressed(StartElection(i, n).out)
         /\ \A command : Addressed(ClientPropose(i, n, command).out)
<1>1. ASSUME NEW a PROVE Addressed(BroadcastAppendEntries(i, a))
  <2> DEFINE msgs == [p \in Peers(i) |-> AppendEntriesFor(a, p)]
  <2>1. BroadcastAppendEntries(i, a)
          = {[from |-> i, to |-> p, msg |-> msgs[p]] : p \in Peers(i)}
    BY DEF BroadcastAppendEntries
  <2> HIDE DEF msgs
  <2> QED  BY <2>1, AddressedOuts
<1>2. Addressed(StartElection(i, n).out)
  <2>1. PICK m : StartElection(i, n).out
                   = {[from |-> i, to |-> p, msg |-> m] : p \in Peers(i)}
    BY DEF StartElection, Done
  <2> DEFINE msgs == [p \in Peers(i) |-> m]
  <2>2. StartElection(i, n).out
          = {[from |-> i, to |-> p, msg |-> msgs[p]] : p \in Peers(i)}
    BY <2>1
  <2> HIDE DEF msgs
  <2> QED  BY <2>2, AddressedOuts
<1>3. ASSUME NEW command PROVE Addressed(ClientPropose(i, n, command).out)
  <2>1. \/ ClientPropose(i, n, command).out = {}
        \/ \E a : ClientPropose(i, n, command).out = BroadcastAppendEntries(i, a)
    BY Zenon DEF ClientPropose, Done
  <2> QED  BY <1>1, <2>1, AddressedOuts
<1> QED  BY <1>1, <1>2, <1>3

MessageTypes == {"RequestVote", "RequestVoteReply", "AppendEntries", "AppendEntriesReply"}

\* Handle is the handler of the message's type at the term the universal rule
\* leaves, but for `reset`.
LEMMA HandleOut ==
  ASSUME NEW i, NEW n, NEW from, NEW m, m.type \in MessageTypes
  PROVE  \E p : LET h == Handle(i, n, from, m)
                IN  \/ h.out = OnRequestVote(i, p, from, m).out
                    \/ h.out = OnVoteReply(i, p, from, m).out
                    \/ h.out = OnAppendEntries(i, p, from, m).out
                    \/ h.out = OnAppendReply(i, p, from, m).out
<1> DEFINE p == AtTermOf(n, m)
           r == Dispatch(i, p, from, m)
<1>1. \/ r = OnRequestVote(i, p, from, m)
      \/ r = OnVoteReply(i, p, from, m)
      \/ r = OnAppendEntries(i, p, from, m)
      \/ r = OnAppendReply(i, p, from, m)
  BY DEF Dispatch, MessageTypes
<1>2. Handle(i, n, from, m) = [r EXCEPT !.reset = @ \/ m.term > n.current_term]
  BY DEF Handle
<1> HIDE DEF p
<1>3. \E x, y, z : r = Done(x, y, z)
  <2> HIDE DEF r
  <2>1. CASE r = OnRequestVote(i, p, from, m)
    BY <2>1, Zenon DEF OnRequestVote
  <2>2. CASE r = OnVoteReply(i, p, from, m)
    BY <2>2, Zenon DEF OnVoteReply
  <2>3. CASE r = OnAppendEntries(i, p, from, m)
    BY <2>3, Zenon DEF OnAppendEntries
  <2>4. CASE r = OnAppendReply(i, p, from, m)
    BY <2>4, Zenon DEF OnAppendReply
  <2> QED  BY <1>1, <2>1, <2>2, <2>3, <2>4
<1> HIDE DEF r
<1>4. Handle(i, n, from, m).out = r.out
  BY <1>2, <1>3 DEF Done
<1> QED  BY <1>1, <1>4

\* So does Handle, for a message from a node of the cluster.
LEMMA HandleAddressed ==
  ASSUME NEW i, NEW n, NEW from \in Server, NEW m, m.type \in MessageTypes
  PROVE  Addressed(Handle(i, n, from, m).out)
<1>1. ASSUME NEW p PROVE Addressed(OnRequestVote(i, p, from, m).out)
  <2>1. \E a : OnRequestVote(i, p, from, m).out = Reply(i, from, a)
    BY Zenon DEF OnRequestVote, Done
  <2> QED  BY <2>1, AddressedOuts
<1>2. ASSUME NEW p PROVE Addressed(OnVoteReply(i, p, from, m).out)
  <2>1. \/ OnVoteReply(i, p, from, m).out = {}
        \/ \E a : OnVoteReply(i, p, from, m).out = BroadcastAppendEntries(i, a)
    BY Zenon DEF OnVoteReply, Done
  <2> QED  BY <2>1, AddressedOuts, BroadcastAddressed
<1>3. ASSUME NEW p PROVE Addressed(OnAppendEntries(i, p, from, m).out)
  <2>1. \E a : OnAppendEntries(i, p, from, m).out = Reply(i, from, a)
    BY Zenon DEF OnAppendEntries, Done, AppendReply
  <2> QED  BY <2>1, AddressedOuts
<1>4. ASSUME NEW p PROVE Addressed(OnAppendReply(i, p, from, m).out)
  <2>1. OnAppendReply(i, p, from, m).out = {}
    BY Zenon DEF OnAppendReply, Done
  <2> QED  BY <2>1, AddressedOuts
<1> QED  BY <1>1, <1>2, <1>3, <1>4, HandleOut


-----------------------------------------------------------------------------
(* A schedule of the simulator is a schedule of Raft.                      *)

\* The bus holds messages that were sent, and no state is ill typed.
BusInv == R!TypeOK /\ bus \in Seq(sent)

Took(i, r) == /\ node' = [node EXCEPT ![i] = r.node]
              /\ sent' = sent \cup r.out

\* One handler of one node ran, on a message that was sent if it takes one.
RaftStep ==
  \/ \E i \in Server : /\ node[i].role # Leader
                       /\ node[i].current_term < MaxTerm
                       /\ Took(i, StartElection(i, node[i]))
  \/ \E i \in Server :
       /\ node[i].role = Leader
       /\ Took(i, Done(node[i], BroadcastAppendEntries(i, node[i]), FALSE))
  \/ \E i \in Server, command \in Command :
       /\ node[i].role = Leader /\ LastIndex(node[i].log) < MaxLog
       /\ Took(i, ClientPropose(i, node[i], command))
  \/ \E e \in sent : /\ e.msg.type \in MessageTypes
                     /\ Took(e.to, Handle(e.to, node[e.to], e.from, e.msg))

\* Such a step is a step of Raft.
LEMMA RaftSteps == RaftStep => R!Next
<1> SUFFICES ASSUME RaftStep PROVE R!Next
  OBVIOUS
<1>1. \A i, r : R!Step(i, r) <=> Took(i, r)
  BY DEF R!Step, Took
<1>2. ASSUME NEW i \in Server, node[i].role # Leader,
             node[i].current_term < MaxTerm, Took(i, StartElection(i, node[i]))
      PROVE  R!ElectionTimeout(i)
  BY <1>1, <1>2, RaftHandlers DEF R!ElectionTimeout
<1>3. ASSUME NEW i \in Server, node[i].role = Leader,
             Took(i, Done(node[i], BroadcastAppendEntries(i, node[i]), FALSE))
      PROVE  R!Heartbeat(i)
  BY <1>1, <1>3, RaftHandlers DEF R!Heartbeat
<1>4. ASSUME NEW i \in Server, NEW command \in Command, node[i].role = Leader,
             LastIndex(node[i].log) < MaxLog,
             Took(i, ClientPropose(i, node[i], command))
      PROVE  R!Propose(i, command)
  BY <1>1, <1>4, RaftHandlers DEF R!Propose
<1>5. ASSUME NEW e \in sent,
             Took(e.to, Handle(e.to, node[e.to], e.from, e.msg))
      PROVE  R!Receive(e.msg.type)
  BY <1>1, <1>5, RaftHandlers DEF R!Receive
<1> QED  BY <1>2, <1>3, <1>4, <1>5
         DEF RaftStep, MessageTypes, R!Next, R!ReceiveRequestVote,
             R!ReceiveVoteReply, R!ReceiveAppendEntries, R!ReceiveAppendReply

\* And of the specification that RefinesRaft names.
LEMMA TransportSteps == RaftStep => Transport!Next
<1> SUFFICES ASSUME RaftStep PROVE Transport!Next
  OBVIOUS
<1>1. \A i, r : Transport!Step(i, r) <=> Took(i, r)
  BY DEF Transport!Step, Took
<1>2. ASSUME NEW i \in Server, node[i].role # Leader,
             node[i].current_term < MaxTerm, Took(i, StartElection(i, node[i]))
      PROVE  Transport!ElectionTimeout(i)
  BY <1>1, <1>2, TransportHandlers DEF Transport!ElectionTimeout
<1>3. ASSUME NEW i \in Server, node[i].role = Leader,
             Took(i, Done(node[i], BroadcastAppendEntries(i, node[i]), FALSE))
      PROVE  Transport!Heartbeat(i)
  BY <1>1, <1>3, TransportHandlers DEF Transport!Heartbeat
<1>4. ASSUME NEW i \in Server, NEW command \in Command, node[i].role = Leader,
             LastIndex(node[i].log) < MaxLog,
             Took(i, ClientPropose(i, node[i], command))
      PROVE  Transport!Propose(i, command)
  BY <1>1, <1>4, TransportHandlers DEF Transport!Propose
<1>5. ASSUME NEW e \in sent,
             Took(e.to, Handle(e.to, node[e.to], e.from, e.msg))
      PROVE  Transport!Receive(e.msg.type)
  BY <1>1, <1>5, TransportHandlers DEF Transport!Receive
<1> QED  BY <1>2, <1>3, <1>4, <1>5
         DEF RaftStep, MessageTypes, Transport!Next, Transport!ReceiveRequestVote,
             Transport!ReceiveVoteReply, Transport!ReceiveAppendEntries,
             Transport!ReceiveAppendReply

\* What the theorems about Raft assume of the constants holds here.
LEMMA RaftAssumptions == /\ R!IsFiniteSet(Server) /\ Nil \notin Server
                         /\ MaxTerm \in Nat /\ MaxLog \in Nat
<1>1. R!IsFiniteSet(Server)
  BY ServerAssumption, RaftHandlers
<1> QED  BY <1>1, ServerAssumption, SimAssumption

\* What was sent goes from a node to a node, and has one of the four types.
LEMMA SentType ==
  ASSUME R!TypeOK, NEW e \in sent
  PROVE  e.from \in Server /\ e.to \in Server /\ e.msg.type \in MessageTypes
  BY DEF R!TypeOK, R!Envelope, R!Message, R!RequestVote, R!RequestVoteReply,
         R!AppendEntries, R!AppendEntriesReply, MessageTypes

\* Installing a result takes the handler's step and puts nothing on the bus that
\* was not sent.
LEMMA InstallTakes ==
  ASSUME NEW i, NEW r, NEW queue \in Seq(sent), Addressed(r.out), Install(i, r, queue)
  PROVE  Took(i, r) /\ bus' \in Seq(sent')
<1> DEFINE new == InOrder(Reachable(r.out))
<1>1. new \in Seq(Reachable(r.out))
  BY AddressedOuts, InOrderLists
<1>2. Took(i, r) /\ bus' = queue \o new
  BY DEF Install, Took
<1>3. Reachable(r.out) \subseteq sent' /\ sent \subseteq sent'
  BY <1>2 DEF Reachable, Took
<1> HIDE DEF new
<1>4. new \in Seq(sent') /\ queue \in Seq(sent')
  BY <1>1, <1>3
<1> QED  BY <1>2, <1>4

\* Every step of the simulator is a step of Raft or leaves its variables alone.
LEMMA SimTakes ==
  ASSUME BusInv, [Next]_vars
  PROVE  /\ RaftStep \/ UNCHANGED <<node, sent>>
         /\ bus' \in Seq(sent')
<1> USE DEF BusInv
<1>1. ASSUME NEW i \in Server, Campaign(i)
      PROVE  RaftStep /\ bus' \in Seq(sent')
  BY <1>1, BroadcastAddressed, InstallTakes DEF Campaign, RaftStep
<1>2. ASSUME NEW i \in Server, Beat(i)
      PROVE  RaftStep /\ bus' \in Seq(sent')
  <2> DEFINE r == Done(node[i], BroadcastAppendEntries(i, node[i]), FALSE)
  <2>1. r.out = BroadcastAppendEntries(i, node[i])
    BY DEF Done
  <2>2. node[i].role = Leader /\ Install(i, r, bus)
    BY <1>2 DEF Beat
  <2> HIDE DEF r
  <2>3. Took(i, r) /\ bus' \in Seq(sent')
    BY <2>1, <2>2, BroadcastAddressed, InstallTakes
  <2> QED  BY <2>2, <2>3 DEF RaftStep, r
<1>3. ASSUME NEW i \in Server, NEW command \in Command, Propose(i, command)
      PROVE  RaftStep /\ bus' \in Seq(sent')
  BY <1>3, BroadcastAddressed, InstallTakes DEF Propose, RaftStep
<1>4. ASSUME Deliver
      PROVE  /\ RaftStep \/ UNCHANGED <<node, sent>>
             /\ bus' \in Seq(sent')
  <2> DEFINE e == Head(bus)
             r == Handle(e.to, node[e.to], e.from, e.msg)
  <2>1. e \in sent /\ Tail(bus) \in Seq(sent)
    BY <1>4, HeadTailProperties DEF Deliver
  <2>2. \/ Install(e.to, r, Tail(bus))
        \/ bus' = Tail(bus) /\ UNCHANGED <<node, sent>>
    BY <1>4 DEF Deliver
  <2>3. e.from \in Server /\ e.msg.type \in MessageTypes
    BY <2>1, SentType
  <2> HIDE DEF e
  <2>4. Addressed(r.out)
    BY <2>3, HandleAddressed
  <2>5. CASE Install(e.to, r, Tail(bus))
    <3>1. Took(e.to, r) /\ bus' \in Seq(sent')
      BY <2>1, <2>4, <2>5, InstallTakes
    <3> QED  BY <2>1, <2>3, <3>1 DEF RaftStep
  <2>6. CASE bus' = Tail(bus) /\ UNCHANGED <<node, sent>>
    BY <2>1, <2>6
  <2> QED  BY <2>2, <2>5, <2>6
<1>5. ASSUME UNCHANGED <<node, bus, sent>>
      PROVE  UNCHANGED <<node, sent>> /\ bus' \in Seq(sent')
  BY <1>5
<1> QED  BY <1>1, <1>2, <1>3, <1>4, <1>5
         DEF Next, Advance, Rest, SetPartition, vars

\* Every step keeps the bus typed.
LEMMA BusNext == BusInv /\ [Next]_vars => BusInv'
<1> SUFFICES ASSUME BusInv, [Next]_vars PROVE BusInv'
  OBVIOUS
<1>1. (RaftStep \/ UNCHANGED <<node, sent>>) /\ bus' \in Seq(sent')
  BY SimTakes
<1>2. [R!Next]_R!vars
  BY <1>1, RaftSteps DEF R!vars
<1>3. R!TypeOK'
  BY <1>2, R!NextType, RaftAssumptions DEF BusInv
<1> QED  BY <1>1, <1>3 DEF BusInv

\* It holds of every reachable state.
LEMMA BusInvariant == Spec => []BusInv
<1>1. Init => BusInv
  <2> SUFFICES ASSUME Init PROVE BusInv
    OBVIOUS
  <2>1. R!Init
    BY RaftHandlers DEF Init, R!Init
  <2>2. R!TypeOK
    BY <2>1, R!InitType, RaftAssumptions
  <2> QED  BY <2>2 DEF BusInv, Init
<1>2. BusInv /\ [Next]_vars => BusInv'
  BY BusNext
<1> QED  BY <1>1, <1>2, PTL DEF Spec

\* The simulated cluster is a Raft cluster: whatever the clock, the bus and the
\* partition do, every handler runs on a message that was sent and the nodes take
\* only steps that any interleaving of loss and reordering allows.
THEOREM SimRefinesRaft == Spec => RefinesRaft
<1>1. Init => Transport!Init
  BY TransportHandlers DEF Init, Transport!Init
<1>2. BusInv /\ [Next]_vars => [Transport!Next]_Transport!vars
  BY SimTakes, TransportSteps DEF Transport!vars
<1> QED  BY <1>1, <1>2, BusInvariant, PTL DEF Spec, RefinesRaft, Transport!Spec

\* So all that is proved of Raft holds of it.
LEMMA SimIsRaft == Spec => R!Spec
<1>1. Init => R!Init
  BY RaftHandlers DEF Init, R!Init
<1>2. BusInv /\ [Next]_vars => [R!Next]_R!vars
  BY SimTakes, RaftSteps DEF R!vars
<1> QED  BY <1>1, <1>2, BusInvariant, PTL DEF Spec, R!Spec

\* In the simulation too no term has two leaders, logs that share an entry are
\* one up to it, and no node takes back what it applied, its term or its vote.
THEOREM SimulationIsSafe ==
  Spec => /\ [](R!ElectionSafety /\ R!OneVotePerTerm /\ R!LogMatching)
          /\ R!LeaderAppendOnly /\ R!AppliedOnce /\ R!TermAndVoteKept
          /\ R!RoleChangesHaveCause
<1>1. /\ R!IsFiniteSet(Server) /\ Nil \notin Server
      /\ MaxTerm \in Nat /\ MaxLog \in Nat
  BY RaftAssumptions
<1> QED  BY <1>1, SimIsRaft, R!ElectionSafe, R!VotesOnce, R!LogsMatch,
            R!LeaderAppends, R!AppliesOnce, R!TermAndVote, R!RolesHaveCause, PTL


-----------------------------------------------------------------------------
(* A leader is not challenged while it is heard in time.                   *)

\* The network is whole, each call of tick is followed by the delivery of all
\* that is on the bus, and a heartbeat is due so early that a tick which finds it
\* passed does not find a follower's deadline passed.
Steady == /\ Cuts \subseteq {{}} /\ MaxBus = 0
          /\ MaxAdvance < ELECTION_TIMEOUT_BASE
          /\ HEARTBEAT_INTERVAL + MaxAdvance <= ELECTION_TIMEOUT_BASE

Follows(j, i) == /\ i # j
                 /\ node[i].role = Leader /\ node[j].role = Follower
                 /\ node[j].current_term = node[i].current_term

\* The messages on a bus.
Wire(queue) == {queue[k] : k \in 1..Len(queue)}

\* d is what leader i of the term sends node j.
Rules(d, i, j, term) == /\ d.from = i /\ d.to = j
                        /\ d.msg.type = "AppendEntries" /\ d.msg.term = term

InFlight(i, j) == \E d \in Wire(bus) : Rules(d, i, j, node[i].current_term)

\* The follower's deadline lies behind the leader's next heartbeat by all that
\* separates the two intervals.
Behind(i, j) ==
  election_left[j] >= heartbeat_left[i] + ELECTION_TIMEOUT_BASE - HEARTBEAT_INTERVAL

\* What leader i has done for the deadline of its follower j: between two ticks it
\* is behind the heartbeat, or was just drawn, or is about to be; within a tick it
\* has not passed, and a heartbeat that is due goes out when the turn is i's.
Lease(i, j) ==
  /\ ~Idle => election_left[j] >= 1
  /\ turn <= i => heartbeat_left[i] = 0 \/ Behind(i, j)
  /\ turn > i => \/ heartbeat_left[i] >= 1 /\ Behind(i, j)
                 \/ election_left[j] >= ELECTION_TIMEOUT_BASE
                 \/ InFlight(i, j)

Timers == /\ side_a = {}
          /\ turn \in 0..Cardinality(Server)
          /\ election_left \in [Server -> Nat]
          /\ heartbeat_left \in [Server -> 0..HEARTBEAT_INTERVAL]

Leases == \A i, j \in Server : Follows(j, i) => Lease(i, j)

SimInv == BusInv /\ R!ElectionInv /\ R!LedInv /\ Timers /\ Leases

\* The constants of the timers are naturals.
LEMMA TimerConstants ==
  /\ ELECTION_TIMEOUT_BASE \in Nat /\ HEARTBEAT_INTERVAL \in Nat
  /\ MaxAdvance \in Nat /\ MaxBus \in Nat
  /\ ELECTION_JITTER \in Nat \ {0}
  /\ HEARTBEAT_INTERVAL < ELECTION_TIMEOUT_BASE
  BY SimAssumption

\* What installing a result does to the nodes, the deadlines and the bus of a
\* whole network.
LEMMA InstallEffect ==
  ASSUME BusInv, Timers, NEW i \in Server, NEW r, NEW queue \in Seq(sent),
         Addressed(r.out), Install(i, r, queue)
  PROVE  /\ node'[i] = r.node
         /\ \A j \in Server : j # i =>
              node'[j] = node[j] /\ election_left'[j] = election_left[j]
         /\ \/ election_left'[i] >= ELECTION_TIMEOUT_BASE
            \/ ~r.reset /\ election_left'[i] = election_left[i]
         /\ side_a' = {} /\ election_left' \in [Server -> Nat]
         /\ Wire(queue) \cup r.out \subseteq Wire(bus')
<1>1. node \in [Server -> R!Node] /\ node' = [node EXCEPT ![i] = r.node]
  BY DEF BusInv, R!TypeOK, Install
<1>2. /\ side_a' = {} /\ election_left' \in [Server -> Nat]
      /\ \A j \in Server : j # i => election_left'[j] = election_left[j]
      /\ \/ election_left'[i] >= ELECTION_TIMEOUT_BASE
         \/ ~r.reset /\ election_left'[i] = election_left[i]
  <2>1. CASE r.reset
    <3>1. PICK jitter \in 0..ELECTION_JITTER - 1 :
            election_left' = [election_left EXCEPT ![i] = ELECTION_TIMEOUT_BASE + jitter]
      BY <2>1 DEF Install
    <3> QED  BY <3>1, TimerConstants DEF Install, Timers
  <2>2. CASE ~r.reset
    BY <2>2 DEF Install, Timers
  <2> QED  BY <2>1, <2>2
<1>3. Wire(queue) \cup r.out \subseteq Wire(bus')
  <2> DEFINE new == InOrder(Reachable(r.out))
  <2>1. Reachable(r.out) = r.out
    BY DEF Reachable, Connected, Timers
  <2>2. new \in Seq(r.out) /\ \A e \in r.out : \E k \in 1..Len(new) : new[k] = e
    BY <2>1, InOrderLists
  <2>3. bus' = queue \o new
    BY DEF Install
  <2> HIDE DEF new
  <2>4. /\ Len(bus') = Len(queue) + Len(new)
        /\ Len(queue) \in Nat /\ Len(new) \in Nat
        /\ \A k \in 1..Len(queue) : bus'[k] = queue[k]
        /\ \A k \in 1..Len(new) : bus'[Len(queue) + k] = new[k]
    BY <2>2, <2>3
  <2>5. \A k \in 1..Len(queue) : k \in 1..Len(bus')
    BY <2>4
  <2>6. \A k \in 1..Len(new) : Len(queue) + k \in 1..Len(bus')
    BY <2>4
  <2>7. Wire(queue) \subseteq Wire(bus')
    BY <2>4, <2>5 DEF Wire
  <2>8. r.out \subseteq Wire(bus')
    BY <2>2, <2>4, <2>6 DEF Wire
  <2> QED  BY <2>7, <2>8
<1> QED  BY <1>1, <1>2, <1>3

\* A leader's broadcast rules every other node.
LEMMA BroadcastRules ==
  ASSUME NEW i \in Server, NEW n, NEW j \in Server, i # j
  PROVE  \E d \in BroadcastAppendEntries(i, n) : Rules(d, i, j, n.current_term)
<1> DEFINE d == [from |-> i, to |-> j, msg |-> AppendEntriesFor(n, j)]
<1>1. d \in BroadcastAppendEntries(i, n)
  BY DEF BroadcastAppendEntries, Peers
<1>2. AppendEntriesFor(n, j).type = "AppendEntries"
      /\ AppendEntriesFor(n, j).term = n.current_term
  BY DEF AppendEntriesFor
<1>3. Rules(d, i, j, n.current_term)
  BY <1>2 DEF Rules
<1> HIDE DEF d
<1> QED  BY <1>1, <1>3


\* A handled message leaves its node in its role and term, makes a leader of a
\* candidate that says so to all others, or makes a follower, which then draws its
\* deadline anew, in the term of the message.
Answered(i, n, h, m) ==
  \/ h.node.role = n.role /\ h.node.current_term = n.current_term
  \/ /\ n.role # Leader /\ n.role # Follower /\ h.node.role = Leader
     /\ \A j \in Server : j # i =>
          \E d \in h.out : Rules(d, i, j, h.node.current_term)
  \/ /\ h.node.role = Follower /\ h.reset
     /\ h.node.current_term = m.term
     /\ \/ m.term > n.current_term
        \/ m.type = "AppendEntries" /\ m.term = n.current_term

LEMMA HandleAnswered ==
  ASSUME R!TypeOK, R!ElectionInv, NEW e \in sent
  PROVE  LET n == node[e.to]
             h == Handle(e.to, n, e.from, e.msg)
         IN  /\ Answered(e.to, n, h, e.msg)
             /\ e.msg.type = "AppendEntries" /\ e.msg.term >= n.current_term
                  => h.reset
<1> DEFINE n == node[e.to]
           h == Handle(e.to, n, e.from, e.msg)
           m == e.msg
<1>1. /\ R!Answers(e.to, n, h, m)
      /\ m.type = "AppendEntries" /\ m.term >= n.current_term => h.reset
  BY R!HandleAnswers, RaftAssumptions, RaftHandlers
<1>2. /\ R!Follower = Follower /\ R!Candidate = Candidate /\ R!Leader = Leader
  BY DEF R!Follower, R!Candidate, R!Leader, Follower, Candidate, Leader
<1>3. e.to \in Server /\ n.current_term \in Nat /\ m.term \in Nat
  <2>1. e.to \in Server /\ n \in R!Node /\ e \in R!Envelope
    BY SentType DEF R!TypeOK
  <2> QED  BY <2>1 DEF R!Node, R!Envelope, R!Message, R!RequestVote,
                   R!RequestVoteReply, R!AppendEntries, R!AppendEntriesReply
<1> HIDE DEF n, h, m
<1>4. CASE R!Still(n, h)
  BY <1>1, <1>4 DEF R!Still, Answered, n, h, m
<1>5. CASE R!Wins(e.to, n, h)
  <2>1. /\ n.role = Candidate /\ h.node.role = Leader
        /\ h.out = BroadcastAppendEntries(e.to, h.node)
    BY <1>2, <1>5, RaftHandlers DEF R!Wins
  <2>2. \A j \in Server : j # e.to =>
          \E d \in h.out : Rules(d, e.to, j, h.node.current_term)
    BY <1>3, <2>1, BroadcastRules
  <2>3. Answered(e.to, n, h, m)
    BY <2>1, <2>2 DEF Answered, Candidate, Leader, Follower
  <2> QED  BY <1>1, <2>3 DEF n, h, m
<1>6. CASE R!Yields(n, h) /\ h.node.current_term = m.term /\ h.reset
  <2>1. Answered(e.to, n, h, m)
    BY <1>2, <1>6 DEF R!Yields, Answered
  <2> QED  BY <1>1, <2>1 DEF n, h, m
<1>7. CASE m.type = "AppendEntries" /\ R!Hears(n, h, m) /\ h.reset
  <2>1. Answered(e.to, n, h, m)
    BY <1>2, <1>3, <1>7 DEF R!Hears, Answered
  <2> QED  BY <1>1, <2>1 DEF n, h, m
<1> QED  BY <1>1, <1>4, <1>5, <1>6, <1>7 DEF R!Answers

\* Between two ticks a lease holds as long as neither end lets go of it, and a
\* heartbeat under way is lost only to a deadline drawn anew.
LEMMA LeaseKept ==
  ASSUME Timers, Timers', NEW i \in Server, NEW j \in Server,
         Idle, turn' = turn, Lease(i, j),
         heartbeat_left'[i] = heartbeat_left[i],
         \/ election_left'[j] >= ELECTION_TIMEOUT_BASE
         \/ /\ election_left'[j] = election_left[j]
            /\ InFlight(i, j) => InFlight(i, j)'
  PROVE  Lease(i, j)'
<1>1. /\ Cardinality(Server) \in Nat /\ i \in Nat /\ i < Cardinality(Server)
      /\ ELECTION_TIMEOUT_BASE \in Nat /\ HEARTBEAT_INTERVAL \in Nat
      /\ HEARTBEAT_INTERVAL < ELECTION_TIMEOUT_BASE
  BY Ids, TimerConstants
<1>2. turn > i /\ Idle'
  BY <1>1 DEF Idle
<1>3. /\ election_left[j] \in Nat /\ heartbeat_left[i] \in 0..HEARTBEAT_INTERVAL
      /\ election_left'[j] \in Nat
  BY DEF Timers
<1>4. ~(turn' <= i)
  BY <1>1, <1>2 DEF Timers
<1> QED  BY <1>1, <1>2, <1>3, <1>4 DEF Lease, Behind, Idle

\* A lease begins with a deadline just drawn or a message under way.
LEMMA LeaseBegins ==
  ASSUME Timers', NEW i \in Server, NEW j \in Server, Idle',
         election_left'[j] >= ELECTION_TIMEOUT_BASE \/ InFlight(i, j)'
  PROVE  Lease(i, j)'
<1>1. Cardinality(Server) \in Nat /\ i \in Nat /\ i < Cardinality(Server)
  BY Ids
<1> QED  BY <1>1 DEF Lease, Idle

\* Within a tick a lease outlasts the turn of any node that leaves the deadline
\* alone, when the leader's own turn sends what is due.
LEMMA LeaseFired ==
  ASSUME Timers, NEW k \in Server, NEW i \in Server, NEW j \in Server,
         turn = k, turn' = k + 1, Lease(i, j),
         election_left'[j] = election_left[j],
         \/ /\ heartbeat_left'[i] = heartbeat_left[i]
            /\ InFlight(i, j) => InFlight(i, j)'
            /\ k # i \/ heartbeat_left[i] >= 1
         \/ InFlight(i, j)' /\ k = i
  PROVE  Lease(i, j)'
<1>1. /\ Cardinality(Server) \in Nat /\ i \in Nat /\ k \in Nat
      /\ k < Cardinality(Server)
      /\ ELECTION_TIMEOUT_BASE \in Nat /\ HEARTBEAT_INTERVAL \in Nat
  BY Ids, TimerConstants
<1>2. election_left[j] \in Nat /\ heartbeat_left[i] \in Nat
  BY DEF Timers
<1>3. ~Idle
  BY <1>1 DEF Idle
<1> QED  BY <1>1, <1>2, <1>3 DEF Lease, Behind


\* A message under way stays so while the bus only grows.
LEMMA InFlightStays ==
  ASSUME NEW i, NEW j, Wire(bus) \subseteq Wire(bus'),
         node'[i].current_term = node[i].current_term, InFlight(i, j)
  PROVE  InFlight(i, j)'
  BY DEF InFlight

\* The clock moves when the bus is empty: no deadline of a follower passes before
\* its leader's heartbeat has gone out.
LEMMA AdvanceLeases ==
  ASSUME Steady, SimInv, NEW by \in 1..MaxAdvance, Advance(by)
  PROVE  Timers' /\ Leases'
<1>1. /\ ELECTION_TIMEOUT_BASE \in Nat /\ HEARTBEAT_INTERVAL \in Nat
      /\ MaxAdvance \in Nat /\ HEARTBEAT_INTERVAL < ELECTION_TIMEOUT_BASE
      /\ Cardinality(Server) \in Nat
  BY TimerConstants, Ids
<1>2. /\ election_left' = Minus(election_left, by)
      /\ heartbeat_left' = Minus(heartbeat_left, by)
      /\ turn' = 0 /\ node' = node /\ side_a' = side_a /\ Idle
  BY DEF Advance
<1>3. Timers'
  BY <1>1, <1>2 DEF SimInv, Timers, Minus
<1>4. Wire(bus) = {}
  <2>1. Len(bus) = 0
    BY DEF Advance, Steady, SimInv, BusInv
  <2> QED  BY <2>1 DEF Wire
<1>5. ASSUME NEW i \in Server, NEW j \in Server, Follows(j, i)'
      PROVE  Lease(i, j)'
  <2>1. Follows(j, i) /\ Lease(i, j)
    BY <1>2, <1>5 DEF Follows, SimInv, Leases
  <2>2. i \in Nat /\ i < Cardinality(Server)
    BY Ids
  <2> DEFINE e == election_left[j]
             h == heartbeat_left[i]
  <2>3. e \in Nat /\ h \in Nat /\ h <= HEARTBEAT_INTERVAL
    BY <1>1 DEF SimInv, Timers
  <2>4. \/ h >= 1 /\ e >= h + ELECTION_TIMEOUT_BASE - HEARTBEAT_INTERVAL
        \/ e >= ELECTION_TIMEOUT_BASE
    BY <1>2, <1>4, <2>1, <2>2 DEF Lease, InFlight, Behind, Idle
  <2>5. /\ election_left'[j] = IF e > by THEN e - by ELSE 0
        /\ heartbeat_left'[i] = IF h > by THEN h - by ELSE 0
    BY <1>2 DEF Minus
  <2> HIDE DEF e, h
  <2>6. /\ MaxAdvance < ELECTION_TIMEOUT_BASE
        /\ HEARTBEAT_INTERVAL + MaxAdvance <= ELECTION_TIMEOUT_BASE
    BY DEF Steady
  <2>7. election_left'[j] >= 1
    BY <1>1, <2>3, <2>4, <2>5, <2>6
  <2>8. heartbeat_left'[i] = 0 \/ Behind(i, j)'
    BY <1>1, <2>3, <2>4, <2>5, <2>6 DEF Behind
  <2> QED  BY <1>2, <2>2, <2>7, <2>8 DEF Lease
<1> QED  BY <1>3, <1>5 DEF Leases

\* A candidacy ends the leases its node was part of and leaves the others.
LEMMA CampaignLeases ==
  ASSUME SimInv, NEW k \in Server, Campaign(k)
  PROVE  Timers' /\ Leases'
<1> DEFINE r == StartElection(k, node[k])
<1>1. /\ turn = k /\ turn' = k + 1 /\ heartbeat_left' = heartbeat_left
      /\ Install(k, r, bus)
  BY DEF Campaign
<1>2. Addressed(r.out) /\ r.node.role = Candidate
  <2>1. node[k] \in R!Node
    BY DEF SimInv, BusInv, R!TypeOK
  <2>2. r.node.role = Candidate
    BY <2>1 DEF StartElection, Done, R!Node
  <2> QED  BY <2>2, BroadcastAddressed
<1> HIDE DEF r
<1>3. /\ node'[k] = r.node
      /\ \A j \in Server : j # k =>
           node'[j] = node[j] /\ election_left'[j] = election_left[j]
      /\ side_a' = {} /\ election_left' \in [Server -> Nat]
      /\ Wire(bus) \subseteq Wire(bus')
  BY <1>1, <1>2, InstallEffect DEF SimInv, BusInv
<1>4. Timers'
  BY <1>1, <1>3, Ids DEF SimInv, Timers
<1>5. ASSUME NEW i \in Server, NEW j \in Server, Follows(j, i)'
      PROVE  Lease(i, j)'
  <2>1. i # k /\ j # k
    BY <1>2, <1>3, <1>5 DEF Follows, Candidate, Leader, Follower
  <2>2. node'[i] = node[i] /\ node'[j] = node[j] /\ election_left'[j] = election_left[j]
    BY <1>3, <2>1
  <2>3. Follows(j, i) /\ Lease(i, j)
    BY <1>5, <2>2 DEF Follows, SimInv, Leases
  <2>4. InFlight(i, j) => InFlight(i, j)'
    BY <1>3, <2>2, InFlightStays
  <2> QED  BY <1>1, <2>1, <2>2, <2>3, <2>4, LeaseFired DEF SimInv
<1> QED  BY <1>4, <1>5 DEF Leases

\* A heartbeat is under way to every follower.
LEMMA BeatLeases ==
  ASSUME SimInv, NEW k \in Server, Beat(k)
  PROVE  Timers' /\ Leases'
<1> DEFINE r == Done(node[k], BroadcastAppendEntries(k, node[k]), FALSE)
<1>1. /\ turn = k /\ turn' = k + 1
      /\ heartbeat_left' = [heartbeat_left EXCEPT ![k] = HEARTBEAT_INTERVAL]
      /\ Install(k, r, bus)
  BY DEF Beat
<1>2. /\ r.node = node[k] /\ ~r.reset
      /\ r.out = BroadcastAppendEntries(k, node[k])
  BY DEF Done
<1> HIDE DEF r
<1>3. /\ node'[k] = r.node
      /\ \A j \in Server : j # k =>
           node'[j] = node[j] /\ election_left'[j] = election_left[j]
      /\ side_a' = {} /\ election_left' \in [Server -> Nat]
      /\ Wire(bus) \cup r.out \subseteq Wire(bus')
  BY <1>1, <1>2, BroadcastAddressed, InstallEffect DEF SimInv, BusInv
<1>4. Timers'
  <2>1. turn' \in 0..Cardinality(Server)
    BY <1>1, Ids
  <2>2. heartbeat_left' \in [Server -> 0..HEARTBEAT_INTERVAL]
    BY <1>1, TimerConstants DEF SimInv, Timers
  <2> QED  BY <1>3, <2>1, <2>2 DEF Timers
<1>5. ASSUME NEW i \in Server, NEW j \in Server, Follows(j, i)'
      PROVE  Lease(i, j)'
  <2>1. node'[i] = node[i] /\ node'[j] = node[j]
    BY <1>2, <1>3
  <2>2. Follows(j, i) /\ Lease(i, j)
    BY <1>5, <2>1 DEF Follows, SimInv, Leases
  <2>3. j # k
    BY <2>2 DEF Follows, Leader, Follower, Beat
  <2>4. InFlight(i, j) => InFlight(i, j)'
    BY <1>3, <2>1, InFlightStays
  <2>5. CASE i = k
    <3>1. PICK d \in r.out : Rules(d, i, j, node'[i].current_term)
      BY <1>2, <2>1, <2>5, <2>3, BroadcastRules
    <3>2. InFlight(i, j)'
      BY <1>3, <3>1 DEF InFlight
    <3> QED  BY <1>1, <1>3, <2>2, <2>3, <2>5, <3>2, LeaseFired DEF SimInv
  <2>6. CASE i # k
    <3>1. heartbeat_left'[i] = heartbeat_left[i]
      BY <1>1, <2>6 DEF SimInv, Timers
    <3> QED  BY <1>1, <1>3, <2>2, <2>3, <2>4, <2>6, <3>1, LeaseFired DEF SimInv
  <2> QED  BY <2>5, <2>6
<1> QED  BY <1>4, <1>5 DEF Leases

\* A node whose deadline has not passed leaves everything as it is.
LEMMA RestLeases ==
  ASSUME SimInv, NEW k \in Server, Rest(k)
  PROVE  Timers' /\ Leases'
<1>1. /\ turn = k /\ turn' = k + 1
      /\ UNCHANGED <<node, bus, side_a, election_left, heartbeat_left>>
  BY DEF Rest, timers
<1>2. Timers'
  BY <1>1, Ids DEF SimInv, Timers
<1>3. ASSUME NEW i \in Server, NEW j \in Server, Follows(j, i)'
      PROVE  Lease(i, j)'
  <2>1. Follows(j, i) /\ Lease(i, j)
    BY <1>1, <1>3 DEF Follows, SimInv, Leases
  <2>2. k # i \/ heartbeat_left[i] >= 1
    BY <2>1, TimerConstants DEF Rest, Follows, SimInv, Timers
  <2>3. InFlight(i, j) => InFlight(i, j)'
    BY <1>1 DEF InFlight
  <2> QED  BY <1>1, <2>1, <2>2, <2>3, LeaseFired DEF SimInv
<1> QED  BY <1>2, <1>3 DEF Leases

\* A proposal puts messages on the bus and leaves roles, terms and deadlines.
LEMMA ProposeLeases ==
  ASSUME SimInv, NEW k \in Server, NEW command \in Command, Propose(k, command)
  PROVE  /\ Timers' /\ Leases'
         /\ \A i \in Server : /\ node'[i].role = node[i].role
                              /\ node'[i].current_term = node[i].current_term
<1> DEFINE r == ClientPropose(k, node[k], command)
<1>1. /\ turn' = turn /\ heartbeat_left' = heartbeat_left /\ Idle
      /\ node[k].role = Leader /\ Install(k, r, bus)
  BY DEF Propose
<1>2. /\ Addressed(r.out) /\ ~r.reset
      /\ r.node.role = node[k].role /\ r.node.current_term = node[k].current_term
  <2>1. ~r.reset
    BY Zenon DEF ClientPropose, Done
  <2>2. /\ r.node.role = node[k].role /\ r.node.current_term = node[k].current_term
    <3>1. node[k] \in R!Node /\ node[k].role = R!Leader
      BY <1>1, RaftHandlers DEF SimInv, BusInv, R!TypeOK
    <3>2. r = R!ClientPropose(k, node[k], command)
      BY RaftHandlers
    <3> HIDE DEF r
    <3>3. R!SameElection(node[k], r.node)
      BY <3>1, <3>2, R!ClientProposeType, RaftAssumptions
    <3> QED  BY <3>3 DEF R!SameElection
  <2> QED  BY <2>1, <2>2, BroadcastAddressed
<1> HIDE DEF r
<1>3. /\ node'[k] = r.node
      /\ \A j \in Server : j # k => node'[j] = node[j]
      /\ \A j \in Server : \/ election_left'[j] = election_left[j]
                           \/ election_left'[j] >= ELECTION_TIMEOUT_BASE
      /\ side_a' = {} /\ election_left' \in [Server -> Nat]
      /\ Wire(bus) \subseteq Wire(bus')
  BY <1>1, <1>2, InstallEffect DEF SimInv, BusInv
<1>4. Timers'
  BY <1>1, <1>3 DEF SimInv, Timers
<1>5. \A i \in Server : /\ node'[i].role = node[i].role
                        /\ node'[i].current_term = node[i].current_term
  BY <1>2, <1>3
<1>6. ASSUME NEW i \in Server, NEW j \in Server, Follows(j, i)'
      PROVE  Lease(i, j)'
  <2>1. Follows(j, i) /\ Lease(i, j)
    BY <1>5, <1>6 DEF Follows, SimInv, Leases
  <2>2. InFlight(i, j) => InFlight(i, j)'
    BY <1>3, <1>5, InFlightStays
  <2> QED  BY <1>1, <1>3, <1>4, <2>1, <2>2, LeaseKept DEF SimInv
<1> QED  BY <1>4, <1>5, <1>6 DEF Leases


\* What is on a bus is its oldest message or is left behind it.
LEMMA WireTail ==
  ASSUME NEW S, NEW queue \in Seq(S), queue # <<>>, NEW d \in Wire(queue)
  PROVE  d = Head(queue) \/ d \in Wire(Tail(queue))
<1>1. PICK k \in 1..Len(queue) : d = queue[k]
  BY DEF Wire
<1>2. /\ Len(queue) \in Nat /\ Len(Tail(queue)) = Len(queue) - 1
      /\ \A l \in 1..Len(Tail(queue)) : Tail(queue)[l] = queue[l + 1]
      /\ Head(queue) = queue[1]
  BY HeadTailProperties
<1>3. CASE k = 1
  BY <1>1, <1>2, <1>3
<1>4. CASE k # 1
  <2>1. k - 1 \in 1..Len(Tail(queue)) /\ Tail(queue)[k - 1] = d
    BY <1>1, <1>2, <1>4
  <2> QED  BY <2>1 DEF Wire
<1> QED  BY <1>3, <1>4

\* Node k handles e, the oldest message on the bus of a whole network.
Delivered(k, e, h) ==
  /\ k \in Server /\ e \in sent /\ e.to = k /\ bus \in Seq(sent) /\ bus # <<>>
  /\ e = Head(bus) /\ Idle /\ turn' = turn
  /\ Answered(k, node[k], h, e.msg)
  /\ e.msg.type = "AppendEntries" /\ e.msg.term >= node[k].current_term => h.reset
  /\ node'[k] = h.node
  /\ \A j \in Server : j # k =>
       node'[j] = node[j] /\ election_left'[j] = election_left[j]
  /\ \/ election_left'[k] >= ELECTION_TIMEOUT_BASE
     \/ ~h.reset /\ election_left'[k] = election_left[k]
  /\ Wire(Tail(bus)) \cup h.out \subseteq Wire(bus')
  /\ \A i \in Server : i # k \/ node[k].role = Leader =>
       heartbeat_left'[i] = heartbeat_left[i]

\* Deliver does that and keeps the timers typed.
LEMMA DeliverDelivers ==
  ASSUME SimInv, Deliver
  PROVE  Timers' /\ \E k, e, h : Delivered(k, e, h)
<1> DEFINE e == Head(bus)
           k == e.to
           h == Handle(k, node[k], e.from, e.msg)
<1>1. R!TypeOK /\ R!ElectionInv /\ Timers /\ bus \in Seq(sent)
  BY DEF SimInv, BusInv
<1>2. e \in sent /\ Tail(bus) \in Seq(sent) /\ bus # <<>>
  BY <1>1, HeadTailProperties DEF Deliver
<1>3. e.from \in Server /\ k \in Server /\ e.msg.type \in MessageTypes
  BY <1>1, <1>2, SentType
<1>4. Connected(e.from, e.to)
  BY <1>1 DEF Timers, Connected
<1>5. /\ Install(k, h, Tail(bus)) /\ Idle /\ turn' = turn
      /\ heartbeat_left' = IF h.node.role = Leader /\ node[k].role # Leader
                           THEN [heartbeat_left EXCEPT ![k] = 0]
                           ELSE heartbeat_left
  BY <1>4 DEF Deliver
<1>6. /\ Answered(k, node[k], h, e.msg)
      /\ e.msg.type = "AppendEntries" /\ e.msg.term >= node[k].current_term => h.reset
  BY <1>1, <1>2, HandleAnswered
<1> HIDE DEF e
<1>7. Addressed(h.out)
  BY <1>3, HandleAddressed
<1> HIDE DEF h
<1>8. /\ node'[k] = h.node
      /\ \A j \in Server : j # k =>
           node'[j] = node[j] /\ election_left'[j] = election_left[j]
      /\ \/ election_left'[k] >= ELECTION_TIMEOUT_BASE
         \/ ~h.reset /\ election_left'[k] = election_left[k]
      /\ side_a' = {} /\ election_left' \in [Server -> Nat]
      /\ Wire(Tail(bus)) \cup h.out \subseteq Wire(bus')
  BY <1>1, <1>2, <1>3, <1>5, <1>7, InstallEffect DEF SimInv
<1>9. /\ heartbeat_left' \in [Server -> 0..HEARTBEAT_INTERVAL]
      /\ \A i \in Server : i # k \/ node[k].role = Leader =>
           heartbeat_left'[i] = heartbeat_left[i]
  <2>1. heartbeat_left \in [Server -> 0..HEARTBEAT_INTERVAL] /\ 0 \in 0..HEARTBEAT_INTERVAL
    BY <1>1, TimerConstants DEF Timers
  <2> HIDE DEF k
  <2>2. CASE h.node.role = Leader /\ node[k].role # Leader
    BY <1>5, <2>1, <2>2
  <2>3. CASE ~(h.node.role = Leader /\ node[k].role # Leader)
    BY <1>5, <2>1, <2>3
  <2> QED  BY <2>2, <2>3
<1>10. Timers'
  BY <1>1, <1>5, <1>8, <1>9 DEF Timers
<1>11. Delivered(k, e, h)
  BY <1>1, <1>2, <1>3, <1>5, <1>6, <1>8, <1>9 DEF Delivered, e
<1> QED  BY <1>10, <1>11

\* A message handled makes leases that have just begun and keeps the others.
LEMMA DeliverLeases ==
  ASSUME SimInv, Timers', NEW k, NEW e, NEW h, Delivered(k, e, h)
  PROVE  Leases'
<1>1. k \in Server /\ Idle /\ Idle' /\ turn' = turn
  BY DEF Delivered, Idle
<1> SUFFICES ASSUME NEW i \in Server, NEW j \in Server, Follows(j, i)'
             PROVE  Lease(i, j)'
  BY DEF Leases
<1>2. ASSUME Follows(j, i),
             node'[i].current_term = node[i].current_term,
             heartbeat_left'[i] = heartbeat_left[i]
      PROVE  Lease(i, j)'
  <2>1. Lease(i, j)
    BY <1>2 DEF SimInv, Leases
  <2>2. \/ election_left'[j] >= ELECTION_TIMEOUT_BASE
        \/ election_left'[j] = election_left[j] /\ (j = k => ~h.reset)
    BY DEF Delivered
  <2>3. ASSUME InFlight(i, j), j = k => ~h.reset PROVE InFlight(i, j)'
    <3>1. PICK d \in Wire(bus) : Rules(d, i, j, node[i].current_term)
      BY <2>3 DEF InFlight
    <3>2. node[j].current_term = node[i].current_term /\ node[j].current_term \in Nat
      BY <1>2 DEF Follows, SimInv, BusInv, R!TypeOK, R!Node
    <3>3. d # e
      BY <2>3, <3>1, <3>2 DEF Rules, Delivered
    <3>4. d \in Wire(Tail(bus))
      BY <3>3, WireTail DEF Delivered
    <3> QED  BY <1>2, <3>1, <3>4 DEF InFlight, Delivered
  <2> QED  BY <1>1, <1>2, <2>1, <2>2, <2>3, LeaseKept DEF SimInv
<1>3. CASE /\ h.node.role = node[k].role
           /\ h.node.current_term = node[k].current_term
  <2>1. \A x \in Server : /\ node'[x].role = node[x].role
                          /\ node'[x].current_term = node[x].current_term
    BY <1>3 DEF Delivered
  <2>2. Follows(j, i)
    BY <2>1 DEF Follows
  <2>3. heartbeat_left'[i] = heartbeat_left[i]
    BY <2>2 DEF Follows, Delivered
  <2> QED  BY <1>2, <2>1, <2>2, <2>3
<1>4. CASE i # k /\ j # k
  <2>1. node'[i] = node[i] /\ node'[j] = node[j]
        /\ heartbeat_left'[i] = heartbeat_left[i]
    BY <1>4 DEF Delivered
  <2>2. Follows(j, i)
    BY <2>1 DEF Follows
  <2> QED  BY <1>2, <2>1, <2>2
<1>5. CASE /\ h.node.role = Leader
           /\ \A x \in Server : x # k =>
                \E d \in h.out : Rules(d, k, x, h.node.current_term)
  <2>1. j # k
    BY <1>5 DEF Follows, Delivered, Leader, Follower
  <2>2. CASE i = k
    <3>1. InFlight(i, j)'
      BY <1>5, <2>1, <2>2 DEF InFlight, Delivered
    <3> QED  BY <1>1, <3>1, LeaseBegins
  <2> QED  BY <1>4, <2>1, <2>2
<1>6. CASE h.node.role = Follower /\ h.reset
  <2>1. i # k
    BY <1>6 DEF Follows, Delivered, Leader, Follower
  <2>2. CASE j = k
    <3>1. election_left'[j] >= ELECTION_TIMEOUT_BASE
      BY <1>6, <2>2 DEF Delivered
    <3> QED  BY <1>1, <3>1, LeaseBegins
  <2> QED  BY <1>4, <2>1, <2>2
<1> QED  BY <1>3, <1>5, <1>6 DEF Delivered, Answered

\* Every step keeps the leases.
LEMMA LeaseNext == Steady /\ SimInv /\ [Next]_vars => Timers' /\ Leases'
<1> SUFFICES ASSUME Steady, SimInv, [Next]_vars PROVE Timers' /\ Leases'
  OBVIOUS
<1>1. ASSUME NEW by \in 1..MaxAdvance, Advance(by) PROVE Timers' /\ Leases'
  BY <1>1, AdvanceLeases
<1>2. ASSUME NEW i \in Server, Campaign(i) \/ Beat(i) \/ Rest(i)
      PROVE  Timers' /\ Leases'
  BY <1>2, CampaignLeases, BeatLeases, RestLeases
<1>3. ASSUME Deliver PROVE Timers' /\ Leases'
  BY <1>3, DeliverDelivers, DeliverLeases
<1>4. ASSUME NEW i \in Server, NEW command \in Command, Propose(i, command)
      PROVE  Timers' /\ Leases'
  BY <1>4, ProposeLeases
<1>5. ASSUME NEW cut \in Cuts \cup {{}}, SetPartition(cut) PROVE FALSE
  <2>1. cut = {} /\ side_a = {}
    BY <1>5 DEF Steady, SimInv, Timers
  <2> QED  BY <1>5, <2>1 DEF SetPartition
<1>6. CASE UNCHANGED vars
  BY <1>6 DEF vars, timers, SimInv, Timers, Leases, Follows, Lease, Idle, Behind, InFlight
<1> QED  BY <1>1, <1>2, <1>3, <1>4, <1>5, <1>6 DEF Next

\* What is known of every state of a steady cluster.
LEMMA LeaseInvariant ==
  ASSUME Steady
  PROVE  Spec => []SimInv
<1>1. /\ R!IsFiniteSet(Server) /\ Nil \notin Server
      /\ MaxTerm \in Nat /\ MaxLog \in Nat
  BY RaftAssumptions
<1>2. Spec => [](R!ElectionInv /\ R!LedInv)
  BY <1>1, SimIsRaft, R!LedInvariant, PTL
<1>3. Init => Timers /\ Leases
  <2> SUFFICES ASSUME Init PROVE Timers /\ Leases
    OBVIOUS
  <2>1. Timers
    BY Ids, TimerConstants DEF Init, Timers
  <2>2. Leases
    BY DEF Init, Leases, Follows, NewNode, Follower, Leader
  <2> QED  BY <2>1, <2>2
<1>4. BusInv /\ R!ElectionInv /\ R!LedInv /\ Timers /\ Leases /\ [Next]_vars
        => (Timers /\ Leases)'
  BY LeaseNext DEF SimInv
<1> QED  BY <1>2, <1>3, <1>4, BusInvariant, PTL DEF Spec, SimInv

\* No step challenges a leader that all others follow.
LEMMA AcceptedNext ==
  ASSUME SimInv, [Next]_vars, NEW i \in Server, Accepted(i)
  PROVE  Accepted(i)'
<1> DEFINE T == node[i].current_term
           Same == \A j \in Server : /\ node'[j].role = node[j].role
                                     /\ node'[j].current_term = node[j].current_term
<1>1. /\ node[i].role = Leader
      /\ \A j \in Server : /\ node[j].current_term = T
                           /\ j # i => node[j].role = Follower
  BY DEF Accepted, Peers
<1>2. ASSUME Same PROVE Accepted(i)'
  BY <1>1, <1>2 DEF Accepted, Peers
<1>3. ASSUME NEW k \in Server, Campaign(k) PROVE FALSE
  <2>1. k # i /\ election_left[k] = 0 /\ turn = k
    BY <1>1, <1>3 DEF Campaign
  <2>2. Follows(k, i)
    BY <1>1, <2>1 DEF Follows
  <2>3. election_left[k] >= 1
    BY <2>1, <2>2, Ids DEF SimInv, Leases, Lease, Idle
  <2> QED  BY <2>1, <2>3
<1>4. ASSUME NEW k \in Server, Beat(k) PROVE Same
  <2> DEFINE r == Done(node[k], BroadcastAppendEntries(k, node[k]), FALSE)
  <2>1. r.node = node[k] /\ node' = [node EXCEPT ![k] = r.node]
    BY <1>4 DEF Beat, Install, Done
  <2> HIDE DEF r
  <2> QED  BY <2>1 DEF SimInv, BusInv, R!TypeOK
<1>5. ASSUME NEW k \in Server, NEW command \in Command, Propose(k, command)
      PROVE  Same
  BY <1>5, ProposeLeases
<1>6. ASSUME Deliver PROVE Accepted(i)'
  <2>1. PICK k, e, h : Delivered(k, e, h)
    BY <1>6, DeliverDelivers
  <2>2. /\ T \in Nat /\ e.from \in Server /\ e.from # k /\ e.msg.term <= T
    <3>1. e \in sent /\ e.to = k
      BY <2>1 DEF Delivered
    <3>2. e.from \in Server
      BY <3>1, SentType DEF SimInv, BusInv
    <3>3. e.from # e.to /\ e.msg.term <= node[e.from].current_term
      BY <3>1 DEF SimInv, R!ElectionInv, R!VotesBind
    <3> QED  BY <1>1, <3>1, <3>2, <3>3 DEF SimInv, BusInv, R!TypeOK, R!Node
  <2>3. CASE /\ h.node.role = node[k].role
             /\ h.node.current_term = node[k].current_term
    BY <1>2, <2>1, <2>3 DEF Delivered
  <2>4. CASE node[k].role # Leader /\ node[k].role # Follower
    BY <1>1, <2>1, <2>4 DEF Delivered
  <2>5. CASE /\ h.node.role = Follower /\ h.node.current_term = e.msg.term
             /\ \/ e.msg.term > node[k].current_term
                \/ e.msg.type = "AppendEntries" /\ e.msg.term = node[k].current_term
    <3>1. k \in Server /\ e \in sent
      BY <2>1 DEF Delivered
    <3>2. e.msg.type = "AppendEntries" /\ e.msg.term = T /\ node[k].current_term = T
      <4>1. node[k].current_term = T
        BY <1>1, <3>1
      <4>2. ~(e.msg.term > T)
        <5>1. e.msg.term \in Nat
          BY <3>1 DEF SimInv, BusInv, R!TypeOK, R!Envelope, R!Message, R!RequestVote,
                      R!RequestVoteReply, R!AppendEntries, R!AppendEntriesReply
        <5> HIDE DEF T
        <5> QED  BY <2>2, <5>1
      <4> HIDE DEF T
      <4> QED  BY <2>5, <4>1, <4>2
    <3>3. k # i
      <4>1. e \in R!SentOf("AppendEntries")
        BY <3>1, <3>2 DEF R!SentOf
      <4>2. k = i => node[i].role # R!Leader
        BY <2>2, <3>2, <4>1, R!NoSecondLeader, RaftAssumptions DEF SimInv, BusInv
      <4> QED  BY <1>1, <4>2, RaftHandlers
    <3>4. node[k].role = Follower
      BY <1>1, <3>1, <3>3
    <3> QED  BY <1>2, <2>1, <2>5, <3>2, <3>4 DEF Delivered
  <2> QED  BY <2>1, <2>3, <2>4, <2>5 DEF Delivered, Answered
<1>7. ASSUME UNCHANGED node PROVE Same
  BY <1>7
<1> HIDE DEF Same
<1> QED  BY <1>2, <1>3, <1>4, <1>5, <1>6, <1>7
         DEF Next, Advance, Rest, SetPartition, vars

\* A healthy leader keeps followers from timing out (node.rs): in a whole network
\* whose heartbeats are due as early as Steady says, a leader that all others
\* follow stays their leader, for every size of cluster, jitter and load.
THEOREM AcceptedLeaderKeepsLead ==
  ASSUME Steady
  PROVE  Spec => AcceptedLeaderStays
<1>1. SimInv /\ [Next]_vars
        => [\A i \in Server : Accepted(i) => Accepted(i)']_vars
  BY AcceptedNext
<1> QED  BY <1>1, LeaseInvariant, PTL DEF Spec, AcceptedLeaderStays

=============================================================================
