------------------------------- MODULE RaftNode -------------------------------
(***************************************************************************)
(* One node of the Raft service built with the harness                     *)
(* (examples/raft/service-with-harness, crates/core).  Every handler of    *)
(* `Node` is a function of the node's state and an event that mutates the  *)
(* node and returns the envelopes to send; here a handler is an operator   *)
(* that returns                                                            *)
(*                                                                         *)
(*   [node |-> the new state, out |-> the envelopes, reset |-> whether the *)
(*    election deadline was drawn anew].                                   *)
(*                                                                         *)
(* Clocks and deadlines belong to the modules that schedule the node.  The *)
(* KV store is kept as the sequence of the commands applied to it.         *)
(* A map of the source whose missing keys read as a default is a total     *)
(* function with that default, and votes_received is the set of the ids it *)
(* maps to true.                                                           *)
(***************************************************************************)
EXTENDS Naturals, Sequences, FiniteSets, FiniteSetsExt

CONSTANTS Server,   \* the fixed cluster
          Command,  \* the client commands
          Nil       \* voted_for = None

ASSUME ServerAssumption == IsFiniteSet(Server) /\ Nil \notin Server

Follower  == "Follower"
Candidate == "Candidate"
Leader    == "Leader"

-----------------------------------------------------------------------------
(* The log: 1-based, index 0 is the sentinel of term 0.                    *)

Entry == [term : Nat, command : Command]

LastIndex(log) == Len(log)

LastTerm(log) == IF log = <<>> THEN 0 ELSE log[Len(log)].term

\* term_at(index).unwrap_or(0)
TermAt(log, index) == IF index \in 1..Len(log) THEN log[index].term ELSE 0

Matches(log, index, term) == index \in 0..Len(log) /\ TermAt(log, index) = term

SliceFrom(log, low) == SubSeq(log, low, Len(log))

\* The entries that are past the end of the log or conflict with it.
Clashes(log, prev, entries) ==
  {k \in 1..Len(entries) : \/ prev + k > Len(log)
                           \/ log[prev + k].term # entries[k].term}

\* Mutant: entries the log already holds are appended again.
SpliceRepeats(log, prev, entries) == log \o entries

\* try_append_entries once the boundary matched: what is before the first clash
\* is kept, what is from there on is replaced by the leader's suffix.
Splice(log, prev, entries) ==
  LET clashes == Clashes(log, prev, entries)
  IN  IF clashes = {} THEN log
      ELSE SubSeq(log, 1, prev + Min(clashes) - 1)
             \o SubSeq(entries, Min(clashes), Len(entries))

-----------------------------------------------------------------------------
(* The scalar decisions.                                                   *)

CandidateLogIsUpToDate(voterTerm, voterIndex, candTerm, candIndex) ==
  \/ candTerm > voterTerm
  \/ candTerm = voterTerm /\ candIndex >= voterIndex

\* Mutant: a vote already given in the term does not bind.
ShouldGrantVoteTwice(n, m) ==
  /\ m.term >= n.current_term
  /\ CandidateLogIsUpToDate(LastTerm(n.log), LastIndex(n.log),
                            m.last_log_term, m.last_log_index)

ShouldGrantVote(n, m) ==
  /\ m.term >= n.current_term
  /\ n.voted_for \in {Nil, m.candidate_id}
  /\ CandidateLogIsUpToDate(LastTerm(n.log), LastIndex(n.log),
                            m.last_log_term, m.last_log_index)

IsMajority(votes) == 2 * votes > Cardinality(Server)

-----------------------------------------------------------------------------
(* Node state, messages, and the result of a handler.                      *)

Node == [role : {Follower, Candidate, Leader},
         current_term : Nat,
         voted_for : Server \cup {Nil},
         log : Seq(Entry),
         commit_index : Nat,
         last_applied : Nat,
         kv : Seq(Command),
         votes_received : SUBSET Server,
         next_index : [Server -> Nat \ {0}],
         match_index : [Server -> Nat]]

NewNode == [role |-> Follower,
            current_term |-> 0,
            voted_for |-> Nil,
            log |-> <<>>,
            commit_index |-> 0,
            last_applied |-> 0,
            kv |-> <<>>,
            votes_received |-> {},
            next_index |-> [p \in Server |-> 1],
            match_index |-> [p \in Server |-> 0]]

RequestVote == [type : {"RequestVote"}, term : Nat, candidate_id : Server,
                last_log_index : Nat, last_log_term : Nat]

RequestVoteReply == [type : {"RequestVoteReply"}, term : Nat, granted : BOOLEAN]

\* leader_id is left out: no handler reads it.
AppendEntries == [type : {"AppendEntries"}, term : Nat,
                  prev_log_index : Nat, prev_log_term : Nat,
                  entries : Seq(Entry), leader_commit : Nat]

AppendEntriesReply == [type : {"AppendEntriesReply"}, term : Nat,
                       success : BOOLEAN, match_index : Nat]

Message == RequestVote \cup RequestVoteReply \cup AppendEntries
             \cup AppendEntriesReply

Envelope == [from : Server, to : Server, msg : Message]

Reply(i, to, m) == {[from |-> i, to |-> to, msg |-> m]}

Peers(i) == Server \ {i}

Done(n, out, reset) == [node |-> n, out |-> out, reset |-> reset]

-----------------------------------------------------------------------------
(* Applying and committing.                                                *)

Smaller(a, b) == IF a <= b THEN a ELSE b

\* Mutant: the index of the loop is not read, the first entry is applied each time.
ApplyCommittedFirst(n) ==
  LET fresh == SubSeq(n.log, n.last_applied + 1,
                      Smaller(n.commit_index, Len(n.log)))
  IN  IF n.commit_index <= n.last_applied THEN n
      ELSE [n EXCEPT !.kv = @ \o [k \in 1..Len(fresh) |-> fresh[1].command],
                     !.last_applied = n.commit_index]

\* Every committed entry after last_applied that the log holds, in order; an
\* index the log does not hold is passed over.  Nothing is applied when the
\* commit index is behind last_applied.
ApplyCommitted(n) ==
  LET fresh == SubSeq(n.log, n.last_applied + 1,
                      Smaller(n.commit_index, Len(n.log)))
  IN  IF n.commit_index <= n.last_applied THEN n
      ELSE [n EXCEPT !.kv = @ \o [k \in 1..Len(fresh) |-> fresh[k].command],
                     !.last_applied = n.commit_index]

CommitAt(n, index) == ApplyCommitted([n EXCEPT !.commit_index = index])

\* The peers whose match_index covers the index, and the leader itself.
ReplicationCount(n, index) ==
  Cardinality({p \in Server : n.match_index[p] >= index}) + 1

\* The indexes the loop of maybe_advance_commit accepts as candidates.
Committable(n) ==
  {index \in n.commit_index + 1 .. LastIndex(n.log) :
     /\ IsMajority(ReplicationCount(n, index))
     /\ TermAt(n.log, index) = n.current_term}

MaybeAdvanceCommit(n) ==
  IF Committable(n) = {} THEN n
  ELSE CommitAt(n, Max(Committable(n)))

-----------------------------------------------------------------------------
(* Elections.                                                              *)

StartElection(i, n) ==
  LET c == [n EXCEPT !.current_term = @ + 1,
                     !.role = Candidate,
                     !.voted_for = i,
                     !.votes_received = {i}]
      m == [type |-> "RequestVote", term |-> c.current_term, candidate_id |-> i,
            last_log_index |-> LastIndex(n.log), last_log_term |-> LastTerm(n.log)]
  IN  Done(c, {[from |-> i, to |-> p, msg |-> m] : p \in Peers(i)}, TRUE)

StepDown(n, term) ==
  [n EXCEPT !.current_term = term,
            !.role = Follower,
            !.voted_for = Nil,
            !.votes_received = {}]

OnRequestVote(i, n, from, m) ==
  LET grant == ShouldGrantVote(n, m)
      v     == IF grant THEN [n EXCEPT !.voted_for = m.candidate_id] ELSE n
  IN  Done(v, Reply(i, from, [type |-> "RequestVoteReply",
                              term |-> n.current_term, granted |-> grant]),
           grant)

\* Mutant: next_index starts at the last entry.
BecomeLeaderAtLast(n) ==
  [n EXCEPT !.role = Leader,
            !.next_index = [p \in Server |-> LastIndex(n.log)],
            !.match_index = [p \in Server |-> 0]]

BecomeLeader(n) ==
  [n EXCEPT !.role = Leader,
            !.next_index = [p \in Server |-> LastIndex(n.log) + 1],
            !.match_index = [p \in Server |-> 0]]

\* The whole suffix from next_index on; a heartbeat when there is none.
AppendEntriesFor(n, to) ==
  LET prev == IF n.next_index[to] > 1 THEN n.next_index[to] - 1 ELSE 0
  IN  [type |-> "AppendEntries", term |-> n.current_term,
       prev_log_index |-> prev, prev_log_term |-> TermAt(n.log, prev),
       entries |-> SliceFrom(n.log, prev + 1), leader_commit |-> n.commit_index]

BroadcastAppendEntries(i, n) ==
  {[from |-> i, to |-> p, msg |-> AppendEntriesFor(n, p)] : p \in Peers(i)}

\* Mutant: every vote counts, whatever the role and the term.
AwaitsVoteAlways(n, m) == TRUE

\* Mutant: a vote of an earlier term counts.
AwaitsVoteAnyTerm(n, m) == n.role = Candidate

AwaitsVote(n, m) == n.role = Candidate /\ m.term = n.current_term

OnVoteReply(i, n, from, m) ==
  IF ~AwaitsVote(n, m) THEN Done(n, {}, FALSE)
  ELSE LET votes == IF m.granted THEN n.votes_received \cup {from}
                                 ELSE n.votes_received \ {from}
           v     == [n EXCEPT !.votes_received = votes]
       IN  IF IsMajority(Cardinality(votes))
           THEN Done(BecomeLeader(v),
                     BroadcastAppendEntries(i, BecomeLeader(v)), FALSE)
           ELSE Done(v, {}, FALSE)

-----------------------------------------------------------------------------
(* Replication.                                                            *)

\* Mutant: a new entry takes the place of the uncommitted ones.
ExtendedFromCommit(n, command) ==
  [n EXCEPT !.log = Append(SubSeq(@, 1, n.commit_index),
                           [term |-> n.current_term, command |-> command])]

Extended(n, command) ==
  [n EXCEPT !.log = Append(@, [term |-> n.current_term, command |-> command])]

ClientPropose(i, n, command) ==
  LET a == MaybeAdvanceCommit(Extended(n, command))
  IN  IF n.role = Leader THEN Done(a, BroadcastAppendEntries(i, a), FALSE)
                         ELSE Done(n, {}, FALSE)

AppendReply(i, to, n, success, match) ==
  Reply(i, to, [type |-> "AppendEntriesReply", term |-> n.current_term,
                success |-> success, match_index |-> match])

\* The reply of success carries the follower's own last index, whatever part
\* of its log the message covered.
OnAppendEntries(i, n, from, m) ==
  LET f == [n EXCEPT !.role = Follower]
      s == [f EXCEPT !.log = Splice(@, m.prev_log_index, m.entries)]
      d == IF m.leader_commit > s.commit_index
           THEN CommitAt(s, Smaller(m.leader_commit, LastIndex(s.log)))
           ELSE s
  IN  IF m.term < n.current_term
      THEN Done(n, AppendReply(i, from, n, FALSE, 0), FALSE)
      ELSE IF ~Matches(n.log, m.prev_log_index, m.prev_log_term)
      THEN Done(f, AppendReply(i, from, f, FALSE, 0), TRUE)
      ELSE Done(d, AppendReply(i, from, d, TRUE, LastIndex(s.log)), TRUE)

\* Mutant: a rejected append is retried from the same index.
BackOffNever(next) == next

BackOff(next) == IF next > 1 THEN next - 1 ELSE 1

OnAppendReply(i, n, from, m) ==
  IF n.role # Leader \/ m.term # n.current_term THEN Done(n, {}, FALSE)
  ELSE IF m.success
  THEN Done(MaybeAdvanceCommit(
              [n EXCEPT !.match_index[from] = m.match_index,
                        !.next_index[from] = m.match_index + 1]), {}, FALSE)
  ELSE Done([n EXCEPT !.next_index[from] = BackOff(@)], {}, FALSE)

-----------------------------------------------------------------------------
(* Every message first goes through the universal rule: a higher term      *)
(* makes the receiver a Follower of that term.                             *)

\* Mutant: a message of the node's own term makes it step down too.
AtTermOfEqual(n, m) == IF m.term >= n.current_term THEN StepDown(n, m.term) ELSE n

AtTermOf(n, m) == IF m.term > n.current_term THEN StepDown(n, m.term) ELSE n

Dispatch(i, n, from, m) ==
  CASE m.type = "RequestVote"        -> OnRequestVote(i, n, from, m)
    [] m.type = "RequestVoteReply"   -> OnVoteReply(i, n, from, m)
    [] m.type = "AppendEntries"      -> OnAppendEntries(i, n, from, m)
    [] m.type = "AppendEntriesReply" -> OnAppendReply(i, n, from, m)

Handle(i, n, from, m) ==
  LET r == Dispatch(i, AtTermOf(n, m), from, m)
  IN  [r EXCEPT !.reset = @ \/ m.term > n.current_term]

=============================================================================
