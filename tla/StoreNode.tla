------------------------------- MODULE StoreNode -------------------------------
(***************************************************************************)
(* One node of the Raft service built without the harness                  *)
(* (examples/raft/service-no-harness, src/raft/node.rs).  A handler is an  *)
(* operator from the node and an event to                                  *)
(*                                                                         *)
(*   [node |-> the new state, out |-> the envelopes in the order returned, *)
(*    reset |-> whether the election deadline was drawn anew].             *)
(*                                                                         *)
(* The clock and the two deadlines are kept by StoreCluster.  `kv` is the  *)
(* sequence of the entries applied, which tells more than the map they are *)
(* applied to.  next_index and match_index, maps whose missing keys read   *)
(* as 1 and 0, are total functions.                                        *)
(***************************************************************************)
EXTENDS Integers, Sequences, FiniteSets, FiniteSetsExt, SequencesExt

CONSTANTS Server,   \* the ids 0..size-1 of the cluster
          Command,  \* the client commands
          Nil       \* voted_for = None

ASSUME StoreNodeAssumption == /\ IsFiniteSet(Server)
                              /\ Server = 0..Cardinality(Server) - 1
                              /\ Nil \notin Server

Role == {"Follower", "Candidate", "Leader"}

LogEntry == [term : Nat, command : Command]

Message ==
  [type : {"RequestVote"}, term : Nat, candidate : Server,
   last_log_index : Nat, last_log_term : Nat]
  \cup [type : {"RequestVoteReply"}, term : Nat, voter : Server,
        granted : BOOLEAN]
  \cup [type : {"AppendEntries"}, term : Nat, leader : Server,
        prev_log_index : Nat, prev_log_term : Nat, entries : Seq(LogEntry),
        leader_commit : Nat]
  \cup [type : {"AppendEntriesReply"}, term : Nat, from : Server,
        success : BOOLEAN, match_index : Nat]

Envelope == [to : Server, msg : Message]

RaftNode == [role : Role,
             current_term : Nat,
             voted_for : Server \cup {Nil},
             log : Seq(LogEntry),
             commit_index : Nat,
             last_applied : Nat,
             kv : Seq(LogEntry),
             next_index : [Server -> Nat \ {0}],
             match_index : [Server -> Nat],
             votes_received : Nat]

New == [role |-> "Follower",
        current_term |-> 0,
        voted_for |-> Nil,
        log |-> <<>>,
        commit_index |-> 0,
        last_applied |-> 0,
        kv |-> <<>>,
        next_index |-> [p \in Server |-> 1],
        match_index |-> [p \in Server |-> 0],
        votes_received |-> 0]

Majority == Cardinality(Server) \div 2 + 1

LastLogIndex(n) == Len(n.log)

TermAt(n, index) == IF index \in 1..Len(n.log) THEN n.log[index].term ELSE 0

LastLogTerm(n) == TermAt(n, LastLogIndex(n))

\* Peers in id order, as `peers` lists them.
Peers(i) == [k \in 1..Cardinality(Server) - 1 |-> IF k <= i THEN k - 1 ELSE k]

ToPeers(i, MessageFor(_)) ==
  [k \in DOMAIN Peers(i) |-> [to |-> Peers(i)[k], msg |-> MessageFor(Peers(i)[k])]]

ReplyTo(to, m) == <<[to |-> to, msg |-> m]>>

Done(n, out, reset) == [node |-> n, out |-> out, reset |-> reset]

-----------------------------------------------------------------------------
(* Committing.                                                             *)

\* Mutant: the entry at last_applied is applied again.
ApplyCommittedAgain(n) ==
  [n EXCEPT !.kv = @ \o SubSeq(n.log, Max({n.last_applied, 1}), n.commit_index),
            !.last_applied = IF @ < n.commit_index THEN n.commit_index ELSE @]

\* Indexing the log past its end would panic: AppliedIsLogPrefix says that no
\* handler asks for it.
ApplyCommitted(n) ==
  [n EXCEPT !.kv = @ \o SubSeq(n.log, n.last_applied + 1, n.commit_index),
            !.last_applied = IF @ < n.commit_index THEN n.commit_index ELSE @]

\* The leader and the peers known to hold the entry.
HoldersOf(i, n, index) == {i} \cup {p \in Server \ {i} : n.match_index[p] >= index}

Committable(i, n) ==
  {index \in n.commit_index + 1 .. LastLogIndex(n) :
     /\ TermAt(n, index) = n.current_term
     /\ Cardinality(HoldersOf(i, n, index)) >= Majority}

MaybeAdvanceCommit(i, n) ==
  IF Committable(i, n) = {} THEN n
  ELSE ApplyCommitted([n EXCEPT !.commit_index = Max(Committable(i, n))])

-----------------------------------------------------------------------------
(* Elections.                                                              *)

StartElection(i, n) ==
  LET c == [n EXCEPT !.role = "Candidate",
                     !.current_term = @ + 1,
                     !.voted_for = i,
                     !.votes_received = 1]
  IN  Done(c, ToPeers(i, LAMBDA p :
                [type |-> "RequestVote", term |-> c.current_term, candidate |-> i,
                 last_log_index |-> LastLogIndex(c),
                 last_log_term |-> LastLogTerm(c)]), TRUE)

\* Mutant: only the length of the logs is compared.
LogOkByLength(n, m) == m.last_log_index >= LastLogIndex(n)

LogOk(n, m) == \/ m.last_log_term > LastLogTerm(n)
               \/ /\ m.last_log_term = LastLogTerm(n)
                  /\ m.last_log_index >= LastLogIndex(n)

HandleRequestVote(i, n, m) ==
  LET granted == /\ m.term >= n.current_term
                 /\ n.voted_for \in {Nil, m.candidate}
                 /\ LogOk(n, m)
  IN  Done(IF granted THEN [n EXCEPT !.voted_for = m.candidate] ELSE n,
           ReplyTo(m.candidate, [type |-> "RequestVoteReply", term |-> n.current_term,
                                 voter |-> i, granted |-> granted]),
           granted)

\* The whole suffix from next_index on.
AppendEntriesFor(i, n, peer) ==
  LET prev == n.next_index[peer] - 1
  IN  [type |-> "AppendEntries", term |-> n.current_term, leader |-> i,
       prev_log_index |-> prev, prev_log_term |-> TermAt(n, prev),
       entries |-> SubSeq(n.log, prev + 1, LastLogIndex(n)),
       leader_commit |-> n.commit_index]

BroadcastAppendEntries(i, n) == ToPeers(i, LAMBDA p : AppendEntriesFor(i, n, p))

BecomeLeader(i, n) ==
  LET l == [n EXCEPT !.role = "Leader",
                     !.next_index = [p \in Server |-> LastLogIndex(n) + 1],
                     !.match_index = [p \in Server |-> 0]]
  IN  Done(l, BroadcastAppendEntries(i, l), FALSE)

\* Mutant: a refusal counts as a vote.
CountsRefusals(n, m) == n.role = "Candidate" /\ m.term = n.current_term

CountsVote(n, m) ==
  n.role = "Candidate" /\ m.term = n.current_term /\ m.granted

\* votes_received is a count: who granted is not remembered.
HandleVoteReply(i, n, m) ==
  LET v == [n EXCEPT !.votes_received = @ + 1]
  IN  IF ~CountsVote(n, m) THEN Done(n, <<>>, FALSE)
      ELSE IF v.votes_received >= Majority THEN BecomeLeader(i, v)
      ELSE Done(v, <<>>, FALSE)

-----------------------------------------------------------------------------
(* Replication.                                                            *)

AppendReply(i, n, leader, success, match_index) ==
  ReplyTo(leader, [type |-> "AppendEntriesReply", term |-> n.current_term,
                   from |-> i, success |-> success, match_index |-> match_index])

\* Mutant: the term at the boundary is not compared.
LogReaches(n, prev, term) == prev <= LastLogIndex(n)

LogHolds(n, prev, term) == prev <= LastLogIndex(n) /\ TermAt(n, prev) = term

\* From the first entry the log misses or contradicts on, the message's entries
\* replace what the log holds; nothing is dropped when there is none.
Splice(log, prev, entries) ==
  LET clashes == {k \in DOMAIN entries : \/ prev + k > Len(log)
                                         \/ log[prev + k].term # entries[k].term}
  IN  IF clashes = {} THEN log
      ELSE SubSeq(log, 1, prev + Min(clashes) - 1)
             \o SubSeq(entries, Min(clashes), Len(entries))

\* Mutant: the follower reports the end of its own log.
CoveredOwnLog(n, m) == IF LastLogIndex(n) > m.prev_log_index + Len(m.entries)
                       THEN LastLogIndex(n) ELSE m.prev_log_index + Len(m.entries)

\* The index the message's entries end at.
Covered(n, m) == m.prev_log_index + Len(m.entries)

\* A current leader is followed, and the deadline drawn anew, before the
\* consistency check; success reports the index the message covered.
HandleAppendEntries(i, n, m) ==
  LET f == [n EXCEPT !.role = "Follower"]
      s == [f EXCEPT !.log = Splice(@, m.prev_log_index, m.entries)]
      c == IF m.leader_commit > s.commit_index
           THEN ApplyCommitted([s EXCEPT !.commit_index =
                                  Min({m.leader_commit, LastLogIndex(s)})])
           ELSE s
  IN  IF m.term < n.current_term
      THEN Done(n, AppendReply(i, n, m.leader, FALSE, 0), FALSE)
      ELSE IF ~LogHolds(n, m.prev_log_index, m.prev_log_term)
      THEN Done(f, AppendReply(i, f, m.leader, FALSE, 0), TRUE)
      ELSE Done(c, AppendReply(i, c, m.leader, TRUE, Covered(n, m)), TRUE)

\* Mutant: a rejected append is retried from the same index.
StepBackNever(next) == next

StepBack(next) == IF next > 1 THEN next - 1 ELSE next

\* Mutant: the next entry is taken for the last one the follower holds.
NextIsTheMatch(i, n, m) ==
  IF n.role # "Leader" \/ m.term # n.current_term THEN Done(n, <<>>, FALSE)
  ELSE IF m.success
  THEN Done(MaybeAdvanceCommit(i,
              [n EXCEPT !.match_index[m.from] = m.match_index,
                        !.next_index[m.from] = m.match_index]), <<>>, FALSE)
  ELSE Done([n EXCEPT !.next_index[m.from] = StepBack(@)],
            <<>>, FALSE)

\* A late reply of success takes match_index and next_index back.
HandleAppendReply(i, n, m) ==
  IF n.role # "Leader" \/ m.term # n.current_term THEN Done(n, <<>>, FALSE)
  ELSE IF m.success
  THEN Done(MaybeAdvanceCommit(i,
              [n EXCEPT !.match_index[m.from] = m.match_index,
                        !.next_index[m.from] = m.match_index + 1]), <<>>, FALSE)
  ELSE Done([n EXCEPT !.next_index[m.from] = StepBack(@)],
            <<>>, FALSE)

-----------------------------------------------------------------------------

\* A later term is adopted before the message is handled.  The deadline and the
\* count of votes are left as they were.
AtTermOf(n, m) ==
  IF m.term > n.current_term
  THEN [n EXCEPT !.current_term = m.term, !.role = "Follower", !.voted_for = Nil]
  ELSE n

Handle(i, n, m) ==
  LET a == AtTermOf(n, m)
  IN  CASE m.type = "RequestVote"        -> HandleRequestVote(i, a, m)
        [] m.type = "RequestVoteReply"   -> HandleVoteReply(i, a, m)
        [] m.type = "AppendEntries"      -> HandleAppendEntries(i, a, m)
        [] m.type = "AppendEntriesReply" -> HandleAppendReply(i, a, m)

\* The entry waits for the next heartbeat.
ClientAppend(n, command) ==
  [n EXCEPT !.log = Append(@, [term |-> n.current_term, command |-> command])]

=============================================================================
