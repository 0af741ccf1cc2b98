--------------------------------- MODULE Raft ---------------------------------
(***************************************************************************)
(* The Raft cluster over the weakest transport its handlers must survive.  *)
(*                                                                         *)
(* The core never sees a transport: a handler gets one envelope and        *)
(* returns envelopes.  REQ-005 asks the safety laws of "any interleaving,  *)
(* loss, reorder, and partition", so the network here is the set of every  *)
(* envelope ever sent, any of which may be handled at any later time, any  *)
(* number of times or never.  Timers fire at any time.  The bounds are in  *)
(* the guards: MaxTerm on elections, MaxLog on the length a leader's log   *)
(* may reach by proposals.                                                 *)
(***************************************************************************)
EXTENDS RaftNode

CONSTANTS MaxTerm, MaxLog

ASSUME BoundAssumption == MaxTerm \in Nat /\ MaxLog \in Nat

VARIABLES node,  \* the state of every node
          sent   \* every envelope sent so far

vars == <<node, sent>>

TypeOK == /\ node \in [Server -> Node]
          /\ sent \subseteq Envelope

Init == /\ node = [i \in Server |-> NewNode]
        /\ sent = {}

Step(i, r) == /\ node' = [node EXCEPT ![i] = r.node]
              /\ sent' = sent \cup r.out

-----------------------------------------------------------------------------

\* tick of a Follower or Candidate past its election deadline.
ElectionTimeout(i) == /\ node[i].role # Leader
                      /\ node[i].current_term < MaxTerm
                      /\ Step(i, StartElection(i, node[i]))

\* tick of a Leader past its heartbeat deadline.
Heartbeat(i) == /\ node[i].role = Leader
                /\ Step(i, Done(node[i], BroadcastAppendEntries(i, node[i]), FALSE))

\* A non-leader refuses the proposal and changes nothing.
Propose(i, command) == /\ node[i].role = Leader
                       /\ LastIndex(node[i].log) < MaxLog
                       /\ Step(i, ClientPropose(i, node[i], command))

Receive(type) ==
  \E e \in sent : /\ e.msg.type = type
                  /\ Step(e.to, Handle(e.to, node[e.to], e.from, e.msg))

ReceiveRequestVote == Receive("RequestVote")
ReceiveVoteReply == Receive("RequestVoteReply")
ReceiveAppendEntries == Receive("AppendEntries")
ReceiveAppendReply == Receive("AppendEntriesReply")

Next == \/ \E i \in Server : ElectionTimeout(i)
        \/ \E i \in Server : Heartbeat(i)
        \/ \E i \in Server, command \in Command : Propose(i, command)
        \/ ReceiveRequestVote
        \/ ReceiveVoteReply
        \/ ReceiveAppendEntries
        \/ ReceiveAppendReply

Spec == Init /\ [][Next]_vars

-----------------------------------------------------------------------------
(* Elections.                                                              *)

SentOf(type) == {e \in sent : e.msg.type = type}

\* At most one node ever leads a term: no two leaders share a term now, and no
\* two nodes ever sent AppendEntries of one term (REQ-005, Election Safety;
\* a leader's only outputs are AppendEntries, so `sent` remembers every leader).
ElectionSafety ==
  /\ \A i, j \in Server :
       /\ node[i].role = Leader /\ node[j].role = Leader
       /\ node[i].current_term = node[j].current_term
       => i = j
  /\ \A d, e \in SentOf("AppendEntries") :
       d.msg.term = e.msg.term => d.from = e.from

\* A node never promises one term to two candidates, itself included: no two
\* granted replies of one sender and term go to different candidates, and a
\* node that granted a term to another never asks for that term's votes.
OneVotePerTerm ==
  /\ \A d, e \in SentOf("RequestVoteReply") :
       /\ d.msg.granted /\ e.msg.granted
       /\ d.from = e.from /\ d.msg.term = e.msg.term
       => d.to = e.to
  /\ \A d \in SentOf("RequestVoteReply"), e \in SentOf("RequestVote") :
       d.msg.granted /\ d.from = e.from => d.msg.term # e.msg.term

\* e commits its sender to candidate c in the term of e: a granted vote, or a
\* message only a candidate or a leader sends, which has voted for itself.
Backs(e, c) ==
  \/ e.msg.type = "RequestVoteReply" /\ e.msg.granted /\ e.to = c
  \/ e.msg.type \in {"RequestVote", "AppendEntries"} /\ e.from = c

Supports(v, c, term) ==
  \E e \in sent : e.from = v /\ e.msg.term = term /\ Backs(e, c)

Pledges(envelopes) ==
  UNION {{[voter |-> e.from, term |-> e.msg.term, candidate |-> c] :
            c \in {c \in Server : Backs(e, c)}} : e \in envelopes}

\* What is on the wire was sent to another node, in a term the sender reached,
\* and binds the sender's vote of that term for good.
VotesBind ==
  /\ \A e \in sent :
       /\ e.from # e.to
       /\ e.msg.type = "RequestVote" => e.msg.candidate_id = e.from
       /\ e.msg.term <= node[e.from].current_term
  /\ \A e \in sent : e.msg.term = node[e.from].current_term =>
       \A c \in Server : Backs(e, c) => node[e.from].voted_for = c
  /\ \A p, q \in Pledges(sent) :
       p.voter = q.voter /\ p.term = q.term => p.candidate = q.candidate

\* A candidate and a leader have voted for themselves, and every other vote they
\* count was granted them in their term; a leader counts a majority.
Counts(i, n) ==
  /\ n.role # Follower =>
       /\ n.voted_for = i
       /\ \A v \in n.votes_received : v = i \/ Supports(v, i, n.current_term)
  /\ n.role = Leader => IsMajority(Cardinality(n.votes_received))

\* Whoever ever led a term was backed in it by a majority.
MandateOfMajority ==
  \A e \in SentOf("AppendEntries") :
    \E Q \in SUBSET Server :
      /\ IsMajority(Cardinality(Q))
      /\ \A v \in Q : Supports(v, e.from, e.msg.term)

\* The inductive invariant behind Election Safety: every count of votes that
\* made a leader can be read off the messages sent, and no sender of them ever
\* backed two candidates in one term.
ElectionInv == /\ VotesBind
               /\ \A i \in Server : Counts(i, node[i])
               /\ MandateOfMajority

-----------------------------------------------------------------------------
(* Roles: the driver assigns `role` directly, in four places; role.rs      *)
(* declares the machine it should follow.                                  *)

Fsm == INSTANCE RoleFsm WITH role <- [i \in Server |-> node[i].role]

\* Every node's role moves only along the arms of role.rs, one node at a time.
RolesRefineFsm == Fsm!Spec

\* What the step of node i shows of the event role.rs names as the cause.
Caused(event, i) ==
  LET m == node[i]
      n == node'[i]
  IN  CASE event = "ElectionTimeout"     -> n.current_term = m.current_term + 1
        [] event = "MajorityVotes"       -> /\ n.current_term = m.current_term
                                            /\ IsMajority(Cardinality(n.votes_received))
        [] event = "HigherTerm"          -> n.current_term > m.current_term
        [] event = "LeaderAppendEntries" ->
             /\ n.current_term = m.current_term
             /\ \E e \in SentOf("AppendEntries") :
                  e.to = i /\ e.from # i /\ e.msg.term = m.current_term

\* A node changes its role only for the cause the arm names: it leads its
\* current term on a majority of votes, falls as a leader only to a higher
\* term, and gives up a candidacy of its term only to that term's leader.
RoleChangesHaveCause ==
  [][\A i \in Server :
       node'[i].role # node[i].role =>
         \E event \in Fsm!Events : Fsm!On(event, i) /\ Caused(event, i)]_vars

-----------------------------------------------------------------------------
(* Logs.                                                                   *)

\* Two logs that hold an entry of one term at one index are identical up to it
\* (REQ-005, Log Matching).
LogMatching ==
  \A i, j \in Server :
    \A k \in 1..Smaller(Len(node[i].log), Len(node[j].log)) :
      node[i].log[k].term = node[j].log[k].term =>
        SubSeq(node[i].log, 1, k) = SubSeq(node[j].log, 1, k)

\* A node that leads, and leads the same term after the step, has kept every
\* entry of its log: only a proposal changes it, at the end.
LeaderAppendOnly ==
  [][\A i \in Server :
       node[i].role = Leader /\ node'[i].role = Leader =>
         /\ node'[i].current_term = node[i].current_term
         /\ Len(node'[i].log) >= Len(node[i].log)
         /\ SubSeq(node'[i].log, 1, Len(node[i].log)) = node[i].log]_vars

\* What a node applied it never takes back, and it applies the entries of its log
\* in order, each once: what a step adds to the KV history are the commands of the
\* entries after last_applied, up to the commit index it reaches and the log holds
\* (REQ-004; replicate.rs, "entries apply exactly once, in index order").  A commit
\* index that goes back applies nothing.
AppliedOnce ==
  [][\A i \in Server :
       LET m == node[i]
           n == node'[i]
       IN  /\ n.last_applied >= m.last_applied
           /\ n.last_applied > m.last_applied =>
                n.last_applied = n.commit_index /\ n.commit_index <= Len(n.log)
           /\ n.kv = m.kv \o [k \in 1..n.last_applied - m.last_applied |->
                                n.log[m.last_applied + k].command]]_vars

\* A node's term never goes back; within a term its vote, once given, stays.
TermAndVoteKept ==
  [][\A i \in Server :
       /\ node'[i].current_term >= node[i].current_term
       /\ node'[i].current_term = node[i].current_term =>
            node[i].voted_for \in {Nil, node'[i].voted_for}]_vars

=============================================================================
