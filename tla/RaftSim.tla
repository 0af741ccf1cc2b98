------------------------------- MODULE RaftSim -------------------------------
(***************************************************************************)
(* The cluster of the simulation harness (crates/sim): the Raft nodes on   *)
(* one FIFO bus, a hand-driven clock and a partition that drops what       *)
(* crosses it.  Its calls are actions: tick, deliver (one message of it    *)
(* per step), propose, set_partition and heal.                             *)
(*                                                                         *)
(* Deadlines are kept as the ticks left until they pass (0: they passed),  *)
(* which is all a node reads of the clock.  The jitter of an election      *)
(* deadline, drawn from a seeded generator, is any value below             *)
(* ELECTION_JITTER.  A tick lets the nodes fire in id order; `turn` is the *)
(* next one to fire, and no other call starts before the last one has.     *)
(***************************************************************************)
EXTENDS RaftNode, Integers, SequencesExt

CONSTANTS ELECTION_TIMEOUT_BASE, ELECTION_JITTER, HEARTBEAT_INTERVAL,
          MaxAdvance,  \* the ticks one call of tick may advance the clock by
          MaxTerm, MaxLog,
          MaxBus,      \* no call but deliver starts above this many messages
          Cuts         \* the values of side_a that set_partition may install

ASSUME SimAssumption ==
  /\ Server = 0..Cardinality(Server) - 1
  /\ {ELECTION_TIMEOUT_BASE, HEARTBEAT_INTERVAL, MaxAdvance, MaxTerm, MaxLog, MaxBus}
       \subseteq Nat
  /\ ELECTION_JITTER \in Nat \ {0}
  /\ HEARTBEAT_INTERVAL < ELECTION_TIMEOUT_BASE
  /\ Cuts \subseteq SUBSET Server

VARIABLES node,
          bus,             \* the in-flight messages, oldest first
          side_a,          \* one side of the cut; empty: no partition
          election_left,   \* ticks until each node's election_deadline
          heartbeat_left,  \* ticks until each node's heartbeat_deadline
          turn,            \* the next node a running tick lets fire
          sent             \* history: every envelope a node returned

timers == <<election_left, heartbeat_left>>
vars == <<node, bus, side_a, timers, turn, sent>>

Init == /\ node = [i \in Server |-> NewNode]
        /\ bus = <<>>
        /\ side_a = {}
        /\ election_left = [i \in Server |-> 0]
        /\ heartbeat_left = [i \in Server |-> 0]
        /\ turn = Cardinality(Server)
        /\ sent = {}

Idle == turn = Cardinality(Server)

Connected(from, to) == side_a = {} \/ (from \in side_a <=> to \in side_a)

\* The envelopes of one handler in the order it returns them: peers by id.
InOrder(out) == CHOOSE s \in [1..Cardinality(out) -> out] :
                  \A k, l \in DOMAIN s : k < l => s[k].to < s[l].to

Reachable(out) == {e \in out : Connected(e.from, e.to)}

\* Mutant: a Follower that hears from its leader keeps its old deadline.
InstallStale(i, r, queue) ==
  /\ node' = [node EXCEPT ![i] = r.node]
  /\ bus' = queue \o InOrder(Reachable(r.out))
  /\ sent' = sent \cup r.out
  /\ IF r.reset /\ r.node.role # Follower
     THEN \E jitter \in 0..ELECTION_JITTER - 1 :
            election_left' = [election_left EXCEPT ![i] =
                                ELECTION_TIMEOUT_BASE + jitter]
     ELSE UNCHANGED election_left
  /\ UNCHANGED side_a

\* Install what a handler of node i returned, its envelopes behind `queue`.
\* A new leader's heartbeat deadline is 0: it has passed.
Install(i, r, queue) ==
  /\ node' = [node EXCEPT ![i] = r.node]
  /\ bus' = queue \o InOrder(Reachable(r.out))
  /\ sent' = sent \cup r.out
  /\ IF r.reset
     THEN \E jitter \in 0..ELECTION_JITTER - 1 :
            election_left' = [election_left EXCEPT ![i] =
                                ELECTION_TIMEOUT_BASE + jitter]
     ELSE UNCHANGED election_left
  /\ UNCHANGED side_a

-----------------------------------------------------------------------------

Minus(left, by) == [i \in Server |-> IF left[i] > by THEN left[i] - by ELSE 0]

\* tick(by): the clock moves, then the nodes fire one after the other.
Advance(by) ==
  /\ Idle /\ Len(bus) <= MaxBus
  /\ election_left' = Minus(election_left, by)
  /\ heartbeat_left' = Minus(heartbeat_left, by)
  /\ turn' = 0
  /\ UNCHANGED <<node, bus, side_a, sent>>

\* Mutant: a Leader's election deadline fires too.
CampaignAnyRole(i) ==
  /\ turn = i
  /\ election_left[i] = 0
  /\ node[i].current_term < MaxTerm
  /\ Install(i, StartElection(i, node[i]), bus)
  /\ turn' = i + 1
  /\ UNCHANGED heartbeat_left

Campaign(i) ==
  /\ turn = i
  /\ node[i].role # Leader /\ election_left[i] = 0
  /\ node[i].current_term < MaxTerm
  /\ Install(i, StartElection(i, node[i]), bus)
  /\ turn' = i + 1
  /\ UNCHANGED heartbeat_left

Beat(i) ==
  /\ turn = i
  /\ node[i].role = Leader /\ heartbeat_left[i] = 0
  /\ Install(i, Done(node[i], BroadcastAppendEntries(i, node[i]), FALSE), bus)
  /\ heartbeat_left' = [heartbeat_left EXCEPT ![i] = HEARTBEAT_INTERVAL]
  /\ turn' = i + 1

\* The node's deadline has not passed, or the bound on terms stops it.
Rest(i) ==
  /\ turn = i
  /\ \/ node[i].role = Leader /\ heartbeat_left[i] > 0
     \/ node[i].role # Leader /\ (\/ election_left[i] > 0
                                  \/ node[i].current_term = MaxTerm)
  /\ turn' = i + 1
  /\ UNCHANGED <<node, bus, side_a, timers, sent>>

Deliver ==
  /\ Idle /\ bus # <<>>
  /\ LET e == Head(bus)
         r == Handle(e.to, node[e.to], e.from, e.msg)
     IN  IF Connected(e.from, e.to)
         THEN /\ Install(e.to, r, Tail(bus))
              /\ heartbeat_left' =
                   IF r.node.role = Leader /\ node[e.to].role # Leader
                   THEN [heartbeat_left EXCEPT ![e.to] = 0]
                   ELSE heartbeat_left
         ELSE /\ bus' = Tail(bus)
              /\ UNCHANGED <<node, side_a, timers, sent>>
  /\ UNCHANGED turn

Propose(i, command) ==
  /\ Idle /\ Len(bus) <= MaxBus
  /\ node[i].role = Leader /\ LastIndex(node[i].log) < MaxLog
  /\ Install(i, ClientPropose(i, node[i], command), bus)
  /\ UNCHANGED <<heartbeat_left, turn>>

\* set_partition, and heal when the cut is empty.
SetPartition(cut) ==
  /\ Idle /\ Len(bus) <= MaxBus /\ cut # side_a
  /\ side_a' = cut
  /\ UNCHANGED <<node, bus, timers, turn, sent>>

Next == \/ \E by \in 1..MaxAdvance : Advance(by)
        \/ \E i \in Server : Campaign(i) \/ Beat(i) \/ Rest(i)
        \/ Deliver
        \/ \E i \in Server, command \in Command : Propose(i, command)
        \/ \E cut \in Cuts \cup {{}} : SetPartition(cut)

Spec == Init /\ [][Next]_vars

\* run_until_quiet: ticks of one, the bus drained after each (MaxBus = 0).  Its
\* caller may propose or cut in between, and lets it run again.
RunUntilQuiet == \/ Advance(1)
                 \/ \E i \in Server : Campaign(i) \/ Beat(i) \/ Rest(i)
                 \/ Deliver

Fairness == WF_vars(RunUntilQuiet)

FairSpec == Spec /\ Fairness

-----------------------------------------------------------------------------
(* The bus, the timers and the cut are one way to schedule the handlers:   *)
(* a message is handled at most once, in order, or lost.                   *)

Transport == INSTANCE Raft

RefinesRaft == Transport!Spec

-----------------------------------------------------------------------------
(* Leadership.                                                             *)

Accepted(i) == /\ node[i].role = Leader
               /\ \A j \in Peers(i) : /\ node[j].role = Follower
                                       /\ node[j].current_term = node[i].current_term

\* A leader every other node follows in its term is never challenged while the
\* network is whole (node.rs:30, "a healthy leader keeps followers from timing
\* out"): heartbeats reach every follower before its deadline.
AcceptedLeaderStays ==
  [][\A i \in Server : Accepted(i) => Accepted(i)']_vars

\* leader(): the one node that leads the highest term any node has.
HighestTerm == Max({node[i].current_term : i \in Server})

LeaderIs(i) == /\ node[i].role = Leader
               /\ node[i].current_term = HighestTerm

\* A whole cluster does not lag behind its leader for ever: when the leader's
\* last entry is of its own term, every node comes to have committed the
\* leader's whole log.  Replication backs off to where the logs agree, repairs
\* what conflicts, and a heartbeat carries the commit index to the followers.
CaughtUp ==
  \A i \in Server :
    LeaderIs(i) /\ LastTerm(node[i].log) = node[i].current_term =>
      \/ side_a # {}
      \/ \A j \in Server : node[j].commit_index = LastIndex(node[i].log)

EntriesReplicate == []<>CaughtUp

-----------------------------------------------------------------------------
(* What the simulation asserts of the committed history.                   *)

\* committed_prefix
CommittedPrefix(n) ==
  [k \in 1..Smaller(n.commit_index, LastIndex(n.log)) |-> n.log[k].command]

\* Any two nodes' committed prefixes are consistent: one is a prefix of the
\* other (checks.rs, committed_history_consistent; dst.rs asserts it).
CommittedHistoryConsistent ==
  \A i, j \in Server :
    LET a == CommittedPrefix(node[i])
        b == CommittedPrefix(node[j])
    IN  IsPrefix(a, b) \/ IsPrefix(b, a)

=============================================================================
