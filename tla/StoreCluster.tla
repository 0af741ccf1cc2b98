----------------------------- MODULE StoreCluster -----------------------------
(***************************************************************************)
(* The cluster of the Raft service built without the harness               *)
(* (src/raft/cluster.rs): nodes on one FIFO bus and one clock.  `tick`     *)
(* lets every node fire in id order, then delivers until the bus is empty; *)
(* `client_write` hands a command to the one node that leads.              *)
(*                                                                         *)
(* The transport "may drop/delay" an envelope (types.rs:60): Cut parts the *)
(* nodes in two or makes them whole, and what would cross is dropped.      *)
(*                                                                         *)
(* Deadlines are the ticks left until they pass (0: passed), all a node    *)
(* reads of the clock.  Jitter is any value the generator may draw.        *)
(***************************************************************************)
EXTENDS StoreNode

CONSTANTS ELECTION_TIMEOUT_BASE, ELECTION_TIMEOUT_JITTER, HEARTBEAT_INTERVAL,
          MaxTerm, MaxLog,
          Cuts         \* one side of each way the nodes may be parted

ASSUME StoreClusterAssumption ==
  /\ HEARTBEAT_INTERVAL \in Nat /\ ELECTION_TIMEOUT_BASE \in Nat
  /\ ELECTION_TIMEOUT_JITTER \in Nat \ {0}
  /\ HEARTBEAT_INTERVAL < ELECTION_TIMEOUT_BASE
  /\ MaxTerm \in Nat /\ MaxLog \in Nat
  /\ Cuts \subseteq SUBSET Server

VARIABLES nodes,
          bus,             \* messages under way, oldest first
          election_left,   \* ticks until each node's election_deadline
          heartbeat_left,  \* ticks until last_heartbeat + HEARTBEAT_INTERVAL
          turn,            \* the next node a running tick lets fire
          side             \* one side of the cut; empty: whole

timers == <<election_left, heartbeat_left>>
vars == <<nodes, bus, timers, turn, side>>

Deadlines == ELECTION_TIMEOUT_BASE
               .. ELECTION_TIMEOUT_BASE + ELECTION_TIMEOUT_JITTER - 1

Init == /\ nodes = [i \in Server |-> New]
        /\ bus = <<>>
        /\ election_left \in [Server -> Deadlines]
        /\ heartbeat_left = [i \in Server |-> 0]
        /\ turn = Cardinality(Server)
        /\ side = {}

\* Between two ticks' firings: the bus is being drained, or is empty.
Idle == turn = Cardinality(Server)

\* Node i becomes what a handler returned, its envelopes behind `queue`.
Install(i, r, queue) ==
  /\ nodes' = [nodes EXCEPT ![i] = r.node]
  /\ bus' = queue \o r.out
  /\ IF r.reset THEN \E left \in Deadlines :
                       election_left' = [election_left EXCEPT ![i] = left]
                ELSE UNCHANGED election_left

-----------------------------------------------------------------------------

Minus1(left) == [i \in Server |-> IF left[i] > 0 THEN left[i] - 1 ELSE 0]

\* tick: the clock moves; the nodes are about to fire.
Tick == /\ Idle /\ bus = <<>>
        /\ election_left' = Minus1(election_left)
        /\ heartbeat_left' = Minus1(heartbeat_left)
        /\ turn' = 0
        /\ UNCHANGED <<nodes, bus, side>>

Campaign(i) ==
  /\ turn = i
  /\ nodes[i].role # "Leader" /\ election_left[i] = 0
  /\ nodes[i].current_term < MaxTerm
  /\ Install(i, StartElection(i, nodes[i]), bus)
  /\ turn' = i + 1
  /\ UNCHANGED <<heartbeat_left, side>>

Heartbeat(i) ==
  /\ turn = i
  /\ nodes[i].role = "Leader" /\ heartbeat_left[i] = 0
  /\ bus' = bus \o BroadcastAppendEntries(i, nodes[i])
  /\ heartbeat_left' = [heartbeat_left EXCEPT ![i] = HEARTBEAT_INTERVAL]
  /\ turn' = i + 1
  /\ UNCHANGED <<nodes, election_left, side>>

\* No deadline of the node has passed, or the bound on terms stops it.
Rest(i) ==
  /\ turn = i
  /\ IF nodes[i].role = "Leader" THEN heartbeat_left[i] > 0
     ELSE election_left[i] > 0 \/ nodes[i].current_term = MaxTerm
  /\ turn' = i + 1
  /\ UNCHANGED <<nodes, bus, timers, side>>

\* The node that sent an envelope: replies and appends name it, as requests do.
SenderOf(m) == CASE m.type = "RequestVote"        -> m.candidate
                 [] m.type = "AppendEntries"      -> m.leader
                 [] m.type = "AppendEntriesReply" -> m.from
                 [] OTHER                         -> m.voter

Crosses(i, j) == (i \in side) # (j \in side)

\* Mutant: a message is handled and stays on the bus.
DeliverAgain ==
  /\ Idle /\ bus # <<>>
  /\ LET i == Head(bus).to
         m == Head(bus).msg
     IN  Install(i, Handle(i, nodes[i], m), bus)
  /\ UNCHANGED <<heartbeat_left, turn, side>>

\* One round of drain_bus: the oldest message is handled, or lost in the cut.
\* A node that comes to lead has just sent its heartbeats.
Deliver ==
  /\ Idle /\ bus # <<>>
  /\ LET i == Head(bus).to
         m == Head(bus).msg
         r == Handle(i, nodes[i], m)
     IN  IF Crosses(SenderOf(m), i)
         THEN /\ bus' = Tail(bus)
              /\ UNCHANGED <<nodes, timers>>
         ELSE /\ Install(i, r, Tail(bus))
              /\ heartbeat_left' =
                   IF r.node.role = "Leader" /\ nodes[i].role # "Leader"
                   THEN [heartbeat_left EXCEPT ![i] = HEARTBEAT_INTERVAL]
                   ELSE heartbeat_left
  /\ UNCHANGED <<turn, side>>

\* leader(): the one node that believes it leads, if there is exactly one.
Leaders == {i \in Server : nodes[i].role = "Leader"}

ClientWrite(command) ==
  /\ Idle /\ bus = <<>>
  /\ \E i \in Server :
       /\ Leaders = {i} /\ LastLogIndex(nodes[i]) < MaxLog
       /\ nodes' = [nodes EXCEPT ![i] = ClientAppend(@, command)]
  /\ UNCHANGED <<bus, timers, turn, side>>

Cut(cut) == /\ Idle /\ bus = <<>> /\ cut # side
            /\ side' = cut
            /\ UNCHANGED <<nodes, bus, timers, turn>>

Run == \/ Tick
       \/ \E i \in Server : Campaign(i) \/ Heartbeat(i) \/ Rest(i)
       \/ Deliver

Next == \/ Run
        \/ \E command \in Command : ClientWrite(command)
        \/ \E cut \in Cuts \cup {{}} : Cut(cut)

\* run_ticks goes on calling tick, whose loops fire every node and drain the
\* bus; no client and no fault is owed.
Spec == Init /\ [][Next]_vars /\ WF_vars(Run)

-----------------------------------------------------------------------------

\* Types, and the timers within what the code may draw.
TypeOK == /\ nodes \in [Server -> RaftNode]
          /\ bus \in Seq(Envelope)
          /\ election_left \in [Server -> 0 .. Max(Deadlines)]
          /\ heartbeat_left \in [Server -> 0..HEARTBEAT_INTERVAL]
          /\ turn \in 0..Cardinality(Server)
          /\ side \in Cuts \cup {{}}

\* The votes of node i's term under way to it.
GrantsUnderWay(i) ==
  {k \in DOMAIN bus : /\ bus[k].to = i
                      /\ bus[k].msg.type = "RequestVoteReply"
                      /\ bus[k].msg.granted
                      /\ bus[k].msg.term = nodes[i].current_term}

\* The others that gave i their vote in its term, as far as they can tell: those
\* in a later term may have.
MayHaveVotedFor(i) ==
  {j \in Server \ {i} : \/ nodes[j].current_term > nodes[i].current_term
                        \/ /\ nodes[j].current_term = nodes[i].current_term
                           /\ nodes[j].voted_for = i}

\* votes_received is a count (node.rs:236), so a vote counted twice would make a
\* leader no majority chose: what a candidate or a leader has counted and what
\* is under way to it never exceeds the nodes that voted for it.
VotesWereGiven ==
  \A i \in Server : nodes[i].role # "Follower" =>
    nodes[i].votes_received + Cardinality(GrantsUnderWay(i))
      <= Cardinality(MayHaveVotedFor(i)) + 1

\* apply_committed indexes the log unchecked (node.rs:407): no handler takes the
\* commit index past the log's end, and no truncation reaches what was applied,
\* so the store is that of the log's prefix.
AppliedIsLogPrefix ==
  \A i \in Server :
    LET n == nodes[i]
    IN  /\ n.last_applied = n.commit_index
        /\ n.commit_index <= LastLogIndex(n)
        /\ n.kv = SubSeq(n.log, 1, n.last_applied)

\* No two nodes apply different entries at one index (State Machine Safety).
StateMachineSafety ==
  \A i, j \in Server : \/ IsPrefix(nodes[i].kv, nodes[j].kv)
                       \/ IsPrefix(nodes[j].kv, nodes[i].kv)

\* A node that leads the latest term there is holds everything any node has
\* applied (Leader Completeness), whatever was cut off or late.
LeaderIsComplete ==
  \A i, j \in Server :
    /\ nodes[i].role = "Leader"
    /\ \A k \in Server : nodes[k].current_term <= nodes[i].current_term
    => IsPrefix(nodes[j].kv, nodes[i].log)

\* What a leader takes a follower of its term to hold, the follower holds
\* (node.rs:331, match_index is what the message covered): a late or repeated
\* reply may only make it believe less.
MatchIsHeld ==
  \A i, j \in Server :
    /\ nodes[i].role = "Leader" /\ i # j
    /\ nodes[j].current_term = nodes[i].current_term
    => LET known == nodes[i].match_index[j]
       IN  /\ known <= LastLogIndex(nodes[i])
           /\ IsPrefix(SubSeq(nodes[i].log, 1, known), nodes[j].log)

-----------------------------------------------------------------------------

LatestLeader(i) ==
  /\ nodes[i].role = "Leader"
  /\ \A j \in Server : nodes[j].current_term <= nodes[i].current_term

\* Once the transport is whole, a leader of the latest term whose log ends in a
\* write of its own has that write applied by every node, again and again: a
\* new leader does commit its own writes, deposed ones notwithstanding, which
\* step down on their old deadline (node.rs:157) and campaign at once.
WritesReachEveryNode ==
  []<>(\A i \in Server :
         LatestLeader(i) /\ LastLogTerm(nodes[i]) = nodes[i].current_term =>
           \/ side # {}
           \/ \A j \in Server : nodes[j].last_applied = LastLogIndex(nodes[i]))

=============================================================================
