------------------------------ MODULE MCRaftSim ------------------------------
(***************************************************************************)
(* RaftSim on three nodes.  The runs that do not read the history variable *)
(* identify the states that differ only in it.                             *)
(***************************************************************************)
EXTENDS RaftSim, TLC

WithoutHistory == <<node, bus, side_a, timers, turn>>

SameCommands == Permutations(Command)

\* A state every schedule without a cut soon reaches: the deadlines start at 0,
\* so all nodes split the votes of term 1, and node 0, whose next deadline was
\* the first to pass, leads term 2 with every vote and has been heard by all.
Led == /\ node = [i \in Server |->
                    [NewNode EXCEPT !.current_term = 2,
                                    !.voted_for = 0,
                                    !.role = IF i = 0 THEN Leader ELSE Follower,
                                    !.votes_received = IF i = 0 THEN {0, 1} ELSE {}]]
       /\ bus = <<>>
       /\ side_a = {}
       /\ election_left = [i \in Server |->
                           ELECTION_TIMEOUT_BASE + (IF i = 2 THEN 1 ELSE 0)]
       /\ heartbeat_left = [i \in Server |-> HEARTBEAT_INTERVAL]
       /\ turn = Cardinality(Server)
       /\ sent = {}

LedSpec == Led /\ [][Next]_vars

FairLedSpec == LedSpec /\ Fairness
=============================================================================
