------------------------------- MODULE RoleFsm -------------------------------
(***************************************************************************)
(* The role state machine the Raft core declares in role.rs (`next`), one  *)
(* instance per node and one step of one node at a time.  The node driver  *)
(* never calls `next`; Raft shows that it follows it anyway.               *)
(***************************************************************************)
CONSTANT Server

VARIABLE role

Roles  == {"Follower", "Candidate", "Leader"}
Events == {"ElectionTimeout", "MajorityVotes", "HigherTerm", "LeaderAppendEntries"}

\* The arms of `next` that return a role; every other pair returns None.
Arms == {<<"Follower",  "ElectionTimeout",     "Candidate">>,
         <<"Candidate", "ElectionTimeout",     "Candidate">>,
         <<"Candidate", "MajorityVotes",       "Leader">>,
         <<"Candidate", "LeaderAppendEntries", "Follower">>,
         <<"Candidate", "HigherTerm",          "Follower">>,
         <<"Leader",    "HigherTerm",          "Follower">>}

TypeOK == role \in [Server -> Roles]

Init == role = [i \in Server |-> "Follower"]

On(event, i) == \E arm \in Arms : /\ arm[1] = role[i]
                                  /\ arm[2] = event
                                  /\ role' = [role EXCEPT ![i] = arm[3]]

Next == \E i \in Server, event \in Events : On(event, i)

Spec == Init /\ [][Next]_role
=============================================================================
