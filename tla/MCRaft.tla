-------------------------------- MODULE MCRaft --------------------------------
(***************************************************************************)
(* Raft on a small cluster, with two bounds of the run beside MaxTerm and  *)
(* MaxLog: on the elections, whoever starts them in whatever term, and on  *)
(* the number of distinct envelopes sent.                                  *)
(***************************************************************************)
EXTENDS Raft, TLC

CONSTANTS MaxElections, MaxSent

Bounded ==
  /\ Cardinality({<<e.from, e.msg.term>> : e \in SentOf("RequestVote")})
       <= MaxElections
  /\ Cardinality(sent) <= MaxSent

Symmetry == Permutations(Server) \cup Permutations(Command)
=============================================================================
