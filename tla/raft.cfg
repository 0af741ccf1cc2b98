SPECIFICATION Spec
CONSTANTS
  Server = {s1, s2, s3}
  Command = {x, y}
  Nil = Nil
  MaxTerm = 3
  MaxLog = 2
  MaxElections = 3
  MaxSent = 14
SYMMETRY Symmetry
CONSTRAINT Bounded
CHECK_DEADLOCK FALSE
INVARIANTS
  TypeOK
  LogMatching
  ElectionSafety
  ElectionInv
  OneVotePerTerm
PROPERTIES
  LeaderAppendOnly
  AppliedOnce
  TermAndVoteKept
  RolesRefineFsm
  RoleChangesHaveCause
