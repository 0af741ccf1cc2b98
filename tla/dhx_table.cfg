SPECIFICATION Spec
CONSTANTS
  Held = Held
  Confirmed = Confirmed
  Expired = Expired
  Confirm = Confirm
  Expire = Expire
  Inv = Inv
  Bound = Bound
  Other = {Bound}
  State = {Held, Confirmed, Expired}
  Event = {Confirm, Expire}
  None = None
  ManualInvariant = {Inv}
  ReqId = {0, 1, 2}
  Code = {"201", "404", "409"}
  ClientError = {"404", "409"}
  Technique = {"kani", "tla", "proptest"}
  File = {"ledger.rs", "proofs.rs"}
  Symbol = {"grant", "proof"}
  Nothing = Nothing
  Blank <- MCBlank
  Scaffold <- MCScaffold
  Working <- MCWorking
  Edited <- MCEdited
  MaxEdits = 1
VIEW WithoutStaleVerdicts
INVARIANT SameTransitionTable
