# Models and proofs of deterministic-harness

TLA+ models of the programs in this repository, the TLC runs that check them on
small instances, and TLAPS proofs of what matters most for every instance.
`PROJECT.json` lists the runs, the mutants that show each property bites, the
source lines of every definition, the findings, the hazards and the theorems.

To run one: `tlc -workers 2 -config raft.cfg MCRaft.tla`, and
`tlapm RaftProofs.tla` for a proof.

## The system

The repository is `dhx`, a command-line harness that holds a Rust project to its
specification (`harness/`), and three example services, each written twice: once
under the harness (`service-with-harness`) and once without it.

| Part | State | Operations | What makes it correct |
|---|---|---|---|
| Raft node, harness (`core/src/domain/raft`) | role, term, vote, votes received, log, commit and applied index, next and match index, two deadlines | `tick`, `handle` (four messages), `client_propose` | one leader a term, logs that match, agreement on what is committed, roles that follow `role.rs` |
| Raft simulator, harness (`crates/sim`) | nodes, FIFO bus, clock, seeded generator, partition | `tick`, `deliver`, `propose`, `set_partition`, `heal`, `run_until_quiet` | adds nothing to what the transport may do; a healthy leader stays; logs are repaired |
| Raft, no harness (`src/raft`) | the same, with a count of votes; FIFO bus, clock, seeded generator | `tick`, `drain_bus`, `client_append`, `leader`, `client_write` | votes that were given, one applied history, writes that come through once the transport is whole |
| Seat service, harness | confirmed seats, list of holds, next id, wall clock | `hold`, `confirm`, `release`, `available`, `purge_expired` | the capacity, one booking a hold, the lifecycle of `hold.rs`, seats that come back |
| Seat service, no harness | confirmed seats, map of holds, monotonic clock | `hold`, `confirm`, `release`, `available` | the same promise |
| Ledger, both | accounts (balance, state), applied keys | `transfer`, lifecycle events, `query` | conservation, once per key, no money through a frozen or closed account |
| `dhx`: tiers and gates (`harness/src`) | configuration loaded once, gates that failed | `check`, `verify --quick`, `verify --full` | a green verdict stands on every gate, and what the gates say together is so |
| `dhx`: commands that write | files of the tree: generated `.tla` and `.cfg`, lock, counts, scaffold | `regen`, `counts --write`, `traceability --write`, `init`, `migrate` | a command that ends well has settled its gate; one cut short is seen |
| KV map, RESP parser, CLI wiring, HTTP mapping | none between calls | pure | unit tests reach them |

The parts of one Raft cluster interact by messages and share nothing; the
simulator owns the nodes and calls them one at a time. The seat and ledger
services share one structure behind a mutex among concurrent HTTP handlers.
`dhx` reads files and runs other programs one after the other, on a tree that a
developer goes on editing; its gates meet only in that tree and in the verdict.

What is hard: interleavings of elections and replication over a network that
loses, repeats and reorders; deadlines that race heartbeats; partitions that form
while messages are under way; a clock that is read before a lock, or set back; a
mutex taken twice where one step is meant; a model regenerated by one command and
checked by another; a promise that no single gate keeps. `PROJECT.json` lists each hazard at
its line with the properties that watch it.

## Modules

**`RaftNode`** holds the node's handlers as operators from a node, a sender and a
message to a record of the new node, the envelopes it returns and whether the
election deadline was `reset`. One operator per function of `node.rs`,
`node/replicate.rs`, `log.rs` and `decide.rs`. The log is the sequence of entries
(term and command); the KV map is `kv`, the sequence of commands applied, which
tells more than the map does. `votes_received` holds the peers that granted: a
refusal inserted by the code never counts.

**`Raft`** is the cluster over the weakest network REQ-005 speaks of ("any
interleaving, loss, reorder, and partition"). `sent` only grows: any envelope ever
sent may be handled at any later time, any number of times, or never, which covers
loss, reordering and repetition. Timers fire whenever they like, for the deadlines
are no part of what safety rests on. Actions: `ElectionTimeout`, `Heartbeat`,
`Propose`, and one `Receive...` per message type.

**`StoreNode`** is the node of the Raft built without the harness, one operator per
function of its `node.rs`, from a node and a message to the node, the envelopes and
`reset`. `votes_received` is a count, as in the code: what makes it sound is that
the transport never repeats an envelope, so this node is never put on `Raft`'s network.

**`StoreCluster`** is its `cluster.rs`: `Tick` moves the clock, the nodes fire in id
order (`Campaign`, `Heartbeat`, `Rest`), and `Deliver` handles the oldest message until
the bus is empty; `ClientWrite` succeeds when exactly one node leads. `types.rs:60` lets a
transport drop or delay an envelope: `Cut` parts the nodes between two ticks and
drops what would cross.

**`RoleFsm`** is the machine of `role.rs::next`. The node never calls it; it
assigns `role` in four places. `RolesRefineFsm` shows that every node's role still
moves along its arms, `RoleChangesHaveCause` that each move has the cause the arm
is named for.

**`RaftSim`** is the simulation harness: the same handlers on a FIFO bus, with
the clock, the deadlines and the partition. A deadline is the number of ticks left
until it passes, since that is all a node reads of the clock. Jitter, drawn from a
seeded generator, is any value the code may draw. `turn` lets the nodes fire in id
order within a tick, as the loop of `Cluster::tick` does; `deliver(max)` is
`max` steps of `Deliver`. `RefinesRaft` shows `RaftSim` to implement `Raft`: what
holds of every schedule holds of the simulator's.

**`Booking`** says what a seat service promises: each hold follows the machine of
`hold.rs` (from Held, once, to Confirmed, Released or Expired) and the seats held
and confirmed never exceed the capacity.

**`Seats`** is the harness's seat service. Every operation holds one mutex from
reading the clock to returning, so it is one action. `holds` keeps expired holds,
as the code does; `Purge` is a call no one in the service makes. A sum of seats is
the number of `<<id, k>>` pairs, one for each seat, which sums and stays provable
without recursion; it differs from the code's checked and saturating `u32` sums
only past `u32::MAX`. `SetBack` lets the host turn the clock back.

**`SeatStore`** is the seat service without the harness. A handler first reads the
clock (`Arrive`), and only then gets the mutex (`Run...`), so calls may carry
readings out of order; each call sweeps what its reading says has expired.

**`Payments`** says what a ledger promises: a key moves money at most once, between
two different open accounts and within the payer's balance; accounts move along the
arms of `lifecycle.rs` and are Closed for good.

**`Ledger`** is the harness's ledger service. A transfer and a query take the mutex
once and are one action. The lifecycle handler (`http.rs:118`) takes it twice,
`ApplyLifecycle` to apply the event and `ReplyLifecycle` to read the balance it reports
beside the new state, with other requests between: a reply may name a state and a
balance that never went together. What survives is `ClosedIsFinal`: a reply that says
closed names the account's last balance. `moved` and `told` are history.

**`LedgerStore`** is the ledger service without the harness: one mutex per handler, the
receipts kept under their keys and replayed, no unfreeze, and the recipient's balance
an unchecked sum (`Plus`, which wraps).

**`Ledgers`** gives both services the same requests (`SameBooks`).

**`Lifecycle`** is what `fsm.rs` and `fsm_render.rs` do: a source is its states, its
events and the arms of its `match`. Each arm is given twice over, as Rust takes it and as
extraction reads it: its patterns by the variants they match and by the name written there,
which a binding has and an or-pattern or a wildcard has not; its body by what it may evaluate
to and by the name it says when it is `Some(path)` to the letter, where a block, a helper or a
match says none. `ExtractTransitions` keeps the arms that have all three names (`Keeps`), in
the order of the source (`AtPlaces`, the entries at some places of a sequence), reads no guard
and takes every name for a variant's; `RenderTla` and `RenderCfg` give the two files as records
of what stands in them. `CodeSteps` is what the compiled source may do, by Rust's rule that the
first arm that matches, and whose guard lets it, is taken (`MayTake`): the measure the
extraction is held to. `TlcAccepts` is TLC's verdict on the generated pair.

**`Mutations`** is the table of mutations of `tlc.rs`. `CheckMutationCoverage` asks that every
invariant declared alone on its line has an entry or is exempted; `TlcMutate` runs each entry,
and takes it for good when its text is found once, TLC fails, and what TLC prints contains the
invariant's name. What TLC prints (`Output`) has the invariants it reports as violated, and those it
names for any reason: in a report, in an error, within a longer name. An edit of the generated
spec is given by what it makes of it (a step that leaves the states, a step back, a definition
lost), one of the hand-written spec by what TLC then prints.

**`Requirements`** has the gates that read documents: `CheckTraceability` with its lock,
`CheckBddStyle` line by line, `CheckBddCoverage`, `CheckVerifiedMarkers`, `CheckDocsCounts`.
The walk that collects scenarios goes from file to file and from line to line, so a scenario
is a title at a place and the steps up to the next title, be that in another file.
A criterion is the status codes it names, the techniques it claims, and its wording, the one
part only the lock tells apart; a line of a feature file is its keyword, the codes it
has, or "client error", and whether it says `shall`. A link is a path, which has to be there, with
or without a symbol, which has to be defined in it; a key may be there with no link under it. Of
two files with one id the later one stands for it (`Reqs`), as in the map the code fills.

**`Dhx`** puts them together. A command is a sequence of steps, each a gate or a write,
with `Edit` and `Interrupt` between any two; an edit makes any `Tree` of a tree, the record
of what the commands read and write of a directory. `check` runs every gate and reports what
failed; `verify` stops at the first. Of an external program only the verdict is known: the
tree says at which gates it would be found at fault (`broken`). The gates that draw fresh
entropy (`Discovery`) may miss what there is to find. `init` is its steps, from laying
out the scaffold to the lock, whose error it swallows.

`MCRaft`, `MCRaftSim`, `MCLedgers` and `MCDhx` give the models their symmetry, views, bounds
and instances. The theorems are in `RaftProofs`, `RaftSimProofs`,
`StoreProofs`, `StoreSafetyProofs`, `SeatsProofs`, `SeatStoreProofs`, `LedgerProofs` and
`DhxProofs`.

## Runs

| Run | Question | Bounds |
|---|---|---|
| `raft` | Do three nodes ever elect two leaders of a term, break a vote, or change role without cause; do logs that share an entry share their past; does a leader rewrite; is an entry applied twice or out of order? Is the invariant of the proof kept? | terms to 3, 3 elections in all, logs to 2 entries of 2 commands, 14 distinct envelopes |
| `raft_sim_steady` | Is the simulator one schedule of `Raft`? Is a leader the whole cluster follows ever challenged? | timers of 6, 6 and 2 ticks, close to the proportion of the code's 10, 10 and 3; terms to 3, logs to 1, no cut |
| `raft_sim_repair` | Does a healed cluster catch up with its leader? | terms to 3, logs to 2, node 0 may be cut off and the cut healed at any time |
| `raft_sim_split_commit` | Do two nodes commit different commands at one index? **They do.** | terms to 4, logs to 2, node 0 or 1 cut off |
| `raft_store` | In the no-harness Raft, is every vote counted given, what is applied the log's prefix and one history, and does a leader's write reach every node once the cluster is whole? | terms to 3, logs to 2, one command, base 2, jitter 2, heartbeat 1, node 0 may be cut off and the cut healed between ticks |
| `seats_monotonic` | While the clock only passes: capacity, one booking per hold, the lifecycle, seats that return | capacity 3, 4 calls of hold for 0 to 3 seats, TTL 2, clock to 5 |
| `seats_clock_set_back` | And when the clock is set back? **The event is oversold.** | the same, with jumps of 1 and 2 |
| `seat_store` | Do concurrent handlers with readings out of order keep the promise? | 2 handlers, capacity 2, 3 holds, TTL 1, clock to 2 |
| `ledgers` | Do both ledgers keep the books of `Payments`, is what was told of a closed account its last balance, is a receipt repeated as it was, do the two agree? | 2 accounts opened with 2 and 1, an id of none, amounts 0 to 2, 2 keys, 2 lifecycle requests at a time |
| `dhx` | When a tier is green, is what the model and the code have in common what the gates promise, is every invariant tried, every requirement realized, every outcome a `shall`? Do the writers settle their gates, and is a verdict exact? | an empty directory or a working project, any commands, 2 edits, 3 states and 2 events, 10 sources, 6 tables, 1 hand-written invariant, 2 requirements with a feature file each |
| `dhx_table` | Has the generated model the very steps of the source? **It has not.** | the same, 1 edit |
| `dhx_vacuous` | Does a green verification show that each invariant can be violated? **It does not.** | the same, 1 edit |

Why the bounds are enough to be of interest. Three nodes are the smallest cluster
with a majority that is not everybody; three elections allow two candidates of one
term and a later one, and 14 envelopes are more than a complete election and its
first heartbeats take (2 requests, 2 replies, 2 appends, 2 acknowledgements) while
another is under way. Two entries of two terms are what a conflict needs. With
four holds of up to three seats on three, a hold can be refused, expire, be
replaced and confirmed late. In `raft_store` three terms let a node cut off campaign
alone twice, or lead, be overtaken and come back with a log to overwrite. Two edits
in `dhx` are what its hazards need: one that changes a thing and one that
hides or undoes it, before, between or during commands; the edits are chosen one for each
case the gates tell apart. Two transfers of up to two
coins between accounts of two and one reach an empty account, a refused overdraft
and, since `U64_MAX` is what the accounts hold together, a balance at the limit of its
type. `MaxTerm` and `MaxLog` are guards in the modules,
`MaxElections` and `MaxSent` a CONSTRAINT of `MCRaft`. `MaxBus = 0` starts no
call of `tick` or `propose` while messages are under way: the tests mostly drive the simulator so
(`run_until_quiet` drains the bus after each tick), but some propose twice in a row
(`dst.rs:57`, `139`, `190`), which these runs leave out. The theorems about the simulator bound
neither the bus nor the cuts, and `SimRefinesRaft` says of every one of them what
`raft_sim_steady` checks with no cut. No client owes the services a
call and terms are bounded, so those models may stop and deadlock is not checked; a
ledger always answers a query, and a command of `dhx` always goes on, so those are checked.

`VIEW WithoutHistory` drops only the `sent` of `RaftSim`, where it is a history no action reads. It is used by runs
whose properties do not read it either. `VIEW WithoutStaleVerdicts`
of `MCDhx` takes for one what no property of `dhx` tells apart and no later step reads: how a
command ended that was killed or whose tree was edited under it, and how far such a tier has
come, which writes nothing and may be killed at every step. The runs of repair and of the split start in `Led`, the state
a cluster reaches by itself: all deadlines start at 0, so in the first tick every
node campaigns and the votes of term 1 split, and the next deadline to pass makes
a leader of term 2. Starting there spares the bounded terms for what follows.
Symmetry is over commands, and over servers only where no action tells them
apart (in `Raft`, not in `RaftSim`, where nodes fire by id) and only under safety
properties.

### Fairness

`EntriesReplicate` assumes `WF_vars(RunUntilQuiet)`: its caller keeps calling
`run_until_quiet`, whose loop ticks and delivers. Proposals and cuts are never
owed; the property asks nothing while a cut lasts. `SeatsReturn` assumes
`WF_vars(Tick)`: time passes. No client need call anything, which is the point:
the seats of an abandoned hold come back with no one's help.

`WritesReachEveryNode` assumes `WF_vars(Run)`: `run_ticks` goes on calling `tick`, whose
loops fire every node and drain the bus. No write, cut or healing is owed; the property
asks nothing while a cut lasts.

### Findings

1. *Split commit* (`replicate.rs:103`). A follower acknowledges its own last index,
   even when the message covered less. A stale suffix of an earlier leader is so
   acknowledged to the next one, which takes it for a copy of an entry it has yet
   to write, commits it on its own, and may be deposed by a leader that commits
   another command at that index. The same step lets a leader cut off alone commit
   at once. The no-harness Raft reports what the message covered instead.
2. *The wall clock may be set back* (`adapters.rs:23`): an expired hold stays in the
   list and is live again, next to the one that took its seats. The test that checks the
   capacity calls this physically impossible and moves its clock only forward. The
   no-harness service is safe from it twice over: `Instant` never goes back, and every call
   sweeps.
3. *The model is not the code's table* (`fsm.rs:221`). Extraction keeps the arms of two names
   and a body that is `Some(path)` to the letter. It passes over the others in silence, an
   or-pattern like `(Held | Confirmed, Expire)` or a body in a block; takes a binding for a state
   named `s`; and reads no guard. `README.md:377` says that the model checks the same transition
   table the code runs. `ModelIsTheCode` says what is left of it: no step of the model between
   two states is made up, and the steps it lacks are those of arms it could not read.
4. *A mutation need not be caught* (`tlc.rs:182`). TLC failing with the invariant's name anywhere in
   what it prints is enough. An edit that loses the definition passes, as TLC then complains
   of it by name, and so does one that violates an invariant with a longer name.
   `README.md:389` says that an invariant with a mutation can't be vacuous.
   `InvariantsAreTried` says what is left.

Remarks that no run makes.

* `COMPARISON.md` of the ledgers shows the unchecked sum of `main.rs:197` to wrap when two
  accounts are opened near `u64::MAX`. The service opens two, with 10,000 cents together,
  and no request opens one, so `StoreKeepsBooks` holds for what the program does. And REQ-004
  has a retry "return the original outcome": the no-harness service does (`ReceiptsRepeat`), the
  harness's answers `Duplicate`, which is what REQ-004's own scenario asks for.
* In the harness's Raft a cluster of one never leads: `node.rs:169` looks for the majority
  only when a reply arrives, while `replicate.rs:59` speaks of single-node clusters that commit
  immediately. No document promises a cluster of one.
* `COMPARISON.md` of the Rafts (lines 37-47) has the no-harness leader "never commit its own
  writes" after a change of leader, for want of Raft's rule on earlier terms. The code has
  the rule (`node.rs:384`), and `WritesReachEveryNode` holds. What refuses a write is
  `leader()`, which answers `None` while a deposed leader, cut off, still believes it leads.
* `README.md:159-164` promises that presence implies mandatory and that every invariant has
  its mutation. The code keeps less: a state machine is noticed only at the conventional
  path; without the directory of requirements, features or decisions their gates are skipped;
  invariants that share an INVARIANT line need no mutation (`tlc.rs:243`); an exemption is never
  looked at again (`tlc.rs:311`). The premises of the properties of `dhx` name these cases.
* Two requirement files may have one id (`traceability.rs:112`): the later one is locked and
  traced, the earlier one neither, though its criteria need scenarios. A link that is a path
  alone counts as realized when the path is there (`traceability.rs:176`).
* `config_validate.rs:21-26` advises `dhx migrate` on a configuration of another schema, but
  `migrate` loads the configuration first (`main.rs:190`) and is refused with the same advice.

## Proofs

All theorems are for every cluster size, log length, number of elections and
messages, every set of cuts, every capacity, TTL and request, any finite set of accounts,
and any tree and edits, from the named assumptions of the modules only. These say what the
code gives: servers are finitely many, numbered from 0 in the no-harness cluster, and `Nil`
is none of them (`ServerAssumption`, `StoreNodeAssumption`); ticks and bounds are numbers, and
a heartbeat is due before an election (`BoundAssumption`, `SimAssumption`,
`StoreClusterAssumption`, `SeatsAssumption`, `StoreAssumption`); accounts are finitely many
and opened with no more than a `u64` holds together
(`LedgerAssumption`, `SupplyAssumption`); what stands for nothing is not something
(`NoneAssumption`, `ReceiptAssumption`, `RequirementsAssumption`); names that are no variants
are none (`LifecycleAssumption`); the trees `dhx` starts on are typed (`DhxAssumption`).
One assumption speaks of files of this repository: `ScaffoldAssumption` says what
`assets/scaffold` holds, as far as `init` depends on it. TLC evaluates it on the instance; only
`WritersHaveSettled` and the typing of trees use it.

### Raft with the harness (`RaftProofs`)

* `TypeCorrect`: `Spec => []TypeOK`. A lemma for each handler says that a
  typed node and message give a typed result (`Typed`); `HandleDispatches` reduces
  `Handle` to one handler at the term the universal rule leaves.
* `ElectionInvariant`: `Spec => [](TypeOK /\ ElectionInv)`.
  Election Safety is not inductive: it says nothing of the votes under way. The
  strengthening reads votes off `sent`. `VotesBind`: whoever sent a granted reply, a
  request or an append of a term backs one candidate in it, and while still in that term
  has it in `voted_for`. `Counts`: the votes a candidate counts were granted it in its
  term. `MandateOfMajority`: every leader that ever sent anything has a majority of
  backers. Each handler is proved `Sound` (a contract on one node and what it
  sends), every step of `Next` is a sound step of one node (`NextSound`), and a sound
  step keeps the invariant (`SoundStep`).
* `ElectionSafe`: two leaders of a term have two majorities, which share a node
  (`MajoritiesMeet`), which would have backed two candidates.
* `VotesOnce`, `TermAndVote`: one vote a term, and no handler takes back a term or a vote.
* `LeaderAppends`, `AppliesOnce`, `RolesHaveCause`, `RolesFollowFsm`: what each handler can do
  to the role, the term and the log of its node, and that it applies the commands of its log at
  the indexes from `last_applied` on, is said once (`Moved`), and the action
  properties are drawn from it. They need that a leader's appends are on the network
  before any other node hears of its term (`LedInv`), since `become_leader` broadcasts.
* `LogInvariant`: `Spec => [](TypeOK /\ ElectionInv /\ LogInv)`, and from it `LogsMatch`. Log
  Matching speaks of logs alone and a slice under way could contradict one, so the
  invariant treats logs and the slices in `sent` alike, as pieces of a log: any two agree
  (`AllAgree`), and an entry of a term belongs to whoever leads it (`Owned`), by Election
  Safety the only one. What is committed is no part of it: that agreement fails
  here (finding 1).

### The simulator (`RaftSimProofs`)

* `SimRefinesRaft`: `Spec => RefinesRaft`. The bus delivers only what was sent (`BusInv`:
  whatever is on it is in `sent`), so each step of a node is one of `Raft`'s, and what moves
  only the clock, the turn, the cut or the bus stutters.
* `SimulationIsSafe`: so what `RaftProofs` proves of every network holds of every simulation:
  Election Safety, one vote a term, Log Matching and the action properties.
* `AcceptedLeaderKeepsLead`: `Steady => (Spec => AcceptedLeaderStays)`. `Steady` says what "a
  healthy leader" needs: no cut, the bus drained before the next tick, and a heartbeat
  interval and one call of `tick` that together fit in `ELECTION_TIMEOUT_BASE`. The code's 10
  and 3 ticks leave room for calls that advance the clock by up to 7, the run's 6 and 2 for up to 4, and it
  takes calls of 1. `SimInv`
  gives each follower a lease (`Lease`): between two ticks its deadline lies behind the
  leader's next heartbeat by what separates the two intervals, or was drawn when it last heard from the
  leader; within a tick it has not passed, and a heartbeat that is due is on the bus before
  the tick is over. Other nodes' messages do not break it, since by Election Safety no one else
  leads the term, and a step that would raise a follower's term takes a deadline that
  has passed.

### Raft without it (`StoreProofs`, `StoreSafetyProofs`)

* `StoreProofs!TypeCorrect`: `Spec => []TypeOK`, from what each handler returns.
* `HistoryExplains`: `Spec => [](TypeOK /\ StoreInv)`. The state forgets what the argument
  needs: votes are only counted, and a vote, a log or an acknowledgement of an earlier term is
  gone. No variable is added for them: `StoreInv` says that there *is* a history (who voted for
  whom in every term and with which log a candidate stood, whose votes it counted, who led
  and with which log, how much of that log each node took over) that accounts for the nodes
  and the bus, and each handler is shown to extend some history. `VoteOk`: a voter's vote
  promises that the candidate's log carries what the voter took over and may still be
  chosen. `LeaderOk`: a term has one leader, elected by a majority, whose log has all that may
  still be chosen in earlier terms (`Choosable`: a majority took it over, or may yet).
  `NodeOk`: a log is made of its terms' leaders' logs, and what was applied is chosen.
  `EnvelopeOk` and `Once` tie the bus: a request finds its receiver without that vote, a vote
  under way is not counted and not there twice, an append is part of its leader's log,
  an acknowledgement tells no more than was taken over. `LeadKeeps` (the voters of a new leader
  meet every majority that may choose something) and `AdoptKeeps` (a truncation drops
  nothing that may be chosen) are where Raft's argument lies.
* From it, `VotesAreGiven` (by an injection of the votes under way into the voters not
  yet counted), `AppliedIsPrefix`, `MatchesAreHeld`, `LeadersAreComplete` and
  `StateMachinesAgree`. None uses that the bus is first in, first out, or that cuts fall between ticks, only that
  no envelope is repeated.

### Seats (`SeatsProofs`)

* `NeverOverbooked`: `Spec => []CapacityKept`, by `SeatsInv`, which adds that
  ids are not reused and that the sum is over a finite set. It needs `Spec`, whose
  clock only passes: under `AnyClockSpec` it is false (finding 2).
* `BookedOnceAnyClock`: what a hold came to is decided once whatever the clock does, by
  `BookInv`, which ties the confirmed seats to the holds that were confirmed (`Granted`). So what
  finding 2 breaks is the capacity, and no more.
* `ImplementsBooking`: `Spec => KeepsPromise`, each operation mapped to its move in `Booking`
  or to a stutter.

### Seats without the harness (`SeatStoreProofs`)

* `StoreFits` and `StoreImplementsBooking`: `Spec => KeepsPromise`, for any number of handlers.
  `StoreInv` counts the seats of the confirmed ids and of the stored holds as one set, so that
  what `confirm` moves from the one to the other is counted once. Nothing in it speaks of the
  clock: a reading that is late or early only decides which holds the sweep drops, a hold that is
  dropped is gone for every later call, and so the promise holds for readings in any order.

### Ledgers (`LedgerProofs`)

* `MoneyConserved`: `Spec => []Conserved`. The money is a set of coins, one
  `<<id, k>>` for each cent, finite since it lies in `Account \X 1..U64_MAX`. A transfer
  changes two piles; `PilesApart` takes both out of the whole (`PaidConserves`).
* `ClosedAccountsFinal`: `ClosedIsFinal` is not inductive, as it says nothing of a handler
  between its two lockings. `LateRepliesHold` adds that one about to say closed holds an
  account that is (`NextLate`), and `ClosedStays` that it then stays so, untouched.
* `ImplementsPayments`: `Spec => KeepsBooks`. `KeysMoved` ties the keys the code keeps to
  the transfers that were carried out; `TransferMoves` and `LifecycleChanges` map the two
  requests that write, and the rest stutters (`NextBooks`).
* `StoreImplementsPayments`, `StoreRepeats`, `ServicesAgree`: of the no-harness ledger under the
  same requests (`PairSpec`). Its sum is unchecked, so its refinement needs its own
  conservation (`StoreConserved`), which with `SupplyAssumption` leaves nothing to wrap.

### dhx (`DhxProofs`)

* `VerdictsAreExact`: `Spec => []VerdictIsExact`. What a gate decides is not
  opened (`Holds` is any Boolean), so the theorem is about the runs of gates alone.
  The property speaks of ended commands; `VerdictInv` adds what holds on the way
  (`Judged`): for a tree not edited since the start, the gates behind `at` that are not named as
  failed hold, those named do not, and only a tier names any. `GatesAreCounted` ties `at` to
  the tier's list; the writers fail no gate and end without a tier's verdict
  (`WriterKeepsVerdict`).
* `DhxTyped`, and `EachInvariantIsTried`: with both gates of a green verdict opened,
  the one that asks for a mutation and the one that runs it, every invariant that needs one
  has one after which TLC fails and prints its name. That it is violated does not follow
  (finding 4).
* `TheModelIsTheCode`, `RequirementsRealized`, `OutcomesSayShall`: of a green tier all gates that
  matter held on one tree (`EveryTierRuns`, `GreenTier`), and what they ask of it entails the
  property, whatever the length of its files. Where the gates pass over a sequence, the
  argument takes the least place at which something goes wrong, or the last title before a
  line (`LeastPlace`, `GreatestPlace`), since induction over data is not to be had.
  `RenderedIsCode`: an arm whose names are of variants may be taken at its state and event, or
  clippy would have refused it as unreachable (`ArmTyped`), so what is rendered of it is a step
  the code may make (`KeptIsMade`); and a step of the code that is not rendered comes from an arm
  that was not read for what it is (`ReadIsKept`). `FourGatesRealize`:
  the scenario that coverage found belongs to one file, since style keeps steps behind a
  title (`StepsStayInFile`, `ScenarioSpeaks`); traceability and its lock give the rest.
  `OutcomeSaysShall`: an `And` inherits its keyword from the line before, back to a `Then`.
* `WritersHaveSettled`: `Spec => []WritersSettle`, by `DhxInv`, which adds `WriterInv` to
  types and verdicts: what a writer has done by its k-th step (`Reached`) to a tree no one edits.
  `RegenInv` and `WritesInv` say it of the files, and `FreshInv` follows `init` on an empty
  directory through three trees: laid out, counted, locked (`FreshTrees`). With the last
  one every cheap gate passes, since counts and lock are the only ones the scaffold lacks.

### Only model-checked

* Liveness (`EntriesReplicate`, `WritesReachEveryNode`, `SeatsReturn`): out of the prover's
  reach. Every other property of a passing run is proved.
* That the code's own counterexamples exist (findings 1 to 4): the four runs show them.

## Not modelled

* The KV map and the RESP parsers: pure, sequential, and well reached by tests.
* HTTP routing and status codes; logging; the wiring of the binaries.
* Crashes. Nothing is persisted and no node restarts in this code.
* `u64` terms and indexes at their maximum: unreachable by counting, and saturating.
* Of `dhx`: the subcommands that are one gate of a tier, `fmt` as a formatter, `config explain`
  and `pins update`; the command lines and output of external programs, the probes of
  `toolchain`, and git's hooks. None keeps a state the others read. `dhx migrate` confirms the
  schema and changes nothing.
* Text. Markdown and YAML fields, salient tokens and substrings of criteria are read as the
  values the gates compare; the reasons of exemptions are left out, and so are entries of
  `mutations.toml` whose `expect` is no invariant's name: they serve no invariant.
* Of the source of a state machine, that `next` is one match on the pair, as the generator
  expects: a statement before the match is a guarded arm. A name stands for one thing:
  two enums with a variant of one name, or a constant named like a variant, are left out.
* Transports of the no-harness Raft that delay messages into later ticks, or cut within a
  draining: beyond 9 million states at the smallest useful bounds. `Raft` checks such delays
  on the harness's node, whose handlers are close to these.
* The scaffold's files, the container image and the documents, which do nothing.

## Plan

1. Raft core and its network; type correctness and Election Safety proved. *Done.*
2. The simulator, its refinement of `Raft`, stability and repair. *Done.*
3. Both seat services against `Booking`; capacity proved. *Done.*
4. `StoreNode` and `StoreCluster`, the no-harness Raft on its own bus, with State Machine
   Safety and the writes of a new leader. *Done.*
5. Both ledgers against `Payments`; conservation and the refinement proved for the
   harness's. *Done.*
6. `Dhx` over `Lifecycle`, `Mutations` and `Requirements`: the tiers, the writers and a
   tree edited meanwhile; verdicts proved exact. *Done.*
7. The log terms and Log Matching of `Raft`, its roles; the safety of `StoreCluster`; `Seats`
   and `LedgerStore` against their abstract services. *Done.*
8. `KeepsPromise` of `SeatStore`; `RefinesRaft`, step by step, and the healthy leader of the
   simulator; what the gates of `dhx` promise together and what its writers settle. *Done.*
