------------------------------- MODULE Lifecycle -------------------------------
(***************************************************************************)
(* How dhx turns a state machine written in Rust into TLA+ (fsm.rs,        *)
(* fsm_render.rs).  The source is the two enums and a `next` function      *)
(* whose value is a match on the pair,                                     *)
(*                                                                         *)
(*     match (state, event) { (pattern, pattern) => body, ... }            *)
(*                                                                         *)
(* Rust takes a pattern for the variants it matches and a body for what it *)
(* evaluates to; extraction takes both for the names written there, skips  *)
(* an arm in silence where there is none, and reads no guard.  The two     *)
(* readings are kept side by side.                                         *)
(***************************************************************************)
EXTENDS Naturals, Sequences, FiniteSets, FiniteSetsExt, SequencesExt, Functions

CONSTANTS State, Event,  \* the variants the enums may declare
          Other,         \* names that are no variant: bindings, constants
          None           \* Option::None, and no name

ASSUME LifecycleAssumption ==
  /\ None \notin State \cup Event \cup Other
  /\ Other \cap (State \cup Event) = {}

StateName == State \cup Other

EventName == Event \cup Other

\* A variant's path, a tuple of its fields after it or not; or anything else: a
\* binding and a constant have a name of their own, a wildcard, an or-pattern and
\* a struct pattern have none.
Pattern(Variant) == {[name |-> v, matches |-> {v}] : v \in Variant}
                    \cup [name : Other \cup {None}, matches : (SUBSET Variant) \ {{}}]

\* `guarded`: with an `if`, or with fields that may not match.  `says`: of a body
\* that is Some(path) to the letter the last name of the path; a helper, a block, a
\* match or None says nothing.  `yields`: what the body may evaluate to there, if
\* it does.  A statement before the match that may return is a guarded arm before the
\* others, and an or-pattern of pairs is several arms, none of them with names.
Arm == {arm \in [from : Pattern(State), on : Pattern(Event), guarded : BOOLEAN,
                 says : StateName \cup {None},
                 yields : [State \X Event -> SUBSET (State \cup {None})]] :
          arm.says \in State => \A place \in State \X Event : arm.yields[place] = {arm.says}}

\* `parses`: the function is there, its braces balance, it has a match.  An enum
\* that is not found has no variants.
Source == [parses : BOOLEAN, states : Seq(State), events : Seq(Event),
           arms : Seq(Arm)]

Transition == [source : StateName, event : EventName, target : StateName]

Fsm == [states : Seq(State) \ {<<>>}, events : Seq(Event), transitions : Seq(Transition)]

-----------------------------------------------------------------------------
(* What the code does.                                                     *)

Matches(arm, s, e) == s \in arm.from.matches /\ e \in arm.on.matches

\* `match` takes the first arm that matches and whose guard lets it.
MayTake(src, s, e) ==
  {k \in DOMAIN src.arms :
     /\ Matches(src.arms[k], s, e)
     /\ \A j \in 1..k - 1 : Matches(src.arms[j], s, e) => src.arms[j].guarded}

CodeSteps(src) ==
  {t \in [source : Range(src.states), event : Range(src.events), target : State] :
     \E k \in MayTake(src, t.source, t.event) :
       t.target \in src.arms[k].yields[<<t.source, t.event>>]}

\* rustc refuses a variant that is not declared and a pair that no arm matches, and
\* clippy -D warnings an arm that earlier ones make unreachable.
CompilesCleanly(src) ==
  LET pairs == Range(src.states) \X Range(src.events)
  IN  /\ \A p \in pairs : MayTake(src, p[1], p[2]) # {}
      /\ \A k \in DOMAIN src.arms : \E p \in pairs : k \in MayTake(src, p[1], p[2])
      /\ \A p \in pairs : \A k \in MayTake(src, p[1], p[2]) :
           src.arms[k].yields[p] \subseteq Range(src.states) \cup {None}

-----------------------------------------------------------------------------
(* What dhx extracts.                                                      *)

\* An arm is skipped where a name is missing.
Keeps(arm) == None \notin {arm.from.name, arm.on.name, arm.says}

\* The entries of a sequence at some of its places, in their order: the k-th has
\* k - 1 of the places before it.
AtPlaces(seq, places) ==
  [k \in 1..Cardinality(places) |->
     seq[CHOOSE p \in places : Cardinality({q \in places : q < p}) = k - 1]]

ExtractTransitions(src) ==
  LET kept == AtPlaces(src.arms, {k \in DOMAIN src.arms : Keeps(src.arms[k])})
  IN  [k \in DOMAIN kept |-> [source |-> kept[k].from.name,
                              event |-> kept[k].on.name,
                              target |-> kept[k].says]]

ParseFsm(src) == [states |-> src.states, events |-> src.events,
                  transitions |-> ExtractTransitions(src)]

\* Anything short of two enums and one transition is an error.
Parses(src) == /\ src.parses
               /\ src.states # <<>> /\ src.events # <<>>
               /\ ExtractTransitions(src) # <<>>

-----------------------------------------------------------------------------
(* What it renders: the .tla has an action for each event that acts, the   *)
(* .cfg pins the constants a second time.  Every name is rendered as the   *)
(* name of a state or an event, a binding's too.                           *)

GeneratedInvariant == {"TypeInvariant", "ArchivedTerminal"}

\* In the order they first appear in.
ActingEvents(fsm) ==
  LET ts == fsm.transitions
  IN  AtPlaces([k \in DOMAIN ts |-> ts[k].event],
               {k \in DOMAIN ts : \A j \in 1..k - 1 : ts[j].event # ts[k].event})

\* The variants are listed in the order they are declared; an action lists the
\* arms of its event in theirs.
RenderTla(fsm) ==
  LET ts == fsm.transitions
      arms(event) == AtPlaces(ts, {k \in DOMAIN ts : ts[k].event = event})
      acting == ActingEvents(fsm)
  IN  [states |-> fsm.states,
       events |-> fsm.events,
       init |-> Head(fsm.states),
       actions |-> [k \in DOMAIN acting |-> [event |-> acting[k], arms |-> arms(acting[k])]],
       terminal |-> Range(fsm.states) \ {t.source : t \in Range(ts)}]

RenderCfg(fsm) == [states |-> fsm.states, events |-> fsm.events,
                   invariants |-> GeneratedInvariant]

\* What the two files may say.
Tla == [states : Seq(State), events : Seq(Event), init : State,
        actions : Seq([event : EventName, arms : Seq(Transition)]), terminal : SUBSET State]

Cfg == [states : Seq(State), events : Seq(Event), invariants : SUBSET GeneratedInvariant]

\* The lines of the .tla, one for each arm.
Lines(tla) == UNION {{k} \X DOMAIN tla.actions[k].arms : k \in DOMAIN tla.actions}

ArmAt(tla, line) == tla.actions[line[1]].arms[line[2]]

Steps(tla) == {ArmAt(tla, line) : line \in Lines(tla)}

\* The states TLC reaches from the first one.
Reachable(tla) ==
  {s \in StateName :
     \A closed \in SUBSET StateName :
       /\ tla.init \in closed
       /\ \A t \in Steps(tla) : t.source \in closed => t.target \in closed
       => s \in closed}

\* TLC on the generated pair: the ASSUMEs agree with the constants of the .cfg,
\* and no state reached is outside States.  No step leaves a
\* terminal state.
TlcAccepts(tla, cfg) == /\ Range(cfg.states) = Range(tla.states)
                        /\ Range(cfg.events) = Range(tla.events)
                        /\ Reachable(tla) \subseteq Range(tla.states)

=============================================================================
