------------------------------- MODULE Mutations -------------------------------
(***************************************************************************)
(* The gates that are to keep a TLA+ invariant from passing while it says  *)
(* nothing (tlc.rs).  Each invariant a .cfg declares needs an entry of     *)
(* mutations.toml, an edit of the .tla after which TLC must fail with the  *)
(* invariant's name in what it prints, or an exemption; one gate looks for *)
(* the entries, another runs them.                                         *)
(*                                                                         *)
(* There are two specs: the generated one, and one written by hand, of     *)
(* which it is known only what TLC prints after an edit.                   *)
(***************************************************************************)
EXTENDS Lifecycle

CONSTANTS ManualInvariant  \* the invariants of the spec written by hand

Invariant == GeneratedInvariant \cup ManualInvariant

\* A run of TLC: whether it fails, the invariants it reports as violated, and those
\* its output contains the name of, in such a report, in an error, or in a longer
\* name.
Output == {o \in [fails : BOOLEAN, violated : SUBSET Invariant, names : SUBSET Invariant] :
             /\ o.violated \subseteq o.names
             /\ o.violated # {} => o.fails}

\* An entry finds one line of the generated .tla, the step `from` to `to`, and makes
\* it leave States, or adds a step back; or it finds the definition of an invariant,
\* and loses it.  Of any other entry the number of places its text is found is
\* kept, and what TLC then prints.
Edits == [kind : {"leave", "return"}, from : StateName, to : StateName]
         \cup [kind : {"lose"}, invariant : GeneratedInvariant]
         \cup [kind : {"other"}, found : Nat, says : Output]

Mutation == [spec : {"generated", "manual"}, expect : Invariant, edit : Edits]

\* A missing mutations.toml is the empty table.
Table == [mutations : SUBSET Mutation,
          exempt : SUBSET ({"generated", "manual"} \X Invariant)]

\* The lines of the hand-written .cfg: an invariant on a line of its own, or
\* several on one line, which the pattern of the gate does not match.
ManualCfg == [alone : SUBSET ManualInvariant, grouped : SUBSET ManualInvariant]

Found(edit, tla) ==
  CASE edit.kind = "other"               -> edit.found
    [] edit.kind # "other" /\ tla = None -> 0
    [] edit.kind = "lose" /\ tla # None  -> 1
    [] edit.kind \in {"leave", "return"} /\ tla # None ->
         Cardinality({line \in Lines(tla) : /\ ArmAt(tla, line).source = edit.from
                                            /\ ArmAt(tla, line).target = edit.to})

Violated(invariants) == [fails |-> invariants # {}, violated |-> invariants, names |-> invariants]

\* What TLC prints of the edited spec.  It has nothing to report of the generated
\* one as it was (the gate before this one has seen to that, its .cfg included), and
\* complains of an invariant that is not defined by its name.
Says(edit, tla) ==
  CASE edit.kind = "other"  -> edit.says
    [] edit.kind = "leave"  ->
         Violated(IF edit.from \in Reachable(tla) THEN {"TypeInvariant"} ELSE {})
    [] edit.kind = "return" ->
         Violated(IF edit.to \in tla.terminal \cap Reachable(tla)
                  THEN {"ArchivedTerminal"} ELSE {})
    [] edit.kind = "lose"   -> [fails |-> TRUE, violated |-> {}, names |-> {edit.invariant}]

\* Mutant: TLC failing is enough, whatever it prints.
FailsSomehow(mutation, tla) ==
  Found(mutation.edit, tla) = 1 /\ Says(mutation.edit, tla).fails

\* The text is found once, and TLC fails with the name expected in its output.
RunsOneMutation(mutation, tla) ==
  LET output == Says(mutation.edit, tla)
  IN  Found(mutation.edit, tla) = 1 /\ output.fails /\ mutation.expect \in output.names

TlcMutate(table, tla) == \A m \in table.mutations : RunsOneMutation(m, tla)

\* The generated .cfg names its two invariants on lines of their own.
DeclaredCfgInvariants(cfg, manual) ==
  (IF cfg = None THEN {} ELSE {"generated"} \X cfg.invariants)
    \cup ({"manual"} \X manual.alone)

\* Nothing declared, nothing to check: stale exemptions pass too.
CheckMutationCoverage(table, cfg, manual) ==
  LET declared == DeclaredCfgInvariants(cfg, manual)
      mutated == {<<m.spec, m.expect>> : m \in table.mutations}
  IN  declared # {} => /\ declared \subseteq mutated \cup table.exempt
                       /\ table.exempt \subseteq declared

=============================================================================
