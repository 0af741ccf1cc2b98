---------------------------------- MODULE Dhx ----------------------------------
(***************************************************************************)
(* dhx, the command a project is held to its specification with: the tiers *)
(* `check`, `verify --quick` and `verify --full` (main.rs), which run one  *)
(* gate after the other on a tree a developer goes on editing, and the     *)
(* commands that write: `regen`, the two `--write`s, `init`.               *)
(*                                                                         *)
(* A command is a program, a sequence of steps; a step is a gate or a      *)
(* write.  The gates that read specifications and requirements are defined *)
(* in Mutations and Requirements; of an external tool only its verdict is  *)
(* known: t.broken are the gates whose tool finds fault with the tree.     *)
(***************************************************************************)
EXTENDS Mutations, Requirements

CONSTANTS Blank,        \* an empty directory
          Scaffold,     \* what init materializes into one
          Working,      \* a project under way
          Edited(_),    \* the trees one edit makes of a tree
          MaxEdits

\* harness.toml.  `named`: it names the project, a core crate, and no crate the
\* workspace does not have.
Config == [schema : 0..2, named : BOOLEAN, fsm : BOOLEAN,
           targets : SUBSET {"tsan", "loom", "dst", "fuzz"}]

\* What the commands read and write of a directory.
Tree == [reqs : Seq(ReqFrontmatter) \cup {Nothing},
         features : Seq(Seq(Line)) \cup {Nothing},
         adr : (SUBSET ReqId) \cup {Nothing},
         files : SUBSET File,
         defined : SUBSET Definition,
         annotated : BOOLEAN,
         lock : Lock \cup {Nothing},
         readme : Readme \cup {Nothing},
         config : Config \cup {Nothing},
         source : Source \cup {None},
         conventional : BOOLEAN,
         tla : Tla \cup {None},
         cfg : Cfg \cup {None},
         manual : ManualCfg,
         table : Table,
         broken : SUBSET STRING,
         uses_loom : BOOLEAN]

ASSUME DhxAssumption == /\ MaxEdits \in Nat
                        /\ {Blank, Scaffold, Working} \subseteq Tree
                        /\ Nothing \notin Fsm

VARIABLES tree,
          cmd,      \* the command, or the last one
          at,       \* its next step; 0: it has ended, or there was none
          loaded,   \* the configuration it loaded
          fsm,      \* the state machine regen has parsed
          failed,   \* the gates that failed
          verdict,  \* "Ok" or "Err" once it has ended, else "None"
          touched,  \* the tree was edited since it started
          edits

vars == <<tree, cmd, at, loaded, fsm, failed, verdict, touched, edits>>

-----------------------------------------------------------------------------
(* Configuration.                                                          *)

\* A state machine at the conventional path has to be configured.
FsmShapeIsValid(t) == ~t.config.fsm => ~(t.source # None /\ t.conventional)

Loads(t) == /\ t.config # Nothing
            /\ t.config.schema = 1
            /\ t.config.named
            /\ FsmShapeIsValid(t)

-----------------------------------------------------------------------------
(* Gates.                                                                  *)

\* Mutant: the .cfg, the second file regen writes, is not compared.
ComparesTheTla(config, t) ==
  config.fsm => /\ t.source # None /\ Parses(t.source)
                /\ t.tla = RenderTla(ParseFsm(t.source))

RegenCheck(config, t) ==
  config.fsm => /\ t.source # None /\ Parses(t.source)
                /\ t.tla = RenderTla(ParseFsm(t.source))
                /\ t.cfg = RenderCfg(ParseFsm(t.source))

CheckSpecSync(config, t) == config.fsm => t.source # None /\ Parses(t.source)

Clippy(t) == "clippy" \notin t.broken /\ (t.source # None => CompilesCleanly(t.source))

\* Every .tla of the directory is checked; "tlc" in t.broken: the hand-written one
\* fails, or the pinned jar is not there.
Tlc(t) == t.tla # None \/ t.manual.alone \cup t.manual.grouped # {} =>
            /\ t.tla # None => t.cfg # None /\ TlcAccepts(t.tla, t.cfg)
            /\ "tlc" \notin t.broken

\* Only where the crate has models for it.
Loom(config, t) == "loom" \in config.targets /\ t.uses_loom => "loom" \notin t.broken

Tsan(config, t) == "tsan" \in config.targets => "tsan" \notin t.broken

Seeds == {"dst 0", "dst 1", "dst 42", "dst 1337"}

Dst(config, t, seed) == "dst" \in config.targets => seed \notin t.broken

\* Advisory: their tools' verdicts are not asked for.
Advisory == {"outdated", "geiger"}

Holds(g, config, t) ==
  CASE g = "regen"             -> RegenCheck(config, t)
    [] g = "spec-sync"         -> CheckSpecSync(config, t)
    [] g = "clippy"            -> Clippy(t)
    [] g = "traceability"      -> CheckTraceability(t)
    [] g = "bdd-style"         -> CheckBddStyle(t)
    [] g = "bdd-coverage"      -> CheckBddCoverage(t)
    [] g = "verified-markers"  -> CheckVerifiedMarkers(t)
    [] g = "mutation-coverage" -> CheckMutationCoverage(t.table, t.cfg, t.manual)
    [] g = "docs-counts"       -> CheckDocsCounts(t)
    [] g = "tlc"               -> Tlc(t)
    [] g = "tlc --mutate"      -> TlcMutate(t.table, t.tla)
    [] g = "tsan"              -> Tsan(config, t)
    [] g = "loom"              -> Loom(config, t)
    [] g \in Seeds             -> Dst(config, t, g)
    [] g \in Advisory          -> TRUE
    [] OTHER                   -> g \notin t.broken

Discovery == {"dst random", "fuzz"}

\* Where the project has something to explore.
Explores(g, config) == (IF g = "fuzz" THEN g ELSE "dst") \in config.targets

\* Fresh entropy: what there is to find may be found or not.
Outcomes(g, config, t) ==
  CASE g \notin Discovery                     -> {Holds(g, config, t)}
    [] g \in Discovery /\ Explores(g, config) -> {TRUE, g \notin t.broken}
    [] OTHER                                  -> {TRUE}

-----------------------------------------------------------------------------
(* Programs.                                                               *)

\* Mutant: clippy is left to the other tiers.
CheapGatesButClippy ==
  <<"fmt", "regen", "traceability", "spec-sync", "bdd-style", "bdd-coverage",
    "verified-markers", "mutation-coverage", "file-size", "docs-counts">>

CheapGates ==
  <<"fmt", "regen", "clippy", "traceability", "spec-sync", "bdd-style", "bdd-coverage",
    "verified-markers", "mutation-coverage", "file-size", "docs-counts">>

MetaGates ==
  <<"regen", "traceability", "spec-sync", "bdd-style", "bdd-coverage",
    "verified-markers", "mutation-coverage", "file-size", "docs-counts">>

StaticGates == <<"fmt", "clippy", "machete", "gitleaks", "deny">>

QuickGates ==
  MetaGates \o StaticGates
    \o <<"tlc", "tlc --mutate", "test", "cov", "kani-codegen", "kani", "dst 0">>

FullGates ==
  QuickGates
    \o <<"outdated", "geiger", "mutants", "tsan", "loom">>
    \o <<"dst 1", "dst 42", "dst 1337", "dst random", "fuzz">>

Tiers == {"check", "verify --quick", "verify --full"}

Inits == {"init", "init --force"}

Writers == Inits \cup {"regen", "counts --write", "traceability --write"}

Commands == Tiers \cup Writers \cup {"migrate"}

Gates == [c \in Tiers |-> CASE c = "check"          -> CheapGates
                            [] c = "verify --quick" -> QuickGates
                            [] c = "verify --full"  -> FullGates]

Regen == <<"parse", "write tla", "write cfg">>

Program(c) ==
  CASE c \in Tiers                -> Gates[c]
    [] c = "regen"                -> Regen
    [] c = "counts --write"       -> <<"write counts">>
    [] c = "traceability --write" -> <<"write lock">>
    [] c \in Inits                -> <<"materialize", "load">> \o Regen
                                       \o <<"write counts", "write lock">>
    [] c = "migrate"              -> <<>>

Ended == at = 0

NextIs(step) ==
  cmd \in Writers /\ at \in DOMAIN Program(cmd) /\ Program(cmd)[at] = step

Advance == at' = at + 1 /\ UNCHANGED <<cmd, verdict, touched, edits>>

\* Mutant: the verdict is there and the command goes on.
GoesOn(v) == /\ at' = at + 1 /\ verdict' = v
             /\ UNCHANGED <<cmd, touched, edits>>

End(v) == /\ at' = 0 /\ verdict' = v
          /\ UNCHANGED <<cmd, touched, edits>>

Init == /\ tree \in {Blank, Working}
        /\ cmd = "migrate" /\ at = 0 /\ loaded = Nothing /\ fsm = Nothing
        /\ failed = {} /\ verdict = "None" /\ touched = FALSE /\ edits = 0

-----------------------------------------------------------------------------
(* Starting and ending.                                                    *)

\* The configuration is read once.  A tier outside the image, whose tools are
\* not pinned, is refused.
Start(c, in_container) ==
  /\ Ended
  /\ cmd' = c /\ touched' = FALSE /\ failed' = {} /\ fsm' = Nothing
  /\ IF c \in Inits \/ (Loads(tree) /\ (c \in Tiers => in_container))
     THEN at' = 1 /\ verdict' = "None"
     ELSE at' = 0 /\ verdict' = "Err"
  /\ loaded' = IF c \in Inits THEN Nothing ELSE tree.config
  /\ UNCHANGED <<tree, edits>>

\* Mutant: what failed on the way is forgotten.
FinishWell == /\ at > Len(Program(cmd))
              /\ End("Ok")
              /\ UNCHANGED <<tree, loaded, fsm, failed>>

Finish == /\ at > Len(Program(cmd))
          /\ End(IF failed = {} THEN "Ok" ELSE "Err")
          /\ UNCHANGED <<tree, loaded, fsm, failed>>

\* The command is killed between two of its steps.
Interrupt == /\ at > 0
             /\ End("None")
             /\ UNCHANGED <<tree, loaded, fsm, failed>>

-----------------------------------------------------------------------------
(* Gates: `check` runs them all, `verify` stops at the first that fails.   *)

RunGate ==
  /\ cmd \in Tiers /\ at \in DOMAIN Gates[cmd]
  /\ LET g == Gates[cmd][at]
     IN  \E passes \in Outcomes(g, loaded, tree) :
           /\ failed' = IF passes THEN failed ELSE failed \cup {g}
           /\ IF passes \/ cmd = "check" THEN Advance ELSE End("Err")
  /\ UNCHANGED <<tree, loaded, fsm>>

-----------------------------------------------------------------------------
(* Writers.                                                                *)

\* The source is read once, before the two files are written.
Parse == /\ NextIs("parse")
         /\ IF ~loaded.fsm
            THEN fsm' = Nothing /\ Advance
            ELSE IF tree.source # None /\ Parses(tree.source)
            THEN fsm' = ParseFsm(tree.source) /\ Advance
            ELSE fsm' = Nothing /\ End("Err")
         /\ UNCHANGED <<tree, loaded, failed>>

WriteTla == /\ NextIs("write tla")
            /\ tree' = IF fsm = Nothing THEN tree
                       ELSE [tree EXCEPT !.tla = RenderTla(fsm)]
            /\ Advance
            /\ UNCHANGED <<loaded, fsm, failed>>

\* Mutant: the second file is left as it was.
SkipCfg == /\ NextIs("write cfg")
           /\ Advance
           /\ UNCHANGED <<tree, loaded, fsm, failed>>

WriteCfg == /\ NextIs("write cfg")
            /\ tree' = IF fsm = Nothing THEN tree
                       ELSE [tree EXCEPT !.cfg = RenderCfg(fsm)]
            /\ Advance
            /\ UNCHANGED <<loaded, fsm, failed>>

WriteDocsCounts ==
  /\ NextIs("write counts")
  /\ IF tree.readme = Nothing THEN Advance /\ UNCHANGED tree
     ELSE IF ~tree.readme.marked THEN End("Err") /\ UNCHANGED tree
     ELSE Advance /\ tree' = [tree EXCEPT !.readme.counts = Counts(tree)]
  /\ UNCHANGED <<loaded, fsm, failed>>

\* init goes on when the requirements do not hold together.
WriteTraceability ==
  /\ NextIs("write lock")
  /\ IF NothingToTrace(tree) THEN Advance /\ UNCHANGED tree
     ELSE IF Traceable(tree) THEN Advance /\ tree' = [tree EXCEPT !.lock = Snapshot(tree)]
     ELSE /\ IF cmd \in Inits THEN Advance ELSE End("Err")
          /\ UNCHANGED tree
  /\ UNCHANGED <<loaded, fsm, failed>>

\* What init lays over the files there are: its first requirement, its feature,
\* harness.toml, README and decision record replace theirs.
Over(t) ==
  [t EXCEPT !.config = Scaffold.config,
            !.reqs = <<Scaffold.reqs[1]>> \o SubSeq(Files(@), 2, Len(Files(@))),
            !.features = <<Scaffold.features[1]>> \o SubSeq(Files(@), 2, Len(Files(@))),
            !.adr = Scaffold.adr,
            !.files = @ \cup Scaffold.files,
            !.defined = @ \cup Scaffold.defined,
            !.readme = Scaffold.readme]

\* The scaffold (assets/scaffold) has a requirement, a feature, a decision record, a
\* README and a harness.toml that configures no state machine.  Its requirements hold
\* together, and laid out alone it passes the cheap gates, but for the lock and the
\* counts, which init has yet to write.
ASSUME ScaffoldAssumption ==
  LET fresh == Over(Blank)
  IN  /\ Scaffold.reqs \notin {<<>>, Nothing} /\ Scaffold.features \notin {<<>>, Nothing}
      /\ Scaffold.readme # Nothing /\ Scaffold.readme.marked
      /\ Loads(fresh) /\ ~fresh.config.fsm
      /\ Traceable(fresh)
      /\ \A g \in Range(CheapGates) \ {"traceability", "docs-counts"} :
           Holds(g, fresh.config, fresh)

Materialize == /\ NextIs("materialize")
               /\ IF cmd = "init --force" \/ tree = Blank
                  THEN tree' = Over(tree) /\ Advance
                  ELSE End("Err") /\ UNCHANGED tree
               /\ UNCHANGED <<loaded, fsm, failed>>

LoadFrom == /\ NextIs("load")
            /\ loaded' = tree.config
            /\ IF Loads(tree) THEN Advance ELSE End("Err")
            /\ UNCHANGED <<tree, fsm, failed>>

-----------------------------------------------------------------------------

\* A developer edits the tree, whether a command runs or not.
Edit == /\ edits < MaxEdits
        /\ tree' \in Edited(tree) \ {tree} /\ tree' \in Tree
        /\ touched' = TRUE /\ edits' = edits + 1
        /\ UNCHANGED <<cmd, at, loaded, fsm, failed, verdict>>

Work == \/ RunGate \/ Parse \/ WriteTla \/ WriteCfg \/ WriteDocsCounts
        \/ WriteTraceability \/ Materialize \/ LoadFrom \/ Finish

Next == \/ \E c \in Commands, in_container \in BOOLEAN : Start(c, in_container)
        \/ Work
        \/ Interrupt
        \/ Edit

Spec == Init /\ [][Next]_vars

-----------------------------------------------------------------------------

FinishedOk(commands) == Ended /\ cmd \in commands /\ verdict = "Ok" /\ ~touched

\* Types; a verdict is there only when the command has ended.
TypeOK == /\ tree \in Tree
          /\ loaded \in Config \cup {Nothing} /\ fsm \in Fsm \cup {Nothing}
          /\ cmd \in Commands
          /\ at \in 0 .. Len(Program(cmd)) + 1
          /\ failed \subseteq UNION {Range(Gates[c]) : c \in Tiers}
          /\ verdict \in {"None", "Ok", "Err"}
          /\ touched \in BOOLEAN /\ edits \in 0..MaxEdits
          /\ verdict # "None" => Ended

\* A verdict is exact for the tree it was reached on, if that was not edited
\* meanwhile: green means that every gate of the tier that draws no fresh
\* entropy holds, the ones that ran first included; a gate named as failed does
\* not, and `check` names all of them.
VerdictIsExact ==
  /\ \A c \in Tiers : FinishedOk({c}) =>
       \A g \in Range(Gates[c]) \ Discovery : Holds(g, tree.config, tree)
  /\ ~touched => \A g \in failed \ Discovery : ~Holds(g, tree.config, tree)
  /\ Ended /\ cmd = "check" /\ verdict = "Err" /\ ~touched /\ failed # {} =>
       failed = {g \in Range(CheapGates) : ~Holds(g, tree.config, tree)}

\* The names of an arm are all of variants: extraction reads it for what it is.
ReadAsItIs(arm) == arm.from.name \in State /\ arm.on.name \in Event /\ arm.says \in State

\* A step of the .tla that the source may make, for some event if it names none.
MayMake(src, step) ==
  \E t \in CodeSteps(src) : /\ t.source = step.source /\ t.target = step.target
                            /\ step.event \in Event => t.event = step.event

\* What the model and the code have in common (fsm.rs:239) once a tier is green:
\* a step of the generated .tla from a state to a state is one the source may
\* make; a step of the source that is not in the .tla is one of an arm whose
\* pattern or body is not read for what it is, never of an arm extraction reads and
\* never of one an earlier arm hides; and the .cfg speaks of the states and the
\* events of the source.  A write of the two files cut short is seen, and so is a
\* state machine at the conventional path that is not configured.
ModelIsTheCode ==
  /\ FinishedOk(Tiers)
  /\ tree.source # None /\ (tree.config.fsm \/ tree.conventional)
  =>
    /\ \A step \in Steps(tree.tla) :
         {step.source, step.target} \subseteq State => MayMake(tree.source, step)
    /\ \A step \in CodeSteps(tree.source) \ Steps(tree.tla) :
         \E k \in MayTake(tree.source, step.source, step.event) :
           /\ step.target \in tree.source.arms[k].yields[<<step.source, step.event>>]
           /\ ~ReadAsItIs(tree.source.arms[k])
    /\ Range(tree.cfg.states) = Range(tree.source.states)
    /\ Range(tree.cfg.events) = Range(tree.source.events)

\* "The model checks the same transition table the code runs" (README.md:377): the
\* steps of the generated .tla are those of the source, no more and no fewer.
SameTransitionTable ==
  FinishedOk(Tiers) /\ tree.source # None /\ tree.config.fsm =>
    Steps(tree.tla) = CodeSteps(tree.source)

\* The declared invariants that the table does not exempt, each with the entries
\* there are for it whose text is found.
Entries(declared) ==
  {m \in tree.table.mutations : /\ <<m.spec, m.expect>> = declared
                                /\ Found(m.edit, tree.tla) = 1}

NotExempt == DeclaredCfgInvariants(tree.cfg, tree.manual) \ tree.table.exempt

\* Each invariant has been tried (tlc.rs:206, 268): the gate that asks for an entry
\* is not the one that runs it, and a green `verify` needs both: an invariant
\* declared on a line of its own and not exempted has an edit of the spec as it
\* is on disk after which TLC fails and prints the invariant's name.
InvariantsAreTried ==
  FinishedOk({"verify --quick", "verify --full"}) =>
    \A declared \in NotExempt : \E m \in Entries(declared) :
      LET output == Says(m.edit, tree.tla)
      IN  output.fails /\ declared[2] \in output.names

\* "TLC is required to catch" the edit, "so the invariant can't be vacuous"
\* (README.md:389): what TLC reports after it is that the invariant is violated.
InvariantsAreLive ==
  FinishedOk({"verify --quick", "verify --full"}) =>
    \A declared \in NotExempt : \E m \in Entries(declared) :
      declared[2] \in Says(m.edit, tree.tla).violated

\* The scenario titled at line k of a file speaks for a requirement's criterion.
SpeaksFor(file, k, id, criterion) ==
  /\ file[k].kw = "Scenario" /\ file[k].req = id
  /\ LET until == Min({j \in k + 1 .. Len(file) : file[j].kw = "Scenario"}
                       \cup {Len(file) + 1})
         words == UNION {file[j].words :
                           j \in {k} \cup {j \in k .. until - 1 : file[j].kw \in Step}}
     IN  Asserts(words, criterion)

\* What four gates promise of a requirement together, none of them alone
\* (bdd_gates.rs:44 and 151, bdd_style.rs:43, traceability.rs:81): a green
\* tier, when requirements are there, means that each criterion of an active one
\* is asserted by a scenario of its own in one file, names no code, or claims a
\* technique, and that a claim of kani or tla has a link.  Of the files that share
\* an id the last one, the others not, is locked with all it accepts, and its
\* links of that claim lead to a path, and to the definition they name if they do.
RequirementsAreRealized ==
  FinishedOk(Tiers) /\ ~NothingToTrace(tree) =>
    \A req \in Active(tree) :
      LET stands == Reqs(tree)[req.id] = req
      IN  /\ stands => <<req.id, req.acceptance>> \in tree.lock
          /\ \A k \in DOMAIN req.acceptance :
               LET criterion == req.acceptance[k]
               IN  /\ \/ criterion.verified # {} \/ criterion.codes = {}
                      \/ \E file \in Range(Files(tree.features)) :
                           \E line \in DOMAIN file : SpeaksFor(file, line, req.id, criterion)
                   /\ \A technique \in criterion.verified \cap {"kani", "tla"} :
                        /\ technique \in Keys(req)
                        /\ \E link \in req.implements_in[technique] :
                             stands => LinkLeads(tree, link)

\* Every outcome a scenario states is one the system shall have (bdd_style.rs:147),
\* a Then or any And that continues it: the keyword an And continues is carried
\* from line to line.
OutcomesAreShalls ==
  FinishedOk(Tiers) =>
    \A file \in Range(Files(tree.features)) : \A k \in DOMAIN file :
      /\ \E j \in 1..k : /\ file[j].kw = "Then"
                        /\ \A between \in j + 1 .. k : file[between].kw = "And"
      => file[k].shall

\* A writer that ends well has settled its gate, and init on an empty directory
\* every cheap one: "the fresh project is green immediately" (init.rs:61).
WritersSettle ==
  LET holds(g) == Holds(g, tree.config, tree)
  IN  /\ FinishedOk({"regen"}) => holds("regen") /\ holds("spec-sync")
      /\ FinishedOk({"counts --write"}) => holds("docs-counts")
      /\ FinishedOk({"traceability --write"}) => holds("traceability")
      /\ FinishedOk({"init"}) => \A g \in Range(CheapGates) : holds(g)

=============================================================================
