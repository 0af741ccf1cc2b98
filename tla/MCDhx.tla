--------------------------------- MODULE MCDhx ---------------------------------
(***************************************************************************)
(* A small project for TLC: a hold that is confirmed or expires, a spec    *)
(* written by hand, two requirements with a scenario each; what an edit    *)
(* may make of it is chosen for what the gates tell apart.                 *)
(***************************************************************************)
EXTENDS Dhx

CONSTANTS Held, Confirmed, Expired, Confirm, Expire, Inv,
          Bound  \* a name the source binds

-----------------------------------------------------------------------------
(* State machines.                                                         *)

Path(variant) == [name |-> variant, matches |-> {variant}]
Unnamed(variants) == [name |-> None, matches |-> variants]
Binding(variants) == [name |-> Bound, matches |-> variants]

Always(outcomes) == [place \in State \X Event |-> outcomes]

\* Some(target), to the letter; None; and what says nothing of what it yields.
Plainly(from, on, target) ==
  [from |-> from, on |-> on, guarded |-> FALSE, says |-> target, yields |-> Always({target})]
Nowhere(from, on) ==
  [from |-> from, on |-> on, guarded |-> FALSE, says |-> None, yields |-> Always({None})]
Block(from, on, target) == [Plainly(from, on, target) EXCEPT !.says = None]

Guarded(arm) == [arm EXCEPT !.guarded = TRUE]

On(state, event, target) == Plainly(Path(state), Path(event), target)
Otherwise == Nowhere(Unnamed(State), Unnamed(Event))

Machine(states, arms) == [parses |-> TRUE, states |-> states,
                          events |-> <<Confirm, Expire>>, arms |-> arms]

Two == <<Held, Confirmed>>

Three == <<Held, Confirmed, Expired>>

Plain == Machine(Two, <<On(Held, Confirm, Confirmed), Otherwise>>)

MCSources ==
  {Plain,
   \* a state and a step more
   Machine(Three, <<On(Held, Confirm, Confirmed), On(Held, Expire, Expired), Otherwise>>),
   \* an arm of two states, which extraction skips
   Machine(Three,
           <<On(Held, Confirm, Confirmed),
             Plainly(Unnamed({Held, Confirmed}), Path(Expire), Expired), Otherwise>>),
   \* a body that is a block, which it skips too
   Machine(Three, <<On(Held, Confirm, Confirmed), Block(Path(Held), Path(Expire), Expired),
                    Otherwise>>),
   \* a state that is bound, and taken for one
   Machine(Three, <<On(Held, Confirm, Confirmed), Plainly(Binding(State), Path(Expire), Expired),
                    Otherwise>>),
   \* a state that is bound, and returned
   Machine(Two, <<On(Held, Confirm, Confirmed),
                  [Plainly(Binding(State), Path(Expire), Bound)
                     EXCEPT !.yields = [place \in State \X Event |-> {place[1]}]],
                  Otherwise>>),
   \* a guard, which is not read
   Machine(Two, <<Guarded(On(Held, Confirm, Held)), On(Held, Confirm, Confirmed), Otherwise>>),
   \* an arm hidden by an earlier one
   Machine(Two, <<Nowhere(Unnamed(State), Path(Expire)), On(Held, Expire, Confirmed),
                  On(Held, Confirm, Confirmed), Otherwise>>),
   \* two events for one step, the same line twice
   Machine(Two, <<On(Held, Confirm, Confirmed), On(Held, Expire, Confirmed), Otherwise>>),
   \* nothing to extract
   Machine(Two, <<Plainly(Unnamed(State), Path(Confirm), Confirmed), Otherwise>>)}

-----------------------------------------------------------------------------
(* Mutations.                                                              *)

Entry(spec, expect, edit) == [spec |-> spec, expect |-> expect, edit |-> edit]

GeneratedEntries ==
  {Entry("generated", "TypeInvariant", [kind |-> "leave", from |-> Held, to |-> Confirmed]),
   Entry("generated", "ArchivedTerminal", [kind |-> "return", from |-> Held, to |-> Confirmed])}

\* TLC reports Inv; names it without; fails without its name.
Reports == Violated({Inv})
Mentions == [fails |-> TRUE, violated |-> {}, names |-> {Inv}]
Complains == [fails |-> TRUE, violated |-> {}, names |-> {}]

ManualEntry(found, says) ==
  Entry("manual", Inv, [kind |-> "other", found |-> found, says |-> says])

Losing == Entry("generated", "TypeInvariant", [kind |-> "lose", invariant |-> "TypeInvariant"])

TableOf(mutations, exempt) == [mutations |-> mutations, exempt |-> exempt]

MCTables ==
  {TableOf(GeneratedEntries \cup {entry}, {}) :
     entry \in {ManualEntry(1, Reports), ManualEntry(1, Mentions), ManualEntry(1, Complains)}}
  \cup {TableOf(GeneratedEntries, {<<"manual", Inv>>}),
        TableOf(GeneratedEntries, {}),
        TableOf({Losing, ManualEntry(1, Reports)}, {<<"generated", "ArchivedTerminal">>})}

-----------------------------------------------------------------------------
(* Documents.                                                              *)

Says404 == [codes |-> {"404"}, verified |-> {}, wording |-> 1]
Reworded == [Says404 EXCEPT !.wording = 2]
Says409 == [codes |-> {"409"}, verified |-> {}, wording |-> 1]
Proved == [codes |-> {}, verified |-> {"kani"}, wording |-> 1]

Says201 == [codes |-> {"201"}, verified |-> {}, wording |-> 1]

CodeLink == [file |-> "ledger.rs", symbol |-> "grant"]
ProofFile == [file |-> "proofs.rs", symbol |-> Nothing]
TheProof == [ProofFile EXCEPT !.symbol = "proof"]

OnlyCode == [kind \in Kind |-> IF kind = "code" THEN {CodeLink} ELSE Nothing]
Linked(proofs) == [OnlyCode EXCEPT !["kani"] = proofs]

Req(id, status, acceptance, links) ==
  [id |-> id, status |-> status, acceptance |-> acceptance, implements_in |-> links]

First == Req(1, "active", <<Says404, Proved>>, Linked({TheProof}))
Second == Req(2, "active", <<Says409>>, OnlyCode)

\* The second requirement gives way to one of these.
OtherSeconds == {[Second EXCEPT !.acceptance = <<Proved>>],
                 [Second EXCEPT !.acceptance = <<Says201>>],
                 [Second EXCEPT !.acceptance = <<>>],
                 [Second EXCEPT !.id = 1],
                 [Second EXCEPT !.status = "superseded"]}

L(kw, words, shall) == [kw |-> kw, req |-> Nothing, words |-> words, shall |-> shall]
Title(id) == [kw |-> "Scenario", req |-> id, words |-> {}, shall |-> FALSE]
Heading == L("Feature", {}, FALSE)

FirstFeature == <<Heading, Title(1), L("When", {}, FALSE), L("Then", {"404"}, TRUE)>>
SecondFeature == <<Heading, Title(2), L("Then", {"409"}, TRUE), L("And", {}, TRUE)>>

OtherFirstFeatures == {<<Heading, Title(1), L("When", {}, FALSE), L("Then", {}, TRUE)>>,
                       <<Heading, Title(1), L("Then", {"client error"}, TRUE)>>}

OtherSecondFeatures ==
  {<<Heading, Title(2), L("Then", {"409"}, TRUE), L("And", {}, FALSE)>>,
   <<Heading, Title(2), L("Then", {"client error"}, TRUE)>>,
   <<Heading, L("Given", {"404"}, FALSE), Title(2), L("Then", {"409"}, TRUE)>>,
   <<Heading, Title(2), Title(2), L("Then", {"409"}, TRUE)>>,
   <<Heading, L("Text", {}, FALSE), Title(2), L("Then", {"409"}, TRUE), L("Text", {}, FALSE)>>}

-----------------------------------------------------------------------------
(* Trees.                                                                  *)

NoManual == [alone |-> {}, grouped |-> {}]

MCBlank ==
  [reqs |-> Nothing, features |-> Nothing, adr |-> Nothing, files |-> {}, defined |-> {},
   annotated |-> TRUE, lock |-> Nothing, readme |-> Nothing, config |-> Nothing,
   source |-> None, conventional |-> FALSE, tla |-> None, cfg |-> None,
   manual |-> NoManual, table |-> TableOf({}, {}), broken |-> {}, uses_loom |-> FALSE]

MCScaffold ==
  [MCBlank EXCEPT
     !.reqs = <<First>>, !.features = <<FirstFeature>>, !.adr = {1},
     !.files = {"ledger.rs", "proofs.rs"},
     !.defined = {<<"ledger.rs", "grant">>, <<"proofs.rs", "proof">>},
     !.readme = [marked |-> TRUE, counts |-> <<0, 0, 0>>],
     !.config = [schema |-> 1, named |-> TRUE, fsm |-> FALSE, targets |-> {"tsan", "loom"}]]

Unsettled ==
  [MCScaffold EXCEPT
     !.reqs = <<First, Second>>, !.features = <<FirstFeature, SecondFeature>>,
     !.config.fsm = TRUE, !.config.targets = {"tsan", "loom", "dst", "fuzz"},
     !.source = Plain, !.conventional = TRUE,
     !.tla = RenderTla(ParseFsm(Plain)), !.cfg = RenderCfg(ParseFsm(Plain)),
     !.manual = [alone |-> {Inv}, grouped |-> {}],
     !.table = TableOf(GeneratedEntries \cup {ManualEntry(1, Reports)}, {}),
     !.uses_loom = TRUE]

MCWorking == [Unsettled EXCEPT !.lock = Snapshot(Unsettled), !.readme.counts = Counts(Unsettled)]

Toggled(set, x) == IF x \in set THEN set \ {x} ELSE set \cup {x}

EditedCode(t) ==
  {[t EXCEPT !.source = source] : source \in MCSources}
  \cup {[t EXCEPT !.defined = Toggled(@, <<"proofs.rs", "proof">>)],
        [t EXCEPT !.files = Toggled(@, "proofs.rs")]}
  \cup {[t EXCEPT !.broken = Toggled(@, gate)] : gate \in {"fmt", "loom", "dst random"}}

EditedSpecs(t) ==
  {[t EXCEPT !.table = table] : table \in MCTables}
  \cup {[t EXCEPT !.manual = [alone |-> alone, grouped |-> {Inv} \ alone]] :
          alone \in {{}, {Inv}}}
  \cup {[t EXCEPT !.annotated = ~@], [t EXCEPT !.tla = None]}

EditedDocuments(t) ==
  {[t EXCEPT !.adr = Nothing], [t EXCEPT !.reqs = Nothing]}
  \cup (IF t.reqs = Nothing THEN {}
        ELSE {[t EXCEPT !.reqs[1].acceptance[1] = Reworded],
              [t EXCEPT !.reqs[1].implements_in = Linked({})],
              [t EXCEPT !.reqs[1].implements_in = Linked({ProofFile})]}
             \cup {[t EXCEPT !.reqs = <<@[1], second>>] : second \in OtherSeconds})
  \cup (IF t.features = Nothing THEN {}
        ELSE {[t EXCEPT !.features[1] = file] : file \in OtherFirstFeatures}
             \cup {[t EXCEPT !.features = <<@[1], file>>] : file \in OtherSecondFeatures})
  \cup (IF t.readme = Nothing THEN {} ELSE {[t EXCEPT !.readme.marked = ~@]})

EditedConfig(t) ==
  IF t.config = Nothing THEN {}
  ELSE {[t EXCEPT !.config.schema = 2], [t EXCEPT !.config.fsm = ~@],
        [t EXCEPT !.conventional = ~@]}

MCEdited(t) == EditedCode(t) \cup EditedSpecs(t) \cup EditedDocuments(t) \cup EditedConfig(t)

-----------------------------------------------------------------------------

\* Of a command killed, or whose tree is edited under it, no property speaks once it
\* has ended, and no later step reads what it found; a tier that runs on an edited
\* tree writes nothing, may end at every step, and ends so.  Such states that agree on
\* the tree and the edits are one.
WithoutStaleVerdicts ==
  CASE Ended /\ (touched \/ verdict = "None")       -> <<tree, edits>>
    [] ~Ended /\ touched /\ cmd \in Tiers           -> <<tree, edits, Tiers>>
    [] ~Ended /\ touched /\ cmd \in Writers         -> <<tree, edits, cmd, at, loaded, fsm>>
    [] OTHER                                        -> vars

=============================================================================
