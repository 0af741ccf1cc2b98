----------------------------- MODULE Requirements -----------------------------
(***************************************************************************)
(* The gates that hold requirements, scenarios and code together: the      *)
(* corpus walk (corpus.rs), check-traceability and its lock                *)
(* (traceability.rs), check-bdd-style (bdd_style.rs), check-bdd-coverage   *)
(* and check-verified-markers (bdd_gates.rs), check-docs-counts            *)
(* (docs_gates.rs).                                                        *)
(*                                                                         *)
(* A text is what the gates tell apart in it: of a criterion the status    *)
(* codes it names, the techniques its (verified=...) marker claims and a   *)
(* number for its wording; of a line of a feature file its keyword, the    *)
(* requirement its title names, the codes it names (or "client error") and *)
(* whether it says "shall".  Lines no gate reads are left out.             *)
(*                                                                         *)
(* The gates read the documents of a tree t:                               *)
(*   t.reqs, t.features  the files in the order of the walk, or Nothing    *)
(*   t.adr               the requirements the decision records implement   *)
(*   t.files             the paths there are on disk                       *)
(*   t.defined           the symbols defined in them, each with its file   *)
(*   t.annotated         every action of the hand-written .tla names a REQ *)
(*   t.lock, t.readme    traceability.lock.json, the README's counts       *)
(***************************************************************************)
EXTENDS Naturals, Sequences, FiniteSets, FiniteSetsExt, SequencesExt, Functions

CONSTANTS ReqId,      \* the numbers of the ids; 0 is an id of another pattern
          Code,       \* the status codes of bdd_gates.rs:18
          ClientError,  \* those that begin with a 4
          Technique,  \* what may follow verified=
          File,       \* the paths a link may have
          Symbol,     \* what it may name there
          Nothing     \* no file or directory there; nothing named

ASSUME RequirementsAssumption == /\ ReqId \subseteq Nat /\ ClientError \subseteq Code
                                 /\ Nothing \notin ReqId /\ Nothing \notin Symbol

Criterion == [codes : SUBSET Code, verified : SUBSET Technique, wording : Nat]

Kind == Technique \cup {"code"}

\* `path` or `path::symbol`.
Link == [file : File, symbol : Symbol \cup {Nothing}]

Definition == File \X Symbol

\* Under a key is a list of links, an empty one included, or there is no such key.
ImplementsIn == [Kind -> (SUBSET Link) \cup {Nothing}]

ReqFrontmatter == [id : ReqId,
                   status : {"active", "non-goal", "superseded", "other"},
                   acceptance : Seq(Criterion),
                   implements_in : ImplementsIn]

Step == {"Given", "When", "Then", "And"}

Line == [kw : Step \cup {"Feature", "Scenario", "Text"},
         req : ReqId \cup {Nothing},
         words : SUBSET (Code \cup {"client error"}),
         shall : BOOLEAN]

Lock == SUBSET (ReqId \X Seq(Criterion))

Readme == [marked : BOOLEAN, counts : Nat \X Nat \X Nat]

-----------------------------------------------------------------------------
(* The walks.                                                              *)

Files(dir) == IF dir = Nothing THEN <<>> ELSE dir

ReqFiles(t) == Range(Files(t.reqs))

Active(t) == {req \in ReqFiles(t) : req.status = "active"}

\* The walk goes from file to file and from line to line: a place is of both.
Places(files) == UNION {{f} \X DOMAIN files[f] : f \in DOMAIN files}

LineAt(files, place) == files[place[1]][place[2]]

Before(p, q) == p[1] < q[1] \/ (p[1] = q[1] /\ p[2] < q[2])

Titles(files) == {p \in Places(files) : LineAt(files, p).kw = "Scenario"}

\* The steps up to the next title of the walk, be it in another file.
StepsOf(files, title) ==
  {p \in Places(files) : /\ Before(title, p) /\ LineAt(files, p).kw \in Step
                         /\ \A next \in Titles(files) : Before(title, next) => Before(p, next)}

Scenarios(t) ==
  LET files == Files(t.features)
      words(title) == UNION {LineAt(files, p).words : p \in {title} \cup StepsOf(files, title)}
  IN  {[req |-> LineAt(files, title).req, words |-> words(title)] : title \in Titles(files)}

\* <<scenarios, feature files, the highest requirement>>
Counts(t) ==
  <<Cardinality(Titles(Files(t.features))),
    Len(Files(t.features)),
    Max({req.id : req \in ReqFiles(t)} \cup {0})>>

-----------------------------------------------------------------------------
(* check-traceability.                                                     *)

\* One requirement per id: of two files with one id the later one stays.
Reqs(t) ==
  [id \in {req.id : req \in ReqFiles(t)} |->
     t.reqs[Max({k \in DOMAIN t.reqs : t.reqs[k].id = id})]]

\* What the lock records.
Snapshot(t) == {<<id, Reqs(t)[id].acceptance>> : id \in DOMAIN Reqs(t)}

\* A path has to be there; a symbol, if one is named, defined in it.
LinkLeads(t, link) ==
  /\ link.file \in t.files
  /\ link.symbol # Nothing => <<link.file, link.symbol>> \in t.defined

Keys(req) == {kind \in Kind : req.implements_in[kind] # Nothing}

\* An active requirement has a key, be there a link under it or not.
WellFormed(t, req) ==
  /\ req.status \in {"active", "non-goal", "superseded"}
  /\ req.status = "active" => Keys(req) # {}
  /\ \A kind \in Keys(req) :
       \A link \in req.implements_in[kind] : LinkLeads(t, link)

\* What is checked before the lock is compared or written.
Traceable(t) ==
  /\ \A req \in ReqFiles(t) : req.id # 0 /\ req.acceptance # <<>>
  /\ t.adr \subseteq DOMAIN Reqs(t)
  /\ \A id \in DOMAIN Reqs(t) : WellFormed(t, Reqs(t)[id])
  /\ t.annotated

NothingToTrace(t) == t.reqs = Nothing \/ t.adr = Nothing

\* Mutant: the keys are compared and not the criteria.
LockKnows(t) ==
  t.lock # Nothing /\ {entry[1] : entry \in t.lock} = {entry[1] : entry \in Snapshot(t)}

LockIsCurrent(t) == t.lock = Snapshot(t)

CheckTraceability(t) == NothingToTrace(t) \/ (Traceable(t) /\ LockIsCurrent(t))

-----------------------------------------------------------------------------
(* check-bdd-style: one pass over the lines of a file.                     *)

StartOfFile == [saw_feature |-> FALSE, in_scenario |-> FALSE, has_steps |-> FALSE,
                last_keyword |-> "", clean |-> TRUE]

\* Mutant: an And is not read as what it continues.
ItsOwnKeyword(line, last) == line.kw

Effective(line, last) == IF line.kw = "And" THEN last ELSE line.kw

LintLine(a, line) ==
  CASE line.kw = "Feature"  -> [a EXCEPT !.saw_feature = TRUE]
    [] line.kw = "Scenario" -> [a EXCEPT !.in_scenario = TRUE, !.has_steps = FALSE,
                                         !.last_keyword = "",
                                         !.clean = @ /\ (a.in_scenario => a.has_steps)]
    [] line.kw \in Step     ->
         LET kw == Effective(line, a.last_keyword)
         IN  [a EXCEPT !.has_steps = TRUE,
                       !.last_keyword = kw,
                       !.clean = @ /\ a.in_scenario /\ (kw = "Then" => line.shall)]
    [] line.kw = "Text"     -> [a EXCEPT !.clean = @ /\ a.saw_feature /\ ~a.in_scenario]

\* What has been seen of a file after each of its lines.
Pass(file) ==
  LET after[k \in 0..Len(file)] ==
        IF k = 0 THEN StartOfFile ELSE LintLine(after[k - 1], file[k])
  IN  after

LintFeatureFile(file) ==
  LET end == Pass(file)[Len(file)]
  IN  end.clean /\ end.saw_feature /\ (end.in_scenario => end.has_steps)

CheckBddStyle(t) == \A file \in Range(Files(t.features)) : LintFeatureFile(file)

-----------------------------------------------------------------------------
(* check-bdd-coverage, check-verified-markers, check-docs-counts.          *)

\* "client error" stands for any code that is one.
Asserts(words, criterion) ==
  \/ criterion.codes \subseteq words
  \/ criterion.codes \subseteq ClientError /\ "client error" \in words

Covered(t, req, criterion) ==
  \/ criterion.verified # {} \/ criterion.codes = {}
  \/ \E s \in Scenarios(t) : s.req = req.id /\ Asserts(s.words, criterion)

CheckBddCoverage(t) ==
  \A req \in Active(t) :
    /\ \E s \in Scenarios(t) : s.req = req.id
    /\ \A k \in DOMAIN req.acceptance : Covered(t, req, req.acceptance[k])

Enforced == {"kani", "tla"}

Backed(req, technique) ==
  technique \in Keys(req) /\ req.implements_in[technique] # {}

CheckVerifiedMarkers(t) ==
  \A req \in Active(t) : \A k \in DOMAIN req.acceptance :
    \A technique \in req.acceptance[k].verified \cap Enforced : Backed(req, technique)

CheckDocsCounts(t) ==
  t.readme # Nothing => t.readme = [marked |-> TRUE, counts |-> Counts(t)]

=============================================================================
