------------------------------- MODULE DhxProofs -------------------------------
(***************************************************************************)
(* What a green tier, and a writer that ends well, say of the tree, for    *)
(* every tree, every edit and every number of edits.  That a verdict is    *)
(* exact uses nothing of the gates but that each has a verdict on a tree.  *)
(* What a green tree is then worth is read off the gates, one lemma for    *)
(* each: the steps of the state machine, the lines of a feature file and   *)
(* the places of the walk are told by the least one that would be wrong.   *)
(***************************************************************************)
EXTENDS Dhx, FiniteSetTheorems, SequenceTheorems, WellFoundedInduction, TLAPS

\* What has been judged so far: the gates passed hold, unless their entropy is
\* fresh, and the failed ones do not.
Judged ==
  /\ \A g \in failed \ Discovery : ~Holds(g, tree.config, tree)
  /\ at > 0 /\ cmd \in Tiers =>
       /\ loaded = tree.config
       /\ \A j \in DOMAIN Gates[cmd] : j < at =>
            \/ Gates[cmd][j] \in failed \cup Discovery
            \/ Holds(Gates[cmd][j], tree.config, tree)

VerdictInv ==
  /\ at \in Nat /\ cmd \in Commands /\ touched \in BOOLEAN
  /\ at > 0 => verdict = "None"
  /\ cmd \notin Tiers => failed = {}
  /\ cmd = "check" => failed \subseteq Range(CheapGates)
  /\ at > 0 /\ cmd # "check" => failed = {}
  /\ ~touched => Judged
  /\ VerdictIsExact

-----------------------------------------------------------------------------

CheapNames ==
  {"fmt", "regen", "clippy", "traceability", "spec-sync", "bdd-style", "bdd-coverage",
   "verified-markers", "mutation-coverage", "file-size", "docs-counts"}

\* The tiers are told from the commands that write, and `check` draws no entropy.
LEMMA TiersApart ==
  /\ Tiers \cap Writers = {} /\ "check" \in Tiers /\ "migrate" \notin Tiers
  /\ Range(CheapGates) \cap Discovery = {}
  /\ Gates["check"] = CheapGates
<1>1. Tiers \cap Writers = {} /\ "check" \in Tiers /\ "migrate" \notin Tiers
  BY DEF Tiers, Writers, Inits
<1>2. CheapGates \in Seq(CheapNames)
  BY DEF CheapGates, CheapNames
<1>3. Range(CheapGates) \cap Discovery = {}
  <2>1. CheapNames \cap Discovery = {}
    BY DEF CheapNames, Discovery
  <2> QED  BY <1>2, <2>1 DEF Range
<1>4. Gates["check"] = CheapGates
  BY <1>1 DEF Gates
<1> QED  BY <1>1, <1>3, <1>4

GateNames ==
  CheapNames \cup {"machete", "gitleaks", "deny", "tlc", "tlc --mutate", "test", "cov",
   "kani-codegen", "kani", "outdated", "geiger", "mutants", "tsan", "loom", "dst 0", "dst 1", "dst 42",
   "dst 1337", "dst random", "fuzz"}

\* The gates of a tier are counted from 1.
LEMMA GatesAreCounted ==
  ASSUME NEW c \in Tiers
  PROVE  /\ Len(Gates[c]) \in Nat /\ DOMAIN Gates[c] = 1..Len(Gates[c])
         /\ Program(c) = Gates[c]
<1>1. CheapGates \in Seq(GateNames)
  BY DEF CheapGates, CheapNames, GateNames
<1>2. QuickGates \in Seq(GateNames)
  <2>1. MetaGates \in Seq(GateNames)
    BY DEF MetaGates, CheapNames, GateNames
  <2>2. StaticGates \in Seq(GateNames)
    BY DEF StaticGates, CheapNames, GateNames
  <2>3. <<"tlc", "tlc --mutate", "test", "cov", "kani-codegen", "kani", "dst 0">>
          \in Seq(GateNames)
    BY DEF CheapNames, GateNames
  <2> QED  BY <2>1, <2>2, <2>3, ConcatProperties DEF QuickGates
<1>3. FullGates \in Seq(GateNames)
  <2>1. <<"outdated", "geiger", "mutants", "tsan", "loom">> \in Seq(GateNames)
    BY DEF CheapNames, GateNames
  <2>2. <<"dst 1", "dst 42", "dst 1337", "dst random", "fuzz">> \in Seq(GateNames)
    BY DEF CheapNames, GateNames
  <2> QED  BY <1>2, <2>1, <2>2, ConcatProperties DEF FullGates
<1>4. Gates[c] \in Seq(GateNames)
  BY <1>1, <1>2, <1>3 DEF Gates, Tiers
<1>5. Program(c) = Gates[c]
  BY DEF Program, Tiers, Inits
<1> QED  BY <1>4, <1>5

\* What a regression gate answers is whether it holds.
LEMMA OutcomeIsHolds ==
  ASSUME NEW g, NEW config, NEW t, g \notin Discovery,
         NEW passes \in Outcomes(g, config, t)
  PROVE  passes = Holds(g, config, t)
BY DEF Outcomes

\* The steps of a command that writes are counted from 1 too.
LEMMA WritesAreCounted ==
  ASSUME NEW c \in Writers
  PROVE  DOMAIN Program(c) \subseteq Nat \ {0}
<1> DEFINE Names == {"parse", "write tla", "write cfg", "write counts", "write lock",
                     "materialize", "load"}
<1>1. /\ Regen \in Seq(Names)
      /\ <<"write counts">> \in Seq(Names) /\ <<"write lock">> \in Seq(Names)
      /\ <<"write counts", "write lock">> \in Seq(Names)
      /\ <<"materialize", "load">> \in Seq(Names)
  BY DEF Regen
<1> HIDE DEF Names
<1>2. <<"materialize", "load">> \o Regen \o <<"write counts", "write lock">> \in Seq(Names)
  BY <1>1, ConcatProperties
<1>3. Program(c) \in Seq(Names)
  BY <1>1, <1>2, TiersApart DEF Program, Writers, Inits
<1> QED  BY <1>3

-----------------------------------------------------------------------------

\* Nothing has been judged at first.
LEMMA InitVerdict == Init => VerdictInv
<1> SUFFICES ASSUME Init PROVE VerdictInv
  OBVIOUS
<1>1. cmd = "migrate" /\ at = 0 /\ failed = {} /\ verdict = "None" /\ touched = FALSE
  BY DEF Init
<1>2. cmd \in Commands
  BY <1>1 DEF Commands
<1>3. VerdictIsExact
  BY <1>1 DEF VerdictIsExact, FinishedOk
<1>4. Judged
  BY <1>1 DEF Judged
<1> QED  BY <1>1, <1>2, <1>3, <1>4 DEF VerdictInv

\* A command that writes has failed no gate, and says nothing of any.
LEMMA WriterKeepsVerdict ==
  ASSUME VerdictInv, cmd \in Writers, at \in DOMAIN Program(cmd),
         failed' = failed, Advance \/ End("Err")
  PROVE  VerdictInv'
<1>1. cmd \notin Tiers /\ cmd # "check" /\ at \in Nat \ {0}
  BY TiersApart, WritesAreCounted
<1>2. /\ at' \in Nat /\ (at' > 0 => verdict' = "None")
      /\ cmd' = cmd /\ touched' = touched /\ failed' = {}
  BY <1>1 DEF Advance, End, VerdictInv
<1> QED  BY <1>1, <1>2 DEF VerdictInv, Judged, VerdictIsExact, FinishedOk

\* The last gate of a tier has run.
LEMMA FinishKeepsVerdict ==
  ASSUME VerdictInv, Finish
  PROVE  VerdictInv'
<1>1. /\ at' = 0 /\ verdict' = IF failed = {} THEN "Ok" ELSE "Err"
      /\ cmd' = cmd /\ touched' = touched /\ failed' = failed /\ tree' = tree
  BY DEF Finish, End
<1>2. ASSUME ~touched, cmd \in Tiers
      PROVE  \A g \in Range(Gates[cmd]) :
               g \in failed \cup Discovery \/ Holds(g, tree.config, tree)
  <2>1. at > Len(Gates[cmd]) /\ at \in Nat /\ at > 0
    BY <1>2, GatesAreCounted DEF Finish, VerdictInv
  <2>2. \A j \in DOMAIN Gates[cmd] : j < at
    BY <1>2, <2>1, GatesAreCounted
  <2> QED  BY <1>2, <2>1, <2>2 DEF VerdictInv, Judged, Range
<1>3. Judged' \/ touched'
  BY <1>1 DEF VerdictInv, Judged
<1>4. VerdictIsExact'
  <2>1. ASSUME NEW c \in Tiers, FinishedOk({c})', NEW g \in Range(Gates[c]) \ Discovery
        PROVE  Holds(g, tree.config, tree)
    BY <1>1, <1>2, <2>1 DEF FinishedOk
  <2>2. ASSUME cmd = "check", ~touched
        PROVE  failed = {g \in Range(CheapGates) : ~Holds(g, tree.config, tree)}
    <3>1. failed \subseteq Range(CheapGates) /\ failed \cap Discovery = {}
      BY <2>2, TiersApart DEF VerdictInv
    <3>2. \A g \in failed : ~Holds(g, tree.config, tree)
      BY <2>2, <3>1 DEF VerdictInv, Judged
    <3>3. \A g \in Range(CheapGates) : g \in failed \/ Holds(g, tree.config, tree)
      BY <1>2, <2>2, TiersApart
    <3> QED  BY <3>1, <3>2, <3>3
  <2> QED  BY <1>1, <1>3, <2>1, <2>2 DEF VerdictIsExact, Judged
<1> QED  BY <1>1, <1>3, <1>4 DEF VerdictInv

\* A gate has run.
LEMMA RunGateKeepsVerdict ==
  ASSUME VerdictInv, RunGate
  PROVE  VerdictInv'
<1> DEFINE g == Gates[cmd][at]
<1>1. PICK passes \in Outcomes(g, loaded, tree) :
        /\ failed' = IF passes THEN failed ELSE failed \cup {g}
        /\ IF passes \/ cmd = "check" THEN Advance ELSE End("Err")
  BY DEF RunGate
<1>2. /\ cmd \in Tiers /\ at \in DOMAIN Gates[cmd] /\ at \in Nat /\ at > 0
      /\ verdict = "None" /\ tree' = tree /\ loaded' = loaded
  BY GatesAreCounted DEF RunGate, VerdictInv
<1>3. /\ cmd' = cmd /\ touched' = touched
      /\ \/ at' = at + 1 /\ verdict' = "None" /\ (passes \/ cmd = "check")
         \/ at' = 0 /\ verdict' = "Err" /\ cmd # "check"
  BY <1>1, <1>2 DEF Advance, End
<1>4. cmd = "check" => failed' \subseteq Range(CheapGates)
  BY <1>1, <1>2, TiersApart DEF VerdictInv, Range
<1>5. at' > 0 /\ cmd # "check" => failed' = {}
  BY <1>1, <1>2, <1>3 DEF VerdictInv
<1>6. ASSUME ~touched, g \notin Discovery
      PROVE  IF passes THEN Holds(g, tree.config, tree) ELSE ~Holds(g, tree.config, tree)
  BY <1>1, <1>2, <1>6, OutcomeIsHolds DEF VerdictInv, Judged
<1>7. ASSUME ~touched  PROVE Judged'
  <2>1. \A f \in failed' \ Discovery : ~Holds(f, tree.config, tree)
    BY <1>1, <1>6, <1>7 DEF VerdictInv, Judged
  <2>2. ASSUME at' > 0, NEW j \in DOMAIN Gates[cmd], j < at'
        PROVE  \/ Gates[cmd][j] \in failed' \cup Discovery
               \/ Holds(Gates[cmd][j], tree.config, tree)
    <3>1. j \in Nat /\ (j < at \/ j = at)
      BY <1>2, <1>3, <2>2, GatesAreCounted
    <3>2. CASE j < at
      BY <1>1, <1>2, <1>7, <3>2 DEF VerdictInv, Judged
    <3>3. CASE j = at
      BY <1>1, <1>6, <1>7, <3>3
    <3> QED  BY <3>1, <3>2, <3>3
  <2> QED  BY <1>2, <1>3, <1>7, <2>1, <2>2 DEF VerdictInv, Judged
<1>8. VerdictIsExact'
  BY <1>2, <1>3, <1>7 DEF VerdictIsExact, FinishedOk, Ended, Judged
<1> QED  BY <1>2, <1>3, <1>4, <1>5, <1>7, <1>8 DEF VerdictInv

\* A command starts.
LEMMA StartKeepsVerdict ==
  ASSUME VerdictInv, NEW c \in Commands, NEW in_container \in BOOLEAN,
         Start(c, in_container)
  PROVE  VerdictInv'
<1>1. /\ cmd' = c /\ touched' = FALSE /\ failed' = {} /\ tree' = tree
      /\ \/ at' = 1 /\ verdict' = "None"
         \/ at' = 0 /\ verdict' = "Err"
      /\ loaded' = IF c \in Inits THEN Nothing ELSE tree.config
  BY DEF Start
<1>2. c \in Tiers => c \notin Inits
  BY TiersApart DEF Writers
<1>3. Judged'
  <2>1. \A j \in DOMAIN Gates[c] : c \in Tiers => j \in Nat /\ ~(j < 1)
    BY GatesAreCounted
  <2> QED  BY <1>1, <1>2, <2>1 DEF Judged
<1>4. VerdictIsExact'
  BY <1>1 DEF VerdictIsExact, FinishedOk
<1>5. at' \in Nat /\ (at' > 0 => verdict' = "None")
  BY <1>1
<1>6. cmd' \in Commands /\ touched' \in BOOLEAN
  BY <1>1
<1>7. failed' = {}
  BY <1>1
<1> QED  BY <1>3, <1>4, <1>5, <1>6, <1>7 DEF VerdictInv

\* Every step keeps the verdict exact.
LEMMA NextVerdict == VerdictInv /\ [Next]_vars => VerdictInv'
<1> SUFFICES ASSUME VerdictInv, [Next]_vars  PROVE VerdictInv'
  OBVIOUS
<1>1. CASE \E c \in Commands, in_container \in BOOLEAN : Start(c, in_container)
  BY <1>1, StartKeepsVerdict
<1>2. CASE RunGate
  BY <1>2, RunGateKeepsVerdict
<1>3. CASE Parse
  BY <1>3, WriterKeepsVerdict DEF Parse, NextIs
<1>4. CASE WriteTla
  BY <1>4, WriterKeepsVerdict DEF WriteTla, NextIs
<1>5. CASE WriteCfg
  BY <1>5, WriterKeepsVerdict DEF WriteCfg, NextIs
<1>6. CASE WriteDocsCounts
  BY <1>6, WriterKeepsVerdict DEF WriteDocsCounts, NextIs
<1>7. CASE WriteTraceability
  BY <1>7, WriterKeepsVerdict DEF WriteTraceability, NextIs
<1>8. CASE Materialize
  BY <1>8, WriterKeepsVerdict DEF Materialize, NextIs
<1>9. CASE LoadFrom
  BY <1>9, WriterKeepsVerdict DEF LoadFrom, NextIs
<1>10. CASE Finish
  BY <1>10, FinishKeepsVerdict
<1>11. CASE Interrupt
  BY <1>11 DEF Interrupt, End, VerdictInv, Judged, VerdictIsExact, FinishedOk
<1>12. CASE Edit
  BY <1>12 DEF Edit, VerdictInv, VerdictIsExact, FinishedOk
<1>13. CASE UNCHANGED vars
  BY <1>13 DEF vars, VerdictInv, Judged, VerdictIsExact, FinishedOk, Ended
<1> QED
  BY <1>1, <1>2, <1>3, <1>4, <1>5, <1>6, <1>7, <1>8, <1>9, <1>10, <1>11, <1>12, <1>13
     DEF Next, Work

\* A tier that is green on a tree nobody edited meanwhile has judged every one of
\* its gates on that tree, and a gate it names as failed does not hold there
\* (main.rs:329, 344): whatever the gates are, and however often the tree is edited
\* between commands.
THEOREM VerdictsAreExact == Spec => []VerdictIsExact
<1>1. Spec => []VerdictInv
  BY InitVerdict, NextVerdict, PTL DEF Spec
<1>2. VerdictInv => VerdictIsExact
  BY DEF VerdictInv
<1> QED  BY <1>1, <1>2, PTL

-----------------------------------------------------------------------------
(* Sequences.                                                              *)

\* A set of naturals that is not empty has a least one.
LEMMA LeastPlace ==
  ASSUME NEW S \in SUBSET Nat, S # {}
  PROVE  \E n \in S : \A m \in S : n <= m
<1> DEFINE R == OpToRel(<, Nat)
<1>1. IsWellFoundedOn(R, Nat)
  BY NatLessThanWellFounded
<1>2. \A x, y \in Nat : y < x => <<y, x>> \in R
  BY DEF OpToRel
<1> HIDE DEF R
<1>3. PICK n \in S : \A m \in S : ~ (<<m, n>> \in R)
  BY <1>1, WFMin
<1>4. \A m \in S : m \in Nat /\ n \in Nat /\ ~(m < n)
  BY <1>2, <1>3
<1> QED  BY <1>3, <1>4

\* Each of finitely many places is told by how many there are before it.
LEMMA PlacesCounted ==
  ASSUME NEW places \in SUBSET Nat, IsFiniteSet(places)
  PROVE  /\ Cardinality(places) \in Nat
         /\ \A p \in places :
              Cardinality({q \in places : q < p}) \in 0..Cardinality(places) - 1
         /\ \A p, r \in places :
              Cardinality({q \in places : q < p}) = Cardinality({q \in places : q < r}) => p = r
         /\ \A k \in 1..Cardinality(places) :
              \E p \in places : Cardinality({q \in places : q < p}) = k - 1
<1> DEFINE n == Cardinality(places)
           Earlier(p) == {q \in places : q < p}
           count == [p \in places |-> Cardinality(Earlier(p)) + 1]
<1>1. n \in Nat /\ \A p \in places : p \in Nat
  BY FS_CardinalityType
<1>2. ASSUME NEW p \in places
      PROVE  IsFiniteSet(Earlier(p)) /\ Cardinality(Earlier(p)) \in 0..n - 1
  <2>1. IsFiniteSet(places \ {p}) /\ Cardinality(places \ {p}) = n - 1
    BY <1>2, FS_RemoveElement
  <2>2. Earlier(p) \in SUBSET (places \ {p})
    BY <1>1
  <2>3. IsFiniteSet(Earlier(p)) /\ Cardinality(Earlier(p)) <= n - 1
    BY <2>1, <2>2, FS_Subset
  <2>4. Cardinality(Earlier(p)) \in Nat
    BY <2>3, FS_CardinalityType
  <2> QED  BY <1>1, <2>3, <2>4
<1>3. ASSUME NEW p \in places, NEW r \in places, p < r
      PROVE  Cardinality(Earlier(p)) < Cardinality(Earlier(r))
  <2>1. Earlier(p) \cup {p} \in SUBSET Earlier(r)
    <3>1. ASSUME NEW q \in places, q < p PROVE q < r
      BY <1>1, <1>3, <3>1
    <3> QED  BY <1>3, <3>1
  <2>2. p \notin Earlier(p)
    BY <1>1
  <2>3. Cardinality(Earlier(p) \cup {p}) = Cardinality(Earlier(p)) + 1
    BY <1>2, <2>2, FS_AddElement
  <2>4. Cardinality(Earlier(p) \cup {p}) <= Cardinality(Earlier(r))
    BY <1>2, <2>1, FS_Subset
  <2> HIDE DEF Earlier, n
  <2>5. Cardinality(Earlier(p)) \in Nat /\ Cardinality(Earlier(r)) \in Nat
    BY <1>1, <1>2
  <2> QED  BY <2>3, <2>4, <2>5
<1>4. \A p, r \in places : Cardinality(Earlier(p)) = Cardinality(Earlier(r)) => p = r
  <2> SUFFICES ASSUME NEW p \in places, NEW r \in places, p # r,
                      Cardinality(Earlier(p)) = Cardinality(Earlier(r))
               PROVE  FALSE
    OBVIOUS
  <2>1. p < r \/ r < p
    BY <1>1
  <2> HIDE DEF Earlier, n
  <2>2. Cardinality(Earlier(p)) \in Nat /\ Cardinality(Earlier(r)) \in Nat
    BY <1>1, <1>2
  <2> QED  BY <1>3, <2>1, <2>2
<1>5. count \in Surjection(places, 1..n)
  <2>1. count \in [places -> 1..n]
    <3> HIDE DEF Earlier, n
    <3>1. \A p \in places : Cardinality(Earlier(p)) + 1 \in 1..n
      BY <1>1, <1>2
    <3> QED  BY <3>1
  <2>2. \A p, r \in places : count[p] = count[r] => p = r
    <3> HIDE DEF Earlier, n
    <3>1. \A p \in places : Cardinality(Earlier(p)) \in Nat
      BY <1>1, <1>2
    <3> QED  BY <1>4, <3>1
  <2>3. count \in Injection(places, 1..n)
    BY <2>1, <2>2 DEF Injection, IsInjective
  <2>4. IsFiniteSet(1..n) /\ Cardinality(1..n) = n
    BY <1>1, FS_Interval
  <2> QED  BY <2>3, <2>4, FS_Injection
<1>6. ASSUME NEW k \in 1..n PROVE \E p \in places : Cardinality(Earlier(p)) = k - 1
  <2> HIDE DEF Earlier, n
  <2>1. PICK p \in places : count[p] = k
    BY <1>5 DEF Surjection
  <2>2. Cardinality(Earlier(p)) \in Nat /\ Cardinality(Earlier(p)) + 1 = k
    BY <1>1, <1>2, <2>1
  <2> QED  BY <2>2
<1> QED  BY <1>1, <1>2, <1>4, <1>6

\* AtPlaces has exactly the entries at the places.
LEMMA AtPlacesHas ==
  ASSUME NEW T, NEW seq \in Seq(T), NEW places \in SUBSET DOMAIN seq
  PROVE  /\ AtPlaces(seq, places) \in Seq(T)
         /\ Range(AtPlaces(seq, places)) = {seq[p] : p \in places}
<1> DEFINE n == Cardinality(places)
           Earlier(p) == Cardinality({q \in places : q < p})
           place(k) == CHOOSE p \in places : Earlier(p) = k - 1
<1>1. places \in SUBSET Nat /\ IsFiniteSet(places)
  <2>1. Len(seq) \in Nat /\ DOMAIN seq = 1..Len(seq)
    OBVIOUS
  <2>2. IsFiniteSet(1..Len(seq))
    BY <2>1, FS_Interval
  <2> QED  BY <2>1, <2>2, FS_Subset
<1>2. /\ n \in Nat
      /\ \A p \in places : Earlier(p) \in 0..n - 1
      /\ \A p, r \in places : Earlier(p) = Earlier(r) => p = r
      /\ \A k \in 1..n : \E p \in places : Earlier(p) = k - 1
  BY <1>1, PlacesCounted
<1>3. AtPlaces(seq, places) = [k \in 1..n |-> seq[place(k)]]
  BY DEF AtPlaces
<1> HIDE DEF n, Earlier
<1>4. \A k \in 1..n : place(k) \in places /\ Earlier(place(k)) = k - 1
  BY <1>2
<1>5. \A p \in places : Earlier(p) + 1 \in 1..n /\ place(Earlier(p) + 1) = p
  <2> SUFFICES ASSUME NEW p \in places
               PROVE  Earlier(p) + 1 \in 1..n /\ place(Earlier(p) + 1) = p
    OBVIOUS
  <2>1. Earlier(p) \in Nat /\ Earlier(p) + 1 \in 1..n
    BY <1>2
  <2>2. Earlier(p) + 1 - 1 = Earlier(p)
    BY <2>1
  <2>3. place(Earlier(p) + 1) \in places /\ Earlier(place(Earlier(p) + 1)) = Earlier(p) + 1 - 1
    BY <1>4, <2>1
  <2> QED  BY <1>2, <2>1, <2>2, <2>3
<1> HIDE DEF place
<1>6. \A k \in 1..n : seq[place(k)] \in T
  BY <1>4
<1>7. AtPlaces(seq, places) \in Seq(T)
  BY <1>2, <1>3, <1>6
<1>8. Range(AtPlaces(seq, places)) = {seq[place(k)] : k \in 1..n}
  BY <1>3 DEF Range
<1>9. {seq[place(k)] : k \in 1..n} = {seq[p] : p \in places}
  BY <1>4, <1>5
<1> QED  BY <1>7, <1>8, <1>9

-----------------------------------------------------------------------------
(* What is extracted and rendered.                                         *)

\* The names of an arm that is kept are those of states and events.
LEMMA ArmTyped ==
  ASSUME NEW arm \in Arm
  PROVE  /\ arm.from \in Pattern(State) /\ arm.on \in Pattern(Event)
         /\ arm.says \in State =>
              \A place \in State \X Event : arm.yields[place] = {arm.says}
         /\ Keeps(arm) => /\ arm.from.name \in StateName /\ arm.on.name \in EventName
                          /\ arm.says \in StateName
         /\ arm.from.name \in State => arm.from.matches = {arm.from.name}
         /\ arm.on.name \in Event => arm.on.matches = {arm.on.name}
<1>1. /\ arm.from \in Pattern(State) /\ arm.on \in Pattern(Event)
      /\ arm.says \in StateName \cup {None}
      /\ arm.says \in State => \A place \in State \X Event : arm.yields[place] = {arm.says}
  BY DEF Arm
<1>2. ASSUME NEW Variant, None \notin Variant, Other \cap Variant = {},
             NEW pattern \in Pattern(Variant)
      PROVE  /\ pattern.name \in Variant => pattern.matches = {pattern.name}
             /\ pattern.name # None => pattern.name \in Variant \cup Other
  <2>1. CASE pattern \in {[name |-> v, matches |-> {v}] : v \in Variant}
    BY <2>1
  <2>2. CASE pattern \in [name : Other \cup {None}, matches : (SUBSET Variant) \ {{}}]
    <3>1. pattern.name \in Other \cup {None}
      BY <2>2
    <3> QED  BY <1>2, <3>1
  <2> QED  BY <2>1, <2>2 DEF Pattern
<1>3. /\ None \notin State /\ None \notin Event
      /\ Other \cap State = {} /\ Other \cap Event = {}
  BY LifecycleAssumption
<1>4. /\ arm.from.name \in State => arm.from.matches = {arm.from.name}
      /\ arm.from.name # None => arm.from.name \in StateName
  BY <1>1, <1>2, <1>3 DEF StateName
<1>5. /\ arm.on.name \in Event => arm.on.matches = {arm.on.name}
      /\ arm.on.name # None => arm.on.name \in EventName
  BY <1>1, <1>2, <1>3 DEF EventName
<1> QED  BY <1>1, <1>4, <1>5 DEF Keeps

\* An arm that is kept is one step, and the steps extracted are those of the arms
\* that are kept.
LEMMA Extracted ==
  ASSUME NEW src \in Source
  PROVE  /\ ExtractTransitions(src) \in Seq(Transition)
         /\ \A t : t \in Range(ExtractTransitions(src)) <=>
              \E k \in DOMAIN src.arms :
                /\ Keeps(src.arms[k])
                /\ t = [source |-> src.arms[k].from.name,
                        event |-> src.arms[k].on.name, target |-> src.arms[k].says]
<1> DEFINE arms == src.arms
           places == {k \in DOMAIN arms : Keeps(arms[k])}
           kept == AtPlaces(arms, places)
           StepOf(arm) == [source |-> arm.from.name, event |-> arm.on.name,
                           target |-> arm.says]
<1>1. arms \in Seq(Arm)
  BY DEF Source
<1>2. ExtractTransitions(src) = [k \in DOMAIN kept |-> StepOf(kept[k])]
  BY DEF ExtractTransitions
<1> HIDE DEF arms
<1>3. places \in SUBSET DOMAIN arms
  OBVIOUS
<1>4. ASSUME NEW k \in places PROVE arms[k] \in Arm /\ Keeps(arms[k])
  BY <1>1
<1>5. kept \in Seq(Arm) /\ Range(kept) = {arms[p] : p \in places}
  <2> HIDE DEF places
  <2> QED  BY <1>1, <1>3, AtPlacesHas
<1> HIDE DEF kept
<1>6. ASSUME NEW arm \in Arm, Keeps(arm) PROVE StepOf(arm) \in Transition
  BY <1>6, ArmTyped DEF Transition
<1>7. \A k \in DOMAIN kept : kept[k] \in Range(kept)
  BY DEF Range
<1>8. \A k \in DOMAIN kept : StepOf(kept[k]) \in Transition
  <2> SUFFICES ASSUME NEW k \in DOMAIN kept PROVE StepOf(kept[k]) \in Transition
    OBVIOUS
  <2>1. PICK p \in places : kept[k] = arms[p]
    BY <1>5, <1>7
  <2>2. kept[k] \in Arm /\ Keeps(kept[k])
    BY <1>4, <2>1
  <2> HIDE DEF StepOf
  <2> QED  BY <1>6, <2>2
<1>9. ExtractTransitions(src) \in Seq(Transition)
  <2>1. Len(kept) \in Nat /\ DOMAIN kept = 1..Len(kept)
    BY <1>5
  <2> HIDE DEF StepOf
  <2> QED  BY <1>2, <1>8, <2>1
<1>10. Range(ExtractTransitions(src)) = {StepOf(kept[k]) : k \in DOMAIN kept}
  <2> HIDE DEF StepOf
  <2> QED  BY <1>2 DEF Range
<1>11. {StepOf(kept[k]) : k \in DOMAIN kept} = {StepOf(arms[p]) : p \in places}
  <2> HIDE DEF StepOf, places
  <2>1. \A k \in DOMAIN kept : \E p \in places : kept[k] = arms[p]
    BY <1>5, <1>7
  <2>2. \A p \in places : \E k \in DOMAIN kept : kept[k] = arms[p]
    BY <1>5 DEF Range
  <2> QED  BY <2>1, <2>2
<1> QED  BY <1>9, <1>10, <1>11 DEF arms

\* The events that act are those of the transitions.
LEMMA EventsAct ==
  ASSUME NEW machine \in Fsm
  PROVE  /\ ActingEvents(machine) \in Seq(EventName)
         /\ \A k \in DOMAIN machine.transitions :
              \E a \in DOMAIN ActingEvents(machine) :
                ActingEvents(machine)[a] = machine.transitions[k].event
<1> DEFINE ts == machine.transitions
           events == [k \in DOMAIN ts |-> ts[k].event]
           firsts == {k \in DOMAIN ts : \A j \in 1..k - 1 : ts[j].event # ts[k].event}
<1>1. ts \in Seq(Transition)
  BY DEF Fsm
<1>2. ActingEvents(machine) = AtPlaces(events, firsts)
  BY DEF ActingEvents
<1> HIDE DEF ts
<1>3. /\ Len(ts) \in Nat /\ DOMAIN ts = 1..Len(ts)
      /\ \A k \in DOMAIN ts : ts[k].event \in EventName
  <2>1. Len(ts) \in Nat /\ DOMAIN ts = 1..Len(ts) /\ \A k \in DOMAIN ts : ts[k] \in Transition
    BY <1>1
  <2>2. \A t \in Transition : t.event \in EventName
    BY DEF Transition
  <2> QED  BY <2>1, <2>2
<1>4. events \in Seq(EventName) /\ DOMAIN events = DOMAIN ts /\ firsts \in SUBSET DOMAIN events
  BY <1>3
<1>5. AtPlaces(events, firsts) \in Seq(EventName)
      /\ Range(AtPlaces(events, firsts)) = {events[p] : p \in firsts}
  <2> HIDE DEF events, firsts
  <2> QED  BY <1>4, AtPlacesHas
<1>6. ASSUME NEW k \in DOMAIN ts PROVE \E p \in firsts : events[p] = ts[k].event
  <2> DEFINE same == {j \in DOMAIN ts : ts[j].event = ts[k].event}
  <2>1. same \in SUBSET Nat /\ same # {}
    BY <1>3
  <2>2. PICK p \in same : \A j \in same : p <= j
    <3> HIDE DEF same
    <3> QED  BY <2>1, LeastPlace
  <2>3. \A j \in 1..p - 1 : j \in DOMAIN ts /\ j \notin same
    BY <1>3, <2>2
  <2>4. p \in firsts
    BY <2>2, <2>3
  <2> QED  BY <2>2, <2>4
<1>7. \A k \in DOMAIN ts : ts[k].event \in Range(AtPlaces(events, firsts))
  <2> HIDE DEF events, firsts
  <2> QED  BY <1>5, <1>6
<1> QED  BY <1>2, <1>5, <1>7 DEF Range, ts

\* The .tla has the transitions of the state machine, whatever their order.
LEMMA Rendered ==
  ASSUME NEW machine \in Fsm
  PROVE  /\ RenderTla(machine) \in Tla
         /\ RenderCfg(machine) \in Cfg
         /\ Steps(RenderTla(machine)) = Range(machine.transitions)
<1> DEFINE ts == machine.transitions
           acting == ActingEvents(machine)
           places(event) == {k \in DOMAIN ts : ts[k].event = event}
           arms(event) == AtPlaces(ts, places(event))
           actions == [k \in DOMAIN acting |-> [event |-> acting[k], arms |-> arms(acting[k])]]
           spec == RenderTla(machine)
<1>1. /\ spec = [states |-> machine.states, events |-> machine.events, init |-> Head(machine.states),
                 actions |-> actions,
                 terminal |-> Range(machine.states) \ {t.source : t \in Range(ts)}]
  BY DEF RenderTla
<1>2. /\ ts \in Seq(Transition) /\ machine.events \in Seq(Event)
      /\ machine.states \in Seq(State) /\ machine.states # <<>>
  BY DEF Fsm
<1> HIDE DEF ts, spec
<1>3. /\ acting \in Seq(EventName)
      /\ \A k \in DOMAIN ts : \E a \in DOMAIN acting : acting[a] = ts[k].event
  BY EventsAct DEF ts
<1> HIDE DEF acting
<1>4. \A event : /\ arms(event) \in Seq(Transition)
                 /\ Range(arms(event)) = {ts[k] : k \in places(event)}
  <2> SUFFICES ASSUME NEW event
               PROVE  /\ arms(event) \in Seq(Transition)
                      /\ Range(arms(event)) = {ts[k] : k \in places(event)}
    OBVIOUS
  <2>1. places(event) \in SUBSET DOMAIN ts
    OBVIOUS
  <2> HIDE DEF places
  <2> QED  BY <1>2, <2>1, AtPlacesHas
<1> HIDE DEF arms
<1>5. actions \in Seq([event : EventName, arms : Seq(Transition)])
  <2>1. Len(acting) \in Nat /\ DOMAIN acting = 1..Len(acting)
    BY <1>3
  <2>2. \A k \in DOMAIN acting : [event |-> acting[k], arms |-> arms(acting[k])]
                                   \in [event : EventName, arms : Seq(Transition)]
    BY <1>3, <1>4
  <2> QED  BY <2>1, <2>2
<1>6. spec \in Tla
  <2>1. Head(machine.states) \in State
    BY <1>2
  <2>2. Range(machine.states) \in SUBSET State
    BY <1>2 DEF Range
  <2> HIDE DEF actions
  <2> QED  BY <1>1, <1>2, <1>5, <2>1, <2>2 DEF Tla
<1>7. RenderCfg(machine) \in Cfg
  BY <1>2 DEF RenderCfg, Cfg
<1>8. \A t : t \in Steps(spec) <=> \E k \in DOMAIN acting : t \in Range(arms(acting[k]))
  <2>1. spec.actions = actions /\ DOMAIN actions = DOMAIN acting
    BY <1>1
  <2>2. \A k \in DOMAIN acting : actions[k].arms = arms(acting[k])
    OBVIOUS
  <2> HIDE DEF actions
  <2>3. \A line : line \in Lines(spec) <=>
          \E k \in DOMAIN acting : \E j \in DOMAIN arms(acting[k]) : line = <<k, j>>
    BY <2>1, <2>2 DEF Lines
  <2>4. \A k \in DOMAIN acting : \A j \in DOMAIN arms(acting[k]) :
          ArmAt(spec, <<k, j>>) = arms(acting[k])[j]
    BY <2>1, <2>2 DEF ArmAt
  <2>5. \A t : t \in Steps(spec) <=>
          \E k \in DOMAIN acting : \E j \in DOMAIN arms(acting[k]) : t = arms(acting[k])[j]
    <3>1. Steps(spec) = {ArmAt(spec, line) : line \in Lines(spec)}
      BY DEF Steps
    <3>2. ASSUME NEW t \in Steps(spec)
          PROVE  \E k \in DOMAIN acting : \E j \in DOMAIN arms(acting[k]) : t = arms(acting[k])[j]
      <4>1. PICK line \in Lines(spec) : t = ArmAt(spec, line)
        BY <3>1, <3>2
      <4> QED  BY <2>3, <2>4, <4>1
    <3>3. ASSUME NEW k \in DOMAIN acting, NEW j \in DOMAIN arms(acting[k])
          PROVE  arms(acting[k])[j] \in Steps(spec)
      <4>1. <<k, j>> \in Lines(spec) /\ ArmAt(spec, <<k, j>>) = arms(acting[k])[j]
        BY <2>3, <2>4
      <4> QED  BY <3>1, <4>1
    <3> QED  BY <3>2, <3>3
  <2> QED  BY <2>5 DEF Range
<1>9. \A t : (\E k \in DOMAIN acting : t \in Range(arms(acting[k]))) <=> t \in Range(ts)
  <2>1. ASSUME NEW t, NEW k \in DOMAIN acting, t \in Range(arms(acting[k]))
        PROVE  t \in Range(ts)
    <3>1. PICK p \in places(acting[k]) : t = ts[p]
      BY <1>4, <2>1
    <3> QED  BY <3>1 DEF Range
  <2>2. ASSUME NEW t \in Range(ts)
        PROVE  \E k \in DOMAIN acting : t \in Range(arms(acting[k]))
    <3>1. PICK p \in DOMAIN ts : t = ts[p]
      BY DEF Range
    <3>2. PICK k \in DOMAIN acting : acting[k] = ts[p].event
      BY <1>3
    <3>3. p \in places(acting[k])
      BY <3>2
    <3> QED  BY <1>4, <3>1, <3>3
  <2> QED  BY <2>1, <2>2
<1>10. Steps(spec) = Range(ts)
  BY <1>8, <1>9
<1> QED  BY <1>6, <1>7, <1>10 DEF spec, ts

\* What is parsed is a state machine.
LEMMA ParsedTyped ==
  ASSUME NEW src \in Source, Parses(src)
  PROVE  ParseFsm(src) \in Fsm
<1>1. src.states \in Seq(State) \ {<<>>} /\ src.events \in Seq(Event)
  BY DEF Source, Parses
<1> QED  BY <1>1, Extracted DEF ParseFsm, Fsm

\* An arm that is kept is taken for the states and the events it names: where its
\* target is a state, it is a step of the source.
LEMMA KeptIsMade ==
  ASSUME NEW src \in Source, CompilesCleanly(src), NEW k \in DOMAIN src.arms,
         src.arms[k].from.name \in State, src.arms[k].says \in State,
         NEW step, step = [source |-> src.arms[k].from.name, event |-> src.arms[k].on.name,
                           target |-> src.arms[k].says]
  PROVE  MayMake(src, step)
<1> DEFINE arm == src.arms[k]
<1>1. arm \in Arm /\ src.states \in Seq(State) /\ src.events \in Seq(Event)
  <2>1. src.arms \in Seq(Arm) /\ src.states \in Seq(State) /\ src.events \in Seq(Event)
    BY DEF Source
  <2> QED  BY <2>1
<1>2. PICK p \in Range(src.states) \X Range(src.events) : k \in MayTake(src, p[1], p[2])
  BY DEF CompilesCleanly
<1> DEFINE s == p[1]
           e == p[2]
<1>3. s \in Range(src.states) /\ e \in Range(src.events) /\ p = <<s, e>>
  BY <1>2
<1>4. s \in State /\ e \in Event
  BY <1>1, <1>3 DEF Range
<1>5. s \in arm.from.matches /\ e \in arm.on.matches
  BY <1>2 DEF MayTake, Matches
<1>6. s = arm.from.name /\ (arm.on.name \in Event => e = arm.on.name)
  BY <1>1, <1>5, ArmTyped
<1>7. arm.yields[<<s, e>>] = {arm.says}
  BY <1>1, <1>4, ArmTyped
<1> HIDE DEF s, e, arm
<1> DEFINE t == [source |-> s, event |-> e, target |-> arm.says]
<1>8. t \in CodeSteps(src)
  <2>1. t \in [source : Range(src.states), event : Range(src.events), target : State]
    BY <1>3 DEF arm
  <2>2. k \in MayTake(src, s, e) /\ arm.says \in src.arms[k].yields[<<s, e>>]
    BY <1>2, <1>7 DEF s, e, arm
  <2> QED  BY <2>1, <2>2 DEF CodeSteps
<1>9. /\ t.source = step.source /\ t.target = step.target
      /\ step.event \in Event => t.event = step.event
  BY <1>6 DEF arm
<1> QED  BY <1>8, <1>9 DEF MayMake

\* An arm read as it is that may be taken is a step of what is extracted.
LEMMA ReadIsKept ==
  ASSUME NEW src \in Source, NEW step \in CodeSteps(src),
         NEW k \in MayTake(src, step.source, step.event),
         step.target \in src.arms[k].yields[<<step.source, step.event>>],
         ReadAsItIs(src.arms[k])
  PROVE  step \in Range(ExtractTransitions(src))
<1> DEFINE arm == src.arms[k]
<1>1. /\ k \in DOMAIN src.arms /\ arm \in Arm
      /\ src.states \in Seq(State) /\ src.events \in Seq(Event)
  <2>1. src.arms \in Seq(Arm) /\ src.states \in Seq(State) /\ src.events \in Seq(Event)
    BY DEF Source
  <2>2. k \in DOMAIN src.arms
    BY DEF MayTake
  <2> QED  BY <2>1, <2>2
<1>2. step \in [source : Range(src.states), event : Range(src.events), target : State]
  BY DEF CodeSteps
<1>3. step.source \in State /\ step.event \in Event
  BY <1>1, <1>2 DEF Range
<1>4. step.source \in arm.from.matches /\ step.event \in arm.on.matches
  BY DEF MayTake, Matches
<1>5. step.source = arm.from.name /\ step.event = arm.on.name
  BY <1>1, <1>4, ArmTyped DEF ReadAsItIs
<1>6. step.target = arm.says
  BY <1>1, <1>3, ArmTyped DEF ReadAsItIs
<1>7. Keeps(arm)
  BY LifecycleAssumption DEF Keeps, ReadAsItIs
<1> HIDE DEF arm
<1>8. step = [source |-> arm.from.name, event |-> arm.on.name, target |-> arm.says]
  BY <1>2, <1>5, <1>6
<1> QED  BY <1>1, <1>7, <1>8, Extracted DEF arm

\* What the rendered pair of a source that compiles cleanly has to do with it.
LEMMA RenderedIsCode ==
  ASSUME NEW src \in Source, Parses(src), CompilesCleanly(src),
         NEW spec, spec = RenderTla(ParseFsm(src))
  PROVE  /\ \A step \in Steps(spec) :
              {step.source, step.target} \subseteq State => MayMake(src, step)
         /\ \A step \in CodeSteps(src) \ Steps(spec) :
              \E k \in MayTake(src, step.source, step.event) :
                /\ step.target \in src.arms[k].yields[<<step.source, step.event>>]
                /\ ~ReadAsItIs(src.arms[k])
         /\ RenderCfg(ParseFsm(src)).states = src.states
         /\ RenderCfg(ParseFsm(src)).events = src.events
<1>1. /\ ParseFsm(src) \in Fsm
      /\ ParseFsm(src).transitions = ExtractTransitions(src)
  BY ParsedTyped DEF ParseFsm
<1>2. Steps(spec) = Range(ExtractTransitions(src))
  BY <1>1, Rendered
<1>3. ASSUME NEW step \in Steps(spec), {step.source, step.target} \subseteq State
      PROVE  MayMake(src, step)
  <2>1. PICK k \in DOMAIN src.arms :
          step = [source |-> src.arms[k].from.name, event |-> src.arms[k].on.name,
                  target |-> src.arms[k].says]
    BY <1>2, Extracted
  <2>2. src.arms[k].from.name \in State /\ src.arms[k].says \in State
    BY <1>3, <2>1
  <2> QED  BY <2>1, <2>2, KeptIsMade
<1>4. ASSUME NEW step \in CodeSteps(src) \ Steps(spec)
      PROVE  \E k \in MayTake(src, step.source, step.event) :
               /\ step.target \in src.arms[k].yields[<<step.source, step.event>>]
               /\ ~ReadAsItIs(src.arms[k])
  <2>1. PICK k \in MayTake(src, step.source, step.event) :
          step.target \in src.arms[k].yields[<<step.source, step.event>>]
    BY DEF CodeSteps
  <2> QED  BY <1>2, <1>4, <2>1, ReadIsKept
<1>5. /\ RenderCfg(ParseFsm(src)).states = src.states
      /\ RenderCfg(ParseFsm(src)).events = src.events
  BY DEF RenderCfg, ParseFsm
<1> QED  BY <1>3, <1>4, <1>5

-----------------------------------------------------------------------------
(* What is written of a tree.                                              *)

\* Finitely many naturals, if there are any, have a greatest one.
LEMMA GreatestPlace ==
  ASSUME NEW S \in SUBSET Nat, IsFiniteSet(S), S # {}
  PROVE  \E n \in S : \A m \in S : m <= n
<1> DEFINE n == Cardinality(S)
           Earlier(p) == {q \in S : q < p}
<1>1. n \in Nat /\ n # 0
  BY FS_CardinalityType, FS_EmptySet
<1>2. n \in 1..n
  BY <1>1
<1>3. PICK p \in S : Cardinality(Earlier(p)) = n - 1
  <2>1. \A k \in 1..n : \E p \in S : Cardinality(Earlier(p)) = k - 1
    BY PlacesCounted
  <2> HIDE DEF n, Earlier
  <2> QED  BY <1>2, <2>1
<1>4. IsFiniteSet(S \ {p}) /\ Cardinality(S \ {p}) = n - 1
  BY <1>3, FS_RemoveElement
<1>5. Earlier(p) \in SUBSET (S \ {p})
  OBVIOUS
<1> HIDE DEF n
<1>6. Earlier(p) = S \ {p}
  <2> HIDE DEF Earlier
  <2> QED  BY <1>3, <1>4, <1>5, FS_Subset
<1>7. \A m \in S : m \in Nat /\ p \in Nat /\ (m < p \/ m = p)
  BY <1>6
<1> QED  BY <1>7

\* A sequence has finitely many entries.
LEMMA EntriesAreFinite ==
  ASSUME NEW T, NEW seq \in Seq(T)
  PROVE  IsFiniteSet(DOMAIN seq) /\ IsFiniteSet(Range(seq))
<1>1. IsFiniteSet(DOMAIN seq)
  <2>1. Len(seq) \in Nat /\ DOMAIN seq = 1..Len(seq)
    OBVIOUS
  <2> QED  BY <2>1, FS_Interval
<1>2. seq \in Surjection(DOMAIN seq, Range(seq))
  BY DEF Surjection, Range
<1> QED  BY <1>1, <1>2, FS_Surjection

\* A walk comes to an end.
LEMMA WalkIsFinite ==
  ASSUME NEW files \in Seq(Seq(Line))
  PROVE  IsFiniteSet(Titles(files))
<1> DEFINE lines == [f \in DOMAIN files |-> {f} \X DOMAIN files[f]]
<1>1. \A f \in DOMAIN files : IsFiniteSet(lines[f])
  <2> SUFFICES ASSUME NEW f \in DOMAIN files PROVE IsFiniteSet({f} \X DOMAIN files[f])
    OBVIOUS
  <2>1. files[f] \in Seq(Line)
    OBVIOUS
  <2>2. IsFiniteSet(DOMAIN files[f])
    BY <2>1, EntriesAreFinite
  <2>3. IsFiniteSet({f})
    BY FS_Singleton
  <2> QED  BY <2>2, <2>3, FS_Product
<1>2. IsFiniteSet(DOMAIN files)
  BY EntriesAreFinite
<1>3. lines \in Surjection(DOMAIN files, Range(lines))
  BY DEF Surjection, Range
<1>4. Places(files) = UNION Range(lines)
  BY DEF Places, Range
<1> HIDE DEF lines
<1>5. IsFiniteSet(Range(lines))
  BY <1>2, <1>3, FS_Surjection
<1>6. \A T \in Range(lines) : IsFiniteSet(T)
  <2> SUFFICES ASSUME NEW T \in Range(lines) PROVE IsFiniteSet(T)
    OBVIOUS
  <2>1. PICK f \in DOMAIN lines : T = lines[f]
    BY DEF Range
  <2>2. DOMAIN lines = DOMAIN files
    BY DEF lines
  <2> QED  BY <1>1, <2>1, <2>2
<1>7. IsFiniteSet(Places(files))
  BY <1>4, <1>5, <1>6, FS_UNION
<1>8. Titles(files) \in SUBSET Places(files)
  BY DEF Titles
<1> QED  BY <1>7, <1>8, FS_Subset

\* The documents of a tree are sequences, there or not.
LEMMA FilesTyped ==
  ASSUME NEW t \in Tree
  PROVE  /\ Files(t.reqs) \in Seq(ReqFrontmatter)
         /\ Files(t.features) \in Seq(Seq(Line))
<1>1. /\ t.reqs \in Seq(ReqFrontmatter) \cup {Nothing}
      /\ t.features \in Seq(Seq(Line)) \cup {Nothing}
  BY DEF Tree
<1>2. <<>> \in Seq(ReqFrontmatter) /\ <<>> \in Seq(Seq(Line))
  OBVIOUS
<1> QED  BY <1>1, <1>2 DEF Files

\* The counts are numbers.
LEMMA CountsTyped ==
  ASSUME NEW t \in Tree
  PROVE  Counts(t) \in Nat \X Nat \X Nat
<1> DEFINE reqs == Files(t.reqs)
           files == Files(t.features)
           ids == [k \in DOMAIN reqs |-> reqs[k].id]
           counted == {req.id : req \in ReqFiles(t)} \cup {0}
<1>1. reqs \in Seq(ReqFrontmatter) /\ files \in Seq(Seq(Line))
  BY FilesTyped
<1>2. counted = Range(ids) \cup {0}
  BY DEF ReqFiles, Range
<1>3. Counts(t) = <<Cardinality(Titles(files)), Len(files), Max(counted)>>
  BY DEF Counts
<1> HIDE DEF reqs, files, counted
<1>4. \A k \in DOMAIN reqs : reqs[k].id \in Nat
  <2>1. \A k \in DOMAIN reqs : reqs[k] \in ReqFrontmatter
    BY <1>1
  <2> QED  BY <2>1, RequirementsAssumption DEF ReqFrontmatter
<1>5. counted \in SUBSET Nat /\ counted # {} /\ IsFiniteSet(counted)
  <2>1. IsFiniteSet(DOMAIN reqs)
    BY <1>1, EntriesAreFinite
  <2>2. ids \in Surjection(DOMAIN reqs, Range(ids))
    BY DEF Surjection, Range
  <2>3. IsFiniteSet(Range(ids))
    BY <2>1, <2>2, FS_Surjection
  <2>4. IsFiniteSet(Range(ids) \cup {0})
    BY <2>3, FS_AddElement
  <2>5. Range(ids) \subseteq Nat
    BY <1>4 DEF Range
  <2> QED  BY <1>2, <2>4, <2>5
<1>6. Max(counted) \in Nat
  <2>1. \E n \in counted : \A m \in counted : m <= n
    BY <1>5, GreatestPlace
  <2> QED  BY <1>5, <2>1 DEF Max
<1>7. Cardinality(Titles(files)) \in Nat
  BY <1>1, WalkIsFinite, FS_CardinalityType
<1>8. Len(files) \in Nat
  BY <1>1
<1> QED  BY <1>3, <1>6, <1>7, <1>8

\* The lock records criteria of requirements.
LEMMA LockTyped ==
  ASSUME NEW t \in Tree, ~NothingToTrace(t)
  PROVE  Snapshot(t) \in Lock
<1>1. t.reqs \in Seq(ReqFrontmatter) /\ ReqFiles(t) = Range(t.reqs)
  BY DEF NothingToTrace, Tree, ReqFiles, Files
<1>2. ASSUME NEW id \in DOMAIN Reqs(t)
      PROVE  id \in ReqId /\ Reqs(t)[id].acceptance \in Seq(Criterion)
  <2> DEFINE ks == {k \in DOMAIN t.reqs : t.reqs[k].id = id}
  <2>1. /\ DOMAIN Reqs(t) = {req.id : req \in ReqFiles(t)}
        /\ Reqs(t)[id] = t.reqs[Max(ks)]
    BY <1>2 DEF Reqs
  <2>2. PICK k \in DOMAIN t.reqs : t.reqs[k].id = id
    BY <1>1, <2>1 DEF Range
  <2>3. \A j \in DOMAIN t.reqs : j \in Nat /\ t.reqs[j] \in ReqFrontmatter
    BY <1>1
  <2>4. ks \in SUBSET Nat /\ ks # {} /\ ks \in SUBSET DOMAIN t.reqs
    BY <2>2, <2>3
  <2>5. IsFiniteSet(DOMAIN t.reqs)
    BY <1>1, EntriesAreFinite
  <2> HIDE DEF ks
  <2>6. IsFiniteSet(ks)
    BY <2>4, <2>5, FS_Subset
  <2>7. \E n \in ks : \A m \in ks : m <= n
    BY <2>4, <2>6, GreatestPlace
  <2>8. Max(ks) \in DOMAIN t.reqs
    BY <2>4, <2>7 DEF Max
  <2>9. Reqs(t)[id] \in ReqFrontmatter
    BY <2>1, <2>3, <2>8
  <2> QED  BY <2>2, <2>3, <2>9 DEF ReqFrontmatter
<1>3. Snapshot(t) \subseteq ReqId \X Seq(Criterion)
  BY <1>2 DEF Snapshot
<1> QED  BY <1>3 DEF Lock

\* What init lays over a sequence of files is one again.
LEMMA FirstReplaced ==
  ASSUME NEW T, NEW s \in Seq(T), s # <<>>, NEW old \in Seq(T)
  PROVE  <<s[1]>> \o SubSeq(old, 2, Len(old)) \in Seq(T)
<1>1. s[1] \in T
  BY EmptySeq
<1>2. <<s[1]>> \in Seq(T)
  BY <1>1
<1>3. SubSeq(old, 2, Len(old)) \in Seq(T)
  <2>1. Len(old) \in Nat /\ \A k \in 2..Len(old) : old[k] \in T
    OBVIOUS
  <2> QED  BY <2>1, SubSeqProperties
<1> QED  BY <1>2, <1>3, ConcatProperties

\* A tree that init has written over is a tree.
LEMMA OverTyped ==
  ASSUME NEW t \in Tree
  PROVE  Over(t) \in Tree
<1> DEFINE reqs == <<Scaffold.reqs[1]>> \o SubSeq(Files(t.reqs), 2, Len(Files(t.reqs)))
           features == <<Scaffold.features[1]>>
                         \o SubSeq(Files(t.features), 2, Len(Files(t.features)))
           config == Scaffold.config
           adr == Scaffold.adr
           files == t.files \cup Scaffold.files
           defined == t.defined \cup Scaffold.defined
           readme == Scaffold.readme
<1>1. Scaffold \in Tree
  BY DhxAssumption
<1>2. /\ Scaffold.reqs \in Seq(ReqFrontmatter) /\ Scaffold.reqs # <<>>
      /\ Scaffold.features \in Seq(Seq(Line)) /\ Scaffold.features # <<>>
  BY <1>1, ScaffoldAssumption DEF Tree
<1>3. reqs \in Seq(ReqFrontmatter) /\ features \in Seq(Seq(Line))
  BY <1>2, FilesTyped, FirstReplaced
<1>4. Over(t) = [t EXCEPT !.config = config, !.reqs = reqs, !.features = features,
                          !.adr = adr, !.files = files, !.defined = defined,
                !.readme = readme]
  BY DEF Over
<1>5. /\ config \in Config \cup {Nothing} /\ readme \in Readme \cup {Nothing}
      /\ adr \in (SUBSET ReqId) \cup {Nothing}
      /\ files \in SUBSET File /\ defined \in SUBSET Definition
  BY <1>1 DEF Tree
<1> HIDE DEF reqs, features, config, adr, files, defined, readme
<1>6. [t EXCEPT !.config = config, !.reqs = reqs, !.features = features,
                !.adr = adr, !.files = files, !.defined = defined,
                !.readme = readme] \in Tree
  BY <1>3, <1>5, ZenonT(60) DEF Tree
<1> QED  BY <1>4, <1>6

\* A tree of which one document is written is a tree.
LEMMA WrittenTyped ==
  ASSUME NEW t \in Tree
  PROVE  /\ \A v \in Tla : [t EXCEPT !.tla = v] \in Tree
         /\ \A v \in Cfg : [t EXCEPT !.cfg = v] \in Tree
         /\ \A v \in Lock : [t EXCEPT !.lock = v] \in Tree
         /\ t.readme # Nothing =>
              \A v \in Nat \X Nat \X Nat : [t EXCEPT !.readme.counts = v] \in Tree
<1>1. \A v \in Tla : [t EXCEPT !.tla = v] \in Tree
  BY DEF Tree
<1>2. \A v \in Cfg : [t EXCEPT !.cfg = v] \in Tree
  BY DEF Tree
<1>3. \A v \in Lock : [t EXCEPT !.lock = v] \in Tree
  BY DEF Tree
<1>4. ASSUME t.readme # Nothing, NEW v \in Nat \X Nat \X Nat
      PROVE  [t EXCEPT !.readme.counts = v] \in Tree
  <2>1. t.readme \in Readme
    BY <1>4 DEF Tree
  <2>2. [t.readme EXCEPT !.counts = v] \in Readme
    BY <2>1 DEF Readme
  <2>3. [t EXCEPT !.readme = [t.readme EXCEPT !.counts = v]] \in Tree
    BY <2>2 DEF Tree
  <2> QED  BY <2>3
<1> QED  BY <1>1, <1>2, <1>3, <1>4

-----------------------------------------------------------------------------
(* Types.                                                                  *)

\* The steps of every command are counted from 1.
LEMMA StepsAreCounted ==
  ASSUME NEW c \in Commands
  PROVE  Len(Program(c)) \in Nat /\ DOMAIN Program(c) = 1..Len(Program(c))
<1>1. CASE c \in Tiers
  BY <1>1, GatesAreCounted
<1>2. CASE c \in Writers
  <2> DEFINE Names == {"parse", "write tla", "write cfg", "write counts", "write lock",
                       "materialize", "load"}
  <2>1. /\ Regen \in Seq(Names)
        /\ <<"write counts">> \in Seq(Names) /\ <<"write lock">> \in Seq(Names)
        /\ <<"write counts", "write lock">> \in Seq(Names)
        /\ <<"materialize", "load">> \in Seq(Names)
    BY DEF Regen
  <2> HIDE DEF Names
  <2>2. <<"materialize", "load">> \o Regen \o <<"write counts", "write lock">> \in Seq(Names)
    BY <2>1, ConcatProperties
  <2>3. Program(c) \in Seq(Names)
    BY <1>2, <2>1, <2>2, TiersApart DEF Program, Writers, Inits
  <2> QED  BY <2>3
<1>3. CASE c = "migrate"
  <2>1. Program(c) = <<>>
    BY <1>3 DEF Program, Tiers, Inits
  <2> QED  BY <2>1
<1> QED  BY <1>1, <1>2, <1>3 DEF Commands

\* A step that is there is taken, and the command goes on or ends.
LEMMA StepTyped ==
  ASSUME TypeOK, VerdictInv, at \in DOMAIN Program(cmd),
         tree' \in Tree, loaded' \in Config \cup {Nothing}, fsm' \in Fsm \cup {Nothing},
         failed' \subseteq UNION {Range(Gates[c]) : c \in Tiers},
         Advance \/ End("Ok") \/ End("Err")
  PROVE  TypeOK'
<1>1. at \in Nat /\ cmd \in Commands /\ at > 0 /\ verdict = "None"
  BY StepsAreCounted DEF TypeOK, VerdictInv
<1>2. Len(Program(cmd)) \in Nat /\ at \in 1..Len(Program(cmd))
  BY <1>1, StepsAreCounted
<1>3. at' \in 0..Len(Program(cmd)) + 1
  BY <1>1, <1>2 DEF Advance, End
<1>4. cmd' = cmd /\ touched' = touched /\ edits' = edits
  BY DEF Advance, End
<1>5. verdict' \in {"None", "Ok", "Err"} /\ (verdict' # "None" => at' = 0)
  BY <1>1 DEF Advance, End
<1> QED  BY <1>3, <1>4, <1>5 DEF TypeOK, Ended

\* What a writer leaves is a tree, what it loads a configuration, what it parses
\* a state machine.
LEMMA WritesTyped ==
  ASSUME TypeOK,
         \/ Parse \/ WriteTla \/ WriteCfg \/ WriteDocsCounts
         \/ WriteTraceability \/ Materialize \/ LoadFrom
  PROVE  /\ tree' \in Tree /\ loaded' \in Config \cup {Nothing} /\ fsm' \in Fsm \cup {Nothing}
         /\ at \in DOMAIN Program(cmd) /\ failed' = failed /\ (Advance \/ End("Err"))
<1>1. /\ tree \in Tree /\ loaded \in Config \cup {Nothing} /\ fsm \in Fsm \cup {Nothing}
      /\ tree.config \in Config \cup {Nothing} /\ tree.source \in Source \cup {None}
  BY DEF TypeOK, Tree
<1>2. CASE Parse
  <2>1. fsm' \in Fsm \cup {Nothing}
    BY <1>1, <1>2, ParsedTyped DEF Parse
  <2> QED  BY <1>1, <1>2, <2>1 DEF Parse, NextIs
<1>3. CASE WriteTla
  <2>1. tree' \in Tree
    BY <1>1, <1>3, Rendered, WrittenTyped DEF WriteTla
  <2> QED  BY <1>1, <1>3, <2>1 DEF WriteTla, NextIs
<1>4. CASE WriteCfg
  <2>1. tree' \in Tree
    BY <1>1, <1>4, Rendered, WrittenTyped DEF WriteCfg
  <2> QED  BY <1>1, <1>4, <2>1 DEF WriteCfg, NextIs
<1>5. CASE WriteDocsCounts
  <2>1. tree' \in Tree
    BY <1>1, <1>5, CountsTyped, WrittenTyped DEF WriteDocsCounts
  <2> QED  BY <1>1, <1>5, <2>1 DEF WriteDocsCounts, NextIs
<1>6. CASE WriteTraceability
  <2>1. tree' \in Tree
    BY <1>1, <1>6, LockTyped, WrittenTyped DEF WriteTraceability
  <2> QED  BY <1>1, <1>6, <2>1 DEF WriteTraceability, NextIs
<1>7. CASE Materialize
  <2>1. tree' \in Tree
    BY <1>1, <1>7, OverTyped DEF Materialize
  <2> QED  BY <1>1, <1>7, <2>1 DEF Materialize, NextIs
<1>8. CASE LoadFrom
  BY <1>1, <1>8 DEF LoadFrom, NextIs
<1> QED  BY <1>2, <1>3, <1>4, <1>5, <1>6, <1>7, <1>8

\* Every step keeps the types.
LEMMA NextDhxTyped == TypeOK /\ VerdictInv /\ [Next]_vars => TypeOK'
<1> SUFFICES ASSUME TypeOK, VerdictInv, [Next]_vars PROVE TypeOK'
  OBVIOUS
<1>1. /\ cmd \in Commands /\ failed \subseteq UNION {Range(Gates[c]) : c \in Tiers}
      /\ tree \in Tree /\ loaded \in Config \cup {Nothing} /\ fsm \in Fsm \cup {Nothing}
      /\ tree.config \in Config \cup {Nothing}
  BY DEF TypeOK, Tree
<1>2. ASSUME NEW c \in Commands, NEW in_container \in BOOLEAN, Start(c, in_container)
      PROVE  TypeOK'
  <2>1. at' \in 0..1 /\ (verdict' # "None" => at' = 0) /\ verdict' \in {"None", "Err"}
    BY <1>2 DEF Start
  <2>2. Len(Program(c)) \in Nat
    BY StepsAreCounted
  <2>3. at' \in 0..Len(Program(c)) + 1
    BY <2>1, <2>2
  <2> QED  BY <1>1, <1>2, <2>1, <2>3 DEF Start, TypeOK, Ended
<1>3. CASE RunGate
  <2> DEFINE g == Gates[cmd][at]
  <2>1. /\ at \in DOMAIN Gates[cmd] /\ cmd \in Tiers
        /\ failed' \subseteq failed \cup {g}
        /\ Advance \/ End("Err")
        /\ UNCHANGED <<tree, loaded, fsm>>
    BY <1>3 DEF RunGate
  <2>2. g \in Range(Gates[cmd])
    BY <2>1 DEF Range
  <2>3. failed' \subseteq UNION {Range(Gates[c]) : c \in Tiers}
    BY <1>1, <2>1, <2>2
  <2> QED  BY <1>1, <2>1, <2>3, GatesAreCounted, StepTyped
<1>4. CASE \/ Parse \/ WriteTla \/ WriteCfg \/ WriteDocsCounts
           \/ WriteTraceability \/ Materialize \/ LoadFrom
  BY <1>1, <1>4, WritesTyped, StepTyped
<1>5. CASE Finish \/ Interrupt
  <2>1. /\ at' = 0 /\ verdict' \in {"None", "Ok", "Err"}
        /\ UNCHANGED <<cmd, touched, edits, failed, tree, loaded, fsm>>
    BY <1>5 DEF Finish, Interrupt, End
  <2>2. at' \in 0..Len(Program(cmd)) + 1
    BY <1>1, <2>1, StepsAreCounted
  <2> QED  BY <2>1, <2>2 DEF TypeOK, Ended
<1>6. CASE Edit
  <2>1. edits' \in 0..MaxEdits
    BY <1>6, DhxAssumption DEF Edit, TypeOK
  <2> QED  BY <1>6, <2>1 DEF Edit, TypeOK, Ended
<1>7. CASE UNCHANGED vars
  BY <1>7 DEF vars, TypeOK, Ended
<1> QED  BY <1>2, <1>3, <1>4, <1>5, <1>6, <1>7 DEF Next, Work

\* No command runs past its last step, none has a verdict before it has ended, and
\* what it leaves is a tree, however often it is interrupted and the tree edited.
THEOREM DhxTyped == Spec => []TypeOK
<1>1. Init => TypeOK
  <2> SUFFICES ASSUME Init PROVE TypeOK
    OBVIOUS
  <2>1. cmd \in Commands /\ cmd = "migrate" /\ at = 0
    BY DEF Init, Commands
  <2>2. at \in 0..Len(Program(cmd)) + 1
    BY <2>1, StepsAreCounted
  <2>3. edits \in 0..MaxEdits
    BY DhxAssumption DEF Init
  <2>4. failed = {} /\ verdict = "None" /\ touched = FALSE
        /\ loaded = Nothing /\ fsm = Nothing
    BY DEF Init
  <2>5. tree \in Tree
    BY DhxAssumption DEF Init
  <2> QED  BY <2>1, <2>2, <2>3, <2>4, <2>5 DEF TypeOK
<1> QED  BY <1>1, InitVerdict, NextVerdict, NextDhxTyped, PTL DEF Spec

-----------------------------------------------------------------------------
(* The two gates of mutations.toml.                                        *)

\* What is in one of two sequences is in their concatenation.
LEMMA InConcat ==
  ASSUME NEW S, NEW s \in Seq(S), NEW t \in Seq(S)
  PROVE  s \o t \in Seq(S) /\ Range(s) \subseteq Range(s \o t) /\ Range(t) \subseteq Range(s \o t)
<1>1. /\ s \o t \in Seq(S) /\ Len(s \o t) = Len(s) + Len(t)
      /\ \A k \in 1..Len(s) + Len(t) : (s \o t)[k] = IF k <= Len(s) THEN s[k] ELSE t[k - Len(s)]
  BY ConcatProperties
<1>2. Len(s) \in Nat /\ Len(t) \in Nat /\ DOMAIN s = 1..Len(s) /\ DOMAIN t = 1..Len(t)
      /\ DOMAIN (s \o t) = 1..Len(s) + Len(t)
  BY <1>1
<1>3. ASSUME NEW k \in DOMAIN s PROVE s[k] \in Range(s \o t)
  <2>1. k \in DOMAIN (s \o t) /\ (s \o t)[k] = s[k]
    BY <1>1, <1>2
  <2> QED  BY <2>1 DEF Range
<1>4. ASSUME NEW k \in DOMAIN t PROVE t[k] \in Range(s \o t)
  <2>1. Len(s) + k \in DOMAIN (s \o t) /\ (s \o t)[Len(s) + k] = t[k]
    BY <1>1, <1>2
  <2> QED  BY <2>1 DEF Range
<1> QED  BY <1>1, <1>3, <1>4 DEF Range

ModelGates == <<"tlc", "tlc --mutate", "test", "cov", "kani-codegen", "kani", "dst 0">>
DeepGates == <<"outdated", "geiger", "mutants", "tsan", "loom">>
SeedGates == <<"dst 1", "dst 42", "dst 1337", "dst random", "fuzz">>

\* The parts `verify` is put together from.
LEMMA VerifyParts ==
  /\ MetaGates \in Seq(GateNames) /\ StaticGates \in Seq(GateNames)
  /\ ModelGates \in Seq(GateNames) /\ DeepGates \in Seq(GateNames)
  /\ SeedGates \in Seq(GateNames)
  /\ "mutation-coverage" \in Range(MetaGates)
  /\ "tlc --mutate" \in Range(ModelGates)
<1>1. MetaGates \in Seq(GateNames)
  BY DEF MetaGates, CheapNames, GateNames
<1>2. StaticGates \in Seq(GateNames)
  BY DEF StaticGates, CheapNames, GateNames
<1>3. ModelGates \in Seq(GateNames)
  BY DEF ModelGates, CheapNames, GateNames
<1>4. DeepGates \in Seq(GateNames)
  BY DEF DeepGates, CheapNames, GateNames
<1>5. SeedGates \in Seq(GateNames)
  BY DEF SeedGates, CheapNames, GateNames
<1>6. "mutation-coverage" \in Range(MetaGates)
  <2>1. 7 \in DOMAIN MetaGates /\ MetaGates[7] = "mutation-coverage"
    BY DEF MetaGates
  <2> QED  BY <2>1 DEF Range
<1>7. "tlc --mutate" \in Range(ModelGates)
  <2>1. 2 \in DOMAIN ModelGates /\ ModelGates[2] = "tlc --mutate"
    BY DEF ModelGates
  <2> QED  BY <2>1 DEF Range
<1> QED  BY <1>1, <1>2, <1>3, <1>4, <1>5, <1>6, <1>7

\* Both run in `verify`, and neither draws entropy.
LEMMA VerifyMutates ==
  ASSUME NEW c \in {"verify --quick", "verify --full"}
  PROVE  /\ c \in Tiers
         /\ {"mutation-coverage", "tlc --mutate"} \subseteq Range(Gates[c]) \ Discovery
<1>4. /\ QuickGates \in Seq(GateNames)
      /\ {"mutation-coverage", "tlc --mutate"} \subseteq Range(QuickGates)
  <2> DEFINE head == MetaGates \o StaticGates
  <2>1. head \in Seq(GateNames) /\ Range(MetaGates) \subseteq Range(head)
    BY VerifyParts, InConcat
  <2>2. QuickGates = head \o ModelGates
    BY DEF QuickGates, ModelGates
  <2> HIDE DEF head
  <2> QED  BY <2>1, <2>2, VerifyParts, InConcat
<1>5. Range(QuickGates) \subseteq Range(FullGates)
  <2> DEFINE head == QuickGates \o DeepGates
  <2>1. head \in Seq(GateNames) /\ Range(QuickGates) \subseteq Range(head)
    BY <1>4, VerifyParts, InConcat
  <2>2. FullGates = head \o SeedGates
    BY DEF FullGates, DeepGates, SeedGates
  <2> HIDE DEF head
  <2> QED  BY <2>1, <2>2, VerifyParts, InConcat
<1>6. c \in Tiers /\ Gates[c] \in {QuickGates, FullGates}
  BY DEF Tiers, Gates
<1>7. {"mutation-coverage", "tlc --mutate"} \subseteq Range(Gates[c])
  BY <1>4, <1>5, <1>6
<1> QED  BY <1>6, <1>7 DEF Discovery

\* An entry for every invariant and a run of every entry make none vacuous.
LEMMA CoveredAndRun ==
  ASSUME NEW t,
         CheckMutationCoverage(t.table, t.cfg, t.manual), TlcMutate(t.table, t.tla),
         NEW declared \in DeclaredCfgInvariants(t.cfg, t.manual) \ t.table.exempt
  PROVE  \E m \in t.table.mutations : /\ <<m.spec, m.expect>> = declared
                                      /\ Found(m.edit, t.tla) = 1
                                      /\ Says(m.edit, t.tla).fails
                                      /\ declared[2] \in Says(m.edit, t.tla).names
<1>1. declared \in {<<m.spec, m.expect>> : m \in t.table.mutations}
  BY DEF CheckMutationCoverage
<1>2. PICK m \in t.table.mutations : declared = <<m.spec, m.expect>>
  BY <1>1
<1>3. /\ Found(m.edit, t.tla) = 1 /\ Says(m.edit, t.tla).fails
      /\ m.expect \in Says(m.edit, t.tla).names
  BY DEF TlcMutate, RunsOneMutation
<1> QED  BY <1>2, <1>3

\* What the first of the two gates asks.
LEMMA GateIsMutationCoverage ==
  ASSUME NEW config, NEW t, Holds("mutation-coverage", config, t)
  PROVE  CheckMutationCoverage(t.table, t.cfg, t.manual)
BY DEF Holds, Seeds, Advisory

\* What the second asks.
LEMMA GateIsTlcMutate ==
  ASSUME NEW config, NEW t, Holds("tlc --mutate", config, t)
  PROVE  TlcMutate(t.table, t.tla)
BY DEF Holds, Seeds, Advisory

\* A green `verify` has tried each declared invariant that is not exempted: the gate
\* that asks for the entry and the one that runs it saw the same tree.
THEOREM EachInvariantIsTried == Spec => []InvariantsAreTried
<1>1. VerdictIsExact => InvariantsAreTried
  <2> SUFFICES ASSUME VerdictIsExact, FinishedOk({"verify --quick", "verify --full"}),
                      NEW declared \in NotExempt
               PROVE  \E m \in Entries(declared) :
                        /\ Says(m.edit, tree.tla).fails
                        /\ declared[2] \in Says(m.edit, tree.tla).names
    BY DEF InvariantsAreTried
  <2>1. cmd \in {"verify --quick", "verify --full"} /\ FinishedOk({cmd})
    BY DEF FinishedOk
  <2>2. \A g \in {"mutation-coverage", "tlc --mutate"} : Holds(g, tree.config, tree)
    BY <2>1, VerifyMutates DEF VerdictIsExact
  <2>3. CheckMutationCoverage(tree.table, tree.cfg, tree.manual)
    BY <2>2, GateIsMutationCoverage
  <2>4. TlcMutate(tree.table, tree.tla)
    BY <2>2, GateIsTlcMutate
  <2>5. declared \in DeclaredCfgInvariants(tree.cfg, tree.manual) \ tree.table.exempt
    BY DEF NotExempt
  <2> QED  BY <2>3, <2>4, <2>5, CoveredAndRun DEF Entries
<1> QED  BY <1>1, VerdictsAreExact, PTL

-----------------------------------------------------------------------------
(* The pass over a feature file.                                           *)

\* Each line is read with what the lines before it left.
LEMMA PassStep ==
  ASSUME NEW file, Len(file) \in Nat
  PROVE  /\ Pass(file)[0] = StartOfFile
         /\ \A k \in 1..Len(file) : Pass(file)[k] = LintLine(Pass(file)[k - 1], file[k])
<1> DEFINE Good(g, n) ==
             g = [k \in 0..n |-> IF k = 0 THEN StartOfFile ELSE LintLine(g[k - 1], file[k])]
<1>1. \A n \in Nat : \E g : Good(g, n)
  <2> DEFINE Bad == {n \in Nat : ~\E g : Good(g, n)}
  <2> SUFFICES ASSUME Bad # {} PROVE FALSE
    OBVIOUS
  <2>1. PICK n \in Bad : \A m \in Bad : n <= m
    <3>1. Bad \in SUBSET Nat
      OBVIOUS
    <3> HIDE DEF Bad
    <3> QED  BY <3>1, LeastPlace
  <2>2. n \in Nat /\ ~\E g : Good(g, n)
    BY <2>1
  <2>3. CASE n = 0
    <3> DEFINE g == [k \in 0..0 |-> StartOfFile]
    <3>1. Good(g, 0)
      OBVIOUS
    <3> QED  BY <2>2, <2>3, <3>1
  <2>4. CASE n # 0
    <3>1. n - 1 \in Nat /\ ~(n <= n - 1)
      BY <2>2, <2>4
    <3>2. PICK g : Good(g, n - 1)
      BY <2>1, <3>1
    <3> DEFINE h == [k \in 0..n |-> IF k = n THEN LintLine(g[n - 1], file[n]) ELSE g[k]]
    <3>3. \A k \in 0..n - 1 : g[k] = IF k = 0 THEN StartOfFile ELSE LintLine(g[k - 1], file[k])
      BY <3>2
    <3>4. ASSUME NEW k \in 0..n
          PROVE  h[k] = IF k = 0 THEN StartOfFile ELSE LintLine(h[k - 1], file[k])
      <4>1. CASE k = n
        <5>1. k - 1 \in 0..n /\ k - 1 # n /\ k # 0
          BY <2>2, <2>4, <4>1
        <5> QED  BY <4>1, <5>1
      <4>2. CASE k = 0
        BY <2>2, <2>4, <3>3, <4>2
      <4>3. CASE k # n /\ k # 0
        <5>1. k - 1 \in 0..n /\ k - 1 # n /\ k \in 0..n - 1
          BY <2>2, <2>4, <4>3
        <5> QED  BY <3>3, <4>3, <5>1
      <4> QED  BY <4>1, <4>2, <4>3
    <3>5. h = [k \in 0..n |-> h[k]]
      OBVIOUS
    <3> HIDE DEF h
    <3>6. Good(h, n)
      BY <3>4, <3>5
    <3> QED  BY <2>2, <3>6
  <2> QED  BY <2>3, <2>4
<1>2. Pass(file) = CHOOSE g : Good(g, Len(file))
  BY DEF Pass
<1> HIDE DEF Good
<1>3. Good(Pass(file), Len(file))
  BY <1>1, <1>2
<1>4. Pass(file) = [k \in 0..Len(file) |->
          IF k = 0 THEN StartOfFile ELSE LintLine(Pass(file)[k - 1], file[k])]
  BY <1>3 DEF Good
<1> HIDE DEF Good
<1> DEFINE p == Pass(file)
<1>5. \A k \in 0..Len(file) : p[k] = IF k = 0 THEN StartOfFile ELSE LintLine(p[k - 1], file[k])
  <2> HIDE DEF p
  <2> QED  BY <1>4 DEF p
<1> HIDE DEF p
<1> QED  BY <1>5 DEF p

Seen == [saw_feature : BOOLEAN, in_scenario : BOOLEAN, has_steps : BOOLEAN,
         last_keyword : Step \cup {""}, clean : BOOLEAN]

\* What one line does to what has been seen.
LEMMA LineSeen ==
  ASSUME NEW a \in Seen, NEW line \in Line
  PROVE  /\ LintLine(a, line) \in Seen
         /\ LintLine(a, line).clean => a.clean
         /\ LintLine(a, line).in_scenario => (a.in_scenario \/ line.kw = "Scenario")
         /\ line.kw \in Step =>
              /\ LintLine(a, line).last_keyword = Effective(line, a.last_keyword)
              /\ LintLine(a, line).clean =>
                   /\ a.in_scenario
                   /\ LintLine(a, line).last_keyword = "Then" => line.shall
<1> DEFINE b == LintLine(a, line)
<1>1. line.kw \in Step \cup {"Feature", "Scenario", "Text"} /\ line.shall \in BOOLEAN
  BY DEF Line
<1>2. CASE line.kw = "Feature"
  <2>1. b = [a EXCEPT !.saw_feature = TRUE] /\ line.kw \notin Step
    BY <1>2 DEF LintLine, Step
  <2> HIDE DEF b
  <2> QED  BY <1>2, <2>1 DEF Seen, b
<1>3. CASE line.kw = "Scenario"
  <2>1. b = [a EXCEPT !.in_scenario = TRUE, !.has_steps = FALSE, !.last_keyword = "",
                      !.clean = @ /\ (a.in_scenario => a.has_steps)]
        /\ line.kw \notin Step
    BY <1>3 DEF LintLine, Step
  <2> HIDE DEF b
  <2>2. b \in Seen /\ (b.clean => a.clean)
    BY <2>1 DEF Seen
  <2> QED  BY <1>3, <2>1, <2>2 DEF b
<1>4. CASE line.kw = "Text"
  <2>1. b = [a EXCEPT !.clean = @ /\ a.saw_feature /\ ~a.in_scenario] /\ line.kw \notin Step
    BY <1>4 DEF LintLine, Step
  <2> HIDE DEF b
  <2> QED  BY <1>4, <2>1 DEF Seen, b
<1>5. CASE line.kw \in Step
  <2> DEFINE kw == Effective(line, a.last_keyword)
  <2>1. b = [a EXCEPT !.has_steps = TRUE, !.last_keyword = kw,
                      !.clean = @ /\ a.in_scenario /\ (kw = "Then" => line.shall)]
        /\ line.kw # "Scenario"
    BY <1>5 DEF LintLine, Step
  <2>2. kw \in Step \cup {""}
    BY <1>5 DEF Effective, Seen
  <2> HIDE DEF b, kw
  <2>3. b \in Seen /\ b.in_scenario = a.in_scenario /\ b.last_keyword = kw
        /\ b.clean = (a.clean /\ a.in_scenario /\ (kw = "Then" => line.shall))
    BY <1>1, <2>1, <2>2 DEF Seen
  <2> QED  BY <1>5, <2>1, <2>3 DEF b, kw
<1> QED  BY <1>1, <1>2, <1>3, <1>4, <1>5

\* After every line, what has been seen is of its type.
LEMMA PassTyped ==
  ASSUME NEW file \in Seq(Line)
  PROVE  /\ Len(file) \in Nat /\ \A k \in 1..Len(file) : file[k] \in Line
         /\ \A k \in 0..Len(file) : Pass(file)[k] \in Seen
<1> DEFINE p == Pass(file)
<1>1. Len(file) \in Nat /\ \A k \in 1..Len(file) : file[k] \in Line
  OBVIOUS
<1>2. p[0] = StartOfFile /\ \A k \in 1..Len(file) : p[k] = LintLine(p[k - 1], file[k])
  BY <1>1, PassStep
<1> HIDE DEF p
<1> DEFINE Bad == {k \in 0..Len(file) : p[k] \notin Seen}
<1>3. ASSUME Bad # {} PROVE FALSE
  <2>1. PICK k \in Bad : \A j \in Bad : k <= j
    <3>1. Bad \in SUBSET Nat
      BY <1>1
    <3> HIDE DEF Bad
    <3> QED  BY <1>3, <3>1, LeastPlace
  <2>2. k \in 0..Len(file) /\ p[k] \notin Seen
    BY <2>1
  <2>3. StartOfFile \in Seen
    BY DEF StartOfFile, Seen, Step
  <2>4. k # 0
    BY <1>2, <2>2, <2>3
  <2>5. k \in 1..Len(file) /\ k - 1 \in 0..Len(file) /\ ~(k <= k - 1)
    BY <1>1, <2>2, <2>4
  <2>6. p[k - 1] \in Seen
    BY <2>1, <2>5
  <2>7. LintLine(p[k - 1], file[k]) \in Seen
    BY <1>1, <2>5, <2>6, LineSeen
  <2> QED  BY <1>2, <2>2, <2>5, <2>7
<1> QED  BY <1>1, <1>3 DEF p

\* A file found clean was clean after every line.
LEMMA CleanSoFar ==
  ASSUME NEW file \in Seq(Line), Pass(file)[Len(file)].clean
  PROVE  \A k \in 0..Len(file) : Pass(file)[k].clean
<1> DEFINE p == Pass(file)
<1>1. /\ Len(file) \in Nat /\ \A k \in 1..Len(file) : file[k] \in Line
      /\ \A k \in 0..Len(file) : p[k] \in Seen
      /\ \A k \in 1..Len(file) : p[k] = LintLine(p[k - 1], file[k])
      /\ p[Len(file)].clean
  BY PassTyped, PassStep
<1> HIDE DEF p
<1> SUFFICES ASSUME NEW from \in 0..Len(file), ~p[from].clean PROVE FALSE
  BY DEF p
<1> DEFINE Bad == {k \in from..Len(file) : p[k].clean}
<1>2. Bad \in SUBSET Nat /\ Bad # {}
  BY <1>1
<1>3. PICK k \in Bad : \A j \in Bad : k <= j
  <2> HIDE DEF Bad
  <2> QED  BY <1>2, LeastPlace
<1>4. k \in from..Len(file) /\ p[k].clean /\ k # from
  BY <1>3
<1>5. k \in 1..Len(file) /\ k - 1 \in from..Len(file) /\ k - 1 \in 0..Len(file) /\ ~(k <= k - 1)
  BY <1>1, <1>4
<1>6. ~p[k - 1].clean
  BY <1>3, <1>5
<1>7. p[k].clean => p[k - 1].clean
  <2>1. p[k - 1] \in Seen /\ file[k] \in Line /\ p[k] = LintLine(p[k - 1], file[k])
    BY <1>1, <1>5
  <2> QED  BY <2>1, LineSeen
<1> QED  BY <1>4, <1>6, <1>7

\* A clean file has no step before its first title.
LEMMA StepHasTitle ==
  ASSUME NEW file \in Seq(Line), LintFeatureFile(file), NEW k \in DOMAIN file,
         file[k].kw \in Step
  PROVE  \E j \in DOMAIN file : j < k /\ file[j].kw = "Scenario"
<1> DEFINE p == Pass(file)
<1>1. /\ Len(file) \in Nat /\ \A j \in 1..Len(file) : file[j] \in Line
      /\ \A j \in 0..Len(file) : p[j] \in Seen
      /\ p[0] = StartOfFile
      /\ \A j \in 1..Len(file) : p[j] = LintLine(p[j - 1], file[j])
  BY PassTyped, PassStep
<1>2. \A j \in 0..Len(file) : p[j].clean
  BY CleanSoFar DEF LintFeatureFile
<1> HIDE DEF p
<1>3. DOMAIN file = 1..Len(file) /\ k \in 1..Len(file) /\ k - 1 \in 0..Len(file)
      /\ k \in 0..Len(file)
  BY <1>1
<1>4. p[k - 1].in_scenario
  <2>1. /\ p[k - 1] \in Seen /\ file[k] \in Line /\ p[k] = LintLine(p[k - 1], file[k])
        /\ p[k].clean
    BY <1>1, <1>2, <1>3
  <2> DEFINE a == p[k - 1]
             line == file[k]
  <2> HIDE DEF a, line
  <2>2. line.kw \in Step /\ LintLine(a, line).clean => a.in_scenario
    BY <2>1, LineSeen DEF a, line
  <2> QED  BY <2>1, <2>2 DEF a, line
<1> DEFINE In == {j \in 0..k - 1 : p[j].in_scenario}
<1>5. PICK j \in In : \A i \in In : j <= i
  <2>1. In \in SUBSET Nat /\ k - 1 \in In
    BY <1>3, <1>4
  <2> HIDE DEF In
  <2> QED  BY <2>1, LeastPlace
<1>6. j \in 0..k - 1 /\ p[j].in_scenario
  BY <1>5
<1>7. j # 0
  <2>1. ~StartOfFile.in_scenario
    BY DEF StartOfFile
  <2> QED  BY <1>1, <1>6, <2>1
<1>8. j \in 1..Len(file) /\ j < k /\ j - 1 \in 0..k - 1 /\ j - 1 \in 0..Len(file) /\ ~(j <= j - 1)
  BY <1>1, <1>3, <1>6, <1>7
<1>9. ~p[j - 1].in_scenario
  BY <1>5, <1>8
<1>10. file[j].kw = "Scenario"
  <2>1. p[j - 1] \in Seen /\ file[j] \in Line /\ p[j] = LintLine(p[j - 1], file[j])
    BY <1>1, <1>8
  <2> DEFINE a == p[j - 1]
             line == file[j]
  <2> HIDE DEF a, line
  <2>2. LintLine(a, line).in_scenario => (a.in_scenario \/ line.kw = "Scenario")
    BY <2>1, LineSeen DEF a, line
  <2> QED  BY <1>6, <1>9, <2>1, <2>2 DEF a, line
<1> QED  BY <1>3, <1>8, <1>10

\* In a clean file a Then, and every And that continues it, says `shall`.
LEMMA OutcomeSaysShall ==
  ASSUME NEW file \in Seq(Line), LintFeatureFile(file), NEW k \in DOMAIN file,
         NEW j \in 1..k, file[j].kw = "Then",
         \A between \in j + 1 .. k : file[between].kw = "And"
  PROVE  file[k].shall
<1> DEFINE p == Pass(file)
<1>1. /\ Len(file) \in Nat /\ \A i \in 1..Len(file) : file[i] \in Line
      /\ \A i \in 0..Len(file) : p[i] \in Seen
      /\ \A i \in 1..Len(file) : p[i] = LintLine(p[i - 1], file[i])
  BY PassTyped, PassStep
<1>2. \A i \in 0..Len(file) : p[i].clean
  BY CleanSoFar DEF LintFeatureFile
<1> HIDE DEF p
<1>3. DOMAIN file = 1..Len(file) /\ k \in 1..Len(file) /\ j \in 1..Len(file)
  BY <1>1
<1>4. ASSUME NEW i \in j..k
      PROVE  i \in 1..Len(file) /\ i - 1 \in 0..Len(file) /\ i \in 0..Len(file)
             /\ (i = j \/ (i - 1 \in j..k /\ i \in j + 1..k))
  BY <1>1, <1>3
<1>5. \A i \in j..k : file[i].kw \in {"Then", "And"} /\ file[i].kw \in Step
  BY <1>4 DEF Step
<1>6. ASSUME NEW i \in j..k
      PROVE  /\ p[i].last_keyword = Effective(file[i], p[i - 1].last_keyword)
             /\ p[i].last_keyword = "Then" => file[i].shall
  <2>1. /\ p[i - 1] \in Seen /\ file[i] \in Line /\ p[i] = LintLine(p[i - 1], file[i])
        /\ p[i].clean /\ file[i].kw \in Step
    BY <1>1, <1>2, <1>4, <1>5, <1>6
  <2> DEFINE a == p[i - 1]
             line == file[i]
  <2> HIDE DEF a, line
  <2>2. a \in Seen /\ line \in Line /\ line.kw \in Step /\ LintLine(a, line).clean
    BY <2>1 DEF a, line
  <2>3. /\ LintLine(a, line).last_keyword = Effective(line, a.last_keyword)
        /\ LintLine(a, line).last_keyword = "Then" => line.shall
    BY <2>2, LineSeen
  <2> QED  BY <2>1, <2>3 DEF a, line
<1> DEFINE Bad == {i \in j..k : p[i].last_keyword # "Then"}
<1>7. ASSUME Bad # {} PROVE FALSE
  <2>1. PICK i \in Bad : \A m \in Bad : i <= m
    <3>1. Bad \in SUBSET Nat
      BY <1>4
    <3> HIDE DEF Bad
    <3> QED  BY <1>7, <3>1, LeastPlace
  <2>2. i \in j..k /\ p[i].last_keyword # "Then" /\ i \in Nat /\ ~(i <= i - 1)
    BY <1>4, <2>1
  <2>3. CASE i = j
    BY <1>6, <2>2, <2>3 DEF Effective
  <2>4. CASE i - 1 \in j..k /\ i \in j + 1..k
    <3>1. file[i].kw = "And" /\ p[i - 1].last_keyword = "Then"
      BY <2>1, <2>2, <2>4
    <3> QED  BY <1>6, <2>2, <3>1 DEF Effective
  <2> QED  BY <1>4, <2>2, <2>3, <2>4
<1>8. k \in j..k
  BY <1>3
<1> QED  BY <1>6, <1>7, <1>8

-----------------------------------------------------------------------------
(* What a scenario asserts.                                                *)

\* A place is that of a file and that of a line in it.
LEMMA PlaceOf ==
  ASSUME NEW files \in Seq(Seq(Line)), NEW p \in Places(files)
  PROVE  /\ p = <<p[1], p[2]>> /\ p[1] \in DOMAIN files /\ p[2] \in DOMAIN files[p[1]]
         /\ p[1] \in Nat /\ p[2] \in Nat
         /\ files[p[1]] \in Seq(Line) /\ files[p[1]] \in Range(files)
<1>1. PICK f \in DOMAIN files : p \in {f} \X DOMAIN files[f]
  BY DEF Places
<1>2. p = <<p[1], p[2]>> /\ p[1] = f /\ p[2] \in DOMAIN files[f]
  BY <1>1
<1>3. files[f] \in Seq(Line) /\ f \in Nat /\ files[f] \in Range(files)
  BY DEF Range
<1>4. Len(files[f]) \in Nat /\ DOMAIN files[f] = 1..Len(files[f])
  BY <1>3
<1> QED  BY <1>2, <1>3, <1>4

\* Files found clean keep the steps of a scenario together: they stand in its file,
\* before the next title there.
LEMMA StepsStayInFile ==
  ASSUME NEW files \in Seq(Seq(Line)), \A file \in Range(files) : LintFeatureFile(file),
         NEW title \in Titles(files), NEW p \in StepsOf(files, title)
  PROVE  /\ p[1] = title[1] /\ p[2] > title[2]
         /\ \A j \in DOMAIN files[title[1]] :
              j > title[2] /\ files[title[1]][j].kw = "Scenario" => p[2] < j
<1>1. /\ title \in Places(files) /\ p \in Places(files) /\ Before(title, p)
      /\ LineAt(files, p).kw \in Step
      /\ \A next \in Titles(files) : Before(title, next) => Before(p, next)
  BY DEF Titles, StepsOf
<1>2. /\ title[1] \in Nat /\ title[2] \in Nat /\ p[1] \in Nat /\ p[2] \in Nat
      /\ p[1] \in DOMAIN files /\ title[1] \in DOMAIN files
      /\ p[2] \in DOMAIN files[p[1]] /\ files[p[1]] \in Seq(Line)
      /\ files[title[1]] \in Seq(Line) /\ files[p[1]] \in Range(files)
  BY <1>1, PlaceOf
<1>3. ASSUME NEW f \in DOMAIN files, NEW j \in DOMAIN files[f], files[f][j].kw = "Scenario"
      PROVE  <<f, j>> \in Titles(files)
  <2>1. <<f, j>> \in Places(files)
    BY DEF Places
  <2> QED  BY <1>3, <2>1 DEF Titles, LineAt
<1>4. ASSUME title[1] < p[1] PROVE FALSE
  <2>1. PICK j \in DOMAIN files[p[1]] : j < p[2] /\ files[p[1]][j].kw = "Scenario"
    <3>1. LintFeatureFile(files[p[1]]) /\ files[p[1]][p[2]].kw \in Step
      BY <1>1, <1>2 DEF LineAt
    <3> QED  BY <1>2, <3>1, StepHasTitle
  <2>2. <<p[1], j>> \in Titles(files)
    BY <1>2, <1>3, <2>1
  <2>3. Before(title, <<p[1], j>>)
    BY <1>4 DEF Before
  <2>4. Before(p, <<p[1], j>>)
    BY <1>1, <2>2, <2>3
  <2>5. j \in Nat
    BY <1>2
  <2> QED  BY <1>2, <2>1, <2>4, <2>5 DEF Before
<1>5. p[1] = title[1] /\ p[2] > title[2]
  BY <1>1, <1>2, <1>4 DEF Before
<1>6. ASSUME NEW j \in DOMAIN files[title[1]], j > title[2],
             files[title[1]][j].kw = "Scenario"
      PROVE  p[2] < j
  <2>1. <<title[1], j>> \in Titles(files)
    BY <1>2, <1>3, <1>6
  <2>2. Before(title, <<title[1], j>>)
    BY <1>6 DEF Before
  <2>3. Before(p, <<title[1], j>>)
    BY <1>1, <2>1, <2>2
  <2> QED  BY <1>2, <1>5, <2>3 DEF Before
<1> QED  BY <1>5, <1>6

\* What the coverage gate finds in the walk over all files a clean file says by itself.
LEMMA ScenarioSpeaks ==
  ASSUME NEW files \in Seq(Seq(Line)), \A file \in Range(files) : LintFeatureFile(file),
         NEW title \in Titles(files), NEW criterion,
         Asserts(UNION {LineAt(files, p).words : p \in {title} \cup StepsOf(files, title)},
                 criterion)
  PROVE  /\ files[title[1]] \in Range(files) /\ title[2] \in DOMAIN files[title[1]]
         /\ SpeaksFor(files[title[1]], title[2], LineAt(files, title).req, criterion)
<1> DEFINE file == files[title[1]]
           k == title[2]
           ends == {j \in k + 1 .. Len(file) : file[j].kw = "Scenario"} \cup {Len(file) + 1}
           until == Min(ends)
           mine == {k} \cup {j \in k .. until - 1 : file[j].kw \in Step}
           heard == UNION {LineAt(files, p).words : p \in {title} \cup StepsOf(files, title)}
           words == UNION {file[j].words : j \in mine}
<1>1. /\ title \in Places(files) /\ file[k].kw = "Scenario"
  BY DEF Titles, LineAt
<1>2. file \in Seq(Line) /\ file \in Range(files) /\ k \in DOMAIN file /\ k \in Nat
  BY <1>1, PlaceOf
<1> HIDE DEF file, k
<1>3. Len(file) \in Nat /\ DOMAIN file = 1..Len(file)
  BY <1>2
<1>4. until \in ends
  <2>1. ends \in SUBSET Nat /\ ends # {}
    BY <1>2, <1>3
  <2> HIDE DEF ends
  <2>2. \E n \in ends : \A m \in ends : n <= m
    BY <2>1, LeastPlace
  <2> QED  BY <2>2 DEF Min
<1>5. until \in Nat
  BY <1>2, <1>3, <1>4
<1> HIDE DEF until
<1>6. ASSUME NEW p \in StepsOf(files, title)
      PROVE  p[1] = title[1] /\ p[2] \in mine
  <2>1. /\ p[1] = title[1] /\ p[2] > k
        /\ \A j \in DOMAIN file : j > k /\ file[j].kw = "Scenario" => p[2] < j
    BY <1>6, StepsStayInFile DEF file, k
  <2>2. p \in Places(files) /\ LineAt(files, p).kw \in Step
    BY DEF StepsOf
  <2>3. p[2] \in DOMAIN file /\ p[2] \in Nat /\ file[p[2]].kw \in Step
    BY <2>1, <2>2, PlaceOf DEF LineAt, file
  <2>4. p[2] < until
    <3>1. CASE until = Len(file) + 1
      BY <1>3, <2>3, <3>1
    <3>2. CASE until \in k + 1 .. Len(file) /\ file[until].kw = "Scenario"
      <4>1. until \in DOMAIN file /\ until > k
        BY <1>2, <1>3, <3>2
      <4> QED  BY <2>1, <3>2, <4>1
    <3> QED  BY <1>4, <3>1, <3>2
  <2>5. p[2] \in k .. until - 1
    BY <1>2, <1>5, <2>1, <2>3, <2>4
  <2> QED  BY <2>1, <2>3, <2>5
<1> HIDE DEF mine
<1>7. ASSUME NEW p \in {title} \cup StepsOf(files, title)
      PROVE  \E j \in mine : LineAt(files, p).words = file[j].words
  <2>1. CASE p = title
    BY <2>1 DEF LineAt, mine, file, k
  <2>2. CASE p \in StepsOf(files, title)
    BY <1>6, <2>2 DEF LineAt, file
  <2> QED  BY <1>7, <2>1, <2>2
<1>8. heard \subseteq words
  BY <1>7
<1> HIDE DEF heard, words
<1>9. Asserts(words, criterion)
  <2>1. Asserts(heard, criterion)
    BY DEF heard
  <2> QED  BY <1>8, <2>1 DEF Asserts
<1>10. SpeaksFor(file, k, LineAt(files, title).req, criterion)
  <2>1. file[k].kw = "Scenario" /\ file[k].req = LineAt(files, title).req
    BY <1>1 DEF LineAt, file, k
  <2>2. Asserts(UNION {file[j].words :
                         j \in {k} \cup {j \in k .. Min(ends) - 1 : file[j].kw \in Step}},
                criterion)
    BY <1>9 DEF words, mine, until
  <2> HIDE DEF file, k
  <2> QED  BY <2>1, <2>2 DEF SpeaksFor
<1> QED  BY <1>2, <1>10 DEF file, k

\* Four gates together: what each criterion of an active requirement comes to.
LEMMA FourGatesRealize ==
  ASSUME NEW t \in Tree, CheckTraceability(t), CheckBddStyle(t), CheckBddCoverage(t),
         CheckVerifiedMarkers(t), ~NothingToTrace(t),
         NEW req \in Active(t)
  PROVE  /\ Reqs(t)[req.id] = req => <<req.id, req.acceptance>> \in t.lock
         /\ \A k \in DOMAIN req.acceptance :
              LET criterion == req.acceptance[k]
              IN  /\ \/ criterion.verified # {} \/ criterion.codes = {}
                     \/ \E file \in Range(Files(t.features)) :
                          \E line \in DOMAIN file : SpeaksFor(file, line, req.id, criterion)
                  /\ \A technique \in criterion.verified \cap {"kani", "tla"} :
                       /\ technique \in Keys(req)
                       /\ \E link \in req.implements_in[technique] :
                            Reqs(t)[req.id] = req => LinkLeads(t, link)
<1>1. req.id \in DOMAIN Reqs(t)
  BY DEF Active, Reqs
<1>2. Traceable(t) /\ t.lock = Snapshot(t)
  BY DEF CheckTraceability, LockIsCurrent
<1>3. Reqs(t)[req.id] = req => <<req.id, req.acceptance>> \in t.lock
  BY <1>1, <1>2 DEF Snapshot
<1> SUFFICES ASSUME NEW k \in DOMAIN req.acceptance
             PROVE  LET criterion == req.acceptance[k]
                    IN  /\ \/ criterion.verified # {} \/ criterion.codes = {}
                           \/ \E file \in Range(Files(t.features)) :
                                \E line \in DOMAIN file :
                                  SpeaksFor(file, line, req.id, criterion)
                        /\ \A technique \in criterion.verified \cap {"kani", "tla"} :
                             /\ technique \in Keys(req)
                             /\ \E link \in req.implements_in[technique] :
                                  Reqs(t)[req.id] = req => LinkLeads(t, link)
  BY <1>3
<1> DEFINE criterion == req.acceptance[k]
           files == Files(t.features)
<1>5. ASSUME NEW technique \in criterion.verified \cap {"kani", "tla"}
      PROVE  /\ technique \in Keys(req)
             /\ \E link \in req.implements_in[technique] :
                  Reqs(t)[req.id] = req => LinkLeads(t, link)
  <2>1. technique \in Keys(req) /\ req.implements_in[technique] # {}
    BY <1>5 DEF CheckVerifiedMarkers, Enforced, Backed
  <2>2. PICK link : link \in req.implements_in[technique]
    BY <2>1
  <2>3. Reqs(t)[req.id] = req => WellFormed(t, req)
    BY <1>1, <1>2 DEF Traceable
  <2> QED  BY <2>1, <2>2, <2>3 DEF WellFormed
<1>6. ASSUME criterion.verified = {}, criterion.codes # {}
      PROVE  \E file \in Range(files) :
               \E line \in DOMAIN file : SpeaksFor(file, line, req.id, criterion)
  <2>1. files \in Seq(Seq(Line))
    <3>1. t.features \in Seq(Seq(Line)) \cup {Nothing}
      BY DEF Tree
    <3>2. <<>> \in Seq(Seq(Line))
      OBVIOUS
    <3> QED  BY <3>1, <3>2 DEF Files
  <2>2. \A file \in Range(files) : LintFeatureFile(file)
    BY DEF CheckBddStyle
  <2>3. Covered(t, req, criterion)
    BY DEF CheckBddCoverage
  <2>4. PICK s \in Scenarios(t) : s.req = req.id /\ Asserts(s.words, criterion)
    BY <1>6, <2>3 DEF Covered
  <2> HIDE DEF files, criterion
  <2>5. PICK title \in Titles(files) :
          s = [req |-> LineAt(files, title).req,
               words |-> UNION {LineAt(files, p).words :
                                  p \in {title} \cup StepsOf(files, title)}]
    BY <2>4 DEF Scenarios, files
  <2>6. /\ LineAt(files, title).req = req.id
        /\ Asserts(UNION {LineAt(files, p).words : p \in {title} \cup StepsOf(files, title)},
                   criterion)
    BY <2>4, <2>5
  <2>7. /\ files[title[1]] \in Range(files) /\ title[2] \in DOMAIN files[title[1]]
        /\ SpeaksFor(files[title[1]], title[2], req.id, criterion)
    BY <2>1, <2>2, <2>6, ScenarioSpeaks
  <2> QED  BY <2>7
<1> QED  BY <1>5, <1>6

-----------------------------------------------------------------------------
(* The gates, one by one.                                                  *)

\* What a gate that reads specifications and requirements asks.
LEMMA GateAsks ==
  ASSUME NEW config, NEW t
  PROVE  /\ Holds("regen", config, t) <=> RegenCheck(config, t)
         /\ Holds("spec-sync", config, t) <=> CheckSpecSync(config, t)
         /\ Holds("clippy", config, t) <=> Clippy(t)
         /\ Holds("traceability", config, t) <=> CheckTraceability(t)
         /\ Holds("bdd-style", config, t) <=> CheckBddStyle(t)
         /\ Holds("bdd-coverage", config, t) <=> CheckBddCoverage(t)
         /\ Holds("verified-markers", config, t) <=> CheckVerifiedMarkers(t)
         /\ Holds("docs-counts", config, t) <=> CheckDocsCounts(t)
<1>1. Holds("regen", config, t) <=> RegenCheck(config, t)
  BY DEF Holds, Seeds, Advisory
<1>2. Holds("spec-sync", config, t) <=> CheckSpecSync(config, t)
  BY DEF Holds, Seeds, Advisory
<1>3. Holds("clippy", config, t) <=> Clippy(t)
  BY DEF Holds, Seeds, Advisory
<1>4. Holds("traceability", config, t) <=> CheckTraceability(t)
  BY DEF Holds, Seeds, Advisory
<1>5. Holds("bdd-style", config, t) <=> CheckBddStyle(t)
  BY DEF Holds, Seeds, Advisory
<1>6. Holds("bdd-coverage", config, t) <=> CheckBddCoverage(t)
  BY DEF Holds, Seeds, Advisory
<1>7. Holds("verified-markers", config, t) <=> CheckVerifiedMarkers(t)
  BY DEF Holds, Seeds, Advisory
<1>8. Holds("docs-counts", config, t) <=> CheckDocsCounts(t)
  BY DEF Holds, Seeds, Advisory
<1> QED  BY <1>1, <1>2, <1>3, <1>4, <1>5, <1>6, <1>7, <1>8

\* The gates of requirements, scenarios and code that every tier runs.
TreeGates == {"regen", "clippy", "traceability", "bdd-style", "bdd-coverage", "verified-markers"}

\* Every tier runs them, and none of them draws entropy.
LEMMA EveryTierRuns ==
  ASSUME NEW c \in Tiers
  PROVE  TreeGates \subseteq Range(Gates[c]) \ Discovery
<1>1. TreeGates \subseteq Range(CheapGates)
  <2>1. /\ {2, 3, 4, 6, 7, 8} \subseteq DOMAIN CheapGates
        /\ CheapGates[2] = "regen" /\ CheapGates[3] = "clippy" /\ CheapGates[4] = "traceability"
        /\ CheapGates[6] = "bdd-style" /\ CheapGates[7] = "bdd-coverage"
        /\ CheapGates[8] = "verified-markers"
    BY DEF CheapGates
  <2> QED  BY <2>1 DEF Range, TreeGates
<1>2. TreeGates \ {"clippy"} \subseteq Range(MetaGates)
  <2>1. /\ {1, 2, 4, 5, 6} \subseteq DOMAIN MetaGates
        /\ MetaGates[1] = "regen" /\ MetaGates[2] = "traceability"
        /\ MetaGates[4] = "bdd-style" /\ MetaGates[5] = "bdd-coverage"
        /\ MetaGates[6] = "verified-markers"
    BY DEF MetaGates
  <2> QED  BY <2>1 DEF Range, TreeGates
<1>3. "clippy" \in Range(StaticGates)
  <2>1. 2 \in DOMAIN StaticGates /\ StaticGates[2] = "clippy"
    BY DEF StaticGates
  <2> QED  BY <2>1 DEF Range
<1>4. QuickGates \in Seq(GateNames) /\ TreeGates \subseteq Range(QuickGates)
  <2> DEFINE head == MetaGates \o StaticGates
  <2>1. /\ head \in Seq(GateNames) /\ Range(MetaGates) \subseteq Range(head)
        /\ Range(StaticGates) \subseteq Range(head)
    BY VerifyParts, InConcat
  <2>2. QuickGates = head \o ModelGates
    BY DEF QuickGates, ModelGates
  <2> HIDE DEF head
  <2>3. QuickGates \in Seq(GateNames) /\ Range(head) \subseteq Range(QuickGates)
    BY <2>1, <2>2, VerifyParts, InConcat
  <2> QED  BY <1>2, <1>3, <2>1, <2>3
<1>5. Range(QuickGates) \subseteq Range(FullGates)
  <2> DEFINE head == QuickGates \o DeepGates
  <2>1. head \in Seq(GateNames) /\ Range(QuickGates) \subseteq Range(head)
    BY <1>4, VerifyParts, InConcat
  <2>2. FullGates = head \o SeedGates
    BY DEF FullGates, DeepGates, SeedGates
  <2> HIDE DEF head
  <2> QED  BY <2>1, <2>2, VerifyParts, InConcat
<1>6. Gates[c] \in {CheapGates, QuickGates, FullGates}
  BY DEF Tiers, Gates
<1>7. TreeGates \subseteq Range(Gates[c])
  BY <1>1, <1>4, <1>5, <1>6
<1>8. TreeGates \cap Discovery = {}
  BY DEF TreeGates, Discovery
<1> QED  BY <1>7, <1>8

\* Two trees with the same documents are traced, walked and counted alike.
LEMMA SameDocuments ==
  ASSUME NEW t, NEW u, u.reqs = t.reqs, u.features = t.features, u.adr = t.adr,
         u.files = t.files, u.defined = t.defined, u.annotated = t.annotated
  PROVE  /\ Active(u) = Active(t) /\ Scenarios(u) = Scenarios(t)
         /\ Counts(u) = Counts(t) /\ Snapshot(u) = Snapshot(t)
         /\ NothingToTrace(u) <=> NothingToTrace(t)
         /\ Traceable(u) <=> Traceable(t)
<1>1. ReqFiles(u) = ReqFiles(t)
  BY DEF ReqFiles
<1>2. Active(u) = Active(t)
  BY <1>1 DEF Active
<1>3. Scenarios(u) = Scenarios(t)
  BY DEF Scenarios
<1>4. Counts(u) = Counts(t)
  BY <1>1 DEF Counts
<1>5. Reqs(u) = Reqs(t)
  BY <1>1 DEF Reqs
<1>6. Snapshot(u) = Snapshot(t)
  BY <1>5 DEF Snapshot
<1>7. NothingToTrace(u) <=> NothingToTrace(t)
  BY DEF NothingToTrace
<1>8. Traceable(u) <=> Traceable(t)
  BY <1>1, <1>5 DEF Traceable, WellFormed, LinkLeads
<1> QED  BY <1>2, <1>3, <1>4, <1>6, <1>7, <1>8

\* The cheap gates but two read neither the README nor the lock.
LEMMA SameVerdicts ==
  ASSUME NEW config, NEW t, NEW u,
         u.reqs = t.reqs, u.features = t.features, u.adr = t.adr,
         u.files = t.files, u.defined = t.defined, u.annotated = t.annotated, u.source = t.source, u.tla = t.tla, u.cfg = t.cfg,
         u.manual = t.manual, u.table = t.table, u.broken = t.broken,
         NEW g \in CheapNames \ {"traceability", "docs-counts"}
  PROVE  Holds(g, config, u) <=> Holds(g, config, t)
<1>1. Active(u) = Active(t) /\ Scenarios(u) = Scenarios(t)
  BY SameDocuments
<1>2. RegenCheck(config, u) <=> RegenCheck(config, t)
  BY DEF RegenCheck
<1>3. CheckSpecSync(config, u) <=> CheckSpecSync(config, t)
  BY DEF CheckSpecSync
<1>4. Clippy(u) <=> Clippy(t)
  BY DEF Clippy
<1>5. CheckBddStyle(u) <=> CheckBddStyle(t)
  BY DEF CheckBddStyle
<1>6. CheckBddCoverage(u) <=> CheckBddCoverage(t)
  BY <1>1 DEF CheckBddCoverage, Covered
<1>7. CheckVerifiedMarkers(u) <=> CheckVerifiedMarkers(t)
  BY <1>1 DEF CheckVerifiedMarkers
<1>8. CASE g \in {"regen", "spec-sync", "clippy", "bdd-style", "bdd-coverage", "verified-markers"}
  BY <1>2, <1>3, <1>4, <1>5, <1>6, <1>7, <1>8, GateAsks
<1>9. CASE g = "mutation-coverage"
  <2>1. \A v : Holds("mutation-coverage", config, v) =
                 CheckMutationCoverage(v.table, v.cfg, v.manual)
    BY DEF Holds, Seeds, Advisory
  <2> QED  BY <1>9, <2>1
<1>10. CASE g \in {"fmt", "file-size"}
  <2>1. \A v : Holds(g, config, v) = (g \notin v.broken)
    BY <1>10 DEF Holds, Seeds, Advisory
  <2> QED  BY <2>1
<1> QED  BY <1>8, <1>9, <1>10 DEF CheapNames

-----------------------------------------------------------------------------
(* Writers.                                                                *)

\* The step a command has got to: past the last one once it has ended well.
Reached == IF Ended /\ verdict = "Ok" THEN Len(Program(cmd)) + 1 ELSE at

\* An empty directory after each of the three steps of init that write to it.
LaidOut == Over(Blank)

Counted == [LaidOut EXCEPT !.readme.counts = Counts(LaidOut)]

Locked == IF NothingToTrace(Counted) THEN Counted
          ELSE [Counted EXCEPT !.lock = Snapshot(Counted)]

\* What a command has done by its k-th step to a tree that nobody edits.
LoadedInv(k) == cmd \notin Inits /\ k > 0 => loaded = tree.config /\ Loads(tree)

RegenInv(k) ==
  cmd = "regen" =>
    /\ k > 1 => IF loaded.fsm
                THEN tree.source # None /\ Parses(tree.source) /\ fsm = ParseFsm(tree.source)
                ELSE fsm = Nothing
    /\ k > 2 /\ fsm # Nothing => tree.tla = RenderTla(fsm)
    /\ k > 3 /\ fsm # Nothing => tree.cfg = RenderCfg(fsm)

WritesInv(k) ==
  /\ cmd = "counts --write" /\ k > 1 => CheckDocsCounts(tree)
  /\ cmd = "traceability --write" /\ k > 1 => CheckTraceability(tree)

FreshInv(k) ==
  cmd = "init" /\ k > 0 =>
    /\ fsm = Nothing
    /\ k > 2 => loaded = LaidOut.config
    /\ k \in 2..6 => tree = LaidOut
    /\ k = 7 => tree = Counted
    /\ k = 8 => tree = Locked

WriterInv == ~touched => /\ LoadedInv(Reached) /\ RegenInv(Reached)
                         /\ WritesInv(Reached) /\ FreshInv(Reached)

\* The programs of the writers, step by step.
LEMMA WriterPrograms ==
  /\ Len(Program("regen")) = 3 /\ Program("regen")[1] = "parse"
  /\ Program("regen")[2] = "write tla" /\ Program("regen")[3] = "write cfg"
  /\ Len(Program("counts --write")) = 1 /\ Program("counts --write")[1] = "write counts"
  /\ Len(Program("traceability --write")) = 1
  /\ Program("traceability --write")[1] = "write lock"
  /\ Len(Program("init")) = 7
  /\ Program("init")[1] = "materialize" /\ Program("init")[2] = "load"
  /\ Program("init")[3] = "parse" /\ Program("init")[4] = "write tla"
  /\ Program("init")[5] = "write cfg" /\ Program("init")[6] = "write counts"
  /\ Program("init")[7] = "write lock"
<1>1. /\ Program("regen") = Regen
      /\ Program("counts --write") = <<"write counts">>
      /\ Program("traceability --write") = <<"write lock">>
      /\ Program("init") = <<"materialize", "load">> \o Regen \o <<"write counts", "write lock">>
  BY DEF Program, Tiers, Inits
<1> DEFINE Names == {"parse", "write tla", "write cfg", "write counts", "write lock",
                     "materialize", "load"}
           first == <<"materialize", "load">>
           last == <<"write counts", "write lock">>
           begun == first \o Regen
<1>2. first \in Seq(Names) /\ last \in Seq(Names) /\ Regen \in Seq(Names)
  BY DEF Regen
<1>3. Len(first) = 2 /\ Len(last) = 2 /\ Len(Regen) = 3
  BY DEF Regen
<1>4. /\ first[1] = "materialize" /\ first[2] = "load"
      /\ Regen[1] = "parse" /\ Regen[2] = "write tla" /\ Regen[3] = "write cfg"
      /\ last[1] = "write counts" /\ last[2] = "write lock"
  BY DEF Regen
<1> HIDE DEF first, last, Names
<1>5. /\ begun \in Seq(Names) /\ Len(begun) = 5
      /\ begun[1] = first[1] /\ begun[2] = first[2]
      /\ begun[3] = Regen[1] /\ begun[4] = Regen[2] /\ begun[5] = Regen[3]
  <2>1. /\ begun \in Seq(Names) /\ Len(begun) = Len(first) + Len(Regen)
        /\ \A k \in 1..Len(first) + Len(Regen) :
             begun[k] = IF k <= Len(first) THEN first[k] ELSE Regen[k - Len(first)]
    BY <1>2, ConcatProperties
  <2> HIDE DEF begun
  <2> QED  BY <1>3, <2>1
<1> HIDE DEF begun
<1>6. /\ Len(begun \o last) = 7
      /\ \A k \in 1..5 : (begun \o last)[k] = begun[k]
      /\ (begun \o last)[6] = last[1] /\ (begun \o last)[7] = last[2]
  <2> DEFINE all == begun \o last
  <2>1. /\ Len(all) = Len(begun) + Len(last)
        /\ \A k \in 1..Len(begun) + Len(last) :
             all[k] = IF k <= Len(begun) THEN begun[k] ELSE last[k - Len(begun)]
    BY <1>2, <1>5, ConcatProperties
  <2>2. Len(begun) = 5
    BY <1>5
  <2> HIDE DEF all
  <2>3. /\ Len(all) = 7
        /\ \A k \in 1..5 : all[k] = begun[k]
        /\ all[6] = last[1] /\ all[7] = last[2]
    BY <1>3, <2>1, <2>2
  <2> QED  BY <2>3 DEF all
<1>7. /\ Len(Program("regen")) = 3 /\ Program("regen")[1] = "parse"
      /\ Program("regen")[2] = "write tla" /\ Program("regen")[3] = "write cfg"
  BY <1>1, <1>3, <1>4
<1>8. /\ Len(Program("counts --write")) = 1 /\ Program("counts --write")[1] = "write counts"
      /\ Len(Program("traceability --write")) = 1
      /\ Program("traceability --write")[1] = "write lock"
  <2>1. /\ Len(<<"write counts">>) = 1 /\ <<"write counts">>[1] = "write counts"
        /\ Len(<<"write lock">>) = 1 /\ <<"write lock">>[1] = "write lock"
    OBVIOUS
  <2> QED  BY <1>1, <2>1
<1>9. Program("init") = begun \o last
  BY <1>1 DEF begun, first, last
<1>10. /\ begun[1] = "materialize" /\ begun[2] = "load" /\ begun[3] = "parse"
       /\ begun[4] = "write tla" /\ begun[5] = "write cfg"
       /\ last[1] = "write counts" /\ last[2] = "write lock"
  BY <1>4, <1>5
<1> DEFINE whole == begun \o last
<1>11. /\ whole[1] = begun[1] /\ whole[2] = begun[2] /\ whole[3] = begun[3]
       /\ whole[4] = begun[4] /\ whole[5] = begun[5]
  BY <1>6
<1>12. Len(whole) = 7 /\ whole[6] = last[1] /\ whole[7] = last[2]
  BY <1>6
<1>13. Program("init") = whole
  BY <1>9
<1> HIDE DEF whole
<1> QED  BY <1>7, <1>8, <1>10, <1>11, <1>12, <1>13

\* The command and the place of a step.  (init --force goes its own way.)
LEMMA StepIsAt ==
  ASSUME NEW step, NextIs(step)
  PROVE  /\ cmd \in Writers /\ at \in Nat /\ at > 0 /\ at \in DOMAIN Program(cmd)
         /\ cmd # "init --force" =>
              /\ step = "parse" => (cmd = "regen" /\ at = 1) \/ (cmd = "init" /\ at = 3)
              /\ step = "write tla" => (cmd = "regen" /\ at = 2) \/ (cmd = "init" /\ at = 4)
              /\ step = "write cfg" => (cmd = "regen" /\ at = 3) \/ (cmd = "init" /\ at = 5)
              /\ step = "write counts" => (cmd = "counts --write" /\ at = 1) \/ (cmd = "init" /\ at = 6)
              /\ step = "write lock" => (cmd = "traceability --write" /\ at = 1) \/ (cmd = "init" /\ at = 7)
              /\ step = "materialize" => cmd = "init" /\ at = 1
              /\ step = "load" => cmd = "init" /\ at = 2
<1>1. /\ cmd \in Writers /\ at \in DOMAIN Program(cmd) /\ Program(cmd)[at] = step
  BY DEF NextIs
<1>2. Len(Program(cmd)) \in Nat /\ DOMAIN Program(cmd) = 1..Len(Program(cmd))
  BY <1>1, StepsAreCounted DEF Commands
<1>3. at \in Nat /\ at > 0 /\ at \in 1..Len(Program(cmd))
  BY <1>1, <1>2
<1>4. CASE cmd = "regen"
  <2>0. Len(Program(cmd)) = 3
    BY <1>4, WriterPrograms
  <2>1. at = 1 \/ at = 2 \/ at = 3
    BY <1>3, <2>0
  <2> QED  BY <1>1, <1>3, <1>4, <2>1, WriterPrograms
<1>5. CASE cmd = "init"
  <2>0. Len(Program(cmd)) = 7
    BY <1>5, WriterPrograms
  <2>1. at = 1 \/ at = 2 \/ at = 3 \/ at = 4 \/ at = 5 \/ at = 6 \/ at = 7
    BY <1>3, <2>0
  <2> QED  BY <1>1, <1>3, <1>5, <2>1, WriterPrograms
<1>6. CASE cmd \in {"counts --write", "traceability --write"}
  <2>0. Len(Program(cmd)) = 1
    BY <1>6, WriterPrograms
  <2>1. at = 1
    BY <1>3, <2>0
  <2> QED  BY <1>1, <1>3, <1>6, <2>1, WriterPrograms
<1>7. cmd \in {"regen", "init", "init --force", "counts --write", "traceability --write"}
  BY <1>1 DEF Writers, Inits
<1> QED  BY <1>1, <1>3, <1>4, <1>5, <1>6, <1>7

\* How far a command has got after a step.
LEMMA Goes ==
  ASSUME VerdictInv, at > 0
  PROVE  /\ Reached = at
         /\ Advance => Reached' = at + 1 /\ cmd' = cmd /\ touched' = touched
         /\ End("Err") \/ End("None") => Reached' = 0 /\ cmd' = cmd /\ touched' = touched
<1>1. at \in Nat /\ at # 0 /\ verdict = "None"
  BY DEF VerdictInv
<1>2. Reached = at
  BY <1>1 DEF Reached
<1>3. Advance => Reached' = at + 1 /\ cmd' = cmd /\ touched' = touched
  BY <1>1 DEF Advance, Reached
<1>4. End("Err") \/ End("None") => Reached' = 0 /\ cmd' = cmd /\ touched' = touched
  BY DEF End, Reached
<1> QED  BY <1>2, <1>3, <1>4

\* A command that has got nowhere has promised nothing.
LEMMA NowhereYet ==
  ASSUME Reached' = 0
  PROVE  WriterInv'
<1>1. LoadedInv(0)' /\ RegenInv(0)' /\ WritesInv(0)' /\ FreshInv(0)'
  BY DEF LoadedInv, RegenInv, WritesInv, FreshInv
<1> QED  BY <1>1 DEF WriterInv, LoadedInv, RegenInv, WritesInv, FreshInv

\* What is written of a tree is there, and the rest is as it was.
LEMMA WrittenThere ==
  ASSUME NEW t \in Tree, NEW v
  PROVE  /\ LET u == [t EXCEPT !.tla = v]
            IN  /\ u.tla = v /\ u.cfg = t.cfg /\ u.source = t.source /\ u.config = t.config
                /\ u.conventional = t.conventional
         /\ LET u == [t EXCEPT !.cfg = v]
            IN  /\ u.cfg = v /\ u.tla = t.tla /\ u.source = t.source /\ u.config = t.config
                /\ u.conventional = t.conventional
         /\ LET u == [t EXCEPT !.lock = v]
            IN  /\ u.lock = v /\ u.readme = t.readme /\ u.config = t.config
                /\ u.conventional = t.conventional
                /\ u.reqs = t.reqs /\ u.features = t.features /\ u.adr = t.adr
                /\ u.files = t.files /\ u.defined = t.defined /\ u.annotated = t.annotated /\ u.source = t.source
                /\ u.tla = t.tla /\ u.cfg = t.cfg /\ u.manual = t.manual /\ u.table = t.table
                /\ u.broken = t.broken
         /\ LET u == [t EXCEPT !.readme.counts = v]
            IN  /\ u.readme = [t.readme EXCEPT !.counts = v] /\ u.config = t.config
                /\ u.conventional = t.conventional
                /\ u.reqs = t.reqs /\ u.features = t.features /\ u.adr = t.adr
                /\ u.files = t.files /\ u.defined = t.defined /\ u.annotated = t.annotated /\ u.source = t.source
                /\ u.tla = t.tla /\ u.cfg = t.cfg /\ u.manual = t.manual /\ u.table = t.table
                /\ u.broken = t.broken
BY DEF Tree

\* A README whose counts are written says what there is.
LEMMA CountsSettle ==
  ASSUME NEW t \in Tree, t.readme # Nothing, t.readme.marked
  PROVE  CheckDocsCounts([t EXCEPT !.readme.counts = Counts(t)])
<1> DEFINE v == Counts(t)
           u == [t EXCEPT !.readme.counts = v]
<1>1. t.readme \in Readme
  BY DEF Tree
<1>2. /\ u.readme = [t.readme EXCEPT !.counts = v]
      /\ u.reqs = t.reqs /\ u.features = t.features /\ u.adr = t.adr
      /\ u.files = t.files /\ u.defined = t.defined /\ u.annotated = t.annotated
  BY WrittenThere
<1> HIDE DEF u
<1>3. Counts(u) = v
  BY <1>2, SameDocuments
<1>4. u.readme = [marked |-> TRUE, counts |-> v]
  <2> HIDE DEF v
  <2> QED  BY <1>1, <1>2 DEF Readme
<1> HIDE DEF v
<1>5. CheckDocsCounts(u)
  BY <1>3, <1>4 DEF CheckDocsCounts
<1> QED  BY <1>5 DEF u, v

\* A lock that is written is current, and still when it stands in the tree.
LEMMA LockSettles ==
  ASSUME NEW t \in Tree, ~NothingToTrace(t), Traceable(t)
  PROVE  CheckTraceability([t EXCEPT !.lock = Snapshot(t)])
<1> DEFINE v == Snapshot(t)
           u == [t EXCEPT !.lock = v]
<1>1. /\ u.lock = v
      /\ u.reqs = t.reqs /\ u.features = t.features /\ u.adr = t.adr
      /\ u.files = t.files /\ u.defined = t.defined /\ u.annotated = t.annotated
  BY WrittenThere
<1> HIDE DEF u
<1>2. Traceable(u) /\ Snapshot(u) = v
  BY <1>1, SameDocuments
<1>3. CheckTraceability(u)
  BY <1>1, <1>2 DEF CheckTraceability, LockIsCurrent
<1> QED  BY <1>3 DEF u

\* The three trees of init are trees; in the last the README and the lock are right,
\* and the rest is as it was laid out.
LEMMA FreshTrees ==
  /\ LaidOut \in Tree /\ Counted \in Tree /\ Locked \in Tree
  /\ LaidOut.readme # Nothing /\ LaidOut.readme.marked
  /\ Counted.config = LaidOut.config /\ Locked.config = LaidOut.config
  /\ ~NothingToTrace(Counted) => Traceable(Counted)
  /\ \A g \in CheapNames : Holds(g, Locked.config, Locked)
<1> DEFINE counts == Counts(LaidOut)
           snapshot == Snapshot(Counted)
<1>1. LaidOut \in Tree
  BY DhxAssumption, OverTyped DEF LaidOut
<1>2. /\ LaidOut.readme = Scaffold.readme
      /\ Traceable(LaidOut)
      /\ \A g \in Range(CheapGates) \ {"traceability", "docs-counts"} :
           Holds(g, LaidOut.config, LaidOut)
  <2>1. Blank \in Tree
    BY DhxAssumption
  <2>2. Over(Blank).readme = Scaffold.readme
    BY <2>1 DEF Over, Tree
  <2> QED  BY <2>2, ScaffoldAssumption DEF LaidOut
<1>3. LaidOut.readme # Nothing /\ LaidOut.readme.marked /\ LaidOut.readme \in Readme
  BY <1>1, <1>2, ScaffoldAssumption DEF Tree
<1>4. Counted = [LaidOut EXCEPT !.readme.counts = counts]
  BY DEF Counted
<1>5. Counted \in Tree /\ CheckDocsCounts(Counted)
  BY <1>1, <1>3, <1>4, CountsTyped, WrittenTyped, CountsSettle
<1>6. /\ Counted.config = LaidOut.config
      /\ Counted.reqs = LaidOut.reqs /\ Counted.features = LaidOut.features
      /\ Counted.adr = LaidOut.adr /\ Counted.files = LaidOut.files
      /\ Counted.defined = LaidOut.defined
      /\ Counted.annotated = LaidOut.annotated /\ Counted.source = LaidOut.source
      /\ Counted.tla = LaidOut.tla /\ Counted.cfg = LaidOut.cfg
      /\ Counted.manual = LaidOut.manual /\ Counted.table = LaidOut.table
      /\ Counted.broken = LaidOut.broken
  <2> HIDE DEF counts
  <2> QED  BY <1>1, <1>4, WrittenThere
<1>7. Traceable(Counted)
  BY <1>2, <1>6, SameDocuments
<1>8. /\ Locked \in Tree /\ CheckTraceability(Locked)
      /\ Locked.readme = Counted.readme /\ Locked.config = Counted.config
      /\ Locked.reqs = Counted.reqs /\ Locked.features = Counted.features
      /\ Locked.adr = Counted.adr /\ Locked.files = Counted.files
      /\ Locked.defined = Counted.defined
      /\ Locked.annotated = Counted.annotated /\ Locked.source = Counted.source
      /\ Locked.tla = Counted.tla /\ Locked.cfg = Counted.cfg
      /\ Locked.manual = Counted.manual /\ Locked.table = Counted.table
      /\ Locked.broken = Counted.broken
  <2>1. CASE NothingToTrace(Counted)
    <3>1. Locked = Counted
      BY <2>1 DEF Locked
    <3> QED  BY <1>5, <2>1, <3>1 DEF CheckTraceability
  <2>2. CASE ~NothingToTrace(Counted)
    <3>1. Locked = [Counted EXCEPT !.lock = snapshot]
      BY <2>2 DEF Locked
    <3>2. snapshot \in Lock
      BY <1>5, <2>2, LockTyped
    <3>3. CheckTraceability(Locked)
      BY <1>5, <1>7, <2>2, <3>1, LockSettles
    <3> HIDE DEF snapshot
    <3> QED  BY <1>5, <3>1, <3>2, <3>3, WrittenTyped, WrittenThere
  <2> QED  BY <2>1, <2>2
<1>9. CheckDocsCounts(Locked)
  <2>1. Counts(Locked) = Counts(Counted)
    BY <1>8, SameDocuments
  <2> QED  BY <1>5, <1>8, <2>1 DEF CheckDocsCounts
<1>10. ASSUME NEW g \in CheapNames \ {"traceability", "docs-counts"}
       PROVE  Holds(g, Locked.config, Locked)
  <2>1. g \in Range(CheapGates)
    <3>1. /\ DOMAIN CheapGates = 1..11
          /\ CheapGates[1] = "fmt" /\ CheapGates[2] = "regen" /\ CheapGates[3] = "clippy"
          /\ CheapGates[5] = "spec-sync" /\ CheapGates[6] = "bdd-style"
          /\ CheapGates[7] = "bdd-coverage" /\ CheapGates[8] = "verified-markers"
          /\ CheapGates[9] = "mutation-coverage" /\ CheapGates[10] = "file-size"
      BY DEF CheapGates
    <3> QED  BY <3>1 DEF CheapNames, Range
  <2>2. Holds(g, LaidOut.config, LaidOut)
    BY <1>2, <2>1
  <2>3. Holds(g, LaidOut.config, Locked) <=> Holds(g, LaidOut.config, LaidOut)
    BY <1>6, <1>8, SameVerdicts
  <2> QED  BY <1>6, <1>8, <2>2, <2>3
<1>11. Holds("traceability", Locked.config, Locked) /\ Holds("docs-counts", Locked.config, Locked)
  BY <1>8, <1>9, GateAsks
<1> QED  BY <1>1, <1>3, <1>5, <1>6, <1>7, <1>8, <1>10, <1>11

\* A command starts.
LEMMA StartKeepsWriters ==
  ASSUME VerdictInv, NEW c \in Commands, NEW in_container \in BOOLEAN, Start(c, in_container)
  PROVE  WriterInv'
<1>1. /\ cmd' = c /\ fsm' = Nothing /\ tree' = tree
      /\ loaded' = IF c \in Inits THEN Nothing ELSE tree.config
      /\ \/ at' = 1 /\ verdict' = "None" /\ (c \in Inits \/ Loads(tree))
         \/ at' = 0 /\ verdict' = "Err"
  BY DEF Start
<1>2. CASE at' = 0 /\ verdict' = "Err"
  <2>1. Reached' = 0
    BY <1>2 DEF Reached
  <2> QED  BY <2>1, NowhereYet
<1>3. CASE at' = 1 /\ verdict' = "None" /\ (c \in Inits \/ Loads(tree))
  <2>1. Reached' = 1
    BY <1>3 DEF Reached
  <2>2. LoadedInv(Reached)'
    BY <1>1, <1>3 DEF LoadedInv
  <2>3. RegenInv(Reached)' /\ WritesInv(Reached)'
    BY <2>1 DEF RegenInv, WritesInv
  <2>4. FreshInv(Reached)'
    BY <1>1, <2>1 DEF FreshInv
  <2> QED  BY <2>2, <2>3, <2>4 DEF WriterInv
<1> QED  BY <1>1, <1>2, <1>3

\* A gate writes nothing, and no writer runs one.
LEMMA RunGateKeepsWriters ==
  ASSUME VerdictInv, WriterInv, RunGate
  PROVE  WriterInv'
<1>1. /\ cmd \in Tiers /\ at \in DOMAIN Gates[cmd] /\ UNCHANGED <<tree, loaded, fsm>>
      /\ Advance \/ End("Err")
  BY DEF RunGate
<1>2. at > 0
  BY <1>1, GatesAreCounted
<1>3. CASE End("Err")
  BY <1>2, <1>3, Goes, NowhereYet
<1>4. CASE Advance
  <2>1. Reached = at /\ cmd' = cmd /\ touched' = touched
    BY <1>2, <1>4, Goes
  <2>2. cmd \notin Writers
    BY <1>1, TiersApart
  <2>3. ~touched => LoadedInv(Reached)'
    BY <1>1, <1>2, <2>1 DEF WriterInv, LoadedInv
  <2>4. RegenInv(Reached)' /\ WritesInv(Reached)' /\ FreshInv(Reached)'
    BY <2>1, <2>2 DEF RegenInv, WritesInv, FreshInv, Writers, Inits
  <2> QED  BY <2>1, <2>3, <2>4 DEF WriterInv
<1> QED  BY <1>1, <1>3, <1>4

\* A command that ends well has taken its last step.
LEMMA FinishKeepsWriters ==
  ASSUME TypeOK, VerdictInv, WriterInv, Finish
  PROVE  WriterInv'
<1>1. /\ at' = 0 /\ verdict' \in {"Ok", "Err"} /\ at > Len(Program(cmd))
      /\ cmd' = cmd /\ touched' = touched /\ UNCHANGED <<tree, loaded, fsm>>
  BY DEF Finish, End
<1>2. Len(Program(cmd)) \in Nat /\ at \in 0..Len(Program(cmd)) + 1
  BY StepsAreCounted DEF TypeOK
<1>3. at = Len(Program(cmd)) + 1 /\ at > 0
  BY <1>1, <1>2
<1>4. CASE verdict' = "Err"
  <2>1. Reached' = 0
    BY <1>1, <1>4 DEF Reached
  <2> QED  BY <2>1, NowhereYet
<1>5. CASE verdict' = "Ok"
  <2>1. Reached' = Len(Program(cmd)) + 1
    BY <1>1, <1>5 DEF Reached, Ended
  <2>2. Reached = at
    BY <1>3, Goes
  <2>3. Reached' = Reached
    BY <1>3, <2>1, <2>2
  <2> QED  BY <1>1, <2>3 DEF WriterInv, LoadedInv, RegenInv, WritesInv, FreshInv
<1> QED  BY <1>1, <1>4, <1>5

\* Nothing is promised of init --force.
LEMMA ForceIsFree ==
  ASSUME cmd' = "init --force"
  PROVE  WriterInv'
BY DEF WriterInv, LoadedInv, RegenInv, WritesInv, FreshInv, Inits

\* The source is parsed.
LEMMA ParseKeepsWriters ==
  ASSUME TypeOK, VerdictInv, WriterInv, Parse
  PROVE  WriterInv'
<1>1. /\ NextIs("parse") /\ UNCHANGED <<tree, loaded>>
      /\ \/ ~loaded.fsm /\ fsm' = Nothing /\ Advance
         \/ /\ loaded.fsm /\ tree.source # None /\ Parses(tree.source)
            /\ fsm' = ParseFsm(tree.source) /\ Advance
         \/ End("Err")
  BY DEF Parse
<1>2. /\ at \in Nat /\ at > 0
      /\ \/ cmd = "init --force" \/ (cmd = "regen" /\ at = 1) \/ (cmd = "init" /\ at = 3)
  BY <1>1, StepIsAt
<1>3. CASE End("Err")
  BY <1>2, <1>3, Goes, NowhereYet
<1>4. CASE ~End("Err")
  <2>1. Reached = at /\ Reached' = at + 1 /\ cmd' = cmd /\ touched' = touched
    BY <1>1, <1>2, <1>4, Goes
  <2>2. CASE cmd = "init --force"
    BY <2>1, <2>2, ForceIsFree
  <2>3. CASE cmd = "regen" /\ at = 1
    <3>1. Reached' = 2 /\ Reached = 1
      BY <2>1, <2>3
    <3>2. ~touched => LoadedInv(Reached)'
      BY <1>1, <2>1, <2>3, <3>1 DEF WriterInv, LoadedInv
    <3>3. RegenInv(Reached)'
      <4>1. \/ ~loaded.fsm /\ fsm' = Nothing
            \/ /\ loaded.fsm /\ tree.source # None /\ Parses(tree.source)
               /\ fsm' = ParseFsm(tree.source)
        BY <1>1, <1>4
      <4> QED  BY <1>1, <3>1, <4>1 DEF RegenInv
    <3>4. WritesInv(Reached)' /\ FreshInv(Reached)'
      BY <2>1, <2>3 DEF WritesInv, FreshInv
    <3> QED  BY <2>1, <3>2, <3>3, <3>4 DEF WriterInv
  <2>4. CASE cmd = "init" /\ at = 3
    <3>1. Reached' = 4 /\ Reached = 3
      BY <2>1, <2>4
    <3>2. LoadedInv(Reached)' /\ RegenInv(Reached)' /\ WritesInv(Reached)'
      BY <2>1, <2>4 DEF LoadedInv, RegenInv, WritesInv, Inits
    <3>3. ASSUME ~touched PROVE FreshInv(Reached)'
      <4>1. tree = LaidOut /\ loaded = LaidOut.config
        BY <2>4, <3>1, <3>3 DEF WriterInv, FreshInv
      <4>2. ~LaidOut.config.fsm
        BY ScaffoldAssumption DEF LaidOut
      <4>3. fsm' = Nothing
        BY <1>1, <1>4, <4>1, <4>2
      <4> QED  BY <1>1, <3>1, <4>1, <4>3 DEF FreshInv
    <3> QED  BY <2>1, <3>2, <3>3 DEF WriterInv
  <2> QED  BY <1>2, <2>2, <2>3, <2>4
<1> QED  BY <1>1, <1>3, <1>4

\* The .tla is written.
LEMMA WriteTlaKeepsWriters ==
  ASSUME TypeOK, VerdictInv, WriterInv, WriteTla
  PROVE  WriterInv'
<1> DEFINE v == RenderTla(fsm)
<1>1. /\ NextIs("write tla") /\ UNCHANGED <<loaded, fsm>> /\ Advance
      /\ tree' = IF fsm = Nothing THEN tree ELSE [tree EXCEPT !.tla = v]
  BY DEF WriteTla
<1>2. /\ at \in Nat /\ at > 0
      /\ \/ cmd = "init --force" \/ (cmd = "regen" /\ at = 2) \/ (cmd = "init" /\ at = 4)
  BY <1>1, StepIsAt
<1>3. Reached = at /\ Reached' = at + 1 /\ cmd' = cmd /\ touched' = touched
  BY <1>1, <1>2, Goes
<1>4. CASE cmd = "init --force"
  BY <1>3, <1>4, ForceIsFree
<1>5. CASE cmd = "regen" /\ at = 2
  <2>1. Reached' = 3 /\ Reached = 2
    BY <1>3, <1>5
  <2>2. /\ fsm # Nothing => tree'.tla = v
        /\ tree'.source = tree.source /\ tree'.config = tree.config
        /\ tree'.conventional = tree.conventional
    <3>1. tree \in Tree
      BY DEF TypeOK
    <3> DEFINE u == [tree EXCEPT !.tla = v]
    <3>2. /\ u.tla = v /\ u.source = tree.source /\ u.config = tree.config
          /\ u.conventional = tree.conventional
      BY <3>1, WrittenThere
    <3> HIDE DEF u, v
    <3>3. tree' = tree \/ (fsm # Nothing /\ tree' = u)
      BY <1>1 DEF u
    <3>4. fsm # Nothing => tree' = u
      BY <1>1 DEF u
    <3> QED  BY <3>2, <3>3, <3>4
  <2>3. ASSUME ~touched PROVE LoadedInv(Reached)' /\ RegenInv(Reached)'
    <3>1. /\ loaded = tree.config /\ Loads(tree)
          /\ IF loaded.fsm
             THEN tree.source # None /\ Parses(tree.source) /\ fsm = ParseFsm(tree.source)
             ELSE fsm = Nothing
      BY <1>5, <2>1, <2>3 DEF WriterInv, LoadedInv, RegenInv, Inits
    <3>2. Loads(tree)'
      BY <2>2, <3>1 DEF Loads, FsmShapeIsValid
    <3>3. LoadedInv(Reached)'
      BY <1>1, <2>2, <3>1, <3>2 DEF LoadedInv
    <3>4. RegenInv(Reached)'
      <4>1. loaded' = loaded /\ fsm' = fsm
        BY <1>1
      <4> HIDE DEF v
      <4>2. fsm # Nothing => tree'.tla = v
        BY <2>2
      <4> QED  BY <2>1, <2>2, <3>1, <4>1, <4>2 DEF RegenInv, v
    <3> QED  BY <3>3, <3>4
  <2>4. WritesInv(Reached)' /\ FreshInv(Reached)'
    BY <1>3, <1>5 DEF WritesInv, FreshInv
  <2> QED  BY <1>3, <2>3, <2>4 DEF WriterInv
<1>6. CASE cmd = "init" /\ at = 4
  <2>1. Reached' = 5 /\ Reached = 4
    BY <1>3, <1>6
  <2>2. LoadedInv(Reached)' /\ RegenInv(Reached)' /\ WritesInv(Reached)'
    BY <1>3, <1>6 DEF LoadedInv, RegenInv, WritesInv, Inits
  <2>3. ASSUME ~touched PROVE FreshInv(Reached)'
    <3>1. fsm = Nothing /\ loaded = LaidOut.config /\ tree = LaidOut
      BY <1>6, <2>1, <2>3 DEF WriterInv, FreshInv
    <3>2. tree' = LaidOut
      BY <1>1, <3>1
    <3>3. fsm' = Nothing /\ loaded' = LaidOut.config
      BY <1>1, <3>1
    <3> QED  BY <2>1, <3>2, <3>3 DEF FreshInv
  <2> QED  BY <1>3, <2>2, <2>3 DEF WriterInv
<1> QED  BY <1>2, <1>4, <1>5, <1>6

\* The .cfg is written.
LEMMA WriteCfgKeepsWriters ==
  ASSUME TypeOK, VerdictInv, WriterInv, WriteCfg
  PROVE  WriterInv'
<1> DEFINE v == RenderCfg(fsm)
<1>1. /\ NextIs("write cfg") /\ UNCHANGED <<loaded, fsm>> /\ Advance
      /\ tree' = IF fsm = Nothing THEN tree ELSE [tree EXCEPT !.cfg = v]
  BY DEF WriteCfg
<1>2. /\ at \in Nat /\ at > 0
      /\ \/ cmd = "init --force" \/ (cmd = "regen" /\ at = 3) \/ (cmd = "init" /\ at = 5)
  BY <1>1, StepIsAt
<1>3. Reached = at /\ Reached' = at + 1 /\ cmd' = cmd /\ touched' = touched
  BY <1>1, <1>2, Goes
<1>4. CASE cmd = "init --force"
  BY <1>3, <1>4, ForceIsFree
<1>5. CASE cmd = "regen" /\ at = 3
  <2>1. Reached' = 4 /\ Reached = 3
    BY <1>3, <1>5
  <2>2. /\ fsm # Nothing => tree'.cfg = v
        /\ tree'.tla = tree.tla
        /\ tree'.source = tree.source /\ tree'.config = tree.config
        /\ tree'.conventional = tree.conventional
    <3>1. tree \in Tree
      BY DEF TypeOK
    <3> DEFINE u == [tree EXCEPT !.cfg = v]
    <3>2. /\ u.cfg = v /\ u.tla = tree.tla /\ u.source = tree.source /\ u.config = tree.config
          /\ u.conventional = tree.conventional
      BY <3>1, WrittenThere
    <3> HIDE DEF u, v
    <3>3. tree' = tree \/ (fsm # Nothing /\ tree' = u)
      BY <1>1 DEF u
    <3>4. fsm # Nothing => tree' = u
      BY <1>1 DEF u
    <3> QED  BY <3>2, <3>3, <3>4
  <2>3. ASSUME ~touched PROVE LoadedInv(Reached)' /\ RegenInv(Reached)'
    <3>1. /\ loaded = tree.config /\ Loads(tree)
          /\ IF loaded.fsm
             THEN tree.source # None /\ Parses(tree.source) /\ fsm = ParseFsm(tree.source)
             ELSE fsm = Nothing
          /\ fsm # Nothing => tree.tla = RenderTla(fsm)
      BY <1>5, <2>1, <2>3 DEF WriterInv, LoadedInv, RegenInv, Inits
    <3>2. Loads(tree)'
      BY <2>2, <3>1 DEF Loads, FsmShapeIsValid
    <3>3. LoadedInv(Reached)'
      BY <1>1, <2>2, <3>1, <3>2 DEF LoadedInv
    <3>4. RegenInv(Reached)'
      BY <1>1, <2>1, <2>2, <3>1 DEF RegenInv
    <3> QED  BY <3>3, <3>4
  <2>4. WritesInv(Reached)' /\ FreshInv(Reached)'
    BY <1>3, <1>5 DEF WritesInv, FreshInv
  <2> QED  BY <1>3, <2>3, <2>4 DEF WriterInv
<1>6. CASE cmd = "init" /\ at = 5
  <2>1. Reached' = 6 /\ Reached = 5
    BY <1>3, <1>6
  <2>2. LoadedInv(Reached)' /\ RegenInv(Reached)' /\ WritesInv(Reached)'
    BY <1>3, <1>6 DEF LoadedInv, RegenInv, WritesInv, Inits
  <2>3. ASSUME ~touched PROVE FreshInv(Reached)'
    <3>1. fsm = Nothing /\ loaded = LaidOut.config /\ tree = LaidOut
      BY <1>6, <2>1, <2>3 DEF WriterInv, FreshInv
    <3>2. tree' = LaidOut
      BY <1>1, <3>1
    <3>3. fsm' = Nothing /\ loaded' = LaidOut.config
      BY <1>1, <3>1
    <3> QED  BY <2>1, <3>2, <3>3 DEF FreshInv
  <2> QED  BY <1>3, <2>2, <2>3 DEF WriterInv
<1> QED  BY <1>2, <1>4, <1>5, <1>6

\* The README's counts are written.
LEMMA WriteCountsKeepsWriters ==
  ASSUME TypeOK, VerdictInv, WriterInv, WriteDocsCounts
  PROVE  WriterInv'
<1> DEFINE u == [tree EXCEPT !.readme.counts = Counts(tree)]
<1>1. /\ NextIs("write counts") /\ UNCHANGED <<loaded, fsm>>
      /\ \/ tree.readme = Nothing /\ Advance /\ tree' = tree
         \/ tree.readme # Nothing /\ ~tree.readme.marked /\ End("Err")
         \/ tree.readme # Nothing /\ tree.readme.marked /\ Advance /\ tree' = u
  BY DEF WriteDocsCounts
<1>2. /\ at \in Nat /\ at > 0 /\ tree \in Tree
      /\ \/ cmd = "init --force" \/ (cmd = "counts --write" /\ at = 1)
         \/ (cmd = "init" /\ at = 6)
  BY <1>1, StepIsAt DEF TypeOK
<1>3. CASE End("Err")
  BY <1>2, <1>3, Goes, NowhereYet
<1>4. CASE ~End("Err")
  <2>1. Reached = at /\ Reached' = at + 1 /\ cmd' = cmd /\ touched' = touched
    BY <1>1, <1>2, <1>4, Goes
  <2>2. CASE cmd = "init --force"
    BY <2>1, <2>2, ForceIsFree
  <2>3. CASE cmd = "counts --write" /\ at = 1
    <3>0. at = 1
      BY <2>3
    <3>1. Reached' = 2 /\ Reached = 1 /\ Reached > 0
      BY <2>1, <3>0
    <3>2. CheckDocsCounts(tree)'
      <4>1. CASE tree.readme = Nothing
        BY <1>1, <4>1 DEF CheckDocsCounts
      <4>2. CASE tree.readme # Nothing
        <5>1. tree.readme.marked /\ tree' = u
          BY <1>1, <1>4, <4>2
        <5>2. CheckDocsCounts(u)
          BY <1>2, <4>2, <5>1, CountsSettle
        <5> HIDE DEF u
        <5> QED  BY <5>1, <5>2
      <4> QED  BY <4>1, <4>2
    <3>3. /\ tree'.config = tree.config /\ tree'.source = tree.source
          /\ tree'.conventional = tree.conventional
      <4>1. /\ u.config = tree.config /\ u.source = tree.source
            /\ u.conventional = tree.conventional
        <5>1. tree \in Tree
          BY DEF TypeOK
        <5> QED  BY <5>1, WrittenThere
      <4> HIDE DEF u
      <4> QED  BY <1>1, <1>4, <4>1
    <3>4. ASSUME ~touched PROVE LoadedInv(Reached)'
      <4>1. loaded = tree.config /\ Loads(tree)
        <5>1. cmd \notin Inits /\ Reached > 0
          BY <2>3, <3>1 DEF Inits
        <5>2. LoadedInv(Reached)
          BY <3>4 DEF WriterInv
        <5> QED  BY <5>1, <5>2 DEF LoadedInv
      <4>2. Loads(tree)'
        BY <3>3, <4>1 DEF Loads, FsmShapeIsValid
      <4>3. loaded' = tree'.config
        BY <1>1, <3>3, <4>1
      <4> QED  BY <4>2, <4>3 DEF LoadedInv
    <3>5. RegenInv(Reached)' /\ FreshInv(Reached)' /\ WritesInv(Reached)'
      BY <2>1, <2>3, <3>2 DEF RegenInv, FreshInv, WritesInv
    <3> QED  BY <2>1, <3>4, <3>5 DEF WriterInv
  <2>4. CASE cmd = "init" /\ at = 6
    <3>1. Reached' = 7 /\ Reached = 6
      BY <2>1, <2>4
    <3>2. LoadedInv(Reached)' /\ RegenInv(Reached)' /\ WritesInv(Reached)'
      BY <2>1, <2>4 DEF LoadedInv, RegenInv, WritesInv, Inits
    <3>3. ASSUME ~touched PROVE FreshInv(Reached)'
      <4>1. fsm = Nothing /\ loaded = LaidOut.config /\ tree = LaidOut
        BY <2>4, <3>1, <3>3 DEF WriterInv, FreshInv
      <4>2. tree.readme # Nothing
        BY <4>1, FreshTrees
      <4>3. tree' = u
        BY <1>1, <1>4, <4>2
      <4>4. tree' = Counted
        BY <4>1, <4>3 DEF Counted
      <4>5. fsm' = Nothing /\ loaded' = LaidOut.config
        BY <1>1, <4>1
      <4> HIDE DEF u
      <4> QED  BY <3>1, <4>4, <4>5 DEF FreshInv
    <3> QED  BY <2>1, <3>2, <3>3 DEF WriterInv
  <2> QED  BY <1>2, <2>2, <2>3, <2>4
<1> QED  BY <1>3, <1>4

\* The lock is written.
LEMMA WriteLockKeepsWriters ==
  ASSUME TypeOK, VerdictInv, WriterInv, WriteTraceability
  PROVE  WriterInv'
<1> DEFINE u == [tree EXCEPT !.lock = Snapshot(tree)]
<1>1. /\ NextIs("write lock") /\ UNCHANGED <<loaded, fsm>>
      /\ \/ NothingToTrace(tree) /\ Advance /\ tree' = tree
         \/ ~NothingToTrace(tree) /\ Traceable(tree) /\ Advance /\ tree' = u
         \/ /\ ~NothingToTrace(tree) /\ ~Traceable(tree) /\ tree' = tree
            /\ (cmd \in Inits /\ Advance) \/ End("Err")
  BY DEF WriteTraceability
<1>2. /\ at \in Nat /\ at > 0 /\ tree \in Tree
      /\ \/ cmd = "init --force" \/ (cmd = "traceability --write" /\ at = 1)
         \/ (cmd = "init" /\ at = 7)
  BY <1>1, StepIsAt DEF TypeOK
<1>3. CASE End("Err")
  BY <1>2, <1>3, Goes, NowhereYet
<1>4. CASE ~End("Err")
  <2>1. Reached = at /\ Reached' = at + 1 /\ cmd' = cmd /\ touched' = touched
    BY <1>1, <1>2, <1>4, Goes
  <2>2. CASE cmd = "init --force"
    BY <2>1, <2>2, ForceIsFree
  <2>3. CASE cmd = "traceability --write" /\ at = 1
    <3>0. at = 1
      BY <2>3
    <3>1. Reached' = 2 /\ Reached = 1 /\ Reached > 0
      BY <2>1, <3>0
    <3>2. \/ NothingToTrace(tree) /\ tree' = tree
          \/ ~NothingToTrace(tree) /\ Traceable(tree) /\ tree' = u
      <4>1. cmd \notin Inits
        BY <2>3 DEF Inits
      <4> QED  BY <1>1, <1>4, <4>1
    <3>3. CheckTraceability(tree)'
      <4>1. CASE NothingToTrace(tree) /\ tree' = tree
        BY <4>1 DEF CheckTraceability
      <4>2. CASE ~NothingToTrace(tree) /\ Traceable(tree) /\ tree' = u
        <5>1. CheckTraceability(u)
          BY <1>2, <4>2, LockSettles
        <5> HIDE DEF u
        <5> QED  BY <4>2, <5>1
      <4> QED  BY <3>2, <4>1, <4>2
    <3>4. /\ tree'.config = tree.config /\ tree'.source = tree.source
          /\ tree'.conventional = tree.conventional
      <4>1. /\ u.config = tree.config /\ u.source = tree.source
            /\ u.conventional = tree.conventional
        <5>1. tree \in Tree
          BY DEF TypeOK
        <5> QED  BY <5>1, WrittenThere
      <4> HIDE DEF u
      <4> QED  BY <3>2, <4>1
    <3>5. ASSUME ~touched PROVE LoadedInv(Reached)'
      <4>1. loaded = tree.config /\ Loads(tree)
        <5>1. cmd \notin Inits /\ Reached > 0
          BY <2>3, <3>1 DEF Inits
        <5>2. LoadedInv(Reached)
          BY <3>5 DEF WriterInv
        <5> QED  BY <5>1, <5>2 DEF LoadedInv
      <4>2. Loads(tree)'
        BY <3>4, <4>1 DEF Loads, FsmShapeIsValid
      <4>3. loaded' = tree'.config
        BY <1>1, <3>4, <4>1
      <4> QED  BY <4>2, <4>3 DEF LoadedInv
    <3>6. RegenInv(Reached)' /\ FreshInv(Reached)' /\ WritesInv(Reached)'
      BY <2>1, <2>3, <3>3 DEF RegenInv, FreshInv, WritesInv
    <3> QED  BY <2>1, <3>5, <3>6 DEF WriterInv
  <2>4. CASE cmd = "init" /\ at = 7
    <3>1. Reached' = 8 /\ Reached = 7
      BY <2>1, <2>4
    <3>2. LoadedInv(Reached)' /\ RegenInv(Reached)' /\ WritesInv(Reached)'
      BY <2>1, <2>4 DEF LoadedInv, RegenInv, WritesInv, Inits
    <3>3. ASSUME ~touched PROVE FreshInv(Reached)'
      <4>1. fsm = Nothing /\ loaded = LaidOut.config /\ tree = Counted
        BY <2>4, <3>1, <3>3 DEF WriterInv, FreshInv
      <4>2. tree' = Locked
        <5>1. CASE NothingToTrace(tree)
          <6>1. tree' = tree
            BY <1>1, <5>1
          <6> QED  BY <4>1, <5>1, <6>1 DEF Locked
        <5>2. CASE ~NothingToTrace(tree)
          <6>1. Traceable(tree)
            BY <4>1, <5>2, FreshTrees
          <6>2. tree' = u
            BY <1>1, <5>2, <6>1
          <6> QED  BY <4>1, <5>2, <6>2 DEF Locked
        <5> QED  BY <5>1, <5>2
      <4>3. fsm' = Nothing /\ loaded' = LaidOut.config
        BY <1>1, <4>1
      <4> HIDE DEF u
      <4> QED  BY <3>1, <4>2, <4>3 DEF FreshInv
    <3> QED  BY <2>1, <3>2, <3>3 DEF WriterInv
  <2> QED  BY <1>2, <2>2, <2>3, <2>4
<1> QED  BY <1>3, <1>4

\* init lays its files out, and only in an empty directory.
LEMMA MaterializeKeepsWriters ==
  ASSUME TypeOK, VerdictInv, WriterInv, Materialize
  PROVE  WriterInv'
<1>1. /\ NextIs("materialize") /\ UNCHANGED <<loaded, fsm>>
      /\ \/ (cmd = "init --force" \/ tree = Blank) /\ tree' = Over(tree) /\ Advance
         \/ End("Err")
  BY DEF Materialize
<1>2. /\ at \in Nat /\ at > 0
      /\ cmd = "init --force" \/ (cmd = "init" /\ at = 1)
  BY <1>1, StepIsAt
<1>3. CASE End("Err")
  BY <1>2, <1>3, Goes, NowhereYet
<1>4. CASE ~End("Err")
  <2>1. Reached = at /\ Reached' = at + 1 /\ cmd' = cmd /\ touched' = touched
    BY <1>1, <1>2, <1>4, Goes
  <2>2. CASE cmd = "init --force"
    BY <2>1, <2>2, ForceIsFree
  <2>3. CASE cmd = "init" /\ at = 1
    <3>1. Reached' = 2 /\ Reached = 1
      BY <2>1, <2>3
    <3>2. LoadedInv(Reached)' /\ RegenInv(Reached)' /\ WritesInv(Reached)'
      BY <2>1, <2>3 DEF LoadedInv, RegenInv, WritesInv, Inits
    <3>3. ASSUME ~touched PROVE FreshInv(Reached)'
      <4>1. fsm = Nothing
        BY <2>3, <3>1, <3>3 DEF WriterInv, FreshInv
      <4>2. tree' = LaidOut /\ fsm' = Nothing
        BY <1>1, <1>4, <2>3, <4>1 DEF LaidOut
      <4> QED  BY <3>1, <4>2 DEF FreshInv
    <3> QED  BY <2>1, <3>2, <3>3 DEF WriterInv
  <2> QED  BY <1>2, <2>2, <2>3
<1> QED  BY <1>3, <1>4

\* init loads the configuration it has laid out.
LEMMA LoadKeepsWriters ==
  ASSUME TypeOK, VerdictInv, WriterInv, LoadFrom
  PROVE  WriterInv'
<1>1. /\ NextIs("load") /\ UNCHANGED <<tree, fsm>> /\ loaded' = tree.config
      /\ Advance \/ End("Err")
  BY DEF LoadFrom
<1>2. /\ at \in Nat /\ at > 0
      /\ cmd = "init --force" \/ (cmd = "init" /\ at = 2)
  BY <1>1, StepIsAt
<1>3. CASE End("Err")
  BY <1>2, <1>3, Goes, NowhereYet
<1>4. CASE ~End("Err")
  <2>1. Reached = at /\ Reached' = at + 1 /\ cmd' = cmd /\ touched' = touched
    BY <1>1, <1>2, <1>4, Goes
  <2>2. CASE cmd = "init --force"
    BY <2>1, <2>2, ForceIsFree
  <2>3. CASE cmd = "init" /\ at = 2
    <3>1. Reached' = 3 /\ Reached = 2
      BY <2>1, <2>3
    <3>2. LoadedInv(Reached)' /\ RegenInv(Reached)' /\ WritesInv(Reached)'
      BY <2>1, <2>3 DEF LoadedInv, RegenInv, WritesInv, Inits
    <3>3. ASSUME ~touched PROVE FreshInv(Reached)'
      <4>1. fsm = Nothing /\ tree = LaidOut
        BY <2>3, <3>1, <3>3 DEF WriterInv, FreshInv
      <4>2. fsm' = Nothing /\ tree' = LaidOut /\ loaded' = LaidOut.config
        BY <1>1, <4>1
      <4> QED  BY <3>1, <4>2 DEF FreshInv
    <3> QED  BY <2>1, <3>2, <3>3 DEF WriterInv
  <2> QED  BY <1>2, <2>2, <2>3
<1> QED  BY <1>3, <1>4

\* Every step keeps what the writers have done.
LEMMA NextWriters == TypeOK /\ VerdictInv /\ WriterInv /\ [Next]_vars => WriterInv'
<1> SUFFICES ASSUME TypeOK, VerdictInv, WriterInv, [Next]_vars  PROVE WriterInv'
  OBVIOUS
<1>1. CASE \E c \in Commands, in_container \in BOOLEAN : Start(c, in_container)
  BY <1>1, StartKeepsWriters
<1>2. CASE RunGate
  BY <1>2, RunGateKeepsWriters
<1>3. CASE Parse
  BY <1>3, ParseKeepsWriters
<1>4. CASE WriteTla
  BY <1>4, WriteTlaKeepsWriters
<1>5. CASE WriteCfg
  BY <1>5, WriteCfgKeepsWriters
<1>6. CASE WriteDocsCounts
  BY <1>6, WriteCountsKeepsWriters
<1>7. CASE WriteTraceability
  BY <1>7, WriteLockKeepsWriters
<1>8. CASE Materialize
  BY <1>8, MaterializeKeepsWriters
<1>9. CASE LoadFrom
  BY <1>9, LoadKeepsWriters
<1>10. CASE Finish
  BY <1>10, FinishKeepsWriters
<1>11. CASE Interrupt
  BY <1>11, Goes, NowhereYet DEF Interrupt
<1>12. CASE Edit
  BY <1>12 DEF Edit, WriterInv
<1>13. CASE UNCHANGED vars
  BY <1>13 DEF vars, WriterInv, LoadedInv, RegenInv, WritesInv, FreshInv, Reached, Ended
<1> QED
  BY <1>1, <1>2, <1>3, <1>4, <1>5, <1>6, <1>7, <1>8, <1>9, <1>10, <1>11, <1>12, <1>13
     DEF Next, Work

DhxInv == TypeOK /\ VerdictInv /\ WriterInv

\* The three together hold throughout.
LEMMA DhxInvHolds == Spec => []DhxInv
<1>1. Init => WriterInv
  <2> SUFFICES ASSUME Init PROVE WriterInv
    OBVIOUS
  <2>1. Reached = 0
    BY DEF Init, Reached
  <2> QED  BY <2>1 DEF WriterInv, LoadedInv, RegenInv, WritesInv, FreshInv
<1>2. Spec => []TypeOK
  BY DhxTyped
<1>3. Spec => []VerdictInv
  BY InitVerdict, NextVerdict, PTL DEF Spec
<1>4. Spec => []WriterInv
  BY <1>1, <1>2, <1>3, NextWriters, PTL DEF Spec
<1> QED  BY <1>2, <1>3, <1>4, PTL DEF DhxInv

-----------------------------------------------------------------------------
(* What a green tier and a writer that ends well are worth.                *)

\* A tier that is green on a tree nobody edited has the configuration of that tree,
\* and its gates of requirements, scenarios and code hold there.
LEMMA GreenTier ==
  ASSUME DhxInv, FinishedOk(Tiers)
  PROVE  /\ tree \in Tree /\ Loads(tree)
         /\ RegenCheck(tree.config, tree) /\ Clippy(tree)
         /\ CheckTraceability(tree) /\ CheckBddStyle(tree) /\ CheckBddCoverage(tree)
         /\ CheckVerifiedMarkers(tree)
<1>1. /\ cmd \in Tiers /\ FinishedOk({cmd}) /\ ~touched /\ tree \in Tree
      /\ at = 0 /\ verdict = "Ok"
  BY DEF FinishedOk, Ended, DhxInv, TypeOK
<1>2. Loads(tree)
  <2>1. Reached = Len(Program(cmd)) + 1 /\ Len(Program(cmd)) \in Nat
    BY <1>1, GatesAreCounted DEF Reached, Ended
  <2>2. cmd \notin Inits
    BY <1>1, TiersApart DEF Writers
  <2>3. LoadedInv(Reached)
    BY <1>1 DEF DhxInv, WriterInv
  <2>4. Reached > 0
    BY <2>1
  <2> QED  BY <2>2, <2>3, <2>4 DEF LoadedInv
<1>3. \A g \in TreeGates : Holds(g, tree.config, tree)
  <2>1. \A g \in Range(Gates[cmd]) \ Discovery : Holds(g, tree.config, tree)
    BY <1>1 DEF DhxInv, VerdictInv, VerdictIsExact
  <2> QED  BY <1>1, <2>1, EveryTierRuns
<1>4. /\ Holds("regen", tree.config, tree) /\ Holds("clippy", tree.config, tree)
      /\ Holds("traceability", tree.config, tree) /\ Holds("bdd-style", tree.config, tree)
      /\ Holds("bdd-coverage", tree.config, tree)
      /\ Holds("verified-markers", tree.config, tree)
  BY <1>3 DEF TreeGates
<1> QED  BY <1>1, <1>2, <1>4, GateAsks

\* What the model and the code have in common once a tier is green (fsm.rs:239): for
\* every source, whatever its arms name, guard, return and hide, a step rendered
\* from a state to a state may be made, and a step left out has an arm that is not
\* read for what it is.
THEOREM TheModelIsTheCode == Spec => []ModelIsTheCode
<1>1. DhxInv => ModelIsTheCode
  <2> SUFFICES ASSUME DhxInv, FinishedOk(Tiers), tree.source # None,
                      tree.config.fsm \/ tree.conventional
               PROVE  /\ \A step \in Steps(tree.tla) :
                           {step.source, step.target} \subseteq State
                             => MayMake(tree.source, step)
                      /\ \A step \in CodeSteps(tree.source) \ Steps(tree.tla) :
                           \E k \in MayTake(tree.source, step.source, step.event) :
                             /\ step.target
                                  \in tree.source.arms[k].yields[<<step.source, step.event>>]
                             /\ ~ReadAsItIs(tree.source.arms[k])
                      /\ Range(tree.cfg.states) = Range(tree.source.states)
                      /\ Range(tree.cfg.events) = Range(tree.source.events)
    BY DEF ModelIsTheCode
  <2>1. tree \in Tree /\ Loads(tree) /\ RegenCheck(tree.config, tree) /\ Clippy(tree)
    BY GreenTier
  <2>2. tree.config.fsm
    BY <2>1 DEF Loads, FsmShapeIsValid
  <2>3. tree.source \in Source
    BY <2>1 DEF Tree
  <2>4. /\ Parses(tree.source) /\ CompilesCleanly(tree.source)
        /\ tree.tla = RenderTla(ParseFsm(tree.source))
        /\ tree.cfg = RenderCfg(ParseFsm(tree.source))
    BY <2>1, <2>2 DEF RegenCheck, Clippy
  <2> QED  BY <2>3, <2>4, RenderedIsCode
<1> QED  BY <1>1, DhxInvHolds, PTL

\* What four gates promise of a requirement together, none of them alone: for every
\* set of requirements and every walk of scenarios, over files of any length.
THEOREM RequirementsRealized == Spec => []RequirementsAreRealized
<1>1. DhxInv => RequirementsAreRealized
  <2> SUFFICES ASSUME DhxInv, FinishedOk(Tiers), ~NothingToTrace(tree),
                      NEW req \in Active(tree)
               PROVE  LET stands == Reqs(tree)[req.id] = req
                      IN  /\ stands => <<req.id, req.acceptance>> \in tree.lock
                          /\ \A k \in DOMAIN req.acceptance :
                               LET criterion == req.acceptance[k]
                               IN  /\ \/ criterion.verified # {} \/ criterion.codes = {}
                                      \/ \E file \in Range(Files(tree.features)) :
                                           \E line \in DOMAIN file :
                                             SpeaksFor(file, line, req.id, criterion)
                                   /\ \A technique \in criterion.verified \cap {"kani", "tla"} :
                                        /\ technique \in Keys(req)
                                        /\ \E link \in req.implements_in[technique] :
                                             stands => LinkLeads(tree, link)
    BY DEF RequirementsAreRealized
  <2>1. /\ tree \in Tree
        /\ CheckTraceability(tree) /\ CheckBddStyle(tree) /\ CheckBddCoverage(tree)
        /\ CheckVerifiedMarkers(tree)
    BY GreenTier
  <2> QED  BY <2>1, FourGatesRealize
<1> QED  BY <1>1, DhxInvHolds, PTL

\* Every outcome a green tree's scenarios state is one the system shall have: the Then,
\* and every And that continues it, however long the file.
THEOREM OutcomesSayShall == Spec => []OutcomesAreShalls
<1>1. DhxInv => OutcomesAreShalls
  <2> SUFFICES ASSUME DhxInv, FinishedOk(Tiers),
                      NEW file \in Range(Files(tree.features)), NEW k \in DOMAIN file,
                      NEW j \in 1..k, file[j].kw = "Then",
                      \A between \in j + 1 .. k : file[between].kw = "And"
               PROVE  file[k].shall
    BY DEF OutcomesAreShalls
  <2>1. tree \in Tree /\ CheckBddStyle(tree)
    BY GreenTier
  <2>2. file \in Seq(Line) /\ LintFeatureFile(file)
    <3>1. Files(tree.features) \in Seq(Seq(Line))
      BY <2>1, FilesTyped
    <3> QED  BY <2>1, <3>1 DEF CheckBddStyle, Range
  <2> QED  BY <2>2, OutcomeSaysShall
<1> QED  BY <1>1, DhxInvHolds, PTL

\* A writer that ends well has settled its gate, whatever the tree it found: regen the
\* two files, `counts --write` the README, `traceability --write` the lock; and init
\* on an empty directory leaves every cheap gate green (init.rs:61).
THEOREM WritersHaveSettled == Spec => []WritersSettle
<1>1. DhxInv => WritersSettle
  <2> SUFFICES ASSUME DhxInv PROVE WritersSettle
    OBVIOUS
  <2> DEFINE holds(g) == Holds(g, tree.config, tree)
  <2>1. ASSUME FinishedOk({"regen"}) PROVE holds("regen") /\ holds("spec-sync")
    <3>0. ~touched /\ cmd = "regen" /\ tree \in Tree /\ Ended /\ verdict = "Ok"
          /\ Len(Program(cmd)) = 3
      BY <2>1, WriterPrograms DEF FinishedOk, DhxInv, TypeOK
    <3>1. Reached = 4 /\ ~touched /\ cmd = "regen" /\ tree \in Tree
      <4>1. Len(Program(cmd)) = 3
        BY <3>0
      <4>2. Reached = Len(Program(cmd)) + 1
        BY <3>0 DEF Reached
      <4>3. Reached = 4
        BY <4>1, <4>2
      <4> QED  BY <3>0, <4>3
    <3>2. LoadedInv(Reached) /\ RegenInv(Reached)
      BY <3>1 DEF DhxInv, WriterInv
    <3>3. /\ loaded = tree.config
          /\ IF loaded.fsm
             THEN tree.source # None /\ Parses(tree.source) /\ fsm = ParseFsm(tree.source)
             ELSE fsm = Nothing
          /\ fsm # Nothing => tree.tla = RenderTla(fsm) /\ tree.cfg = RenderCfg(fsm)
      BY <3>1, <3>2 DEF LoadedInv, RegenInv, Inits
    <3>4. ASSUME tree.config.fsm
          PROVE  /\ tree.source # None /\ Parses(tree.source)
                 /\ tree.tla = RenderTla(ParseFsm(tree.source))
                 /\ tree.cfg = RenderCfg(ParseFsm(tree.source))
      <4>1. tree.source # None /\ Parses(tree.source) /\ fsm = ParseFsm(tree.source)
        BY <3>3, <3>4
      <4>2. tree.source \in Source
        BY <3>1, <4>1 DEF Tree
      <4>3. fsm # Nothing
        BY <4>1, <4>2, ParsedTyped, DhxAssumption
      <4> QED  BY <3>3, <4>1, <4>3
    <3>5. RegenCheck(tree.config, tree) /\ CheckSpecSync(tree.config, tree)
      BY <3>4 DEF RegenCheck, CheckSpecSync
    <3> QED  BY <3>5, GateAsks
  <2>2. ASSUME FinishedOk({"counts --write"}) PROVE holds("docs-counts")
    <3>1. ~touched /\ cmd = "counts --write" /\ Ended /\ verdict = "Ok"
      BY <2>2 DEF FinishedOk
    <3>2. Len(Program(cmd)) = 1
      BY <3>1, WriterPrograms
    <3>3. Reached = Len(Program(cmd)) + 1
      BY <3>1 DEF Reached
    <3>4. Reached > 1
      BY <3>2, <3>3
    <3>5. WritesInv(Reached)
      BY <3>1 DEF DhxInv, WriterInv
    <3>6. CheckDocsCounts(tree)
      BY <3>1, <3>4, <3>5 DEF WritesInv
    <3> QED  BY <3>6, GateAsks
  <2>3. ASSUME FinishedOk({"traceability --write"}) PROVE holds("traceability")
    <3>1. ~touched /\ cmd = "traceability --write" /\ Ended /\ verdict = "Ok"
      BY <2>3 DEF FinishedOk
    <3>2. Len(Program(cmd)) = 1
      BY <3>1, WriterPrograms
    <3>3. Reached = Len(Program(cmd)) + 1
      BY <3>1 DEF Reached
    <3>4. Reached > 1
      BY <3>2, <3>3
    <3>5. WritesInv(Reached)
      BY <3>1 DEF DhxInv, WriterInv
    <3>6. CheckTraceability(tree)
      BY <3>1, <3>4, <3>5 DEF WritesInv
    <3> QED  BY <3>6, GateAsks
  <2>4. ASSUME FinishedOk({"init"}), NEW g \in Range(CheapGates) PROVE holds(g)
    <3>0. ~touched /\ cmd = "init" /\ Ended /\ verdict = "Ok" /\ Len(Program(cmd)) = 7
      BY <2>4, WriterPrograms DEF FinishedOk
    <3>1. Reached = 8 /\ ~touched /\ cmd = "init"
      <4>1. Len(Program(cmd)) = 7
        BY <3>0
      <4>2. Reached = Len(Program(cmd)) + 1
        BY <3>0 DEF Reached
      <4>3. Reached = 8
        BY <4>1, <4>2
      <4> QED  BY <3>0, <4>3
    <3>2. tree = Locked
      BY <3>1 DEF DhxInv, WriterInv, FreshInv
    <3>3. g \in CheapNames
      <4>1. CheapGates \in Seq(CheapNames)
        BY DEF CheapGates, CheapNames
      <4> QED  BY <4>1 DEF Range
    <3> QED  BY <3>2, <3>3, FreshTrees
  <2> QED  BY <2>1, <2>2, <2>3, <2>4 DEF WritersSettle
<1> QED  BY <1>1, DhxInvHolds, PTL

=============================================================================
