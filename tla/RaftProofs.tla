------------------------------ MODULE RaftProofs ------------------------------
(***************************************************************************)
(* Theorems about Raft for every cluster, every set of commands and every  *)
(* value of the bounds.                                                    *)
(*                                                                         *)
(* Types: every handler stays within the ranges of the fields.             *)
(*                                                                         *)
(* Elections: a handler is Sound when its new state and its envelopes      *)
(* stand in the relation ElectionInv asks for; every handler is (one lemma *)
(* each), and a Sound step keeps ElectionInv, whichever handler took it.   *)
(*                                                                         *)
(* Steps: what a step can do to the role, the term and the log of its node *)
(* (Moved), handler by handler, and the action properties drawn from it: a *)
(* leader appends only, a node applies an index once, a role changes only  *)
(* along role.rs and for the cause it names.                               *)
(*                                                                         *)
(* Logs: the logs of nodes and the slices of logs on the wire are alike,   *)
(* as pieces of a log, and any two of them agree.                          *)
(***************************************************************************)
EXTENDS Raft, FiniteSetTheorems, SequenceTheorems, WellFoundedInduction, TLAPS

-----------------------------------------------------------------------------
(* Least and greatest elements.                                            *)

\* A non-empty set of naturals has a least element, which Min chooses.
LEMMA MinExists ==
  ASSUME NEW S, S \subseteq Nat, S # {}
  PROVE  Min(S) \in S /\ \A y \in S : Min(S) <= y
<1>1. PICK x \in S : \A y \in S : <<y, x>> \notin OpToRel(<, Nat)
  BY NatLessThanWellFounded, WFMin
<1>2. ASSUME NEW y \in S PROVE x <= y
  <2>1. x \in Nat /\ y \in Nat
    OBVIOUS
  <2>2. ~ (y < x)
    <3>1. SUFFICES ASSUME y < x PROVE <<y, x>> \in OpToRel(<, Nat)
      BY <1>1
    <3>2. <<y, x>> \in Nat \X Nat /\ <<y, x>>[1] < <<y, x>>[2]
      BY <2>1, <3>1
    <3> QED  BY <3>2 DEF OpToRel
  <2> QED  BY <2>1, <2>2
<1> QED  BY <1>2 DEF Min

\* A non-empty bounded set of naturals has a greatest one, which Max chooses.
LEMMA MaxExists ==
  ASSUME NEW b \in Nat, NEW S, S \subseteq 0..b, S # {}
  PROVE  Max(S) \in S /\ \A y \in S : Max(S) >= y
<1> DEFINE T == {b - x : x \in S}
<1>1. T \subseteq Nat /\ T # {}
  <2>1. \A x \in S : b - x \in Nat
    OBVIOUS
  <2> QED  BY <2>1
<1>2. PICK t \in T : \A y \in T : t <= y
  BY <1>1, MinExists
<1>3. PICK z \in S : t = b - z
  BY <1>2
<1>4. ASSUME NEW y \in S PROVE y <= z
  <2>1. b - y \in T
    OBVIOUS
  <2>2. b - z <= b - y
    BY <1>2, <1>3, <2>1
  <2> QED  BY <2>2
<1> QED  BY <1>4 DEF Max

-----------------------------------------------------------------------------
(* The log operators stay within the types.                                *)

\* A slice of a log is a log.
LEMMA SliceType ==
  ASSUME NEW log \in Seq(Entry), NEW low \in Nat \ {0}
  PROVE  SliceFrom(log, low) \in Seq(Entry)
<1>1. \A k \in low..Len(log) : log[k] \in Entry
  OBVIOUS
<1> QED  BY <1>1, SubSeqProperties DEF SliceFrom

\* A log into which entries are spliced is a log.
LEMMA SpliceType ==
  ASSUME NEW log \in Seq(Entry), NEW entries \in Seq(Entry),
         NEW prev \in 0..Len(log)
  PROVE  Splice(log, prev, entries) \in Seq(Entry)
<1> DEFINE clashes == Clashes(log, prev, entries)
           k == Min(clashes)
<1>1. CASE clashes = {}
  BY <1>1 DEF Splice
<1>2. CASE clashes # {}
  <2>1. k \in 1..Len(entries) /\ (prev + k > Len(log) \/ prev + k <= Len(log))
    <3>1. clashes \subseteq Nat
      BY DEF Clashes
    <3>2. k \in clashes
      BY <1>2, <3>1, MinExists
    <3> QED  BY <3>2 DEF Clashes
  <2>2. prev + k - 1 <= Len(log)
    <3>1. CASE k = 1
      BY <3>1
    <3>2. CASE k > 1
      <4>1. k - 1 \notin clashes
        <5>1. clashes \subseteq Nat
          BY DEF Clashes
        <5>2. \A y \in clashes : k <= y
          BY <1>2, <5>1, MinExists
        <5> QED  BY <2>1, <5>2
      <4> QED  BY <2>1, <3>2, <4>1 DEF Clashes
    <3> QED  BY <2>1, <3>1, <3>2
  <2>3. SubSeq(log, 1, prev + k - 1) \in Seq(Entry)
    BY <2>1, <2>2, SubSeqProperties
  <2>4. SubSeq(entries, k, Len(entries)) \in Seq(Entry)
    BY <2>1, SubSeqProperties
  <2> QED  BY <1>2, <2>3, <2>4, ConcatProperties DEF Splice
<1> QED  BY <1>1, <1>2

-----------------------------------------------------------------------------
(* Committing touches nothing an election reads.                           *)

\* m has the role, term, vote and tally of n.
SameElection(n, m) == /\ m.role = n.role
                      /\ m.current_term = n.current_term
                      /\ m.voted_for = n.voted_for
                      /\ m.votes_received = n.votes_received

\* Applying what is committed extends only the applied commands.
LEMMA ApplyType ==
  ASSUME NEW n \in Node
  PROVE  ApplyCommitted(n) \in Node /\ SameElection(n, ApplyCommitted(n))
<1> DEFINE fresh == SubSeq(n.log, n.last_applied + 1,
                           Smaller(n.commit_index, Len(n.log)))
           kv == n.kv \o [k \in 1..Len(fresh) |-> fresh[k].command]
<1>1. n.log \in Seq(Entry) /\ n.kv \in Seq(Command)
      /\ n.last_applied \in Nat /\ n.commit_index \in Nat
  BY DEF Node
<1>2. fresh \in Seq(Entry)
  <2>1. Smaller(n.commit_index, Len(n.log)) \in 0..Len(n.log)
    BY <1>1 DEF Smaller
  <2>2. \A k \in n.last_applied + 1 .. Smaller(n.commit_index, Len(n.log)) :
          n.log[k] \in Entry
    BY <1>1, <2>1
  <2> QED  BY <1>1, <2>1, <2>2, SubSeqProperties
<1>3. [k \in 1..Len(fresh) |-> fresh[k].command] \in Seq(Command)
  <2>1. Len(fresh) \in Nat /\ \A k \in 1..Len(fresh) : fresh[k] \in Entry
    BY <1>2
  <2>2. \A k \in 1..Len(fresh) : fresh[k].command \in Command
    BY <2>1 DEF Entry
  <2> HIDE DEF fresh
  <2> QED  BY <2>1, <2>2
<1>4. kv \in Seq(Command)
  BY <1>1, <1>3, ConcatProperties
<1>5. ApplyCommitted(n) = n
      \/ ApplyCommitted(n) = [n EXCEPT !.kv = kv, !.last_applied = n.commit_index]
  BY DEF ApplyCommitted
<1> HIDE DEF kv, fresh
<1> QED  BY <1>1, <1>4, <1>5 DEF Node, SameElection

\* Committing an index of the log keeps the node's type and election state.
LEMMA CommitAtType ==
  ASSUME NEW n \in Node, NEW index \in Nat
  PROVE  CommitAt(n, index) \in Node /\ SameElection(n, CommitAt(n, index))
<1> DEFINE m == [n EXCEPT !.commit_index = index]
<1>1. m \in Node /\ SameElection(n, m)
  BY DEF Node, SameElection
<1> HIDE DEF m
<1>2. ApplyCommitted(m) \in Node /\ SameElection(m, ApplyCommitted(m))
  BY <1>1, ApplyType
<1>3. CommitAt(n, index) = ApplyCommitted(m)
  BY DEF CommitAt, m
<1> QED  BY <1>1, <1>2, <1>3 DEF SameElection

\* Looking for an index to commit keeps the type and the election state.
LEMMA AdvanceType ==
  ASSUME NEW n \in Node
  PROVE  /\ MaybeAdvanceCommit(n) \in Node
         /\ SameElection(n, MaybeAdvanceCommit(n))
<1>1. CASE Committable(n) = {}
  BY <1>1 DEF MaybeAdvanceCommit, SameElection
<1>2. CASE Committable(n) # {}
  <2>1. Len(n.log) \in Nat /\ n.commit_index \in Nat
    BY DEF Node
  <2>2. Committable(n) \subseteq 0..Len(n.log)
    BY <2>1 DEF Committable, LastIndex
  <2>3. Max(Committable(n)) \in Nat
    BY <1>2, <2>1, <2>2, MaxExists
  <2> QED  BY <1>2, <2>3, CommitAtType DEF MaybeAdvanceCommit
<1> QED  BY <1>1, <1>2

-----------------------------------------------------------------------------
(* The handlers stay within the types.                                     *)

Typed(r) == r.node \in Node /\ r.out \subseteq Envelope

\* The last index and term of a log are naturals.
LEMMA LastType ==
  ASSUME NEW log \in Seq(Entry)
  PROVE  LastIndex(log) \in Nat /\ LastTerm(log) \in Nat
<1>1. log # <<>> => log[Len(log)] \in Entry
  OBVIOUS
<1> QED  BY <1>1 DEF LastIndex, LastTerm, Entry

\* The term at an index, where there is one, is a natural.
LEMMA TermAtType ==
  ASSUME NEW log \in Seq(Entry), NEW index \in Nat
  PROVE  TermAt(log, index) \in Nat
<1>1. index \in 1..Len(log) => log[index] \in Entry
  OBVIOUS
<1> QED  BY <1>1 DEF TermAt, Entry

\* A timeout leaves a node and messages of their types.
LEMMA StartElectionType ==
  ASSUME NEW i \in Server, NEW n \in Node
  PROVE  Typed(StartElection(i, n))
<1>1. LastIndex(n.log) \in Nat /\ LastTerm(n.log) \in Nat /\ n.current_term \in Nat
  BY LastType DEF Node
<1> DEFINE c == [n EXCEPT !.current_term = @ + 1,
                          !.role = Candidate,
                          !.voted_for = i,
                          !.votes_received = {i}]
           m == [type |-> "RequestVote", term |-> c.current_term, candidate_id |-> i,
                 last_log_index |-> LastIndex(n.log), last_log_term |-> LastTerm(n.log)]
           out == {[from |-> i, to |-> p, msg |-> m] : p \in Peers(i)}
<1>2. c \in Node /\ c.current_term \in Nat
  <2>1. /\ n.current_term + 1 \in Nat
        /\ i \in Server \cup {Nil}
        /\ {i} \in SUBSET Server
    BY <1>1
  <2>2. Candidate \in {Follower, Candidate, Leader}
    OBVIOUS
  <2> QED  BY <2>1, <2>2 DEF Node
<1>3. m \in RequestVote
  <2> HIDE DEF c
  <2> QED  BY <1>1, <1>2 DEF RequestVote
<1>4. out \subseteq Envelope
  <2> HIDE DEF m
  <2> QED  BY <1>3 DEF Envelope, Message, Peers
<1>5. StartElection(i, n) = Done(c, out, TRUE)
  BY DEF StartElection
<1> HIDE DEF c, out
<1> QED  BY <1>2, <1>4, <1>5 DEF Typed, Done

\* What a leader sends a peer is an AppendEntries message.
LEMMA AppendEntriesForType ==
  ASSUME NEW n \in Node, NEW to \in Server
  PROVE  AppendEntriesFor(n, to) \in AppendEntries
<1> DEFINE prev == IF n.next_index[to] > 1 THEN n.next_index[to] - 1 ELSE 0
<1>1. n.log \in Seq(Entry) /\ n.next_index[to] \in Nat \ {0}
      /\ n.current_term \in Nat /\ n.commit_index \in Nat
  BY DEF Node
<1>2. prev \in Nat
  BY <1>1
<1>3. TermAt(n.log, prev) \in Nat /\ SliceFrom(n.log, prev + 1) \in Seq(Entry)
  <2> HIDE DEF prev
  <2>1. prev + 1 \in Nat \ {0}
    BY <1>2
  <2> QED  BY <1>1, <1>2, <2>1, TermAtType, SliceType
<1> QED  BY <1>1, <1>2, <1>3 DEF AppendEntriesFor, AppendEntries

\* So is everything it broadcasts.
LEMMA BroadcastType ==
  ASSUME NEW i \in Server, NEW n \in Node
  PROVE  BroadcastAppendEntries(i, n) \subseteq Envelope
  BY AppendEntriesForType DEF BroadcastAppendEntries, Envelope, Message, Peers

\* Stepping down keeps the node's type.
LEMMA StepDownType ==
  ASSUME NEW n \in Node, NEW term \in Nat
  PROVE  StepDown(n, term) \in Node
  BY DEF StepDown, Node

\* A vote request is answered with a message of its type.
LEMMA OnRequestVoteType ==
  ASSUME NEW i \in Server, NEW n \in Node, NEW from \in Server,
         NEW m \in RequestVote
  PROVE  Typed(OnRequestVote(i, n, from, m))
<1>1. ShouldGrantVote(n, m) \in BOOLEAN
  BY DEF ShouldGrantVote
<1>2. n.current_term \in Nat /\ m.candidate_id \in Server
  BY DEF Node, RequestVote
<1>3. [n EXCEPT !.voted_for = m.candidate_id] \in Node
  BY <1>2 DEF Node
<1>4. [from |-> i, to |-> from,
       msg |-> [type |-> "RequestVoteReply", term |-> n.current_term,
                granted |-> ShouldGrantVote(n, m)]] \in Envelope
  BY <1>1, <1>2 DEF Envelope, Message, RequestVoteReply
<1> QED  BY <1>3, <1>4 DEF Typed, OnRequestVote, Done, Reply

\* A new leader's next and match indexes are of their types.
LEMMA BecomeLeaderType ==
  ASSUME NEW n \in Node
  PROVE  BecomeLeader(n) \in Node
<1>1. LastIndex(n.log) \in Nat
  BY LastType DEF Node
<1>2. /\ [p \in Server |-> LastIndex(n.log) + 1] \in [Server -> Nat \ {0}]
      /\ [p \in Server |-> 0] \in [Server -> Nat]
  BY <1>1
<1> DEFINE next == [p \in Server |-> LastIndex(n.log) + 1]
           match == [p \in Server |-> 0]
<1>3. BecomeLeader(n) = [n EXCEPT !.role = Leader, !.next_index = next,
                                  !.match_index = match]
  BY DEF BecomeLeader
<1> HIDE DEF next, match
<1> QED  BY <1>2, <1>3 DEF Node, next, match

\* A vote, counted or not, keeps the types.
LEMMA OnVoteReplyType ==
  ASSUME NEW i \in Server, NEW n \in Node, NEW from \in Server,
         NEW m \in RequestVoteReply
  PROVE  Typed(OnVoteReply(i, n, from, m))
<1> DEFINE votes == IF m.granted THEN n.votes_received \cup {from}
                                 ELSE n.votes_received \ {from}
           v == [n EXCEPT !.votes_received = votes]
<1>1. v \in Node
  BY DEF Node
<1>2. BecomeLeader(v) \in Node
  BY <1>1, BecomeLeaderType
<1>3. BroadcastAppendEntries(i, BecomeLeader(v)) \subseteq Envelope
  BY <1>2, BroadcastType
<1> QED  BY <1>1, <1>2, <1>3 DEF Typed, OnVoteReply, Done

\* A proposal keeps the types.
LEMMA ClientProposeType ==
  ASSUME NEW i \in Server, NEW n \in Node, NEW command \in Command
  PROVE  /\ Typed(ClientPropose(i, n, command))
         /\ SameElection(n, ClientPropose(i, n, command).node)
<1> DEFINE x == Extended(n, command)
           a == MaybeAdvanceCommit(x)
<1>1. x \in Node /\ SameElection(n, x)
  <2>1. [term |-> n.current_term, command |-> command] \in Entry
    BY DEF Node, Entry
  <2>2. n.log \in Seq(Entry)
    BY DEF Node
  <2>3. Append(n.log, [term |-> n.current_term, command |-> command]) \in Seq(Entry)
    BY <2>1, <2>2, AppendProperties
  <2> QED  BY <2>3 DEF Extended, Node, SameElection
<1>2. a \in Node /\ SameElection(x, a)
  <2> HIDE DEF x
  <2> QED  BY <1>1, AdvanceType
<1>3. BroadcastAppendEntries(i, a) \subseteq Envelope
  <2> HIDE DEF a
  <2> QED  BY <1>2, BroadcastType
<1>4. \/ ClientPropose(i, n, command) = Done(a, BroadcastAppendEntries(i, a), FALSE)
      \/ ClientPropose(i, n, command) = Done(n, {}, FALSE)
  BY DEF ClientPropose
<1> HIDE DEF a
<1> QED  BY <1>1, <1>2, <1>3, <1>4 DEF Typed, Done, SameElection

\* An acknowledgement is a message of its type.
LEMMA AppendReplyType ==
  ASSUME NEW i \in Server, NEW to \in Server, NEW n \in Node,
         NEW success \in BOOLEAN, NEW match \in Nat
  PROVE  AppendReply(i, to, n, success, match) \subseteq Envelope
<1>1. [type |-> "AppendEntriesReply", term |-> n.current_term,
       success |-> success, match_index |-> match] \in AppendEntriesReply
  BY DEF AppendEntriesReply, Node
<1> QED  BY <1>1 DEF AppendReply, Reply, Envelope, Message

\* Accepting or refusing a leader's entries keeps the types.
LEMMA OnAppendEntriesType ==
  ASSUME NEW i \in Server, NEW n \in Node, NEW from \in Server,
         NEW m \in AppendEntries
  PROVE  /\ Typed(OnAppendEntries(i, n, from, m))
         /\ SameElection([n EXCEPT !.role = OnAppendEntries(i, n, from, m).node.role],
                         OnAppendEntries(i, n, from, m).node)
         /\ OnAppendEntries(i, n, from, m).node.role \in {n.role, Follower}
<1> DEFINE f == [n EXCEPT !.role = Follower]
           log == Splice(f.log, m.prev_log_index, m.entries)
           s == [f EXCEPT !.log = log]
           last == LastIndex(s.log)
           d == IF m.leader_commit > s.commit_index
                THEN CommitAt(s, Smaller(m.leader_commit, last))
                ELSE s
           r == OnAppendEntries(i, n, from, m)
<1>1. f \in Node /\ f.role = Follower
  BY DEF Node
<1>2. SameElection([n EXCEPT !.role = Follower], f)
  BY DEF SameElection
<1>3. ASSUME m.term >= n.current_term,
             Matches(n.log, m.prev_log_index, m.prev_log_term)
      PROVE  d \in Node /\ SameElection(f, d) /\ last \in Nat
  <2>1. n.log \in Seq(Entry) /\ f.log = n.log /\ m.entries \in Seq(Entry)
        /\ m.prev_log_index \in 0..Len(n.log) /\ m.leader_commit \in Nat
    BY <1>3 DEF Node, AppendEntries, Matches
  <2>2. log \in Seq(Entry)
    BY <2>1, SpliceType
  <2>3. s \in Node /\ SameElection(f, s) /\ s.log \in Seq(Entry)
    <3> HIDE DEF log
    <3> QED  BY <1>1, <2>2 DEF Node, SameElection
  <2> HIDE DEF s
  <2>4. last \in Nat
    BY <2>3, LastType
  <2> HIDE DEF last
  <2>5. Smaller(m.leader_commit, last) \in Nat
    BY <2>1, <2>4 DEF Smaller
  <2> QED  BY <2>3, <2>4, <2>5, CommitAtType DEF SameElection
<1>4. \/ r = Done(n, AppendReply(i, from, n, FALSE, 0), FALSE)
      \/ r = Done(f, AppendReply(i, from, f, FALSE, 0), TRUE)
      \/ /\ m.term >= n.current_term
         /\ Matches(n.log, m.prev_log_index, m.prev_log_term)
         /\ r = Done(d, AppendReply(i, from, d, TRUE, last), TRUE)
  <2>1. m.term < n.current_term \/ m.term >= n.current_term
    BY DEF AppendEntries, Node
  <2> QED  BY <2>1 DEF OnAppendEntries
<1> HIDE DEF d, f, last, r
<1>5. CASE r = Done(n, AppendReply(i, from, n, FALSE, 0), FALSE)
  <2>1. AppendReply(i, from, n, FALSE, 0) \subseteq Envelope
    BY AppendReplyType
  <2>2. r.node = n /\ r.out = AppendReply(i, from, n, FALSE, 0)
    BY <1>5 DEF Done
  <2>3. SameElection([n EXCEPT !.role = n.role], n)
    BY DEF SameElection, Node
  <2> QED  BY <2>1, <2>2, <2>3 DEF Typed, r
<1>6. CASE r = Done(f, AppendReply(i, from, f, FALSE, 0), TRUE)
  <2>1. AppendReply(i, from, f, FALSE, 0) \subseteq Envelope
    BY <1>1, AppendReplyType
  <2>2. r.node = f /\ r.out = AppendReply(i, from, f, FALSE, 0)
    BY <1>6 DEF Done
  <2> QED  BY <1>1, <1>2, <2>1, <2>2 DEF Typed, r
<1>7. CASE /\ m.term >= n.current_term
           /\ Matches(n.log, m.prev_log_index, m.prev_log_term)
           /\ r = Done(d, AppendReply(i, from, d, TRUE, last), TRUE)
  <2>1. d \in Node /\ SameElection(f, d) /\ last \in Nat
    BY <1>3, <1>7
  <2>2. AppendReply(i, from, d, TRUE, last) \subseteq Envelope
    BY <2>1, AppendReplyType
  <2>3. r.node = d /\ r.out = AppendReply(i, from, d, TRUE, last)
    BY <1>7 DEF Done
  <2>4. d.role = Follower /\ SameElection([n EXCEPT !.role = Follower], d)
    BY <1>1, <1>2, <2>1 DEF SameElection
  <2> QED  BY <2>1, <2>2, <2>3, <2>4 DEF Typed, r
<1> QED  BY <1>4, <1>5, <1>6, <1>7

\* Taking note of an answer keeps the types.
LEMMA OnAppendReplyType ==
  ASSUME NEW i \in Server, NEW n \in Node, NEW from \in Server,
         NEW m \in AppendEntriesReply
  PROVE  /\ Typed(OnAppendReply(i, n, from, m))
         /\ SameElection(n, OnAppendReply(i, n, from, m).node)
         /\ OnAppendReply(i, n, from, m).out = {}
<1> DEFINE a == [n EXCEPT !.match_index[from] = m.match_index,
                          !.next_index[from] = m.match_index + 1]
           b == [n EXCEPT !.next_index[from] = BackOff(@)]
           r == OnAppendReply(i, n, from, m)
<1>1. a \in Node /\ SameElection(n, a)
  <2>1. m.match_index \in Nat /\ m.match_index + 1 \in Nat \ {0}
    BY DEF AppendEntriesReply
  <2> QED  BY <2>1 DEF Node, SameElection
<1>2. b \in Node /\ SameElection(n, b)
  <2>1. n.next_index[from] \in Nat \ {0}
    BY DEF Node
  <2>2. BackOff(n.next_index[from]) \in Nat \ {0}
    BY <2>1 DEF BackOff
  <2> QED  BY <2>2 DEF Node, SameElection
<1> HIDE DEF a, b
<1>3. MaybeAdvanceCommit(a) \in Node /\ SameElection(n, MaybeAdvanceCommit(a))
  BY <1>1, AdvanceType DEF SameElection
<1>4. \/ r = Done(n, {}, FALSE)
      \/ r = Done(MaybeAdvanceCommit(a), {}, FALSE)
      \/ r = Done(b, {}, FALSE)
  BY DEF OnAppendReply, a, b
<1>5. r.node \in {n, MaybeAdvanceCommit(a), b} /\ r.out = {}
  BY <1>4 DEF Done
<1> HIDE DEF r
<1>6. Typed(r) /\ SameElection(n, r.node)
  BY <1>2, <1>3, <1>5 DEF Typed, SameElection
<1> QED  BY <1>5, <1>6 DEF r

\* The handler a message is dispatched to, by the type of the message.
LEMMA DispatchByType ==
  ASSUME NEW i, NEW n, NEW from, NEW m \in Message
  PROVE  \/ m \in RequestVote /\ Dispatch(i, n, from, m) = OnRequestVote(i, n, from, m)
         \/ m \in RequestVoteReply /\ Dispatch(i, n, from, m) = OnVoteReply(i, n, from, m)
         \/ m \in AppendEntries /\ Dispatch(i, n, from, m) = OnAppendEntries(i, n, from, m)
         \/ m \in AppendEntriesReply /\ Dispatch(i, n, from, m) = OnAppendReply(i, n, from, m)
<1>1. CASE m \in RequestVote
  <2>1. m.type = "RequestVote"
    BY <1>1 DEF RequestVote
  <2> QED  BY <1>1, <2>1 DEF Dispatch
<1>2. CASE m \in RequestVoteReply
  <2>1. m.type = "RequestVoteReply"
    BY <1>2 DEF RequestVoteReply
  <2> QED  BY <1>2, <2>1 DEF Dispatch
<1>3. CASE m \in AppendEntries
  <2>1. m.type = "AppendEntries"
    BY <1>3 DEF AppendEntries
  <2> QED  BY <1>3, <2>1 DEF Dispatch
<1>4. CASE m \in AppendEntriesReply
  <2>1. m.type = "AppendEntriesReply"
    BY <1>4 DEF AppendEntriesReply
  <2> QED  BY <1>4, <2>1 DEF Dispatch
<1> QED  BY <1>1, <1>2, <1>3, <1>4 DEF Message

\* Stepping down to the term of a message keeps the node's type.
LEMMA AtTermOfType ==
  ASSUME NEW n \in Node, NEW m \in Message
  PROVE  AtTermOf(n, m) \in Node
<1>1. m.term \in Nat
  BY DEF Message, RequestVote, RequestVoteReply, AppendEntries, AppendEntriesReply
<1> QED  BY <1>1, StepDownType DEF AtTermOf

\* Handle is Dispatch at the term the universal rule leaves, but for `reset`.
LEMMA HandleDispatches ==
  ASSUME NEW i, NEW n, NEW from, NEW m \in Message
  PROVE  LET r == Dispatch(i, AtTermOf(n, m), from, m)
             h == Handle(i, n, from, m)
         IN  /\ h.node = r.node /\ h.out = r.out
             /\ h.reset <=> r.reset \/ m.term > n.current_term
<1> DEFINE p == AtTermOf(n, m)
           r == Dispatch(i, p, from, m)
           h == Handle(i, n, from, m)
<1>1. h = [r EXCEPT !.reset = @ \/ m.term > n.current_term]
  BY DEF Handle
<1>2. PICK x, y, z : r = Done(x, y, z)
  <2>1. \/ r = OnRequestVote(i, p, from, m)
        \/ r = OnVoteReply(i, p, from, m)
        \/ r = OnAppendEntries(i, p, from, m)
        \/ r = OnAppendReply(i, p, from, m)
    BY DispatchByType
  <2> HIDE DEF p, r
  <2>2. CASE r = OnRequestVote(i, p, from, m)
    BY <2>2 DEF OnRequestVote
  <2>3. CASE r = OnVoteReply(i, p, from, m)
    BY <2>3 DEF OnVoteReply
  <2>4. CASE r = OnAppendEntries(i, p, from, m)
    BY <2>4 DEF OnAppendEntries
  <2>5. CASE r = OnAppendReply(i, p, from, m)
    BY <2>5 DEF OnAppendReply
  <2> QED  BY <2>1, <2>2, <2>3, <2>4, <2>5
<1> HIDE DEF r, h
<1>3. /\ h.node = r.node /\ h.out = r.out
      /\ h.reset <=> r.reset \/ m.term > n.current_term
  BY <1>1, <1>2 DEF Done
<1> QED  BY <1>3 DEF r, h

\* Every message of its type is handled into a node and messages of theirs.
LEMMA HandleType ==
  ASSUME NEW i \in Server, NEW n \in Node, NEW from \in Server, NEW m \in Message
  PROVE  Typed(Handle(i, n, from, m))
<1> DEFINE p == AtTermOf(n, m)
           r == Dispatch(i, p, from, m)
<1>1. p \in Node
  BY AtTermOfType
<1>2. Typed(r)
  <2> HIDE DEF p
  <2>1. CASE m \in RequestVote /\ r = OnRequestVote(i, p, from, m)
    BY <1>1, <2>1, OnRequestVoteType
  <2>2. CASE m \in RequestVoteReply /\ r = OnVoteReply(i, p, from, m)
    BY <1>1, <2>2, OnVoteReplyType
  <2>3. CASE m \in AppendEntries /\ r = OnAppendEntries(i, p, from, m)
    BY <1>1, <2>3, OnAppendEntriesType
  <2>4. CASE m \in AppendEntriesReply /\ r = OnAppendReply(i, p, from, m)
    BY <1>1, <2>4, OnAppendReplyType
  <2> QED  BY <2>1, <2>2, <2>3, <2>4, DispatchByType
<1> QED  BY <1>2, HandleDispatches DEF Typed

-----------------------------------------------------------------------------
(* Type correctness of the cluster.                                        *)

\* A step with a typed result keeps the cluster's type.
LEMMA StepType ==
  ASSUME TypeOK, NEW i \in Server, NEW r, Typed(r), Step(i, r)
  PROVE  TypeOK'
  BY DEF TypeOK, Typed, Step

\* A fresh node is of the type.
LEMMA InitType == Init => TypeOK
<1> SUFFICES ASSUME Init PROVE TypeOK
  OBVIOUS
<1>1. NewNode \in Node
  <2>1. /\ <<>> \in Seq(Entry) /\ <<>> \in Seq(Command)
        /\ [p \in Server |-> 1] \in [Server -> Nat \ {0}]
        /\ [p \in Server |-> 0] \in [Server -> Nat]
    OBVIOUS
  <2> DEFINE next == [p \in Server |-> 1]
             match == [p \in Server |-> 0]
  <2>2. next \in [Server -> Nat \ {0}] /\ match \in [Server -> Nat]
    BY <2>1
  <2>3. NewNode = [role |-> Follower, current_term |-> 0, voted_for |-> Nil,
                   log |-> <<>>, commit_index |-> 0, last_applied |-> 0,
                   kv |-> <<>>, votes_received |-> {},
                   next_index |-> next, match_index |-> match]
    BY DEF NewNode
  <2> HIDE DEF next, match
  <2> QED  BY <2>1, <2>2, <2>3 DEF Node
<1> QED  BY <1>1 DEF Init, TypeOK

\* Every step keeps the types.
LEMMA NextType == TypeOK /\ [Next]_vars => TypeOK'
<1> SUFFICES ASSUME TypeOK, [Next]_vars PROVE TypeOK'
  OBVIOUS
<1>1. ASSUME NEW i \in Server, ElectionTimeout(i) PROVE TypeOK'
  <2>1. node[i] \in Node
    BY DEF TypeOK
  <2>2. Typed(StartElection(i, node[i]))
    BY <2>1, StartElectionType
  <2> QED  BY <1>1, <2>2, StepType DEF ElectionTimeout
<1>2. ASSUME NEW i \in Server, Heartbeat(i) PROVE TypeOK'
  <2> DEFINE r == Done(node[i], BroadcastAppendEntries(i, node[i]), FALSE)
  <2>1. node[i] \in Node
    BY DEF TypeOK
  <2>2. Typed(r)
    BY <2>1, BroadcastType DEF Typed, Done
  <2> QED  BY <1>2, <2>2, StepType DEF Heartbeat
<1>3. ASSUME NEW i \in Server, NEW command \in Command, Propose(i, command)
      PROVE  TypeOK'
  <2>1. node[i] \in Node
    BY DEF TypeOK
  <2>2. Typed(ClientPropose(i, node[i], command))
    BY <2>1, ClientProposeType
  <2> QED  BY <1>3, <2>2, StepType DEF Propose
<1>4. ASSUME NEW type, Receive(type) PROVE TypeOK'
  <2>1. PICK e \in sent : Step(e.to, Handle(e.to, node[e.to], e.from, e.msg))
    BY <1>4 DEF Receive
  <2>2. e.to \in Server /\ e.from \in Server /\ e.msg \in Message
    BY DEF TypeOK, Envelope
  <2>3. node[e.to] \in Node
    BY <2>2 DEF TypeOK
  <2>4. Typed(Handle(e.to, node[e.to], e.from, e.msg))
    BY <2>2, <2>3, HandleType
  <2> QED  BY <2>1, <2>2, <2>4, StepType
<1>5. CASE UNCHANGED vars
  BY <1>5 DEF TypeOK, vars
<1> QED  BY <1>1, <1>2, <1>3, <1>4, <1>5
         DEF Next, ReceiveRequestVote, ReceiveVoteReply, ReceiveAppendEntries,
             ReceiveAppendReply

\* Every reachable state is well typed: node.rs's fields keep their ranges (no
\* next_index of 0 to underflow, an id where an id is expected) under any
\* interleaving of handlers, whatever the size of the cluster.
THEOREM TypeCorrect == Spec => []TypeOK
<1>1. Init => TypeOK
  BY InitType
<1>2. TypeOK /\ [Next]_vars => TypeOK'
  BY NextType
<1> QED  BY <1>1, <1>2, PTL DEF Spec

-----------------------------------------------------------------------------
(* Elections: what a handler answers for.                                  *)

\* A result of node i in state n that keeps its term and its vote, counts only
\* votes granted to it, and sends only what its new state answers for.
Sound(i, n, r) ==
  /\ Typed(r)
  /\ n.current_term <= r.node.current_term
  /\ r.node.current_term = n.current_term =>
       n.voted_for \in {Nil, r.node.voted_for}
  /\ Counts(i, r.node)
  /\ \A e \in r.out :
       /\ e.from = i /\ e.to # i
       /\ e.msg.term = r.node.current_term
       /\ \A c \in Server : Backs(e, c) => r.node.voted_for = c
       /\ e.msg.type = "RequestVote" => e.msg.candidate_id = i
       /\ e.msg.type = "AppendEntries" => r.node.role = Leader

-----------------------------------------------------------------------------
(* Every handler is sound.                                                 *)

\* A new candidate votes for itself in a term it had not voted in.
LEMMA StartElectionSound ==
  ASSUME NEW i \in Server, NEW n \in Node
  PROVE  Sound(i, n, StartElection(i, n))
<1> DEFINE r == StartElection(i, n)
<1>1. Typed(r)
  BY StartElectionType
<1>2. /\ r.node.current_term = n.current_term + 1
      /\ r.node.role = Candidate
      /\ r.node.voted_for = i
      /\ r.node.votes_received = {i}
  BY DEF StartElection, Done, Node
<1>3. \A e \in r.out : /\ e.from = i /\ e.to # i
                       /\ e.msg.term = r.node.current_term
                       /\ e.msg.type = "RequestVote"
                       /\ e.msg.candidate_id = i
  <2> DEFINE m == [type |-> "RequestVote", term |-> r.node.current_term,
                   candidate_id |-> i, last_log_index |-> LastIndex(n.log),
                   last_log_term |-> LastTerm(n.log)]
  <2>1. r.out = {[from |-> i, to |-> p, msg |-> m] : p \in Peers(i)}
    BY DEF StartElection, Done
  <2>2. /\ m.term = r.node.current_term /\ m.type = "RequestVote"
        /\ m.candidate_id = i
    OBVIOUS
  <2> HIDE DEF m, r
  <2> QED  BY <2>1, <2>2 DEF Peers
<1>4. n.current_term \in Nat
  BY DEF Node
<1> HIDE DEF r
<1>5. Counts(i, r.node)
  BY <1>2 DEF Counts, Candidate, Leader
<1>6. \A e \in r.out, c \in Server : Backs(e, c) => r.node.voted_for = c
  BY <1>2, <1>3 DEF Backs
<1>7. Sound(i, n, r)
  BY <1>1, <1>2, <1>3, <1>4, <1>5, <1>6 DEF Sound
<1> QED  BY <1>7 DEF r

\* What a leader broadcasts is sound when it keeps its election state.
LEMMA BroadcastSound ==
  ASSUME NEW i \in Server, NEW n \in Node, NEW a \in Node, n.role = Leader,
         SameElection(n, a), Counts(i, n), NEW reset
  PROVE  Sound(i, n, Done(a, BroadcastAppendEntries(i, a), reset))
<1> DEFINE r == Done(a, BroadcastAppendEntries(i, a), reset)
<1>1. r.node = a /\ r.out = BroadcastAppendEntries(i, a)
  BY DEF Done
<1>2. Typed(r)
  BY <1>1, BroadcastType DEF Typed
<1>3. Counts(i, a) /\ a.voted_for = i /\ a.role = Leader
      /\ a.current_term = n.current_term /\ a.voted_for = n.voted_for
  BY DEF Counts, SameElection, Leader, Follower
<1>4. \A e \in r.out : /\ e.from = i /\ e.to # i
                       /\ e.msg.term = a.current_term
                       /\ e.msg.type = "AppendEntries"
  BY <1>1 DEF BroadcastAppendEntries, AppendEntriesFor, Peers
<1>5. \A e \in r.out, c \in Server : Backs(e, c) => a.voted_for = c
  BY <1>3, <1>4 DEF Backs
<1>6. n.current_term <= a.current_term
  BY <1>3 DEF Node
<1> HIDE DEF r
<1>7. Sound(i, n, r)
  BY <1>1, <1>2, <1>3, <1>4, <1>5, <1>6 DEF Sound
<1> QED  BY <1>7 DEF r

\* A result that sends nothing and keeps the election state is sound.
LEMMA SilentSound ==
  ASSUME NEW i \in Server, NEW n \in Node, NEW r, Typed(r), Counts(i, n),
         SameElection(n, r.node), r.out = {}
  PROVE  Sound(i, n, r)
  BY DEF Sound, Counts, SameElection, Node

\* A proposal sends no vote and leaves the leader's election state alone.
LEMMA ClientProposeSound ==
  ASSUME NEW i \in Server, NEW n \in Node, NEW command \in Command, Counts(i, n)
  PROVE  Sound(i, n, ClientPropose(i, n, command))
<1> DEFINE a == MaybeAdvanceCommit(Extended(n, command))
           r == ClientPropose(i, n, command)
<1>1. Typed(r) /\ SameElection(n, r.node)
  BY ClientProposeType
<1>2. CASE n.role = Leader
  <2>1. r = Done(a, BroadcastAppendEntries(i, a), FALSE)
    BY <1>2 DEF ClientPropose
  <2>2. a \in Node /\ SameElection(n, a)
    <3> HIDE DEF a
    <3> QED  BY <1>1, <2>1 DEF Typed, Done
  <2> HIDE DEF a
  <2> QED  BY <1>2, <2>1, <2>2, BroadcastSound
<1>3. CASE n.role # Leader
  <2>1. r.out = {}
    BY <1>3 DEF ClientPropose, Done
  <2> QED  BY <1>1, <2>1, SilentSound
<1> QED  BY <1>2, <1>3

\* A granted vote is recorded by the node that sends it, and binds it.
LEMMA OnRequestVoteSound ==
  ASSUME NEW i \in Server, NEW n \in Node, NEW from \in Server,
         NEW m \in RequestVote, Counts(i, n), from # i, m.candidate_id = from
  PROVE  Sound(i, n, OnRequestVote(i, n, from, m))
<1> DEFINE grant == ShouldGrantVote(n, m)
           v == IF grant THEN [n EXCEPT !.voted_for = m.candidate_id] ELSE n
           reply == [type |-> "RequestVoteReply",
                     term |-> n.current_term, granted |-> grant]
           r == OnRequestVote(i, n, from, m)
<1>1. Typed(r)
  BY OnRequestVoteType
<1>2. r.node = v /\ r.out = {[from |-> i, to |-> from, msg |-> reply]}
  BY DEF OnRequestVote, Done, Reply
<1>3. grant => n.voted_for \in {Nil, from}
  BY DEF ShouldGrantVote
<1>4. /\ v.current_term = n.current_term /\ v.role = n.role
      /\ v.votes_received = n.votes_received
      /\ v.voted_for = IF grant THEN from ELSE n.voted_for
  BY DEF Node
<1>5. grant => n.role = Follower
  BY <1>3, ServerAssumption DEF Counts
<1> HIDE DEF v, grant, r
<1>6. Counts(i, v)
  BY <1>4, <1>5 DEF Counts, Leader, Follower
<1>7. \A e \in r.out : /\ e.from = i /\ e.to = from
                       /\ e.msg.term = n.current_term
                       /\ e.msg.type = "RequestVoteReply"
                       /\ e.msg.granted = grant
  BY <1>2
<1>8. \A e \in r.out, c \in Server : Backs(e, c) => v.voted_for = c
  BY <1>4, <1>7 DEF Backs
<1>9. n.voted_for \in {Nil, v.voted_for} /\ n.current_term <= v.current_term
  BY <1>3, <1>4 DEF Node
<1>10. Sound(i, n, r)
  BY <1>1, <1>2, <1>4, <1>6, <1>7, <1>8, <1>9 DEF Sound
<1> QED  BY <1>10 DEF r

\* A counted vote was sent by its voter to this candidate, for this term.
LEMMA OnVoteReplySound ==
  ASSUME NEW i \in Server, NEW n \in Node, NEW from \in Server,
         NEW m \in RequestVoteReply, Counts(i, n),
         m.granted => Supports(from, i, m.term)
  PROVE  Sound(i, n, OnVoteReply(i, n, from, m))
<1> DEFINE votes == IF m.granted THEN n.votes_received \cup {from}
                                 ELSE n.votes_received \ {from}
           v == [n EXCEPT !.votes_received = votes]
           b == BecomeLeader(v)
           r == OnVoteReply(i, n, from, m)
<1>1. Typed(r)
  BY OnVoteReplyType
<1>2. CASE ~AwaitsVote(n, m)
  <2>1. r.node = n /\ r.out = {}
    BY <1>2 DEF OnVoteReply, Done
  <2> QED  BY <1>1, <2>1, SilentSound DEF SameElection
<1>3. CASE AwaitsVote(n, m)
  <2>1. /\ v \in Node /\ v.role = Candidate /\ v.votes_received = votes
        /\ v.current_term = n.current_term /\ v.voted_for = n.voted_for
    BY <1>3 DEF Node, AwaitsVote
  <2>2. \A w \in votes : w = i \/ Supports(w, i, n.current_term)
    BY <1>3 DEF AwaitsVote, Counts, Candidate, Follower
  <2>3. n.voted_for = i
    BY <1>3 DEF AwaitsVote, Counts, Candidate, Follower
  <2>4. b \in Node
    BY <2>1, BecomeLeaderType
  <2>5. /\ b.role = Leader /\ b.votes_received = votes
        /\ b.current_term = n.current_term /\ b.voted_for = i
    BY <2>1, <2>3 DEF BecomeLeader, Node
  <2>6. \/ r = Done(v, {}, FALSE)
        \/ /\ IsMajority(Cardinality(votes))
           /\ r = Done(b, BroadcastAppendEntries(i, b), FALSE)
    BY <1>3 DEF OnVoteReply
  <2> HIDE DEF v, b, votes, r
  <2>7. CASE r = Done(v, {}, FALSE)
    <3>1. r.node = v /\ r.out = {}
      BY <2>7 DEF Done
    <3>2. Counts(i, v)
      BY <2>1, <2>2, <2>3 DEF Counts, Candidate, Leader
    <3>3. n.current_term <= v.current_term
      BY <2>1 DEF Node
    <3>4. Sound(i, n, r)
      BY <1>1, <2>1, <3>1, <3>2, <3>3 DEF Sound
    <3> QED  BY <3>4 DEF r
  <2>8. CASE /\ IsMajority(Cardinality(votes))
             /\ r = Done(b, BroadcastAppendEntries(i, b), FALSE)
    <3>1. r.node = b
      BY <2>8 DEF Done
    <3>2. Counts(i, b)
      BY <2>2, <2>5, <2>8 DEF Counts, Leader, Follower
    <3>3. Sound(i, b, r)
      BY <2>4, <2>5, <2>8, <3>2, BroadcastSound DEF SameElection
    <3>4. n.current_term <= b.current_term
      BY <2>5 DEF Node
    <3>5. Sound(i, n, r)
      BY <2>3, <2>5, <3>1, <3>3, <3>4 DEF Sound
    <3> QED  BY <3>5 DEF r
  <2> QED  BY <2>6, <2>7, <2>8
<1> QED  BY <1>2, <1>3

\* A follower that hears a leader of its term keeps its vote.
LEMMA OnAppendEntriesSound ==
  ASSUME NEW i \in Server, NEW n \in Node, NEW from \in Server,
         NEW m \in AppendEntries, Counts(i, n), from # i
  PROVE  Sound(i, n, OnAppendEntries(i, n, from, m))
<1> DEFINE r == OnAppendEntries(i, n, from, m)
<1>1. Typed(r) /\ r.node.role \in {n.role, Follower}
  BY OnAppendEntriesType
<1>2. /\ r.node.current_term = n.current_term
      /\ r.node.voted_for = n.voted_for
      /\ r.node.votes_received = n.votes_received
  <2>1. SameElection([n EXCEPT !.role = r.node.role], r.node)
    BY OnAppendEntriesType
  <2> HIDE DEF r
  <2> QED  BY <2>1 DEF SameElection, Node
<1>3. Counts(i, r.node)
  <2> HIDE DEF r
  <2> QED  BY <1>1, <1>2 DEF Counts, Follower, Leader
<1>4. \E x, k, success, match, reset :
        /\ r = Done(x, AppendReply(i, from, k, success, match), reset)
        /\ k = x
  BY DEF OnAppendEntries
<1> HIDE DEF r
<1>5. \A e \in r.out : /\ e.from = i /\ e.to = from
                       /\ e.msg.term = r.node.current_term
                       /\ e.msg.type = "AppendEntriesReply"
  BY <1>4 DEF Done, AppendReply, Reply
<1>6. n.current_term <= r.node.current_term
  BY <1>2 DEF Node
<1>7. \A e \in r.out, c \in Server : ~Backs(e, c)
  BY <1>5 DEF Backs
<1>8. Sound(i, n, r)
  BY <1>1, <1>2, <1>3, <1>5, <1>6, <1>7 DEF Sound
<1> QED  BY <1>8 DEF r

\* An answer to a leader moves no vote.
LEMMA OnAppendReplySound ==
  ASSUME NEW i \in Server, NEW n \in Node, NEW from \in Server,
         NEW m \in AppendEntriesReply, Counts(i, n)
  PROVE  Sound(i, n, OnAppendReply(i, n, from, m))
  BY OnAppendReplyType, SilentSound

-----------------------------------------------------------------------------
(* Votes on the wire, two envelopes at a time.                             *)

\* Two envelopes of one sender and term back one candidate.
BackOne(envelopes) ==
  \A d, e \in envelopes : d.from = e.from /\ d.msg.term = e.msg.term =>
    \A b, c \in Server : Backs(d, b) /\ Backs(e, c) => b = c

\* That is to say that their pledges agree.
LEMMA PledgesAgree ==
  ASSUME NEW envelopes
  PROVE  BackOne(envelopes) <=>
           \A p, q \in Pledges(envelopes) :
             p.voter = q.voter /\ p.term = q.term => p.candidate = q.candidate
<1> DEFINE pledge(e, c) == [voter |-> e.from, term |-> e.msg.term, candidate |-> c]
<1>1. \A p : p \in Pledges(envelopes) <=>
               \E e \in envelopes, c \in Server : Backs(e, c) /\ p = pledge(e, c)
  BY DEF Pledges
<1>2. \A e, c : /\ pledge(e, c).voter = e.from /\ pledge(e, c).term = e.msg.term
                /\ pledge(e, c).candidate = c
  OBVIOUS
<1> HIDE DEF pledge
<1> QED  BY <1>1, <1>2 DEF BackOne

-----------------------------------------------------------------------------
(* The universal rule in front of every handler.                           *)

\* Stepping down to a later term first forgets a vote of an earlier one.
LEMMA HandleSound ==
  ASSUME TypeOK, ElectionInv, NEW e \in sent
  PROVE  Sound(e.to, node[e.to], Handle(e.to, node[e.to], e.from, e.msg))
<1> DEFINE i == e.to
           m == e.msg
           n == node[e.to]
           p == AtTermOf(n, m)
           r == Dispatch(i, p, e.from, m)
           h == Handle(i, n, e.from, m)
<1>1. /\ i \in Server /\ e.from \in Server /\ m \in Message
      /\ n \in Node /\ e.from # i
  BY DEF TypeOK, Envelope, ElectionInv, VotesBind
<1>2. p \in Node /\ m.term \in Nat /\ n.current_term \in Nat
  <2>1. m.term \in Nat
    BY <1>1 DEF Message, RequestVote, RequestVoteReply, AppendEntries,
                AppendEntriesReply
  <2> QED  BY <1>1, <2>1, AtTermOfType DEF Node
<1>3. Counts(i, n)
  BY <1>1 DEF ElectionInv
<1>4. /\ Counts(i, p)
      /\ n.current_term <= p.current_term
      /\ p.current_term = n.current_term => p = n
  <2>1. CASE m.term > n.current_term
    <3>1. p.role = Follower /\ p.current_term = m.term
      BY <1>1, <2>1 DEF AtTermOf, StepDown, Node
    <3> HIDE DEF p
    <3> QED  BY <1>2, <2>1, <3>1 DEF Counts, Follower, Leader
  <2>2. CASE ~(m.term > n.current_term)
    BY <1>2, <1>3, <2>2 DEF AtTermOf
  <2> QED  BY <2>1, <2>2
<1>5. Sound(i, p, r)
  <2>1. /\ m.type = "RequestVote" => m.candidate_id = e.from
        /\ m.type = "RequestVoteReply" /\ m.granted =>
             Supports(e.from, i, m.term)
    BY DEF ElectionInv, VotesBind, Supports, Backs
  <2> HIDE DEF p, i, m
  <2>2. CASE m \in RequestVote /\ r = OnRequestVote(i, p, e.from, m)
    <3>1. m.candidate_id = e.from
      BY <2>1, <2>2 DEF RequestVote
    <3> QED  BY <1>1, <1>2, <1>4, <2>2, <3>1, OnRequestVoteSound
  <2>3. CASE m \in RequestVoteReply /\ r = OnVoteReply(i, p, e.from, m)
    <3>1. m.granted => Supports(e.from, i, m.term)
      BY <2>1, <2>3 DEF RequestVoteReply
    <3> QED  BY <1>1, <1>2, <1>4, <2>3, <3>1, OnVoteReplySound
  <2>4. CASE m \in AppendEntries /\ r = OnAppendEntries(i, p, e.from, m)
    BY <1>1, <1>2, <1>4, <2>4, OnAppendEntriesSound
  <2>5. CASE m \in AppendEntriesReply /\ r = OnAppendReply(i, p, e.from, m)
    BY <1>1, <1>2, <1>4, <2>5, OnAppendReplySound
  <2> QED  BY <1>1, <2>2, <2>3, <2>4, <2>5, DispatchByType
<1>6. h.node = r.node /\ h.out = r.out
  BY <1>1, HandleDispatches
<1> HIDE DEF p, r, h, n
<1>7. r.node.current_term \in Nat /\ p.current_term \in Nat
  BY <1>2, <1>5 DEF Sound, Typed, Node
<1>8. /\ n.current_term <= r.node.current_term
      /\ r.node.current_term = n.current_term =>
           n.voted_for \in {Nil, r.node.voted_for}
  BY <1>2, <1>4, <1>5, <1>7 DEF Sound
<1>9. Sound(i, n, h)
  BY <1>5, <1>6, <1>8 DEF Sound, Typed
<1> QED  BY <1>9 DEF h, n

\* Every step is a sound step of one node, or changes nothing.
LEMMA NextSound ==
  ASSUME TypeOK, ElectionInv, [Next]_vars
  PROVE  \/ UNCHANGED vars
         \/ \E i \in Server : \E r : Step(i, r) /\ Sound(i, node[i], r)
<1>1. \A i \in Server : node[i] \in Node /\ Counts(i, node[i])
  BY DEF TypeOK, ElectionInv
<1>2. ASSUME NEW i \in Server, ElectionTimeout(i)
      PROVE  \E r : Step(i, r) /\ Sound(i, node[i], r)
  BY <1>1, <1>2, StartElectionSound DEF ElectionTimeout
<1>3. ASSUME NEW i \in Server, Heartbeat(i)
      PROVE  \E r : Step(i, r) /\ Sound(i, node[i], r)
  <2>1. SameElection(node[i], node[i]) /\ node[i].role = Leader
    BY <1>3 DEF SameElection, Heartbeat
  <2>2. Sound(i, node[i],
              Done(node[i], BroadcastAppendEntries(i, node[i]), FALSE))
    BY <1>1, <2>1, BroadcastSound
  <2> QED  BY <1>3, <2>2 DEF Heartbeat
<1>4. ASSUME NEW i \in Server, NEW command \in Command, Propose(i, command)
      PROVE  \E r : Step(i, r) /\ Sound(i, node[i], r)
  BY <1>1, <1>4, ClientProposeSound DEF Propose
<1>5. ASSUME NEW type, Receive(type)
      PROVE  \E i \in Server : \E r : Step(i, r) /\ Sound(i, node[i], r)
  <2>1. PICK e \in sent : Step(e.to, Handle(e.to, node[e.to], e.from, e.msg))
    BY <1>5 DEF Receive
  <2>2. e.to \in Server
    BY DEF TypeOK, Envelope
  <2>3. Sound(e.to, node[e.to], Handle(e.to, node[e.to], e.from, e.msg))
    BY HandleSound
  <2> QED  BY <2>1, <2>2, <2>3
<1> QED  BY <1>2, <1>3, <1>4, <1>5
         DEF Next, ReceiveRequestVote, ReceiveVoteReply, ReceiveAppendEntries,
             ReceiveAppendReply

-----------------------------------------------------------------------------
(* A sound step keeps the invariant.                                       *)

\* A sound step of one node keeps every part of ElectionInv.
LEMMA SoundStep ==
  ASSUME TypeOK, ElectionInv, NEW i \in Server, NEW r,
         Step(i, r), Sound(i, node[i], r)
  PROVE  ElectionInv'
<1>1. /\ node'[i] = r.node
      /\ \A j \in Server : j # i => node'[j] = node[j]
      /\ sent' = sent \cup r.out
  BY DEF Step, TypeOK
<1>2. /\ sent \subseteq Envelope /\ sent' \subseteq Envelope
      /\ \A j \in Server : node[j] \in Node /\ node'[j] \in Node
  BY <1>1 DEF TypeOK, Sound, Typed
<1>3. \A e \in Envelope : /\ e.from \in Server /\ e.to \in Server
                          /\ e.msg.term \in Nat
  BY DEF Envelope, Message, RequestVote, RequestVoteReply, AppendEntries,
         AppendEntriesReply
<1>4. \A j \in Server : /\ node[j].current_term \in Nat
                        /\ node'[j].current_term \in Nat
                        /\ node[j].current_term <= node'[j].current_term
  <2> TAKE j \in Server
  <2>1. node[j].current_term \in Nat /\ node'[j].current_term \in Nat
    <3>1. node[j] \in Node /\ node'[j] \in Node
      BY <1>2
    <3> QED  BY <3>1 DEF Node
  <2>2. node[j].current_term <= node'[j].current_term
    <3>1. CASE j = i
      BY <1>1, <3>1 DEF Sound
    <3>2. CASE j # i
      BY <1>1, <2>1, <3>2
    <3> QED  BY <3>1, <3>2
  <2> QED  BY <2>1, <2>2
<1>5. \A e \in r.out : /\ e.from = i /\ e.to # i
                       /\ e.msg.term = node'[i].current_term
                       /\ \A c \in Server : Backs(e, c) => node'[i].voted_for = c
                       /\ e.msg.type = "RequestVote" => e.msg.candidate_id = i
                       /\ e.msg.type = "AppendEntries" => node'[i].role = Leader
  BY <1>1 DEF Sound
<1>6. \A v, c, term : Supports(v, c, term) => Supports(v, c, term)'
  BY <1>1 DEF Supports, Backs
\* An old envelope still binds the vote of its sender.
<1>7. \A e \in sent, c \in Server :
        Backs(e, c) /\ e.msg.term = node'[e.from].current_term =>
          node'[e.from].voted_for = c
  <2> TAKE e \in sent, c \in Server
  <2> HAVE Backs(e, c) /\ e.msg.term = node'[e.from].current_term
  <2>1. /\ e.msg.term <= node[e.from].current_term
        /\ e.msg.term = node[e.from].current_term => node[e.from].voted_for = c
    BY DEF ElectionInv, VotesBind
  <2>2. e.msg.term = node[e.from].current_term
    BY <1>2, <1>3, <1>4, <2>1
  <2>3. node[e.from].voted_for \in {Nil, node'[e.from].voted_for}
    BY <1>1, <1>2, <1>3, <2>2 DEF Sound
  <2> QED  BY <2>1, <2>2, <2>3, ServerAssumption
<1>8. VotesBind'
  <2>1. \A e \in sent' :
          /\ e.from # e.to
          /\ e.msg.type = "RequestVote" => e.msg.candidate_id = e.from
          /\ e.msg.term <= node'[e.from].current_term
    <3>1. \A e \in sent : e.msg.term <= node'[e.from].current_term
      <4> TAKE e \in sent
      <4>1. e.msg.term <= node[e.from].current_term
        BY DEF ElectionInv, VotesBind
      <4> QED  BY <1>2, <1>3, <1>4, <4>1
    <3>2. \A e \in r.out : e.msg.term <= node'[e.from].current_term
      BY <1>4, <1>5
    <3> QED  BY <1>1, <1>5, <3>1, <3>2 DEF ElectionInv, VotesBind
  <2>2. \A e \in sent' : e.msg.term = node'[e.from].current_term =>
          \A c \in Server : Backs(e, c) => node'[e.from].voted_for = c
    BY <1>1, <1>5, <1>7
  <2>3. ASSUME NEW d \in sent', NEW e \in sent', NEW b \in Server, NEW c \in Server,
               d.from = e.from, d.msg.term = e.msg.term, Backs(d, b), Backs(e, c)
        PROVE  b = c
    <3>1. CASE d \in sent /\ e \in sent
      BY <2>3, <3>1, PledgesAgree DEF ElectionInv, VotesBind, BackOne
    <3>2. CASE d \in r.out \/ e \in r.out
      <4>1. d.from = i /\ e.from = i
            /\ d.msg.term = node'[i].current_term
            /\ e.msg.term = node'[i].current_term
        BY <1>5, <2>3, <3>2
      <4> QED  BY <2>2, <2>3, <4>1
    <3> QED  BY <1>1, <3>1, <3>2
  <2>4. BackOne(sent')
    BY <2>3 DEF BackOne
  <2> QED  BY <2>1, <2>2, <2>4, PledgesAgree DEF VotesBind, Backs
<1>9. ASSUME NEW j \in Server PROVE Counts(j, node[j])'
  <2>1. Counts(j, node'[j])
    BY <1>1 DEF ElectionInv, Sound
  <2> QED  BY <1>6, <2>1 DEF Counts
<1>10. MandateOfMajority'
  <2> SUFFICES ASSUME NEW e \in sent', e.msg.type = "AppendEntries"
               PROVE  \E Q \in SUBSET Server :
                        /\ IsMajority(Cardinality(Q))
                        /\ \A v \in Q : Supports(v, e.from, e.msg.term)'
    BY DEF MandateOfMajority, SentOf
  <2>1. CASE e \in sent
    <3>1. PICK Q \in SUBSET Server :
                 /\ IsMajority(Cardinality(Q))
                 /\ \A v \in Q : Supports(v, e.from, e.msg.term)
      BY <2>1 DEF ElectionInv, MandateOfMajority, SentOf
    <3> QED  BY <1>6, <3>1
  <2>2. CASE e \in r.out
    <3> DEFINE Q == node'[i].votes_received
    <3>1. /\ e.from = i /\ e.msg.term = node'[i].current_term
          /\ node'[i].role = Leader
      BY <1>5, <2>2
    <3>2. /\ Q \in SUBSET Server
          /\ IsMajority(Cardinality(Q))
          /\ \A v \in Q : v = i \/ Supports(v, i, e.msg.term)
      BY <1>1, <1>2, <3>1 DEF Node, Sound, Counts, Leader, Follower
    <3>3. Supports(i, i, e.msg.term)'
      BY <3>1 DEF Supports, Backs
    <3> QED  BY <1>6, <3>1, <3>2, <3>3
  <2> QED  BY <1>1, <2>1, <2>2
<1> QED  BY <1>8, <1>9, <1>10 DEF ElectionInv

-----------------------------------------------------------------------------
(* The invariant, and what follows from it.                                *)

\* A cluster starts with no vote cast and no leader.
LEMMA InitElection == Init => ElectionInv
  BY DEF Init, ElectionInv, VotesBind, Pledges, Counts, MandateOfMajority, SentOf,
         NewNode, Follower, Leader

\* Every step keeps the votes and the mandates of leaders.
LEMMA NextElection == TypeOK /\ ElectionInv /\ [Next]_vars => ElectionInv'
<1> SUFFICES ASSUME TypeOK, ElectionInv, [Next]_vars PROVE ElectionInv'
  OBVIOUS
<1>1. CASE UNCHANGED vars
  <2>1. sent' = sent /\ node' = node
    BY <1>1 DEF vars
  <2>2. Pledges(sent') = Pledges(sent)
    BY <2>1
  <2>3. VotesBind'
    BY <2>1, <2>2 DEF ElectionInv, VotesBind, Backs
  <2> QED  BY <2>1, <2>3 DEF ElectionInv, Counts, MandateOfMajority, SentOf, Supports,
                             Backs
<1>2. CASE \E i \in Server : \E r : Step(i, r) /\ Sound(i, node[i], r)
  BY <1>2, SoundStep
<1> QED  BY <1>1, <1>2, NextSound

\* Votes can be read off the messages sent: who leads has a majority of them,
\* for every cluster size, log length and number of elections.
THEOREM ElectionInvariant == Spec => [](TypeOK /\ ElectionInv)
<1>1. Init => TypeOK /\ ElectionInv
  BY InitType, InitElection
<1>2. (TypeOK /\ ElectionInv) /\ [Next]_vars => (TypeOK /\ ElectionInv)'
  BY NextType, NextElection
<1> QED  BY <1>1, <1>2, PTL DEF Spec

\* Two majorities of the cluster share a node.
LEMMA MajoritiesMeet ==
  ASSUME NEW Q \in SUBSET Server, NEW R \in SUBSET Server,
         IsMajority(Cardinality(Q)), IsMajority(Cardinality(R))
  PROVE  \E v \in Q : v \in R
<1>1. /\ IsFiniteSet(Server) /\ IsFiniteSet(Q) /\ IsFiniteSet(R)
      /\ Cardinality(Server) \in Nat
      /\ Cardinality(Q) \in Nat /\ Cardinality(R) \in Nat
  BY ServerAssumption, FS_Subset, FS_CardinalityType
<1>2. Cardinality(Q) + Cardinality(R) > Cardinality(Server)
  BY <1>1 DEF IsMajority
<1>3. Q \cap R # {}
  BY <1>1, <1>2, FS_MajoritiesIntersect
<1> QED  BY <1>3

\* Two leaders of a term would share a voter that voted twice.
LEMMA InvImpliesSafety == TypeOK /\ ElectionInv => ElectionSafety
<1> SUFFICES ASSUME TypeOK, ElectionInv PROVE ElectionSafety
  OBVIOUS
<1>1. ASSUME NEW i \in Server, NEW j \in Server,
             node[i].role = Leader, node[j].role = Leader,
             node[i].current_term = node[j].current_term
      PROVE  i = j
  <2>1. node[i] \in Node /\ node[j] \in Node
    BY DEF TypeOK
  <2> DEFINE Q == node[i].votes_received
             R == node[j].votes_received
             t == node[i].current_term
  <2>2. /\ Q \in SUBSET Server /\ R \in SUBSET Server
        /\ IsMajority(Cardinality(Q)) /\ IsMajority(Cardinality(R))
        /\ node[i].voted_for = i /\ node[j].voted_for = j
        /\ \A v \in Q : v = i \/ Supports(v, i, t)
        /\ \A v \in R : v = j \/ Supports(v, j, t)
    BY <1>1, <2>1 DEF ElectionInv, Counts, Node, Leader, Follower
  <2>3. PICK v \in Q : v \in R
    BY <2>2, MajoritiesMeet
  <2>4. CASE v = i \/ v = j
    BY <1>1, <2>2, <2>3, <2>4 DEF Supports, ElectionInv, VotesBind
  <2>5. CASE Supports(v, i, t) /\ Supports(v, j, t)
    BY <2>5, PledgesAgree DEF Supports, ElectionInv, VotesBind, BackOne
  <2> QED  BY <2>2, <2>3, <2>4, <2>5
<1>2. ASSUME NEW d \in SentOf("AppendEntries"), NEW e \in SentOf("AppendEntries"),
             d.msg.term = e.msg.term
      PROVE  d.from = e.from
  <2>1. d.from \in Server /\ e.from \in Server
    BY DEF SentOf, TypeOK, Envelope
  <2>2. PICK Q \in SUBSET Server : /\ IsMajority(Cardinality(Q))
                                   /\ \A v \in Q : Supports(v, d.from, d.msg.term)
    BY DEF ElectionInv, MandateOfMajority
  <2>3. PICK R \in SUBSET Server : /\ IsMajority(Cardinality(R))
                                   /\ \A v \in R : Supports(v, e.from, e.msg.term)
    BY DEF ElectionInv, MandateOfMajority
  <2>4. PICK v \in Q : v \in R
    BY <2>2, <2>3, MajoritiesMeet
  <2>5. Supports(v, d.from, d.msg.term) /\ Supports(v, e.from, e.msg.term)
    BY <2>2, <2>3, <2>4
  <2> QED  BY <1>2, <2>1, <2>5, PledgesAgree DEF Supports, ElectionInv, VotesBind, BackOne
<1> QED  BY <1>1, <1>2 DEF ElectionSafety

\* At most one node ever leads a term, for any cluster size: REQ-005's Election
\* Safety under any loss, duplication and reordering of messages.
THEOREM ElectionSafe == Spec => []ElectionSafety
  BY ElectionInvariant, InvImpliesSafety, PTL

\* A node never promises one term to two candidates (REQ-005).
THEOREM VotesOnce == Spec => []OneVotePerTerm
<1>1. TypeOK /\ ElectionInv => OneVotePerTerm
  <2> SUFFICES ASSUME TypeOK, ElectionInv PROVE OneVotePerTerm
    OBVIOUS
  <2>1. \A e \in sent : e.from \in Server /\ e.to \in Server /\ e.from # e.to
    BY DEF TypeOK, Envelope, ElectionInv, VotesBind
  <2>2. \A e \in SentOf("RequestVoteReply") : e.msg.granted => Backs(e, e.to)
    BY DEF SentOf, Backs
  <2>3. \A e \in SentOf("RequestVote") : Backs(e, e.from)
    BY DEF SentOf, Backs
  <2>4. BackOne(sent)
    BY PledgesAgree DEF ElectionInv, VotesBind
  <2> QED  BY <2>1, <2>2, <2>3, <2>4 DEF OneVotePerTerm, SentOf, BackOne
<1> QED  BY <1>1, ElectionInvariant, PTL

\* No step of any handler takes a term back, or a vote within its term.
THEOREM TermAndVote == Spec => TermAndVoteKept
<1>1. TypeOK /\ ElectionInv /\ [Next]_vars =>
        [\A i \in Server :
           /\ node'[i].current_term >= node[i].current_term
           /\ node'[i].current_term = node[i].current_term =>
                node[i].voted_for \in {Nil, node'[i].voted_for}]_vars
  <2> SUFFICES ASSUME TypeOK, ElectionInv, [Next]_vars, vars' # vars,
                      NEW i \in Server
               PROVE  /\ node'[i].current_term >= node[i].current_term
                      /\ node'[i].current_term = node[i].current_term =>
                           node[i].voted_for \in {Nil, node'[i].voted_for}
    OBVIOUS
  <2>1. PICK j \in Server : \E r : Step(j, r) /\ Sound(j, node[j], r)
    BY NextSound
  <2>2. PICK r : Step(j, r) /\ Sound(j, node[j], r)
    BY <2>1
  <2>3. node[i] \in Node /\ node[i].current_term \in Nat
    BY DEF TypeOK, Node
  <2>4. CASE i = j
    <3>1. node'[i] = r.node
      BY <2>2, <2>4 DEF Step, TypeOK
    <3>2. r.node.current_term \in Nat
      BY <2>2 DEF Sound, Typed, Node
    <3> QED  BY <2>2, <2>3, <2>4, <3>1, <3>2 DEF Sound
  <2>5. CASE i # j
    <3>1. node'[i] = node[i]
      BY <2>2, <2>5 DEF Step, TypeOK
    <3> QED  BY <2>3, <3>1
  <2> QED  BY <2>4, <2>5
<1> QED  BY <1>1, ElectionInvariant, PTL DEF Spec, TermAndVoteKept

-----------------------------------------------------------------------------
(* Steps: what a handler does.                                             *)

\* The body of AppliedOnce for one node: m has applied what n had, and after it
\* the commands of its own log from n's last_applied to its own.
KvGrows(n, m) ==
  /\ m.last_applied >= n.last_applied
  /\ m.last_applied > n.last_applied =>
       m.last_applied = m.commit_index /\ m.commit_index <= Len(m.log)
  /\ m.kv = n.kv \o [k \in 1..m.last_applied - n.last_applied |->
                       m.log[n.last_applied + k].command]

\* No entries leave the node.
Silent(r) == \A e \in r.out : e.msg.type # "AppendEntries"

\* The role, the term and the log stay, and no entries are sent.
Still(n, r) == /\ r.node.role = n.role
               /\ r.node.current_term = n.current_term
               /\ r.node.log = n.log
               /\ Silent(r)

\* A timeout: a candidate of the next term.
Campaigns(n, r) == /\ n.role # Leader
                   /\ r.node.role = Candidate
                   /\ r.node.current_term = n.current_term + 1
                   /\ r.node.log = n.log
                   /\ Silent(r)

\* A candidate of the term becomes its leader and says so to a peer at least.
Wins(i, n, r) == /\ n.role = Candidate /\ r.node.role = Leader
                 /\ r.node.current_term = n.current_term
                 /\ r.node.log = n.log
                 /\ IsMajority(Cardinality(r.node.votes_received))
                 /\ Peers(i) # {}
                 /\ r.out = BroadcastAppendEntries(i, r.node)

\* log is old with one entry of the term at its end.
Proposed(old, log, term) ==
  \E command \in Command : log = Append(old, [term |-> term, command |-> command])

\* A leader sends its log, extended by one proposal or not.
Leads(i, n, r) == /\ n.role = Leader /\ r.node.role = Leader
                  /\ r.node.current_term = n.current_term
                  /\ \/ r.node.log = n.log
                     \/ Proposed(n.log, r.node.log, n.current_term)
                  /\ r.out = BroadcastAppendEntries(i, r.node)

\* log is old, or old with the entries of m in it, m matching old.
Spliced(old, log, m) ==
  \/ log = old
  \/ /\ Matches(old, m.prev_log_index, m.prev_log_term)
     /\ log = Splice(old, m.prev_log_index, m.entries)

\* A follower of the term of the message it hears.
Hears(n, r, m) == /\ r.node.role = Follower
                  /\ r.node.current_term = m.term
                  /\ m.term >= n.current_term
                  /\ Spliced(n.log, r.node.log, m)
                  /\ Silent(r)

\* A follower of a later term, with the log it had.
Yields(n, r) == /\ r.node.role = Follower
                /\ r.node.current_term > n.current_term
                /\ r.node.log = n.log
                /\ Silent(r)

\* A step of node i in state n with result r.
Moved(i, n, r) ==
  /\ KvGrows(n, r.node)
  /\ \/ Still(n, r)
     \/ Campaigns(n, r)
     \/ Wins(i, n, r)
     \/ Leads(i, n, r)
     \/ Yields(n, r)
     \/ \E e \in SentOf("AppendEntries") :
          e.to = i /\ e.from # i /\ Hears(n, r, e.msg)

\* A node that applied nothing has applied what it had.
LEMMA KvStays ==
  ASSUME NEW n \in Node, NEW m \in Node,
         m.kv = n.kv, m.last_applied = n.last_applied
  PROVE  KvGrows(n, m)
<1> DEFINE new == [k \in 1..m.last_applied - n.last_applied |->
                     m.log[n.last_applied + k].command]
<1>1. n.kv \in Seq(Command) /\ n.last_applied \in Nat
  BY DEF Node
<1>2. m.last_applied - n.last_applied = 0 /\ 1..0 = {}
  BY <1>1
<1>3. new = <<>>
  BY <1>2
<1>4. n.kv \o new = n.kv
  BY <1>1, <1>3, ConcatEmptySeq
<1> QED  BY <1>1, <1>4 DEF KvGrows

\* Committing an index the log holds applies the commands up to it, each once.
LEMMA CommitAtGrows ==
  ASSUME NEW n \in Node, NEW index \in 0..Len(n.log)
  PROVE  KvGrows(n, CommitAt(n, index)) /\ CommitAt(n, index).log = n.log
<1> DEFINE fresh == SubSeq(n.log, n.last_applied + 1, Smaller(index, Len(n.log)))
           new == [k \in 1..Len(fresh) |-> fresh[k].command]
           m == [n EXCEPT !.commit_index = index]
           c == CommitAt(n, index)
<1>1. /\ n.log \in Seq(Entry) /\ n.kv \in Seq(Command)
      /\ n.last_applied \in Nat /\ index \in Nat /\ Len(n.log) \in Nat
  BY DEF Node
<1>2. CASE index <= n.last_applied
  <2>1. c = m /\ m \in Node
    BY <1>1, <1>2 DEF CommitAt, ApplyCommitted, Node
  <2>2. c.kv = n.kv /\ c.last_applied = n.last_applied /\ c.log = n.log
    BY <2>1 DEF Node
  <2> HIDE DEF c, m
  <2>3. KvGrows(n, c) /\ c.log = n.log
    BY <2>1, <2>2, KvStays
  <2> QED  BY <2>3 DEF c
<1>3. CASE index > n.last_applied
  <2>1. Smaller(index, Len(n.log)) = index
    BY <1>1 DEF Smaller
  <2>2. \A k \in n.last_applied + 1 .. index : n.log[k] \in Entry
    BY <1>1
  <2>3. /\ fresh \in Seq(Entry) /\ Len(fresh) = index - n.last_applied
        /\ \A k \in 1..Len(fresh) : fresh[k] = n.log[n.last_applied + k]
    <3> DEFINE low == n.last_applied + 1
    <3>1. fresh = SubSeq(n.log, low, index)
      BY <2>1
    <3>2. /\ low \in Int /\ index \in Int /\ low <= index
          /\ \A k \in low .. index : n.log[k] \in Entry
      BY <1>1, <1>3, <2>2
    <3> HIDE DEF low, fresh
    <3>3. /\ SubSeq(n.log, low, index) \in Seq(Entry)
          /\ Len(SubSeq(n.log, low, index)) = index - low + 1
          /\ \A k \in 1..index - low + 1 : SubSeq(n.log, low, index)[k] = n.log[low + k - 1]
      BY <3>2, SubSeqProperties
    <3>4. /\ fresh \in Seq(Entry) /\ Len(fresh) = index - low + 1
          /\ \A k \in 1..index - low + 1 : fresh[k] = n.log[low + k - 1]
      BY <3>1, <3>3
    <3>5. index - low + 1 = index - n.last_applied /\ low = n.last_applied + 1
      BY <1>1 DEF low
    <3>6. \A k \in 1..Len(fresh) : low + k - 1 = n.last_applied + k
      BY <1>1, <3>4, <3>5
    <3> QED  BY <3>4, <3>5, <3>6
  <2>4. new = [k \in 1..index - n.last_applied |-> n.log[n.last_applied + k].command]
    <3> HIDE DEF fresh
    <3> QED  BY <2>3
  <2>5. c = [m EXCEPT !.kv = n.kv \o new, !.last_applied = index]
    <3>1. /\ m.log = n.log /\ m.kv = n.kv /\ m.commit_index = index
          /\ m.last_applied = n.last_applied
      BY DEF Node
    <3>2. c = ApplyCommitted(m) /\ ~(index <= n.last_applied)
      BY <1>1, <1>3 DEF CommitAt
    <3> HIDE DEF m, c
    <3> QED  BY <3>1, <3>2 DEF ApplyCommitted
  <2> HIDE DEF new, fresh
  <2>6. /\ c.kv = n.kv \o new /\ c.last_applied = index
        /\ c.log = n.log /\ c.commit_index = index
    BY <2>5 DEF Node
  <2> HIDE DEF c, m
  <2>7. KvGrows(n, c)
    BY <1>1, <1>3, <2>4, <2>6 DEF KvGrows
  <2> QED  BY <2>6, <2>7 DEF c
<1> QED  BY <1>1, <1>2, <1>3

\* So does committing what a majority holds.
LEMMA AdvanceGrows ==
  ASSUME NEW n \in Node
  PROVE  /\ KvGrows(n, MaybeAdvanceCommit(n))
         /\ MaybeAdvanceCommit(n).log = n.log
<1>1. CASE Committable(n) = {}
  BY <1>1, KvStays DEF MaybeAdvanceCommit
<1>2. CASE Committable(n) # {}
  <2>1. Len(n.log) \in Nat /\ n.commit_index \in Nat
    BY DEF Node
  <2>2. Committable(n) \subseteq 0..Len(n.log)
    BY <2>1 DEF Committable, LastIndex
  <2>3. Max(Committable(n)) \in 0..Len(n.log)
    BY <1>2, <2>1, <2>2, MaxExists
  <2> QED  BY <1>2, <2>3, CommitAtGrows DEF MaybeAdvanceCommit
<1> QED  BY <1>1, <1>2

\* A timeout campaigns.
LEMMA StartElectionMoves ==
  ASSUME NEW i \in Server, NEW n \in Node, n.role # Leader
  PROVE  Moved(i, n, StartElection(i, n))
<1> DEFINE r == StartElection(i, n)
<1>1. r.node \in Node
  BY StartElectionType DEF Typed
<1>2. /\ r.node.current_term = n.current_term + 1 /\ r.node.role = Candidate
      /\ r.node.log = n.log /\ r.node.kv = n.kv
      /\ r.node.last_applied = n.last_applied
  BY DEF StartElection, Done, Node
<1>3. Silent(r)
  BY DEF StartElection, Done, Silent
<1> HIDE DEF r
<1>4. KvGrows(n, r.node)
  BY <1>1, <1>2, KvStays
<1>5. Moved(i, n, r)
  BY <1>2, <1>3, <1>4 DEF Moved, Campaigns
<1> QED  BY <1>5 DEF r

\* A heartbeat leads.
LEMMA HeartbeatMoves ==
  ASSUME NEW i \in Server, NEW n \in Node, n.role = Leader
  PROVE  Moved(i, n, Done(n, BroadcastAppendEntries(i, n), FALSE))
  BY KvStays DEF Moved, Leads, Done

\* A proposal to a leader leads.
LEMMA ClientProposeMoves ==
  ASSUME NEW i \in Server, NEW n \in Node, NEW command \in Command, n.role = Leader
  PROVE  Moved(i, n, ClientPropose(i, n, command))
<1> DEFINE x == Extended(n, command)
           a == MaybeAdvanceCommit(x)
           r == ClientPropose(i, n, command)
<1>1. r.node = a /\ r.out = BroadcastAppendEntries(i, a)
  BY DEF ClientPropose, Done
<1>2. /\ x.log = Append(n.log, [term |-> n.current_term, command |-> command])
      /\ x.kv = n.kv /\ x.last_applied = n.last_applied
      /\ SameElection(n, x)
  BY DEF Extended, Node, SameElection
<1>3. x \in Node
  <2>1. [term |-> n.current_term, command |-> command] \in Entry /\ n.log \in Seq(Entry)
    BY DEF Node, Entry
  <2>2. Append(n.log, [term |-> n.current_term, command |-> command]) \in Seq(Entry)
    BY <2>1, AppendProperties
  <2> QED  BY <2>2 DEF Extended, Node
<1> HIDE DEF x, r
<1>4. KvGrows(x, a) /\ a.log = x.log /\ SameElection(x, a)
  BY <1>3, AdvanceGrows, AdvanceType
<1> HIDE DEF a
<1>5. KvGrows(n, a)
  BY <1>2, <1>4 DEF KvGrows
<1>6. Proposed(n.log, a.log, n.current_term)
  BY <1>2, <1>4 DEF Proposed
<1>7. a.role = Leader /\ a.current_term = n.current_term
  BY <1>2, <1>4 DEF SameElection
<1>8. Moved(i, n, r)
  BY <1>1, <1>5, <1>6, <1>7 DEF Moved, Leads
<1> QED  BY <1>8 DEF r

\* A vote request leaves the role, the term and the log.
LEMMA OnRequestVoteMoves ==
  ASSUME NEW i \in Server, NEW n \in Node, NEW from \in Server,
         NEW m \in RequestVote
  PROVE  /\ KvGrows(n, OnRequestVote(i, n, from, m).node)
         /\ Still(n, OnRequestVote(i, n, from, m))
<1> DEFINE r == OnRequestVote(i, n, from, m)
<1>1. r.node \in Node
  BY OnRequestVoteType DEF Typed
<1>2. /\ r.node.current_term = n.current_term /\ r.node.role = n.role
      /\ r.node.log = n.log /\ r.node.kv = n.kv
      /\ r.node.last_applied = n.last_applied
  BY DEF OnRequestVote, Done, Node
<1>3. Silent(r)
  BY DEF OnRequestVote, Done, Reply, Silent
<1> HIDE DEF r
<1>4. KvGrows(n, r.node) /\ Still(n, r)
  BY <1>1, <1>2, <1>3, KvStays DEF Still
<1> QED  BY <1>4 DEF r

\* So does an answer to a leader, which may commit.
LEMMA OnAppendReplyMoves ==
  ASSUME NEW i \in Server, NEW n \in Node, NEW from \in Server,
         NEW m \in AppendEntriesReply
  PROVE  /\ KvGrows(n, OnAppendReply(i, n, from, m).node)
         /\ Still(n, OnAppendReply(i, n, from, m))
<1> DEFINE a == [n EXCEPT !.match_index[from] = m.match_index,
                          !.next_index[from] = m.match_index + 1]
           b == [n EXCEPT !.next_index[from] = BackOff(@)]
           r == OnAppendReply(i, n, from, m)
<1>1. Typed(r) /\ SameElection(n, r.node) /\ r.out = {}
  BY OnAppendReplyType
<1>2. /\ a.log = n.log /\ a.kv = n.kv /\ a.last_applied = n.last_applied
      /\ b.log = n.log /\ b.kv = n.kv /\ b.last_applied = n.last_applied
  BY DEF Node
<1>3. a \in Node
  <2>1. m.match_index \in Nat /\ m.match_index + 1 \in Nat \ {0}
    BY DEF AppendEntriesReply
  <2> QED  BY <2>1 DEF Node
<1>4. r.node \in {n, MaybeAdvanceCommit(a), b}
  BY DEF OnAppendReply, Done
<1> HIDE DEF a, b, r
<1>5. KvGrows(a, MaybeAdvanceCommit(a)) /\ MaybeAdvanceCommit(a).log = a.log
  BY <1>3, AdvanceGrows
<1>6. KvGrows(n, r.node) /\ r.node.log = n.log
  <2>1. CASE r.node = MaybeAdvanceCommit(a)
    BY <1>2, <1>5, <2>1 DEF KvGrows
  <2>2. CASE r.node \in {n, b}
    BY <1>1, <1>2, <2>2, KvStays DEF Typed
  <2> QED  BY <1>4, <2>1, <2>2
<1>7. Still(n, r)
  BY <1>1, <1>6 DEF Still, Silent, SameElection
<1> QED  BY <1>6, <1>7 DEF r

\* A vote that counts may win the election.
LEMMA OnVoteReplyMoves ==
  ASSUME NEW i \in Server, NEW n \in Node, NEW from \in Server,
         NEW m \in RequestVoteReply, from # i
  PROVE  /\ KvGrows(n, OnVoteReply(i, n, from, m).node)
         /\ Still(n, OnVoteReply(i, n, from, m)) \/ Wins(i, n, OnVoteReply(i, n, from, m))
<1> DEFINE votes == IF m.granted THEN n.votes_received \cup {from}
                                 ELSE n.votes_received \ {from}
           v == [n EXCEPT !.votes_received = votes]
           b == BecomeLeader(v)
           r == OnVoteReply(i, n, from, m)
<1>1. r.node \in Node
  BY OnVoteReplyType DEF Typed
<1>2. /\ v.role = n.role /\ v.current_term = n.current_term /\ v.log = n.log
      /\ v.kv = n.kv /\ v.last_applied = n.last_applied
      /\ b.role = Leader /\ b.current_term = n.current_term /\ b.log = n.log
      /\ b.kv = n.kv /\ b.last_applied = n.last_applied
      /\ b.votes_received = votes
  BY DEF BecomeLeader, Node
<1>3. \/ r = Done(n, {}, FALSE)
      \/ r = Done(v, {}, FALSE)
      \/ /\ AwaitsVote(n, m) /\ IsMajority(Cardinality(votes))
         /\ r = Done(b, BroadcastAppendEntries(i, b), FALSE)
  BY DEF OnVoteReply
<1>4. Peers(i) # {}
  BY DEF Peers
<1> HIDE DEF votes, v, b, r
<1>5. CASE r = Done(n, {}, FALSE) \/ r = Done(v, {}, FALSE)
  <2>1. r.node \in {n, v} /\ r.out = {}
    BY <1>5 DEF Done
  <2>2. KvGrows(n, r.node) /\ Still(n, r)
    BY <1>1, <1>2, <2>1, KvStays DEF Still, Silent
  <2> QED  BY <2>2 DEF r
<1>6. CASE /\ AwaitsVote(n, m) /\ IsMajority(Cardinality(votes))
           /\ r = Done(b, BroadcastAppendEntries(i, b), FALSE)
  <2>1. r.node = b /\ r.out = BroadcastAppendEntries(i, b)
    BY <1>6 DEF Done
  <2>2. KvGrows(n, r.node)
    BY <1>1, <1>2, <2>1, KvStays
  <2>3. Wins(i, n, r)
    BY <1>2, <1>4, <1>6, <2>1 DEF Wins, AwaitsVote
  <2> QED  BY <2>2, <2>3 DEF r
<1> QED  BY <1>3, <1>5, <1>6

\* A follower hears a message of its term or a later one, and refuses an
\* earlier one.
LEMMA OnAppendEntriesMoves ==
  ASSUME NEW i \in Server, NEW n \in Node, NEW from \in Server,
         NEW m \in AppendEntries, m.term <= n.current_term
  PROVE  /\ KvGrows(n, OnAppendEntries(i, n, from, m).node)
         /\ \/ Still(n, OnAppendEntries(i, n, from, m))
            \/ Hears(n, OnAppendEntries(i, n, from, m), m)
<1> DEFINE f == [n EXCEPT !.role = Follower]
           log == Splice(n.log, m.prev_log_index, m.entries)
           s == [f EXCEPT !.log = log]
           d == IF m.leader_commit > s.commit_index
                THEN CommitAt(s, Smaller(m.leader_commit, LastIndex(s.log)))
                ELSE s
           r == OnAppendEntries(i, n, from, m)
<1>1. /\ r.node \in Node /\ r.node.role \in {n.role, Follower}
      /\ SameElection([n EXCEPT !.role = r.node.role], r.node)
  BY OnAppendEntriesType DEF Typed
<1>2. r.node.current_term = n.current_term
  <2> HIDE DEF r
  <2> QED  BY <1>1 DEF SameElection, Node
<1>3. Silent(r)
  <2>1. \E x, k, success, match, reset :
          r = Done(x, AppendReply(i, from, k, success, match), reset)
    BY DEF OnAppendEntries
  <2> HIDE DEF r
  <2> QED  BY <2>1 DEF Silent, Done, AppendReply, Reply
<1>4. f.log = n.log /\ f.kv = n.kv /\ f.last_applied = n.last_applied
      /\ f.role = Follower
  BY DEF Node
<1>5. \/ m.term < n.current_term /\ r.node = n
      \/ m.term = n.current_term /\ r.node = f
      \/ /\ m.term = n.current_term
         /\ Matches(n.log, m.prev_log_index, m.prev_log_term)
         /\ r.node = d
  <2>1. m.term < n.current_term \/ m.term = n.current_term
    BY DEF AppendEntries, Node
  <2>2. m.term = n.current_term => ~(m.term < n.current_term)
    BY DEF AppendEntries, Node
  <2> QED  BY <1>4, <2>1, <2>2 DEF OnAppendEntries, Done
<1>6. m.term \in Nat /\ n.current_term \in Nat
  BY DEF AppendEntries, Node
<1>7. CASE m.term < n.current_term /\ r.node = n
  <2> HIDE DEF r
  <2>1. KvGrows(n, r.node) /\ Still(n, r)
    BY <1>1, <1>3, <1>7, KvStays DEF Still
  <2> QED  BY <2>1 DEF r
<1>8. CASE m.term = n.current_term /\ r.node = f
  <2> HIDE DEF r, f
  <2>1. KvGrows(n, r.node)
    BY <1>1, <1>4, <1>8, KvStays
  <2>2. Hears(n, r, m)
    BY <1>2, <1>3, <1>4, <1>6, <1>8 DEF Hears, Spliced
  <2> QED  BY <2>1, <2>2 DEF r
<1>9. CASE /\ m.term = n.current_term
           /\ Matches(n.log, m.prev_log_index, m.prev_log_term)
           /\ r.node = d
  <2>1. n.log \in Seq(Entry) /\ m.entries \in Seq(Entry)
        /\ m.prev_log_index \in 0..Len(n.log) /\ m.leader_commit \in Nat
    BY <1>9 DEF Node, AppendEntries, Matches
  <2>2. log \in Seq(Entry)
    BY <2>1, SpliceType
  <2> HIDE DEF log, r
  <2>3. /\ s \in Node /\ s.log = log /\ s.kv = n.kv
        /\ s.last_applied = n.last_applied /\ s.role = Follower
    BY <2>2 DEF Node
  <2> HIDE DEF s
  <2>4. Smaller(m.leader_commit, LastIndex(s.log)) \in 0..Len(s.log)
    BY <2>1, <2>2, <2>3 DEF Smaller, LastIndex
  <2>5. /\ KvGrows(s, CommitAt(s, Smaller(m.leader_commit, LastIndex(s.log))))
        /\ CommitAt(s, Smaller(m.leader_commit, LastIndex(s.log))).log = s.log
        /\ SameElection(s, CommitAt(s, Smaller(m.leader_commit, LastIndex(s.log))))
    BY <2>3, <2>4, CommitAtGrows, CommitAtType
  <2>6. KvGrows(s, d) /\ d.log = log /\ d.role = Follower
    BY <2>3, <2>5, KvStays DEF SameElection
  <2> HIDE DEF d
  <2>7. KvGrows(n, r.node)
    BY <1>9, <2>3, <2>6 DEF KvGrows
  <2>8. Hears(n, r, m)
    BY <1>2, <1>3, <1>6, <1>9, <2>6 DEF Hears, Spliced, log
  <2> QED  BY <2>7, <2>8 DEF r
<1> QED  BY <1>5, <1>7, <1>8, <1>9

\* What a message makes of the node that handles it: whoever follows the sender's
\* term on it draws its election deadline anew.
Answers(i, n, r, m) ==
  \/ Still(n, r)
  \/ Wins(i, n, r)
  \/ Yields(n, r) /\ r.node.current_term = m.term /\ r.reset
  \/ m.type = "AppendEntries" /\ Hears(n, r, m) /\ r.reset

\* A message that is not stale, of a leader, puts the deadline off whatever the
\* log makes of it.
LEMMA OnAppendEntriesResets ==
  ASSUME NEW i, NEW n, NEW from, NEW m, ~(m.term < n.current_term)
  PROVE  OnAppendEntries(i, n, from, m).reset
<1>1. \E x, y : OnAppendEntries(i, n, from, m) = Done(x, y, TRUE)
  BY Zenon DEF OnAppendEntries
<1> QED  BY <1>1 DEF Done

\* The message a step handles moves its node in one of these four ways.
LEMMA HandleAnswers ==
  ASSUME TypeOK, ElectionInv, NEW e \in sent
  PROVE  LET n == node[e.to]
             h == Handle(e.to, n, e.from, e.msg)
         IN  /\ KvGrows(n, h.node)
             /\ Answers(e.to, n, h, e.msg)
             /\ e.msg.type = "AppendEntries" /\ e.msg.term >= n.current_term
                  => h.reset
<1> DEFINE i == e.to
           m == e.msg
           n == node[e.to]
           p == AtTermOf(n, m)
           r == Dispatch(i, p, e.from, m)
           h == Handle(i, n, e.from, m)
<1>1. /\ i \in Server /\ e.from \in Server /\ m \in Message
      /\ n \in Node /\ e.from # i
  BY DEF TypeOK, Envelope, ElectionInv, VotesBind
<1>2. p \in Node /\ m.term \in Nat /\ n.current_term \in Nat
  <2>1. m.term \in Nat
    BY <1>1 DEF Message, RequestVote, RequestVoteReply, AppendEntries,
                AppendEntriesReply
  <2> QED  BY <1>1, <2>1, AtTermOfType DEF Node
\* The universal rule: nothing, or a follower of the message's later term.
<1>3. /\ p.log = n.log /\ p.kv = n.kv /\ p.last_applied = n.last_applied
      /\ p.current_term >= m.term
      /\ \/ p = n
         \/ /\ p.role = Follower /\ p.current_term = m.term
            /\ p.current_term > n.current_term
  <2>1. CASE m.term > n.current_term
    <3>1. /\ p.log = n.log /\ p.kv = n.kv /\ p.last_applied = n.last_applied
          /\ p.role = Follower /\ p.current_term = m.term
      BY <1>1, <2>1 DEF AtTermOf, StepDown, Node
    <3> HIDE DEF p
    <3> QED  BY <1>2, <2>1, <3>1
  <2>2. CASE ~(m.term > n.current_term)
    BY <1>2, <2>2 DEF AtTermOf
  <2> QED  BY <2>1, <2>2
<1>4. m.type = "AppendEntries" <=> m \in AppendEntries
  BY <1>1 DEF Message, RequestVote, RequestVoteReply, AppendEntries,
              AppendEntriesReply
<1>5. /\ h.node = r.node /\ h.out = r.out
      /\ h.reset <=> r.reset \/ m.term > n.current_term
  BY <1>1, HandleDispatches
<1> HIDE DEF p, r, h, n, i, m
<1>6. /\ KvGrows(p, r.node)
      /\ \/ Still(p, r)
         \/ Wins(i, p, r)
         \/ m \in AppendEntries /\ Hears(p, r, m)
  <2>1. CASE m \in RequestVote /\ r = OnRequestVote(i, p, e.from, m)
    BY <1>1, <1>2, <2>1, OnRequestVoteMoves
  <2>2. CASE m \in RequestVoteReply /\ r = OnVoteReply(i, p, e.from, m)
    BY <1>1, <1>2, <2>2, OnVoteReplyMoves
  <2>3. CASE m \in AppendEntries /\ r = OnAppendEntries(i, p, e.from, m)
    <3>1. m.term <= p.current_term
      BY <1>2, <1>3 DEF Node
    <3> QED  BY <1>1, <1>2, <2>3, <3>1, OnAppendEntriesMoves
  <2>4. CASE m \in AppendEntriesReply /\ r = OnAppendReply(i, p, e.from, m)
    BY <1>1, <1>2, <2>4, OnAppendReplyMoves
  <2> QED  BY <1>1, <2>1, <2>2, <2>3, <2>4, DispatchByType DEF r
<1>7. KvGrows(n, h.node)
  BY <1>3, <1>5, <1>6 DEF KvGrows
<1>8. m \in AppendEntries /\ m.term >= n.current_term => h.reset
  <2> SUFFICES ASSUME m \in AppendEntries, m.term >= n.current_term PROVE h.reset
    OBVIOUS
  <2>1. CASE m.term > n.current_term
    BY <1>5, <2>1
  <2>2. CASE ~(m.term > n.current_term)
    <3>1. p = n
      BY <2>2 DEF AtTermOf, p
    <3>2. r = OnAppendEntries(i, p, e.from, m)
      BY <1>4 DEF Dispatch, r
    <3>3. ~(m.term < p.current_term)
      BY <1>2, <3>1
    <3> QED  BY <1>5, <3>2, <3>3, OnAppendEntriesResets
  <2> QED  BY <2>1, <2>2
<1>9. CASE Still(p, r)
  <2>1. Still(n, h) \/ (Yields(n, h) /\ h.node.current_term = m.term /\ h.reset)
    BY <1>2, <1>3, <1>5, <1>9 DEF Still, Yields, Silent
  <2> QED  BY <1>4, <1>7, <1>8, <2>1 DEF Answers, h, n, i, m
<1>10. CASE Wins(i, p, r)
  <2>1. p = n
    BY <1>3, <1>10 DEF Wins, Follower, Candidate
  <2>2. Wins(i, n, h)
    BY <1>5, <1>10, <2>1 DEF Wins
  <2> QED  BY <1>4, <1>7, <1>8, <2>2 DEF Answers, h, n, i, m
<1>11. CASE m \in AppendEntries /\ Hears(p, r, m)
  <2>1. m.term >= n.current_term
    BY <1>2, <1>3, <1>11 DEF Hears
  <2>2. Hears(n, h, m)
    BY <1>3, <1>5, <1>11, <2>1 DEF Hears, Silent
  <2> QED  BY <1>4, <1>7, <1>8, <1>11, <2>1, <2>2 DEF Answers, h, n, i, m
<1> QED  BY <1>6, <1>9, <1>10, <1>11

\* So it is one of the moves of a node.
LEMMA HandleMoves ==
  ASSUME TypeOK, ElectionInv, NEW e \in sent
  PROVE  Moved(e.to, node[e.to], Handle(e.to, node[e.to], e.from, e.msg))
<1> DEFINE n == node[e.to]
           h == Handle(e.to, n, e.from, e.msg)
<1>1. KvGrows(n, h.node) /\ Answers(e.to, n, h, e.msg)
  BY HandleAnswers
<1>2. e.to \in Server /\ e.from # e.to
  BY DEF TypeOK, Envelope, ElectionInv, VotesBind
<1> HIDE DEF h
<1>3. Moved(e.to, n, h)
  BY <1>1, <1>2 DEF Moved, Answers, SentOf
<1> QED  BY <1>3 DEF h

\* Every step is a sound move of one node, or changes nothing.
LEMMA NextMoves ==
  ASSUME TypeOK, ElectionInv, [Next]_vars
  PROVE  \/ UNCHANGED vars
         \/ \E i \in Server : \E r : /\ Step(i, r)
                                     /\ Sound(i, node[i], r)
                                     /\ Moved(i, node[i], r)
<1>1. \A i \in Server : node[i] \in Node /\ Counts(i, node[i])
  BY DEF TypeOK, ElectionInv
<1> DEFINE Goal(i) == \E r : Step(i, r) /\ Sound(i, node[i], r) /\ Moved(i, node[i], r)
<1>2. ASSUME NEW i \in Server, ElectionTimeout(i) PROVE Goal(i)
  BY <1>1, <1>2, StartElectionSound, StartElectionMoves DEF ElectionTimeout
<1>3. ASSUME NEW i \in Server, Heartbeat(i) PROVE Goal(i)
  <2>1. SameElection(node[i], node[i]) /\ node[i].role = Leader
    BY <1>3 DEF SameElection, Heartbeat
  <2> DEFINE r == Done(node[i], BroadcastAppendEntries(i, node[i]), FALSE)
  <2>2. Sound(i, node[i], r) /\ Moved(i, node[i], r)
    BY <1>1, <2>1, BroadcastSound, HeartbeatMoves
  <2>3. Step(i, r)
    BY <1>3 DEF Heartbeat
  <2> QED  BY <2>2, <2>3
<1>4. ASSUME NEW i \in Server, NEW command \in Command, Propose(i, command)
      PROVE  Goal(i)
  BY <1>1, <1>4, ClientProposeSound, ClientProposeMoves DEF Propose
<1>5. ASSUME NEW type, Receive(type) PROVE \E i \in Server : Goal(i)
  <2>1. PICK e \in sent : Step(e.to, Handle(e.to, node[e.to], e.from, e.msg))
    BY <1>5 DEF Receive
  <2>2. e.to \in Server
    BY DEF TypeOK, Envelope
  <2>3. /\ Sound(e.to, node[e.to], Handle(e.to, node[e.to], e.from, e.msg))
        /\ Moved(e.to, node[e.to], Handle(e.to, node[e.to], e.from, e.msg))
    BY HandleSound, HandleMoves
  <2> QED  BY <2>1, <2>2, <2>3
<1> QED  BY <1>2, <1>3, <1>4, <1>5
         DEF Next, ReceiveRequestVote, ReceiveVoteReply, ReceiveAppendEntries,
             ReceiveAppendReply

-----------------------------------------------------------------------------
(* Steps: what none of them does.                                          *)

\* What a step leaves of the other nodes.
LEMMA StepEffect ==
  ASSUME TypeOK, NEW i \in Server, NEW r, Step(i, r)
  PROVE  /\ node'[i] = r.node
         /\ \A j \in Server : j # i => node'[j] = node[j]
         /\ sent' = sent \cup r.out
  BY DEF Step, TypeOK

\* A leader keeps its log while it leads, and leads one term: any proposal,
\* heartbeat or answer, in any order, appends or leaves the log alone.
THEOREM LeaderAppends == Spec => LeaderAppendOnly
<1> DEFINE Kept(i) == node[i].role = Leader /\ node'[i].role = Leader =>
                        /\ node'[i].current_term = node[i].current_term
                        /\ Len(node'[i].log) >= Len(node[i].log)
                        /\ SubSeq(node'[i].log, 1, Len(node[i].log)) = node[i].log
<1>1. TypeOK /\ ElectionInv /\ [Next]_vars => [\A i \in Server : Kept(i)]_vars
  <2> SUFFICES ASSUME TypeOK, ElectionInv, [Next]_vars, vars' # vars,
                      NEW i \in Server,
                      node[i].role = Leader, node'[i].role = Leader
               PROVE  /\ node'[i].current_term = node[i].current_term
                      /\ Len(node'[i].log) >= Len(node[i].log)
                      /\ SubSeq(node'[i].log, 1, Len(node[i].log)) = node[i].log
    OBVIOUS
  <2>1. PICK j \in Server : \E r : Step(j, r) /\ Moved(j, node[j], r)
    BY NextMoves
  <2>2. PICK r : Step(j, r) /\ Moved(j, node[j], r)
    BY <2>1
  <2>3. node[i].log \in Seq(Entry) /\ node[i].current_term \in Nat
    BY DEF TypeOK, Node
  <2>4. /\ Len(node[i].log) \in Nat
        /\ SubSeq(node[i].log, 1, Len(node[i].log)) = node[i].log
    BY <2>3, SubSeqFull
  <2>5. /\ node'[i].current_term = node[i].current_term
        /\ \/ node'[i].log = node[i].log
           \/ Proposed(node[i].log, node'[i].log, node[i].current_term)
    <3>1. CASE i # j
      BY <2>2, <3>1, StepEffect
    <3>2. CASE i = j
      <4>1. r.node = node'[i]
        BY <2>2, <3>2, StepEffect
      <4>2. Still(node[i], r) \/ Leads(i, node[i], r)
        BY <2>2, <3>2, <4>1
           DEF Moved, Campaigns, Wins, Hears, Yields, Leader, Candidate, Follower
      <4> QED  BY <4>1, <4>2 DEF Still, Leads
    <3> QED  BY <3>1, <3>2
  <2>6. CASE node'[i].log = node[i].log
    BY <2>4, <2>5, <2>6
  <2>7. CASE Proposed(node[i].log, node'[i].log, node[i].current_term)
    <3>1. PICK command \in Command :
            node'[i].log = Append(node[i].log,
                                  [term |-> node[i].current_term, command |-> command])
      BY <2>7 DEF Proposed
    <3> DEFINE x == [term |-> node[i].current_term, command |-> command]
    <3>2. x \in Entry /\ node'[i].log = Append(node[i].log, x)
      BY <2>3, <3>1 DEF Entry
    <3> HIDE DEF x
    <3>3. /\ Len(node'[i].log) = Len(node[i].log) + 1
          /\ node'[i].log \in Seq(Entry)
          /\ \A k \in 1..Len(node[i].log) : node'[i].log[k] = node[i].log[k]
      BY <2>3, <3>2, AppendProperties
    <3>4. SubSeq(node'[i].log, 1, Len(node[i].log)) = node[i].log
      BY <2>3, <2>4, <3>3, SubSeqProperties, SeqEqual
    <3> QED  BY <2>4, <2>5, <3>3, <3>4
  <2> QED  BY <2>5, <2>6, <2>7
<1> QED  BY <1>1, ElectionInvariant, PTL DEF Spec, LeaderAppendOnly

\* No step takes back a command a node applied, and what it applies are the entries
\* of its log after the last one applied, each once and in order, however often and
\* in whatever order it hears of the commit index.
THEOREM AppliesOnce == Spec => AppliedOnce
<1>1. TypeOK /\ ElectionInv /\ [Next]_vars =>
        [\A i \in Server : KvGrows(node[i], node'[i])]_vars
  <2> SUFFICES ASSUME TypeOK, ElectionInv, [Next]_vars, vars' # vars,
                      NEW i \in Server
               PROVE  KvGrows(node[i], node'[i])
    OBVIOUS
  <2>1. PICK j \in Server : \E r : Step(j, r) /\ Moved(j, node[j], r)
    BY NextMoves
  <2>2. PICK r : Step(j, r) /\ Moved(j, node[j], r)
    BY <2>1
  <2>3. CASE i # j
    <3>1. node'[i] = node[i] /\ node[i] \in Node
      BY <2>2, <2>3, StepEffect DEF TypeOK
    <3> QED  BY <3>1, KvStays
  <2>4. CASE i = j
    BY <2>2, <2>4, StepEffect DEF Moved
  <2> QED  BY <2>3, <2>4
<1>2. [][\A i \in Server : KvGrows(node[i], node'[i])]_vars <=> AppliedOnce
  BY DEF KvGrows, AppliedOnce
<1> QED  BY <1>1, <1>2, ElectionInvariant, PTL DEF Spec

-----------------------------------------------------------------------------
(* Who leads a term has said so, and goes on leading it as long as it is   *)
(* in that term.                                                           *)

LedInv ==
  /\ \A i \in Server : node[i].role = Leader =>
       \E e \in SentOf("AppendEntries") :
         e.from = i /\ e.msg.term = node[i].current_term
  /\ \A e \in SentOf("AppendEntries") :
       node[e.from].current_term = e.msg.term => node[e.from].role = Leader

\* A node that led its term does not hear another leader of it.
LEMMA NoSecondLeader ==
  ASSUME TypeOK, ElectionInv, LedInv, NEW i \in Server,
         NEW e \in SentOf("AppendEntries"), e.from # i,
         e.msg.term = node[i].current_term
  PROVE  node[i].role # Leader
  BY InvImpliesSafety DEF ElectionSafety, LedInv

\* Every step of a handler keeps that.
LEMMA LedStep ==
  ASSUME TypeOK, ElectionInv, LedInv, NEW i \in Server, NEW r,
         Step(i, r), Sound(i, node[i], r), Moved(i, node[i], r)
  PROVE  LedInv'
<1>1. /\ node'[i] = r.node
      /\ \A j \in Server : j # i => node'[j] = node[j]
      /\ sent' = sent \cup r.out
  BY StepEffect
<1>2. /\ \A e \in SentOf("AppendEntries") : e \in SentOf("AppendEntries")'
      /\ \A e \in SentOf("AppendEntries")' :
           e \in SentOf("AppendEntries") \/ (e \in r.out /\ e.msg.type = "AppendEntries")
  BY <1>1 DEF SentOf
<1>3. \A e \in SentOf("AppendEntries") : e.from \in Server
  BY DEF SentOf, TypeOK, Envelope
<1>4. /\ node[i].current_term \in Nat /\ node'[i].current_term \in Nat
      /\ node[i].current_term <= node'[i].current_term
  BY <1>1 DEF TypeOK, Node, Sound, Typed
<1>5. ASSUME NEW j \in Server, node'[j].role = Leader
      PROVE  \E e \in SentOf("AppendEntries")' :
               e.from = j /\ e.msg.term = node'[j].current_term
  <2>1. CASE j # i
    BY <1>1, <1>2, <1>5, <2>1 DEF LedInv
  <2>2. CASE j = i /\ Wins(i, node[i], r)
    <3>1. PICK p \in Peers(i) : TRUE
      BY <2>2 DEF Wins
    <3> DEFINE e == [from |-> i, to |-> p, msg |-> AppendEntriesFor(r.node, p)]
    <3>2. e \in r.out
      BY <2>2 DEF Wins, BroadcastAppendEntries
    <3>3. /\ e.from = i /\ e.msg.term = r.node.current_term
          /\ e.msg.type = "AppendEntries"
      BY DEF AppendEntriesFor
    <3> HIDE DEF e
    <3> QED  BY <1>1, <2>2, <3>2, <3>3 DEF SentOf
  <2>3. CASE j = i /\ node[i].role = Leader
                   /\ node'[i].current_term = node[i].current_term
    BY <1>2, <2>3 DEF LedInv
  <2> QED
    BY <1>1, <1>5, <2>1, <2>2, <2>3
       DEF Moved, Still, Campaigns, Leads, Yields, Hears, Leader, Candidate, Follower
<1>6. ASSUME NEW e \in SentOf("AppendEntries")',
             node'[e.from].current_term = e.msg.term
      PROVE  node'[e.from].role = Leader
  <2>1. CASE e \in r.out
    BY <1>1, <2>1 DEF Sound, SentOf
  <2>2. CASE e \in SentOf("AppendEntries") /\ e.from # i
    BY <1>1, <1>3, <1>6, <2>2 DEF LedInv
  <2>3. CASE e \in SentOf("AppendEntries") /\ e.from = i
    <3>1. e.msg.term <= node[i].current_term
      BY <2>3 DEF SentOf, ElectionInv, VotesBind
    <3>2. /\ node[i].current_term = e.msg.term
          /\ node'[i].current_term = node[i].current_term
      BY <1>4, <1>6, <2>3, <3>1
    <3>3. node[i].role = Leader
      BY <2>3, <3>2 DEF LedInv
    <3>4. ~\E d \in SentOf("AppendEntries") :
             d.from # i /\ d.msg.term = node'[i].current_term
      BY <3>2, <3>3, NoSecondLeader
    <3>5. Still(node[i], r) \/ Leads(i, node[i], r)
      BY <1>1, <1>4, <3>2, <3>3, <3>4
         DEF Moved, Campaigns, Wins, Yields, Hears, Leader, Candidate
    <3> QED  BY <1>1, <2>3, <3>3, <3>5 DEF Still, Leads
  <2> QED  BY <1>2, <2>1, <2>2, <2>3
<1> QED  BY <1>5, <1>6 DEF LedInv

\* So does every step of the cluster.
LEMMA LedNext == TypeOK /\ ElectionInv /\ LedInv /\ [Next]_vars => LedInv'
<1> SUFFICES ASSUME TypeOK, ElectionInv, LedInv, [Next]_vars PROVE LedInv'
  OBVIOUS
<1>1. CASE UNCHANGED vars
  BY <1>1 DEF vars, LedInv, SentOf
<1>2. CASE \E i \in Server : \E r : /\ Step(i, r)
                                    /\ Sound(i, node[i], r)
                                    /\ Moved(i, node[i], r)
  BY <1>2, LedStep
<1> QED  BY <1>1, <1>2, NextMoves

\* The two invariants of elections together, for every reachable state.
LEMMA LedInvariant == Spec => [](TypeOK /\ ElectionInv /\ LedInv)
<1>1. Init => LedInv
  BY DEF Init, LedInv, SentOf, NewNode, Follower, Leader
<1>2. (TypeOK /\ ElectionInv /\ LedInv) /\ [Next]_vars
        => (TypeOK /\ ElectionInv /\ LedInv)'
  BY NextType, NextElection, LedNext
<1> QED  BY <1>1, <1>2, InitType, InitElection, PTL DEF Spec

\* What a step does to the roles: nothing, or one arm of role.rs for one node,
\* for the cause that arm names.
LEMMA RoleStep ==
  ASSUME TypeOK, ElectionInv, LedInv, [Next]_vars
  PROVE  \/ \A j \in Server : node'[j].role = node[j].role
         \/ \E i \in Server :
              /\ \A j \in Server : j # i => node'[j].role = node[j].role
              /\ \E event \in Fsm!Events : Fsm!On(event, i) /\ Caused(event, i)
<1>1. CASE UNCHANGED vars
  BY <1>1 DEF vars
<1>2. ASSUME NEW i \in Server, NEW r, Step(i, r), Sound(i, node[i], r),
             Moved(i, node[i], r), node'[i].role # node[i].role
      PROVE  \E event \in Fsm!Events : Fsm!On(event, i) /\ Caused(event, i)
  <2>1. /\ node'[i] = r.node
        /\ \A j \in Server : j # i => node'[j] = node[j]
    BY <1>2, StepEffect
  <2>2. node[i].role \in {Follower, Candidate, Leader} /\ node[i].current_term \in Nat
    BY DEF TypeOK, Node
  <2> DEFINE role == [j \in Server |-> node[j].role]
             Arm(old, event, new) ==
               <<old, event, new>> \in Fsm!Arms /\ node[i].role = old /\ node'[i].role = new
  <2>3. ASSUME NEW event \in Fsm!Events, NEW old, NEW new, Arm(old, event, new)
        PROVE  Fsm!On(event, i)
    <3> DEFINE arm == <<old, event, new>>
    <3>1. /\ arm \in Fsm!Arms /\ arm[1] = role[i] /\ arm[2] = event
          /\ arm[3] = node'[i].role
      BY <2>3
    <3>2. role' = [role EXCEPT ![i] = arm[3]]
      BY <2>1, <3>1
    <3> HIDE DEF arm
    <3> QED  BY <3>1, <3>2 DEF Fsm!On
  <2>4. CASE Campaigns(node[i], r)
    <3>1. Arm("Follower", "ElectionTimeout", "Candidate")
      BY <1>2, <2>1, <2>2, <2>4
         DEF Campaigns, Fsm!Arms, Follower, Candidate, Leader
    <3>2. Caused("ElectionTimeout", i)
      BY <2>1, <2>4 DEF Caused, Campaigns
    <3> QED  BY <2>3, <3>1, <3>2 DEF Fsm!Events
  <2>5. CASE Wins(i, node[i], r)
    <3>1. Arm("Candidate", "MajorityVotes", "Leader")
      BY <2>1, <2>5 DEF Wins, Fsm!Arms, Candidate, Leader
    <3>2. Caused("MajorityVotes", i)
      BY <2>1, <2>5 DEF Caused, Wins
    <3> QED  BY <2>3, <3>1, <3>2 DEF Fsm!Events
  <2>6. CASE node'[i].role = Follower /\ node'[i].current_term > node[i].current_term
    <3>1. Arm("Candidate", "HigherTerm", "Follower") \/ Arm("Leader", "HigherTerm", "Follower")
      BY <1>2, <2>2, <2>6 DEF Fsm!Arms, Follower, Candidate, Leader
    <3>2. Caused("HigherTerm", i)
      BY <2>6 DEF Caused
    <3> QED  BY <2>3, <3>1, <3>2 DEF Fsm!Events
  <2>7. CASE \E e \in SentOf("AppendEntries") :
               /\ e.to = i /\ e.from # i /\ Hears(node[i], r, e.msg)
               /\ ~(node'[i].current_term > node[i].current_term)
    <3>1. PICK e \in SentOf("AppendEntries") :
            /\ e.to = i /\ e.from # i /\ Hears(node[i], r, e.msg)
            /\ ~(node'[i].current_term > node[i].current_term)
      BY <2>7
    <3>2. e.msg.term \in Nat
      BY DEF SentOf, TypeOK, Envelope, Message, RequestVote, RequestVoteReply,
             AppendEntries, AppendEntriesReply
    <3>3. /\ e.msg.term = node[i].current_term
          /\ node'[i].current_term = node[i].current_term
          /\ node'[i].role = Follower
      BY <2>1, <2>2, <3>1, <3>2 DEF Hears
    <3>4. node[i].role # Leader
      BY <3>1, <3>3, NoSecondLeader
    <3>5. Arm("Candidate", "LeaderAppendEntries", "Follower")
      BY <1>2, <2>2, <3>3, <3>4 DEF Fsm!Arms, Follower, Candidate, Leader
    <3>6. Caused("LeaderAppendEntries", i)
      BY <3>1, <3>3 DEF Caused
    <3> QED  BY <2>3, <3>5, <3>6 DEF Fsm!Events
  <2>8. \/ Campaigns(node[i], r) \/ Wins(i, node[i], r)
        \/ node'[i].role = Follower /\ node'[i].current_term > node[i].current_term
        \/ \E e \in SentOf("AppendEntries") :
             /\ e.to = i /\ e.from # i /\ Hears(node[i], r, e.msg)
             /\ ~(node'[i].current_term > node[i].current_term)
    BY <1>2, <2>1 DEF Moved, Still, Leads, Yields, Hears
  <2> HIDE DEF Arm
  <2> QED  BY <2>4, <2>5, <2>6, <2>7, <2>8
<1>3. CASE \E i \in Server : \E r : /\ Step(i, r)
                                    /\ Sound(i, node[i], r)
                                    /\ Moved(i, node[i], r)
  <2>1. PICK i \in Server : \E r : /\ Step(i, r)
                                   /\ Sound(i, node[i], r)
                                   /\ Moved(i, node[i], r)
    BY <1>3
  <2>2. PICK r : Step(i, r) /\ Sound(i, node[i], r) /\ Moved(i, node[i], r)
    BY <2>1
  <2>3. \A j \in Server : j # i => node'[j].role = node[j].role
    BY <2>2, StepEffect
  <2> QED  BY <1>2, <2>2, <2>3
<1> QED  BY <1>1, <1>3, NextMoves

\* A role changes only for the cause the arm of role.rs names: no leader is
\* unseated within its term, and no candidate gives up but to a leader.
THEOREM RolesHaveCause == Spec => RoleChangesHaveCause
<1>1. TypeOK /\ ElectionInv /\ LedInv /\ [Next]_vars =>
        [\A i \in Server :
           node'[i].role # node[i].role =>
             \E event \in Fsm!Events : Fsm!On(event, i) /\ Caused(event, i)]_vars
  BY RoleStep
<1> QED  BY <1>1, LedInvariant, PTL DEF Spec, RoleChangesHaveCause

\* The roles the node driver assigns follow the machine role.rs declares and the
\* driver never calls: initial states and steps map to its own, or to a stutter.
THEOREM RolesFollowFsm == Spec => RolesRefineFsm
<1>1. Init => Fsm!Init
  BY DEF Init, Fsm!Init, NewNode, Follower
<1>2. TypeOK /\ ElectionInv /\ LedInv /\ [Next]_vars =>
        [Fsm!Next]_[i \in Server |-> node[i].role]
  <2> SUFFICES ASSUME TypeOK, ElectionInv, LedInv, [Next]_vars
               PROVE  [Fsm!Next]_[i \in Server |-> node[i].role]
    OBVIOUS
  <2>1. CASE \A j \in Server : node'[j].role = node[j].role
    BY <2>1
  <2>2. CASE \E i \in Server :
               \E event \in Fsm!Events : Fsm!On(event, i) /\ Caused(event, i)
    BY <2>2 DEF Fsm!Next
  <2> QED  BY <2>1, <2>2, RoleStep
<1> QED  BY <1>1, <1>2, LedInvariant, PTL DEF Spec, RolesRefineFsm, Fsm!Spec

-----------------------------------------------------------------------------
(* Log Matching.  A piece of a log is a run of entries that starts after   *)
(* index `prev`, where the log has an entry of `term`.                     *)

Piece == [prev : Nat, term : Nat, entries : Seq(Entry)]

LogPiece(log) == [prev |-> 0, term |-> 0, entries |-> log]

MsgPiece(m) == [prev |-> m.prev_log_index, term |-> m.prev_log_term,
                entries |-> m.entries]

\* The indexes whose entries, and those whose terms, a piece knows.
Held(p)  == p.prev + 1 .. p.prev + Len(p.entries)
Spans(p) == p.prev .. p.prev + Len(p.entries)

EntryAt(p, k) == p.entries[k - p.prev]
TermIn(p, k)  == IF k = p.prev THEN p.term ELSE EntryAt(p, k).term

\* Two pieces with an entry of one term at one index are the same before it,
\* as far as both know.
Agree(p, q) ==
  \A k \in Held(p) \cap Held(q) : EntryAt(p, k).term = EntryAt(q, k).term =>
    /\ \A j \in Held(p) \cap Held(q) : j <= k => EntryAt(p, j) = EntryAt(q, j)
    /\ \A j \in Spans(p) \cap Spans(q) : j <= k => TermIn(p, j) = TermIn(q, j)

\* Every log, and every slice of a log that is on its way.
Pieces == {LogPiece(node[i].log) : i \in Server}
            \cup {MsgPiece(e.msg) : e \in SentOf("AppendEntries")}

\* An entry belongs to a term somebody led, and whoever leads that term has an
\* entry of it at the same index.
Owned ==
  \A p \in Pieces : \A k \in Held(p) :
    /\ \E e \in SentOf("AppendEntries") : e.msg.term = EntryAt(p, k).term
    /\ \A i \in Server :
         node[i].role = Leader /\ node[i].current_term = EntryAt(p, k).term =>
           k <= Len(node[i].log) /\ node[i].log[k].term = EntryAt(p, k).term

AllAgree == \A p, q \in Pieces : Agree(p, q)

\* The inductive invariant behind Log Matching.
LogInv == LedInv /\ Owned /\ AllAgree

\* What q holds is what p holds there, the boundary included when q holds any.
Within(q, p) ==
  \A k \in Held(q) :
    /\ k \in Held(p) /\ EntryAt(q, k) = EntryAt(p, k)
    /\ \A j \in Spans(q) : j \in Spans(p) /\ TermIn(q, j) = TermIn(p, j)

\* Agreement is symmetric.
LEMMA AgreeSymmetric ==
  ASSUME NEW p, NEW q, Agree(p, q)
  PROVE  Agree(q, p)
  BY DEF Agree

\* A piece agrees with itself.
LEMMA AgreeSelf ==
  ASSUME NEW p
  PROVE  Agree(p, p)
  BY DEF Agree

\* Part of a piece agrees with whatever the piece agrees with.
LEMMA WithinAgrees ==
  ASSUME NEW p, NEW q, NEW s, Within(s, p), Agree(p, q)
  PROVE  Agree(s, q)
  BY DEF Within, Agree

\* The log of a node is a sequence of entries.
LEMMA NodeLog ==
  ASSUME NEW n \in Node
  PROVE  n.log \in Seq(Entry) /\ Len(n.log) \in Nat
  BY DEF Node

\* The entries of a log as a piece.
LEMMA LogPieceHolds ==
  ASSUME NEW log \in Seq(Entry)
  PROVE  /\ LogPiece(log) \in Piece
         /\ Held(LogPiece(log)) = 1..Len(log)
         /\ Spans(LogPiece(log)) = 0..Len(log)
         /\ \A k \in 1..Len(log) : /\ EntryAt(LogPiece(log), k) = log[k]
                                   /\ TermIn(LogPiece(log), k) = log[k].term
         /\ TermIn(LogPiece(log), 0) = 0
  BY DEF LogPiece, Piece, Held, Spans, EntryAt, TermIn

\* What a leader sends a peer is part of its log: past the end of the log the
\* slice is empty, and holds nothing.
LEMMA SentIsWithin ==
  ASSUME NEW n \in Node, NEW to \in Server
  PROVE  Within(MsgPiece(AppendEntriesFor(n, to)), LogPiece(n.log))
<1> DEFINE prev == IF n.next_index[to] > 1 THEN n.next_index[to] - 1 ELSE 0
           s == MsgPiece(AppendEntriesFor(n, to))
<1>1. n.log \in Seq(Entry) /\ n.next_index[to] \in Nat \ {0} /\ Len(n.log) \in Nat
  BY DEF Node
<1>2. prev \in Nat
  BY <1>1
<1>3. /\ s.prev = prev /\ s.term = TermAt(n.log, prev)
      /\ s.entries = SliceFrom(n.log, prev + 1)
  BY DEF MsgPiece, AppendEntriesFor
<1> HIDE DEF prev, s
<1>4. \A k \in prev + 1 .. Len(n.log) : n.log[k] \in Entry
  BY <1>1, <1>2
<1>5. /\ Len(s.entries) = IF prev + 1 <= Len(n.log) THEN Len(n.log) - prev ELSE 0
      /\ \A k \in 1..Len(n.log) - prev : s.entries[k] = n.log[prev + k]
  <2> DEFINE low == prev + 1
             slice == SubSeq(n.log, low, Len(n.log))
  <2>1. low \in Int /\ Len(n.log) \in Int /\ s.entries = slice
    BY <1>1, <1>2, <1>3 DEF SliceFrom
  <2>2. /\ Len(slice) = IF low <= Len(n.log) THEN Len(n.log) - low + 1 ELSE 0
        /\ \A k \in 1 .. Len(n.log) - low + 1 : slice[k] = n.log[low + k - 1]
    <3> HIDE DEF low
    <3>1. \A k \in low..Len(n.log) : n.log[k] \in Entry
      BY <1>4 DEF low
    <3> QED  BY <2>1, <3>1, SubSeqProperties
  <2> HIDE DEF slice
  <2>3. Len(n.log) - low + 1 = Len(n.log) - prev
    BY <1>1, <1>2
  <2>4. ASSUME NEW k \in 1..Len(n.log) - prev PROVE slice[k] = n.log[prev + k]
    <3>1. low + k - 1 = prev + k
      BY <1>1, <1>2
    <3> QED  BY <2>2, <2>3, <3>1
  <2> QED  BY <2>1, <2>2, <2>3, <2>4
<1>6. ASSUME NEW k \in Held(s)
      PROVE  /\ k \in 1..Len(n.log) /\ EntryAt(s, k) = n.log[k]
             /\ prev + 1 <= Len(n.log)
  <2>1. k \in prev + 1 .. prev + Len(s.entries) /\ prev + 1 <= Len(n.log)
    BY <1>1, <1>2, <1>3, <1>5 DEF Held
  <2>2. k \in prev + 1 .. Len(n.log) /\ k - prev \in 1..Len(n.log) - prev
    BY <1>1, <1>2, <1>5, <2>1
  <2>3. s.entries[k - prev] = n.log[prev + (k - prev)] /\ prev + (k - prev) = k
    BY <1>2, <1>5, <2>2, SMTT(30)
  <2> QED  BY <1>1, <1>2, <1>3, <2>1, <2>2, <2>3 DEF EntryAt
<1>7. ASSUME NEW k \in Held(s), NEW j \in Spans(s)
      PROVE  j \in Spans(LogPiece(n.log)) /\ TermIn(s, j) = TermIn(LogPiece(n.log), j)
  <2>1. prev + 1 <= Len(n.log)
    BY <1>6
  <2>2. j \in prev..Len(n.log)
    BY <1>1, <1>2, <1>3, <1>5, <2>1 DEF Spans
  <2>3. CASE j = prev
    <3>1. TermIn(s, j) = TermAt(n.log, prev)
      BY <1>3, <2>3 DEF TermIn
    <3>2. prev = 0 => TermAt(n.log, prev) = 0
      BY <1>1 DEF TermAt
    <3>3. prev # 0 => prev \in 1..Len(n.log) /\ TermAt(n.log, prev) = n.log[prev].term
      BY <1>1, <1>2, <2>1 DEF TermAt
    <3> QED  BY <1>1, <1>2, <2>2, <2>3, <3>1, <3>2, <3>3, LogPieceHolds
  <2>4. CASE j # prev
    <3>1. j \in Held(s)
      BY <1>2, <1>3, <2>4 DEF Spans, Held
    <3>2. j \in 1..Len(n.log) /\ EntryAt(s, j) = n.log[j]
      BY <1>6, <3>1
    <3>3. TermIn(s, j) = n.log[j].term
      BY <1>3, <2>4, <3>2 DEF TermIn
    <3> QED  BY <1>1, <3>2, <3>3, LogPieceHolds
  <2> QED  BY <2>3, <2>4
<1>8. Within(s, LogPiece(n.log))
  BY <1>1, <1>6, <1>7, LogPieceHolds DEF Within
<1> QED  BY <1>8 DEF s

\* What a splice keeps of the log and takes from the entries.
LEMMA SpliceShape ==
  ASSUME NEW log \in Seq(Entry), NEW entries \in Seq(Entry), NEW prev \in 0..Len(log)
  PROVE  \/ Splice(log, prev, entries) = log
         \/ \E c \in 1..Len(entries) :
              /\ prev + c - 1 <= Len(log)
              /\ \A k \in 1..c - 1 : log[prev + k].term = entries[k].term
              /\ Len(Splice(log, prev, entries)) = prev + Len(entries)
              /\ \A j \in 1..prev + c - 1 : Splice(log, prev, entries)[j] = log[j]
              /\ \A j \in prev + c .. prev + Len(entries) :
                   Splice(log, prev, entries)[j] = entries[j - prev]
<1> DEFINE clashes == Clashes(log, prev, entries)
           c == Min(clashes)
           s == Splice(log, prev, entries)
           head == SubSeq(log, 1, prev + c - 1)
           tail == SubSeq(entries, c, Len(entries))
<1>1. CASE clashes = {}
  BY <1>1 DEF Splice
<1>2. CASE clashes # {}
  <2>1. Len(log) \in Nat /\ Len(entries) \in Nat /\ prev \in Nat /\ prev <= Len(log)
    OBVIOUS
  <2>2. c \in clashes /\ \A k \in clashes : c <= k
    <3>1. clashes \subseteq Nat
      BY DEF Clashes
    <3> QED  BY <1>2, <3>1, MinExists
  <2>3. c \in 1..Len(entries)
    BY <2>2 DEF Clashes
  <2>4. \A k \in 1..c - 1 : prev + k <= Len(log) /\ log[prev + k].term = entries[k].term
    <3> TAKE k \in 1..c - 1
    <3>1. k \in 1..Len(entries) /\ ~(c <= k)
      BY <2>1, <2>3
    <3>2. k \notin clashes
      BY <2>2, <3>1
    <3> QED  BY <2>1, <3>1, <3>2 DEF Clashes
  <2>5. s = head \o tail
    BY <1>2 DEF Splice
  <2> HIDE DEF c, clashes, s
  <2>6. prev + c - 1 <= Len(log)
    <3>1. CASE c = 1
      BY <2>1, <3>1
    <3>2. CASE c # 1
      <4>1. c - 1 \in 1..c - 1
        BY <2>1, <2>3, <3>2
      <4> QED  BY <2>1, <2>3, <2>4, <4>1
    <3> QED  BY <3>1, <3>2
  <2>7. /\ head \in Seq(Entry) /\ Len(head) = prev + c - 1
        /\ \A j \in 1..prev + c - 1 : head[j] = log[j]
    <3> DEFINE h == prev + c - 1
    <3>1. h \in Int /\ h >= 0 /\ \A j \in 1..h : log[j] \in Entry
      BY <2>1, <2>3, <2>6
    <3> HIDE DEF h
    <3>2. /\ SubSeq(log, 1, h) \in Seq(Entry)
          /\ Len(SubSeq(log, 1, h)) = IF 1 <= h THEN h - 1 + 1 ELSE 0
          /\ \A j \in 1..h - 1 + 1 : SubSeq(log, 1, h)[j] = log[1 + j - 1]
      BY <3>1, SubSeqProperties
    <3>3. \A j \in 1..h : SubSeq(log, 1, h)[j] = log[j]
      <4> TAKE j \in 1..h
      <4>1. j \in 1..h - 1 + 1 /\ 1 + j - 1 = j
        BY <3>1
      <4> QED  BY <3>2, <4>1
    <3>4. SubSeq(log, 1, h) = head
      BY DEF h
    <3> QED  BY <3>1, <3>2, <3>3, <3>4 DEF h
  <2>8. /\ tail \in Seq(Entry) /\ Len(tail) = Len(entries) - c + 1
        /\ \A k \in 1..Len(entries) - c + 1 : tail[k] = entries[c + k - 1]
    <3>1. c \in Int /\ c <= Len(entries) /\ \A k \in c..Len(entries) : entries[k] \in Entry
      BY <2>1, <2>3
    <3> QED  BY <2>1, <3>1, SubSeqProperties
  <2> HIDE DEF head, tail
  <2>9. /\ Len(s) = prev + Len(entries)
        /\ \A j \in 1..prev + c - 1 : s[j] = log[j]
    <3>1. /\ Len(s) = Len(head) + Len(tail)
          /\ \A j \in 1..Len(head) + Len(tail) :
               s[j] = IF j <= Len(head) THEN head[j] ELSE tail[j - Len(head)]
      BY <2>5, <2>7, <2>8, ConcatProperties
    <3>2. Len(head) + Len(tail) = prev + Len(entries)
      BY <2>1, <2>3, <2>7, <2>8
    <3>3. ASSUME NEW j \in 1..prev + c - 1 PROVE s[j] = log[j]
      <4>1. j \in 1..Len(head) + Len(tail) /\ j <= Len(head)
        BY <2>1, <2>3, <2>7, <2>8, <3>2
      <4> QED  BY <2>7, <3>1, <4>1
    <3> QED  BY <3>1, <3>2, <3>3
  <2>10. ASSUME NEW j \in prev + c .. prev + Len(entries) PROVE s[j] = entries[j - prev]
    <3>1. j \in 1..Len(head) + Len(tail) /\ ~(j <= Len(head))
      BY <2>1, <2>3, <2>7, <2>8
    <3>2. s[j] = tail[j - Len(head)]
      BY <2>5, <2>7, <2>8, <3>1, ConcatProperties
    <3>3. /\ j - Len(head) \in 1..Len(entries) - c + 1
          /\ c + (j - Len(head)) - 1 = j - prev
      BY <2>1, <2>3, <2>7
    <3> QED  BY <2>8, <3>2, <3>3
  <2> QED  BY <2>3, <2>4, <2>6, <2>9, <2>10 DEF s
<1> QED  BY <1>1, <1>2

\* A log that agrees with the entries it takes ends up with its own part before
\* the boundary and the entries after it, or as it was: a kept entry and a
\* received one of the same term are the same.
LEMMA SpliceMerges ==
  ASSUME NEW log \in Seq(Entry), NEW m \in AppendEntries,
         Matches(log, m.prev_log_index, m.prev_log_term),
         Agree(LogPiece(log), MsgPiece(m))
  PROVE  \/ Splice(log, m.prev_log_index, m.entries) = log
         \/ /\ Splice(log, m.prev_log_index, m.entries) \in Seq(Entry)
            /\ Len(Splice(log, m.prev_log_index, m.entries))
                 = m.prev_log_index + Len(m.entries)
            /\ \A j \in 1..m.prev_log_index :
                 Splice(log, m.prev_log_index, m.entries)[j] = log[j]
            /\ \A j \in Held(MsgPiece(m)) :
                 Splice(log, m.prev_log_index, m.entries)[j] = EntryAt(MsgPiece(m), j)
<1> DEFINE prev == m.prev_log_index
           entries == m.entries
           s == Splice(log, prev, entries)
           q == MsgPiece(m)
<1>1. /\ entries \in Seq(Entry) /\ prev \in 0..Len(log) /\ prev \in Nat
      /\ Len(log) \in Nat /\ Len(entries) \in Nat
  BY DEF AppendEntries, Matches
<1>2. /\ Held(q) = prev + 1 .. prev + Len(entries)
      /\ \A j \in Held(q) : EntryAt(q, j) = entries[j - prev]
  BY DEF MsgPiece, Held, EntryAt
<1>3. s \in Seq(Entry)
  BY <1>1, SpliceType
<1>4. CASE s = log
  BY <1>4
<1>5. ASSUME NEW c \in 1..Len(entries),
             prev + c - 1 <= Len(log),
             \A k \in 1..c - 1 : log[prev + k].term = entries[k].term,
             Len(s) = prev + Len(entries),
             \A j \in 1..prev + c - 1 : s[j] = log[j],
             \A j \in prev + c .. prev + Len(entries) : s[j] = entries[j - prev]
      PROVE  \A j \in Held(q) : s[j] = EntryAt(q, j)
  <2> TAKE j \in Held(q)
  <2>1. j \in prev + 1 .. prev + Len(entries) /\ EntryAt(q, j) = entries[j - prev]
    BY <1>2
  <2>2. CASE j >= prev + c
    BY <1>1, <1>5, <2>1, <2>2
  <2>3. CASE j < prev + c
    <3>1. /\ j - prev \in 1..c - 1 /\ prev + (j - prev) = j
          /\ j \in 1..prev + c - 1 /\ j \in 1..Len(log)
      BY <1>1, <1>5, <2>1, <2>3, SMTT(30)
    <3>2. log[j].term = EntryAt(q, j).term
      BY <1>5, <2>1, <3>1
    <3>3. j \in Held(LogPiece(log)) /\ EntryAt(LogPiece(log), j) = log[j]
      BY <3>1, LogPieceHolds
    <3>4. j <= j
      BY <3>1
    <3>5. log[j] = EntryAt(q, j)
      BY <3>2, <3>3, <3>4 DEF Agree
    <3> QED  BY <1>5, <3>1, <3>5
  <2> QED  BY <1>1, <1>5, <2>1, <2>2, <2>3
<1>6. CASE s # log
  <2>1. PICK c \in 1..Len(entries) :
          /\ prev + c - 1 <= Len(log)
          /\ \A k \in 1..c - 1 : log[prev + k].term = entries[k].term
          /\ Len(s) = prev + Len(entries)
          /\ \A j \in 1..prev + c - 1 : s[j] = log[j]
          /\ \A j \in prev + c .. prev + Len(entries) : s[j] = entries[j - prev]
    BY <1>1, <1>6, SpliceShape
  <2>2. \A j \in Held(q) : s[j] = EntryAt(q, j)
    BY <1>5, <2>1
  <2>3. \A j \in 1..prev : s[j] = log[j]
    BY <1>1, <2>1
  <2> QED  BY <1>3, <2>1, <2>2, <2>3
<1> QED  BY <1>4, <1>6

\* So it agrees with whatever the log and the entries agree with: before the
\* boundary by the log, after it by the entries, which carry the boundary's term.
LEMMA MergeAgrees ==
  ASSUME NEW log \in Seq(Entry), NEW m \in AppendEntries, NEW q \in Piece,
         NEW s \in Seq(Entry),
         Matches(log, m.prev_log_index, m.prev_log_term),
         Agree(LogPiece(log), q), Agree(MsgPiece(m), q),
         Len(s) = m.prev_log_index + Len(m.entries),
         \A j \in 1..m.prev_log_index : s[j] = log[j],
         \A j \in Held(MsgPiece(m)) : s[j] = EntryAt(MsgPiece(m), j)
  PROVE  Agree(LogPiece(s), q)
<1> DEFINE prev == m.prev_log_index
           l == LogPiece(log)
           e == MsgPiece(m)
           p == LogPiece(s)
<1>1. /\ prev \in Nat /\ prev <= Len(log) /\ Len(log) \in Nat
      /\ Len(m.entries) \in Nat /\ Len(s) \in Nat
      /\ q.prev \in Nat /\ Len(q.entries) \in Nat
      /\ TermAt(log, prev) = m.prev_log_term
  BY DEF AppendEntries, Matches, Piece
<1>2. /\ Held(e) = prev + 1 .. Len(s) /\ Spans(e) = prev..Len(s)
      /\ TermIn(e, prev) = m.prev_log_term
      /\ \A j \in Held(e) : TermIn(e, j) = EntryAt(e, j).term
  BY <1>1 DEF MsgPiece, Held, Spans, TermIn
<1>3. /\ Held(q) = q.prev + 1 .. q.prev + Len(q.entries)
      /\ Spans(q) = q.prev .. q.prev + Len(q.entries)
      /\ \A j \in Held(q) : TermIn(q, j) = EntryAt(q, j).term
  BY <1>1 DEF Held, Spans, TermIn
<1>4. /\ Held(p) = 1..Len(s) /\ Spans(p) = 0..Len(s)
      /\ \A j \in 1..Len(s) : EntryAt(p, j) = s[j] /\ TermIn(p, j) = s[j].term
      /\ TermIn(p, 0) = 0
      /\ Held(l) = 1..Len(log) /\ Spans(l) = 0..Len(log)
      /\ \A j \in 1..Len(log) : EntryAt(l, j) = log[j] /\ TermIn(l, j) = log[j].term
      /\ TermIn(l, 0) = 0
  BY LogPieceHolds
<1>5. \A j \in 0..prev : TermIn(p, j) = TermIn(l, j)
  BY <1>1, <1>4
<1>6. TermIn(l, prev) = m.prev_log_term
  BY <1>1, <1>4 DEF TermAt
<1> HIDE DEF l, e, p, prev
\* What the log knows before an index at or before the boundary.
<1>7. ASSUME NEW k \in Held(q), k \in 1..prev, TermIn(l, k) = EntryAt(q, k).term
      PROVE  /\ \A j \in Held(p) \cap Held(q) : j <= k => EntryAt(p, j) = EntryAt(q, j)
             /\ \A j \in Spans(p) \cap Spans(q) : j <= k => TermIn(p, j) = TermIn(q, j)
  <2>1. k \in Held(l) \cap Held(q) /\ EntryAt(l, k).term = EntryAt(q, k).term
    BY <1>1, <1>4, <1>7
  <2>2. /\ \A j \in Held(l) \cap Held(q) : j <= k => EntryAt(l, j) = EntryAt(q, j)
        /\ \A j \in Spans(l) \cap Spans(q) : j <= k => TermIn(l, j) = TermIn(q, j)
    BY <2>1 DEF Agree, l
  <2>3. ASSUME NEW j \in Held(p) \cap Held(q), j <= k
        PROVE  EntryAt(p, j) = EntryAt(q, j)
    <3>1. j \in 1..prev /\ j \in Held(l) /\ EntryAt(p, j) = EntryAt(l, j)
      BY <1>1, <1>4, <1>7, <2>3 DEF prev
    <3> QED  BY <2>2, <2>3, <3>1
  <2>4. ASSUME NEW j \in Spans(p) \cap Spans(q), j <= k
        PROVE  TermIn(p, j) = TermIn(q, j)
    <3>1. j \in 0..prev /\ j \in Spans(l)
      BY <1>1, <1>4, <1>7, <2>4
    <3> QED  BY <1>5, <2>2, <2>4, <3>1
  <2> QED  BY <2>3, <2>4
\* What the entries know before an index after it.
<1>8. ASSUME NEW k \in Held(q), k \in Held(e), EntryAt(e, k).term = EntryAt(q, k).term
      PROVE  /\ \A j \in Held(p) \cap Held(q) : j <= k => EntryAt(p, j) = EntryAt(q, j)
             /\ \A j \in Spans(p) \cap Spans(q) : j <= k => TermIn(p, j) = TermIn(q, j)
  <2>1. /\ \A j \in Held(e) \cap Held(q) : j <= k => EntryAt(e, j) = EntryAt(q, j)
        /\ \A j \in Spans(e) \cap Spans(q) : j <= k => TermIn(e, j) = TermIn(q, j)
    BY <1>8 DEF Agree, e
  <2>2. \A j \in Held(e) : j \in 1..Len(s) /\ EntryAt(p, j) = EntryAt(e, j)
                           /\ TermIn(p, j) = TermIn(e, j)
    BY <1>1, <1>2, <1>4 DEF e
  <2>3. ASSUME NEW j \in 0..prev, j \in Held(q) \/ (j \in Spans(q) /\ j < prev)
        PROVE  /\ prev \in Held(q) /\ prev \in 1..prev /\ j <= prev
               /\ TermIn(l, prev) = EntryAt(q, prev).term
    <3>1. prev \in Held(q) /\ prev \in Spans(q) /\ prev \in Spans(e) /\ prev <= k
      BY <1>1, <1>2, <1>3, <1>8, <2>3
    <3>2. TermIn(e, prev) = TermIn(q, prev)
      BY <2>1, <3>1
    <3>3. prev \in 1..prev /\ j <= prev
      BY <1>1, <1>3, <2>3
    <3> QED  BY <1>2, <1>3, <1>6, <3>1, <3>2, <3>3
  <2>4. ASSUME NEW j \in Held(p) \cap Held(q), j <= k
        PROVE  EntryAt(p, j) = EntryAt(q, j)
    <3>1. CASE j \in Held(e)
      BY <2>1, <2>2, <2>4, <3>1
    <3>2. CASE j \notin Held(e)
      <4>1. j \in 0..prev
        BY <1>1, <1>2, <1>4, <2>4, <3>2
      <4> QED  BY <1>7, <2>3, <2>4, <4>1
    <3> QED  BY <3>1, <3>2
  <2>5. ASSUME NEW j \in Spans(p) \cap Spans(q), j <= k
        PROVE  TermIn(p, j) = TermIn(q, j)
    <3>1. CASE j \in Held(e)
      <4>1. j \in Spans(e)
        BY <1>1, <1>2, <3>1
      <4> QED  BY <2>1, <2>2, <2>5, <3>1, <4>1
    <3>2. CASE j = prev
      <4>1. j \in Spans(e) /\ prev \in 0..prev
        BY <1>1, <1>2, <1>4, <2>5, <3>2
      <4> QED  BY <1>2, <1>5, <1>6, <2>1, <2>5, <3>2, <4>1
    <3>3. CASE j \notin Held(e) /\ j # prev
      <4>1. j \in 0..prev /\ j < prev
        BY <1>1, <1>2, <1>4, <2>5, <3>3
      <4> QED  BY <1>7, <2>3, <2>5, <4>1
    <3> QED  BY <3>1, <3>2, <3>3
  <2> QED  BY <2>4, <2>5
<1>9. ASSUME NEW k \in Held(p) \cap Held(q), EntryAt(p, k).term = EntryAt(q, k).term
      PROVE  /\ \A j \in Held(p) \cap Held(q) : j <= k => EntryAt(p, j) = EntryAt(q, j)
             /\ \A j \in Spans(p) \cap Spans(q) : j <= k => TermIn(p, j) = TermIn(q, j)
  <2>1. CASE k \in 1..prev
    <3>1. TermIn(l, k) = EntryAt(q, k).term
      BY <1>1, <1>4, <1>5, <1>9, <2>1
    <3> QED  BY <1>7, <1>9, <2>1, <3>1
  <2>2. CASE k \notin 1..prev
    <3>1. k \in Held(e)
      BY <1>1, <1>2, <1>4, <1>9, <2>2
    <3>2. EntryAt(e, k) = EntryAt(p, k)
      BY <1>2, <1>4, <1>9, <3>1 DEF e
    <3> QED  BY <1>8, <1>9, <3>1, <3>2
  <2> QED  BY <2>1, <2>2
<1>10. Agree(p, q)
  BY <1>9 DEF Agree
<1> QED  BY <1>10 DEF p

-----------------------------------------------------------------------------
(* A step keeps the invariant: every piece after it is a piece from before *)
(* or part of the log its node has now.                                    *)

\* Logs and the entries of messages are pieces of logs.
LEMMA PiecesType ==
  ASSUME TypeOK, NEW p \in Pieces
  PROVE  p \in Piece
<1>1. \A i \in Server : node[i].log \in Seq(Entry)
  BY DEF TypeOK, Node
<1>2. ASSUME NEW e \in SentOf("AppendEntries") PROVE e.msg \in AppendEntries
  BY DEF SentOf, TypeOK, Envelope, Message, RequestVote, RequestVoteReply,
         AppendEntries, AppendEntriesReply
<1> QED  BY <1>1, <1>2, LogPieceHolds DEF Pieces, MsgPiece, Piece, AppendEntries

\* What a step adds to the pieces.
LEMMA PiecesStep ==
  ASSUME TypeOK, NEW i \in Server, NEW r, Step(i, r), Typed(r),
         Moved(i, node[i], r), NEW p \in Pieces'
  PROVE  p \in Pieces \/ Within(p, LogPiece(r.node.log))
<1>1. /\ node'[i] = r.node
      /\ \A j \in Server : j # i => node'[j] = node[j]
      /\ sent' = sent \cup r.out
  BY StepEffect
<1>2. CASE \E j \in Server : p = LogPiece(node'[j].log)
  <2>1. PICK j \in Server : p = LogPiece(node'[j].log)
    BY <1>2
  <2>2. CASE j = i
    BY <1>1, <2>1, <2>2 DEF Within
  <2>3. CASE j # i
    BY <1>1, <2>1, <2>3 DEF Pieces
  <2> QED  BY <2>2, <2>3
<1>3. CASE \E e \in SentOf("AppendEntries")' : p = MsgPiece(e.msg)
  <2>1. PICK e \in SentOf("AppendEntries")' : p = MsgPiece(e.msg)
    BY <1>3
  <2>2. CASE e \in sent
    <3>1. e \in SentOf("AppendEntries")
      BY <2>1, <2>2 DEF SentOf
    <3> QED  BY <2>1, <3>1 DEF Pieces
  <2>3. CASE e \in r.out
    <3>1. e.msg.type = "AppendEntries"
      BY <2>1 DEF SentOf
    <3>2. r.out = BroadcastAppendEntries(i, r.node)
      BY <2>3, <3>1
         DEF Moved, Still, Campaigns, Wins, Leads, Yields, Hears, Silent
    <3>3. PICK to \in Server : e.msg = AppendEntriesFor(r.node, to)
      BY <2>3, <3>2 DEF BroadcastAppendEntries, Peers
    <3> QED  BY <2>1, <3>3, SentIsWithin DEF Typed
  <2> QED  BY <1>1, <2>1, <2>2, <2>3 DEF SentOf
<1> QED  BY <1>2, <1>3 DEF Pieces

\* The entry at k of log is of a term some piece has there.
Known(log, k) == \E p \in Pieces : k \in Held(p) /\ EntryAt(p, k).term = log[k].term

\* A proposal agrees with every piece: no other holds its term that far.
LEMMA ProposalAgrees ==
  ASSUME TypeOK, LogInv, NEW i \in Server, node[i].role = Leader,
         NEW log, Proposed(node[i].log, log, node[i].current_term)
  PROVE  /\ \A q \in Pieces : Agree(LogPiece(log), q)
         /\ Len(log) = Len(node[i].log) + 1 /\ log \in Seq(Entry)
         /\ \A k \in 1..Len(node[i].log) : log[k] = node[i].log[k]
         /\ log[Len(log)].term = node[i].current_term
<1> DEFINE old == node[i].log
           term == node[i].current_term
<1>1. old \in Seq(Entry) /\ term \in Nat /\ Len(old) \in Nat
  BY DEF TypeOK, Node
<1>2. PICK x \in Entry : log = Append(old, x) /\ x.term = term
  BY <1>1 DEF Proposed, Entry
<1>3. /\ log \in Seq(Entry) /\ Len(log) = Len(old) + 1
      /\ \A k \in 1..Len(old) : log[k] = old[k]
      /\ log[Len(old) + 1] = x
  BY <1>1, <1>2, AppendProperties
<1>4. ASSUME NEW q \in Pieces PROVE Agree(LogPiece(log), q)
  <2> DEFINE p == LogPiece(log)
             l == LogPiece(old)
  <2>1. Agree(l, q)
    BY DEF LogInv, AllAgree, Pieces
  <2>2. /\ Held(p) = 1..Len(old) + 1 /\ Spans(p) = 0..Len(old) + 1
        /\ \A k \in 1..Len(old) + 1 : EntryAt(p, k) = log[k] /\ TermIn(p, k) = log[k].term
        /\ TermIn(p, 0) = 0
        /\ Held(l) = 1..Len(old) /\ Spans(l) = 0..Len(old)
        /\ \A k \in 1..Len(old) : EntryAt(l, k) = old[k] /\ TermIn(l, k) = old[k].term
        /\ TermIn(l, 0) = 0
    BY <1>1, <1>3, LogPieceHolds
  <2> HIDE DEF p, l
  <2>3. \A k \in 1..Len(old) : EntryAt(p, k) = EntryAt(l, k)
    BY <1>1, <1>3, <2>2
  <2>4. \A k \in 0..Len(old) : TermIn(p, k) = TermIn(l, k)
    BY <1>1, <1>3, <2>2, SMTT(30)
  <2>5. ASSUME NEW k \in Held(p) \cap Held(q), EntryAt(p, k).term = EntryAt(q, k).term
        PROVE  k \in 1..Len(old)
    <3>1. CASE k = Len(old) + 1
      <4>1. EntryAt(q, k).term = term
        BY <1>1, <1>2, <1>3, <2>2, <2>5, <3>1
      <4>2. k <= Len(old)
        BY <4>1, <2>5 DEF LogInv, Owned
      <4> QED  BY <1>1, <3>1, <4>2
    <3> QED  BY <1>1, <2>2, <2>5, <3>1
  <2>6. ASSUME NEW k \in Held(p) \cap Held(q), EntryAt(p, k).term = EntryAt(q, k).term
        PROVE  /\ \A j \in Held(p) \cap Held(q) : j <= k => EntryAt(p, j) = EntryAt(q, j)
               /\ \A j \in Spans(p) \cap Spans(q) : j <= k => TermIn(p, j) = TermIn(q, j)
    <3>1. k \in Held(l) \cap Held(q) /\ EntryAt(l, k).term = EntryAt(q, k).term
      BY <2>2, <2>3, <2>5, <2>6
    <3>2. /\ \A j \in Held(l) \cap Held(q) : j <= k => EntryAt(l, j) = EntryAt(q, j)
          /\ \A j \in Spans(l) \cap Spans(q) : j <= k => TermIn(l, j) = TermIn(q, j)
      BY <2>1, <3>1 DEF Agree
    <3>3. /\ \A j \in Held(p) : j <= k => j \in Held(l) /\ EntryAt(p, j) = EntryAt(l, j)
          /\ \A j \in Spans(p) : j <= k => j \in Spans(l) /\ TermIn(p, j) = TermIn(l, j)
      BY <1>1, <2>2, <2>3, <2>4, <3>1
    <3> QED  BY <3>2, <3>3
  <2>7. Agree(p, q)
    BY <2>6 DEF Agree
  <2> QED  BY <2>7 DEF p
<1> QED  BY <1>2, <1>3, <1>4

\* The log after a step agrees with every piece, is made of terms the pieces
\* have where it has them or ends in a leader's proposal, and still holds what
\* a leader held.
LEMMA NewLogAgrees ==
  ASSUME TypeOK, LogInv, NEW i \in Server, NEW r, Typed(r), Moved(i, node[i], r)
  PROVE  /\ \A q \in Pieces : Agree(LogPiece(r.node.log), q)
         /\ \A k \in 1..Len(r.node.log) :
              \/ Known(r.node.log, k)
              \/ /\ node[i].role = Leader /\ r.node.role = Leader
                 /\ r.node.current_term = node[i].current_term
                 /\ r.node.log[k].term = node[i].current_term
         /\ node[i].role = Leader /\ r.node.role = Leader =>
              \A k \in 1..Len(node[i].log) :
                k <= Len(r.node.log) /\ r.node.log[k] = node[i].log[k]
<1> DEFINE old == node[i].log
           log == r.node.log
<1>1. /\ old \in Seq(Entry) /\ Len(old) \in Nat
      /\ log \in Seq(Entry) /\ Len(log) \in Nat
  <2>1. node[i] \in Node /\ r.node \in Node
    BY DEF TypeOK, Typed
  <2> QED  BY <2>1, NodeLog
<1>2. LogPiece(old) \in Pieces
  BY DEF Pieces
<1>3. \A k \in 1..Len(old) : Known(old, k)
  BY <1>1, <1>2, LogPieceHolds DEF Known
<1>4. CASE log = old
  <2>1. \A q \in Pieces : Agree(LogPiece(log), q)
    BY <1>2, <1>4 DEF LogInv, AllAgree
  <2> QED  BY <1>1, <1>3, <1>4, <2>1
<1>5. CASE Leads(i, node[i], r) /\ Proposed(old, log, node[i].current_term)
  <2>1. node[i].role = Leader /\ r.node.role = Leader
        /\ r.node.current_term = node[i].current_term
    BY <1>5 DEF Leads
  <2>2. /\ \A q \in Pieces : Agree(LogPiece(log), q)
        /\ Len(log) = Len(old) + 1
        /\ \A k \in 1..Len(old) : log[k] = old[k]
        /\ log[Len(log)].term = node[i].current_term
    BY <1>5, <2>1, ProposalAgrees
  <2>3. ASSUME NEW k \in 1..Len(log) PROVE Known(log, k) \/ k = Len(log)
    <3>1. k \in 1..Len(old) \/ k = Len(log)
      BY <1>1, <2>2
    <3> QED  BY <1>3, <2>2, <3>1 DEF Known
  <2>4. \A k \in 1..Len(old) : k <= Len(log)
    BY <1>1, <2>2
  <2> QED  BY <2>1, <2>2, <2>3, <2>4
<1>6. CASE \E e \in SentOf("AppendEntries") : Hears(node[i], r, e.msg)
  <2>1. PICK e \in SentOf("AppendEntries") : Hears(node[i], r, e.msg)
    BY <1>6
  <2> DEFINE m == e.msg
             s == Splice(old, m.prev_log_index, m.entries)
  <2>2. m \in AppendEntries /\ MsgPiece(m) \in Pieces
    BY DEF SentOf, TypeOK, Envelope, Message, RequestVote, RequestVoteReply,
           AppendEntries, AppendEntriesReply, Pieces
  <2>3. CASE log = old
    BY <1>4, <2>3
  <2>4. CASE Matches(old, m.prev_log_index, m.prev_log_term) /\ log = s /\ s # old
    <3>1. Agree(LogPiece(old), MsgPiece(m))
      BY <1>2, <2>2 DEF LogInv, AllAgree
    <3> HIDE DEF m, s
    <3>2. /\ Len(log) = m.prev_log_index + Len(m.entries)
          /\ \A j \in 1..m.prev_log_index : log[j] = old[j]
          /\ \A j \in Held(MsgPiece(m)) : log[j] = EntryAt(MsgPiece(m), j)
      BY <1>1, <2>2, <2>4, <3>1, SpliceMerges DEF s
    <3>3. ASSUME NEW q \in Pieces PROVE Agree(LogPiece(log), q)
      <4>1. Agree(LogPiece(old), q) /\ Agree(MsgPiece(m), q) /\ q \in Piece
        BY <1>2, <2>2, PiecesType DEF LogInv, AllAgree
      <4> HIDE DEF old, log
      <4> QED  BY <1>1, <2>2, <2>4, <3>2, <4>1, MergeAgrees
    <3>4. ASSUME NEW k \in 1..Len(log) PROVE Known(log, k)
      <4>1. /\ m.prev_log_index \in 0..Len(old) /\ Len(m.entries) \in Nat
            /\ Held(MsgPiece(m)) =
                 m.prev_log_index + 1 .. m.prev_log_index + Len(m.entries)
        BY <2>2, <2>4 DEF Matches, AppendEntries, MsgPiece, Held
      <4>2. CASE k \in 1..m.prev_log_index
        <5>1. k \in 1..Len(old) /\ log[k] = old[k]
          BY <1>1, <3>2, <4>1, <4>2
        <5> QED  BY <1>3, <5>1 DEF Known
      <4>3. CASE k \in Held(MsgPiece(m))
        BY <2>2, <3>2, <4>3 DEF Known
      <4> QED  BY <1>1, <3>2, <4>1, <4>2, <4>3
    <3>5. r.node.role # Leader
      BY <2>1 DEF Hears, Follower, Leader
    <3> QED  BY <3>3, <3>4, <3>5
  <2> QED  BY <2>1, <2>3, <2>4 DEF Hears, Spliced
<1> QED  BY <1>4, <1>5, <1>6 DEF Moved, Still, Campaigns, Wins, Leads, Yields

\* Election Safety holds after the step too.
LEMMA SafetyNext == (TypeOK /\ ElectionInv)' => ElectionSafety'
  BY InvImpliesSafety, PTL

\* Every step keeps the owners of the entries.
LEMMA OwnedStep ==
  ASSUME TypeOK, ElectionInv, LogInv, TypeOK', ElectionInv', LedInv',
         NEW i \in Server, NEW r, Step(i, r), Typed(r), Moved(i, node[i], r)
  PROVE  Owned'
<1>1. /\ node'[i] = r.node
      /\ \A j \in Server : j # i => node'[j] = node[j]
      /\ sent' = sent \cup r.out
  BY StepEffect
<1>2. \A e \in SentOf("AppendEntries") : e \in SentOf("AppendEntries")'
  BY <1>1 DEF SentOf
<1>3. ElectionSafety'
  BY SafetyNext
<1> DEFINE Owns(t, k) ==
             /\ \E e \in SentOf("AppendEntries")' : e.msg.term = t
             /\ \A j \in Server :
                  node'[j].role = Leader /\ node'[j].current_term = t =>
                    k <= Len(node'[j].log) /\ node'[j].log[k].term = t
\* A term some piece had there before.
<1>4. ASSUME NEW p \in Pieces, NEW k \in Held(p)
      PROVE  Owns(EntryAt(p, k).term, k)
  <2> DEFINE t == EntryAt(p, k).term
  <2>1. PICK e \in SentOf("AppendEntries") : e.msg.term = t
    BY DEF LogInv, Owned
  <2>2. k \in Nat /\ k >= 1
    <3>1. p.prev \in Nat /\ Len(p.entries) \in Nat
      BY PiecesType DEF Piece
    <3> QED  BY <3>1 DEF Held
  <2> HIDE DEF t
  <2>3. ASSUME NEW j \in Server, node'[j].role = Leader, node'[j].current_term = t
        PROVE  k <= Len(node'[j].log) /\ node'[j].log[k].term = t
    <3>1. CASE node[j].role = Leader /\ node[j].current_term = t
      <4>1. k <= Len(node[j].log) /\ node[j].log[k].term = t
        BY <3>1 DEF LogInv, Owned, t
      <4>2. CASE j # i
        BY <1>1, <4>1, <4>2
      <4>3. CASE j = i
        <5>1. Len(node[i].log) \in Nat
          BY DEF TypeOK, Node
        <5>2. k \in 1..Len(node[i].log)
          BY <2>2, <4>1, <4>3, <5>1
        <5> QED  BY <1>1, <2>3, <3>1, <4>1, <4>3, <5>2, NewLogAgrees
      <4> QED  BY <4>2, <4>3
    <3>2. CASE ~(node[j].role = Leader /\ node[j].current_term = t)
      <4>1. j = i
        BY <1>1, <2>3, <3>2
      <4>2. Wins(i, node[i], r)
        BY <1>1, <2>3, <3>2, <4>1
           DEF Moved, Still, Campaigns, Leads, Yields, Hears, Leader, Candidate, Follower
      <4>3. PICK d \in SentOf("AppendEntries")' : d.from = i /\ d.msg.term = t
        BY <2>3, <4>1 DEF LedInv
      <4>4. e.from = i
        BY <1>2, <1>3, <2>1, <4>3 DEF ElectionSafety
      <4>5. node[i].role = Leader
        BY <1>1, <2>1, <2>3, <4>1, <4>2, <4>4 DEF Wins, LogInv, LedInv
      <4> QED  BY <4>2, <4>5 DEF Wins, Candidate, Leader
    <3> QED  BY <3>1, <3>2
  <2> QED  BY <1>2, <2>1, <2>3 DEF t
\* The log after the step, of which every new piece is a part.
<1>5. ASSUME NEW k \in 1..Len(r.node.log) PROVE Owns(r.node.log[k].term, k)
  <2>1. CASE Known(r.node.log, k)
    BY <1>4, <2>1 DEF Known
  <2>2. CASE /\ node[i].role = Leader /\ r.node.role = Leader
             /\ r.node.current_term = node[i].current_term
             /\ r.node.log[k].term = node[i].current_term
    <3>1. \E e \in SentOf("AppendEntries")' : e.msg.term = r.node.log[k].term
      BY <1>2, <2>2 DEF LogInv, LedInv
    <3>2. ASSUME NEW j \in Server, node'[j].role = Leader,
                 node'[j].current_term = r.node.log[k].term
          PROVE  k <= Len(node'[j].log) /\ node'[j].log[k].term = r.node.log[k].term
      <4>1. j = i
        BY <1>1, <1>3, <2>2, <3>2 DEF ElectionSafety
      <4>2. k <= Len(r.node.log)
        OBVIOUS
      <4> QED  BY <1>1, <4>1, <4>2
    <3> QED  BY <3>1, <3>2
  <2> QED  BY <2>1, <2>2, NewLogAgrees
<1>6. ASSUME NEW p \in Pieces', NEW k \in Held(p)
      PROVE  Owns(EntryAt(p, k).term, k)
  <2>1. CASE p \in Pieces
    BY <1>4, <2>1
  <2>2. CASE Within(p, LogPiece(r.node.log))
    <3>1. k \in Held(LogPiece(r.node.log))
          /\ EntryAt(p, k) = EntryAt(LogPiece(r.node.log), k)
      BY <2>2 DEF Within
    <3>2. r.node.log \in Seq(Entry)
      BY DEF Typed, Node
    <3>3. k \in 1..Len(r.node.log) /\ EntryAt(p, k) = r.node.log[k]
      BY <3>1, <3>2, LogPieceHolds
    <3> QED  BY <1>5, <3>3
  <2> QED  BY <2>1, <2>2, PiecesStep
<1> QED  BY <1>6 DEF Owned, Held, EntryAt

\* Every step keeps the agreement of the pieces.
LEMMA AgreeStep ==
  ASSUME TypeOK, LogInv, NEW i \in Server, NEW r, Step(i, r), Typed(r),
         Moved(i, node[i], r)
  PROVE  AllAgree'
<1> DEFINE new == LogPiece(r.node.log)
<1>1. \A q \in Pieces : Agree(new, q)
  BY NewLogAgrees
<1>2. \A p \in Pieces' : p \in Pieces \/ Within(p, new)
  BY PiecesStep
<1> HIDE DEF new
<1>3. ASSUME NEW p \in Pieces' PROVE Agree(new, p)
  BY <1>1, <1>2, AgreeSelf, AgreeSymmetric, WithinAgrees
<1>4. ASSUME NEW p \in Pieces', NEW q \in Pieces' PROVE Agree(p, q)
  <2>1. CASE p \in Pieces /\ q \in Pieces
    BY <2>1 DEF LogInv, AllAgree
  <2>2. CASE Within(p, new)
    BY <1>3, <2>2, WithinAgrees
  <2>3. CASE Within(q, new)
    BY <1>3, <2>3, WithinAgrees, AgreeSymmetric
  <2> QED  BY <1>2, <2>1, <2>2, <2>3
<1> QED  BY <1>4 DEF AllAgree, Agree, Held, Spans, EntryAt, TermIn

\* A cluster starts with empty logs and an empty network.
LEMMA InitLog == Init => LogInv
<1> SUFFICES ASSUME Init PROVE LogInv
  OBVIOUS
<1>1. /\ \A i \in Server : node[i].log = <<>> /\ node[i].role = Follower
      /\ SentOf("AppendEntries") = {}
  BY DEF Init, NewNode, SentOf
<1>2. \A p \in Pieces : Held(p) = {}
  <2>1. <<>> \in Seq(Entry) /\ Len(<<>>) = 0
    OBVIOUS
  <2>2. ASSUME NEW log \in Seq(Entry), Len(log) = 0
        PROVE  Held(LogPiece(log)) = {}
    <3>1. Held(LogPiece(log)) = 1..Len(log)
      BY LogPieceHolds
    <3> QED  BY <2>2, <3>1
  <2> QED  BY <1>1, <2>1, <2>2 DEF Pieces
<1> QED  BY <1>1, <1>2 DEF LogInv, LedInv, Owned, AllAgree, Agree, Follower, Leader

\* Every step of the cluster keeps the invariant of Log Matching.
LEMMA NextLog == TypeOK /\ ElectionInv /\ LogInv /\ [Next]_vars => LogInv'
<1> SUFFICES ASSUME TypeOK, ElectionInv, LogInv, [Next]_vars PROVE LogInv'
  OBVIOUS
<1>1. CASE UNCHANGED vars
  BY <1>1, SMTT(30) DEF vars, LogInv, LedInv, Owned, AllAgree, Pieces, SentOf, Agree,
              Held, Spans, EntryAt, TermIn, LogPiece, MsgPiece
<1>2. ASSUME NEW i \in Server, NEW r, Step(i, r), Sound(i, node[i], r),
             Moved(i, node[i], r)
      PROVE  LogInv'
  <2>1. TypeOK' /\ ElectionInv' /\ Typed(r)
    BY <1>2, NextType, NextElection DEF Sound
  <2>2. LedInv'
    BY <1>2, LedStep DEF LogInv
  <2>3. Owned'
    BY <1>2, <2>1, <2>2, OwnedStep
  <2>4. AllAgree'
    BY <1>2, <2>1, AgreeStep
  <2> QED  BY <2>2, <2>3, <2>4 DEF LogInv
<1> QED  BY <1>1, <1>2, NextMoves

\* The invariant of Log Matching, for every reachable state.
THEOREM LogInvariant == Spec => [](TypeOK /\ ElectionInv /\ LogInv)
<1>1. (TypeOK /\ ElectionInv /\ LogInv) /\ [Next]_vars
        => (TypeOK /\ ElectionInv /\ LogInv)'
  BY NextType, NextElection, NextLog
<1> QED  BY <1>1, InitType, InitElection, InitLog, PTL DEF Spec

\* Two logs with an entry of one term at one index are identical up to it, for
\* every cluster, log length and number of terms (REQ-005, Log Matching), under
\* any loss, duplication and reordering, and with entries kept where a splice
\* found no clash.
THEOREM LogsMatch == Spec => []LogMatching
<1>1. TypeOK /\ LogInv => LogMatching
  <2> SUFFICES ASSUME TypeOK, LogInv, NEW i \in Server, NEW j \in Server,
                      NEW k \in 1..Smaller(Len(node[i].log), Len(node[j].log)),
                      node[i].log[k].term = node[j].log[k].term
               PROVE  SubSeq(node[i].log, 1, k) = SubSeq(node[j].log, 1, k)
    BY DEF LogMatching
  <2> DEFINE a == node[i].log
             b == node[j].log
  <2>1. a \in Seq(Entry) /\ b \in Seq(Entry) /\ Len(a) \in Nat /\ Len(b) \in Nat
    <3>1. node[i] \in Node /\ node[j] \in Node
      BY DEF TypeOK
    <3> QED  BY <3>1, NodeLog
  <2>2. k \in 1..Len(a) /\ k \in 1..Len(b) /\ k \in Int
    BY <2>1 DEF Smaller
  <2>3. Agree(LogPiece(a), LogPiece(b))
    BY DEF LogInv, AllAgree, Pieces
  <2> HIDE DEF a, b
  <2>4. ASSUME NEW x \in 1..k PROVE a[x] = b[x]
    <3>1. x \in 1..Len(a) /\ x \in 1..Len(b) /\ x <= k
      BY <2>1, <2>2
    <3>2. a[k].term = b[k].term
      BY DEF a, b
    <3>3. \A y \in {x, k} :
            /\ y \in Held(LogPiece(a)) \cap Held(LogPiece(b))
            /\ EntryAt(LogPiece(a), y) = a[y] /\ EntryAt(LogPiece(b), y) = b[y]
      BY <2>1, <2>2, <3>1, LogPieceHolds
    <3>4. k \in Held(LogPiece(a)) \cap Held(LogPiece(b))
          /\ EntryAt(LogPiece(a), k).term = EntryAt(LogPiece(b), k).term
      BY <3>2, <3>3
    <3>5. EntryAt(LogPiece(a), x) = EntryAt(LogPiece(b), x)
      BY <2>3, <3>1, <3>3, <3>4 DEF Agree
    <3> QED  BY <3>3, <3>5
  <2>5. \A x \in 1..k : a[x] \in Entry /\ b[x] \in Entry
    BY <2>1, <2>2
  <2>6. SubSeq(a, 1, k) = SubSeq(b, 1, k)
    BY <2>2, <2>4, <2>5, SubSeqProperties, SeqEqual
  <2> QED  BY <2>6 DEF a, b
<1> QED  BY <1>1, LogInvariant, PTL

=============================================================================
