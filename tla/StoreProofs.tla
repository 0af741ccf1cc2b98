----------------------------- MODULE StoreProofs -----------------------------
(***************************************************************************)
(* Theorems about StoreCluster for every cluster, every set of commands    *)
(* and every value of the bounds: type correctness, and what the handlers  *)
(* do to a node, which StoreSafetyProofs rests on.                         *)
(***************************************************************************)
EXTENDS StoreCluster, FiniteSetTheorems, SequenceTheorems, WellFoundedInduction, TLAPS

-----------------------------------------------------------------------------
(* Least and greatest elements.                                            *)

\* A non-empty set of naturals has a least element, which Min chooses.
LEMMA MinExists ==
  ASSUME NEW S, S \subseteq Nat, S # {}
  PROVE  Min(S) \in S /\ \A y \in S : Min(S) <= y
<1>1. PICK x \in S : \A y \in S : <<y, x>> \notin OpToRel(<, Nat)
  BY NatLessThanWellFounded, WFMin
<1>2. ASSUME NEW y \in S PROVE x <= y
  <2>1. x \in Nat /\ y \in Nat
    OBVIOUS
  <2>2. ~ (y < x)
    <3>1. SUFFICES ASSUME y < x PROVE <<y, x>> \in OpToRel(<, Nat)
      BY <1>1
    <3>2. <<y, x>> \in Nat \X Nat /\ <<y, x>>[1] < <<y, x>>[2]
      BY <2>1, <3>1
    <3> QED  BY <3>2 DEF OpToRel
  <2> QED  BY <2>1, <2>2
<1> QED  BY <1>2 DEF Min

\* A non-empty bounded set of naturals has a greatest one, which Max chooses.
LEMMA MaxExists ==
  ASSUME NEW b \in Nat, NEW S, S \subseteq 0..b, S # {}
  PROVE  Max(S) \in S /\ \A y \in S : Max(S) >= y
<1> DEFINE T == {b - x : x \in S}
<1>1. T \subseteq Nat /\ T # {}
  <2>1. \A x \in S : b - x \in Nat
    OBVIOUS
  <2> QED  BY <2>1
<1>2. PICK t \in T : \A y \in T : t <= y
  BY <1>1, MinExists
<1>3. PICK z \in S : t = b - z
  BY <1>2
<1>4. ASSUME NEW y \in S PROVE y <= z
  <2>1. b - y \in T
    OBVIOUS
  <2>2. b - z <= b - y
    BY <1>2, <1>3, <2>1
  <2> QED  BY <2>2
<1> QED  BY <1>4 DEF Max

-----------------------------------------------------------------------------
(* What the handlers are given and return has the types of the model.      *)

\* The cluster's size is a number.
LEMMA SizeType == Cardinality(Server) \in Nat /\ Server \subseteq Nat
BY StoreNodeAssumption, FS_CardinalityType

\* A function on the first n numbers is a sequence.
LEMMA FunctionIsSeq ==
  ASSUME NEW S, NEW n \in Nat, NEW f \in [1..n -> S]
  PROVE  f \in Seq(S) /\ Len(f) = n
OBVIOUS

\* The nodes' peers are the others, each listed once.
LEMMA PeersAreTheOthers ==
  ASSUME NEW i \in Server
  PROVE  /\ Peers(i) \in Seq(Server \ {i})
         /\ \A k \in DOMAIN Peers(i) : Peers(i)[k] \in Server \ {i}
         /\ \A k, l \in DOMAIN Peers(i) : Peers(i)[k] = Peers(i)[l] => k = l
<1>1. \A k \in 1..Cardinality(Server) - 1 :
        (IF k <= i THEN k - 1 ELSE k) \in Server \ {i}
  BY StoreNodeAssumption, SizeType
<1>2. Cardinality(Server) \in Nat /\ i \in 0..Cardinality(Server) - 1
  BY StoreNodeAssumption, SizeType
<1>3. Peers(i) \in [1..Cardinality(Server) - 1 -> Server \ {i}]
  BY <1>1 DEF Peers
<1>4. \A k, l \in DOMAIN Peers(i) : Peers(i)[k] = Peers(i)[l] => k = l
  BY <1>2 DEF Peers
<1> QED  BY <1>2, <1>3, <1>4, FunctionIsSeq

\* What goes to the peers is one envelope for each of them, in their order.
LEMMA ToEachPeer ==
  ASSUME NEW i \in Server, NEW f, \A p \in Server \ {i} : f[p] \in Envelope,
         NEW out, out = [k \in DOMAIN Peers(i) |-> f[Peers(i)[k]]]
  PROVE  /\ out \in Seq(Envelope)
         /\ \A e \in Range(out) : \E p \in Server \ {i} : e = f[p]
         /\ (\A p, q \in Server \ {i} : f[p] = f[q] => p = q) =>
              \A k, l \in DOMAIN out : out[k] = out[l] => k = l
<1> DEFINE n == Len(Peers(i))
<1>1. n \in Nat /\ DOMAIN Peers(i) = 1..n /\ \A k \in 1..n : Peers(i)[k] \in Server \ {i}
  <2>1. Peers(i) \in Seq(Server \ {i})
    BY PeersAreTheOthers
  <2> QED  BY <2>1
<1>2. out \in [1..n -> Envelope]
  BY <1>1
<1>3. out \in Seq(Envelope)
  BY <1>1, <1>2, FunctionIsSeq
<1>4. \A e \in Range(out) : \E p \in Server \ {i} : e = f[p]
  BY <1>1 DEF Range
<1>5. (\A p, q \in Server \ {i} : f[p] = f[q] => p = q) =>
        \A k, l \in DOMAIN out : out[k] = out[l] => k = l
  <2> SUFFICES ASSUME \A p, q \in Server \ {i} : f[p] = f[q] => p = q,
                      NEW k \in 1..n, NEW l \in 1..n, f[Peers(i)[k]] = f[Peers(i)[l]]
               PROVE  k = l
    BY <1>1
  <2>1. Peers(i)[k] = Peers(i)[l]
    BY <1>1
  <2> QED  BY <1>1, <2>1, PeersAreTheOthers
<1> QED  BY <1>3, <1>4, <1>5

\* What a handler returns.
Return == [node : RaftNode, out : Seq(Envelope), reset : BOOLEAN]

\* A handler that is done returns its parts.
LEMMA DoneType ==
  ASSUME NEW n \in RaftNode, NEW out \in Seq(Envelope), NEW reset \in BOOLEAN
  PROVE  /\ Done(n, out, reset) \in Return
         /\ Done(n, out, reset).node = n
         /\ Done(n, out, reset).out = out
         /\ Done(n, out, reset).reset = reset
BY DEF Done, Return

\* The term of an entry, or 0 where there is none.
LEMMA TermAtType ==
  ASSUME NEW n \in RaftNode, NEW index
  PROVE  TermAt(n, index) \in Nat
<1>1. n.log \in Seq(LogEntry)
  BY DEF RaftNode
<1>2. \A k \in 1..Len(n.log) : n.log[k] \in LogEntry
  BY <1>1
<1>3. \A k \in 1..Len(n.log) : n.log[k].term \in Nat
  BY <1>2 DEF LogEntry
<1> QED  BY <1>3 DEF TermAt

\* A candidate asks every peer for its vote, in the next term, describing its
\* log: no request is sent twice.
LEMMA StartElectionReturns ==
  ASSUME NEW i \in Server, NEW n \in RaftNode
  PROVE  LET r == StartElection(i, n)
             request == [type |-> "RequestVote", term |-> n.current_term + 1,
                         candidate |-> i, last_log_index |-> Len(n.log),
                         last_log_term |-> LastLogTerm(n)]
         IN  /\ r \in Return
             /\ r.node = [n EXCEPT !.role = "Candidate", !.current_term = @ + 1,
                                   !.voted_for = i, !.votes_received = 1]
             /\ \A e \in Range(r.out) : e.to \in Server \ {i} /\ e.msg = request
             /\ \A k, l \in DOMAIN r.out : r.out[k] = r.out[l] => k = l
<1> DEFINE r == StartElection(i, n)
           request == [type |-> "RequestVote", term |-> n.current_term + 1,
                       candidate |-> i, last_log_index |-> Len(n.log),
                       last_log_term |-> LastLogTerm(n)]
           c == [n EXCEPT !.role = "Candidate", !.current_term = @ + 1,
                          !.voted_for = i, !.votes_received = 1]
           f == [p \in Server \ {i} |-> [to |-> p, msg |-> request]]
<1>1. n.log \in Seq(LogEntry) /\ n.current_term \in Nat /\ LastLogTerm(n) \in Nat
  BY TermAtType DEF RaftNode, LastLogTerm
<1>2. c \in RaftNode
  BY <1>1, n.current_term + 1 \in Nat DEF RaftNode, Role
<1>3. request \in Message
  BY <1>1 DEF Message
<1>4. /\ c.log = n.log /\ c.current_term = n.current_term + 1
      /\ LastLogTerm(c) = LastLogTerm(n) /\ LastLogIndex(c) = Len(n.log)
  BY DEF RaftNode, LastLogTerm, LastLogIndex, TermAt
<1>5. \A p \in Server \ {i} : f[p] \in Envelope
  BY <1>3 DEF Envelope
<1>6. r = Done(c, ToPeers(i, LAMBDA p :
                [type |-> "RequestVote", term |-> c.current_term, candidate |-> i,
                 last_log_index |-> LastLogIndex(c),
                 last_log_term |-> LastLogTerm(c)]), TRUE)
  BY DEF StartElection
<1>7. r.node = c /\ r.reset = TRUE /\ r.out = [k \in DOMAIN Peers(i) |-> f[Peers(i)[k]]]
  <2>1. \A k \in DOMAIN Peers(i) :
          f[Peers(i)[k]] = [to |-> Peers(i)[k], msg |-> request]
    BY PeersAreTheOthers
  <2>2. /\ r.node = c /\ r.reset = TRUE
        /\ r.out = [k \in DOMAIN Peers(i) |-> [to |-> Peers(i)[k], msg |-> request]]
    <3> HIDE DEF c, r
    <3> QED  BY <1>4, <1>6 DEF ToPeers, Done
  <2> HIDE DEF c, f, r
  <2> QED  BY <2>1, <2>2
<1>8. /\ r.out \in Seq(Envelope)
      /\ \A e \in Range(r.out) : \E p \in Server \ {i} : e = f[p]
      /\ (\A p, q \in Server \ {i} : f[p] = f[q] => p = q) =>
           \A k, l \in DOMAIN r.out : r.out[k] = r.out[l] => k = l
  <2> HIDE DEF f, r
  <2> QED  BY <1>5, <1>7, ToEachPeer
<1>9. \A p, q \in Server \ {i} : f[p] = f[q] => p = q
  OBVIOUS
<1>10. r = Done(c, r.out, TRUE)
  <2> HIDE DEF c, r
  <2> QED  BY <1>6, <1>7 DEF Done
<1>11. r \in Return
  <2>1. r.out \in Seq(Envelope)
    BY <1>8
  <2> HIDE DEF c, r
  <2> QED  BY <1>2, <2>1, <1>10, DoneType
<1>12. \A e \in Range(r.out) : e.to \in Server \ {i} /\ e.msg = request
  <2> HIDE DEF r, request
  <2> QED  BY <1>8
<1>13. \A k, l \in DOMAIN r.out : r.out[k] = r.out[l] => k = l
  BY <1>8, <1>9
<1>14. r.node = c
  BY <1>7
<1> QED  BY <1>11, <1>12, <1>13, <1>14

\* What a message of each type carries.
LEMMA MessageFields ==
  ASSUME NEW m \in Message
  PROVE  /\ m.term \in Nat
         /\ m.type \in {"RequestVote", "RequestVoteReply", "AppendEntries", "AppendEntriesReply"}
         /\ m.type = "RequestVote" =>
              m.candidate \in Server /\ m.last_log_index \in Nat /\ m.last_log_term \in Nat
         /\ m.type = "RequestVoteReply" => m.voter \in Server /\ m.granted \in BOOLEAN
         /\ m.type = "AppendEntries" =>
              /\ m.leader \in Server /\ m.prev_log_index \in Nat /\ m.prev_log_term \in Nat
              /\ m.entries \in Seq(LogEntry) /\ m.leader_commit \in Nat
         /\ m.type = "AppendEntriesReply" =>
              m.from \in Server /\ m.success \in BOOLEAN /\ m.match_index \in Nat
BY DEF Message

\* A reply is one envelope.
LEMMA ReplyToType ==
  ASSUME NEW to \in Server, NEW m \in Message
  PROVE  ReplyTo(to, m) \in Seq(Envelope)
<1>1. [to |-> to, msg |-> m] \in Envelope
  BY DEF Envelope
<1> QED  BY <1>1 DEF ReplyTo

\* A part of a log is a log: what SubSeq holds.
LEMMA PartOfLog ==
  ASSUME NEW log \in Seq(LogEntry), NEW low \in Nat \ {0}, NEW high \in Nat,
         high <= Len(log)
  PROVE  /\ SubSeq(log, low, high) \in Seq(LogEntry)
         /\ Len(SubSeq(log, low, high)) = IF low <= high THEN high - low + 1 ELSE 0
         /\ \A k \in 1..high - low + 1 : SubSeq(log, low, high)[k] = log[low + k - 1]
<1>1. \A k \in low..high : log[k] \in LogEntry
  OBVIOUS
<1> QED  BY <1>1, SubSeqProperties

\* The entries sent to a peer are the log's from next_index on.
LEMMA AppendEntriesForType ==
  ASSUME NEW i \in Server, NEW n \in RaftNode, NEW p \in Server
  PROVE  AppendEntriesFor(i, n, p) \in Message
<1>1. /\ n.current_term \in Nat /\ n.log \in Seq(LogEntry) /\ n.commit_index \in Nat
      /\ n.next_index \in [Server -> Nat \ {0}]
  BY DEF RaftNode
<1> DEFINE prev == n.next_index[p] - 1
           entries == SubSeq(n.log, prev + 1, Len(n.log))
<1>2. prev \in Nat /\ Len(n.log) \in Nat /\ TermAt(n, prev) \in Nat
  BY <1>1, TermAtType
<1>3. entries \in Seq(LogEntry)
  BY <1>1, <1>2, PartOfLog
<1>4. AppendEntriesFor(i, n, p) =
        [type |-> "AppendEntries", term |-> n.current_term, leader |-> i,
         prev_log_index |-> prev, prev_log_term |-> TermAt(n, prev),
         entries |-> entries, leader_commit |-> n.commit_index]
  BY DEF AppendEntriesFor, LastLogIndex
<1> HIDE DEF prev, entries
<1> QED  BY <1>1, <1>2, <1>3, <1>4 DEF Message

\* A leader sends every peer what that peer lacks.
LEMMA BroadcastReturns ==
  ASSUME NEW i \in Server, NEW n \in RaftNode
  PROVE  LET out == BroadcastAppendEntries(i, n)
         IN  /\ out \in Seq(Envelope)
             /\ \A e \in Range(out) : \E p \in Server \ {i} :
                  e = [to |-> p, msg |-> AppendEntriesFor(i, n, p)]
<1> DEFINE out == BroadcastAppendEntries(i, n)
           f == [p \in Server \ {i} |-> [to |-> p, msg |-> AppendEntriesFor(i, n, p)]]
<1>1. \A p \in Server \ {i} : f[p] \in Envelope
  BY AppendEntriesForType DEF Envelope
<1>2. out = [k \in DOMAIN Peers(i) |-> f[Peers(i)[k]]]
  <2>1. \A k \in DOMAIN Peers(i) :
          f[Peers(i)[k]] = [to |-> Peers(i)[k], msg |-> AppendEntriesFor(i, n, Peers(i)[k])]
    BY PeersAreTheOthers
  <2> HIDE DEF f
  <2> QED  BY <2>1 DEF BroadcastAppendEntries, ToPeers
<1>3. /\ out \in Seq(Envelope)
      /\ \A e \in Range(out) : \E p \in Server \ {i} : e = f[p]
  <2> HIDE DEF out, f
  <2>1. out \in Seq(Envelope)
    BY <1>1, <1>2, ToEachPeer
  <2>2. \A e \in Range(out) : \E p \in Server \ {i} : e = f[p]
    BY <1>1, <1>2, ToEachPeer
  <2> QED  BY <2>1, <2>2
<1> QED  BY <1>3

\* A later term is adopted with a node's type.
LEMMA AtTermOfType ==
  ASSUME NEW n \in RaftNode, NEW m \in Message
  PROVE  AtTermOf(n, m) \in RaftNode
BY MessageFields DEF AtTermOf, RaftNode, Role

\* What is applied is part of the log.
LEMMA ApplyCommittedType ==
  ASSUME NEW n \in RaftNode, n.commit_index <= Len(n.log)
  PROVE  ApplyCommitted(n) \in RaftNode
<1>1. /\ n.log \in Seq(LogEntry) /\ n.kv \in Seq(LogEntry)
      /\ n.last_applied \in Nat /\ n.commit_index \in Nat
  BY DEF RaftNode
<1>2. SubSeq(n.log, n.last_applied + 1, n.commit_index) \in Seq(LogEntry)
  BY <1>1, PartOfLog
<1>3. n.kv \o SubSeq(n.log, n.last_applied + 1, n.commit_index) \in Seq(LogEntry)
  BY <1>1, <1>2
<1> QED  BY <1>1, <1>3 DEF ApplyCommitted, RaftNode

\* An index a leader may commit is one of its log's.
LEMMA CommittableMax ==
  ASSUME NEW i \in Server, NEW n \in RaftNode, Committable(i, n) # {}
  PROVE  Max(Committable(i, n)) \in Committable(i, n)
<1>1. n.log \in Seq(LogEntry) /\ n.commit_index \in Nat
  BY DEF RaftNode
<1>2. Committable(i, n) \subseteq 0..Len(n.log) /\ Len(n.log) \in Nat
  BY <1>1 DEF Committable, LastLogIndex
<1> QED  BY <1>2, MaxExists

\* Committing keeps a node's type.
LEMMA MaybeAdvanceCommitType ==
  ASSUME NEW i \in Server, NEW n \in RaftNode
  PROVE  MaybeAdvanceCommit(i, n) \in RaftNode
<1>1. CASE Committable(i, n) = {}
  BY <1>1 DEF MaybeAdvanceCommit
<1>2. CASE Committable(i, n) # {}
  <2> DEFINE c == Max(Committable(i, n))
             v == [n EXCEPT !.commit_index = c]
  <2>1. n.log \in Seq(LogEntry) /\ n.commit_index \in Nat
    BY DEF RaftNode
  <2>2. c \in n.commit_index + 1 .. Len(n.log)
    BY <1>2, CommittableMax DEF Committable, LastLogIndex
  <2>3. c \in Nat /\ c <= Len(n.log)
    BY <2>1, <2>2
  <2> HIDE DEF c
  <2>4. v \in RaftNode /\ v.commit_index = c /\ v.log = n.log
    BY <2>3 DEF RaftNode
  <2>5. MaybeAdvanceCommit(i, n) = ApplyCommitted(v)
    BY <1>2 DEF MaybeAdvanceCommit, c
  <2> HIDE DEF v
  <2> QED  BY <2>3, <2>4, <2>5, ApplyCommittedType
<1> QED  BY <1>1, <1>2

\* Splicing keeps the log up to the first entry that it misses or contradicts,
\* and ends where the message's entries end; a log that holds them all is kept.
SplicedAs(log, prev, entries, s) ==
  /\ s \in Seq(LogEntry)
  /\ \/ /\ s = log
        /\ prev + Len(entries) <= Len(log)
        /\ \A k \in 1..Len(entries) : log[prev + k].term = entries[k].term
     \/ \E k \in 1..Len(entries) :
          /\ \A l \in 1..k - 1 : /\ prev + l <= Len(log)
                                 /\ log[prev + l].term = entries[l].term
          /\ prev + k <= Len(log) => log[prev + k].term # entries[k].term
          /\ Len(s) = prev + Len(entries)
          /\ \A l \in 1..prev + k - 1 : s[l] = log[l]
          /\ \A l \in k..Len(entries) : s[prev + l] = entries[l]

\* So does Splice.
LEMMA SpliceReturns ==
  ASSUME NEW log \in Seq(LogEntry), NEW entries \in Seq(LogEntry),
         NEW prev \in Nat, prev <= Len(log)
  PROVE  SplicedAs(log, prev, entries, Splice(log, prev, entries))
<1> DEFINE clashes == {k \in DOMAIN entries : \/ prev + k > Len(log)
                                              \/ log[prev + k].term # entries[k].term}
           s == Splice(log, prev, entries)
<1> SUFFICES SplicedAs(log, prev, entries, s)
  OBVIOUS
<1>1. /\ DOMAIN entries = 1..Len(entries) /\ Len(entries) \in Nat /\ Len(log) \in Nat
      /\ clashes \subseteq 1..Len(entries)
  OBVIOUS
<1>2. s = IF clashes = {} THEN log
          ELSE SubSeq(log, 1, prev + Min(clashes) - 1)
                 \o SubSeq(entries, Min(clashes), Len(entries))
  BY DEF Splice
<1>3. CASE clashes = {}
  <2>1. \A k \in 1..Len(entries) :
          prev + k <= Len(log) /\ log[prev + k].term = entries[k].term
    BY <1>1, <1>3
  <2>2. prev + Len(entries) <= Len(log)
    BY <1>1, <2>1
  <2>3. s = log
    BY <1>2, <1>3
  <2> HIDE DEF s, clashes
  <2> QED  BY <2>1, <2>2, <2>3 DEF SplicedAs
<1>4. CASE clashes # {}
  <2> DEFINE k == Min(clashes)
             a == SubSeq(log, 1, prev + k - 1)
             b == SubSeq(entries, k, Len(entries))
  <2>1. k \in clashes /\ \A l \in clashes : k <= l
    <3>1. clashes \subseteq Nat
      BY <1>1
    <3> HIDE DEF clashes
    <3> QED  BY <1>4, <3>1, MinExists
  <2>2. k \in 1..Len(entries) /\ (prev + k <= Len(log) => log[prev + k].term # entries[k].term)
    BY <1>1, <2>1
  <2>3. \A l \in 1..k - 1 : prev + l <= Len(log) /\ log[prev + l].term = entries[l].term
    <3> SUFFICES ASSUME NEW l \in 1..k - 1
                 PROVE  prev + l <= Len(log) /\ log[prev + l].term = entries[l].term
      OBVIOUS
    <3>1. l \notin clashes
      <4> HIDE DEF clashes, k
      <4> QED  BY <2>1, <2>2
    <3>2. l \in 1..Len(entries)
      <4> HIDE DEF k
      <4> QED  BY <2>2
    <3> QED  BY <1>1, <3>1, <3>2
  <2>4. prev + k - 1 <= Len(log)
    <3>1. CASE k = 1
      BY <3>1
    <3>2. CASE k > 1
      BY <2>2, <2>3, <3>2
    <3> QED  BY <2>2, <3>1, <3>2
  <2>5. s = a \o b
    BY <1>2, <1>4
  <2> HIDE DEF k, clashes, s
  <2>6. /\ a \in Seq(LogEntry) /\ Len(a) = prev + k - 1
        /\ \A l \in 1..prev + k - 1 : a[l] = log[l]
    BY <2>2, <2>4, PartOfLog
  <2>7. /\ b \in Seq(LogEntry) /\ Len(b) = Len(entries) - k + 1
        /\ \A l \in 1..Len(entries) - k + 1 : b[l] = entries[k + l - 1]
    BY <2>2, PartOfLog
  <2> HIDE DEF a, b
  <2>8. s \in Seq(LogEntry) /\ Len(s) = prev + Len(entries)
    <3>1. s \in Seq(LogEntry) /\ Len(s) = Len(a) + Len(b)
      BY <2>5, <2>6, <2>7, ConcatProperties
    <3>2. Len(a) + Len(b) = prev + Len(entries)
      BY <1>1, <2>2, <2>6, <2>7
    <3> QED  BY <3>1, <3>2
  <2>s. /\ Len(a) \in Nat /\ Len(b) \in Nat
        /\ \A l \in 1..Len(a) + Len(b) : s[l] = IF l <= Len(a) THEN a[l] ELSE b[l - Len(a)]
    BY <2>5, <2>6, <2>7, ConcatProperties
  <2>9. \A l \in 1..prev + k - 1 : s[l] = log[l]
    BY <2>6, <2>s
  <2>10. \A l \in k..Len(entries) : s[prev + l] = entries[l]
    <3> SUFFICES ASSUME NEW l \in k..Len(entries) PROVE s[prev + l] = entries[l]
      OBVIOUS
    <3>1. s[prev + l] = b[l - k + 1]
      <4>1. /\ prev + l \in 1..Len(a) + Len(b) /\ ~(prev + l <= Len(a))
            /\ (prev + l) - Len(a) = l - k + 1
        BY <1>1, <2>2, <2>6, <2>7
      <4> QED  BY <2>s, <4>1
    <3>2. l - k + 1 \in 1..Len(entries) - k + 1 /\ k + (l - k + 1) - 1 = l
      BY <1>1, <2>2
    <3>3. b[l - k + 1] = entries[k + (l - k + 1) - 1]
      BY <2>7, <3>2
    <3> QED  BY <3>1, <3>2, <3>3
  <2> QED  BY <2>2, <2>3, <2>8, <2>9, <2>10 DEF SplicedAs
<1> QED  BY <1>3, <1>4

\* A request for a vote is answered, and the vote kept when it is given.
LEMMA HandleRequestVoteType ==
  ASSUME NEW i \in Server, NEW n \in RaftNode, NEW m \in Message, m.type = "RequestVote"
  PROVE  HandleRequestVote(i, n, m) \in Return
<1> DEFINE granted == /\ m.term >= n.current_term
                      /\ n.voted_for \in {Nil, m.candidate}
                      /\ LogOk(n, m)
           reply == [type |-> "RequestVoteReply", term |-> n.current_term,
                     voter |-> i, granted |-> granted]
           v == IF granted THEN [n EXCEPT !.voted_for = m.candidate] ELSE n
<1>1. m.candidate \in Server /\ n.current_term \in Nat
  BY MessageFields DEF RaftNode
<1>2. granted \in BOOLEAN
  OBVIOUS
<1> HIDE DEF granted
<1>3. v \in RaftNode
  BY <1>1 DEF RaftNode
<1>4. reply \in Message
  BY <1>1, <1>2 DEF Message
<1> HIDE DEF reply, v
<1>5. ReplyTo(m.candidate, reply) \in Seq(Envelope)
  BY <1>1, <1>4, ReplyToType
<1>6. HandleRequestVote(i, n, m) = Done(v, ReplyTo(m.candidate, reply), granted)
  BY DEF HandleRequestVote, granted, reply, v
<1> QED  BY <1>2, <1>3, <1>5, <1>6, DoneType

\* A candidate that comes to lead keeps its type and broadcasts.
LEMMA BecomeLeaderType ==
  ASSUME NEW i \in Server, NEW n \in RaftNode
  PROVE  LET r == BecomeLeader(i, n)
         IN  /\ r \in Return
             /\ r.node = [n EXCEPT !.role = "Leader",
                                   !.next_index = [p \in Server |-> Len(n.log) + 1],
                                   !.match_index = [p \in Server |-> 0]]
             /\ r.out = BroadcastAppendEntries(i, r.node)
             /\ r.reset = FALSE
<1> DEFINE l == [n EXCEPT !.role = "Leader",
                          !.next_index = [p \in Server |-> Len(n.log) + 1],
                          !.match_index = [p \in Server |-> 0]]
<1>1. n.log \in Seq(LogEntry)
  BY DEF RaftNode
<1>2. Len(n.log) + 1 \in Nat \ {0}
  BY <1>1
<1>3. l \in RaftNode
  BY <1>2 DEF RaftNode, Role
<1>4. BecomeLeader(i, n) = Done(l, BroadcastAppendEntries(i, l), FALSE)
  BY DEF BecomeLeader, LastLogIndex
<1> HIDE DEF l
<1>5. BroadcastAppendEntries(i, l) \in Seq(Envelope)
  BY <1>3, BroadcastReturns
<1>6. BecomeLeader(i, n) \in Return
  BY <1>3, <1>4, <1>5, DoneType
<1>7. /\ BecomeLeader(i, n).node = l
      /\ BecomeLeader(i, n).out = BroadcastAppendEntries(i, l)
      /\ BecomeLeader(i, n).reset = FALSE
  BY <1>4 DEF Done
<1> QED  BY <1>6, <1>7 DEF l

\* A vote is counted, and a majority of them makes the leader.
LEMMA HandleVoteReplyType ==
  ASSUME NEW i \in Server, NEW n \in RaftNode, NEW m \in Message,
         m.type = "RequestVoteReply"
  PROVE  HandleVoteReply(i, n, m) \in Return
<1> DEFINE v == [n EXCEPT !.votes_received = @ + 1]
<1>1. n.votes_received + 1 \in Nat
  BY DEF RaftNode
<1>2. v \in RaftNode
  BY <1>1 DEF RaftNode
<1>3. HandleVoteReply(i, n, m) =
        IF ~CountsVote(n, m) THEN Done(n, <<>>, FALSE)
        ELSE IF v.votes_received >= Majority THEN BecomeLeader(i, v)
        ELSE Done(v, <<>>, FALSE)
  BY DEF HandleVoteReply
<1>4. <<>> \in Seq(Envelope)
  OBVIOUS
<1> HIDE DEF v
<1>5. /\ Done(n, <<>>, FALSE) \in Return /\ Done(v, <<>>, FALSE) \in Return
      /\ BecomeLeader(i, v) \in Return
  BY <1>2, <1>4, DoneType, BecomeLeaderType
<1> QED  BY <1>3, <1>5

\* A reply to an append is one envelope.
LEMMA AppendReplyType ==
  ASSUME NEW i \in Server, NEW n \in RaftNode, NEW leader \in Server,
         NEW success \in BOOLEAN, NEW match_index \in Nat
  PROVE  AppendReply(i, n, leader, success, match_index) \in Seq(Envelope)
<1> DEFINE m == [type |-> "AppendEntriesReply", term |-> n.current_term,
                 from |-> i, success |-> success, match_index |-> match_index]
<1>1. n.current_term \in Nat
  BY DEF RaftNode
<1>2. m \in Message
  BY <1>1 DEF Message
<1>3. AppendReply(i, n, leader, success, match_index) = ReplyTo(leader, m)
  BY DEF AppendReply
<1> HIDE DEF m
<1> QED  BY <1>2, <1>3, ReplyToType

\* The lesser of two numbers.
LEMMA MinOfTwo ==
  ASSUME NEW a \in Nat, NEW b \in Nat
  PROVE  Min({a, b}) = IF a <= b THEN a ELSE b
<1> DEFINE S == {a, b}
<1>1. S \subseteq Nat /\ S # {}
  OBVIOUS
<1>2. Min(S) \in S /\ \A y \in S : Min(S) <= y
  BY <1>1, MinExists
<1> QED  BY <1>2

\* A node that follows, with the message's entries in its log.
Spliced(n, m) == [n EXCEPT !.role = "Follower",
                           !.log = Splice(@, m.prev_log_index, m.entries)]

\* A node that has applied what the leader has committed, as far as its log goes.
CaughtUp(s, m) ==
  IF m.leader_commit > s.commit_index
  THEN ApplyCommitted([s EXCEPT !.commit_index = Min({m.leader_commit, Len(s.log)})])
  ELSE s

\* A current append whose boundary the log holds is spliced in, and what the
\* leader has committed is applied.
LEMMA CaughtUpType ==
  ASSUME NEW n \in RaftNode, NEW m \in Message, m.type = "AppendEntries",
         m.prev_log_index <= Len(n.log)
  PROVE  Spliced(n, m) \in RaftNode /\ CaughtUp(Spliced(n, m), m) \in RaftNode
<1> DEFINE s == Spliced(n, m)
           a == Min({m.leader_commit, Len(s.log)})
           v == [s EXCEPT !.commit_index = a]
<1>1. Splice(n.log, m.prev_log_index, m.entries) \in Seq(LogEntry)
  <2>1. SplicedAs(n.log, m.prev_log_index, m.entries,
                  Splice(n.log, m.prev_log_index, m.entries))
    BY MessageFields, SpliceReturns DEF RaftNode
  <2> QED  BY <2>1 DEF SplicedAs
<1>2. s \in RaftNode
  BY <1>1 DEF Spliced, RaftNode, Role
<1> HIDE DEF s
<1>3. s.log \in Seq(LogEntry) /\ m.leader_commit \in Nat
  BY <1>2, MessageFields DEF RaftNode
<1>4. a \in Nat /\ a <= Len(s.log)
  BY <1>3, MinOfTwo
<1> HIDE DEF a
<1>5. v \in RaftNode /\ v.commit_index = a /\ v.log = s.log
  BY <1>2, <1>4 DEF RaftNode
<1>6. CaughtUp(s, m) = IF m.leader_commit > s.commit_index THEN ApplyCommitted(v) ELSE s
  BY DEF CaughtUp, a
<1> HIDE DEF v
<1>7. ApplyCommitted(v) \in RaftNode
  BY <1>4, <1>5, ApplyCommittedType
<1>8. CaughtUp(s, m) \in RaftNode
  BY <1>2, <1>6, <1>7
<1> QED  BY <1>2, <1>8 DEF s

\* The three ways an append ends: from a deposed leader, over a gap or a
\* contradiction, or taken in.
AnsweredAs(i, n, m, r) ==
  LET f == [n EXCEPT !.role = "Follower"]
      c == CaughtUp(Spliced(n, m), m)
  IN  /\ r \in Return
      /\ m.term < n.current_term =>
           r.node = n /\ r.out = AppendReply(i, n, m.leader, FALSE, 0)
      /\ m.term >= n.current_term /\ ~LogHolds(n, m.prev_log_index, m.prev_log_term) =>
           r.node = f /\ r.out = AppendReply(i, f, m.leader, FALSE, 0)
      /\ m.term >= n.current_term /\ LogHolds(n, m.prev_log_index, m.prev_log_term) =>
           /\ r.node = c
           /\ r.out = AppendReply(i, c, m.leader, TRUE,
                                  m.prev_log_index + Len(m.entries))

\* So an append is answered.
LEMMA HandleAppendEntriesReturns ==
  ASSUME NEW i \in Server, NEW n \in RaftNode, NEW m \in Message,
         m.type = "AppendEntries"
  PROVE  AnsweredAs(i, n, m, HandleAppendEntries(i, n, m))
<1> DEFINE r == HandleAppendEntries(i, n, m)
           f == [n EXCEPT !.role = "Follower"]
           s == [f EXCEPT !.log = Splice(@, m.prev_log_index, m.entries)]
           c == CaughtUp(Spliced(n, m), m)
           cov == m.prev_log_index + Len(m.entries)
           stale == Done(n, AppendReply(i, n, m.leader, FALSE, 0), FALSE)
           gap == Done(f, AppendReply(i, f, m.leader, FALSE, 0), TRUE)
           taken == Done(c, AppendReply(i, c, m.leader, TRUE, cov), TRUE)
<1>1. /\ m.leader \in Server /\ m.term \in Nat /\ m.prev_log_index \in Nat
      /\ m.entries \in Seq(LogEntry) /\ n.current_term \in Nat
  BY MessageFields DEF RaftNode
<1>2. cov \in Nat
  BY <1>1
<1>3. s = Spliced(n, m)
  BY DEF Spliced, RaftNode
<1>4. r = IF m.term < n.current_term THEN stale
          ELSE IF ~LogHolds(n, m.prev_log_index, m.prev_log_term) THEN gap ELSE taken
  <2> HIDE DEF s
  <2>1. c = IF m.leader_commit > s.commit_index
            THEN ApplyCommitted([s EXCEPT !.commit_index =
                                  Min({m.leader_commit, LastLogIndex(s)})])
            ELSE s
    BY <1>3 DEF CaughtUp, LastLogIndex
  <2> HIDE DEF c
  <2> QED  BY <2>1 DEF HandleAppendEntries, Covered, s
<1>5. f \in RaftNode
  BY DEF RaftNode, Role
<1>6. LogHolds(n, m.prev_log_index, m.prev_log_term) => c \in RaftNode
  BY CaughtUpType DEF LogHolds, LastLogIndex
<1> HIDE DEF f, c, cov
<1>7. stale \in Return /\ gap \in Return
  BY <1>1, <1>5, AppendReplyType, DoneType
<1>8. LogHolds(n, m.prev_log_index, m.prev_log_term) => taken \in Return
  BY <1>1, <1>2, <1>6, AppendReplyType, DoneType
<1>9. /\ stale.node = n /\ stale.out = AppendReply(i, n, m.leader, FALSE, 0)
      /\ gap.node = f /\ gap.out = AppendReply(i, f, m.leader, FALSE, 0)
      /\ taken.node = c /\ taken.out = AppendReply(i, c, m.leader, TRUE, cov)
  BY DEF Done
<1> HIDE DEF r, stale, gap, taken
<1>10. /\ r \in Return
       /\ m.term < n.current_term => r = stale
       /\ m.term >= n.current_term /\ ~LogHolds(n, m.prev_log_index, m.prev_log_term) => r = gap
       /\ m.term >= n.current_term /\ LogHolds(n, m.prev_log_index, m.prev_log_term) => r = taken
  BY <1>1, <1>4, <1>7, <1>8
<1>11. /\ m.term < n.current_term =>
            r.node = n /\ r.out = AppendReply(i, n, m.leader, FALSE, 0)
       /\ m.term >= n.current_term /\ ~LogHolds(n, m.prev_log_index, m.prev_log_term) =>
            r.node = f /\ r.out = AppendReply(i, f, m.leader, FALSE, 0)
       /\ m.term >= n.current_term /\ LogHolds(n, m.prev_log_index, m.prev_log_term) =>
            r.node = c /\ r.out = AppendReply(i, c, m.leader, TRUE, cov)
  BY <1>9, <1>10
<1>12. AnsweredAs(i, n, m, r)
  BY <1>10, <1>11 DEF AnsweredAs, f, c, cov
<1> QED  BY <1>12 DEF r

\* A leader that learns what a follower holds.
Progressed(n, m) == [n EXCEPT !.match_index[m.from] = m.match_index,
                              !.next_index[m.from] = m.match_index + 1]

\* A leader that tries the follower one entry earlier.
SteppedBack(n, m) == [n EXCEPT !.next_index[m.from] = StepBack(@)]

\* What a reply tells is noted with a node's type.
LEMMA ProgressType ==
  ASSUME NEW n \in RaftNode, NEW m \in Message, m.type = "AppendEntriesReply"
  PROVE  Progressed(n, m) \in RaftNode /\ SteppedBack(n, m) \in RaftNode
<1>1. /\ m.from \in Server /\ m.match_index \in Nat /\ m.match_index + 1 \in Nat \ {0}
      /\ n.next_index \in [Server -> Nat \ {0}] /\ n.match_index \in [Server -> Nat]
  BY MessageFields DEF RaftNode
<1>2. StepBack(n.next_index[m.from]) \in Nat \ {0}
  BY <1>1 DEF StepBack
<1> DEFINE mi == [n.match_index EXCEPT ![m.from] = m.match_index]
           ni == [n.next_index EXCEPT ![m.from] = m.match_index + 1]
           back == [n.next_index EXCEPT ![m.from] = StepBack(@)]
<1>3. mi \in [Server -> Nat] /\ ni \in [Server -> Nat \ {0}] /\ back \in [Server -> Nat \ {0}]
  BY <1>1, <1>2
<1>4. /\ Progressed(n, m) = [n EXCEPT !.match_index = mi, !.next_index = ni]
      /\ SteppedBack(n, m) = [n EXCEPT !.next_index = back]
  BY DEF Progressed, SteppedBack, RaftNode
<1> HIDE DEF mi, ni, back
<1>5. [n EXCEPT !.match_index = mi, !.next_index = ni] \in RaftNode
  BY <1>3 DEF RaftNode
<1>6. [n EXCEPT !.next_index = back] \in RaftNode
  BY <1>3 DEF RaftNode
<1> QED  BY <1>4, <1>5, <1>6

\* A reply is heeded by the leader of its term alone, and answered by none.
LEMMA HandleAppendReplyReturns ==
  ASSUME NEW i \in Server, NEW n \in RaftNode, NEW m \in Message,
         m.type = "AppendEntriesReply"
  PROVE  LET r == HandleAppendReply(i, n, m)
         IN  /\ r \in Return
             /\ r.out = <<>>
             /\ r.node = IF n.role # "Leader" \/ m.term # n.current_term THEN n
                         ELSE IF m.success THEN MaybeAdvanceCommit(i, Progressed(n, m))
                         ELSE SteppedBack(n, m)
<1> DEFINE node == IF n.role # "Leader" \/ m.term # n.current_term THEN n
                   ELSE IF m.success THEN MaybeAdvanceCommit(i, Progressed(n, m))
                   ELSE SteppedBack(n, m)
<1>1. HandleAppendReply(i, n, m) = Done(node, <<>>, FALSE)
  <2>1. HandleAppendReply(i, n, m) =
          IF n.role # "Leader" \/ m.term # n.current_term THEN Done(n, <<>>, FALSE)
          ELSE IF m.success THEN Done(MaybeAdvanceCommit(i, Progressed(n, m)), <<>>, FALSE)
          ELSE Done(SteppedBack(n, m), <<>>, FALSE)
    BY DEF HandleAppendReply, Progressed, SteppedBack
  <2> QED  BY <2>1
<1>2. node \in RaftNode
  BY ProgressType, MaybeAdvanceCommitType
<1>3. <<>> \in Seq(Envelope)
  OBVIOUS
<1> HIDE DEF node
<1>4. Done(node, <<>>, FALSE) \in Return
  BY <1>2, <1>3, DoneType
<1>5. Done(node, <<>>, FALSE).node = node /\ Done(node, <<>>, FALSE).out = <<>>
  BY DEF Done
<1> QED  BY <1>1, <1>4, <1>5 DEF node

\* Every message is handled within the types.
LEMMA HandleType ==
  ASSUME NEW i \in Server, NEW n \in RaftNode, NEW m \in Message
  PROVE  Handle(i, n, m) \in Return
<1> DEFINE a == AtTermOf(n, m)
<1>1. a \in RaftNode
  BY AtTermOfType
<1> HIDE DEF a
<1>2. m.type = "RequestVote" => HandleRequestVote(i, a, m) \in Return
  BY <1>1, HandleRequestVoteType
<1>3. m.type = "RequestVoteReply" => HandleVoteReply(i, a, m) \in Return
  BY <1>1, HandleVoteReplyType
<1>4. m.type = "AppendEntries" => HandleAppendEntries(i, a, m) \in Return
  BY <1>1, HandleAppendEntriesReturns DEF AnsweredAs
<1>5. m.type = "AppendEntriesReply" => HandleAppendReply(i, a, m) \in Return
  BY <1>1, HandleAppendReplyReturns
<1>6. /\ m.type = "RequestVote" => Handle(i, n, m) = HandleRequestVote(i, a, m)
      /\ m.type = "RequestVoteReply" => Handle(i, n, m) = HandleVoteReply(i, a, m)
      /\ m.type = "AppendEntries" => Handle(i, n, m) = HandleAppendEntries(i, a, m)
      /\ m.type = "AppendEntriesReply" => Handle(i, n, m) = HandleAppendReply(i, a, m)
  BY DEF Handle, a
<1> QED  BY <1>2, <1>3, <1>4, <1>5, <1>6, MessageFields

\* A command is appended in the leader's term.
LEMMA ClientAppendType ==
  ASSUME NEW n \in RaftNode, NEW command \in Command
  PROVE  ClientAppend(n, command) \in RaftNode
<1> DEFINE e == [term |-> n.current_term, command |-> command]
<1>1. e \in LogEntry /\ n.log \in Seq(LogEntry)
  BY DEF RaftNode, LogEntry
<1>2. Append(n.log, e) \in Seq(LogEntry)
  <2> HIDE DEF e
  <2> QED  BY <1>1
<1>3. ClientAppend(n, command) = [n EXCEPT !.log = Append(n.log, e)]
  BY DEF ClientAppend
<1> HIDE DEF e
<1> QED  BY <1>2, <1>3 DEF RaftNode

-----------------------------------------------------------------------------
(* The cluster's state keeps its types.                                    *)

\* Every deadline the code draws is within the greatest of them.
LEMMA DeadlinesType ==
  Max(Deadlines) \in Nat /\ \A left \in Deadlines : left \in 0..Max(Deadlines)
<1> DEFINE top == ELECTION_TIMEOUT_BASE + ELECTION_TIMEOUT_JITTER - 1
<1>1. top \in Nat /\ Deadlines \subseteq 0..top /\ ELECTION_TIMEOUT_BASE \in Deadlines
  BY StoreClusterAssumption DEF Deadlines
<1>2. Max(Deadlines) \in Deadlines /\ \A y \in Deadlines : Max(Deadlines) >= y
  <2> HIDE DEF top
  <2> QED  BY <1>1, MaxExists
<1>3. Deadlines \subseteq Nat
  BY <1>1
<1> DEFINE greatest == Max(Deadlines)
<1>4. greatest \in Nat
  BY <1>2, <1>3
<1>5. ASSUME NEW left \in Deadlines PROVE left \in 0..greatest
  <2>1. left \in Nat /\ greatest >= left
    BY <1>2, <1>3
  <2> HIDE DEF greatest
  <2> QED  BY <1>4, <2>1
<1> QED  BY <1>4, <1>5

\* A cluster starts within its types.
LEMMA InitType == Init => TypeOK
<1> SUFFICES ASSUME Init PROVE TypeOK
  OBVIOUS
<1>1. New \in RaftNode
  BY DEF New, RaftNode, Role
<1>2. nodes \in [Server -> RaftNode] /\ bus \in Seq(Envelope)
  BY <1>1 DEF Init
<1>3. election_left \in [Server -> 0..Max(Deadlines)]
  BY DeadlinesType DEF Init
<1>4. heartbeat_left \in [Server -> 0..HEARTBEAT_INTERVAL]
  BY StoreClusterAssumption DEF Init
<1>5. turn \in 0..Cardinality(Server) /\ side \in Cuts \cup {{}}
  BY SizeType DEF Init
<1> QED  BY <1>2, <1>3, <1>4, <1>5 DEF TypeOK

\* Installing what a handler returned keeps the types.
LEMMA InstallType ==
  ASSUME TypeOK, NEW i \in Server, NEW r \in Return, NEW queue \in Seq(Envelope),
         Install(i, r, queue)
  PROVE  /\ nodes' \in [Server -> RaftNode]
         /\ bus' \in Seq(Envelope)
         /\ election_left' \in [Server -> 0..Max(Deadlines)]
<1>1. r.node \in RaftNode /\ r.out \in Seq(Envelope)
  BY DEF Return
<1>2. nodes' \in [Server -> RaftNode]
  BY <1>1 DEF Install, TypeOK
<1>3. bus' \in Seq(Envelope)
  BY <1>1 DEF Install
<1>4. election_left' \in [Server -> 0..Max(Deadlines)]
  <2>1. election_left \in [Server -> 0..Max(Deadlines)]
    BY DEF TypeOK
  <2>2. \/ election_left' = election_left
        \/ \E left \in Deadlines : election_left' = [election_left EXCEPT ![i] = left]
    BY DEF Install
  <2> QED  BY <2>1, <2>2, DeadlinesType
<1> QED  BY <1>2, <1>3, <1>4

\* Time counts down to 0.
LEMMA Minus1Type ==
  ASSUME NEW b \in Nat, NEW left \in [Server -> 0..b]
  PROVE  Minus1(left) \in [Server -> 0..b]
BY DEF Minus1

\* The oldest message and the rest of the bus.
LEMMA BusParts ==
  ASSUME TypeOK, bus # <<>>
  PROVE  /\ Head(bus) \in Envelope /\ Head(bus).to \in Server /\ Head(bus).msg \in Message
         /\ Tail(bus) \in Seq(Envelope)
<1>1. bus \in Seq(Envelope)
  BY DEF TypeOK
<1>2. Head(bus) \in Envelope /\ Tail(bus) \in Seq(Envelope)
  BY <1>1
<1> QED  BY <1>2 DEF Envelope

\* Every step of the cluster keeps its types.
LEMMA NextType == TypeOK /\ [Next]_vars => TypeOK'
<1> SUFFICES ASSUME TypeOK, [Next]_vars PROVE TypeOK'
  OBVIOUS
<1>1. /\ nodes \in [Server -> RaftNode] /\ bus \in Seq(Envelope)
      /\ election_left \in [Server -> 0..Max(Deadlines)]
      /\ heartbeat_left \in [Server -> 0..HEARTBEAT_INTERVAL]
      /\ turn \in 0..Cardinality(Server) /\ side \in Cuts \cup {{}}
  BY DEF TypeOK
<1>2. Cardinality(Server) \in Nat /\ HEARTBEAT_INTERVAL \in Nat /\ Max(Deadlines) \in Nat
      /\ \A i \in Server : i + 1 \in 0..Cardinality(Server)
  BY SizeType, StoreNodeAssumption, StoreClusterAssumption, DeadlinesType
<1>3. CASE Tick
  <2>1. election_left' \in [Server -> 0..Max(Deadlines)]
    BY <1>1, <1>2, <1>3, Minus1Type DEF Tick
  <2>2. heartbeat_left' \in [Server -> 0..HEARTBEAT_INTERVAL]
    BY <1>1, <1>2, <1>3, Minus1Type DEF Tick
  <2> QED  BY <1>1, <1>2, <1>3, <2>1, <2>2 DEF Tick, TypeOK
<1>4. ASSUME NEW i \in Server, Campaign(i) PROVE TypeOK'
  <2>1. StartElection(i, nodes[i]) \in Return
    BY <1>1, StartElectionReturns
  <2>2. /\ nodes' \in [Server -> RaftNode] /\ bus' \in Seq(Envelope)
        /\ election_left' \in [Server -> 0..Max(Deadlines)]
    BY <1>1, <1>4, <2>1, InstallType DEF Campaign
  <2> QED  BY <1>1, <1>2, <1>4, <2>2 DEF Campaign, TypeOK
<1>5. ASSUME NEW i \in Server, Heartbeat(i) PROVE TypeOK'
  <2>1. bus' \in Seq(Envelope)
    BY <1>1, <1>5, BroadcastReturns DEF Heartbeat
  <2>2. heartbeat_left' \in [Server -> 0..HEARTBEAT_INTERVAL]
    BY <1>1, <1>2, <1>5 DEF Heartbeat
  <2> QED  BY <1>1, <1>2, <1>5, <2>1, <2>2 DEF Heartbeat, TypeOK
<1>6. ASSUME NEW i \in Server, Rest(i) PROVE TypeOK'
  BY <1>1, <1>2, <1>6 DEF Rest, TypeOK, timers
<1>7. CASE Deliver
  <2> DEFINE i == Head(bus).to
             m == Head(bus).msg
             r == Handle(i, nodes[i], m)
  <2>1. i \in Server /\ m \in Message /\ Tail(bus) \in Seq(Envelope) /\ r \in Return
    BY <1>1, <1>7, BusParts, HandleType DEF Deliver
  <2>2. /\ nodes' \in [Server -> RaftNode] /\ bus' \in Seq(Envelope)
        /\ election_left' \in [Server -> 0..Max(Deadlines)]
    <3>1. CASE Crosses(SenderOf(m), i)
      BY <1>1, <1>7, <2>1, <3>1 DEF Deliver, timers
    <3>2. CASE ~Crosses(SenderOf(m), i)
      <4>1. Install(i, r, Tail(bus))
        BY <1>7, <3>2 DEF Deliver
      <4> HIDE DEF i, r
      <4> QED  BY <2>1, <4>1, InstallType
    <3> QED  BY <3>1, <3>2
  <2>3. heartbeat_left' \in [Server -> 0..HEARTBEAT_INTERVAL]
    <3>1. \/ heartbeat_left' = heartbeat_left
          \/ heartbeat_left' = [heartbeat_left EXCEPT ![i] = HEARTBEAT_INTERVAL]
      BY <1>7 DEF Deliver, timers
    <3>2. HEARTBEAT_INTERVAL \in 0..HEARTBEAT_INTERVAL
      BY <1>2
    <3> HIDE DEF i
    <3> QED  BY <1>1, <2>1, <3>1, <3>2
  <2>4. turn' = turn /\ side' = side
    BY <1>7 DEF Deliver
  <2> QED  BY <1>1, <2>2, <2>3, <2>4 DEF TypeOK
<1>8. ASSUME NEW command \in Command, ClientWrite(command) PROVE TypeOK'
  BY <1>1, <1>8, ClientAppendType DEF ClientWrite, TypeOK, timers
<1>9. ASSUME NEW cut \in Cuts \cup {{}}, Cut(cut) PROVE TypeOK'
  BY <1>1, <1>9 DEF Cut, TypeOK, timers
<1>10. CASE UNCHANGED vars
  BY <1>1, <1>10 DEF vars, timers, TypeOK
<1> QED  BY <1>3, <1>4, <1>5, <1>6, <1>7, <1>8, <1>9, <1>10 DEF Next, Run

\* The no-harness cluster keeps its types, its timers within what the code may
\* draw, for every cluster size, set of cuts and bound.
THEOREM TypeCorrect == Spec => []TypeOK
<1> QED  BY InitType, NextType, PTL DEF Spec

=============================================================================
