-------------------------- MODULE StoreSafetyProofs --------------------------
(***************************************************************************)
(* Raft's safety for StoreCluster, whatever the size of the cluster, the   *)
(* cuts and the bounds: votes are given, a leader of the latest term is    *)
(* complete, what is applied agrees.                                       *)
(*                                                                         *)
(* The nodes forget what the argument needs: votes_received is a count,    *)
(* and a vote or a log of an earlier term is gone.  The inductive          *)
(* invariant therefore says that there IS a history of the elections and   *)
(* of the logs that explains the state (StoreInv), and every step is shown *)
(* to extend some history.  No variable is added to the model.             *)
(***************************************************************************)
EXTENDS StoreProofs

-----------------------------------------------------------------------------
(* What the nodes forget: who voted for whom in every term, with which log *)
(* a candidate ran, whose votes it counted, who led a term and with which  *)
(* log, and how much of that log every node took over in that term.        *)

History ==
  [vote    : [Nat -> [Server -> Server \cup {Nil}]],
   clog    : [Nat -> [Server -> Seq(LogEntry)]],
   counted : [Nat -> [Server -> SUBSET Server]],
   ldr     : [Nat -> Server \cup {Nil}],
   llog    : [Nat -> Seq(LogEntry)],
   acc     : [Nat -> [Server -> Nat]]]

\* The first k entries of the two logs are there and the same.
Same(s, r, k) == k <= Len(s) /\ k <= Len(r) /\ \A n \in 1..k : s[n] = r[n]

\* An entry is one its term's leader had, after what that leader had before it.
Owned(h, s) ==
  \A n \in 1..Len(s) : h.ldr[s[n].term] # Nil /\ Same(s, h.llog[s[n].term], n)

TermsBelow(s, t) == \A n \in 1..Len(s) : s[n].term < t

\* The term a log ends in.
LastTerm(s) == IF s = <<>> THEN 0 ELSE s[Len(s)].term

IsQuorum(Q) == Q \subseteq Server /\ Cardinality(Q) >= Majority

\* Entry k of term u's leader is its own.
Proposed(h, u, k) ==
  h.ldr[u] # Nil /\ k \in 1..Len(h.llog[u]) /\ h.llog[u][k].term = u

\* A majority took it over in that term.
Chosen(h, u, k) ==
  /\ Proposed(h, u, k)
  /\ \E Q \in SUBSET Server : IsQuorum(Q) /\ \A q \in Q : h.acc[u][q] >= k

\* It may still come to that: who is in a later term will not take it over.
Choosable(h, ns, u, k) ==
  /\ Proposed(h, u, k)
  /\ \E Q \in SUBSET Server :
       IsQuorum(Q) /\ \A q \in Q : h.acc[u][q] >= k \/ ns[q].current_term <= u

\* The first c entries are part of what was chosen in term t or before.
Committed(h, s, c, t) ==
  c = 0 \/ \E u, k \in Nat : u <= t /\ c <= k /\ Chosen(h, u, k) /\ Same(s, h.llog[u], c)

\* A log has what node v took over before term t that may still be chosen.
Carries(h, ns, s, v, t) ==
  \A u, k \in Nat :
    u < t /\ Choosable(h, ns, u, k) /\ h.acc[u][v] >= k => Same(s, h.llog[u], k)

\* A log has all that may still be chosen in terms before t.
Complete(h, ns, s, t) ==
  \A u, k \in Nat : u < t /\ Choosable(h, ns, u, k) => Same(s, h.llog[u], k)

-----------------------------------------------------------------------------
(* The parts of the invariant.                                             *)

\* A vote is kept for the term, is given to a candidate, and promises that the
\* candidate's log has what the voter took over.
VoteOk(h, ns, t, v) ==
  LET c == h.vote[t][v]
  IN  /\ ns[v].current_term < t => c = Nil
      /\ ns[v].current_term = t => c = ns[v].voted_for
      /\ c # Nil => /\ h.vote[t][c] = c
                    /\ Owned(h, h.clog[t][c]) /\ TermsBelow(h.clog[t][c], t)
                    /\ Carries(h, ns, h.clog[t][c], v, t)
      /\ \A w \in h.counted[t][v] : h.vote[t][w] = v

\* What node v took over in term t is in that term's leader's log.
TakenOver(h, ns, t, v) ==
  /\ h.acc[t][v] <= Len(h.llog[t])
  /\ ns[v].current_term < t => h.acc[t][v] = 0
  /\ ns[v].current_term = t => Same(ns[v].log, h.llog[t], h.acc[t][v])

\* A term's leader was elected by a majority, leads while it stays in the term,
\* and its log has all that may still be chosen in earlier terms.
LeaderOk(h, ns, t) ==
  LET c == h.ldr[t]
  IN  /\ c = Nil => \A v \in Server : h.acc[t][v] = 0
      /\ c # Nil => /\ h.vote[t][c] = c
                    /\ IsQuorum(h.counted[t][c])
                    /\ ns[c].current_term = t => ns[c].role = "Leader"
                    /\ Owned(h, h.llog[t]) /\ TermsBelow(h.llog[t], t + 1)
                    /\ h.acc[t][c] = Len(h.llog[t])
                    /\ \A v \in Server : TakenOver(h, ns, t, v)
                    /\ Complete(h, ns, h.llog[t], t)

\* What node i has applied is its log's committed prefix.
AppliedOk(h, n) ==
  /\ n.last_applied = n.commit_index
  /\ Len(n.kv) = n.commit_index
  /\ Same(n.kv, n.log, n.commit_index)
  /\ Committed(h, n.log, n.commit_index, n.current_term)

\* What a candidate or a leader knows.
OfficeOk(h, i, n) ==
  LET t == n.current_term
  IN  /\ n.role # "Follower" => /\ n.voted_for = i
                                /\ n.votes_received = Cardinality(h.counted[t][i])
                                /\ i \in h.counted[t][i]
      /\ n.role = "Candidate" => n.log = h.clog[t][i]
      /\ n.role = "Leader" => /\ h.ldr[t] = i /\ h.llog[t] = n.log
                              /\ \A p \in Server \ {i} :
                                   /\ n.next_index[p] <= Len(n.log) + 1
                                   /\ n.match_index[p] <= h.acc[t][p]

NodeOk(h, ns, i) ==
  /\ Owned(h, ns[i].log)
  /\ TermsBelow(ns[i].log, ns[i].current_term + 1)
  /\ Carries(h, ns, ns[i].log, i, ns[i].current_term + 1)
  /\ AppliedOk(h, ns[i])
  /\ OfficeOk(h, i, ns[i])

\* A history explains the nodes.
Explains(h, ns) ==
  /\ h \in History
  /\ \A t \in Nat, v \in Server : VoteOk(h, ns, t, v)
  /\ \A t \in Nat : LeaderOk(h, ns, t)
  /\ \A i \in Server : NodeOk(h, ns, i)

-----------------------------------------------------------------------------
(* The messages under way.                                                 *)

\* A request for a vote describes the candidate's log, to one that has not yet
\* given it its vote.
RequestOk(h, e) ==
  LET m == e.msg
      s == h.clog[m.term][m.candidate]
  IN  /\ e.to # m.candidate
      /\ h.vote[m.term][m.candidate] = m.candidate
      /\ h.vote[m.term][e.to] # m.candidate
      /\ m.last_log_index = Len(s)
      /\ m.last_log_term = LastTerm(s)

\* A vote under way was given and is not counted yet.
GrantOk(h, e) ==
  LET m == e.msg
  IN  m.granted => /\ m.voter # e.to
                   /\ h.vote[m.term][m.voter] = e.to
                   /\ m.voter \notin h.counted[m.term][e.to]

\* An append is a part of its term's leader's log, and says no more is committed.
AppendOk(h, e) ==
  LET m == e.msg
      s == h.llog[m.term]
  IN  /\ m.leader # e.to
      /\ h.ldr[m.term] = m.leader
      /\ m.prev_log_index + Len(m.entries) <= Len(s)
      /\ \A k \in 1..Len(m.entries) : m.entries[k] = s[m.prev_log_index + k]
      /\ m.prev_log_term = IF m.prev_log_index = 0 THEN 0 ELSE s[m.prev_log_index].term
      /\ m.leader_commit <= m.prev_log_index + Len(m.entries)
      /\ Committed(h, s, m.leader_commit, m.term)

\* An acknowledgement reports no more than was taken over.
AckOk(h, e) ==
  LET m == e.msg
  IN  m.success => /\ m.from # e.to
                   /\ h.ldr[m.term] = e.to
                   /\ m.match_index <= h.acc[m.term][m.from]

EnvelopeOk(h, e) ==
  /\ e.msg.type = "RequestVote" => RequestOk(h, e)
  /\ e.msg.type = "RequestVoteReply" => GrantOk(h, e)
  /\ e.msg.type = "AppendEntries" => AppendOk(h, e)
  /\ e.msg.type = "AppendEntriesReply" => AckOk(h, e)

\* No request for a vote, and no vote, is under way twice.
Single(e) == \/ e.msg.type = "RequestVote"
             \/ e.msg.type = "RequestVoteReply" /\ e.msg.granted

Once(b) == \A k, l \in DOMAIN b : b[k] = b[l] /\ Single(b[k]) => k = l

\* A history explains the nodes and the messages under way.
Accounts(h, ns, b) ==
  /\ Explains(h, ns)
  /\ \A e \in Range(b) : EnvelopeOk(h, e)
  /\ Once(b)

\* The inductive invariant: some history accounts for the state.
StoreInv == \E h : Accounts(h, nodes, bus)

-----------------------------------------------------------------------------
(* Logs that start the same, and majorities that meet.                     *)

\* The parts of a history.
LEMMA HistoryTypes ==
  ASSUME NEW h \in History
  PROVE  /\ h.vote \in [Nat -> [Server -> Server \cup {Nil}]]
         /\ h.clog \in [Nat -> [Server -> Seq(LogEntry)]]
         /\ h.counted \in [Nat -> [Server -> SUBSET Server]]
         /\ h.ldr \in [Nat -> Server \cup {Nil}]
         /\ h.llog \in [Nat -> Seq(LogEntry)]
         /\ h.acc \in [Nat -> [Server -> Nat]]
BY DEF History

\* The fields of a history.
LEMMA HistoryFields ==
  ASSUME NEW h \in History, NEW t \in Nat
  PROVE  /\ h.llog[t] \in Seq(LogEntry) /\ h.ldr[t] \in Server \cup {Nil}
         /\ \A v \in Server : /\ h.vote[t][v] \in Server \cup {Nil}
                              /\ h.clog[t][v] \in Seq(LogEntry)
                              /\ h.counted[t][v] \in SUBSET Server
                              /\ h.acc[t][v] \in Nat
<1>2. /\ h.llog[t] \in Seq(LogEntry) /\ h.ldr[t] \in Server \cup {Nil}
      /\ h.vote[t] \in [Server -> Server \cup {Nil}]
      /\ h.clog[t] \in [Server -> Seq(LogEntry)]
      /\ h.counted[t] \in [Server -> SUBSET Server]
      /\ h.acc[t] \in [Server -> Nat]
  BY HistoryTypes, ZenonT(30)
<1> QED  BY <1>2

\* To start the same is transitive, and holds of shorter parts.
LEMMA SameTrans ==
  ASSUME NEW s \in Seq(LogEntry), NEW r \in Seq(LogEntry), NEW q \in Seq(LogEntry),
         NEW k \in Nat, NEW l \in Nat, l <= k, Same(s, r, k), Same(r, q, l)
  PROVE  Same(s, q, l)
BY DEF Same

\* It is symmetric.
LEMMA SameSym ==
  ASSUME NEW s \in Seq(LogEntry), NEW r \in Seq(LogEntry), NEW k \in Nat, Same(s, r, k)
  PROVE  Same(r, s, k)
BY DEF Same

\* It holds of shorter parts.
LEMMA SameShorter ==
  ASSUME NEW s \in Seq(LogEntry), NEW r \in Seq(LogEntry), NEW k \in Nat, Same(s, r, k),
         NEW l \in Nat, l <= k
  PROVE  Same(s, r, l)
BY DEF Same

\* Two majorities share a node.
LEMMA QuorumsMeet ==
  ASSUME NEW Q, NEW R, IsQuorum(Q), IsQuorum(R)
  PROVE  \E v \in Q : v \in R
<1>1. /\ IsFiniteSet(Server) /\ Q \subseteq Server /\ R \subseteq Server
      /\ Cardinality(Q) >= Majority /\ Cardinality(R) >= Majority
  BY StoreNodeAssumption DEF IsQuorum
<1>2. IsFiniteSet(Q) /\ IsFiniteSet(R)
  BY <1>1, FS_Subset
<1>3. Cardinality(Server) \in Nat /\ Cardinality(Q) \in Nat /\ Cardinality(R) \in Nat
  BY <1>1, <1>2, FS_CardinalityType
<1>4. Cardinality(Q) + Cardinality(R) > Cardinality(Server)
  BY <1>1, <1>3 DEF Majority
<1>5. Q \cap R # {}
  BY <1>1, <1>4, FS_MajoritiesIntersect
<1> QED  BY <1>5

\* An entry's term is that of a leader, whose log it was in at that place.
LEMMA OwnedEntry ==
  ASSUME NEW h \in History, NEW s \in Seq(LogEntry), Owned(h, s), NEW n \in 1..Len(s)
  PROVE  /\ s[n].term \in Nat /\ h.ldr[s[n].term] # Nil
         /\ Same(s, h.llog[s[n].term], n)
<1>1. s[n] \in LogEntry
  OBVIOUS
<1> QED  BY <1>1 DEF Owned, LogEntry

\* Two logs with entries of one term at one place are the same up to there.
LEMMA SameTermSameLog ==
  ASSUME NEW h \in History, NEW s \in Seq(LogEntry), NEW r \in Seq(LogEntry),
         Owned(h, s), Owned(h, r),
         NEW n \in 1..Len(s), n <= Len(r), s[n].term = r[n].term
  PROVE  Same(s, r, n)
<1>1. n \in 1..Len(r) /\ n \in Nat
  OBVIOUS
<1>2. /\ s[n].term \in Nat /\ Same(s, h.llog[s[n].term], n)
      /\ Same(r, h.llog[s[n].term], n)
  BY <1>1, OwnedEntry
<1>3. h.llog[s[n].term] \in Seq(LogEntry)
  BY <1>2, HistoryFields
<1> QED  BY <1>1, <1>2, <1>3, SameSym, SameTrans

\* Terms grow along a log.
LEMMA TermsGrow ==
  ASSUME NEW h \in History, \A t \in Nat : h.ldr[t] # Nil => TermsBelow(h.llog[t], t + 1),
         NEW s \in Seq(LogEntry), Owned(h, s),
         NEW n \in 1..Len(s), NEW l \in 1..n
  PROVE  s[l].term <= s[n].term
<1> DEFINE t == s[n].term
<1>1. t \in Nat /\ h.ldr[t] # Nil /\ Same(s, h.llog[t], n)
  BY OwnedEntry
<1>2. h.llog[t] \in Seq(LogEntry)
  BY <1>1, HistoryFields
<1>3. TermsBelow(h.llog[t], t + 1) /\ l \in 1..Len(h.llog[t]) /\ s[l] = h.llog[t][l]
  BY <1>1, <1>2 DEF Same
<1>4. s[l].term \in Nat /\ l \in 1..Len(s)
  BY OwnedEntry
<1> HIDE DEF t
<1>5. s[l].term < t + 1
  BY <1>3 DEF TermsBelow
<1> QED  BY <1>1, <1>4, <1>5 DEF t

-----------------------------------------------------------------------------
(* What a history tells stays true as it grows.                            *)

\* g tells at least what h tells.
Grows(h, g) ==
  /\ \A t \in Nat, v \in Server : h.vote[t][v] # Nil => g.vote[t][v] = h.vote[t][v]
  /\ \A t \in Nat, c \in Server : h.vote[t][c] = c => g.clog[t][c] = h.clog[t][c]
  /\ \A t \in Nat : h.ldr[t] # Nil =>
       g.ldr[t] = h.ldr[t] /\ Same(g.llog[t], h.llog[t], Len(h.llog[t]))
  /\ \A t \in Nat, v \in Server : h.acc[t][v] <= g.acc[t][v]

\* The owner of an entry keeps it.
LEMMA OwnedKept ==
  ASSUME NEW h \in History, NEW g \in History, Grows(h, g),
         NEW s \in Seq(LogEntry), Owned(h, s)
  PROVE  Owned(g, s)
<1> SUFFICES ASSUME NEW n \in 1..Len(s)
             PROVE  g.ldr[s[n].term] # Nil /\ Same(s, g.llog[s[n].term], n)
  BY DEF Owned
<1> DEFINE t == s[n].term
<1>1. t \in Nat /\ h.ldr[t] # Nil /\ Same(s, h.llog[t], n)
  BY OwnedEntry
<1>2. h.llog[t] \in Seq(LogEntry) /\ g.llog[t] \in Seq(LogEntry)
  BY <1>1, HistoryFields
<1>3. g.ldr[t] = h.ldr[t] /\ Same(g.llog[t], h.llog[t], Len(h.llog[t]))
  BY <1>1 DEF Grows
<1>4. n \in Nat /\ n <= Len(h.llog[t]) /\ Len(h.llog[t]) \in Nat
  BY <1>1, <1>2 DEF Same
<1> HIDE DEF t
<1>5. Same(h.llog[t], g.llog[t], n)
  BY <1>2, <1>3, <1>4, SameSym, SameShorter
<1>6. Same(s, g.llog[t], n)
  BY <1>1, <1>2, <1>4, <1>5, SameTrans
<1> QED  BY <1>1, <1>3, <1>6 DEF t

\* What was proposed stays where it was.
LEMMA ProposedKept ==
  ASSUME NEW h \in History, NEW g \in History, Grows(h, g),
         NEW u \in Nat, NEW k, Proposed(h, u, k)
  PROVE  Proposed(g, u, k) /\ \A l \in 1..k : g.llog[u][l] = h.llog[u][l]
<1>1. h.llog[u] \in Seq(LogEntry) /\ g.llog[u] \in Seq(LogEntry)
  BY HistoryFields
<1>2. h.ldr[u] # Nil /\ k \in 1..Len(h.llog[u]) /\ h.llog[u][k].term = u
  BY DEF Proposed
<1>3. g.ldr[u] = h.ldr[u] /\ Same(g.llog[u], h.llog[u], Len(h.llog[u]))
  BY <1>2 DEF Grows
<1> QED  BY <1>1, <1>2, <1>3 DEF Proposed, Same

\* What was chosen stays chosen.
LEMMA ChosenKept ==
  ASSUME NEW h \in History, NEW g \in History, Grows(h, g),
         NEW u \in Nat, NEW k, Chosen(h, u, k)
  PROVE  Chosen(g, u, k)
<1>1. Proposed(g, u, k) /\ k \in Nat
  <2>1. h.llog[u] \in Seq(LogEntry) /\ Proposed(h, u, k)
    BY HistoryFields DEF Chosen
  <2> QED  BY <2>1, ProposedKept, SMTT(30) DEF Proposed
<1>2. PICK Q \in SUBSET Server : IsQuorum(Q) /\ \A q \in Q : h.acc[u][q] >= k
  BY DEF Chosen
<1>3. \A q \in Q : g.acc[u][q] >= k
  <2> SUFFICES ASSUME NEW q \in Q PROVE g.acc[u][q] >= k
    OBVIOUS
  <2>1. h.acc[u][q] \in Nat /\ g.acc[u][q] \in Nat /\ h.acc[u][q] <= g.acc[u][q]
    BY HistoryFields DEF Grows
  <2> QED  BY <1>1, <1>2, <2>1
<1> QED  BY <1>1, <1>2, <1>3 DEF Chosen

\* What was committed stays committed, in any log that starts the same and in
\* any later term.
LEMMA CommittedKept ==
  ASSUME NEW h \in History, NEW g \in History, Grows(h, g),
         NEW s \in Seq(LogEntry), NEW r \in Seq(LogEntry),
         NEW c \in Nat, Same(r, s, c), NEW t \in Nat, NEW w \in Nat, t <= w,
         Committed(h, s, c, t)
  PROVE  Committed(g, r, c, w)
<1>1. CASE c = 0
  BY <1>1 DEF Committed
<1>2. CASE c # 0
  <2>1. PICK u \in Nat, k \in Nat : /\ u <= t /\ c <= k /\ Chosen(h, u, k)
                                    /\ Same(s, h.llog[u], c)
    BY <1>2 DEF Committed
  <2>2. Chosen(g, u, k) /\ u <= w
    BY <2>1, ChosenKept
  <2>3. Proposed(h, u, k) /\ h.llog[u] \in Seq(LogEntry) /\ g.llog[u] \in Seq(LogEntry)
    BY <2>1, HistoryFields DEF Chosen
  <2>4. Same(h.llog[u], g.llog[u], k)
    <3>1. Proposed(g, u, k) /\ \A l \in 1..k : g.llog[u][l] = h.llog[u][l]
      BY <2>3, ProposedKept, SMTT(30)
    <3>2. k \in 1..Len(g.llog[u]) /\ k \in 1..Len(h.llog[u])
      BY <2>3, <3>1 DEF Proposed
    <3> QED  BY <2>3, <3>1, <3>2 DEF Same
  <2>5. Same(s, g.llog[u], c)
    BY <2>1, <2>3, <2>4, SameShorter, SameTrans
  <2>6. Same(r, g.llog[u], c)
    BY <2>3, <2>5, SameTrans, SMTT(30)
  <2> QED  BY <2>1, <2>2, <2>6 DEF Committed
<1> QED  BY <1>1, <1>2

\* A history grows into itself.
LEMMA GrowsRefl == ASSUME NEW h \in History PROVE Grows(h, h)
<1>1. \A t \in Nat : h.llog[t] \in Seq(LogEntry) /\ \A v \in Server : h.acc[t][v] \in Nat
  BY HistoryFields
<1> QED  BY <1>1 DEF Grows, Same

\* What may still be chosen was already so: nobody takes over an entry of a term
\* it has left.
LEMMA ChoosableShrinks ==
  ASSUME NEW h \in History, NEW g \in History, Grows(h, g),
         NEW ns \in [Server -> RaftNode], NEW ms \in [Server -> RaftNode],
         NEW u \in Nat, NEW k, Proposed(h, u, k), Choosable(g, ms, u, k),
         \A q \in Server : /\ ns[q].current_term <= ms[q].current_term
                           /\ g.acc[u][q] # h.acc[u][q] => ns[q].current_term <= u
  PROVE  Choosable(h, ns, u, k)
<1>1. PICK Q \in SUBSET Server :
        IsQuorum(Q) /\ \A q \in Q : g.acc[u][q] >= k \/ ms[q].current_term <= u
  BY DEF Choosable
<1>2. \A q \in Q : h.acc[u][q] >= k \/ ns[q].current_term <= u
  <2> SUFFICES ASSUME NEW q \in Q
               PROVE  h.acc[u][q] >= k \/ ns[q].current_term <= u
    OBVIOUS
  <2>1. ns[q] \in RaftNode /\ ms[q] \in RaftNode
    OBVIOUS
  <2>2. ns[q].current_term \in Nat /\ ms[q].current_term \in Nat
    BY <2>1 DEF RaftNode
  <2> QED  BY <1>1, <2>2
<1> QED  BY <1>1, <1>2 DEF Choosable

\* An append, or an acknowledgement, under way stays true.
LEMMA AppendKept ==
  ASSUME NEW h \in History, NEW g \in History, Grows(h, g),
         NEW e \in Envelope, e.msg.type = "AppendEntries", AppendOk(h, e)
  PROVE  AppendOk(g, e)
<1> DEFINE m == e.msg
           t == m.term
           s == h.llog[t]
           r == g.llog[t]
           prev == m.prev_log_index
<1>1. /\ t \in Nat /\ prev \in Nat /\ m.entries \in Seq(LogEntry)
      /\ m.leader \in Server /\ m.leader_commit \in Nat
  <2>1. m \in Message
    BY DEF Envelope
  <2> QED  BY <2>1, MessageFields
<1>2. s \in Seq(LogEntry) /\ r \in Seq(LogEntry)
  BY <1>1, HistoryFields
<1>3. /\ m.leader # e.to /\ h.ldr[t] = m.leader
      /\ prev + Len(m.entries) <= Len(s)
      /\ \A k \in 1..Len(m.entries) : m.entries[k] = s[prev + k]
      /\ m.prev_log_term = IF prev = 0 THEN 0 ELSE s[prev].term
      /\ m.leader_commit <= prev + Len(m.entries)
      /\ Committed(h, s, m.leader_commit, t)
  BY DEF AppendOk
<1>4. h.ldr[t] # Nil
  BY <1>1, <1>3, StoreNodeAssumption
<1>5. g.ldr[t] = h.ldr[t] /\ Same(r, s, Len(s))
  BY <1>1, <1>4 DEF Grows
<1>6. Len(s) \in Nat /\ Len(r) \in Nat /\ Len(s) <= Len(r) /\ \A k \in 1..Len(s) : r[k] = s[k]
  BY <1>2, <1>5 DEF Same
<1>7. Len(m.entries) \in Nat
  BY <1>1
<1> HIDE DEF s, r, t, prev
<1>11. m.leader_commit <= Len(s)
  BY <1>1, <1>3, <1>6, <1>7
<1>8. Same(r, s, m.leader_commit)
  BY <1>1, <1>2, <1>5, <1>6, <1>11, SameShorter
<1>9. Committed(g, r, m.leader_commit, t)
  BY <1>1, <1>2, <1>3, <1>8, CommittedKept
<1>10. /\ prev + Len(m.entries) <= Len(r)
       /\ \A k \in 1..Len(m.entries) : m.entries[k] = r[prev + k]
       /\ m.prev_log_term = IF prev = 0 THEN 0 ELSE r[prev].term
  <2>1. \A k \in 1..Len(m.entries) : prev + k \in 1..Len(s)
    BY <1>1, <1>3, <1>6, <1>7
  <2>2. prev # 0 => prev \in 1..Len(s)
    BY <1>1, <1>3, <1>6, <1>7
  <2> QED  BY <1>1, <1>3, <1>6, <1>7, <2>1, <2>2, SMTT(30)
<1> QED  BY <1>3, <1>5, <1>9, <1>10 DEF AppendOk, r, t, prev

\* An acknowledgement under way stays true.
LEMMA AckKept ==
  ASSUME NEW h \in History, NEW g \in History, Grows(h, g),
         NEW e \in Envelope, e.msg.type = "AppendEntriesReply", AckOk(h, e)
  PROVE  AckOk(g, e)
<1>1. e.msg \in Message /\ e.to \in Server
  BY DEF Envelope
<1>2. e.msg.term \in Nat /\ e.msg.from \in Server /\ e.msg.match_index \in Nat
  BY <1>1, MessageFields
<1>3. /\ h.acc[e.msg.term][e.msg.from] \in Nat /\ g.acc[e.msg.term][e.msg.from] \in Nat
      /\ h.acc[e.msg.term][e.msg.from] <= g.acc[e.msg.term][e.msg.from]
  BY <1>2, HistoryFields DEF Grows
<1>4. h.ldr[e.msg.term] # Nil => g.ldr[e.msg.term] = h.ldr[e.msg.term]
  BY <1>2 DEF Grows
<1> QED  BY <1>1, <1>2, <1>3, <1>4, StoreNodeAssumption DEF AckOk

\* A request stays true while the one it goes to does not vote so.
LEMMA RequestKept ==
  ASSUME NEW h \in History, NEW g \in History, Grows(h, g),
         NEW e \in Envelope, e.msg.type = "RequestVote", RequestOk(h, e),
         g.vote[e.msg.term][e.to] # e.msg.candidate
  PROVE  RequestOk(g, e)
<1>1. e.msg \in Message /\ e.to \in Server
  BY DEF Envelope
<1>2. e.msg.term \in Nat /\ e.msg.candidate \in Server
  BY <1>1, MessageFields
<1>3. h.vote[e.msg.term][e.msg.candidate] = e.msg.candidate
  BY DEF RequestOk
<1>4. /\ g.vote[e.msg.term][e.msg.candidate] = e.msg.candidate
      /\ g.clog[e.msg.term][e.msg.candidate] = h.clog[e.msg.term][e.msg.candidate]
  BY <1>2, <1>3, StoreNodeAssumption DEF Grows
<1> QED  BY <1>4 DEF RequestOk

\* A vote under way stays true while it is not counted.
LEMMA GrantKept ==
  ASSUME NEW h \in History, NEW g \in History, Grows(h, g),
         NEW e \in Envelope, e.msg.type = "RequestVoteReply", GrantOk(h, e),
         e.msg.granted => e.msg.voter \notin g.counted[e.msg.term][e.to]
  PROVE  GrantOk(g, e)
<1>1. e.msg \in Message /\ e.to \in Server
  BY DEF Envelope
<1>2. e.msg.term \in Nat /\ e.msg.voter \in Server
  BY <1>1, MessageFields
<1> QED  BY <1>1, <1>2, StoreNodeAssumption DEF GrantOk, Grows

-----------------------------------------------------------------------------
(* Steps that change no log: elections, and what a node knows.             *)

\* The types of a node.
LEMMA NodeFields ==
  ASSUME NEW n \in RaftNode
  PROVE  /\ n.role \in {"Follower", "Candidate", "Leader"}
         /\ n.current_term \in Nat /\ n.voted_for \in Server \cup {Nil}
         /\ n.log \in Seq(LogEntry) /\ Len(n.log) \in Nat
         /\ n.commit_index \in Nat /\ n.last_applied \in Nat
         /\ n.kv \in Seq(LogEntry) /\ n.votes_received \in Nat
         /\ \A p \in Server : n.next_index[p] \in Nat \ {0} /\ n.match_index[p] \in Nat
BY DEF RaftNode, Role

\* The logs, and who led with which, are as they were; terms only rise.
SameLogs(h, ns, g, ms) ==
  /\ Grows(h, g)
  /\ g.ldr = h.ldr /\ g.llog = h.llog /\ g.acc = h.acc
  /\ \A q \in Server : /\ ns[q].current_term <= ms[q].current_term
                       /\ ms[q].log = ns[q].log

\* Then nothing more may be chosen, and logs carry what they did.
LEMMA SameLogsCarry ==
  ASSUME NEW h \in History, NEW g \in History,
         NEW ns \in [Server -> RaftNode], NEW ms \in [Server -> RaftNode],
         SameLogs(h, ns, g, ms)
  PROVE  /\ \A s, t : \A v \in Server : Carries(h, ns, s, v, t) => Carries(g, ms, s, v, t)
         /\ \A s, t : Complete(h, ns, s, t) => Complete(g, ms, s, t)
<1>1. g.ldr = h.ldr /\ g.llog = h.llog /\ g.acc = h.acc
  BY DEF SameLogs
<1>2. ASSUME NEW u \in Nat, NEW k \in Nat, Choosable(g, ms, u, k)
      PROVE  Choosable(h, ns, u, k)
  <2>1. Proposed(h, u, k)
    BY <1>1, <1>2 DEF Choosable, Proposed
  <2>2. \A q \in Server : ns[q].current_term <= ms[q].current_term
    BY DEF SameLogs
  <2> QED  BY <1>1, <1>2, <2>1, <2>2, ChoosableShrinks DEF SameLogs
<1> QED  BY <1>1, <1>2 DEF Carries, Complete

\* A vote that is kept stays good.
LEMMA VoteKept ==
  ASSUME NEW h, NEW g \in History,
         NEW ns \in [Server -> RaftNode], NEW ms \in [Server -> RaftNode],
         Explains(h, ns), SameLogs(h, ns, g, ms),
         NEW t \in Nat, NEW v \in Server,
         g.vote[t][v] = h.vote[t][v],
         ms[v].current_term = t => g.vote[t][v] = ms[v].voted_for,
         \A w \in g.counted[t][v] : g.vote[t][w] = v
  PROVE  VoteOk(g, ms, t, v)
<1> DEFINE c == h.vote[t][v]
<1>1. h \in History /\ VoteOk(h, ns, t, v) /\ c \in Server \cup {Nil}
  BY HistoryFields DEF Explains
<1>2. ms[v].current_term < t => c = Nil
  <2>1. ns[v].current_term <= ms[v].current_term
    BY DEF SameLogs
  <2>2. ns[v].current_term \in Nat /\ ms[v].current_term \in Nat
    BY NodeFields
  <2> QED  BY <1>1, <2>1, <2>2 DEF VoteOk
<1>3. ASSUME c # Nil
      PROVE  /\ g.vote[t][c] = c
             /\ Owned(g, g.clog[t][c]) /\ TermsBelow(g.clog[t][c], t)
             /\ Carries(g, ms, g.clog[t][c], v, t)
  <2>1. c \in Server
    BY <1>1, <1>3
  <2>2. /\ h.vote[t][c] = c /\ Owned(h, h.clog[t][c]) /\ TermsBelow(h.clog[t][c], t)
        /\ Carries(h, ns, h.clog[t][c], v, t) /\ h.clog[t][c] \in Seq(LogEntry)
    BY <1>1, <1>3, <2>1, HistoryFields DEF VoteOk
  <2> HIDE DEF c
  <2>3. g.vote[t][c] = c /\ g.clog[t][c] = h.clog[t][c]
    BY <1>3, <2>1, <2>2 DEF SameLogs, Grows
  <2>4. Owned(g, h.clog[t][c]) /\ Carries(g, ms, h.clog[t][c], v, t)
    BY <1>1, <2>2, OwnedKept, SameLogsCarry DEF SameLogs
  <2> QED  BY <2>2, <2>3, <2>4
<1> HIDE DEF c
<1>4. c = g.vote[t][v]
  BY DEF c
<1> QED  BY <1>2, <1>3, <1>4 DEF VoteOk

\* A leader stays the leader of its term.
LEMMA LeaderKept ==
  ASSUME NEW h, NEW g \in History,
         NEW ns \in [Server -> RaftNode], NEW ms \in [Server -> RaftNode],
         Explains(h, ns), SameLogs(h, ns, g, ms), NEW t \in Nat,
         h.ldr[t] # Nil => /\ g.counted[t][h.ldr[t]] = h.counted[t][h.ldr[t]]
                           /\ ms[h.ldr[t]].current_term = t => ms[h.ldr[t]].role = "Leader"
  PROVE  LeaderOk(g, ms, t)
<1> DEFINE c == h.ldr[t]
<1>1. h \in History /\ LeaderOk(h, ns, t) /\ c \in Server \cup {Nil}
  BY HistoryFields DEF Explains
<1>2. g.ldr[t] = c /\ g.llog[t] = h.llog[t] /\ \A v \in Server : g.acc[t][v] = h.acc[t][v]
  BY DEF SameLogs
<1>3. CASE c = Nil
  BY <1>1, <1>2, <1>3 DEF LeaderOk
<1>4. CASE c # Nil
  <2>1. c \in Server
    BY <1>1, <1>4
  <2>2. /\ h.vote[t][c] = c /\ IsQuorum(h.counted[t][c])
        /\ Owned(h, h.llog[t]) /\ TermsBelow(h.llog[t], t + 1)
        /\ h.acc[t][c] = Len(h.llog[t])
        /\ \A v \in Server : TakenOver(h, ns, t, v)
        /\ Complete(h, ns, h.llog[t], t)
        /\ h.llog[t] \in Seq(LogEntry)
    BY <1>1, <1>4, HistoryFields DEF LeaderOk
  <2> HIDE DEF c
  <2>3. g.vote[t][c] = c
    BY <1>4, <2>1, <2>2 DEF SameLogs, Grows
  <2>4. Owned(g, h.llog[t]) /\ Complete(g, ms, h.llog[t], t)
    BY <1>1, <2>2, OwnedKept, SameLogsCarry DEF SameLogs
  <2>5. \A v \in Server : TakenOver(g, ms, t, v)
    <3> SUFFICES ASSUME NEW v \in Server PROVE TakenOver(g, ms, t, v)
      OBVIOUS
    <3>1. TakenOver(h, ns, t, v) /\ g.acc[t][v] = h.acc[t][v]
      BY <1>2, <2>2
    <3>2. ns[v].current_term <= ms[v].current_term /\ ms[v].log = ns[v].log
      BY DEF SameLogs
    <3>3. /\ ns[v].current_term \in Nat /\ ms[v].current_term \in Nat
          /\ Len(ns[v].log) \in Nat /\ Len(h.llog[t]) \in Nat
      BY <2>2, NodeFields
    <3>4. ns[v].current_term < t => Same(ns[v].log, h.llog[t], h.acc[t][v])
      BY <3>1, <3>3 DEF TakenOver, Same
    <3>5. ms[v].current_term = t => Same(ns[v].log, h.llog[t], h.acc[t][v])
      BY <3>1, <3>2, <3>3, <3>4 DEF TakenOver
    <3>6. ms[v].current_term < t => h.acc[t][v] = 0
      BY <3>1, <3>2, <3>3 DEF TakenOver
    <3>7. h.acc[t][v] <= Len(h.llog[t])
      BY <3>1 DEF TakenOver
    <3> QED  BY <1>2, <3>2, <3>5, <3>6, <3>7 DEF TakenOver
  <2>6. IsQuorum(g.counted[t][c]) /\ (ms[c].current_term = t => ms[c].role = "Leader")
    BY <1>4, <2>2 DEF c
  <2> QED  BY <1>2, <1>4, <2>1, <2>2, <2>3, <2>4, <2>5, <2>6 DEF LeaderOk
<1> QED  BY <1>3, <1>4

\* A node has taken over nothing of a term it has not reached.
LEMMA NothingAhead ==
  ASSUME NEW h, NEW ns \in [Server -> RaftNode], Explains(h, ns),
         NEW t \in Nat, NEW v \in Server, ns[v].current_term < t
  PROVE  h.acc[t][v] = 0
BY DEF Explains, LeaderOk, TakenOver

\* What was applied stays applied, and committed.
LEMMA AppliedKept ==
  ASSUME NEW h \in History, NEW g \in History, Grows(h, g),
         NEW n \in RaftNode, NEW m \in RaftNode, AppliedOk(h, n),
         m.log = n.log, m.commit_index = n.commit_index, m.kv = n.kv,
         m.last_applied = n.last_applied, n.current_term <= m.current_term
  PROVE  AppliedOk(g, m)
<1>1. /\ n.log \in Seq(LogEntry) /\ n.commit_index \in Nat
      /\ n.current_term \in Nat /\ m.current_term \in Nat
  BY NodeFields
<1>2. Same(n.kv, n.log, n.commit_index) /\ Committed(h, n.log, n.commit_index, n.current_term)
  BY DEF AppliedOk
<1>3. n.commit_index <= Len(n.log)
  BY <1>2 DEF Same
<1>4. Same(n.log, n.log, n.commit_index)
  BY <1>1, <1>3 DEF Same
<1>5. Committed(g, n.log, n.commit_index, m.current_term)
  BY <1>1, <1>2, <1>4, CommittedKept
<1> QED  BY <1>2, <1>5 DEF AppliedOk

\* A node that does nothing knows what it knew.
LEMMA OfficeKept ==
  ASSUME NEW h, NEW g \in History,
         NEW ns \in [Server -> RaftNode], NEW ms \in [Server -> RaftNode],
         Explains(h, ns), SameLogs(h, ns, g, ms), NEW i \in Server, ms[i] = ns[i],
         g.counted[ns[i].current_term][i] = h.counted[ns[i].current_term][i]
  PROVE  OfficeOk(g, i, ms[i])
<1> DEFINE n == ns[i]
           t == n.current_term
<1>1. h \in History /\ n \in RaftNode /\ OfficeOk(h, i, n) /\ t \in Nat /\ VoteOk(h, ns, t, i)
  BY NodeFields DEF Explains, NodeOk
<1>2. h.vote[t][i] = n.voted_for
  BY <1>1 DEF VoteOk
<1>3. n.role # "Follower" => g.clog[t][i] = h.clog[t][i]
  BY <1>1, <1>2 DEF OfficeOk, SameLogs, Grows
<1>4. g.ldr[t] = h.ldr[t] /\ g.llog[t] = h.llog[t] /\ g.acc[t] = h.acc[t]
  BY DEF SameLogs
<1> QED  BY <1>1, <1>3, <1>4 DEF OfficeOk

\* A node whose log is as it was stays good.
LEMMA NodeKept ==
  ASSUME NEW h, NEW g \in History,
         NEW ns \in [Server -> RaftNode], NEW ms \in [Server -> RaftNode],
         Explains(h, ns), SameLogs(h, ns, g, ms), NEW i \in Server,
         AppliedOk(g, ms[i]), OfficeOk(g, i, ms[i])
  PROVE  NodeOk(g, ms, i)
<1> DEFINE n == ns[i]
           t == n.current_term
           w == ms[i].current_term
           s == n.log
<1>1. /\ h \in History /\ Grows(h, g) /\ t <= w /\ t \in Nat /\ w \in Nat
      /\ s \in Seq(LogEntry) /\ ms[i].log = s
  BY NodeFields DEF Explains, SameLogs
<1>2. Owned(h, s) /\ TermsBelow(s, t + 1) /\ Carries(h, ns, s, i, t + 1)
  BY DEF Explains, NodeOk
<1>3. Owned(g, s)
  BY <1>1, <1>2, OwnedKept
<1>4. TermsBelow(s, w + 1)
  <2>1. \A k \in 1..Len(s) : s[k].term \in Nat
    BY <1>1, <1>2, OwnedEntry
  <2> HIDE DEF s, t, w
  <2> QED  BY <1>1, <1>2, <2>1 DEF TermsBelow
<1>5. Carries(g, ms, s, i, t + 1)
  BY <1>1, <1>2, SameLogsCarry
<1>6. Carries(g, ms, s, i, w + 1)
  <2> SUFFICES ASSUME NEW u \in Nat, NEW k \in Nat, u < w + 1,
                      Choosable(g, ms, u, k), g.acc[u][i] >= k
               PROVE  Same(s, g.llog[u], k)
    BY DEF Carries
  <2>1. k >= 1
    BY DEF Choosable, Proposed
  <2>2. g.acc[u][i] = h.acc[u][i]
    BY DEF SameLogs
  <2>3. ~(t < u)
    BY <2>1, <2>2, NothingAhead
  <2> HIDE DEF t, w, s
  <2>4. u < t + 1
    BY <1>1, <2>3
  <2> QED  BY <1>5, <2>4 DEF Carries
<1> QED  BY <1>1, <1>3, <1>4, <1>6 DEF NodeOk

-----------------------------------------------------------------------------
(* How the history grows.                                                  *)

\* Node i stands in term t with a log, gives its vote, counts one.
Stood(h, i, t, log) == [h EXCEPT !.vote[t][i] = i, !.clog[t][i] = log, !.counted[t][i] = {i}]
Gave(h, i, t, c) == [h EXCEPT !.vote[t][i] = c]
Heard(h, i, t, j) == [h EXCEPT !.counted[t][i] = @ \cup {j}]

\* It leads term t with a log, or takes over the leader's first k entries.
Led(h, i, t, log) == [h EXCEPT !.ldr[t] = i, !.llog[t] = log, !.acc[t][i] = Len(log)]
Took(h, i, t, k) == [h EXCEPT !.acc[t][i] = k]

\* A two-place function changed at one place.
LEMMA ChangedAt ==
  ASSUME NEW S, NEW f \in [Nat -> [Server -> S]], NEW t \in Nat, NEW i \in Server, NEW x \in S
  PROVE  LET g == [f EXCEPT ![t][i] = x]
         IN  /\ g \in [Nat -> [Server -> S]]
             /\ \A u \in Nat, v \in Server : g[u][v] = IF u = t /\ v = i THEN x ELSE f[u][v]
<1> DEFINE row == [f[t] EXCEPT ![i] = x]
           g == [f EXCEPT ![t] = row]
<1>1. f[t] \in [Server -> S]
  OBVIOUS
<1>2. row \in [Server -> S] /\ \A v \in Server : row[v] = IF v = i THEN x ELSE f[t][v]
  BY <1>1
<1>3. [f EXCEPT ![t][i] = x] = g
  OBVIOUS
<1> HIDE DEF row
<1>4. g \in [Nat -> [Server -> S]] /\ \A u \in Nat : g[u] = IF u = t THEN row ELSE f[u]
  BY <1>2
<1> QED  BY <1>2, <1>3, <1>4

\* The history of a node that stands.
StoodAs(h, i, t, log, g) ==
  /\ g \in History
  /\ g.ldr = h.ldr /\ g.llog = h.llog /\ g.acc = h.acc
  /\ \A u \in Nat, v \in Server :
       /\ g.vote[u][v] = IF u = t /\ v = i THEN i ELSE h.vote[u][v]
       /\ g.clog[u][v] = IF u = t /\ v = i THEN log ELSE h.clog[u][v]
       /\ g.counted[u][v] = IF u = t /\ v = i THEN {i} ELSE h.counted[u][v]

\* It is one.
LEMMA StoodFields ==
  ASSUME NEW h \in History, NEW i \in Server, NEW t \in Nat, NEW log \in Seq(LogEntry),
         NEW g, g = Stood(h, i, t, log)
  PROVE  StoodAs(h, i, t, log, g)
<1> DEFINE a == [h.vote EXCEPT ![t][i] = i]
           b == [h.clog EXCEPT ![t][i] = log]
           own == {i}
           c == [h.counted EXCEPT ![t][i] = own]
<1>1. g = [h EXCEPT !.vote = a, !.clog = b, !.counted = c]
  BY DEF Stood, History
<1>2. /\ a \in [Nat -> [Server -> Server \cup {Nil}]]
      /\ \A u \in Nat, v \in Server : a[u][v] = IF u = t /\ v = i THEN i ELSE h.vote[u][v]
  BY HistoryTypes, ChangedAt
<1>3. /\ b \in [Nat -> [Server -> Seq(LogEntry)]]
      /\ \A u \in Nat, v \in Server : b[u][v] = IF u = t /\ v = i THEN log ELSE h.clog[u][v]
  <2> DEFINE S == Seq(LogEntry)
           f == h.clog
           x == log
  <2>1. f \in [Nat -> [Server -> S]] /\ x \in S
    BY HistoryTypes
  <2> HIDE DEF S, f, x
  <2>2. LET d == [f EXCEPT ![t][i] = x]
       IN  /\ d \in [Nat -> [Server -> S]]
           /\ \A u \in Nat, v \in Server : d[u][v] = IF u = t /\ v = i THEN x ELSE f[u][v]
    BY <2>1, ChangedAt
  <2> QED  BY <2>2 DEF S, f, x
<1>4. /\ c \in [Nat -> [Server -> SUBSET Server]]
      /\ \A u \in Nat, v \in Server : c[u][v] = IF u = t /\ v = i THEN own ELSE h.counted[u][v]
  <2>1. own \in SUBSET Server
    OBVIOUS
  <2> HIDE DEF own
  <2> QED  BY <2>1, HistoryTypes, ChangedAt
<1> HIDE DEF a, b, c
<1>5. /\ g \in History /\ g.vote = a /\ g.clog = b /\ g.counted = c
      /\ g.ldr = h.ldr /\ g.llog = h.llog /\ g.acc = h.acc
  BY <1>1, <1>2, <1>3, <1>4, ZenonT(30) DEF History
<1> QED  BY <1>2, <1>3, <1>4, <1>5, ZenonT(30) DEF StoodAs

\* The history of a node that votes.
GaveAs(h, i, t, c, g) ==
  /\ g \in History
  /\ g.ldr = h.ldr /\ g.llog = h.llog /\ g.acc = h.acc
  /\ g.clog = h.clog /\ g.counted = h.counted
  /\ \A u \in Nat, v \in Server :
       g.vote[u][v] = IF u = t /\ v = i THEN c ELSE h.vote[u][v]

\* It is one.
LEMMA GaveFields ==
  ASSUME NEW h \in History, NEW i \in Server, NEW t \in Nat, NEW c \in Server,
         NEW g, g = Gave(h, i, t, c)
  PROVE  GaveAs(h, i, t, c, g)
<1> DEFINE a == [h.vote EXCEPT ![t][i] = c]
<1>1. g = [h EXCEPT !.vote = a]
  BY DEF Gave, History
<1>2. /\ a \in [Nat -> [Server -> Server \cup {Nil}]]
      /\ \A u \in Nat, v \in Server : a[u][v] = IF u = t /\ v = i THEN c ELSE h.vote[u][v]
  BY HistoryTypes, ChangedAt
<1> HIDE DEF a
<1>3. /\ g \in History /\ g.vote = a /\ g.ldr = h.ldr /\ g.llog = h.llog /\ g.acc = h.acc
      /\ g.clog = h.clog /\ g.counted = h.counted
  BY <1>1, <1>2 DEF History
<1> QED  BY <1>2, <1>3 DEF GaveAs

\* The history of a candidate that counts a vote.
HeardAs(h, i, t, j, g) ==
  /\ g \in History
  /\ g.ldr = h.ldr /\ g.llog = h.llog /\ g.acc = h.acc
  /\ g.clog = h.clog /\ g.vote = h.vote
  /\ \A u \in Nat, v \in Server :
       g.counted[u][v] = IF u = t /\ v = i THEN h.counted[t][i] \cup {j}
                         ELSE h.counted[u][v]

\* It is one.
LEMMA HeardFields ==
  ASSUME NEW h \in History, NEW i \in Server, NEW t \in Nat, NEW j \in Server,
         NEW g, g = Heard(h, i, t, j)
  PROVE  HeardAs(h, i, t, j, g)
<1> DEFINE x == h.counted[t][i] \cup {j}
           a == [h.counted EXCEPT ![t][i] = x]
<1>1. g = [h EXCEPT !.counted = a]
  BY DEF Heard, History
<1>2. x \in SUBSET Server
  BY HistoryFields
<1> HIDE DEF x
<1>3. /\ a \in [Nat -> [Server -> SUBSET Server]]
      /\ \A u \in Nat, v \in Server : a[u][v] = IF u = t /\ v = i THEN x ELSE h.counted[u][v]
  BY <1>2, HistoryTypes, ChangedAt
<1> HIDE DEF a
<1>4. /\ g \in History /\ g.counted = a /\ g.ldr = h.ldr /\ g.llog = h.llog /\ g.acc = h.acc
      /\ g.clog = h.clog /\ g.vote = h.vote
  BY <1>1, <1>3 DEF History
<1> QED  BY <1>3, <1>4 DEF x, HeardAs

\* The history of a leader's log.
LedAs(h, i, t, log, g) ==
  /\ g \in History
  /\ g.vote = h.vote /\ g.clog = h.clog /\ g.counted = h.counted
  /\ \A u \in Nat : /\ g.ldr[u] = IF u = t THEN i ELSE h.ldr[u]
                    /\ g.llog[u] = IF u = t THEN log ELSE h.llog[u]
  /\ \A u \in Nat, v \in Server :
       g.acc[u][v] = IF u = t /\ v = i THEN Len(log) ELSE h.acc[u][v]

\* It is one.
LEMMA LedFields ==
  ASSUME NEW h \in History, NEW i \in Server, NEW t \in Nat, NEW log \in Seq(LogEntry),
         NEW g, g = Led(h, i, t, log)
  PROVE  LedAs(h, i, t, log, g)
<1> DEFINE a == [h.ldr EXCEPT ![t] = i]
           b == [h.llog EXCEPT ![t] = log]
           c == [h.acc EXCEPT ![t][i] = Len(log)]
<1>1. g = [h EXCEPT !.ldr = a, !.llog = b, !.acc = c]
  BY DEF Led, History
<1>2. /\ a \in [Nat -> Server \cup {Nil}]
      /\ \A u \in Nat : a[u] = IF u = t THEN i ELSE h.ldr[u]
  <2>1. h.ldr \in [Nat -> Server \cup {Nil}]
    BY DEF History
  <2> QED  BY <2>1
<1>3. /\ b \in [Nat -> Seq(LogEntry)]
      /\ \A u \in Nat : b[u] = IF u = t THEN log ELSE h.llog[u]
  <2>1. h.llog \in [Nat -> Seq(LogEntry)]
    BY DEF History
  <2> QED  BY <2>1
<1>4. /\ c \in [Nat -> [Server -> Nat]]
      /\ \A u \in Nat, v \in Server : c[u][v] = IF u = t /\ v = i THEN Len(log) ELSE h.acc[u][v]
  <2> DEFINE S == Nat
           f == h.acc
           x == Len(log)
  <2>1. f \in [Nat -> [Server -> S]] /\ x \in S
    <3>1. Len(log) \in Nat
      OBVIOUS
    <3>2. h.acc \in [Nat -> [Server -> Nat]]
      BY HistoryTypes
    <3> QED  BY <3>1, <3>2
  <2> HIDE DEF S, f, x
  <2>2. LET d == [f EXCEPT ![t][i] = x]
       IN  /\ d \in [Nat -> [Server -> S]]
           /\ \A u \in Nat, v \in Server : d[u][v] = IF u = t /\ v = i THEN x ELSE f[u][v]
    BY <2>1, ChangedAt
  <2> QED  BY <2>2 DEF S, f, x
<1> HIDE DEF a, b, c
<1>5. /\ g \in History /\ g.ldr = a /\ g.llog = b /\ g.acc = c
      /\ g.vote = h.vote /\ g.clog = h.clog /\ g.counted = h.counted
  BY <1>1, <1>2, <1>3, <1>4 DEF History
<1> QED  BY <1>2, <1>3, <1>4, <1>5 DEF LedAs

\* The history of a node that takes over entries.
TookAs(h, i, t, k, g) ==
  /\ g \in History
  /\ g.vote = h.vote /\ g.clog = h.clog /\ g.counted = h.counted
  /\ g.ldr = h.ldr /\ g.llog = h.llog
  /\ \A u \in Nat, v \in Server :
       g.acc[u][v] = IF u = t /\ v = i THEN k ELSE h.acc[u][v]

\* It is one.
LEMMA TookFields ==
  ASSUME NEW h \in History, NEW i \in Server, NEW t \in Nat, NEW k \in Nat,
         NEW g, g = Took(h, i, t, k)
  PROVE  TookAs(h, i, t, k, g)
<1> DEFINE c == [h.acc EXCEPT ![t][i] = k]
<1>1. g = [h EXCEPT !.acc = c]
  BY DEF Took, History
<1>2. /\ c \in [Nat -> [Server -> Nat]]
      /\ \A u \in Nat, v \in Server : c[u][v] = IF u = t /\ v = i THEN k ELSE h.acc[u][v]
  <2> DEFINE S == Nat
           f == h.acc
           x == k
  <2>1. f \in [Nat -> [Server -> S]] /\ x \in S
    BY HistoryTypes
  <2> HIDE DEF S, f, x
  <2>2. LET d == [f EXCEPT ![t][i] = x]
       IN  /\ d \in [Nat -> [Server -> S]]
           /\ \A u \in Nat, v \in Server : d[u][v] = IF u = t /\ v = i THEN x ELSE f[u][v]
    BY <2>1, ChangedAt
  <2> QED  BY <2>2 DEF S, f, x
<1> HIDE DEF c
<1>3. /\ g \in History /\ g.acc = c /\ g.ldr = h.ldr /\ g.llog = h.llog
      /\ g.vote = h.vote /\ g.clog = h.clog /\ g.counted = h.counted
  BY <1>1, <1>2 DEF History
<1> QED  BY <1>2, <1>3 DEF TookAs

-----------------------------------------------------------------------------
(* A node adopts a later term, stands, votes, counts a vote, follows.      *)

\* One node changes.
LEMMA OneChanged ==
  ASSUME NEW ns \in [Server -> RaftNode], NEW i \in Server, NEW n \in RaftNode
  PROVE  LET ms == [ns EXCEPT ![i] = n]
         IN  /\ ms \in [Server -> RaftNode]
             /\ \A q \in Server : ms[q] = IF q = i THEN n ELSE ns[q]
OBVIOUS

\* Two states of a node with the same log, of which the same is applied.
SameStore(n, m) == /\ m.log = n.log /\ m.kv = n.kv
                   /\ m.commit_index = n.commit_index
                   /\ m.last_applied = n.last_applied

\* When one node changes and its log does not, the logs are as they were.
LEMMA SameLogsOne ==
  ASSUME NEW h \in History, NEW g \in History, Grows(h, g),
         g.ldr = h.ldr, g.llog = h.llog, g.acc = h.acc,
         NEW ns \in [Server -> RaftNode], NEW i \in Server, NEW n \in RaftNode,
         n.log = ns[i].log, ns[i].current_term <= n.current_term
  PROVE  SameLogs(h, ns, g, [ns EXCEPT ![i] = n])
<1>1. \A q \in Server : ns[q].current_term <= ns[q].current_term
  BY NodeFields
<1> QED  BY <1>1, OneChanged DEF SameLogs

\* A later term than the node's is adopted, with no vote.
LEMMA RaiseKeeps ==
  ASSUME NEW h, NEW ns \in [Server -> RaftNode], Explains(h, ns),
         NEW i \in Server, NEW n \in RaftNode,
         ns[i].current_term < n.current_term, n.role = "Follower", n.voted_for = Nil,
         SameStore(ns[i], n)
  PROVE  Explains(h, [ns EXCEPT ![i] = n])
<1> DEFINE ms == [ns EXCEPT ![i] = n]
<1>1. h \in History /\ Grows(h, h)
  BY GrowsRefl DEF Explains
<1>2. ms \in [Server -> RaftNode] /\ \A q \in Server : ms[q] = IF q = i THEN n ELSE ns[q]
  BY OneChanged
<1>3. ns[i].current_term \in Nat /\ n.current_term \in Nat
  BY NodeFields
<1>4. SameLogs(h, ns, h, ms)
  <2>1. n.log = ns[i].log /\ ns[i].current_term <= n.current_term
    BY <1>3 DEF SameStore
  <2> QED  BY <1>1, <2>1, SameLogsOne
<1> HIDE DEF ms
<1>5. ASSUME NEW t \in Nat, NEW v \in Server PROVE VoteOk(h, ms, t, v)
  <2>1. VoteOk(h, ns, t, v)
    BY DEF Explains
  <2>2. ms[v].current_term = t => h.vote[t][v] = ms[v].voted_for
    BY <1>2, <1>3, <2>1 DEF VoteOk
  <2>3. \A w \in h.counted[t][v] : h.vote[t][w] = v
    BY <2>1 DEF VoteOk
  <2> QED  BY <1>1, <1>2, <1>4, <2>2, <2>3, VoteKept
<1>6. ASSUME NEW t \in Nat PROVE LeaderOk(h, ms, t)
  <2>1. ASSUME h.ldr[t] # Nil, ms[h.ldr[t]].current_term = t
        PROVE  ms[h.ldr[t]].role = "Leader"
    <3>1. LeaderOk(h, ns, t) /\ VoteOk(h, ns, t, i) /\ h.ldr[t] \in Server
      BY <1>1, <2>1, HistoryFields DEF Explains
    <3>2. h.ldr[t] # i
      BY <1>2, <1>3, <2>1, <3>1 DEF LeaderOk, VoteOk
    <3> QED  BY <1>2, <2>1, <3>1, <3>2 DEF LeaderOk
  <2> QED  BY <1>1, <1>2, <1>4, <2>1, LeaderKept
<1>7. ASSUME NEW j \in Server PROVE NodeOk(h, ms, j)
  <2>1. NodeOk(h, ns, j) /\ ns[j] \in RaftNode
    BY DEF Explains
  <2>2. ns[j].current_term <= ms[j].current_term /\ ms[j] \in RaftNode /\ SameStore(ns[j], ms[j])
    <3>1. CASE j = i
      BY <1>2, <1>3, <3>1
    <3>2. CASE j # i
      BY <1>2, <2>1, <3>2, NodeFields DEF SameStore
    <3> QED  BY <3>1, <3>2
  <2>3. AppliedOk(h, ms[j])
    BY <1>1, <2>1, <2>2, AppliedKept DEF NodeOk, SameStore
  <2>4. OfficeOk(h, j, ms[j])
    <3>1. CASE j = i
      BY <1>2, <3>1 DEF OfficeOk
    <3>2. CASE j # i
      BY <1>1, <1>2, <1>4, <3>2, OfficeKept
    <3> QED  BY <3>1, <3>2
  <2> QED  BY <1>1, <1>2, <1>4, <2>3, <2>4, NodeKept
<1> QED  BY <1>1, <1>5, <1>6, <1>7 DEF Explains, ms

\* A node that has not voted in its term stands in it: its vote is its own.
LEMMA StandKeeps ==
  ASSUME NEW h, NEW ns \in [Server -> RaftNode], Explains(h, ns),
         NEW i \in Server, NEW n \in RaftNode,
         ns[i].voted_for = Nil, TermsBelow(ns[i].log, ns[i].current_term),
         n.current_term = ns[i].current_term, n.role = "Candidate", n.voted_for = i,
         n.votes_received = 1, SameStore(ns[i], n)
  PROVE  /\ Explains(Stood(h, i, n.current_term, n.log), [ns EXCEPT ![i] = n])
         /\ Grows(h, Stood(h, i, n.current_term, n.log))
         /\ h.vote[n.current_term][i] = Nil
<1> DEFINE ms == [ns EXCEPT ![i] = n]
           t == n.current_term
           s == n.log
           g == Stood(h, i, t, s)
<1>1. h \in History /\ t \in Nat /\ ns[i].current_term = t /\ s \in Seq(LogEntry) /\ ns[i].log = s
  BY NodeFields DEF Explains, SameStore
<1>2. ms \in [Server -> RaftNode] /\ \A q \in Server : ms[q] = IF q = i THEN n ELSE ns[q]
  BY OneChanged
<1> HIDE DEF ms, t, s, g
<1>3. /\ g \in History
      /\ g.ldr = h.ldr /\ g.llog = h.llog /\ g.acc = h.acc
      /\ \A u \in Nat, v \in Server :
           /\ g.vote[u][v] = IF u = t /\ v = i THEN i ELSE h.vote[u][v]
           /\ g.clog[u][v] = IF u = t /\ v = i THEN s ELSE h.clog[u][v]
           /\ g.counted[u][v] = IF u = t /\ v = i THEN {i} ELSE h.counted[u][v]
  <2>1. g = Stood(h, i, t, s)
    BY DEF g
  <2>2. StoodAs(h, i, t, s, g)
    BY <1>1, <2>1, StoodFields
  <2> QED  BY <2>2 DEF StoodAs
<1>4. h.vote[t][i] = Nil /\ i # Nil
  BY <1>1, StoreNodeAssumption DEF Explains, VoteOk
<1>5. Grows(h, g)
  <2>1. \A u \in Nat : h.llog[u] \in Seq(LogEntry) /\ \A v \in Server : h.acc[u][v] \in Nat
    BY <1>1, HistoryFields
  <2> QED  BY <1>3, <1>4, <2>1 DEF Grows, Same
<1>6. SameLogs(h, ns, g, ms)
  <2>1. ns[i].current_term <= n.current_term /\ n.log = ns[i].log
    BY <1>1 DEF t, s
  <2> QED  BY <1>1, <1>3, <1>5, <2>1, SameLogsOne DEF ms
<1>7. ASSUME NEW u \in Nat, NEW v \in Server PROVE VoteOk(g, ms, u, v)
  <2>1. VoteOk(h, ns, u, v)
    BY DEF Explains
  <2>2. CASE u = t /\ v = i
    <3>1. g.vote[t][i] = i /\ g.clog[t][i] = s /\ g.counted[t][i] = {i}
      BY <1>1, <1>3
    <3>2. Owned(h, s) /\ Carries(h, ns, s, i, t + 1)
      BY <1>1 DEF Explains, NodeOk
    <3>3. Carries(h, ns, s, i, t)
      <4>1. \A w \in Nat : w < t => w < t + 1
        BY <1>1
      <4> QED  BY <3>2, <4>1 DEF Carries
    <3>4. Owned(g, s) /\ Carries(g, ms, s, i, t)
      BY <1>1, <1>2, <1>3, <1>5, <1>6, <3>2, <3>3, OwnedKept, SameLogsCarry
    <3>5. TermsBelow(s, t)
      BY <1>1
    <3>6. ms[i].current_term = t /\ ms[i].voted_for = i /\ ~(t < t)
      BY <1>1, <1>2 DEF t
    <3> QED  BY <2>2, <3>1, <3>4, <3>5, <3>6 DEF VoteOk
  <2>3. CASE ~(u = t /\ v = i)
    <3>1. g.vote[u][v] = h.vote[u][v] /\ g.counted[u][v] = h.counted[u][v]
      BY <1>3, <2>3
    <3>2. ms[v].current_term = u => g.vote[u][v] = ms[v].voted_for
      BY <1>1, <1>2, <2>1, <2>3, <3>1 DEF VoteOk, t
    <3>3. \A w \in g.counted[u][v] : g.vote[u][w] = v
      <4> SUFFICES ASSUME NEW w \in h.counted[u][v] PROVE g.vote[u][w] = v
        BY <3>1
      <4>1. h.vote[u][w] = v /\ w \in Server /\ v # Nil
        BY <1>1, <2>1, HistoryFields, StoreNodeAssumption DEF VoteOk
      <4> QED  BY <1>5, <4>1 DEF Grows
    <3> QED  BY <1>2, <1>3, <1>6, <3>1, <3>2, <3>3, VoteKept
  <2> QED  BY <2>2, <2>3
<1>8. ASSUME NEW u \in Nat PROVE LeaderOk(g, ms, u)
  <2>1. ASSUME h.ldr[u] # Nil
        PROVE  /\ g.counted[u][h.ldr[u]] = h.counted[u][h.ldr[u]]
               /\ ms[h.ldr[u]].current_term = u => ms[h.ldr[u]].role = "Leader"
    <3>1. LeaderOk(h, ns, u) /\ h.ldr[u] \in Server
      BY <1>1, <2>1, HistoryFields DEF Explains
    <3>2. ~(u = t /\ h.ldr[u] = i)
      BY <1>4, <2>1, <3>1 DEF LeaderOk
    <3>3. g.counted[u][h.ldr[u]] = h.counted[u][h.ldr[u]]
      BY <1>3, <3>1, <3>2
    <3>4. ms[h.ldr[u]].current_term = u => h.ldr[u] # i
      BY <1>2, <3>2 DEF t
    <3> QED  BY <1>2, <2>1, <3>1, <3>3, <3>4 DEF LeaderOk
  <2> QED  BY <1>2, <1>3, <1>6, <2>1, LeaderKept
<1>9. ASSUME NEW j \in Server PROVE NodeOk(g, ms, j)
  <2>1. NodeOk(h, ns, j) /\ ns[j] \in RaftNode
    BY DEF Explains
  <2>2. ns[j].current_term <= ms[j].current_term /\ ms[j] \in RaftNode /\ SameStore(ns[j], ms[j])
    <3>1. CASE j = i
      BY <1>1, <1>2, <3>1 DEF t
    <3>2. CASE j # i
      BY <1>2, <2>1, <3>2, NodeFields DEF SameStore
    <3> QED  BY <3>1, <3>2
  <2>3. AppliedOk(g, ms[j])
    BY <1>1, <1>3, <1>5, <2>1, <2>2, AppliedKept DEF NodeOk, SameStore
  <2>4. OfficeOk(g, j, ms[j])
    <3>1. CASE j = i
      <4>1. g.counted[t][i] = {i} /\ g.clog[t][i] = s /\ Cardinality({i}) = 1
        BY <1>1, <1>3, FS_Singleton
      <4> QED  BY <1>2, <3>1, <4>1 DEF OfficeOk, t, s
    <3>2. CASE j # i
      <4>1. g.counted[ns[j].current_term][j] = h.counted[ns[j].current_term][j]
        BY <1>3, <3>2, NodeFields
      <4> QED  BY <1>2, <1>3, <1>6, <3>2, <4>1, OfficeKept
    <3> QED  BY <3>1, <3>2
  <2> QED  BY <1>2, <1>3, <1>6, <2>3, <2>4, NodeKept
<1> QED  BY <1>3, <1>4, <1>5, <1>7, <1>8, <1>9 DEF Explains, ms, g, t, s

\* The term a log ends in is the greatest in it.
LEMMA LastTermIsGreatest ==
  ASSUME NEW h, NEW ns \in [Server -> RaftNode], Explains(h, ns),
         NEW s \in Seq(LogEntry), Owned(h, s), NEW k \in 1..Len(s)
  PROVE  /\ Len(s) \in 1..Len(s) /\ LastTerm(s) = s[Len(s)].term
         /\ s[k].term \in Nat /\ LastTerm(s) \in Nat /\ s[k].term <= LastTerm(s)
<1>1. Len(s) \in 1..Len(s) /\ k \in 1..Len(s) /\ s # <<>>
  OBVIOUS
<1>2. h \in History /\ \A t \in Nat : h.ldr[t] # Nil => TermsBelow(h.llog[t], t + 1)
  BY DEF Explains, LeaderOk
<1>3. s[k].term <= s[Len(s)].term
  BY <1>1, <1>2, TermsGrow
<1>4. s[k].term \in Nat /\ s[Len(s)].term \in Nat
  BY <1>1, <1>2, OwnedEntry
<1> QED  BY <1>1, <1>3, <1>4 DEF LastTerm

\* A log at least as recent as that of the voter carries what the voter took
\* over and may still be chosen: the entry is in the voter's log, so the other
\* ends in its term, not shorter, or in a later one, whose leader was complete.
LEMMA RecentCarries ==
  ASSUME NEW h, NEW ns \in [Server -> RaftNode], Explains(h, ns),
         NEW i \in Server, NEW t \in Nat, t = ns[i].current_term,
         NEW s \in Seq(LogEntry), Owned(h, s), TermsBelow(s, t),
         \/ LastTerm(s) > LastTerm(ns[i].log)
         \/ LastTerm(s) = LastTerm(ns[i].log) /\ Len(s) >= Len(ns[i].log)
  PROVE  Carries(h, ns, s, i, t)
<1> SUFFICES ASSUME NEW u \in Nat, NEW k \in Nat, u < t,
                    Choosable(h, ns, u, k), h.acc[u][i] >= k
             PROVE  Same(s, h.llog[u], k)
  BY DEF Carries
<1> DEFINE r == ns[i].log
           l == h.llog[u]
           w == LastTerm(s)
<1>1. /\ h \in History /\ r \in Seq(LogEntry) /\ l \in Seq(LogEntry)
      /\ Owned(h, r) /\ Same(r, l, k)
  <2>1. h \in History /\ NodeOk(h, ns, i) /\ u < t + 1
    BY DEF Explains
  <2> QED  BY <2>1, NodeFields, HistoryFields DEF NodeOk, Carries
<1>2. k \in 1..Len(l) /\ l[k].term = u /\ h.ldr[u] # Nil /\ Len(l) \in Nat
  BY <1>1 DEF Choosable, Proposed
<1>3. k \in 1..Len(r) /\ r[k].term = u /\ k <= Len(r) /\ Len(r) \in Nat
  BY <1>1, <1>2 DEF Same
<1>4. u <= LastTerm(r) /\ LastTerm(r) \in Nat
  BY <1>1, <1>3, LastTermIsGreatest
<1>5. s # <<>>
  <2>1. s = <<>> => LastTerm(s) = 0 /\ Len(s) = 0
    BY DEF LastTerm
  <2> QED  BY <1>3, <1>4, <2>1
<1>6. Len(s) \in 1..Len(s) /\ Len(s) \in Nat
  BY <1>5
<1>7. w = s[Len(s)].term /\ w \in Nat
  BY <1>6, LastTermIsGreatest
<1>8. w < t /\ h.ldr[w] # Nil /\ Same(s, h.llog[w], Len(s)) /\ h.llog[w] \in Seq(LogEntry)
  <2>1. s[Len(s)].term < t
    BY <1>6 DEF TermsBelow
  <2>2. h.ldr[s[Len(s)].term] # Nil /\ Same(s, h.llog[s[Len(s)].term], Len(s))
    BY <1>1, <1>6, OwnedEntry
  <2> HIDE DEF w
  <2> QED  BY <1>1, <1>7, <2>1, <2>2, HistoryFields
<1> HIDE DEF r, l, w
<1>9. CASE w = u
  <2>1. Len(s) >= Len(r)
    BY <1>4, <1>7, <1>9 DEF r, w
  <2>2. k <= Len(s)
    BY <1>3, <1>6, <2>1
  <2>3. Same(s, l, Len(s))
    BY <1>8, <1>9 DEF l
  <2>4. Same(s, l, k)
    BY <1>1, <1>6, <2>2, <2>3, SameShorter
  <2> QED  BY <2>4 DEF l
<1>10. CASE w > u
  <2>1. Same(h.llog[w], l, k)
    BY <1>7, <1>8, <1>10 DEF Explains, LeaderOk, Complete, l
  <2>2. TermsBelow(l, u + 1)
    BY <1>2 DEF Explains, LeaderOk, l
  <2>3. k <= Len(s)
    <3> SUFFICES ASSUME Len(s) < k PROVE FALSE
      BY <1>6
    <3>1. s[Len(s)] = h.llog[w][Len(s)] /\ Len(s) \in 1..k /\ Len(s) \in 1..Len(l)
      BY <1>2, <1>6, <1>8 DEF Same
    <3>2. h.llog[w][Len(s)] = l[Len(s)]
      BY <2>1, <3>1 DEF Same
    <3>3. w < u + 1
      BY <1>7, <2>2, <3>1, <3>2 DEF TermsBelow
    <3> QED  BY <1>7, <1>10, <3>3
  <2>4. Same(s, h.llog[w], k)
    BY <1>6, <1>8, <2>3, SameShorter
  <2>5. Same(s, l, k)
    BY <1>1, <1>8, <2>1, <2>4, SameTrans
  <2> QED  BY <2>5 DEF l
<1>11. w >= u
  BY <1>4, <1>7 DEF r, w
<1> QED  BY <1>7, <1>9, <1>10, <1>11

\* A node gives the vote it has to a candidate of its term with a recent log.
LEMMA GrantKeeps ==
  ASSUME NEW h, NEW ns \in [Server -> RaftNode], Explains(h, ns),
         NEW i \in Server, NEW c \in Server, c # i, NEW n \in RaftNode,
         ns[i].voted_for = Nil,
         h.vote[ns[i].current_term][c] = c,
         NEW s, s = h.clog[ns[i].current_term][c],
         \/ LastTerm(s) > LastTerm(ns[i].log)
         \/ LastTerm(s) = LastTerm(ns[i].log) /\ Len(s) >= Len(ns[i].log),
         n.current_term = ns[i].current_term, n.voted_for = c, n.role = ns[i].role,
         SameStore(ns[i], n), NEW g, g = Gave(h, i, n.current_term, c)
  PROVE  /\ Explains(g, [ns EXCEPT ![i] = n]) /\ Grows(h, g)
         /\ h.vote[n.current_term][i] = Nil /\ GaveAs(h, i, n.current_term, c, g)
<1> DEFINE ms == [ns EXCEPT ![i] = n]
           t == n.current_term
<1>1. h \in History /\ t \in Nat /\ ns[i].current_term = t /\ n.log = ns[i].log
  BY NodeFields DEF Explains, SameStore
<1>2. ms \in [Server -> RaftNode] /\ \A q \in Server : ms[q] = IF q = i THEN n ELSE ns[q]
  BY OneChanged
<1> HIDE DEF ms
<1>3. GaveAs(h, i, t, c, g)
  BY <1>1, GaveFields
<1> HIDE DEF t
<1>4. /\ g \in History
      /\ g.ldr = h.ldr /\ g.llog = h.llog /\ g.acc = h.acc
      /\ g.clog = h.clog /\ g.counted = h.counted
      /\ \A u \in Nat, v \in Server :
           g.vote[u][v] = IF u = t /\ v = i THEN c ELSE h.vote[u][v]
  BY <1>3 DEF GaveAs
<1>5. h.vote[t][i] = Nil /\ i # Nil /\ c # Nil
  BY <1>1, StoreNodeAssumption DEF Explains, VoteOk
<1>6. ns[i].role = "Follower"
  BY <1>5 DEF Explains, NodeOk, OfficeOk
<1>7. Grows(h, g)
  <2>1. \A u \in Nat : h.llog[u] \in Seq(LogEntry) /\ \A v \in Server : h.acc[u][v] \in Nat
    BY <1>1, HistoryFields
  <2> QED  BY <1>4, <1>5, <2>1, SMTT(30) DEF Grows, Same
<1>8. SameLogs(h, ns, g, ms)
  <2>1. ns[i].current_term <= n.current_term /\ n.log = ns[i].log
    BY <1>1 DEF t
  <2> QED  BY <1>1, <1>4, <1>7, <2>1, SameLogsOne DEF ms
<1>9. ASSUME NEW u \in Nat, NEW v \in Server PROVE VoteOk(g, ms, u, v)
  <2>1. VoteOk(h, ns, u, v)
    BY DEF Explains
  <2>2. \A w \in g.counted[u][v] : g.vote[u][w] = v
    <3> SUFFICES ASSUME NEW w \in h.counted[u][v] PROVE g.vote[u][w] = v
      BY <1>4
    <3>1. h.vote[u][w] = v /\ w \in Server /\ v # Nil
      BY <1>1, <2>1, HistoryFields, StoreNodeAssumption DEF VoteOk
    <3> QED  BY <1>7, <3>1 DEF Grows
  <2>3. CASE u = t /\ v = i
    <3>1. VoteOk(h, ns, t, c) /\ h.vote[t][c] = c /\ s = h.clog[t][c]
      BY <1>1 DEF Explains
    <3>2. Owned(h, s) /\ TermsBelow(s, t) /\ s \in Seq(LogEntry)
      BY <1>1, <1>5, <3>1, HistoryFields DEF VoteOk
    <3>3. Carries(h, ns, s, i, t)
      BY <1>1, <3>2, RecentCarries
    <3>4. Owned(g, s) /\ Carries(g, ms, s, i, t)
      BY <1>1, <1>2, <1>4, <1>7, <1>8, <3>2, <3>3, OwnedKept, SameLogsCarry
    <3>5. g.vote[t][i] = c /\ g.vote[t][c] = c /\ g.clog[t][c] = s
      BY <1>1, <1>4, <3>1
    <3>6. ms[i].current_term = t /\ ms[i].voted_for = c /\ ~(t < t)
      BY <1>1, <1>2 DEF t
    <3> QED  BY <2>2, <2>3, <3>2, <3>4, <3>5, <3>6 DEF VoteOk
  <2>4. CASE ~(u = t /\ v = i)
    <3>1. g.vote[u][v] = h.vote[u][v]
      BY <1>4, <2>4
    <3>2. ms[v].current_term = u => g.vote[u][v] = ms[v].voted_for
      BY <1>1, <1>2, <2>1, <2>4, <3>1 DEF VoteOk, t
    <3> QED  BY <1>2, <1>4, <1>8, <2>2, <3>1, <3>2, VoteKept, SMTT(30)
  <2> QED  BY <2>3, <2>4
<1>10. ASSUME NEW u \in Nat PROVE LeaderOk(g, ms, u)
  <2>1. ASSUME h.ldr[u] # Nil
        PROVE  /\ g.counted[u][h.ldr[u]] = h.counted[u][h.ldr[u]]
               /\ ms[h.ldr[u]].current_term = u => ms[h.ldr[u]].role = "Leader"
    <3>1. LeaderOk(h, ns, u) /\ h.ldr[u] \in Server
      BY <1>1, <2>1, HistoryFields DEF Explains
    <3> QED  BY <1>1, <1>2, <1>4, <2>1, <3>1, SMTT(30) DEF LeaderOk, t
  <2> QED  BY <1>2, <1>4, <1>8, <2>1, LeaderKept
<1>11. ASSUME NEW j \in Server PROVE NodeOk(g, ms, j)
  <2>1. NodeOk(h, ns, j) /\ ns[j] \in RaftNode
    BY DEF Explains
  <2>2. ns[j].current_term <= ms[j].current_term /\ ms[j] \in RaftNode /\ SameStore(ns[j], ms[j])
    <3>1. CASE j = i
      BY <1>1, <1>2, <3>1 DEF t
    <3>2. CASE j # i
      BY <1>2, <2>1, <3>2, NodeFields DEF SameStore
    <3> QED  BY <3>1, <3>2
  <2>3. AppliedOk(g, ms[j])
    BY <1>1, <1>4, <1>7, <2>1, <2>2, AppliedKept DEF NodeOk, SameStore
  <2>4. OfficeOk(g, j, ms[j])
    <3>1. CASE j = i
      BY <1>2, <1>6, <3>1 DEF OfficeOk
    <3>2. CASE j # i
      BY <1>2, <1>4, <1>8, <3>2, OfficeKept, ZenonT(30)
    <3> QED  BY <3>1, <3>2
  <2> QED  BY <1>2, <1>4, <1>8, <2>3, <2>4, NodeKept
<1> QED  BY <1>3, <1>4, <1>5, <1>7, <1>9, <1>10, <1>11 DEF Explains, ms, t

\* A candidate counts a vote it was given and has not counted.
LEMMA CountKeeps ==
  ASSUME NEW h, NEW ns \in [Server -> RaftNode], Explains(h, ns),
         NEW i \in Server, NEW j \in Server, NEW n \in RaftNode,
         ns[i].role = "Candidate",
         h.vote[ns[i].current_term][j] = i, j \notin h.counted[ns[i].current_term][i],
         n.current_term = ns[i].current_term, n.voted_for = ns[i].voted_for,
         n.role = "Candidate", n.votes_received = ns[i].votes_received + 1,
         SameStore(ns[i], n), NEW g, g = Heard(h, i, n.current_term, j)
  PROVE  /\ Explains(g, [ns EXCEPT ![i] = n]) /\ Grows(h, g)
         /\ HeardAs(h, i, n.current_term, j, g)
<1> DEFINE ms == [ns EXCEPT ![i] = n]
           t == n.current_term
<1>1. h \in History /\ t \in Nat /\ ns[i].current_term = t /\ n.log = ns[i].log
  BY NodeFields DEF Explains, SameStore
<1>2. ms \in [Server -> RaftNode] /\ \A q \in Server : ms[q] = IF q = i THEN n ELSE ns[q]
  BY OneChanged
<1> HIDE DEF ms
<1>3. HeardAs(h, i, t, j, g)
  BY <1>1, HeardFields
<1> HIDE DEF t
<1>4. /\ g \in History
      /\ g.ldr = h.ldr /\ g.llog = h.llog /\ g.acc = h.acc
      /\ g.clog = h.clog /\ g.vote = h.vote
      /\ \A u \in Nat, v \in Server :
           g.counted[u][v] = IF u = t /\ v = i THEN h.counted[t][i] \cup {j} ELSE h.counted[u][v]
  BY <1>3 DEF HeardAs
<1>5. Grows(h, g)
  <2>1. \A u \in Nat : h.llog[u] \in Seq(LogEntry) /\ \A v \in Server : h.acc[u][v] \in Nat
    BY <1>1, HistoryFields
  <2> QED  BY <1>4, <2>1 DEF Grows, Same
<1>6. SameLogs(h, ns, g, ms)
  <2>1. ns[i].current_term <= n.current_term /\ n.log = ns[i].log
    BY <1>1 DEF t
  <2> QED  BY <1>1, <1>4, <1>5, <2>1, SameLogsOne DEF ms
<1>7. ASSUME NEW u \in Nat, NEW v \in Server PROVE VoteOk(g, ms, u, v)
  <2>1. VoteOk(h, ns, u, v)
    BY DEF Explains
  <2>2. \A w \in g.counted[u][v] : g.vote[u][w] = v
    BY <1>1, <1>4, <2>1 DEF VoteOk, t
  <2>3. ms[v].current_term = u => g.vote[u][v] = ms[v].voted_for
    BY <1>1, <1>2, <1>4, <2>1 DEF VoteOk, t
  <2> QED  BY <1>2, <1>4, <1>6, <2>2, <2>3, VoteKept, ZenonT(30)
<1>8. ASSUME NEW u \in Nat PROVE LeaderOk(g, ms, u)
  <2>1. ASSUME h.ldr[u] # Nil
        PROVE  /\ g.counted[u][h.ldr[u]] = h.counted[u][h.ldr[u]]
               /\ ms[h.ldr[u]].current_term = u => ms[h.ldr[u]].role = "Leader"
    <3>1. LeaderOk(h, ns, u) /\ h.ldr[u] \in Server
      BY <1>1, <2>1, HistoryFields DEF Explains
    <3>2. ~(u = t /\ h.ldr[u] = i)
      BY <1>1, <2>1, <3>1 DEF LeaderOk
    <3>3. g.counted[u][h.ldr[u]] = h.counted[u][h.ldr[u]]
      BY <1>4, <3>1, <3>2
    <3>4. ms[h.ldr[u]].current_term = u => h.ldr[u] # i
      BY <1>2, <3>2 DEF t
    <3> QED  BY <1>2, <2>1, <3>1, <3>3, <3>4 DEF LeaderOk
  <2> QED  BY <1>2, <1>4, <1>6, <2>1, LeaderKept
<1>9. ASSUME NEW v \in Server PROVE NodeOk(g, ms, v)
  <2>1. NodeOk(h, ns, v) /\ ns[v] \in RaftNode
    BY DEF Explains
  <2>2. ns[v].current_term <= ms[v].current_term /\ ms[v] \in RaftNode /\ SameStore(ns[v], ms[v])
    <3>1. CASE v = i
      BY <1>1, <1>2, <3>1 DEF t
    <3>2. CASE v # i
      BY <1>2, <2>1, <3>2, NodeFields DEF SameStore
    <3> QED  BY <3>1, <3>2
  <2>3. AppliedOk(g, ms[v])
    BY <1>1, <1>4, <1>5, <2>1, <2>2, AppliedKept DEF NodeOk, SameStore
  <2>4. OfficeOk(g, v, ms[v])
    <3>1. CASE v = i
      <4> DEFINE S == h.counted[t][i]
      <4>1. OfficeOk(h, i, ns[i])
        BY DEF Explains, NodeOk
      <4>2. /\ ns[i].voted_for = i /\ ns[i].votes_received = Cardinality(S) /\ i \in S
            /\ ns[i].log = h.clog[t][i] /\ j \notin S
        BY <1>1, <4>1 DEF OfficeOk
      <4>3. IsFiniteSet(S)
        BY <1>1, HistoryFields, StoreNodeAssumption, FS_Subset
      <4>4. Cardinality(S \cup {j}) = Cardinality(S) + 1
        BY <4>2, <4>3, FS_AddElement
      <4>5. g.counted[t][i] = S \cup {j} /\ g.clog[t][i] = h.clog[t][i]
        BY <1>1, <1>4
      <4> HIDE DEF S
      <4>6. n.votes_received = Cardinality(g.counted[t][i]) /\ i \in g.counted[t][i]
        BY <4>2, <4>4, <4>5
      <4> QED  BY <1>1, <1>2, <3>1, <4>2, <4>5, <4>6 DEF OfficeOk, t
    <3>2. CASE v # i
      <4>1. g.counted[ns[v].current_term][v] = h.counted[ns[v].current_term][v]
        BY <1>4, <3>2, NodeFields
      <4> QED  BY <1>2, <1>4, <1>6, <3>2, <4>1, OfficeKept, SMTT(30)
    <3> QED  BY <3>1, <3>2
  <2> QED  BY <1>2, <1>4, <1>6, <2>3, <2>4, NodeKept
<1> QED  BY <1>3, <1>4, <1>5, <1>7, <1>8, <1>9 DEF Explains, ms, t

\* A node that changes neither its term, its vote nor its log, nor leaves the
\* lead of its term, stays explained if what it applied and knows is right.
LEMMA QuietKeeps ==
  ASSUME NEW h, NEW ns \in [Server -> RaftNode], Explains(h, ns),
         NEW i \in Server, NEW n \in RaftNode,
         n.current_term = ns[i].current_term, n.voted_for = ns[i].voted_for,
         n.log = ns[i].log,
         h.ldr[n.current_term] = i => n.role = "Leader",
         AppliedOk(h, n), OfficeOk(h, i, n)
  PROVE  Explains(h, [ns EXCEPT ![i] = n])
<1> DEFINE ms == [ns EXCEPT ![i] = n]
           t == n.current_term
<1>1. h \in History /\ t \in Nat /\ ns[i].current_term = t /\ Grows(h, h)
  BY NodeFields, GrowsRefl DEF Explains
<1>2. ms \in [Server -> RaftNode] /\ \A q \in Server : ms[q] = IF q = i THEN n ELSE ns[q]
  BY OneChanged
<1> HIDE DEF ms
<1>3. SameLogs(h, ns, h, ms)
  <2>1. ns[i].current_term <= n.current_term
    BY <1>1
  <2> QED  BY <1>1, <2>1, SameLogsOne DEF ms
<1>4. ASSUME NEW u \in Nat, NEW v \in Server PROVE VoteOk(h, ms, u, v)
  <2>1. VoteOk(h, ns, u, v)
    BY DEF Explains
  <2>2. \A w \in h.counted[u][v] : h.vote[u][w] = v
    BY <2>1 DEF VoteOk
  <2>3. ms[v].current_term = u => h.vote[u][v] = ms[v].voted_for
    BY <1>1, <1>2, <2>1 DEF VoteOk
  <2> QED  BY <1>1, <1>2, <1>3, <2>2, <2>3, VoteKept
<1>5. ASSUME NEW u \in Nat PROVE LeaderOk(h, ms, u)
  <2>1. ASSUME h.ldr[u] # Nil, ms[h.ldr[u]].current_term = u
        PROVE  ms[h.ldr[u]].role = "Leader"
    <3>1. LeaderOk(h, ns, u) /\ h.ldr[u] \in Server
      BY <1>1, <2>1, HistoryFields DEF Explains
    <3>2. CASE h.ldr[u] = i
      BY <1>2, <2>1, <3>2
    <3>3. CASE h.ldr[u] # i
      BY <1>2, <2>1, <3>1, <3>3 DEF LeaderOk
    <3> QED  BY <3>2, <3>3
  <2> QED  BY <1>1, <1>2, <1>3, <2>1, LeaderKept
<1>6. ASSUME NEW j \in Server PROVE NodeOk(h, ms, j)
  <2>1. CASE j = i
    BY <1>1, <1>2, <1>3, <2>1, NodeKept
  <2>2. CASE j # i
    <3>1. AppliedOk(h, ms[j])
      BY <1>2, <2>2 DEF Explains, NodeOk
    <3>2. OfficeOk(h, j, ms[j])
      BY <1>2, <2>2 DEF Explains, NodeOk
    <3> QED  BY <1>1, <1>2, <1>3, <3>1, <3>2, NodeKept
  <2> QED  BY <2>1, <2>2
<1> QED  BY <1>1, <1>4, <1>5, <1>6 DEF Explains, ms

-----------------------------------------------------------------------------
(* A candidate comes to lead.                                              *)

\* No vote is given, and no term adopted.
SameVotes(h, ns, g, ms) ==
  /\ Grows(h, g)
  /\ g.vote = h.vote /\ g.clog = h.clog /\ g.counted = h.counted
  /\ \A q \in Server : /\ ms[q].current_term = ns[q].current_term
                       /\ ms[q].voted_for = ns[q].voted_for

\* Then a vote stays good if what the voter took over is still carried.
LEMMA VoteKeptToo ==
  ASSUME NEW h, NEW g \in History,
         NEW ns \in [Server -> RaftNode], NEW ms \in [Server -> RaftNode],
         Explains(h, ns), SameVotes(h, ns, g, ms),
         NEW t \in Nat, NEW v \in Server,
         h.vote[t][v] # Nil =>
           LET s == h.clog[t][h.vote[t][v]]
           IN  Carries(h, ns, s, v, t) => Carries(g, ms, s, v, t)
  PROVE  VoteOk(g, ms, t, v)
<1> DEFINE c == h.vote[t][v]
<1>1. h \in History /\ VoteOk(h, ns, t, v) /\ c \in Server \cup {Nil}
  BY HistoryFields DEF Explains
<1>2. ASSUME c # Nil
      PROVE  /\ h.vote[t][c] = c /\ Owned(g, h.clog[t][c]) /\ TermsBelow(h.clog[t][c], t)
             /\ Carries(g, ms, h.clog[t][c], v, t)
  <2>1. /\ h.vote[t][c] = c /\ Owned(h, h.clog[t][c]) /\ TermsBelow(h.clog[t][c], t)
        /\ Carries(h, ns, h.clog[t][c], v, t) /\ h.clog[t][c] \in Seq(LogEntry)
    BY <1>1, <1>2, HistoryFields DEF VoteOk
  <2>2. Owned(g, h.clog[t][c])
    BY <1>1, <2>1, OwnedKept, ZenonT(30) DEF SameVotes
  <2> QED  BY <1>2, <2>1, <2>2
<1>3. g.vote = h.vote /\ g.clog = h.clog /\ g.counted = h.counted
      /\ ms[v].current_term = ns[v].current_term /\ ms[v].voted_for = ns[v].voted_for
  BY DEF SameVotes
<1> HIDE DEF c
<1>4. c = h.vote[t][v]
  BY DEF c
<1> QED  BY <1>1, <1>2, <1>3, <1>4 DEF VoteOk

\* A candidate that a majority voted for leads, with the log it stood with: the
\* term has no other leader, and among its voters is one of any majority that
\* may still choose an entry of an earlier term.
LEMMA LeadKeeps ==
  ASSUME NEW h, NEW ns \in [Server -> RaftNode], Explains(h, ns),
         NEW i \in Server, NEW n \in RaftNode,
         ns[i].role = "Candidate", ns[i].votes_received >= Majority,
         n.current_term = ns[i].current_term, n.voted_for = ns[i].voted_for,
         n.votes_received = ns[i].votes_received, n.role = "Leader",
         SameStore(ns[i], n),
         \A p \in Server : n.next_index[p] = Len(n.log) + 1 /\ n.match_index[p] = 0,
         NEW g, g = Led(h, i, n.current_term, n.log)
  PROVE  /\ Explains(g, [ns EXCEPT ![i] = n]) /\ Grows(h, g)
         /\ LedAs(h, i, n.current_term, n.log, g)
<1> DEFINE ms == [ns EXCEPT ![i] = n]
           t == n.current_term
           s == n.log
           C == h.counted[t][i]
<1>1. /\ h \in History /\ t \in Nat /\ ns[i].current_term = t /\ s \in Seq(LogEntry)
      /\ ns[i].log = s /\ Len(s) \in Nat
  BY NodeFields DEF Explains, SameStore
<1>2. ms \in [Server -> RaftNode] /\ \A q \in Server : ms[q] = IF q = i THEN n ELSE ns[q]
  BY OneChanged
<1>3. LedAs(h, i, t, s, g)
  BY <1>1, LedFields
<1> HIDE DEF ms, t, s, C
<1>4. /\ g \in History
      /\ g.vote = h.vote /\ g.clog = h.clog /\ g.counted = h.counted
      /\ \A u \in Nat : /\ g.ldr[u] = IF u = t THEN i ELSE h.ldr[u]
                        /\ g.llog[u] = IF u = t THEN s ELSE h.llog[u]
      /\ \A u \in Nat, v \in Server :
           g.acc[u][v] = IF u = t /\ v = i THEN Len(s) ELSE h.acc[u][v]
  BY <1>3 DEF LedAs
<1>5. /\ NodeOk(h, ns, i) /\ VoteOk(h, ns, t, i) /\ LeaderOk(h, ns, t) /\ i # Nil
      /\ ns[i].voted_for = i /\ ns[i].votes_received = Cardinality(C) /\ i \in C
      /\ s = h.clog[t][i] /\ h.vote[t][i] = i
  <2>1. NodeOk(h, ns, i) /\ VoteOk(h, ns, t, i) /\ LeaderOk(h, ns, t) /\ i # Nil
    BY <1>1, StoreNodeAssumption DEF Explains
  <2>2. OfficeOk(h, i, ns[i])
    BY <2>1 DEF NodeOk
  <2>3. /\ ns[i].voted_for = i /\ ns[i].votes_received = Cardinality(C) /\ i \in C
        /\ s = h.clog[t][i]
    BY <1>1, <2>2 DEF OfficeOk, C
  <2>4. h.vote[t][i] = i
    BY <1>1, <2>1, <2>3 DEF VoteOk
  <2> QED  BY <2>1, <2>3, <2>4
<1>6. IsQuorum(C) /\ C \subseteq Server
  BY <1>1, <1>5, HistoryFields DEF IsQuorum, C
<1>7. \A w \in C : h.vote[t][w] = i
  BY <1>5 DEF VoteOk, C
<1>8. h.ldr[t] = Nil
  <2> SUFFICES ASSUME h.ldr[t] # Nil PROVE FALSE
    OBVIOUS
  <2> DEFINE c == h.ldr[t]
  <2>1. c \in Server /\ IsQuorum(h.counted[t][c]) /\ (ns[c].current_term = t => ns[c].role = "Leader")
    BY <1>1, <1>5, HistoryFields DEF LeaderOk
  <2>2. PICK w \in h.counted[t][c] : w \in C
    BY <1>6, <2>1, QuorumsMeet
  <2>3. h.vote[t][w] = c
    BY <1>1, <2>1, <2>2, ZenonT(30) DEF Explains, VoteOk
  <2>4. c = i
    BY <1>7, <2>2, <2>3
  <2> QED  BY <1>1, <2>1, <2>4
<1>9. \A v \in Server : h.acc[t][v] = 0
  BY <1>5, <1>8 DEF LeaderOk
<1>10. Owned(h, s) /\ TermsBelow(s, t)
  BY <1>5 DEF VoteOk
<1>11. Grows(h, g)
  <2>1. \A u \in Nat : h.llog[u] \in Seq(LogEntry) /\ \A v \in Server : h.acc[u][v] \in Nat
    BY <1>1, HistoryFields
  <2> QED  BY <1>1, <1>4, <1>8, <1>9, <2>1 DEF Grows, Same
<1>12. ASSUME NEW u \in Nat, NEW k \in Nat, Choosable(g, ms, u, k)
       PROVE  /\ u # t /\ g.llog[u] = h.llog[u] /\ Choosable(h, ns, u, k)
              /\ \A v \in Server : g.acc[u][v] = h.acc[u][v]
  <2>1. u # t
    <3>1. Proposed(g, u, k)
      BY <1>12 DEF Choosable
    <3>2. u = t => k \in 1..Len(s) /\ s[k].term = t
      BY <1>1, <1>4, <3>1 DEF Proposed
    <3>3. \A l \in 1..Len(s) : s[l].term < t
      BY <1>10 DEF TermsBelow
    <3> QED  BY <1>1, <3>2, <3>3
  <2>2. g.ldr[u] = h.ldr[u] /\ g.llog[u] = h.llog[u] /\ \A v \in Server : g.acc[u][v] = h.acc[u][v]
    BY <1>4, <2>1
  <2>3. \A q \in Server : ms[q].current_term = ns[q].current_term
    BY <1>1, <1>2 DEF t
  <2>4. Proposed(h, u, k)
    BY <1>12, <2>2 DEF Choosable, Proposed
  <2>5. \E Q \in SUBSET Server :
          IsQuorum(Q) /\ \A q \in Q : h.acc[u][q] >= k \/ ns[q].current_term <= u
    BY <1>12, <2>2, <2>3 DEF Choosable
  <2> QED  BY <2>1, <2>2, <2>4, <2>5 DEF Choosable
<1>13. \A r, w : \A v \in Server : Carries(h, ns, r, v, w) => Carries(g, ms, r, v, w)
  BY <1>12 DEF Carries
<1>14. \A r, w : Complete(h, ns, r, w) => Complete(g, ms, r, w)
  BY <1>12 DEF Complete
<1>15. Complete(h, ns, s, t)
  <2> SUFFICES ASSUME NEW u \in Nat, NEW k \in Nat, u < t, Choosable(h, ns, u, k)
               PROVE  Same(s, h.llog[u], k)
    BY DEF Complete
  <2>1. PICK Q \in SUBSET Server :
          IsQuorum(Q) /\ \A q \in Q : h.acc[u][q] >= k \/ ns[q].current_term <= u
    BY DEF Choosable
  <2>2. PICK q \in Q : q \in C
    BY <1>6, <2>1, QuorumsMeet
  <2>3. q \in Server /\ h.vote[t][q] = i /\ VoteOk(h, ns, t, q)
    BY <1>1, <1>7, <2>2 DEF Explains
  <2>4. ns[q].current_term \in Nat /\ ~(ns[q].current_term < t)
    BY <1>5, <2>3, NodeFields DEF VoteOk
  <2>5. h.acc[u][q] >= k
    BY <1>1, <2>1, <2>2, <2>4
  <2>6. Carries(h, ns, s, q, t)
    BY <1>5, <2>3 DEF VoteOk
  <2> QED  BY <2>3, <2>5, <2>6 DEF Carries
<1>16. SameVotes(h, ns, g, ms)
  BY <1>1, <1>2, <1>4, <1>11 DEF SameVotes, t
<1>17. ASSUME NEW u \in Nat, NEW v \in Server PROVE VoteOk(g, ms, u, v)
  BY <1>2, <1>4, <1>13, <1>16, VoteKeptToo
<1>18. ASSUME NEW u \in Nat PROVE LeaderOk(g, ms, u)
  <2>1. CASE u = t
    <3>1. /\ g.ldr[t] = i /\ g.llog[t] = s /\ g.acc[t][i] = Len(s)
          /\ \A v \in Server : v # i => g.acc[t][v] = 0
      BY <1>1, <1>4, <1>9
    <3>2. Owned(g, s) /\ Complete(g, ms, s, t)
      BY <1>1, <1>4, <1>10, <1>11, <1>14, <1>15, OwnedKept
    <3>3. TermsBelow(s, t + 1)
      <4>1. \A l \in 1..Len(s) : s[l].term \in Nat
        BY <1>1, <1>10, OwnedEntry
      <4> QED  BY <1>1, <1>10, <4>1 DEF TermsBelow
    <3>4. \A v \in Server : TakenOver(g, ms, t, v)
      <4> SUFFICES ASSUME NEW v \in Server PROVE TakenOver(g, ms, t, v)
        OBVIOUS
      <4>1. CASE v = i
        BY <1>1, <1>2, <3>1, <4>1, SMTT(30) DEF TakenOver, Same, t, s
      <4>2. CASE v # i
        <5>1. Len(ms[v].log) \in Nat
          BY <1>2, NodeFields
        <5> QED  BY <1>1, <3>1, <4>2, <5>1 DEF TakenOver, Same
      <4> QED  BY <4>1, <4>2
    <3>5. ms[i].role = "Leader"
      BY <1>2
    <3> QED  BY <1>4, <1>5, <1>6, <2>1, <3>1, <3>2, <3>3, <3>4, <3>5 DEF LeaderOk, C
  <2>2. CASE u # t
    <3> DEFINE c == h.ldr[u]
    <3>1. /\ LeaderOk(h, ns, u) /\ c \in Server \cup {Nil} /\ g.ldr[u] = c
          /\ g.llog[u] = h.llog[u] /\ \A v \in Server : g.acc[u][v] = h.acc[u][v]
          /\ h.llog[u] \in Seq(LogEntry)
      BY <1>1, <1>4, <2>2, HistoryFields DEF Explains
    <3>2. CASE c = Nil
      BY <3>1, <3>2 DEF LeaderOk
    <3>3. CASE c # Nil
      <4>1. /\ h.vote[u][c] = c /\ IsQuorum(h.counted[u][c])
            /\ ns[c].current_term = u => ns[c].role = "Leader"
            /\ Owned(h, h.llog[u]) /\ TermsBelow(h.llog[u], u + 1)
            /\ h.acc[u][c] = Len(h.llog[u])
            /\ \A v \in Server : TakenOver(h, ns, u, v)
            /\ Complete(h, ns, h.llog[u], u) /\ c \in Server
        BY <3>1, <3>3 DEF LeaderOk
      <4>2. Owned(g, h.llog[u]) /\ Complete(g, ms, h.llog[u], u)
        BY <1>1, <1>4, <1>11, <1>14, <3>1, <4>1, OwnedKept, SMTT(30)
      <4>3. \A v \in Server : TakenOver(g, ms, u, v)
        BY <1>1, <1>2, <3>1, <4>1, SMTT(30) DEF TakenOver, t, s
      <4>4. ms[c].current_term = u => ms[c].role = "Leader"
        BY <1>2, <4>1
      <4> QED  BY <1>4, <3>1, <3>3, <4>1, <4>2, <4>3, <4>4, ZenonT(30) DEF LeaderOk
    <3> QED  BY <3>2, <3>3
  <2> QED  BY <2>1, <2>2
<1>19. ASSUME NEW j \in Server PROVE NodeOk(g, ms, j)
  <2>1. NodeOk(h, ns, j) /\ ns[j] \in RaftNode
    BY DEF Explains
  <2>2. ms[j].current_term = ns[j].current_term /\ ms[j] \in RaftNode /\ SameStore(ns[j], ms[j])
    BY <1>1, <1>2, <2>1 DEF SameStore, t
  <2>3. AppliedOk(g, ms[j])
    <3>1. ns[j].current_term <= ms[j].current_term
      BY <2>1, <2>2, NodeFields
    <3> QED  BY <1>1, <1>4, <1>11, <2>1, <2>2, <3>1, AppliedKept DEF NodeOk, SameStore
  <2>4. Owned(g, ms[j].log) /\ Carries(g, ms, ms[j].log, j, ms[j].current_term + 1)
    BY <1>1, <1>4, <1>11, <1>13, <2>1, <2>2, NodeFields, OwnedKept DEF NodeOk, SameStore
  <2>5. TermsBelow(ms[j].log, ms[j].current_term + 1)
    BY <2>1, <2>2 DEF NodeOk, SameStore
  <2>6. OfficeOk(g, j, ms[j])
    <3>1. CASE j = i
      <4>1. g.ldr[t] = i /\ g.llog[t] = s
        BY <1>1, <1>4
      <4>2. \A p \in Server \ {i} : n.next_index[p] <= Len(s) + 1 /\ n.match_index[p] <= g.acc[t][p]
        BY <1>1, <1>4, <1>9 DEF s
      <4> QED  BY <1>2, <1>4, <1>5, <3>1, <4>1, <4>2, ZenonT(30) DEF OfficeOk, t, s, C
    <3>2. CASE j # i
      <4>1. ms[j] = ns[j] /\ OfficeOk(h, j, ns[j]) /\ ns[j].current_term \in Nat
        BY <1>2, <2>1, <3>2, NodeFields DEF NodeOk
      <4>2. ns[j].role = "Leader" => ns[j].current_term # t
        BY <1>8, <3>2, <4>1, StoreNodeAssumption DEF OfficeOk
      <4> QED  BY <1>4, <4>1, <4>2, SMTT(30) DEF OfficeOk
    <3> QED  BY <3>1, <3>2
  <2> QED  BY <2>3, <2>4, <2>5, <2>6 DEF NodeOk
<1> QED  BY <1>3, <1>4, <1>11, <1>17, <1>18, <1>19 DEF Explains, ms, t, s

-----------------------------------------------------------------------------
(* A follower takes entries over.                                          *)

\* Entries of the leader's log that meet the follower's make its log the
\* leader's up to their end; what both logs had in common with a third is kept.
LEMMA SpliceTakes ==
  ASSUME NEW h \in History, NEW s \in Seq(LogEntry), NEW L \in Seq(LogEntry),
         NEW entries \in Seq(LogEntry), Owned(h, s), Owned(h, L),
         NEW prev \in Nat, prev <= Len(s), prev + Len(entries) <= Len(L),
         \A k \in 1..Len(entries) : entries[k] = L[prev + k],
         prev # 0 => s[prev].term = L[prev].term,
         NEW r, SplicedAs(s, prev, entries, r)
  PROVE  /\ r \in Seq(LogEntry) /\ Same(r, L, prev + Len(entries))
         /\ r = s \/ Len(r) = prev + Len(entries)
         /\ \A q \in Seq(LogEntry), k \in Nat : Same(s, q, k) /\ Same(L, q, k) => Same(r, q, k)
<1>1. Len(s) \in Nat /\ Len(L) \in Nat /\ Len(entries) \in Nat
  OBVIOUS
<1>2. Same(s, L, prev)
  <2>1. CASE prev = 0
    BY <1>1, <2>1 DEF Same
  <2>2. CASE prev # 0
    <3>1. prev \in 1..Len(s) /\ prev <= Len(L)
      BY <1>1, <2>2
    <3> QED  BY <2>2, <3>1, SameTermSameLog
  <2> QED  BY <2>1, <2>2
<1>3. ASSUME NEW l \in 1..Len(entries), prev + l <= Len(s), s[prev + l].term = entries[l].term
      PROVE  Same(s, L, prev + l)
  <2>1. prev + l \in 1..Len(s) /\ prev + l <= Len(L) /\ s[prev + l].term = L[prev + l].term
    BY <1>1, <1>3
  <2> QED  BY <2>1, SameTermSameLog
<1>4. /\ r \in Seq(LogEntry)
      /\ \/ /\ r = s /\ prev + Len(entries) <= Len(s)
            /\ \A k \in 1..Len(entries) : s[prev + k].term = entries[k].term
         \/ \E k \in 1..Len(entries) :
              /\ \A l \in 1..k - 1 : prev + l <= Len(s) /\ s[prev + l].term = entries[l].term
              /\ prev + k <= Len(s) => s[prev + k].term # entries[k].term
              /\ Len(r) = prev + Len(entries)
              /\ \A l \in 1..prev + k - 1 : r[l] = s[l]
              /\ \A l \in k..Len(entries) : r[prev + l] = entries[l]
  BY DEF SplicedAs
<1>5. CASE r = s /\ prev + Len(entries) <= Len(s)
           /\ \A k \in 1..Len(entries) : s[prev + k].term = entries[k].term
  <2>1. CASE Len(entries) = 0
    BY <1>2, <1>4, <1>5, <2>1
  <2>2. CASE Len(entries) # 0
    <3>1. Len(entries) \in 1..Len(entries)
      BY <1>1, <2>2
    <3>2. Same(s, L, prev + Len(entries))
      BY <1>3, <1>5, <3>1
    <3> QED  BY <1>4, <1>5, <3>2
  <2> QED  BY <2>1, <2>2
<1>6. ASSUME NEW k \in 1..Len(entries),
             \A l \in 1..k - 1 : prev + l <= Len(s) /\ s[prev + l].term = entries[l].term,
             prev + k <= Len(s) => s[prev + k].term # entries[k].term,
             Len(r) = prev + Len(entries),
             \A l \in 1..prev + k - 1 : r[l] = s[l],
             \A l \in k..Len(entries) : r[prev + l] = entries[l]
      PROVE  /\ Same(r, L, prev + Len(entries))
             /\ \A q \in Seq(LogEntry), x \in Nat : Same(s, q, x) /\ Same(L, q, x) => Same(r, q, x)
  <2>1. Same(s, L, prev + k - 1)
    <3>1. CASE k = 1
      <4>1. prev + k - 1 = prev
        BY <3>1
      <4> QED  BY <1>2, <4>1
    <3>2. CASE k # 1
      <4>1. k - 1 \in 1..Len(entries) /\ k - 1 \in 1..k - 1 /\ prev + (k - 1) = prev + k - 1
        BY <1>1, <3>2
      <4>2. prev + (k - 1) <= Len(s) /\ s[prev + (k - 1)].term = entries[k - 1].term
        BY <1>6, <4>1
      <4> QED  BY <1>3, <4>1, <4>2
    <3> QED  BY <3>1, <3>2
  <2>2. Same(r, L, prev + Len(entries))
    <3>1. \A l \in 1..prev + Len(entries) : r[l] = L[l]
      <4> SUFFICES ASSUME NEW l \in 1..prev + Len(entries) PROVE r[l] = L[l]
        OBVIOUS
      <4>1. CASE l <= prev + k - 1
        <5>1. l \in 1..prev + k - 1
          BY <1>1, <4>1
        <5> QED  BY <1>6, <2>1, <5>1 DEF Same
      <4>2. CASE l > prev + k - 1
        <5>1. l - prev \in k..Len(entries) /\ l - prev \in 1..Len(entries) /\ prev + (l - prev) = l
          BY <1>1, <4>2
        <5>2. r[l] = entries[l - prev] /\ entries[l - prev] = L[l]
          BY <1>6, <5>1
        <5> QED  BY <5>2
      <4> QED  BY <1>1, <4>1, <4>2
    <3> QED  BY <1>1, <1>6, <3>1 DEF Same
  <2>3. ASSUME NEW q \in Seq(LogEntry), NEW x \in Nat, Same(s, q, x), Same(L, q, x)
        PROVE  Same(r, q, x)
    <3>1. x <= prev + k - 1
      <4> SUFFICES ASSUME x >= prev + k PROVE FALSE
        BY <1>1
      <4>1. prev + k \in 1..x /\ prev + k <= Len(s)
        BY <1>1, <2>3 DEF Same
      <4>2. s[prev + k] = L[prev + k]
        BY <2>3, <4>1 DEF Same
      <4> QED  BY <1>6, <4>1, <4>2
    <3>2. x <= prev + Len(entries) /\ prev + Len(entries) \in Nat
      BY <1>1, <3>1
    <3>3. Same(r, L, x)
      BY <1>4, <2>2, <3>2, SameShorter
    <3> QED  BY <1>4, <2>3, <3>3, SameTrans
  <2> QED  BY <2>2, <2>3
<1> QED  BY <1>4, <1>5, <1>6

\* What the log r shares with the leader's log L, once entries of L took the log s
\* up to k: all of its first k entries, and what both shared with any other log.
TakesUp(s, L, r, k) ==
  /\ r \in Seq(LogEntry) /\ k \in Nat /\ k <= Len(L) /\ Same(r, L, k)
  /\ r = s \/ Len(r) = k
  /\ \A q \in Seq(LogEntry), x \in Nat : Same(s, q, x) /\ Same(L, q, x) => Same(r, q, x)

\* So it does when what was shared already is counted in.
LEMMA SpliceTakesUp ==
  ASSUME NEW h \in History, NEW s \in Seq(LogEntry), NEW L \in Seq(LogEntry),
         NEW entries \in Seq(LogEntry), Owned(h, s), Owned(h, L),
         NEW prev \in Nat, prev <= Len(s), prev + Len(entries) <= Len(L),
         \A k \in 1..Len(entries) : entries[k] = L[prev + k],
         prev # 0 => s[prev].term = L[prev].term,
         NEW r, SplicedAs(s, prev, entries, r),
         NEW a \in Nat, a <= Len(L), Same(s, L, a)
  PROVE  LET cov == prev + Len(entries)
         IN  TakesUp(s, L, r, IF a > cov THEN a ELSE cov)
<1> DEFINE cov == prev + Len(entries)
           k == IF a > cov THEN a ELSE cov
<1>1. cov \in Nat /\ Len(s) \in Nat /\ Len(L) \in Nat /\ cov <= Len(L)
  OBVIOUS
<1>2. /\ r \in Seq(LogEntry) /\ Same(r, L, cov)
      /\ r = s \/ Len(r) = cov
      /\ \A q \in Seq(LogEntry), x \in Nat : Same(s, q, x) /\ Same(L, q, x) => Same(r, q, x)
  BY SpliceTakes
<1>3. Same(L, L, a)
  BY <1>1 DEF Same
<1>4. Same(r, L, a)
  BY <1>2, <1>3
<1>5. a <= Len(r) /\ Len(r) \in Nat
  BY <1>2, <1>4 DEF Same
<1> HIDE DEF cov
<1>6. k \in Nat /\ k <= Len(L) /\ Same(r, L, k)
  BY <1>1, <1>2, <1>4
<1>7. r = s \/ Len(r) = k
  BY <1>1, <1>2, <1>5
<1> HIDE DEF k
<1>8. TakesUp(s, L, r, k)
  BY <1>2, <1>6, <1>7 DEF TakesUp
<1> QED  BY <1>8 DEF k, cov

\* A follower that takes the leader's entries over stays explained: what may still
\* be chosen in an earlier term is in the leader's log, so no truncation drops it.
LEMMA AdoptKeeps ==
  ASSUME NEW h, NEW ns \in [Server -> RaftNode], Explains(h, ns),
         NEW i \in Server, NEW n \in RaftNode,
         NEW t, t = ns[i].current_term, h.ldr[t] # Nil, h.ldr[t] # i,
         NEW k, h.acc[t][i] <= k, TakesUp(ns[i].log, h.llog[t], n.log, k),
         n.current_term = t, n.voted_for = ns[i].voted_for, n.role = "Follower",
         n.kv = ns[i].kv, n.commit_index = ns[i].commit_index,
         n.last_applied = ns[i].last_applied,
         NEW g, g = Took(h, i, t, k)
  PROVE  Explains(g, [ns EXCEPT ![i] = n]) /\ Grows(h, g) /\ TookAs(h, i, t, k, g)
<1> DEFINE ms == [ns EXCEPT ![i] = n]
           s == ns[i].log
           L == h.llog[t]
           r == n.log
           a == h.acc[t][i]
<1>1. /\ h \in History /\ t \in Nat /\ s \in Seq(LogEntry) /\ Len(s) \in Nat
      /\ r \in Seq(LogEntry) /\ Len(r) \in Nat
  <2>1. h \in History /\ ns[i] \in RaftNode
    BY DEF Explains
  <2> QED  BY <2>1, NodeFields
<1>2. L \in Seq(LogEntry) /\ Len(L) \in Nat /\ a \in Nat
  BY <1>1, HistoryFields
<1>3. ms \in [Server -> RaftNode] /\ \A q \in Server : ms[q] = IF q = i THEN n ELSE ns[q]
  BY OneChanged
<1>4. LeaderOk(h, ns, t) /\ NodeOk(h, ns, i)
  BY <1>1 DEF Explains
<1>5. /\ Owned(h, L) /\ TermsBelow(L, t + 1) /\ Complete(h, ns, L, t)
      /\ TakenOver(h, ns, t, i)
  BY <1>4 DEF LeaderOk
<1>6. Owned(h, s) /\ TermsBelow(s, t + 1) /\ Carries(h, ns, s, i, t + 1) /\ AppliedOk(h, ns[i])
  BY <1>4 DEF NodeOk
<1>7. a <= Len(L) /\ Same(s, L, a)
  BY <1>5 DEF TakenOver
<1>8. /\ r = s \/ Len(r) = k
      /\ \A q \in Seq(LogEntry), x \in Nat : Same(s, q, x) /\ Same(L, q, x) => Same(r, q, x)
  BY DEF TakesUp
<1>9. k \in Nat /\ a <= k /\ k <= Len(L) /\ Same(r, L, k)
  BY DEF TakesUp
<1> HIDE DEF ms, r, s, L, a
<1>10. TookAs(h, i, t, k, g)
  BY <1>1, <1>9, TookFields
<1>11. /\ g \in History
       /\ g.vote = h.vote /\ g.clog = h.clog /\ g.counted = h.counted
       /\ g.ldr = h.ldr /\ g.llog = h.llog
       /\ \A u \in Nat, v \in Server :
            g.acc[u][v] = IF u = t /\ v = i THEN k ELSE h.acc[u][v]
  BY <1>10 DEF TookAs
<1>12. \A u \in Nat, v \in Server : h.acc[u][v] <= g.acc[u][v]
  <2> SUFFICES ASSUME NEW u \in Nat, NEW v \in Server PROVE h.acc[u][v] <= g.acc[u][v]
    OBVIOUS
  <2>1. h.acc[u][v] \in Nat
    BY <1>1, HistoryFields
  <2> QED  BY <1>9, <1>11, <2>1 DEF a
<1>13. Grows(h, g)
  <2>1. \A u \in Nat : h.llog[u] \in Seq(LogEntry)
    BY <1>1, HistoryFields
  <2> QED  BY <1>11, <1>12, <2>1 DEF Grows, Same
<1>14. \A q \in Server : ms[q].current_term = ns[q].current_term /\ ns[q].current_term \in Nat
  BY <1>3, NodeFields
<1>15. ASSUME NEW u \in Nat, NEW x \in Nat, Choosable(g, ms, u, x)
       PROVE  Choosable(h, ns, u, x)
  <2>1. Proposed(h, u, x)
    BY <1>11, <1>15 DEF Choosable, Proposed
  <2>2. \A q \in Server : /\ ns[q].current_term <= ms[q].current_term
                          /\ g.acc[u][q] # h.acc[u][q] => ns[q].current_term <= u
    BY <1>1, <1>11, <1>14
  <2> QED  BY <1>1, <1>3, <1>11, <1>13, <1>15, <2>1, <2>2, ChoosableShrinks
<1>16. \A q, w : Complete(h, ns, q, w) => Complete(g, ms, q, w)
  BY <1>11, <1>15 DEF Complete
<1>17. ASSUME NEW q, NEW v \in Server, NEW w \in Nat, v = i => w <= t, Carries(h, ns, q, v, w)
       PROVE  Carries(g, ms, q, v, w)
  <2> SUFFICES ASSUME NEW u \in Nat, NEW x \in Nat, u < w, Choosable(g, ms, u, x),
                      g.acc[u][v] >= x
               PROVE  Same(q, g.llog[u], x)
    BY DEF Carries
  <2>1. g.acc[u][v] = h.acc[u][v]
    BY <1>1, <1>11, <1>17
  <2> QED  BY <1>11, <1>15, <1>17, <2>1 DEF Carries
<1>18. SameVotes(h, ns, g, ms)
  BY <1>3, <1>11, <1>13, <1>14 DEF SameVotes
<1>19. ASSUME NEW u \in Nat, NEW v \in Server PROVE VoteOk(g, ms, u, v)
  <2>1. VoteOk(h, ns, u, v)
    BY DEF Explains
  <2>2. h.vote[u][v] # Nil /\ v = i => u <= t
    BY <1>1, <2>1 DEF VoteOk
  <2> QED  BY <1>3, <1>11, <1>17, <1>18, <2>2, VoteKeptToo
<1>20. ASSUME NEW u \in Nat PROVE LeaderOk(g, ms, u)
  <2> DEFINE c == h.ldr[u]
  <2>1. /\ LeaderOk(h, ns, u) /\ c \in Server \cup {Nil} /\ g.ldr[u] = c
        /\ g.llog[u] = h.llog[u] /\ h.llog[u] \in Seq(LogEntry)
    BY <1>1, <1>11, HistoryFields DEF Explains
  <2>2. CASE c = Nil
    <3>1. u # t /\ \A v \in Server : h.acc[u][v] = 0
      BY <2>1, <2>2 DEF LeaderOk
    <3>2. \A v \in Server : g.acc[u][v] = 0
      BY <1>11, <3>1
    <3> QED  BY <2>1, <2>2, <3>2 DEF LeaderOk
  <2>3. CASE c # Nil
    <3>1. /\ h.vote[u][c] = c /\ IsQuorum(h.counted[u][c])
          /\ ns[c].current_term = u => ns[c].role = "Leader"
          /\ Owned(h, h.llog[u]) /\ TermsBelow(h.llog[u], u + 1)
          /\ h.acc[u][c] = Len(h.llog[u])
          /\ \A v \in Server : TakenOver(h, ns, u, v)
          /\ Complete(h, ns, h.llog[u], u) /\ c \in Server
      BY <2>1, <2>3 DEF LeaderOk
    <3>2. Owned(g, h.llog[u]) /\ Complete(g, ms, h.llog[u], u)
      BY <1>1, <1>11, <1>13, <1>16, <2>1, <3>1, OwnedKept
    <3>3. u = t => c # i
      OBVIOUS
    <3>4. g.acc[u][c] = Len(h.llog[u])
      BY <1>11, <3>1, <3>3
    <3>5. ms[c].current_term = u => ms[c].role = "Leader"
      BY <1>3, <3>1, <3>3
    <3>6. ASSUME NEW v \in Server PROVE TakenOver(g, ms, u, v)
      <4>1. CASE u = t /\ v = i
        <5>1. g.acc[t][i] = k /\ g.llog[t] = L /\ ms[i].current_term = t /\ ms[i].log = r
          BY <1>1, <1>3, <1>11 DEF r, L
        <5> QED  BY <1>1, <1>9, <4>1, <5>1 DEF TakenOver
      <4>2. CASE ~(u = t /\ v = i)
        <5>1. g.acc[u][v] = h.acc[u][v] /\ TakenOver(h, ns, u, v)
          BY <1>11, <3>1, <4>2
        <5>2. ms[v].current_term = ns[v].current_term
          BY <1>14
        <5>3. ns[v].current_term = u => ms[v].log = ns[v].log
          BY <1>3, <4>2
        <5> QED  BY <2>1, <5>1, <5>2, <5>3 DEF TakenOver
      <4> QED  BY <4>1, <4>2
    <3> QED  BY <1>11, <2>1, <2>3, <3>1, <3>2, <3>4, <3>5, <3>6 DEF LeaderOk
  <2> QED  BY <2>2, <2>3
<1>21. Owned(h, r) /\ TermsBelow(r, t + 1)
  <2>1. CASE r = s
    BY <1>6, <2>1
  <2>2. CASE Len(r) = k
    <3>1. ASSUME NEW l \in 1..Len(r)
          PROVE  /\ h.ldr[r[l].term] # Nil /\ Same(r, h.llog[r[l].term], l)
                 /\ r[l].term < t + 1
      <4>1. l \in 1..Len(L) /\ r[l] = L[l] /\ l \in Nat /\ l <= k
        BY <1>1, <1>2, <1>9, <2>2 DEF Same
      <4>2. /\ L[l].term \in Nat /\ h.ldr[L[l].term] # Nil /\ Same(L, h.llog[L[l].term], l)
            /\ h.llog[L[l].term] \in Seq(LogEntry)
        BY <1>1, <1>2, <1>5, <4>1, OwnedEntry, HistoryFields
      <4>3. Same(r, h.llog[L[l].term], l)
        <5>1. Same(r, L, l)
          BY <1>1, <1>2, <1>9, <4>1, SameShorter
        <5> QED  BY <1>1, <1>2, <4>1, <4>2, <5>1, SameTrans
      <4>4. L[l].term < t + 1
        BY <1>5, <4>1 DEF TermsBelow
      <4> QED  BY <4>1, <4>2, <4>3, <4>4
    <3> QED  BY <3>1 DEF Owned, TermsBelow
  <2> QED  BY <1>8, <2>1, <2>2
<1>22. ASSUME NEW u \in Nat, NEW x \in Nat, u < t, Choosable(h, ns, u, x)
       PROVE  Same(L, h.llog[u], x)
  BY <1>5, <1>22 DEF Complete
<1>23. Carries(g, ms, r, i, t + 1)
  <2> SUFFICES ASSUME NEW u \in Nat, NEW x \in Nat, u < t + 1, Choosable(g, ms, u, x),
                      g.acc[u][i] >= x
               PROVE  Same(r, h.llog[u], x)
    BY <1>11 DEF Carries
  <2>1. Choosable(h, ns, u, x) /\ h.llog[u] \in Seq(LogEntry)
    BY <1>1, <1>15, HistoryFields
  <2>2. CASE u = t
    <3>1. x <= k
      BY <1>11, <2>2
    <3> QED  BY <1>1, <1>2, <1>9, <2>2, <3>1, SameShorter DEF L
  <2>3. CASE u # t
    <3>1. u < t /\ h.acc[u][i] >= x
      BY <1>1, <1>11, <2>3
    <3>2. Same(s, h.llog[u], x)
      BY <1>6, <2>1, <3>1 DEF Carries
    <3>3. Same(L, h.llog[u], x)
      BY <1>22, <2>1, <3>1
    <3> QED  BY <1>8, <2>1, <3>2, <3>3
  <2> QED  BY <2>2, <2>3
<1>24. AppliedOk(g, n)
  <2> DEFINE c == ns[i].commit_index
             kv == ns[i].kv
  <2>1. /\ ns[i].last_applied = c /\ Len(kv) = c /\ Same(kv, s, c) /\ Committed(h, s, c, t)
        /\ c \in Nat /\ kv \in Seq(LogEntry)
    <3>1. ns[i] \in RaftNode /\ AppliedOk(h, ns[i])
      BY <1>6
    <3> QED  BY <3>1, NodeFields DEF AppliedOk, s
  <2> HIDE DEF c, kv
  <2>2. Same(kv, r, c) /\ Committed(h, r, c, t)
    <3>1. CASE c = 0
      BY <1>1, <2>1, <3>1 DEF Same, Committed
    <3>2. CASE c # 0
      <4>1. PICK u \in Nat, x \in Nat : /\ u <= t /\ c <= x /\ Chosen(h, u, x)
                                        /\ Same(s, h.llog[u], c)
        BY <2>1, <3>2 DEF Committed
      <4>2. h.llog[u] \in Seq(LogEntry) /\ Choosable(h, ns, u, x) /\ x <= Len(h.llog[u])
        BY <1>1, <4>1, HistoryFields, SMTT(30) DEF Chosen, Choosable, Proposed
      <4>3. Same(L, h.llog[u], c)
        <5>1. CASE u = t
          BY <1>2, <2>1, <4>1, <4>2, <5>1 DEF Same, L
        <5>2. CASE u # t
          <6>1. u < t
            BY <1>1, <4>1, <5>2
          <6> QED  BY <1>2, <1>22, <2>1, <4>1, <4>2, <6>1, SameShorter
        <5> QED  BY <5>1, <5>2
      <4>4. Same(r, h.llog[u], c)
        BY <1>8, <2>1, <4>1, <4>2, <4>3
      <4>5. Same(h.llog[u], r, c) /\ Same(kv, h.llog[u], c) /\ c <= c
        BY <1>1, <2>1, <4>1, <4>2, <4>4, SameSym, SameTrans
      <4>6. Same(kv, r, c)
        BY <1>1, <2>1, <4>2, <4>5, SameTrans
      <4> QED  BY <4>1, <4>4, <4>6 DEF Committed
    <3> QED  BY <3>1, <3>2
  <2>3. Same(r, r, c) /\ t <= t
    BY <1>1, <2>1, <2>2 DEF Same
  <2>4. Committed(g, r, c, t)
    BY <1>1, <1>11, <1>13, <2>1, <2>2, <2>3, CommittedKept
  <2> QED  BY <2>1, <2>2, <2>4 DEF AppliedOk, r, s, c, kv
<1>25. ASSUME NEW j \in Server PROVE NodeOk(g, ms, j)
  <2>1. CASE j = i
    <3>1. ms[i] = n /\ Owned(g, r)
      BY <1>1, <1>3, <1>11, <1>13, <1>21, OwnedKept
    <3>2. OfficeOk(g, i, n)
      BY DEF OfficeOk
    <3> QED  BY <1>21, <1>23, <1>24, <2>1, <3>1, <3>2 DEF NodeOk, r
  <2>2. CASE j # i
    <3>1. ms[j] = ns[j] /\ NodeOk(h, ns, j) /\ ns[j] \in RaftNode /\ ns[j].current_term \in Nat
      BY <1>3, <1>14, <2>2 DEF Explains
    <3>2. AppliedOk(g, ns[j])
      <4>1. ns[j].current_term <= ns[j].current_term
        BY <3>1
      <4> QED  BY <1>1, <1>11, <1>13, <3>1, <4>1, AppliedKept DEF NodeOk
    <3>3. Owned(g, ns[j].log) /\ TermsBelow(ns[j].log, ns[j].current_term + 1)
      BY <1>1, <1>11, <1>13, <3>1, NodeFields, OwnedKept DEF NodeOk
    <3>4. Carries(g, ms, ns[j].log, j, ns[j].current_term + 1)
      <4>1. ns[j].current_term + 1 \in Nat /\ Carries(h, ns, ns[j].log, j, ns[j].current_term + 1)
        BY <3>1 DEF NodeOk
      <4> QED  BY <1>17, <2>2, <4>1
    <3>5. OfficeOk(g, j, ns[j])
      <4> DEFINE w == ns[j].current_term
      <4>1. OfficeOk(h, j, ns[j])
        BY <3>1 DEF NodeOk
      <4>2. \A p \in Server : ns[j].match_index[p] <= h.acc[w][p] => ns[j].match_index[p] <= g.acc[w][p]
        <5> SUFFICES ASSUME NEW p \in Server, ns[j].match_index[p] <= h.acc[w][p]
                     PROVE  ns[j].match_index[p] <= g.acc[w][p]
          OBVIOUS
        <5>1. ns[j].match_index[p] \in Nat /\ h.acc[w][p] \in Nat /\ g.acc[w][p] \in Nat
          BY <1>1, <1>11, <3>1, NodeFields, HistoryFields
        <5>2. h.acc[w][p] <= g.acc[w][p]
          BY <1>12, <3>1
        <5> QED  BY <5>1, <5>2
      <4> QED  BY <1>11, <4>1, <4>2 DEF OfficeOk
    <3> QED  BY <3>1, <3>2, <3>3, <3>4, <3>5 DEF NodeOk
  <2> QED  BY <2>1, <2>2
<1> QED  BY <1>10, <1>11, <1>13, <1>19, <1>20, <1>25 DEF Explains, ms

-----------------------------------------------------------------------------
(* What is committed is applied; what a reply tells is noted.              *)

\* Two states of a node that differ in what is applied alone.
SameSeat(n, m) ==
  /\ m.current_term = n.current_term /\ m.voted_for = n.voted_for /\ m.role = n.role
  /\ m.log = n.log /\ m.votes_received = n.votes_received
  /\ m.next_index = n.next_index /\ m.match_index = n.match_index

\* A node that applies what is committed has applied its log's committed prefix.
LEMMA ApplyFits ==
  ASSUME NEW h \in History, NEW n \in RaftNode, AppliedOk(h, n),
         NEW c \in Nat, n.commit_index <= c, c <= Len(n.log),
         Committed(h, n.log, c, n.current_term),
         NEW v, v = ApplyCommitted([n EXCEPT !.commit_index = c])
  PROVE  v \in RaftNode /\ AppliedOk(h, v) /\ SameSeat(n, v)
<1> DEFINE o == n.commit_index
           b == SubSeq(n.log, o + 1, c)
           w == [n EXCEPT !.commit_index = c]
<1>1. /\ n.log \in Seq(LogEntry) /\ n.kv \in Seq(LogEntry) /\ o \in Nat /\ Len(n.log) \in Nat
      /\ n.last_applied = o /\ Len(n.kv) = o /\ Same(n.kv, n.log, o)
  BY NodeFields DEF AppliedOk
<1>2. /\ w \in RaftNode /\ w.commit_index = c /\ w.log = n.log
      /\ w.kv = n.kv /\ w.last_applied = o /\ SameSeat(n, w)
  BY <1>1 DEF RaftNode, SameSeat
<1> HIDE DEF w
<1>3. v \in RaftNode
  BY <1>2, ApplyCommittedType DEF w
<1>4. v = [w EXCEPT !.kv = n.kv \o b, !.last_applied = IF o < c THEN c ELSE o]
  BY <1>2 DEF ApplyCommitted, w
<1>5. /\ b \in Seq(LogEntry) /\ Len(b) = c - o
      /\ \A k \in 1..c - o : b[k] = n.log[o + k]
  <2>1. o + 1 \in Nat \ {0} /\ c - (o + 1) + 1 = c - o
    BY <1>1
  <2>2. /\ b \in Seq(LogEntry)
        /\ Len(b) = IF o + 1 <= c THEN c - (o + 1) + 1 ELSE 0
        /\ \A k \in 1..c - (o + 1) + 1 : b[k] = n.log[o + 1 + k - 1]
    BY <1>1, <2>1, PartOfLog, SMTT(30)
  <2> HIDE DEF b
  <2>3. ASSUME NEW k \in 1..c - o PROVE b[k] = n.log[o + k]
    <3>1. b[k] = n.log[o + 1 + k - 1]
      BY <2>1, <2>2
    <3>2. o + 1 + k - 1 = o + k
      BY <1>1
    <3> QED  BY <3>1, <3>2
  <2>4. Len(b) = c - o
    BY <1>1, <2>1, <2>2
  <2> QED  BY <2>2, <2>3, <2>4
<1> HIDE DEF b
<1> DEFINE kv == n.kv \o b
<1>6. /\ kv \in Seq(LogEntry) /\ Len(kv) = c
      /\ \A k \in 1..c : kv[k] = n.log[k]
  <2>1. /\ kv \in Seq(LogEntry) /\ Len(kv) = Len(n.kv) + Len(b)
        /\ \A k \in 1..Len(n.kv) + Len(b) :
             kv[k] = IF k <= Len(n.kv) THEN n.kv[k] ELSE b[k - Len(n.kv)]
    BY <1>1, <1>5, ConcatProperties
  <2>2. Len(n.kv) + Len(b) = c
    BY <1>1, <1>5
  <2> HIDE DEF kv
  <2>3. ASSUME NEW k \in 1..c PROVE kv[k] = n.log[k]
    <3>1. CASE k <= o
      BY <1>1, <2>1, <2>2, <3>1 DEF Same
    <3>2. CASE k > o
      <4>1. k - o \in 1..c - o /\ o + (k - o) = k
        BY <1>1, <3>2
      <4>2. kv[k] = b[k - o]
        BY <1>1, <2>1, <2>2, <3>2
      <4>3. b[k - o] = n.log[o + (k - o)]
        BY <1>5, <4>1
      <4> QED  BY <4>1, <4>2, <4>3
    <3> QED  BY <1>1, <3>1, <3>2
  <2> QED  BY <2>1, <2>2, <2>3
<1>7. v = [w EXCEPT !.kv = kv, !.last_applied = c]
  <2>1. (IF o < c THEN c ELSE o) = c
    BY <1>1
  <2> QED  BY <1>4, <2>1
<1> HIDE DEF kv
<1>8. v.kv = kv /\ v.last_applied = c /\ v.commit_index = c /\ SameSeat(n, v)
  BY <1>2, <1>7 DEF RaftNode, SameSeat
<1>9. Same(kv, n.log, c)
  BY <1>1, <1>6 DEF Same
<1> QED  BY <1>3, <1>6, <1>8, <1>9 DEF AppliedOk, SameSeat

\* So does the node stay explained, whatever its role.
LEMMA ApplyKeeps ==
  ASSUME NEW h, NEW ns \in [Server -> RaftNode], Explains(h, ns),
         NEW i \in Server, ns[i].role = "Leader" \/ h.ldr[ns[i].current_term] # i,
         NEW c \in Nat, ns[i].commit_index <= c, c <= Len(ns[i].log),
         Committed(h, ns[i].log, c, ns[i].current_term),
         NEW v, v = ApplyCommitted([ns[i] EXCEPT !.commit_index = c])
  PROVE  Explains(h, [ns EXCEPT ![i] = v]) /\ SameSeat(ns[i], v)
<1> DEFINE n == ns[i]
<1>1. h \in History /\ n \in RaftNode /\ AppliedOk(h, n) /\ OfficeOk(h, i, n)
  BY DEF Explains, NodeOk
<1>2. v \in RaftNode /\ AppliedOk(h, v) /\ SameSeat(n, v)
  <2> HIDE DEF n
  <2>1. /\ n.commit_index <= c /\ c <= Len(n.log) /\ Committed(h, n.log, c, n.current_term)
        /\ v = ApplyCommitted([n EXCEPT !.commit_index = c])
    BY DEF n
  <2> QED  BY <1>1, <2>1, ApplyFits
<1>3. /\ v.current_term = n.current_term /\ v.voted_for = n.voted_for /\ v.role = n.role
      /\ v.log = n.log /\ v.votes_received = n.votes_received
      /\ v.next_index = n.next_index /\ v.match_index = n.match_index
  BY <1>2 DEF SameSeat
<1>4. OfficeOk(h, i, v)
  BY <1>1, <1>3 DEF OfficeOk
<1>5. h.ldr[v.current_term] = i => v.role = "Leader"
  BY <1>3
<1> QED  BY <1>2, <1>3, <1>4, <1>5, QuietKeeps

\* A leader commits entries of its term that a majority took over: they were
\* chosen.
LEMMA CommitKeeps ==
  ASSUME NEW h, NEW ns \in [Server -> RaftNode], Explains(h, ns),
         NEW i \in Server, ns[i].role = "Leader"
  PROVE  Explains(h, [ns EXCEPT ![i] = MaybeAdvanceCommit(i, ns[i])])
<1> DEFINE n == ns[i]
           t == n.current_term
           s == n.log
           c == Max(Committable(i, n))
<1>1. CASE Committable(i, n) = {}
  <2>1. MaybeAdvanceCommit(i, n) = n
    BY <1>1 DEF MaybeAdvanceCommit
  <2>2. [ns EXCEPT ![i] = n] = ns
    OBVIOUS
  <2> QED  BY <2>1, <2>2
<1>2. CASE Committable(i, n) # {}
  <2>1. /\ n \in RaftNode /\ t \in Nat /\ s \in Seq(LogEntry) /\ Len(s) \in Nat
        /\ n.commit_index \in Nat /\ \A p \in Server : n.match_index[p] \in Nat
    BY NodeFields
  <2>2. c \in Committable(i, n)
    BY <1>2, <2>1, CommittableMax
  <2>3. /\ c \in n.commit_index + 1 .. Len(s) /\ TermAt(n, c) = t
        /\ Cardinality(HoldersOf(i, n, c)) >= Majority
    <3> HIDE DEF c
    <3> QED  BY <2>2 DEF Committable, LastLogIndex
  <2>4. MaybeAdvanceCommit(i, n) = ApplyCommitted([n EXCEPT !.commit_index = c])
    BY <1>2 DEF MaybeAdvanceCommit
  <2> HIDE DEF c
  <2>5. c \in Nat /\ n.commit_index <= c /\ c <= Len(s) /\ c \in 1..Len(s)
    BY <2>1, <2>3
  <2>6. h \in History /\ OfficeOk(h, i, n) /\ LeaderOk(h, ns, t) /\ i # Nil
    BY <2>1, StoreNodeAssumption DEF Explains, NodeOk
  <2>7. h.ldr[t] = i /\ h.llog[t] = s /\ \A p \in Server \ {i} : n.match_index[p] <= h.acc[t][p]
    BY <2>6 DEF OfficeOk
  <2>8. h.acc[t][i] = Len(s)
    BY <2>6, <2>7 DEF LeaderOk
  <2>9. Proposed(h, t, c)
    BY <2>3, <2>5, <2>6, <2>7 DEF Proposed, TermAt
  <2>10. Chosen(h, t, c)
    <3> DEFINE Q == HoldersOf(i, n, c)
    <3>1. IsQuorum(Q) /\ Q \in SUBSET Server
      BY <2>3 DEF IsQuorum, HoldersOf
    <3>2. \A q \in Q : h.acc[t][q] >= c
      <4> SUFFICES ASSUME NEW q \in Q PROVE h.acc[t][q] >= c
        OBVIOUS
      <4>1. CASE q = i
        BY <2>1, <2>5, <2>8, <4>1
      <4>2. CASE q # i
        <5>1. q \in Server \ {i} /\ n.match_index[q] >= c
          BY <4>2 DEF HoldersOf
        <5>2. n.match_index[q] \in Nat /\ h.acc[t][q] \in Nat
          BY <2>1, <2>6, <5>1, HistoryFields
        <5> HIDE DEF n, t
        <5> QED  BY <2>5, <2>7, <5>1, <5>2
      <4> QED  BY <4>1, <4>2
    <3> HIDE DEF Q
    <3> QED  BY <2>9, <3>1, <3>2 DEF Chosen
  <2>11. Committed(h, s, c, t)
    <3>1. Same(s, s, c) /\ t <= t /\ c <= c
      BY <2>1, <2>5 DEF Same
    <3> QED  BY <2>1, <2>5, <2>7, <2>10, <3>1 DEF Committed
  <2> QED  BY <2>4, <2>5, <2>11, ApplyKeeps
<1> QED  BY <1>1, <1>2

\* A follower applies what its term's leader has committed.
LEMMA CatchUpKeeps ==
  ASSUME NEW h, NEW ns \in [Server -> RaftNode], Explains(h, ns),
         NEW i \in Server, h.ldr[ns[i].current_term] # i,
         NEW m \in Message, m.type = "AppendEntries", m.leader_commit <= Len(ns[i].log),
         Committed(h, ns[i].log, m.leader_commit, ns[i].current_term)
  PROVE  /\ Explains(h, [ns EXCEPT ![i] = CaughtUp(ns[i], m)])
         /\ CaughtUp(ns[i], m).current_term = ns[i].current_term
<1> DEFINE n == ns[i]
           c == m.leader_commit
<1>1. n \in RaftNode /\ c \in Nat /\ n.commit_index \in Nat /\ Len(n.log) \in Nat
  BY MessageFields, NodeFields
<1>2. CASE c > n.commit_index
  <2>1. Min({c, Len(n.log)}) = c
    <3>1. Min({c, Len(n.log)}) = IF c <= Len(n.log) THEN c ELSE Len(n.log)
      BY <1>1, MinOfTwo
    <3> QED  BY <3>1
  <2>2. CaughtUp(n, m) = ApplyCommitted([n EXCEPT !.commit_index = c])
    BY <1>2, <2>1 DEF CaughtUp
  <2>3. n.commit_index <= c
    BY <1>1, <1>2
  <2> DEFINE v == CaughtUp(n, m)
  <2>4. v = ApplyCommitted([n EXCEPT !.commit_index = c])
    BY <2>2
  <2> HIDE DEF v
  <2>5. Explains(h, [ns EXCEPT ![i] = v]) /\ SameSeat(n, v)
    BY <1>1, <2>3, <2>4, ApplyKeeps
  <2> QED  BY <2>5 DEF SameSeat, v
<1>3. CASE ~(c > n.commit_index)
  <2>1. CaughtUp(n, m) = n
    BY <1>3 DEF CaughtUp
  <2>2. [ns EXCEPT ![i] = n] = ns
    OBVIOUS
  <2> QED  BY <2>1, <2>2
<1> QED  BY <1>2, <1>3

\* A candidate that hears of its term's leader follows it.
LEMMA FollowKeeps ==
  ASSUME NEW h, NEW ns \in [Server -> RaftNode], Explains(h, ns),
         NEW i \in Server, h.ldr[ns[i].current_term] # i
  PROVE  Explains(h, [ns EXCEPT ![i] = [ns[i] EXCEPT !.role = "Follower"]])
<1> DEFINE n == [ns[i] EXCEPT !.role = "Follower"]
<1>1. ns[i] \in RaftNode /\ AppliedOk(h, ns[i])
  BY DEF Explains, NodeOk
<1>2. /\ n \in RaftNode /\ n.role = "Follower" /\ n.current_term = ns[i].current_term
      /\ n.voted_for = ns[i].voted_for /\ n.log = ns[i].log /\ n.kv = ns[i].kv
      /\ n.commit_index = ns[i].commit_index /\ n.last_applied = ns[i].last_applied
  BY <1>1 DEF RaftNode, Role
<1> HIDE DEF n
<1>3. AppliedOk(h, n) /\ OfficeOk(h, i, n)
  BY <1>1, <1>2 DEF AppliedOk, OfficeOk
<1>4. Explains(h, [ns EXCEPT ![i] = n])
  BY <1>2, <1>3, QuietKeeps
<1> QED  BY <1>4 DEF n

\* A leader notes what a follower took over, or tries it one entry earlier.
LEMMA ProgressKeeps ==
  ASSUME NEW h, NEW ns \in [Server -> RaftNode], Explains(h, ns),
         NEW i \in Server, ns[i].role = "Leader",
         NEW m \in Message, m.type = "AppendEntriesReply"
  PROVE  /\ m.from # i /\ m.match_index <= h.acc[ns[i].current_term][m.from] =>
              Explains(h, [ns EXCEPT ![i] = Progressed(ns[i], m)])
         /\ Explains(h, [ns EXCEPT ![i] = SteppedBack(ns[i], m)])
<1> DEFINE n == ns[i]
           t == n.current_term
           j == m.from
           mi == [n.match_index EXCEPT ![j] = m.match_index]
           ni == [n.next_index EXCEPT ![j] = m.match_index + 1]
           back == [n.next_index EXCEPT ![j] = StepBack(@)]
           p == Progressed(n, m)
           b == SteppedBack(n, m)
<1>1. /\ n \in RaftNode /\ j \in Server /\ m.match_index \in Nat /\ t \in Nat
      /\ n.next_index \in [Server -> Nat \ {0}] /\ n.match_index \in [Server -> Nat]
      /\ n.log \in Seq(LogEntry) /\ Len(n.log) \in Nat
  BY MessageFields, NodeFields DEF RaftNode
<1>2. p = [n EXCEPT !.match_index = mi, !.next_index = ni] /\ b = [n EXCEPT !.next_index = back]
  BY DEF Progressed, SteppedBack, RaftNode
<1>3. p \in RaftNode /\ b \in RaftNode
  BY <1>1, ProgressType
<1>4. /\ \A q \in Server : /\ mi[q] = IF q = j THEN m.match_index ELSE n.match_index[q]
                           /\ ni[q] = IF q = j THEN m.match_index + 1 ELSE n.next_index[q]
                           /\ back[q] = IF q = j THEN StepBack(n.next_index[j]) ELSE n.next_index[q]
  BY <1>1
<1>5. h \in History /\ AppliedOk(h, n) /\ OfficeOk(h, i, n) /\ LeaderOk(h, ns, t) /\ i # Nil
  BY <1>1, StoreNodeAssumption DEF Explains, NodeOk
<1> HIDE DEF p, b, mi, ni, back, j
<1>6. /\ p.role = "Leader" /\ p.current_term = t /\ p.voted_for = n.voted_for /\ p.log = n.log
      /\ p.kv = n.kv /\ p.commit_index = n.commit_index /\ p.last_applied = n.last_applied
      /\ p.votes_received = n.votes_received /\ p.match_index = mi /\ p.next_index = ni
      /\ b.role = "Leader" /\ b.current_term = t /\ b.voted_for = n.voted_for /\ b.log = n.log
      /\ b.kv = n.kv /\ b.commit_index = n.commit_index /\ b.last_applied = n.last_applied
      /\ b.votes_received = n.votes_received /\ b.match_index = n.match_index
      /\ b.next_index = back
  BY <1>1, <1>2 DEF RaftNode
<1>7. AppliedOk(h, p) /\ AppliedOk(h, b)
  BY <1>5, <1>6 DEF AppliedOk
<1>8. /\ n.voted_for = i /\ n.votes_received = Cardinality(h.counted[t][i]) /\ i \in h.counted[t][i]
      /\ h.ldr[t] = i /\ h.llog[t] = n.log
      /\ \A q \in Server \ {i} : /\ n.next_index[q] <= Len(n.log) + 1
                                 /\ n.match_index[q] <= h.acc[t][q]
  BY <1>5 DEF OfficeOk
<1> HIDE DEF n, t
<1>9. OfficeOk(h, i, b)
  <2>1. \A q \in Server \ {i} : back[q] <= Len(n.log) + 1
    <3> SUFFICES ASSUME NEW q \in Server \ {i} PROVE back[q] <= Len(n.log) + 1
      OBVIOUS
    <3>1. n.next_index[q] <= Len(n.log) + 1 /\ n.next_index[q] \in Nat \ {0}
      BY <1>1, <1>8
    <3>2. back[q] = IF q = j THEN StepBack(n.next_index[j]) ELSE n.next_index[q]
      BY <1>4
    <3> QED  BY <1>1, <3>1, <3>2 DEF StepBack
  <2> QED  BY <1>6, <1>8, <2>1 DEF OfficeOk
<1>10. ASSUME j # i, m.match_index <= h.acc[t][j]
       PROVE  OfficeOk(h, i, p)
  <2>1. \A q \in Server \ {i} : mi[q] <= h.acc[t][q]
    BY <1>4, <1>8, <1>10
  <2>2. m.match_index + 1 <= Len(n.log) + 1
    <3>1. h.acc[t][j] <= Len(n.log) /\ h.acc[t][j] \in Nat
      BY <1>1, <1>5, <1>8, HistoryFields DEF LeaderOk, TakenOver
    <3> QED  BY <1>1, <1>10, <3>1
  <2>3. \A q \in Server \ {i} : ni[q] <= Len(n.log) + 1
    BY <1>4, <1>8, <2>2
  <2> QED  BY <1>6, <1>8, <2>1, <2>3 DEF OfficeOk
<1>11. Explains(h, [ns EXCEPT ![i] = b])
  BY <1>3, <1>6, <1>7, <1>9, QuietKeeps DEF n, t
<1>12. j # i /\ m.match_index <= h.acc[t][j] => Explains(h, [ns EXCEPT ![i] = p])
  BY <1>3, <1>6, <1>7, <1>10, QuietKeeps DEF n, t
<1> QED  BY <1>11, <1>12 DEF p, b, n, t, j

-----------------------------------------------------------------------------
(* A leader appends a client's command.                                    *)

\* No one has taken the new entry over yet; if its term is over for a majority,
\* it never will be chosen, so that no later leader need have it.
LEMMA WriteKeeps ==
  ASSUME NEW h, NEW ns \in [Server -> RaftNode], Explains(h, ns),
         NEW i \in Server, NEW n \in RaftNode, ns[i].role = "Leader",
         NEW e \in LogEntry, e.term = ns[i].current_term,
         n.log = Append(ns[i].log, e),
         n.current_term = ns[i].current_term, n.voted_for = ns[i].voted_for,
         n.role = "Leader", n.votes_received = ns[i].votes_received,
         n.next_index = ns[i].next_index, n.match_index = ns[i].match_index,
         n.kv = ns[i].kv, n.commit_index = ns[i].commit_index,
         n.last_applied = ns[i].last_applied,
         NEW g, g = Led(h, i, n.current_term, n.log)
  PROVE  /\ Explains(g, [ns EXCEPT ![i] = n]) /\ Grows(h, g)
         /\ LedAs(h, i, n.current_term, n.log, g)
<1> DEFINE ms == [ns EXCEPT ![i] = n]
           t == n.current_term
           s == ns[i].log
           r == n.log
           z == Len(s) + 1
<1>1. /\ h \in History /\ t \in Nat /\ ns[i].current_term = t /\ s \in Seq(LogEntry)
      /\ Len(s) \in Nat /\ r \in Seq(LogEntry) /\ Len(r) = z /\ z \in Nat
      /\ r[z] = e /\ \A l \in 1..Len(s) : r[l] = s[l]
  <2>1. h \in History /\ ns[i] \in RaftNode /\ ns[i].log \in Seq(LogEntry) /\ t \in Nat
    BY NodeFields DEF Explains
  <2>2. Len(s) \in Nat /\ z \in Nat
    BY <2>1
  <2>3. r = Append(s, e)
    OBVIOUS
  <2> HIDE DEF s, r, t
  <2>4. r \in Seq(LogEntry) /\ Len(r) = z /\ r[z] = e /\ \A l \in 1..Len(s) : r[l] = s[l]
    BY <2>1, <2>3, AppendProperties DEF s
  <2> QED  BY <2>1, <2>2, <2>4 DEF s, r, t
<1>2. ms \in [Server -> RaftNode] /\ \A q \in Server : ms[q] = IF q = i THEN n ELSE ns[q]
  BY OneChanged
<1>3. LedAs(h, i, t, r, g)
  BY <1>1, LedFields
<1> HIDE DEF ms, t, s, r
<1>4. /\ g \in History
      /\ g.vote = h.vote /\ g.clog = h.clog /\ g.counted = h.counted
      /\ \A u \in Nat : /\ g.ldr[u] = IF u = t THEN i ELSE h.ldr[u]
                        /\ g.llog[u] = IF u = t THEN r ELSE h.llog[u]
      /\ \A u \in Nat, v \in Server :
           g.acc[u][v] = IF u = t /\ v = i THEN z ELSE h.acc[u][v]
  BY <1>1, <1>3 DEF LedAs
<1>5. /\ NodeOk(h, ns, i) /\ LeaderOk(h, ns, t) /\ i # Nil /\ VoteOk(h, ns, t, i)
  BY <1>1, StoreNodeAssumption DEF Explains
<1>6. /\ ns[i].voted_for = i /\ ns[i].votes_received = Cardinality(h.counted[t][i])
      /\ i \in h.counted[t][i] /\ h.ldr[t] = i /\ h.llog[t] = s
      /\ \A p \in Server \ {i} : /\ ns[i].next_index[p] <= Len(s) + 1
                                 /\ ns[i].match_index[p] <= h.acc[t][p]
  <2>1. OfficeOk(h, i, ns[i])
    BY <1>5 DEF NodeOk
  <2> QED  BY <1>1, <2>1 DEF OfficeOk, s
<1>7. /\ h.vote[t][i] = i /\ IsQuorum(h.counted[t][i]) /\ Owned(h, s) /\ TermsBelow(s, t + 1)
      /\ h.acc[t][i] = Len(s) /\ \A v \in Server : TakenOver(h, ns, t, v)
      /\ Complete(h, ns, s, t)
  BY <1>5, <1>6 DEF LeaderOk
<1>8. \A v \in Server : h.acc[t][v] \in Nat /\ h.acc[t][v] <= Len(s)
  <2> SUFFICES ASSUME NEW v \in Server PROVE h.acc[t][v] \in Nat /\ h.acc[t][v] <= Len(s)
    OBVIOUS
  <2>1. TakenOver(h, ns, t, v)
    BY <1>7
  <2> QED  BY <1>1, <1>6, <2>1, HistoryFields DEF TakenOver
<1>9. Grows(h, g)
  <2>1. \A u \in Nat : h.llog[u] \in Seq(LogEntry) /\ \A v \in Server : h.acc[u][v] \in Nat
    BY <1>1, HistoryFields
  <2>2. \A u \in Nat, v \in Server : h.acc[u][v] <= g.acc[u][v]
    BY <1>1, <1>4, <1>7, <2>1
  <2>3. \A u \in Nat : Same(g.llog[u], h.llog[u], Len(h.llog[u]))
    <3> SUFFICES ASSUME NEW u \in Nat PROVE Same(g.llog[u], h.llog[u], Len(h.llog[u]))
      OBVIOUS
    <3>1. CASE u = t
      BY <1>1, <1>4, <1>6, <3>1 DEF Same
    <3>2. CASE u # t
      BY <1>4, <2>1, <3>2 DEF Same
    <3> QED  BY <3>1, <3>2
  <2> QED  BY <1>4, <1>6, <2>2, <2>3, ZenonT(30) DEF Grows
<1>10. \A q \in Server : ms[q].current_term = ns[q].current_term /\ ns[q].current_term \in Nat
  BY <1>1, <1>2, NodeFields DEF t
<1>11. \A u \in Nat, v \in Server : u # t \/ v # i => g.acc[u][v] = h.acc[u][v]
  BY <1>4
<1>12. ASSUME NEW u \in Nat, NEW k \in Nat, Choosable(g, ms, u, k), ~(u = t /\ k = z)
       PROVE  /\ Choosable(h, ns, u, k) /\ k \in 1..Len(h.llog[u])
              /\ \A l \in 1..k : g.llog[u][l] = h.llog[u][l]
  <2>1. Proposed(g, u, k) /\ h.llog[u] \in Seq(LogEntry) /\ Len(h.llog[u]) \in Nat
    BY <1>1, <1>12, HistoryFields DEF Choosable
  <2>2. Proposed(h, u, k) /\ k \in 1..Len(h.llog[u])
    <3>1. CASE u = t
      BY <1>1, <1>4, <1>5, <1>6, <1>12, <2>1, <3>1 DEF Proposed
    <3>2. CASE u # t
      BY <1>4, <2>1, <3>2 DEF Proposed
    <3> QED  BY <3>1, <3>2
  <2>3. \A l \in 1..k : g.llog[u][l] = h.llog[u][l]
    BY <1>1, <1>4, <1>6, <2>2, SMTT(30)
  <2>4. \A q \in Server : /\ ns[q].current_term <= ms[q].current_term
                          /\ g.acc[u][q] # h.acc[u][q] => ns[q].current_term <= u
    BY <1>1, <1>10, <1>11
  <2>5. Choosable(h, ns, u, k)
    BY <1>1, <1>2, <1>4, <1>9, <1>12, <2>2, <2>4, ChoosableShrinks, ZenonT(30)
  <2> QED  BY <2>2, <2>3, <2>5
<1>13. ASSUME NEW q \in Seq(LogEntry), NEW u \in Nat, NEW k \in Nat,
              Choosable(g, ms, u, k), ~(u = t /\ k = z), Same(q, h.llog[u], k)
       PROVE  Same(q, g.llog[u], k)
  <2>1. Proposed(g, u, k) /\ g.llog[u] \in Seq(LogEntry)
    BY <1>4, <1>13, HistoryFields DEF Choosable
  <2>2. k <= Len(g.llog[u])
    BY <2>1 DEF Proposed
  <2> QED  BY <1>12, <1>13, <2>2 DEF Same
<1>14. ASSUME NEW q \in Seq(LogEntry), NEW v \in Server, NEW w \in Nat, v = i => w <= t,
              Carries(h, ns, q, v, w)
       PROVE  Carries(g, ms, q, v, w)
  <2> SUFFICES ASSUME NEW u \in Nat, NEW k \in Nat, u < w, Choosable(g, ms, u, k),
                      g.acc[u][v] >= k
               PROVE  Same(q, g.llog[u], k)
    BY DEF Carries
  <2>1. u # t \/ v # i
    BY <1>1, <1>14
  <2>2. g.acc[u][v] = h.acc[u][v]
    BY <1>11, <2>1
  <2>3. ~(u = t /\ k = z)
    BY <1>1, <1>8, <2>2
  <2>4. Same(q, h.llog[u], k)
    BY <1>12, <1>14, <2>2, <2>3 DEF Carries
  <2> QED  BY <1>13, <2>3, <2>4
<1>15. ASSUME NEW q \in Seq(LogEntry), NEW w \in Nat, w <= t, Complete(h, ns, q, w)
       PROVE  Complete(g, ms, q, w)
  <2> SUFFICES ASSUME NEW u \in Nat, NEW k \in Nat, u < w, Choosable(g, ms, u, k)
               PROVE  Same(q, g.llog[u], k)
    BY DEF Complete
  <2>1. ~(u = t /\ k = z)
    BY <1>1, <1>15
  <2>2. Same(q, h.llog[u], k)
    BY <1>12, <1>15, <2>1 DEF Complete
  <2> QED  BY <1>13, <2>1, <2>2
<1>16. ASSUME NEW w \in Nat, w > t, h.ldr[w] # Nil
       PROVE  ~Choosable(g, ms, t, z)
  <2> SUFFICES ASSUME Choosable(g, ms, t, z) PROVE FALSE
    OBVIOUS
  <2> DEFINE c == h.ldr[w]
             C == h.counted[w][c]
  <2>1. LeaderOk(h, ns, w) /\ c \in Server
    BY <1>1, <1>16, HistoryFields DEF Explains
  <2>2. IsQuorum(C) /\ c # Nil
    BY <1>16, <2>1 DEF LeaderOk
  <2>3. PICK Q \in SUBSET Server :
          IsQuorum(Q) /\ \A q \in Q : g.acc[t][q] >= z \/ ms[q].current_term <= t
    BY DEF Choosable
  <2>4. PICK q \in Q : q \in C
    BY <2>2, <2>3, QuorumsMeet
  <2>5. q \in Server /\ h.vote[w][q] = c
    BY <1>1, <2>1, <2>4 DEF Explains, VoteOk
  <2>6. ~(ns[q].current_term < w)
    BY <2>2, <2>5 DEF Explains, VoteOk
  <2>7. ns[q].current_term > t /\ ms[q].current_term > t /\ q # i
    BY <1>1, <1>10, <1>16, <2>5, <2>6
  <2>8. g.acc[t][q] <= Len(s) /\ g.acc[t][q] \in Nat
    BY <1>1, <1>8, <1>11, <2>5, <2>7
  <2> QED  BY <1>1, <1>10, <2>3, <2>4, <2>5, <2>7, <2>8
<1>17. SameVotes(h, ns, g, ms)
  BY <1>1, <1>2, <1>4, <1>9, <1>10 DEF SameVotes
<1>18. ASSUME NEW u \in Nat, NEW v \in Server PROVE VoteOk(g, ms, u, v)
  <2> DEFINE q == h.clog[u][h.vote[u][v]]
  <2>1. VoteOk(h, ns, u, v)
    BY DEF Explains
  <2>2. h.vote[u][v] # Nil /\ v = i => u <= t
    BY <1>1, <2>1 DEF VoteOk
  <2>3. h.vote[u][v] # Nil => q \in Seq(LogEntry)
    BY <1>1, HistoryFields
  <2>4. h.vote[u][v] # Nil => (Carries(h, ns, q, v, u) => Carries(g, ms, q, v, u))
    BY <1>14, <2>2, <2>3
  <2> QED  BY <1>2, <1>4, <1>17, <2>4, VoteKeptToo
<1>19. /\ \A q \in Seq(LogEntry), k \in Nat : Same(s, q, k) => Same(r, q, k)
       /\ \A q \in Seq(LogEntry), k \in Nat : Same(q, s, k) => Same(q, r, k)
       /\ \A k \in Nat : k <= z => Same(r, r, k)
  BY <1>1 DEF Same
<1>20. Owned(g, r) /\ TermsBelow(r, t + 1)
  <2>1. Owned(g, s)
    BY <1>1, <1>4, <1>7, <1>9, OwnedKept
  <2>2. ASSUME NEW l \in 1..Len(r)
        PROVE  g.ldr[r[l].term] # Nil /\ Same(r, g.llog[r[l].term], l) /\ r[l].term < t + 1
    <3>1. CASE l <= Len(s)
      <4>1. l \in 1..Len(s) /\ r[l] = s[l] /\ l \in Nat
        BY <1>1, <3>1
      <4>2. /\ s[l].term \in Nat /\ g.ldr[s[l].term] # Nil /\ Same(s, g.llog[s[l].term], l)
            /\ g.llog[s[l].term] \in Seq(LogEntry)
        BY <1>1, <1>4, <2>1, <4>1, OwnedEntry, HistoryFields
      <4>3. s[l].term < t + 1
        BY <1>7, <4>1 DEF TermsBelow
      <4> QED  BY <1>19, <4>1, <4>2, <4>3
    <3>2. CASE ~(l <= Len(s))
      <4>1. l = z /\ r[l].term = t
        BY <1>1, <3>2
      <4>2. Same(r, r, z)
        BY <1>1, <1>19
      <4> QED  BY <1>1, <1>4, <1>5, <4>1, <4>2
    <3> QED  BY <3>1, <3>2
  <2> QED  BY <2>2 DEF Owned, TermsBelow
<1>21. ASSUME NEW u \in Nat PROVE LeaderOk(g, ms, u)
  <2>1. CASE u = t
    <3>1. g.ldr[t] = i /\ g.llog[t] = r /\ g.acc[t][i] = z /\ g.vote[t][i] = i
          /\ IsQuorum(g.counted[t][i]) /\ ms[i].role = "Leader"
      BY <1>1, <1>2, <1>4, <1>7
    <3>2. Complete(g, ms, r, t)
      <4>1. Complete(g, ms, s, t)
        BY <1>1, <1>7, <1>15
      <4>2. \A w \in Nat : g.llog[w] \in Seq(LogEntry)
        BY <1>4, HistoryFields
      <4> QED  BY <1>19, <4>1, <4>2 DEF Complete
    <3>3. ASSUME NEW v \in Server PROVE TakenOver(g, ms, t, v)
      <4>1. CASE v = i
        <5>1. ms[i].log = r /\ ms[i].current_term = t /\ Same(r, r, z) /\ z <= Len(r)
          BY <1>1, <1>2, <1>19 DEF r, t
        <5> QED  BY <1>1, <3>1, <4>1, <5>1 DEF TakenOver
      <4>2. CASE v # i
        <5>1. TakenOver(h, ns, t, v) /\ ms[v] = ns[v] /\ g.acc[t][v] = h.acc[t][v]
              /\ h.acc[t][v] \in Nat /\ h.acc[t][v] <= Len(s) /\ ns[v].log \in Seq(LogEntry)
          BY <1>1, <1>2, <1>7, <1>8, <1>11, <4>2, NodeFields
        <5>2. ns[v].current_term = t => Same(ns[v].log, r, h.acc[t][v])
          BY <1>6, <1>19, <5>1 DEF TakenOver
        <5>3. h.acc[t][v] <= Len(r)
          BY <1>1, <5>1
        <5> QED  BY <3>1, <5>1, <5>2, <5>3 DEF TakenOver
      <4> QED  BY <4>1, <4>2
    <3> QED  BY <1>1, <1>5, <1>20, <2>1, <3>1, <3>2, <3>3 DEF LeaderOk
  <2>2. CASE u # t
    <3> DEFINE c == h.ldr[u]
    <3>1. /\ LeaderOk(h, ns, u) /\ c \in Server \cup {Nil} /\ g.ldr[u] = c
          /\ g.llog[u] = h.llog[u] /\ \A v \in Server : g.acc[u][v] = h.acc[u][v]
          /\ h.llog[u] \in Seq(LogEntry)
      BY <1>1, <1>4, <2>2, HistoryFields DEF Explains
    <3>2. CASE c = Nil
      BY <3>1, <3>2 DEF LeaderOk
    <3>3. CASE c # Nil
      <4>1. /\ h.vote[u][c] = c /\ IsQuorum(h.counted[u][c])
            /\ ns[c].current_term = u => ns[c].role = "Leader"
            /\ Owned(h, h.llog[u]) /\ TermsBelow(h.llog[u], u + 1)
            /\ h.acc[u][c] = Len(h.llog[u])
            /\ \A v \in Server : TakenOver(h, ns, u, v)
            /\ Complete(h, ns, h.llog[u], u) /\ c \in Server
        BY <3>1, <3>3 DEF LeaderOk
      <4>2. Owned(g, h.llog[u])
        BY <1>1, <1>4, <1>9, <3>1, <4>1, OwnedKept
      <4>3. Complete(g, ms, h.llog[u], u)
        <5> SUFFICES ASSUME NEW w \in Nat, NEW k \in Nat, w < u, Choosable(g, ms, w, k)
                     PROVE  Same(h.llog[u], g.llog[w], k)
          BY DEF Complete
        <5>1. ~(w = t /\ k = z)
          BY <1>1, <1>16, <3>3
        <5>2. Same(h.llog[u], h.llog[w], k)
          BY <1>12, <4>1, <5>1 DEF Complete
        <5> QED  BY <1>13, <3>1, <5>1, <5>2
      <4>4. \A v \in Server : TakenOver(g, ms, u, v)
        <5> SUFFICES ASSUME NEW v \in Server PROVE TakenOver(g, ms, u, v)
          OBVIOUS
        <5>1. TakenOver(h, ns, u, v) /\ ms[v].current_term = ns[v].current_term
              /\ g.acc[u][v] = h.acc[u][v]
          BY <1>10, <3>1, <4>1
        <5>2. ns[v].current_term = u => ms[v].log = ns[v].log
          BY <1>1, <1>2, <2>2
        <5> QED  BY <3>1, <5>1, <5>2 DEF TakenOver
      <4>5. ms[c].current_term = u => ms[c].role = "Leader"
        BY <1>2, <1>10, <4>1
      <4> QED  BY <1>4, <3>1, <3>3, <4>1, <4>2, <4>3, <4>4, <4>5, ZenonT(30) DEF LeaderOk
    <3> QED  BY <3>1, <3>2, <3>3
  <2> QED  BY <2>1, <2>2
<1>22. AppliedOk(g, n)
  <2> DEFINE c == ns[i].commit_index
             kv == ns[i].kv
  <2>1. /\ ns[i].last_applied = c /\ Len(kv) = c /\ Same(kv, s, c) /\ Committed(h, s, c, t)
        /\ c \in Nat /\ kv \in Seq(LogEntry)
    <3>1. ns[i] \in RaftNode /\ AppliedOk(h, ns[i])
      BY <1>5 DEF NodeOk
    <3> QED  BY <1>1, <3>1, NodeFields DEF AppliedOk, s
  <2> HIDE DEF c, kv
  <2>2. Same(kv, r, c) /\ Same(r, s, c) /\ t <= t
    <3>1. c <= Len(s)
      BY <2>1 DEF Same
    <3>2. Same(s, s, c)
      BY <1>1, <2>1, <3>1 DEF Same
    <3> QED  BY <1>1, <1>19, <2>1, <3>2
  <2>3. Committed(g, r, c, t)
    BY <1>1, <1>4, <1>9, <2>1, <2>2, CommittedKept
  <2> QED  BY <2>1, <2>2, <2>3 DEF AppliedOk, r, t, c, kv
<1>23. Carries(g, ms, r, i, t + 1)
  <2> SUFFICES ASSUME NEW u \in Nat, NEW k \in Nat, u < t + 1, Choosable(g, ms, u, k),
                      g.acc[u][i] >= k
               PROVE  Same(r, g.llog[u], k)
    BY DEF Carries
  <2>1. CASE u = t
    <3>1. g.acc[t][i] = z /\ g.llog[t] = r
      BY <1>1, <1>4
    <3> QED  BY <1>1, <1>19, <2>1, <3>1
  <2>2. CASE u # t
    <3>1. u < t /\ g.acc[u][i] = h.acc[u][i] /\ ~(u = t /\ k = z)
      BY <1>1, <1>11, <2>2
    <3>2. Carries(h, ns, s, i, t + 1)
      BY <1>1, <1>5 DEF NodeOk, s
    <3>3. Same(s, h.llog[u], k)
      BY <1>12, <3>1, <3>2 DEF Carries
    <3>4. Same(s, g.llog[u], k) /\ g.llog[u] \in Seq(LogEntry)
      BY <1>1, <1>4, <1>13, <3>1, <3>3, HistoryFields
    <3> QED  BY <1>19, <3>4
  <2> QED  BY <2>1, <2>2
<1>24. OfficeOk(g, i, n)
  <2>1. g.ldr[t] = i /\ g.llog[t] = r /\ g.counted = h.counted
    BY <1>1, <1>4
  <2>2. ASSUME NEW p \in Server \ {i}
        PROVE  ns[i].next_index[p] <= Len(r) + 1 /\ ns[i].match_index[p] <= g.acc[t][p]
    <3>1. ns[i].next_index[p] \in Nat
      BY NodeFields
    <3> QED  BY <1>1, <1>6, <1>11, <3>1
  <2> QED  BY <1>6, <2>1, <2>2 DEF OfficeOk, t, r
<1>25. ASSUME NEW j \in Server PROVE NodeOk(g, ms, j)
  <2>1. CASE j = i
    <3>1. ms[i] = n
      BY <1>2
    <3> QED  BY <1>20, <1>22, <1>23, <1>24, <2>1, <3>1 DEF NodeOk, r, t
  <2>2. CASE j # i
    <3>1. ms[j] = ns[j] /\ NodeOk(h, ns, j) /\ ns[j] \in RaftNode /\ ns[j].current_term \in Nat
          /\ ns[j].log \in Seq(LogEntry)
      BY <1>2, <1>10, <2>2, NodeFields DEF Explains
    <3>2. AppliedOk(g, ns[j])
      <4>1. ns[j].current_term <= ns[j].current_term
        BY <3>1
      <4> QED  BY <1>1, <1>4, <1>9, <3>1, <4>1, AppliedKept DEF NodeOk
    <3>3. Owned(g, ns[j].log) /\ TermsBelow(ns[j].log, ns[j].current_term + 1)
      BY <1>1, <1>4, <1>9, <3>1, OwnedKept DEF NodeOk
    <3>4. Carries(g, ms, ns[j].log, j, ns[j].current_term + 1)
      <4>1. ns[j].current_term + 1 \in Nat /\ Carries(h, ns, ns[j].log, j, ns[j].current_term + 1)
        BY <3>1 DEF NodeOk
      <4> QED  BY <1>14, <2>2, <3>1, <4>1
    <3>5. OfficeOk(g, j, ns[j])
      <4> DEFINE w == ns[j].current_term
      <4>1. OfficeOk(h, j, ns[j])
        BY <3>1 DEF NodeOk
      <4>2. ns[j].role = "Leader" => w # t
        BY <1>5, <1>6, <2>2, <4>1 DEF OfficeOk
      <4>3. w # t => /\ g.ldr[w] = h.ldr[w] /\ g.llog[w] = h.llog[w]
                     /\ \A p \in Server : g.acc[w][p] = h.acc[w][p]
        BY <1>4, <3>1
      <4> QED  BY <1>4, <4>1, <4>2, <4>3 DEF OfficeOk
    <3> QED  BY <3>1, <3>2, <3>3, <3>4, <3>5 DEF NodeOk
  <2> QED  BY <2>1, <2>2
<1> QED  BY <1>3, <1>4, <1>9, <1>18, <1>21, <1>25 DEF Explains, ms, t, r

-----------------------------------------------------------------------------
(* The bus: what is taken from its front, what is put behind it.           *)

\* What is left when the oldest message is taken.
LEMMA TailOnce ==
  ASSUME NEW b \in Seq(Envelope), b # <<>>, Once(b)
  PROVE  /\ Head(b) \in Envelope /\ Head(b) \in Range(b) /\ Tail(b) \in Seq(Envelope)
         /\ \A e \in Range(Tail(b)) : e \in Range(b)
         /\ Once(Tail(b))
         /\ Single(Head(b)) => Head(b) \notin Range(Tail(b))
<1> DEFINE c == Tail(b)
           e == Head(b)
<1>1. /\ Len(b) \in Nat /\ Len(b) > 0 /\ c \in Seq(Envelope) /\ Len(c) = Len(b) - 1
      /\ \A k \in 1..Len(c) : c[k] = b[k + 1]
      /\ e = b[1] /\ e \in Envelope
  OBVIOUS
<1>2. DOMAIN b = 1..Len(b) /\ DOMAIN c = 1..Len(c)
  OBVIOUS
<1> HIDE DEF c, e
<1>3. \A k \in 1..Len(c) : k + 1 \in 1..Len(b)
  BY <1>1
<1>4. 1 \in 1..Len(b)
  BY <1>1
<1>5. e \in Range(b) /\ \A x \in Range(c) : x \in Range(b)
  BY <1>1, <1>2, <1>3, <1>4 DEF Range
<1>6. Once(c)
  <2> SUFFICES ASSUME NEW k \in 1..Len(c), NEW l \in 1..Len(c), c[k] = c[l], Single(c[k])
               PROVE  k = l
    BY <1>2 DEF Once
  <2>1. b[k + 1] = b[l + 1] /\ Single(b[k + 1]) /\ k + 1 \in DOMAIN b /\ l + 1 \in DOMAIN b
    BY <1>1, <1>2, <1>3
  <2>2. k + 1 = l + 1
    BY <2>1 DEF Once
  <2> QED  BY <2>2
<1>7. ASSUME Single(e), e \in Range(c) PROVE FALSE
  <2>1. PICK k \in 1..Len(c) : e = c[k]
    BY <1>2, <1>7 DEF Range
  <2>2. b[1] = b[k + 1] /\ Single(b[1]) /\ 1 \in DOMAIN b /\ k + 1 \in DOMAIN b
    BY <1>1, <1>2, <1>3, <1>4, <1>7, <2>1
  <2>3. 1 = k + 1
    BY <2>2 DEF Once
  <2> QED  BY <2>3
<1> QED  BY <1>1, <1>5, <1>6, <1>7 DEF c, e

\* What is put behind adds what was not there.
LEMMA ConcatOnce ==
  ASSUME NEW b \in Seq(Envelope), NEW c \in Seq(Envelope), Once(b), Once(c),
         \A e \in Range(c) : Single(e) => e \notin Range(b)
  PROVE  /\ \A e \in Range(b \o c) : e \in Range(b) \/ e \in Range(c)
         /\ Once(b \o c)
<1> DEFINE d == b \o c
<1>1. /\ Len(b) \in Nat /\ Len(c) \in Nat /\ DOMAIN b = 1..Len(b) /\ DOMAIN c = 1..Len(c)
      /\ DOMAIN d = 1..Len(b) + Len(c)
      /\ \A k \in 1..Len(b) + Len(c) : d[k] = IF k <= Len(b) THEN b[k] ELSE c[k - Len(b)]
  <2>1. /\ d \in Seq(Envelope) /\ Len(d) = Len(b) + Len(c)
        /\ \A k \in 1..Len(b) + Len(c) : d[k] = IF k <= Len(b) THEN b[k] ELSE c[k - Len(b)]
    BY ConcatProperties
  <2> HIDE DEF d
  <2> QED  BY <2>1
<1> HIDE DEF d
<1>2. ASSUME NEW k \in DOMAIN d
      PROVE  \/ k \in DOMAIN b /\ d[k] = b[k]
             \/ k > Len(b) /\ k - Len(b) \in DOMAIN c /\ d[k] = c[k - Len(b)]
  BY <1>1
<1>3. \A e \in Range(d) : e \in Range(b) \/ e \in Range(c)
  BY <1>2 DEF Range
<1>4. Once(d)
  <2> SUFFICES ASSUME NEW k \in DOMAIN d, NEW l \in DOMAIN d, d[k] = d[l], Single(d[k])
               PROVE  k = l
    BY DEF Once
  <2>1. CASE k \in DOMAIN b /\ d[k] = b[k] /\ l \in DOMAIN b /\ d[l] = b[l]
    BY <2>1 DEF Once
  <2>2. CASE /\ k \in DOMAIN b /\ d[k] = b[k]
             /\ l - Len(b) \in DOMAIN c /\ d[l] = c[l - Len(b)]
    BY <2>2 DEF Range
  <2>3. CASE /\ k - Len(b) \in DOMAIN c /\ d[k] = c[k - Len(b)]
             /\ l \in DOMAIN b /\ d[l] = b[l]
    BY <2>3 DEF Range
  <2>4. CASE /\ k - Len(b) \in DOMAIN c /\ d[k] = c[k - Len(b)]
             /\ l - Len(b) \in DOMAIN c /\ d[l] = c[l - Len(b)]
    <3>1. k - Len(b) = l - Len(b)
      BY <2>4 DEF Once
    <3> QED  BY <1>1, <3>1
  <2> QED  BY <1>2, <2>1, <2>2, <2>3, <2>4
<1> QED  BY <1>3, <1>4 DEF d

\* What is under way stays accounted for when the history grows, if no vote that is
\* asked for is given and none that is under way is counted.
LEMMA BusKept ==
  ASSUME NEW h, NEW ns, NEW b \in Seq(Envelope), Accounts(h, ns, b),
         NEW g, NEW ms, Explains(g, ms), Grows(h, g),
         \A e \in Range(b) : e.msg.type = "RequestVote" /\ RequestOk(h, e) =>
                               g.vote[e.msg.term][e.to] # e.msg.candidate,
         \A e \in Range(b) :
           e.msg.type = "RequestVoteReply" /\ e.msg.granted /\ GrantOk(h, e) =>
             e.msg.voter \notin g.counted[e.msg.term][e.to],
         NEW out \in Seq(Envelope), Once(out),
         \A e \in Range(out) : EnvelopeOk(g, e) /\ (Single(e) => e \notin Range(b))
  PROVE  Accounts(g, ms, b \o out)
<1>1. /\ h \in History /\ g \in History /\ Once(b) /\ \A e \in Range(b) : EnvelopeOk(h, e)
  BY DEF Accounts, Explains
<1>2. ASSUME NEW e \in Range(b) PROVE EnvelopeOk(g, e)
  <2>1. e \in Envelope /\ EnvelopeOk(h, e)
    <3>1. \A k \in DOMAIN b : b[k] \in Envelope
      OBVIOUS
    <3> QED  BY <1>1, <3>1 DEF Range
  <2>2. e.msg.type = "RequestVote" => RequestOk(g, e)
    BY <1>1, <2>1, RequestKept DEF EnvelopeOk
  <2>3. e.msg.type = "RequestVoteReply" => GrantOk(g, e)
    BY <1>1, <2>1, GrantKept DEF EnvelopeOk
  <2>4. e.msg.type = "AppendEntries" => AppendOk(g, e)
    BY <1>1, <2>1, AppendKept DEF EnvelopeOk
  <2>5. e.msg.type = "AppendEntriesReply" => AckOk(g, e)
    BY <1>1, <2>1, AckKept DEF EnvelopeOk
  <2> QED  BY <2>2, <2>3, <2>4, <2>5 DEF EnvelopeOk
<1>3. Once(b \o out) /\ \A e \in Range(b \o out) : e \in Range(b) \/ e \in Range(out)
  BY <1>1, ConcatOnce
<1> QED  BY <1>2, <1>3 DEF Accounts

\* Nothing is put behind the bus, or one message that may come twice.
LEMMA OutOfOne ==
  /\ Once(<<>>) /\ <<>> \in Seq(Envelope) /\ \A e \in Range(<<>>) : FALSE
  /\ \A e \in Envelope : /\ <<e>> \in Seq(Envelope) /\ Once(<<e>>)
                         /\ \A x \in Range(<<e>>) : x = e
<1>1. Once(<<>>) /\ <<>> \in Seq(Envelope) /\ \A e \in Range(<<>>) : FALSE
  BY DEF Once, Range
<1>2. ASSUME NEW e \in Envelope
      PROVE  /\ <<e>> \in Seq(Envelope) /\ Once(<<e>>)
             /\ \A x \in Range(<<e>>) : x = e
  <2>1. DOMAIN <<e>> = {1} /\ <<e>>[1] = e /\ <<e>> \in Seq(Envelope)
    OBVIOUS
  <2> QED  BY <2>1 DEF Once, Range
<1> QED  BY <1>1, <1>2

-----------------------------------------------------------------------------
(* The messages of an election.                                            *)

\* The term a node's log ends in.
LEMMA LastLogTermIs ==
  ASSUME NEW n \in RaftNode PROVE LastLogTerm(n) = LastTerm(n.log)
<1>1. n.log \in Seq(LogEntry) /\ Len(n.log) \in Nat
  BY NodeFields
<1>2. n.log # <<>> => Len(n.log) \in 1..Len(n.log)
  BY <1>1
<1>3. n.log = <<>> => Len(n.log) \notin 1..Len(n.log)
  BY <1>1
<1> QED  BY <1>2, <1>3 DEF LastLogTerm, LastLogIndex, TermAt, LastTerm

\* A request, and a vote, is told by its parts.
LEMMA SameEnvelope ==
  ASSUME NEW e \in Envelope, NEW f \in Envelope, e.to = f.to, e.msg.type = f.msg.type,
         e.msg.term = f.msg.term,
         \/ /\ e.msg.type = "RequestVote" /\ e.msg.candidate = f.msg.candidate
            /\ e.msg.last_log_index = f.msg.last_log_index
            /\ e.msg.last_log_term = f.msg.last_log_term
         \/ /\ e.msg.type = "RequestVoteReply" /\ e.msg.voter = f.msg.voter
            /\ e.msg.granted = f.msg.granted
  PROVE  e = f
<1> DEFINE A == [type : {"RequestVote"}, term : Nat, candidate : Server,
                 last_log_index : Nat, last_log_term : Nat]
           B == [type : {"RequestVoteReply"}, term : Nat, voter : Server, granted : BOOLEAN]
<1>1. e.msg \in Message /\ f.msg \in Message /\ e = [to |-> e.to, msg |-> e.msg]
      /\ f = [to |-> f.to, msg |-> f.msg]
  BY DEF Envelope
<1>2. \A m \in Message : /\ m.type = "RequestVote" => m \in A
                         /\ m.type = "RequestVoteReply" => m \in B
  BY DEF Message
<1>3. CASE e.msg.type = "RequestVote"
  <2>1. e.msg \in A /\ f.msg \in A
    BY <1>1, <1>2, <1>3
  <2>2. e.msg = f.msg
    BY <1>3, <2>1
  <2> QED  BY <1>1, <2>2
<1>4. CASE e.msg.type = "RequestVoteReply"
  <2>1. e.msg \in B /\ f.msg \in B
    BY <1>1, <1>2, <1>4
  <2>2. e.msg = f.msg
    BY <1>4, <2>1
  <2> QED  BY <1>1, <2>2
<1> QED  BY <1>3, <1>4

\* A request is answered: a vote is given once, to a candidate that was not given
\* it yet, and what is under way stays accounted for.
LEMMA RequestStep ==
  ASSUME NEW h, NEW ns \in [Server -> RaftNode], NEW b \in Seq(Envelope), Accounts(h, ns, b),
         NEW e \in Envelope, EnvelopeOk(h, e), Single(e) => e \notin Range(b),
         NEW i, i = e.to, NEW m, m = e.msg, m.type = "RequestVote",
         m.term <= ns[i].current_term,
         NEW r, r = HandleRequestVote(i, ns[i], m)
  PROVE  \E g : Accounts(g, [ns EXCEPT ![i] = r.node], b \o r.out)
<1> DEFINE n == ns[i]
           t == n.current_term
           c == m.candidate
           granted == m.term >= t /\ n.voted_for \in {Nil, c} /\ LogOk(n, m)
           x == [to |-> c, msg |-> [type |-> "RequestVoteReply", term |-> t,
                                    voter |-> i, granted |-> granted]]
           v == [n EXCEPT !.voted_for = c]
<1>1. /\ i \in Server /\ m \in Message /\ c \in Server /\ m.term \in Nat
      /\ m.last_log_index \in Nat /\ m.last_log_term \in Nat
      /\ n \in RaftNode /\ t \in Nat
  <2>1. i \in Server /\ m \in Message
    BY DEF Envelope
  <2> QED  BY <2>1, MessageFields, NodeFields
<1>2. /\ h \in History /\ Explains(h, ns) /\ RequestOk(h, e)
      /\ \A f \in Range(b) : EnvelopeOk(h, f)
  BY DEF Accounts, Explains, EnvelopeOk
<1>3. granted \in BOOLEAN
  OBVIOUS
<1>4. r.node = (IF granted THEN v ELSE n) /\ r.out = <<x>>
  BY DEF HandleRequestVote, Done, ReplyTo
<1> HIDE DEF granted
<1>5. x \in Envelope /\ x.to = c /\ x.msg.type = "RequestVoteReply" /\ x.msg.term = t
      /\ x.msg.voter = i /\ x.msg.granted = granted
  BY <1>1, <1>3 DEF Envelope, Message
<1> HIDE DEF x
<1>6. CASE granted
  <2>1. /\ v \in RaftNode /\ v.voted_for = c /\ v.current_term = t /\ v.role = n.role
        /\ SameStore(n, v)
    BY <1>1 DEF RaftNode, SameStore
  <2> DEFINE s == h.clog[t][c]
             g == Gave(h, i, t, c)
  <2>2. m.term = t /\ n.voted_for \in {Nil, c} /\ LogOk(n, m)
    BY <1>1, <1>6 DEF granted
  <2>3. /\ i # c /\ h.vote[t][c] = c /\ h.vote[t][i] # c
        /\ m.last_log_index = Len(s) /\ m.last_log_term = LastTerm(s)
    BY <1>2, <2>2 DEF RequestOk
  <2>4. h.vote[t][i] = n.voted_for /\ n.voted_for = Nil
    BY <1>1, <1>2, <2>2, <2>3 DEF Explains, VoteOk
  <2>5. \/ LastTerm(s) > LastTerm(n.log)
        \/ LastTerm(s) = LastTerm(n.log) /\ Len(s) >= Len(n.log)
    BY <1>1, <2>2, <2>3, LastLogTermIs DEF LogOk, LastLogIndex
  <2> HIDE DEF v
  <2>16. s = h.clog[ns[i].current_term][c] /\ g = Gave(h, i, v.current_term, c)
    BY <2>1
  <2> HIDE DEF s, g
  <2>6. /\ Explains(g, [ns EXCEPT ![i] = v]) /\ Grows(h, g)
        /\ h.vote[t][i] = Nil /\ GaveAs(h, i, t, c, g)
    <3>1. /\ Explains(g, [ns EXCEPT ![i] = v]) /\ Grows(h, g)
          /\ h.vote[v.current_term][i] = Nil /\ GaveAs(h, i, v.current_term, c, g)
      BY <1>1, <1>2, <2>1, <2>3, <2>4, <2>5, <2>16, GrantKeeps
    <3> QED  BY <2>1, <3>1
  <2>7. /\ g.counted = h.counted
        /\ \A u \in Nat, w \in Server :
             g.vote[u][w] = IF u = t /\ w = i THEN c ELSE h.vote[u][w]
    BY <2>6 DEF GaveAs
  <2>8. ASSUME NEW f \in Range(b), f.msg.type = "RequestVote", RequestOk(h, f)
        PROVE  g.vote[f.msg.term][f.to] # f.msg.candidate
    <3>1. f \in Envelope
      <4>1. \A k \in DOMAIN b : b[k] \in Envelope
        OBVIOUS
      <4> QED  BY <4>1 DEF Range
    <3>2. f.msg \in Message /\ f.to \in Server /\ f.msg.term \in Nat
      BY <3>1, MessageFields DEF Envelope
    <3>3. CASE f.msg.term = t /\ f.to = i
      <4> SUFFICES ASSUME f.msg.candidate = c PROVE FALSE
        BY <1>1, <2>7, <3>3
      <4>1. f.msg.last_log_index = m.last_log_index /\ f.msg.last_log_term = m.last_log_term
        BY <2>3, <2>8, <3>3 DEF RequestOk, s
      <4>2. e = f
        BY <2>2, <2>8, <3>1, <3>3, <4>1, SameEnvelope
      <4> QED  BY <4>2 DEF Single
    <3>4. CASE ~(f.msg.term = t /\ f.to = i)
      BY <2>7, <2>8, <3>2, <3>4 DEF RequestOk
    <3> QED  BY <3>3, <3>4
  <2>9. ASSUME NEW f \in Range(b), f.msg.type = "RequestVoteReply", f.msg.granted, GrantOk(h, f)
        PROVE  f.msg.voter \notin g.counted[f.msg.term][f.to]
    BY <2>7, <2>9 DEF GrantOk
  <2>10. GrantOk(g, x)
    <3>1. i \notin h.counted[t][c]
      BY <1>1, <1>2, <2>6, StoreNodeAssumption, SMTT(30) DEF Explains, VoteOk
    <3> QED  BY <1>1, <1>5, <2>3, <2>7, <3>1, SMTT(30) DEF GrantOk
  <2>11. x \notin Range(b)
    <3> SUFFICES ASSUME x \in Range(b) PROVE FALSE
      OBVIOUS
    <3>1. GrantOk(h, x)
      BY <1>2, <1>5 DEF EnvelopeOk
    <3> QED  BY <1>1, <1>5, <1>6, <2>6, <3>1, StoreNodeAssumption DEF GrantOk
  <2>12. EnvelopeOk(g, x)
    BY <1>5, <2>10 DEF EnvelopeOk
  <2>13. <<x>> \in Seq(Envelope) /\ Once(<<x>>) /\ \A f \in Range(<<x>>) : f = x
    BY <1>5, OutOfOne
  <2>14. \A f \in Range(<<x>>) : EnvelopeOk(g, f) /\ (Single(f) => f \notin Range(b))
    BY <2>11, <2>12, <2>13
  <2>15. Accounts(g, [ns EXCEPT ![i] = v], b \o <<x>>)
    <3> DEFINE ms == [ns EXCEPT ![i] = v]
               out == <<x>>
    <3>1. Explains(g, ms) /\ out \in Seq(Envelope) /\ Once(out)
          /\ \A f \in Range(out) : EnvelopeOk(g, f) /\ (Single(f) => f \notin Range(b))
      BY <2>6, <2>13, <2>14
    <3> HIDE DEF ms, out
    <3>2. Accounts(g, ms, b \o out)
      BY <2>6, <2>8, <2>9, <3>1, BusKept
    <3> QED  BY <3>2 DEF ms, out
  <2> QED  BY <1>4, <1>6, <2>15
<1>7. CASE ~granted
  <2>1. r.node = n /\ [ns EXCEPT ![i] = n] = ns
    BY <1>4, <1>7
  <2>2. EnvelopeOk(h, x) /\ ~Single(x)
    BY <1>5, <1>7 DEF EnvelopeOk, GrantOk, Single
  <2> DEFINE out == <<x>>
  <2>3. out \in Seq(Envelope) /\ Once(out) /\ \A f \in Range(out) : f = x
    BY <1>5, OutOfOne
  <2> HIDE DEF out
  <2>4. \A f \in Range(b) : f.msg.type = "RequestVote" /\ RequestOk(h, f) =>
                              h.vote[f.msg.term][f.to] # f.msg.candidate
    BY DEF RequestOk
  <2>5. \A f \in Range(b) :
          f.msg.type = "RequestVoteReply" /\ f.msg.granted /\ GrantOk(h, f) =>
            f.msg.voter \notin h.counted[f.msg.term][f.to]
    BY DEF GrantOk
  <2>6. Grows(h, h)
    BY <1>2, GrowsRefl
  <2>7. Accounts(h, ns, b \o out)
    BY <1>2, <2>2, <2>3, <2>4, <2>5, <2>6, BusKept
  <2> QED  BY <1>4, <2>1, <2>7, ZenonT(30) DEF out
<1> QED  BY <1>6, <1>7

\* When no vote is given or counted, what is under way stays accounted for.
LEMMA QuietBus ==
  ASSUME NEW h, NEW ns, NEW b \in Seq(Envelope), Accounts(h, ns, b),
         NEW g, NEW ms, Explains(g, ms), Grows(h, g),
         g.vote = h.vote, g.counted = h.counted,
         NEW out \in Seq(Envelope), Once(out),
         \A e \in Range(out) : EnvelopeOk(g, e) /\ (Single(e) => e \notin Range(b))
  PROVE  Accounts(g, ms, b \o out)
<1>1. \A f \in Range(b) : f.msg.type = "RequestVote" /\ RequestOk(h, f) =>
                            g.vote[f.msg.term][f.to] # f.msg.candidate
  BY DEF RequestOk
<1>2. \A f \in Range(b) :
        f.msg.type = "RequestVoteReply" /\ f.msg.granted /\ GrantOk(h, f) =>
          f.msg.voter \notin g.counted[f.msg.term][f.to]
  BY DEF GrantOk
<1> QED  BY <1>1, <1>2, BusKept

\* What a leader sends is part of its term's log.
LEMMA BroadcastOk ==
  ASSUME NEW h, NEW ns \in [Server -> RaftNode], Explains(h, ns),
         NEW i \in Server, ns[i].role = "Leader",
         NEW out, out = BroadcastAppendEntries(i, ns[i])
  PROVE  /\ out \in Seq(Envelope) /\ Once(out)
         /\ \A e \in Range(out) : EnvelopeOk(h, e) /\ ~Single(e)
<1> DEFINE n == ns[i]
           t == n.current_term
           s == n.log
<1>1. /\ n \in RaftNode /\ t \in Nat /\ s \in Seq(LogEntry) /\ Len(s) \in Nat
      /\ n.commit_index \in Nat /\ \A p \in Server : n.next_index[p] \in Nat \ {0}
  BY NodeFields
<1>2. OfficeOk(h, i, n) /\ AppliedOk(h, n)
  BY DEF Explains, NodeOk
<1>3. /\ h.ldr[t] = i /\ h.llog[t] = s
      /\ \A p \in Server \ {i} : n.next_index[p] <= Len(s) + 1
  BY <1>2 DEF OfficeOk
<1>4. n.commit_index <= Len(s) /\ Committed(h, s, n.commit_index, t)
  BY <1>1, <1>2 DEF AppliedOk, Same
<1>5. /\ out \in Seq(Envelope)
      /\ \A e \in Range(out) : \E p \in Server \ {i} :
           e = [to |-> p, msg |-> AppendEntriesFor(i, n, p)]
  BY <1>1, BroadcastReturns
<1>6. ASSUME NEW e \in Range(out) PROVE EnvelopeOk(h, e) /\ ~Single(e)
  <2>1. PICK p \in Server \ {i} : e = [to |-> p, msg |-> AppendEntriesFor(i, n, p)]
    BY <1>5
  <2> DEFINE m == e.msg
             prev == n.next_index[p] - 1
             entries == SubSeq(s, prev + 1, Len(s))
  <2>2. prev \in Nat /\ prev <= Len(s) /\ prev + 1 \in Nat \ {0}
    BY <1>1, <1>3
  <2>3. Len(entries) = Len(s) - prev /\ \A k \in 1..Len(s) - prev : entries[k] = s[prev + k]
    <3>1. /\ Len(entries) = IF prev + 1 <= Len(s) THEN Len(s) - (prev + 1) + 1 ELSE 0
          /\ \A k \in 1..Len(s) - (prev + 1) + 1 : entries[k] = s[prev + 1 + k - 1]
      BY <1>1, <2>2, PartOfLog, SMTT(30)
    <3> HIDE DEF prev, entries
    <3>2. Len(entries) = Len(s) - prev
      BY <1>1, <2>2, <3>1
    <3>3. ASSUME NEW k \in 1..Len(s) - prev PROVE entries[k] = s[prev + k]
      <4>1. Len(s) - (prev + 1) + 1 = Len(s) - prev /\ prev + 1 + k - 1 = prev + k
        BY <1>1, <2>2
      <4>2. entries[k] = s[prev + 1 + k - 1]
        BY <3>1, <4>1
      <4> QED  BY <4>1, <4>2
    <3> QED  BY <3>2, <3>3
  <2>4. /\ e.to = p /\ m.type = "AppendEntries" /\ m.term = t /\ m.leader = i
        /\ m.prev_log_index = prev /\ m.prev_log_term = TermAt(n, prev)
        /\ m.entries = entries /\ m.leader_commit = n.commit_index
    BY <2>1 DEF AppendEntriesFor, LastLogIndex
  <2> HIDE DEF m, prev, entries
  <2>5. TermAt(n, prev) = IF prev = 0 THEN 0 ELSE s[prev].term
    BY <1>1, <2>2 DEF TermAt
  <2>6. prev + Len(entries) = Len(s)
    BY <1>1, <2>2, <2>3
  <2>7. AppendOk(h, e)
    <3>1. \A k \in 1..Len(entries) : entries[k] = s[prev + k]
      BY <2>3
    <3>2. h.llog[m.term] = s /\ h.ldr[m.term] = m.leader /\ m.leader # e.to
      BY <1>3, <2>4
    <3>3. prev + Len(entries) <= Len(s)
      BY <1>1, <2>6
    <3>4. m.prev_log_term = IF prev = 0 THEN 0 ELSE s[prev].term
      BY <2>4, <2>5
    <3>5. m.leader_commit <= prev + Len(entries) /\ Committed(h, s, m.leader_commit, m.term)
      BY <1>4, <2>4, <2>6
    <3> HIDE DEF s
    <3> QED  BY <2>4, <3>1, <3>2, <3>3, <3>4, <3>5 DEF AppendOk, m
  <2>8. m.type = "AppendEntries"
    BY <2>4
  <2> QED  BY <2>7, <2>8 DEF EnvelopeOk, Single, m
<1>7. Once(out)
  BY <1>6 DEF Once, Range
<1> QED  BY <1>5, <1>6, <1>7

\* A vote that is answered is counted once, and a majority makes a leader.
LEMMA VoteStep ==
  ASSUME NEW h, NEW ns \in [Server -> RaftNode], NEW b \in Seq(Envelope), Accounts(h, ns, b),
         NEW e \in Envelope, EnvelopeOk(h, e), Single(e) => e \notin Range(b),
         NEW i, i = e.to, NEW m, m = e.msg, m.type = "RequestVoteReply",
         NEW r, r = HandleVoteReply(i, ns[i], m)
  PROVE  \E g : Accounts(g, [ns EXCEPT ![i] = r.node], b \o r.out)
<1> DEFINE n == ns[i]
           t == n.current_term
           j == m.voter
           v == [n EXCEPT !.votes_received = @ + 1]
           none == <<>>
<1>1. /\ i \in Server /\ m \in Message /\ j \in Server /\ m.term \in Nat
      /\ n \in RaftNode /\ t \in Nat /\ n.votes_received + 1 \in Nat
  <2>1. i \in Server /\ m \in Message
    BY DEF Envelope
  <2> QED  BY <2>1, MessageFields, NodeFields
<1>2. /\ h \in History /\ Explains(h, ns) /\ GrantOk(h, e)
      /\ \A f \in Range(b) : EnvelopeOk(h, f)
  BY DEF Accounts, Explains, EnvelopeOk
<1>3. /\ v \in RaftNode /\ v.role = n.role /\ v.current_term = t /\ v.voted_for = n.voted_for
      /\ v.votes_received = n.votes_received + 1 /\ SameStore(n, v)
  BY <1>1 DEF RaftNode, SameStore
<1>4. r = IF ~CountsVote(n, m) THEN Done(n, none, FALSE)
          ELSE IF v.votes_received >= Majority THEN BecomeLeader(i, v)
          ELSE Done(v, none, FALSE)
  BY DEF HandleVoteReply
<1> HIDE DEF v
<1>5. /\ Done(n, none, FALSE).node = n /\ Done(n, none, FALSE).out = none
      /\ Done(v, none, FALSE).node = v /\ Done(v, none, FALSE).out = none
  BY DEF Done
<1>6. Once(none) /\ none \in Seq(Envelope) /\ (\A f \in Range(none) : FALSE) /\ b \o none = b
  BY OutOfOne, ConcatEmptySeq
<1> HIDE DEF none
<1>7. CASE ~CountsVote(n, m)
  <2>1. r.node = n /\ r.out = none /\ [ns EXCEPT ![i] = n] = ns
    BY <1>4, <1>5, <1>7
  <2> QED  BY <1>6, <2>1, ZenonT(30)
<1>8. CASE CountsVote(n, m)
  <2>1. n.role = "Candidate" /\ m.term = t /\ m.granted
    BY <1>8 DEF CountsVote
  <2>2. j # i /\ h.vote[t][j] = i /\ j \notin h.counted[t][i]
    BY <2>1, <1>2 DEF GrantOk
  <2> DEFINE g == Heard(h, i, t, j)
             ms == [ns EXCEPT ![i] = v]
  <2>3. g = Heard(h, i, v.current_term, j)
    BY <1>3
  <2> HIDE DEF g
  <2>4. Explains(g, ms) /\ Grows(h, g) /\ HeardAs(h, i, t, j, g)
    <3>1. Explains(g, ms) /\ Grows(h, g) /\ HeardAs(h, i, v.current_term, j, g)
      BY <1>1, <1>2, <1>3, <2>1, <2>2, <2>3, CountKeeps
    <3> QED  BY <1>3, <3>1
  <2>5. /\ g \in History /\ g.vote = h.vote
        /\ \A u \in Nat, w \in Server :
             g.counted[u][w] = IF u = t /\ w = i THEN h.counted[t][i] \cup {j}
                               ELSE h.counted[u][w]
    BY <2>4 DEF HeardAs
  <2>6. ms \in [Server -> RaftNode] /\ ms[i] = v /\ \A l : [ms EXCEPT ![i] = l] = [ns EXCEPT ![i] = l]
    BY <1>1, <1>3
  <2> HIDE DEF ms
  <2>7. ASSUME NEW f \in Range(b), f.msg.type = "RequestVoteReply", f.msg.granted, GrantOk(h, f)
        PROVE  f.msg.voter \notin g.counted[f.msg.term][f.to]
    <3>1. f \in Envelope
      <4>1. \A k \in DOMAIN b : b[k] \in Envelope
        OBVIOUS
      <4> QED  BY <4>1 DEF Range
    <3>2. f.msg \in Message /\ f.to \in Server /\ f.msg.term \in Nat
      BY <3>1, MessageFields DEF Envelope
    <3>3. f.msg.voter \notin h.counted[f.msg.term][f.to]
      BY <2>7 DEF GrantOk
    <3>4. CASE f.msg.term = t /\ f.to = i
      <4>1. f.msg.voter # j
        <5> SUFFICES ASSUME f.msg.voter = j PROVE FALSE
          OBVIOUS
        <5>1. f.msg.granted = m.granted
          <6>1. f.msg.granted \in BOOLEAN /\ m.granted \in BOOLEAN
            BY <1>1, <2>7, <3>2, MessageFields
          <6> QED  BY <2>1, <2>7, <6>1
        <5>2. e = f
          BY <2>1, <2>7, <3>1, <3>4, <5>1, SameEnvelope
        <5> QED  BY <2>1, <5>2 DEF Single
      <4> QED  BY <1>1, <2>5, <3>3, <3>4, <4>1, SMTT(30)
    <3>5. CASE ~(f.msg.term = t /\ f.to = i)
      BY <2>5, <3>2, <3>3, <3>5
    <3> QED  BY <3>4, <3>5
  <2>8. Accounts(g, ms, b)
    <3>1. \A f \in Range(b) : f.msg.type = "RequestVote" /\ RequestOk(h, f) =>
                                g.vote[f.msg.term][f.to] # f.msg.candidate
      BY <2>5 DEF RequestOk
    <3>2. Accounts(g, ms, b \o none)
      BY <1>6, <2>4, <2>7, <3>1, BusKept
    <3> QED  BY <1>6, <3>2
  <2>9. CASE ~(v.votes_received >= Majority)
    <3>1. r.node = v /\ r.out = none
      BY <1>4, <1>5, <1>8, <2>9
    <3> QED  BY <1>6, <2>8, <3>1 DEF ms
  <2>10. CASE v.votes_received >= Majority
    <3> DEFINE l == r.node
               k == Led(g, i, t, l.log)
               out == r.out
               zs == [ms EXCEPT ![i] = l]
    <3>1. r = BecomeLeader(i, v)
      BY <1>4, <1>8, <2>10
    <3>2. /\ r \in Return
          /\ l = [v EXCEPT !.role = "Leader",
                           !.next_index = [p \in Server |-> Len(v.log) + 1],
                           !.match_index = [p \in Server |-> 0]]
          /\ out = BroadcastAppendEntries(i, l)
      <4> DEFINE q == BecomeLeader(i, v)
      <4>1. /\ q \in Return
            /\ q.node = [v EXCEPT !.role = "Leader",
                                  !.next_index = [p \in Server |-> Len(v.log) + 1],
                                  !.match_index = [p \in Server |-> 0]]
            /\ q.out = BroadcastAppendEntries(i, q.node)
        BY <1>1, <1>3, BecomeLeaderType
      <4>2. r = q
        BY <3>1
      <4> HIDE DEF q
      <4> QED  BY <4>1, <4>2
    <3> HIDE DEF l, out
    <3>3. /\ l \in RaftNode /\ l.role = "Leader" /\ l.current_term = t
          /\ l.voted_for = v.voted_for /\ l.votes_received = v.votes_received
          /\ SameStore(v, l) /\ l.log = v.log
          /\ \A p \in Server : l.next_index[p] = Len(l.log) + 1 /\ l.match_index[p] = 0
      <4>1. l \in RaftNode
        BY <3>2 DEF Return, l
      <4> QED  BY <1>3, <3>2, <4>1 DEF RaftNode, SameStore
    <3>4. k = Led(g, i, l.current_term, l.log)
      BY <3>3
    <3> HIDE DEF k
    <3>5. Explains(k, zs) /\ Grows(g, k) /\ LedAs(g, i, l.current_term, l.log, k)
      <4>1. /\ Explains(g, ms) /\ ms[i].role = "Candidate" /\ ms[i].votes_received >= Majority
            /\ l.current_term = ms[i].current_term /\ l.voted_for = ms[i].voted_for
            /\ l.votes_received = ms[i].votes_received /\ SameStore(ms[i], l)
        BY <1>3, <2>1, <2>4, <2>6, <2>10, <3>3
      <4> QED  BY <1>1, <2>6, <3>3, <3>4, <4>1, LeadKeeps
    <3>6. k.vote = g.vote /\ k.counted = g.counted
      BY <3>5 DEF LedAs
    <3>7. zs \in [Server -> RaftNode] /\ zs[i] = l
      BY <1>1, <2>6, <3>3
    <3>8. zs = [ns EXCEPT ![i] = l]
      BY <2>6
    <3> HIDE DEF zs
    <3>9. /\ out \in Seq(Envelope) /\ Once(out)
          /\ \A f \in Range(out) : EnvelopeOk(k, f) /\ ~Single(f)
      <4>1. zs[i].role = "Leader" /\ out = BroadcastAppendEntries(i, zs[i])
        BY <3>2, <3>3, <3>7
      <4> QED  BY <1>1, <3>5, <3>7, <4>1, BroadcastOk
    <3>10. Accounts(k, zs, b \o out)
      BY <2>8, <3>5, <3>6, <3>9, QuietBus
    <3> QED  BY <3>8, <3>10 DEF l, out
  <2> QED  BY <2>9, <2>10
<1> QED  BY <1>7, <1>8

-----------------------------------------------------------------------------
(* The messages of a term's leader and their answers.                      *)

\* The answer of node i, in state n, to an append.
AckOf(i, n, leader, success, k) ==
  [to |-> leader, msg |-> [type |-> "AppendEntriesReply", term |-> n.current_term,
                           from |-> i, success |-> success, match_index |-> k]]

\* The answer to an append, in its parts: one message, that may come twice.
AnswerAs(i, n, leader, success, k, x) ==
  /\ x \in Envelope
  /\ x.to = leader /\ x.msg.type = "AppendEntriesReply" /\ x.msg.from = i
  /\ x.msg.term = n.current_term /\ x.msg.success = success /\ x.msg.match_index = k
  /\ ~Single(x)
  /\ AppendReply(i, n, leader, success, k) = <<x>>

\* So an append is answered.
LEMMA AppendReplyIs ==
  ASSUME NEW i \in Server, NEW n \in RaftNode, NEW leader \in Server,
         NEW success \in BOOLEAN, NEW k \in Nat
  PROVE  AnswerAs(i, n, leader, success, k, AckOf(i, n, leader, success, k))
<1> DEFINE x == AckOf(i, n, leader, success, k)
           m == [type |-> "AppendEntriesReply", term |-> n.current_term,
                 from |-> i, success |-> success, match_index |-> k]
<1>1. n.current_term \in Nat
  BY NodeFields
<1>2. m \in Message
  BY <1>1 DEF Message
<1>3. x = [to |-> leader, msg |-> m]
  BY DEF AckOf
<1>4. x \in Envelope
  BY <1>2, <1>3 DEF Envelope
<1>5. ~Single(x)
  BY <1>3 DEF Single
<1>6. AppendReply(i, n, leader, success, k) = <<x>>
  BY <1>3 DEF AppendReply, ReplyTo
<1>7. /\ x.to = leader /\ x.msg.type = "AppendEntriesReply" /\ x.msg.from = i
      /\ x.msg.term = n.current_term /\ x.msg.success = success /\ x.msg.match_index = k
  BY <1>3
<1> HIDE DEF x
<1>8. AnswerAs(i, n, leader, success, k, x)
  BY <1>4, <1>5, <1>6, <1>7 DEF AnswerAs
<1> QED  BY <1>8 DEF x

\* An answer that is true of the history goes behind the bus.
LEMMA AnswerBus ==
  ASSUME NEW h, NEW ns, NEW b \in Seq(Envelope), Accounts(h, ns, b),
         NEW g, NEW ms, Explains(g, ms), Grows(h, g),
         g.vote = h.vote, g.counted = h.counted,
         NEW x \in Envelope, EnvelopeOk(g, x), ~Single(x)
  PROVE  Accounts(g, ms, b \o <<x>>)
<1> DEFINE out == <<x>>
<1>1. out \in Seq(Envelope) /\ Once(out) /\ \A y \in Range(out) : y = x
  BY OutOfOne
<1>2. \A y \in Range(out) : EnvelopeOk(g, y) /\ (Single(y) => y \notin Range(b))
  BY <1>1
<1> HIDE DEF out
<1>3. Accounts(g, ms, b \o out)
  BY <1>1, <1>2, QuietBus
<1> QED  BY <1>3 DEF out

\* A refusal is always true.
LEMMA RefusalBus ==
  ASSUME NEW h, NEW ns, NEW b \in Seq(Envelope), Accounts(h, ns, b),
         NEW ms, Explains(h, ms),
         NEW i \in Server, NEW n \in RaftNode, NEW leader \in Server,
         NEW out, out = AppendReply(i, n, leader, FALSE, 0)
  PROVE  Accounts(h, ms, b \o out)
<1> DEFINE no == FALSE
           x == AckOf(i, n, leader, no, 0)
<1>1. no \in BOOLEAN /\ 0 \in Nat /\ out = AppendReply(i, n, leader, no, 0)
  OBVIOUS
<1>2. ~no
  OBVIOUS
<1> HIDE DEF no
<1>3. /\ x \in Envelope /\ x.msg.type = "AppendEntriesReply"
      /\ x.msg.success = no /\ ~Single(x)
      /\ out = <<x>>
  <2>1. AnswerAs(i, n, leader, no, 0, x)
    BY <1>1, AppendReplyIs
  <2> HIDE DEF x
  <2> QED  BY <1>1, <2>1 DEF AnswerAs
<1> HIDE DEF x
<1>4. EnvelopeOk(h, x)
  <2>1. ~x.msg.success
    BY <1>2, <1>3
  <2> QED  BY <1>3, <2>1 DEF EnvelopeOk, AckOk
<1>5. h \in History /\ Grows(h, h)
  BY GrowsRefl DEF Accounts, Explains
<1> QED  BY <1>3, <1>4, <1>5, AnswerBus

\* What an append spliced in node i's log adds to history.
SplicedHistory(h, ns, i, m, g) ==
  LET t == ns[i].current_term
      cov == m.prev_log_index + Len(m.entries)
      s == Spliced(ns[i], m)
  IN  /\ Explains(g, [ns EXCEPT ![i] = s]) /\ Grows(h, g)
      /\ g \in History
      /\ g.vote = h.vote /\ g.counted = h.counted /\ g.ldr = h.ldr
      /\ cov <= g.acc[t][i]
      /\ s \in RaftNode /\ s.current_term = t
      /\ cov <= Len(s.log) /\ Same(s.log, h.llog[t], cov)

\* A follower that splices entries of its term's leader in stays explained, by a
\* history in which it took them over.
LEMMA SpliceKeeps ==
  ASSUME NEW h, NEW ns \in [Server -> RaftNode], Explains(h, ns),
         NEW i \in Server, NEW m \in Message, m.type = "AppendEntries",
         AppendOk(h, [to |-> i, msg |-> m]),
         m.term = ns[i].current_term, m.prev_log_index <= Len(ns[i].log),
         TermAt(ns[i], m.prev_log_index) = m.prev_log_term
  PROVE  \E g : SplicedHistory(h, ns, i, m, g)
<1> DEFINE n == ns[i]
           t == n.current_term
           prev == m.prev_log_index
           cov == prev + Len(m.entries)
           s == Spliced(n, m)
<1>0. /\ n = ns[i] /\ t = n.current_term /\ m.term = t /\ prev = m.prev_log_index
      /\ prev <= Len(n.log) /\ TermAt(n, prev) = m.prev_log_term
      /\ cov = prev + Len(m.entries) /\ s = Spliced(n, m)
  OBVIOUS
<1> DEFINE L == h.llog[t]
<1>1. /\ i \in Server /\ m \in Message /\ prev \in Nat
      /\ m.entries \in Seq(LogEntry)
      /\ n \in RaftNode /\ t \in Nat /\ n.log \in Seq(LogEntry)
      /\ Len(m.entries) \in Nat /\ cov \in Nat /\ Len(n.log) \in Nat
  BY MessageFields, NodeFields
<1>2. h \in History
  BY DEF Explains
<1>3. /\ L \in Seq(LogEntry) /\ cov <= Len(L)
      /\ \A k \in 1..Len(m.entries) : m.entries[k] = L[prev + k]
      /\ m.prev_log_term = IF prev = 0 THEN 0 ELSE L[prev].term
      /\ h.ldr[t] # i /\ h.ldr[t] # Nil
  <2>1. L \in Seq(LogEntry)
    BY <1>1, <1>2, HistoryFields
  <2>2. /\ m.leader # i /\ h.ldr[t] = m.leader /\ prev + Len(m.entries) <= Len(L)
        /\ \A k \in 1..Len(m.entries) : m.entries[k] = L[prev + k]
        /\ m.prev_log_term = IF prev = 0 THEN 0 ELSE L[prev].term
    BY DEF AppendOk
  <2>3. m.leader \in Server
    BY <1>1, MessageFields
  <2> HIDE DEF L
  <2> QED  BY <2>1, <2>2, <2>3, StoreNodeAssumption
<1>4. Owned(h, n.log) /\ Owned(h, L) /\ TakenOver(h, ns, t, i)
  BY <1>1, <1>2, <1>3 DEF Explains, NodeOk, LeaderOk
<1> DEFINE a == h.acc[t][i]
           k == IF a > cov THEN a ELSE cov
           p == Splice(n.log, prev, m.entries)
           f == [n EXCEPT !.role = "Follower"]
           ms == [ns EXCEPT ![i] = f]
           g == Took(h, i, t, k)
<1>5. a \in Nat /\ a <= Len(L) /\ Same(n.log, L, a)
  BY <1>1, <1>2, <1>4, HistoryFields DEF TakenOver
<1> HIDE DEF L, a
<1>6. SplicedAs(n.log, prev, m.entries, p)
  BY <1>1, SpliceReturns
<1>7. prev # 0 => n.log[prev].term = L[prev].term
  BY <1>1, <1>3 DEF TermAt
<1> HIDE DEF p
<1>8. TakesUp(n.log, L, p, k)
  <2>1. LET d == prev + Len(m.entries) IN TakesUp(n.log, L, p, IF a > d THEN a ELSE d)
    BY <1>1, <1>2, <1>3, <1>4, <1>5, <1>6, <1>7, SpliceTakesUp
  <2> QED  BY <2>1
<1>9. a <= k /\ cov <= k
  BY <1>1, <1>5
<1> HIDE DEF k
<1>10. k \in Nat /\ p \in Seq(LogEntry) /\ Same(p, L, k)
  BY <1>8 DEF TakesUp
<1>11. Same(p, L, cov) /\ cov <= Len(p)
  <2>1. Same(p, L, cov)
    BY <1>1, <1>3, <1>9, <1>10, SameShorter
  <2> QED  BY <2>1 DEF Same
<1>12. /\ f \in RaftNode /\ f.role = "Follower" /\ f.current_term = t /\ f.log = n.log
       /\ f.voted_for = n.voted_for /\ f.kv = n.kv /\ f.commit_index = n.commit_index
       /\ f.last_applied = n.last_applied
  BY <1>1 DEF RaftNode, Role
<1>13. /\ s \in RaftNode /\ s.role = "Follower" /\ s.current_term = t /\ s.log = p
       /\ s.voted_for = n.voted_for /\ s.kv = n.kv /\ s.commit_index = n.commit_index
       /\ s.last_applied = n.last_applied
  <2>1. Spliced(n, m) \in RaftNode
    BY <1>1, CaughtUpType
  <2> QED  BY <1>1, <2>1 DEF Spliced, RaftNode, p
<1>14. Explains(h, ms)
  <2>1. f = [ns[i] EXCEPT !.role = "Follower"]
    OBVIOUS
  <2> HIDE DEF f
  <2>2. Explains(h, [ns EXCEPT ![i] = [ns[i] EXCEPT !.role = "Follower"]])
    BY <1>1, <1>3, FollowKeeps
  <2> QED  BY <2>1, <2>2
<1> HIDE DEF f
<1>15. ms \in [Server -> RaftNode] /\ ms[i] = f /\ [ms EXCEPT ![i] = s] = [ns EXCEPT ![i] = s]
  BY <1>1, <1>12
<1>16. g = Took(h, i, t, k)
  OBVIOUS
<1> HIDE DEF g, ms
<1>17. Explains(g, [ms EXCEPT ![i] = s]) /\ Grows(h, g) /\ TookAs(h, i, t, k, g)
  <2>1. t = ms[i].current_term /\ s.voted_for = ms[i].voted_for /\ s.kv = ms[i].kv
        /\ s.commit_index = ms[i].commit_index /\ s.last_applied = ms[i].last_applied
    BY <1>12, <1>13, <1>15
  <2>2. TakesUp(ms[i].log, h.llog[t], s.log, k) /\ h.acc[t][i] <= k
    BY <1>8, <1>9, <1>12, <1>13, <1>15 DEF L, a
  <2>3. /\ ms \in [Server -> RaftNode] /\ i \in Server /\ s \in RaftNode
        /\ h.ldr[t] # Nil /\ h.ldr[t] # i /\ s.current_term = t /\ s.role = "Follower"
    BY <1>1, <1>3, <1>13, <1>15
  <2> QED  BY <1>14, <1>16, <2>1, <2>2, <2>3, AdoptKeeps
<1>18. /\ g.vote = h.vote /\ g.counted = h.counted /\ g.ldr = h.ldr /\ g.acc[t][i] = k
       /\ g \in History
  BY <1>1, <1>17 DEF TookAs, Explains
<1>19. cov <= g.acc[t][i] /\ cov <= Len(s.log) /\ Same(s.log, h.llog[t], cov)
  BY <1>9, <1>11, <1>13, <1>18 DEF L
<1>20. SplicedHistory(h, ns, i, m, g)
  BY <1>13, <1>15, <1>17, <1>18, <1>19 DEF SplicedHistory, s, t, n, cov, prev
<1> QED  BY <1>20

\* An append from a deposed leader, over a gap, or a part of the log, is answered
\* with what the node took over.
LEMMA AppendStep ==
  ASSUME NEW h, NEW ns \in [Server -> RaftNode], NEW b \in Seq(Envelope), Accounts(h, ns, b),
         NEW i \in Server, NEW m \in Message, m.type = "AppendEntries",
         AppendOk(h, [to |-> i, msg |-> m]), m.term <= ns[i].current_term,
         NEW r, r = HandleAppendEntries(i, ns[i], m)
  PROVE  \E g : Accounts(g, [ns EXCEPT ![i] = r.node], b \o r.out)
<1> DEFINE n == ns[i]
           t == n.current_term
           prev == m.prev_log_index
           f == [n EXCEPT !.role = "Follower"]
           s == Spliced(n, m)
           c == CaughtUp(s, m)
           cov == prev + Len(m.entries)
<1>1. /\ i \in Server /\ m \in Message /\ m.leader \in Server /\ m.term \in Nat
      /\ prev \in Nat /\ m.entries \in Seq(LogEntry) /\ m.leader_commit \in Nat
      /\ n \in RaftNode /\ t \in Nat /\ n.log \in Seq(LogEntry)
      /\ cov \in Nat /\ Len(n.log) \in Nat
  BY MessageFields, NodeFields
<1>2. h \in History /\ Explains(h, ns)
  BY DEF Accounts, Explains
<1>3. AnsweredAs(i, n, m, r)
  BY <1>1, HandleAppendEntriesReturns
<1>4. /\ r \in Return
      /\ m.term < t => r.node = n /\ r.out = AppendReply(i, n, m.leader, FALSE, 0)
      /\ m.term >= t /\ ~LogHolds(n, prev, m.prev_log_term) =>
           r.node = f /\ r.out = AppendReply(i, f, m.leader, FALSE, 0)
      /\ m.term >= t /\ LogHolds(n, prev, m.prev_log_term) =>
           r.node = c /\ r.out = AppendReply(i, c, m.leader, TRUE, cov)
  BY <1>3 DEF AnsweredAs
<1>5. f \in RaftNode
  BY <1>1 DEF RaftNode, Role
<1>6. CASE m.term < t
  <2>1. [ns EXCEPT ![i] = n] = ns
    OBVIOUS
  <2>2. r.node = n /\ r.out = AppendReply(i, n, m.leader, FALSE, 0)
    BY <1>4, <1>6
  <2>3. Accounts(h, ns, b \o r.out)
    BY <1>1, <1>2, <2>2, RefusalBus
  <2> QED  BY <2>1, <2>2, <2>3
<1>7. m.term >= t => /\ m.term = t /\ h.ldr[t] # i /\ h.ldr[t] = m.leader /\ m.leader # i
                     /\ h.ldr[t] # Nil
  <2>1. m.term >= t => m.term = t
    BY <1>1
  <2> QED  BY <1>1, <1>2, <2>1, StoreNodeAssumption DEF AppendOk
<1>8. CASE m.term >= t /\ ~LogHolds(n, prev, m.prev_log_term)
  <2>1. Explains(h, [ns EXCEPT ![i] = f])
    BY <1>1, <1>2, <1>7, <1>8, FollowKeeps
  <2>2. r.node = f /\ r.out = AppendReply(i, f, m.leader, FALSE, 0)
    BY <1>4, <1>8
  <2> DEFINE ms == [ns EXCEPT ![i] = f]
  <2>3. ms = [ns EXCEPT ![i] = r.node] /\ Explains(h, ms)
    BY <2>1, <2>2
  <2> HIDE DEF ms, f
  <2>4. Accounts(h, ms, b \o r.out)
    BY <1>1, <1>2, <1>5, <2>2, <2>3, RefusalBus
  <2> QED  BY <2>3, <2>4
<1>9. CASE m.term >= t /\ LogHolds(n, prev, m.prev_log_term)
  <2>1. prev <= Len(n.log) /\ TermAt(n, prev) = m.prev_log_term
    BY <1>9 DEF LogHolds, LastLogIndex
  <2>2. s = Spliced(n, m) /\ cov = prev + Len(m.entries) /\ n = ns[i] /\ prev = m.prev_log_index
        /\ t = n.current_term /\ m.term = t /\ c = CaughtUp(s, m)
    BY <1>7, <1>9
  <2>3. /\ m.leader_commit <= cov /\ Committed(h, h.llog[t], m.leader_commit, t)
        /\ m.leader = h.ldr[t] /\ h.llog[t] \in Seq(LogEntry)
    BY <1>1, <1>2, <1>7, <1>9, HistoryFields DEF AppendOk
  <2>4. r.node = c /\ c \in RaftNode /\ r.out = AppendReply(i, c, m.leader, TRUE, cov)
    BY <1>4, <1>9 DEF Return
  <2> HIDE DEF s, cov, n, prev, t, c, f
  <2>5. PICK g :
          /\ Explains(g, [ns EXCEPT ![i] = s]) /\ Grows(h, g)
          /\ g \in History
          /\ g.vote = h.vote /\ g.counted = h.counted /\ g.ldr = h.ldr
          /\ cov <= g.acc[t][i]
          /\ s \in RaftNode /\ s.current_term = t
          /\ cov <= Len(s.log) /\ Same(s.log, h.llog[t], cov)
    <3>1. TermAt(ns[i], m.prev_log_index) = m.prev_log_term
          /\ m.prev_log_index <= Len(ns[i].log) /\ m.term = ns[i].current_term
      BY <2>1, <2>2
    <3>2. PICK g : SplicedHistory(h, ns, i, m, g)
      BY <1>2, <3>1, SpliceKeeps
    <3> QED  BY <2>2, <3>2 DEF SplicedHistory
  <2> DEFINE zs == [ns EXCEPT ![i] = s]
  <2>6. zs \in [Server -> RaftNode] /\ zs[i] = s /\ Explains(g, zs)
        /\ \A w : [zs EXCEPT ![i] = w] = [ns EXCEPT ![i] = w]
    BY <1>1, <2>5
  <2> HIDE DEF zs
  <2>7. Explains(g, [zs EXCEPT ![i] = c]) /\ c.current_term = t
    <3>1. s.log \in Seq(LogEntry) /\ Len(s.log) \in Nat
      BY <2>5, NodeFields
    <3>2. m.leader_commit <= Len(s.log)
      BY <1>1, <2>3, <2>5, <3>1
    <3>3. Same(s.log, h.llog[t], m.leader_commit)
      BY <1>1, <2>3, <2>5, <3>1, SameShorter
    <3>4. Committed(g, s.log, m.leader_commit, t)
      <4>1. t <= t
        BY <1>1
      <4> QED  BY <1>1, <1>2, <2>3, <2>5, <3>1, <3>3, <4>1, CommittedKept
    <3>5. g.ldr[zs[i].current_term] # i
      BY <1>7, <1>9, <2>5, <2>6 DEF t
    <3>6. /\ m.leader_commit <= Len(zs[i].log)
          /\ Committed(g, zs[i].log, m.leader_commit, zs[i].current_term)
      BY <2>5, <2>6, <3>2, <3>4
    <3>7. zs \in [Server -> RaftNode] /\ Explains(g, zs)
      BY <2>6
    <3>8. Explains(g, [zs EXCEPT ![i] = CaughtUp(zs[i], m)])
          /\ CaughtUp(zs[i], m).current_term = zs[i].current_term
      BY <3>5, <3>6, <3>7, CatchUpKeeps
    <3> QED  BY <2>2, <2>5, <2>6, <3>8
  <2> DEFINE yes == TRUE
             x == AckOf(i, c, m.leader, yes, cov)
  <2>8. x = AckOf(i, c, m.leader, yes, cov) /\ yes \in BOOLEAN
        /\ r.out = AppendReply(i, c, m.leader, yes, cov)
    BY <2>4
  <2> HIDE DEF yes
  <2>9. /\ x \in Envelope
        /\ x.to = m.leader /\ x.msg.type = "AppendEntriesReply" /\ x.msg.from = i
        /\ x.msg.term = t /\ x.msg.match_index = cov
        /\ ~Single(x)
        /\ r.out = <<x>>
    <3>1. AnswerAs(i, c, m.leader, yes, cov, x)
      BY <1>1, <2>4, <2>8, AppendReplyIs
    <3> HIDE DEF x
    <3> QED  BY <2>7, <2>8, <3>1 DEF AnswerAs
  <2> HIDE DEF x
  <2>10. EnvelopeOk(g, x)
    <3>1. AckOk(g, x)
      BY <1>7, <1>9, <2>3, <2>5, <2>9 DEF AckOk
    <3> QED  BY <2>9, <3>1 DEF EnvelopeOk
  <2> DEFINE qs == [zs EXCEPT ![i] = c]
  <2>11. Explains(g, qs) /\ qs = [ns EXCEPT ![i] = r.node]
    BY <2>4, <2>6, <2>7
  <2> HIDE DEF qs
  <2>12. Accounts(g, qs, b \o <<x>>)
    BY <2>5, <2>9, <2>10, <2>11, AnswerBus
  <2> QED  BY <2>9, <2>11, <2>12
<1>10. m.term < t \/ m.term >= t
  BY <1>1
<1> QED  BY <1>6, <1>8, <1>9, <1>10

\* A state the history also explains, with nothing sent.
LEMMA NothingSent ==
  ASSUME NEW h, NEW ns, NEW b \in Seq(Envelope), Accounts(h, ns, b),
         NEW ms, Explains(h, ms)
  PROVE  Accounts(h, ms, b \o <<>>)
<1> DEFINE out == <<>>
<1>1. out \in Seq(Envelope) /\ Once(out)
  BY OutOfOne
<1>2. \A y \in Range(out) : EnvelopeOk(h, y) /\ (Single(y) => y \notin Range(b))
  BY OutOfOne
<1>3. h \in History /\ Grows(h, h)
  BY GrowsRefl DEF Accounts, Explains
<1> HIDE DEF out
<1>4. Accounts(h, ms, b \o out)
  BY <1>1, <1>2, <1>3, QuietBus
<1> QED  BY <1>4 DEF out

\* An acknowledgement is noted by the leader of its term, which commits what a
\* majority took over; a refusal makes it try an entry earlier.
LEMMA AckStep ==
  ASSUME NEW h, NEW ns \in [Server -> RaftNode], NEW b \in Seq(Envelope), Accounts(h, ns, b),
         NEW i \in Server, NEW m \in Message, m.type = "AppendEntriesReply",
         AckOk(h, [to |-> i, msg |-> m]),
         NEW r, r = HandleAppendReply(i, ns[i], m)
  PROVE  Accounts(h, [ns EXCEPT ![i] = r.node], b \o r.out)
<1> DEFINE n == ns[i]
           t == n.current_term
           p == Progressed(n, m)
           l == MaybeAdvanceCommit(i, p)
           s == SteppedBack(n, m)
<1>1. n \in RaftNode /\ t \in Nat /\ Explains(h, ns)
  BY NodeFields DEF Accounts
<1>2. /\ r.out = <<>>
      /\ r.node = IF n.role # "Leader" \/ m.term # t THEN n ELSE IF m.success THEN l ELSE s
  <2> DEFINE q == HandleAppendReply(i, n, m)
  <2>1. /\ q.out = <<>>
        /\ q.node = IF n.role # "Leader" \/ m.term # n.current_term THEN n
                    ELSE IF m.success THEN MaybeAdvanceCommit(i, Progressed(n, m))
                    ELSE SteppedBack(n, m)
    BY <1>1, HandleAppendReplyReturns
  <2>2. r = q
    OBVIOUS
  <2> HIDE DEF q, l, s
  <2> QED  BY <2>1, <2>2 DEF l, s
<1>3. p \in RaftNode
  BY <1>1, ProgressType
<1>4. p.role = n.role
  BY <1>1 DEF Progressed, RaftNode
<1> HIDE DEF l, s, p
<1>5. CASE n.role # "Leader" \/ m.term # t
  <2>1. r.node = n /\ [ns EXCEPT ![i] = n] = ns
    BY <1>2, <1>5
  <2> QED  BY <1>1, <1>2, <2>1, NothingSent
<1>6. CASE n.role = "Leader" /\ m.term = t /\ m.success
  <2> DEFINE zs == [ns EXCEPT ![i] = p]
  <2>1. m.from # i /\ m.match_index <= h.acc[t][m.from]
    BY <1>6 DEF AckOk
  <2>2. Explains(h, zs)
    BY <1>1, <1>6, <2>1, ProgressKeeps DEF p
  <2>3. /\ zs \in [Server -> RaftNode] /\ zs[i] = p
        /\ [zs EXCEPT ![i] = l] = [ns EXCEPT ![i] = l]
    BY <1>3
  <2> HIDE DEF zs
  <2>4. zs[i].role = "Leader"
    BY <1>4, <1>6, <2>3
  <2> DEFINE ms == [zs EXCEPT ![i] = l]
  <2>5. Explains(h, ms)
    <3>1. Explains(h, [zs EXCEPT ![i] = MaybeAdvanceCommit(i, zs[i])])
      BY <2>2, <2>3, <2>4, CommitKeeps
    <3> QED  BY <2>3, <3>1 DEF l
  <2>6. ms = [ns EXCEPT ![i] = r.node]
    BY <1>2, <1>6, <2>3
  <2> HIDE DEF ms
  <2> QED  BY <1>2, <2>5, <2>6, NothingSent
<1>7. CASE n.role = "Leader" /\ m.term = t /\ ~m.success
  <2> DEFINE ms == [ns EXCEPT ![i] = s]
  <2>1. Explains(h, ms)
    BY <1>1, <1>7, ProgressKeeps DEF s
  <2>2. ms = [ns EXCEPT ![i] = r.node]
    BY <1>2, <1>7
  <2> HIDE DEF ms
  <2> QED  BY <1>2, <2>1, <2>2, NothingSent
<1> QED  BY <1>5, <1>6, <1>7

-----------------------------------------------------------------------------
(* What a node does of itself.                                             *)

\* A heartbeat sends parts of the leader's log.
LEMMA HeartbeatStep ==
  ASSUME NEW h, NEW ns \in [Server -> RaftNode], NEW b \in Seq(Envelope), Accounts(h, ns, b),
         NEW i \in Server, ns[i].role = "Leader"
  PROVE  Accounts(h, ns, b \o BroadcastAppendEntries(i, ns[i]))
<1> DEFINE out == BroadcastAppendEntries(i, ns[i])
<1>1. Explains(h, ns) /\ h \in History /\ Grows(h, h)
  BY GrowsRefl DEF Accounts, Explains
<1>2. out = BroadcastAppendEntries(i, ns[i])
  OBVIOUS
<1> HIDE DEF out
<1>3. /\ out \in Seq(Envelope) /\ Once(out)
      /\ \A e \in Range(out) : EnvelopeOk(h, e) /\ ~Single(e)
  BY <1>1, <1>2, BroadcastOk
<1>4. Accounts(h, ns, b \o out)
  BY <1>1, <1>3, QuietBus
<1> QED  BY <1>2, <1>4

\* A write is the leader's next entry.
LEMMA WriteStep ==
  ASSUME NEW h, NEW ns \in [Server -> RaftNode], NEW b \in Seq(Envelope), Accounts(h, ns, b),
         NEW i \in Server, ns[i].role = "Leader", NEW command \in Command,
         NEW n, n = ClientAppend(ns[i], command)
  PROVE  \E g : Accounts(g, [ns EXCEPT ![i] = n], b)
<1> DEFINE e == [term |-> ns[i].current_term, command |-> command]
           g == Led(h, i, n.current_term, n.log)
           ms == [ns EXCEPT ![i] = n]
<1>1. Explains(h, ns) /\ ns[i] \in RaftNode
  BY DEF Accounts
<1>2. e \in LogEntry /\ e.term = ns[i].current_term
  BY <1>1, NodeFields DEF LogEntry
<1>3. n \in RaftNode
  BY <1>1, ClientAppendType
<1>4. /\ n.log = Append(ns[i].log, e)
      /\ n.current_term = ns[i].current_term /\ n.voted_for = ns[i].voted_for
      /\ n.role = "Leader" /\ n.votes_received = ns[i].votes_received
      /\ n.next_index = ns[i].next_index /\ n.match_index = ns[i].match_index
      /\ n.kv = ns[i].kv /\ n.commit_index = ns[i].commit_index
      /\ n.last_applied = ns[i].last_applied
  BY <1>1 DEF ClientAppend, RaftNode
<1>5. g = Led(h, i, n.current_term, n.log)
  OBVIOUS
<1> HIDE DEF e, g
<1>6. Explains(g, ms) /\ Grows(h, g) /\ LedAs(h, i, n.current_term, n.log, g)
  BY <1>1, <1>2, <1>3, <1>4, <1>5, WriteKeeps
<1>7. g.vote = h.vote /\ g.counted = h.counted
  BY <1>6 DEF LedAs
<1> HIDE DEF ms
<1>8. Accounts(g, ms, b \o <<>>)
  <2> DEFINE out == <<>>
  <2>1. out \in Seq(Envelope) /\ Once(out)
    BY OutOfOne
  <2>2. \A y \in Range(out) : EnvelopeOk(g, y) /\ (Single(y) => y \notin Range(b))
    BY OutOfOne
  <2> HIDE DEF out
  <2>3. Accounts(g, ms, b \o out)
    BY <1>6, <1>7, <2>1, <2>2, QuietBus
  <2> QED  BY <2>3 DEF out
<1>9. b \o <<>> = b
  OBVIOUS
<1> QED  BY <1>8, <1>9 DEF ms

\* A node that campaigns adopts the next term, gives itself its vote and asks every
\* other for theirs: no one has given it one in that term, nor is one under way.
LEMMA CampaignStep ==
  ASSUME NEW h, NEW ns \in [Server -> RaftNode], NEW b \in Seq(Envelope), Accounts(h, ns, b),
         NEW i \in Server, NEW r, r = StartElection(i, ns[i])
  PROVE  \E g : Accounts(g, [ns EXCEPT ![i] = r.node], b \o r.out)
<1> DEFINE n == ns[i]
           t == n.current_term + 1
           request == [type |-> "RequestVote", term |-> t, candidate |-> i,
                       last_log_index |-> Len(n.log), last_log_term |-> LastLogTerm(n)]
           c == [n EXCEPT !.role = "Candidate", !.current_term = @ + 1,
                          !.voted_for = i, !.votes_received = 1]
           f == [n EXCEPT !.role = "Follower", !.current_term = @ + 1, !.voted_for = Nil]
           log == n.log
           g == Stood(h, i, t, log)
           out == r.out
<1>1. /\ n \in RaftNode /\ n.current_term \in Nat /\ t \in Nat /\ n.current_term < t
      /\ log \in Seq(LogEntry)
      /\ h \in History /\ Explains(h, ns)
  BY NodeFields DEF Accounts, Explains
<1>2. /\ r.node = c /\ out \in Seq(Envelope)
      /\ \A e \in Range(out) : e.to \in Server \ {i} /\ e.msg = request
      /\ \A k, l \in DOMAIN out : out[k] = out[l] => k = l
  <2> DEFINE q == StartElection(i, n)
  <2>1. /\ q \in Return
        /\ q.node = [n EXCEPT !.role = "Candidate", !.current_term = @ + 1,
                              !.voted_for = i, !.votes_received = 1]
        /\ \A e \in Range(q.out) :
             /\ e.to \in Server \ {i}
             /\ e.msg = [type |-> "RequestVote", term |-> n.current_term + 1,
                         candidate |-> i, last_log_index |-> Len(n.log),
                         last_log_term |-> LastLogTerm(n)]
        /\ \A k, l \in DOMAIN q.out : q.out[k] = q.out[l] => k = l
    BY <1>1, StartElectionReturns
  <2>2. r = q
    OBVIOUS
  <2> HIDE DEF q, c, request
  <2>3. r.out \in Seq(Envelope)
    BY <2>1, <2>2 DEF Return
  <2> QED  BY <2>1, <2>2, <2>3 DEF c, request
<1>3. /\ f \in RaftNode /\ f.current_term = t /\ f.role = "Follower" /\ f.voted_for = Nil
      /\ f.log = log /\ SameStore(n, f)
  BY <1>1 DEF RaftNode, Role, SameStore
<1>4. /\ c \in RaftNode /\ c.current_term = t /\ c.role = "Candidate" /\ c.voted_for = i
      /\ c.votes_received = 1 /\ c.log = log /\ SameStore(n, c)
  BY <1>1 DEF RaftNode, Role, SameStore
<1> DEFINE zs == [ns EXCEPT ![i] = f]
           ms == [ns EXCEPT ![i] = c]
<1>5. /\ zs \in [Server -> RaftNode] /\ zs[i] = f /\ [zs EXCEPT ![i] = c] = ms
      /\ ms = [ns EXCEPT ![i] = r.node]
  BY <1>2, <1>3
<1>6. Explains(h, zs)
  BY <1>1, <1>3, RaiseKeeps
<1>7. g = Stood(h, i, t, log)
  OBVIOUS
<1> HIDE DEF f, zs, ms, c, g
<1>8. SameStore(f, c)
  BY <1>3, <1>4 DEF SameStore
<1>9. TermsBelow(log, t)
  BY <1>1 DEF Explains, NodeOk
<1>10. /\ Explains(g, ms) /\ Grows(h, g) /\ h.vote[t][i] = Nil
  <2>1. /\ zs[i].voted_for = Nil /\ TermsBelow(zs[i].log, zs[i].current_term)
        /\ c.current_term = zs[i].current_term /\ SameStore(zs[i], c)
    BY <1>3, <1>4, <1>5, <1>8, <1>9
  <2>2. /\ Explains(Stood(h, i, c.current_term, c.log), [zs EXCEPT ![i] = c])
        /\ Grows(h, Stood(h, i, c.current_term, c.log))
        /\ h.vote[c.current_term][i] = Nil
    <3>1. zs \in [Server -> RaftNode] /\ Explains(h, zs)
      BY <1>5, <1>6
    <3>2. /\ c \in RaftNode /\ c.role = "Candidate" /\ c.voted_for = i
          /\ c.votes_received = 1
      BY <1>4
    <3> QED  BY <2>1, <3>1, <3>2, StandKeeps
  <2> QED  BY <1>4, <1>5, <1>7, <2>2
<1>11. StoodAs(h, i, t, log, g)
  BY <1>1, <1>7, StoodFields
<1>12. /\ g \in History
       /\ \A u \in Nat, v \in Server :
            /\ g.vote[u][v] = IF u = t /\ v = i THEN i ELSE h.vote[u][v]
            /\ g.clog[u][v] = IF u = t /\ v = i THEN log ELSE h.clog[u][v]
            /\ g.counted[u][v] = IF u = t /\ v = i THEN {i} ELSE h.counted[u][v]
  BY <1>11 DEF StoodAs
<1> HIDE DEF t, log, request, out
<1>13. \A e \in Range(b) : e \in Envelope
  <2>1. \A k \in DOMAIN b : b[k] \in Envelope
    OBVIOUS
  <2> QED  BY <2>1 DEF Range
<1>14. \A e \in Range(b) : e.msg.type = "RequestVote" /\ RequestOk(h, e) =>
                             g.vote[e.msg.term][e.to] # e.msg.candidate
  <2> TAKE e \in Range(b)
  <2> HAVE e.msg.type = "RequestVote" /\ RequestOk(h, e)
  <2>1. e.to \in Server /\ e.msg.term \in Nat
    BY <1>13, MessageFields DEF Envelope
  <2>2. e.to # e.msg.candidate /\ h.vote[e.msg.term][e.to] # e.msg.candidate
    BY DEF RequestOk
  <2> QED  BY <1>12, <2>1, <2>2
<1>15. \A e \in Range(b) :
         e.msg.type = "RequestVoteReply" /\ e.msg.granted /\ GrantOk(h, e) =>
           e.msg.voter \notin g.counted[e.msg.term][e.to]
  <2> TAKE e \in Range(b)
  <2> HAVE e.msg.type = "RequestVoteReply" /\ e.msg.granted /\ GrantOk(h, e)
  <2>1. e.to \in Server /\ e.msg.term \in Nat
    BY <1>13, MessageFields DEF Envelope
  <2>2. e.msg.voter # e.to /\ e.msg.voter \notin h.counted[e.msg.term][e.to]
    BY DEF GrantOk
  <2> QED  BY <1>12, <2>1, <2>2
<1>16. Once(out)
  BY <1>2 DEF Once
<1>17. ASSUME NEW e \in Range(out)
       PROVE  EnvelopeOk(g, e) /\ (Single(e) => e \notin Range(b))
  <2>1. e.to \in Server /\ e.to # i /\ e.msg = request
    BY <1>2
  <2>2. /\ e.msg.type = "RequestVote" /\ e.msg.term = t /\ e.msg.candidate = i
        /\ e.msg.last_log_index = Len(log) /\ e.msg.last_log_term = LastTerm(log)
    BY <1>1, <2>1, LastLogTermIs DEF request, log
  <2>3. h.vote[t][e.to] # i
    <3>1. VoteOk(h, ns, t, e.to)
      BY <1>1, <2>1 DEF Explains
    <3>2. i # Nil
      BY StoreNodeAssumption
    <3> QED  BY <1>10, <3>1, <3>2 DEF VoteOk
  <2>4. g.vote[t][i] = i /\ g.vote[t][e.to] # i /\ g.clog[t][i] = log
    BY <1>1, <1>12, <2>1, <2>3
  <2>5. RequestOk(g, e)
    BY <2>1, <2>2, <2>4 DEF RequestOk
  <2>6. EnvelopeOk(g, e)
    BY <2>2, <2>5 DEF EnvelopeOk
  <2>7. e \notin Range(b)
    <3> SUFFICES ASSUME e \in Range(b) PROVE FALSE
      OBVIOUS
    <3>1. EnvelopeOk(h, e)
      BY DEF Accounts
    <3>2. h.vote[t][i] = i
      BY <2>2, <3>1 DEF EnvelopeOk, RequestOk
    <3> QED  BY <1>10, <3>2, StoreNodeAssumption
  <2> QED  BY <2>6, <2>7
<1>18. Accounts(g, ms, b \o out)
  BY <1>2, <1>10, <1>14, <1>15, <1>16, <1>17, BusKept
<1> QED  BY <1>5, <1>18 DEF out

-----------------------------------------------------------------------------
(* The invariant.                                                          *)

\* A later term is adopted; what is known of the node stays so.
LEMMA AdoptTermKeeps ==
  ASSUME NEW h, NEW ns \in [Server -> RaftNode], Explains(h, ns),
         NEW i \in Server, NEW m \in Message, NEW a, a = AtTermOf(ns[i], m)
  PROVE  /\ a \in RaftNode /\ m.term <= a.current_term
         /\ Explains(h, [ns EXCEPT ![i] = a])
<1> DEFINE n == ns[i]
<1>1. n \in RaftNode /\ n.current_term \in Nat /\ m.term \in Nat
  BY NodeFields, MessageFields
<1>2. a \in RaftNode
  BY <1>1, AtTermOfType
<1>3. CASE m.term > n.current_term
  <2>1. /\ a.current_term = m.term /\ a.role = "Follower" /\ a.voted_for = Nil
        /\ SameStore(n, a)
    BY <1>1, <1>3 DEF AtTermOf, RaftNode, SameStore
  <2>2. n.current_term < a.current_term /\ m.term <= a.current_term
    BY <1>1, <1>3, <2>1
  <2>3. Explains(h, [ns EXCEPT ![i] = a])
    BY <1>2, <2>1, <2>2, RaiseKeeps
  <2> QED  BY <1>2, <2>2, <2>3
<1>4. CASE ~(m.term > n.current_term)
  <2>1. a = n
    BY <1>4 DEF AtTermOf
  <2>2. [ns EXCEPT ![i] = n] = ns
    OBVIOUS
  <2>3. m.term <= a.current_term
    BY <1>1, <1>4, <2>1
  <2> QED  BY <1>2, <2>1, <2>2, <2>3
<1> QED  BY <1>3, <1>4

\* A message that is lost takes nothing with it.
LEMMA LoseStep ==
  ASSUME NEW h, NEW ns, NEW b \in Seq(Envelope), Accounts(h, ns, b), b # <<>>
  PROVE  Accounts(h, ns, Tail(b))
BY TailOnce DEF Accounts

\* A message is handled.
LEMMA HandleStep ==
  ASSUME NEW h, NEW ns \in [Server -> RaftNode], NEW b \in Seq(Envelope), Accounts(h, ns, b),
         b # <<>>, NEW i, i = Head(b).to, NEW m, m = Head(b).msg,
         NEW r, r = Handle(i, ns[i], m)
  PROVE  \E g : Accounts(g, [ns EXCEPT ![i] = r.node], Tail(b) \o r.out)
<1> DEFINE e == Head(b)
           d == Tail(b)
           a == AtTermOf(ns[i], m)
           zs == [ns EXCEPT ![i] = a]
<1>1. /\ e \in Envelope /\ EnvelopeOk(h, e) /\ d \in Seq(Envelope)
      /\ Single(e) => e \notin Range(d)
  BY TailOnce DEF Accounts
<1>2. i \in Server /\ m \in Message /\ e = [to |-> i, msg |-> m] /\ i = e.to /\ m = e.msg
  BY <1>1 DEF Envelope
<1>3. Accounts(h, ns, d) /\ Explains(h, ns)
  BY LoseStep DEF Accounts
<1>4. a \in RaftNode /\ m.term <= a.current_term /\ Explains(h, zs)
  BY <1>2, <1>3, AdoptTermKeeps
<1>5. /\ zs \in [Server -> RaftNode] /\ zs[i] = a
      /\ \A w : [zs EXCEPT ![i] = w] = [ns EXCEPT ![i] = w]
  BY <1>2, <1>4
<1> HIDE DEF e, d, zs
<1>6. Accounts(h, zs, d) /\ m.term <= zs[i].current_term
  BY <1>3, <1>4, <1>5 DEF Accounts
<1>7. /\ m.type = "RequestVote" => r = HandleRequestVote(i, zs[i], m)
      /\ m.type = "RequestVoteReply" => r = HandleVoteReply(i, zs[i], m)
      /\ m.type = "AppendEntries" => r = HandleAppendEntries(i, zs[i], m)
      /\ m.type = "AppendEntriesReply" => r = HandleAppendReply(i, zs[i], m)
  BY <1>5 DEF Handle
<1> HIDE DEF a
<1>8. \E g : Accounts(g, [zs EXCEPT ![i] = r.node], d \o r.out)
  <2>1. CASE m.type = "RequestVote"
    <3>1. zs \in [Server -> RaftNode] /\ r = HandleRequestVote(i, zs[i], m)
      BY <1>5, <1>7, <2>1
    <3> QED  BY <1>1, <1>2, <1>6, <2>1, <3>1, RequestStep
  <2>2. CASE m.type = "RequestVoteReply"
    <3>1. zs \in [Server -> RaftNode] /\ r = HandleVoteReply(i, zs[i], m)
      BY <1>5, <1>7, <2>2
    <3> QED  BY <1>1, <1>2, <1>6, <2>2, <3>1, VoteStep
  <2>3. CASE m.type = "AppendEntries"
    <3>1. zs \in [Server -> RaftNode] /\ r = HandleAppendEntries(i, zs[i], m)
      BY <1>5, <1>7, <2>3
    <3>2. AppendOk(h, [to |-> i, msg |-> m])
      BY <1>1, <1>2, <2>3 DEF EnvelopeOk
    <3> QED  BY <1>1, <1>2, <1>6, <2>3, <3>1, <3>2, AppendStep
  <2>4. CASE m.type = "AppendEntriesReply"
    <3>1. zs \in [Server -> RaftNode] /\ r = HandleAppendReply(i, zs[i], m)
      BY <1>5, <1>7, <2>4
    <3>2. AckOk(h, [to |-> i, msg |-> m])
      BY <1>1, <1>2, <2>4 DEF EnvelopeOk
    <3> QED  BY <1>1, <1>2, <1>6, <2>4, <3>1, <3>2, AckStep
  <2> QED  BY <1>2, <2>1, <2>2, <2>3, <2>4, MessageFields
<1>9. [zs EXCEPT ![i] = r.node] = [ns EXCEPT ![i] = r.node]
  BY <1>5
<1> QED  BY <1>8, <1>9 DEF d

\* The history of a cluster that has just started: nothing happened.
LEMMA InitInv == Init => StoreInv
<1> SUFFICES ASSUME Init PROVE StoreInv
  OBVIOUS
<1> DEFINE none == {}
           h == [vote    |-> [t \in Nat |-> [v \in Server |-> Nil]],
                 clog    |-> [t \in Nat |-> [v \in Server |-> <<>>]],
                 counted |-> [t \in Nat |-> [v \in Server |-> none]],
                 ldr     |-> [t \in Nat |-> Nil],
                 llog    |-> [t \in Nat |-> <<>>],
                 acc     |-> [t \in Nat |-> [v \in Server |-> 0]]]
<1>1. /\ \A t \in Nat : h.ldr[t] = Nil /\ h.llog[t] = <<>>
      /\ \A t \in Nat, v \in Server : /\ h.vote[t][v] = Nil /\ h.counted[t][v] = {}
                                      /\ h.acc[t][v] = 0
  OBVIOUS
<1>2. h \in History
  <2>1. <<>> \in Seq(LogEntry) /\ none \in SUBSET Server
    OBVIOUS
  <2>2. [t \in Nat |-> <<>>] \in [Nat -> Seq(LogEntry)]
    BY <2>1
  <2>3. [t \in Nat |-> [v \in Server |-> <<>>]] \in [Nat -> [Server -> Seq(LogEntry)]]
    BY <2>1
  <2> HIDE DEF none
  <2>4. [t \in Nat |-> [v \in Server |-> none]] \in [Nat -> [Server -> SUBSET Server]]
    BY <2>1
  <2> QED  BY <2>2, <2>3, <2>4 DEF History
<1> HIDE DEF h
<1>3. /\ \A i \in Server : nodes[i] = New
      /\ bus = <<>>
  BY DEF Init
<1>4. /\ New.role = "Follower" /\ New.current_term = 0 /\ New.voted_for = Nil
      /\ New.log = <<>> /\ New.commit_index = 0 /\ New.last_applied = 0 /\ New.kv = <<>>
  BY DEF New
<1> HIDE DEF New
<1>5. Nil \notin Server
  BY StoreNodeAssumption
<1>6. ASSUME NEW t \in Nat, NEW v \in Server PROVE VoteOk(h, nodes, t, v)
  BY <1>1, <1>3, <1>4 DEF VoteOk
<1>7. ASSUME NEW t \in Nat PROVE LeaderOk(h, nodes, t)
  BY <1>1 DEF LeaderOk
<1>8. ASSUME NEW i \in Server PROVE NodeOk(h, nodes, i)
  <2>1. nodes[i].log = <<>> /\ nodes[i] = New
    BY <1>3, <1>4
  <2>2. Owned(h, nodes[i].log) /\ TermsBelow(nodes[i].log, nodes[i].current_term + 1)
    BY <2>1 DEF Owned, TermsBelow
  <2>3. Carries(h, nodes, nodes[i].log, i, nodes[i].current_term + 1)
    BY <1>1 DEF Carries, Choosable, Proposed
  <2>4. AppliedOk(h, nodes[i])
    BY <1>4, <2>1 DEF AppliedOk, Same, Committed
  <2>5. OfficeOk(h, i, nodes[i])
    BY <1>4, <2>1 DEF OfficeOk
  <2> QED  BY <2>2, <2>3, <2>4, <2>5 DEF NodeOk
<1>9. Explains(h, nodes)
  BY <1>2, <1>6, <1>7, <1>8 DEF Explains
<1>10. Accounts(h, nodes, bus)
  BY <1>3, <1>9, OutOfOne DEF Accounts
<1> QED  BY <1>10 DEF StoreInv

\* Every step of the cluster extends the history that explains the state.
LEMMA NextInv == TypeOK /\ StoreInv /\ [Next]_vars => StoreInv'
<1> SUFFICES ASSUME TypeOK, StoreInv, [Next]_vars PROVE StoreInv'
  OBVIOUS
<1>1. nodes \in [Server -> RaftNode] /\ bus \in Seq(Envelope)
  BY DEF TypeOK
<1>2. PICK h : Accounts(h, nodes, bus)
  BY DEF StoreInv
<1>3. ASSUME NEW g, Accounts(g, nodes', bus') PROVE StoreInv'
  BY <1>3 DEF StoreInv
<1>4. ASSUME UNCHANGED <<nodes, bus>> PROVE StoreInv'
  BY <1>2, <1>3, <1>4
<1>5. CASE UNCHANGED vars
  BY <1>4, <1>5 DEF vars
<1>6. CASE Tick
  BY <1>4, <1>6 DEF Tick
<1>7. ASSUME NEW i \in Server, Campaign(i) PROVE StoreInv'
  <2> DEFINE r == StartElection(i, nodes[i])
  <2>1. nodes' = [nodes EXCEPT ![i] = r.node] /\ bus' = bus \o r.out
    BY <1>7 DEF Campaign, Install
  <2>2. r = StartElection(i, nodes[i])
    OBVIOUS
  <2> HIDE DEF r
  <2>3. \E g : Accounts(g, [nodes EXCEPT ![i] = r.node], bus \o r.out)
    BY <1>1, <1>2, <2>2, CampaignStep
  <2> QED  BY <1>3, <2>1, <2>3
<1>8. ASSUME NEW i \in Server, Heartbeat(i) PROVE StoreInv'
  <2>1. nodes[i].role = "Leader" /\ bus' = bus \o BroadcastAppendEntries(i, nodes[i])
        /\ nodes' = nodes
    BY <1>8 DEF Heartbeat
  <2>2. Accounts(h, nodes, bus \o BroadcastAppendEntries(i, nodes[i]))
    BY <1>1, <1>2, <2>1, HeartbeatStep
  <2> QED  BY <1>3, <2>1, <2>2
<1>9. ASSUME NEW i \in Server, Rest(i) PROVE StoreInv'
  BY <1>4, <1>9 DEF Rest
<1>10. CASE Deliver
  <2> DEFINE i == Head(bus).to
             m == Head(bus).msg
             r == Handle(i, nodes[i], m)
  <2>1. bus # <<>>
    BY <1>10 DEF Deliver
  <2>2. \/ nodes' = nodes /\ bus' = Tail(bus)
        \/ nodes' = [nodes EXCEPT ![i] = r.node] /\ bus' = Tail(bus) \o r.out
    <3> HIDE DEF r, i, m
    <3> QED  BY <1>10 DEF Deliver, Install, r, i, m
  <2>3. CASE nodes' = nodes /\ bus' = Tail(bus)
    <3>1. Accounts(h, nodes, Tail(bus))
      BY <1>1, <1>2, <2>1, LoseStep
    <3> QED  BY <1>3, <2>3, <3>1
  <2>4. CASE nodes' = [nodes EXCEPT ![i] = r.node] /\ bus' = Tail(bus) \o r.out
    <3>1. i = Head(bus).to /\ m = Head(bus).msg /\ r = Handle(i, nodes[i], m)
      OBVIOUS
    <3> HIDE DEF i, m, r
    <3>2. \E g : Accounts(g, [nodes EXCEPT ![i] = r.node], Tail(bus) \o r.out)
      BY <1>1, <1>2, <2>1, <3>1, HandleStep
    <3> QED  BY <1>3, <2>4, <3>2
  <2> QED  BY <2>2, <2>3, <2>4
<1>11. ASSUME NEW command \in Command, ClientWrite(command) PROVE StoreInv'
  <2>1. PICK i \in Server : /\ Leaders = {i}
                            /\ nodes' = [nodes EXCEPT ![i] = ClientAppend(@, command)]
    BY <1>11 DEF ClientWrite
  <2> DEFINE n == ClientAppend(nodes[i], command)
  <2>2. nodes[i].role = "Leader" /\ nodes' = [nodes EXCEPT ![i] = n] /\ bus' = bus
    BY <1>11, <2>1 DEF Leaders, ClientWrite
  <2>3. n = ClientAppend(nodes[i], command)
    OBVIOUS
  <2> HIDE DEF n
  <2>4. \E g : Accounts(g, [nodes EXCEPT ![i] = n], bus)
    BY <1>1, <1>2, <2>2, <2>3, WriteStep
  <2> QED  BY <1>3, <2>2, <2>4
<1>12. ASSUME NEW cut \in Cuts \cup {{}}, Cut(cut) PROVE StoreInv'
  BY <1>4, <1>12 DEF Cut
<1> QED  BY <1>5, <1>6, <1>7, <1>8, <1>9, <1>10, <1>11, <1>12 DEF Next, Run

\* At every moment there is a history of the elections and the logs that explains
\* the nodes and the messages under way.
THEOREM HistoryExplains == Spec => [](TypeOK /\ StoreInv)
<1>1. Init => TypeOK /\ StoreInv
  BY InitType, InitInv
<1>2. TypeOK /\ StoreInv /\ [Next]_vars => (TypeOK /\ StoreInv)'
  <2>1. TypeOK /\ [Next]_vars => TypeOK'
    BY NextType
  <2> QED  BY <2>1, NextInv
<1> QED  BY <1>1, <1>2, PTL DEF Spec

-----------------------------------------------------------------------------
(* What the invariant says of the nodes: the properties that are checked.  *)

\* Logs with the same first k entries have the same part up to k.
LEMMA SameParts ==
  ASSUME NEW s \in Seq(LogEntry), NEW r \in Seq(LogEntry), NEW k \in Nat, Same(s, r, k)
  PROVE  /\ SubSeq(s, 1, k) = SubSeq(r, 1, k)
         /\ SubSeq(s, 1, k) \in Seq(LogEntry) /\ Len(SubSeq(s, 1, k)) = k
<1> DEFINE x == SubSeq(s, 1, k)
           y == SubSeq(r, 1, k)
<1>1. /\ 1 \in Nat \ {0} /\ k <= Len(s) /\ k <= Len(r)
      /\ \A n \in 1..k : s[n] = r[n]
  BY DEF Same
<1>2. /\ x \in Seq(LogEntry) /\ Len(x) = (IF 1 <= k THEN k - 1 + 1 ELSE 0)
      /\ \A n \in 1..k - 1 + 1 : x[n] = s[1 + n - 1]
  BY <1>1, PartOfLog
<1>3. /\ y \in Seq(LogEntry) /\ Len(y) = (IF 1 <= k THEN k - 1 + 1 ELSE 0)
      /\ \A n \in 1..k - 1 + 1 : y[n] = r[1 + n - 1]
  BY <1>1, PartOfLog
<1> HIDE DEF x, y
<1>4. Len(x) = k /\ Len(y) = k
  BY <1>2, <1>3
<1>5. ASSUME NEW n \in 1..Len(x) PROVE x[n] = y[n]
  <2>1. n \in 1..k /\ n \in 1..k - 1 + 1 /\ 1 + n - 1 = n
    BY <1>4
  <2> QED  BY <1>1, <1>2, <1>3, <2>1
<1>6. x = y
  BY <1>2, <1>3, <1>4, <1>5, SeqEqual
<1> QED  BY <1>2, <1>4, <1>6 DEF x, y

\* A log is its part up to its end.
LEMMA WholePart ==
  ASSUME NEW s \in Seq(LogEntry) PROVE SubSeq(s, 1, Len(s)) = s
<1> DEFINE x == SubSeq(s, 1, Len(s))
           k == Len(s)
<1>1. k \in Nat /\ 1 \in Nat \ {0} /\ k <= Len(s)
  OBVIOUS
<1>2. /\ x \in Seq(LogEntry) /\ Len(x) = (IF 1 <= k THEN k - 1 + 1 ELSE 0)
      /\ \A n \in 1..k - 1 + 1 : x[n] = s[1 + n - 1]
  BY <1>1, PartOfLog
<1> HIDE DEF x
<1>3. Len(x) = Len(s)
  BY <1>2
<1>4. ASSUME NEW n \in 1..Len(x) PROVE x[n] = s[n]
  <2>1. n \in 1..k - 1 + 1 /\ 1 + n - 1 = n
    BY <1>3
  <2> QED  BY <1>2, <2>1
<1>5. x = s
  BY <1>2, <1>3, <1>4, SeqEqual
<1> QED  BY <1>5 DEF x

\* A log that another starts with is its prefix.
LEMMA SamePrefix ==
  ASSUME NEW s \in Seq(LogEntry), NEW r \in Seq(LogEntry), Same(s, r, Len(s))
  PROVE  IsPrefix(s, r)
<1>1. Len(s) \in Nat /\ Len(s) <= Len(r)
  BY DEF Same
<1>2. SubSeq(s, 1, Len(s)) = SubSeq(r, 1, Len(s))
  BY <1>1, SameParts
<1> QED  BY <1>1, <1>2 DEF IsPrefix

\* The types of what a node applied.
LEMMA StoreTypes ==
  ASSUME NEW n \in RaftNode
  PROVE  n.kv \in Seq(LogEntry) /\ n.commit_index \in Nat /\ Len(n.kv) \in Nat
         /\ n.log \in Seq(LogEntry)
BY DEF RaftNode

\* What no node's log loses: no handler commits past the log's end or drops what
\* was applied (node.rs, apply_committed), for every cluster and every bound.
THEOREM AppliedIsPrefix == Spec => []AppliedIsLogPrefix
<1>1. ASSUME TypeOK, StoreInv, NEW i \in Server
      PROVE  LET n == nodes[i]
             IN  /\ n.last_applied = n.commit_index
                 /\ n.commit_index <= LastLogIndex(n)
                 /\ n.kv = SubSeq(n.log, 1, n.last_applied)
  <2> DEFINE n == nodes[i]
  <2>1. n \in RaftNode
    BY <1>1 DEF TypeOK
  <2>2. PICK h : AppliedOk(h, n)
    BY <1>1 DEF StoreInv, Accounts, Explains, NodeOk
  <2> HIDE DEF n
  <2>3. /\ n.kv \in Seq(LogEntry) /\ n.log \in Seq(LogEntry) /\ n.commit_index \in Nat
    BY <2>1, StoreTypes
  <2>4. /\ n.last_applied = n.commit_index /\ Len(n.kv) = n.commit_index
        /\ Same(n.kv, n.log, n.commit_index) /\ n.commit_index <= Len(n.log)
    BY <2>2 DEF AppliedOk, Same
  <2>5. SubSeq(n.kv, 1, n.commit_index) = SubSeq(n.log, 1, n.commit_index)
    BY <2>3, <2>4, SameParts
  <2>6. SubSeq(n.kv, 1, n.commit_index) = n.kv
    BY <2>3, <2>4, WholePart
  <2>7. /\ n.last_applied = n.commit_index
        /\ n.commit_index <= LastLogIndex(n)
        /\ n.kv = SubSeq(n.log, 1, n.last_applied)
    BY <2>4, <2>5, <2>6 DEF LastLogIndex
  <2> QED  BY <2>7 DEF n
<1>2. TypeOK /\ StoreInv => AppliedIsLogPrefix
  BY <1>1 DEF AppliedIsLogPrefix
<1> QED  BY <1>2, HistoryExplains, PTL

\* What is chosen in a term may be chosen, so that the log of a later term's leader
\* has it.
LEMMA ChosenIsKept ==
  ASSUME NEW h, NEW ns \in [Server -> RaftNode], Explains(h, ns),
         NEW u \in Nat, NEW k \in Nat, Chosen(h, u, k),
         NEW w \in Nat, u <= w, h.ldr[w] # Nil, u = w => k <= Len(h.llog[w])
  PROVE  Same(h.llog[w], h.llog[u], k)
<1>1. h \in History /\ LeaderOk(h, ns, w)
  BY DEF Explains
<1>2. h.llog[w] \in Seq(LogEntry) /\ h.llog[u] \in Seq(LogEntry)
  BY <1>1, HistoryFields
<1>3. CASE u = w
  BY <1>3 DEF Same
<1>4. CASE u < w
  <2>1. Choosable(h, ns, u, k)
    BY DEF Chosen, Choosable
  <2>2. Complete(h, ns, h.llog[w], w)
    BY <1>1 DEF LeaderOk
  <2> QED  BY <1>4, <2>1, <2>2 DEF Complete
<1> QED  BY <1>3, <1>4

\* What a node applied is part of what was chosen.
LEMMA AppliedWasChosen ==
  ASSUME NEW h, NEW ns \in [Server -> RaftNode], Explains(h, ns), NEW i \in Server,
         ns[i].kv # <<>>
  PROVE  \E u, k \in Nat : /\ u <= ns[i].current_term /\ Chosen(h, u, k)
                           /\ Len(ns[i].kv) <= k /\ k <= Len(h.llog[u]) /\ h.ldr[u] # Nil
                           /\ Same(ns[i].kv, h.llog[u], Len(ns[i].kv))
<1> DEFINE n == ns[i]
           c == n.commit_index
<1>1. n \in RaftNode /\ h \in History /\ AppliedOk(h, n)
  BY DEF Explains, NodeOk
<1>2. n.kv \in Seq(LogEntry) /\ n.log \in Seq(LogEntry) /\ c \in Nat
  BY <1>1, StoreTypes
<1>3. Len(n.kv) = c /\ Same(n.kv, n.log, c) /\ Committed(h, n.log, c, n.current_term)
  BY <1>1 DEF AppliedOk
<1>4. c # 0
  BY <1>2, <1>3
<1>5. PICK u \in Nat, k \in Nat : /\ u <= n.current_term /\ c <= k /\ Chosen(h, u, k)
                                  /\ Same(n.log, h.llog[u], c)
  BY <1>3, <1>4 DEF Committed
<1>6. h.llog[u] \in Seq(LogEntry) /\ k <= Len(h.llog[u]) /\ h.ldr[u] # Nil
  BY <1>1, <1>5, HistoryFields DEF Chosen, Proposed
<1>7. Same(n.kv, h.llog[u], c)
  BY <1>2, <1>3, <1>5, <1>6, SameTrans
<1> QED  BY <1>3, <1>5, <1>6, <1>7

\* Two parts of one log: the shorter is a prefix of the longer.
LEMMA PartsOfOne ==
  ASSUME NEW s \in Seq(LogEntry), NEW r \in Seq(LogEntry), NEW q \in Seq(LogEntry),
         Same(s, q, Len(s)), Same(r, q, Len(r))
  PROVE  IsPrefix(s, r) \/ IsPrefix(r, s)
<1>1. Len(s) \in Nat /\ Len(r) \in Nat
  OBVIOUS
<1>2. CASE Len(s) <= Len(r)
  <2>1. Same(s, r, Len(s))
    BY <1>1, <1>2 DEF Same
  <2> QED  BY <2>1, SamePrefix
<1>3. CASE Len(r) <= Len(s)
  <2>1. Same(r, s, Len(r))
    BY <1>1, <1>3 DEF Same
  <2> QED  BY <2>1, SamePrefix
<1> QED  BY <1>1, <1>2, <1>3

\* The empty log is a prefix of any.
LEMMA EmptyPrefix ==
  ASSUME NEW s \in Seq(LogEntry) PROVE IsPrefix(<<>>, s)
<1> DEFINE r == <<>>
<1>1. r \in Seq(LogEntry) /\ Len(r) = 0 /\ Len(s) \in Nat
  OBVIOUS
<1>2. Same(r, s, Len(r))
  BY <1>1 DEF Same
<1> HIDE DEF r
<1>3. IsPrefix(r, s)
  BY <1>1, <1>2, SamePrefix
<1> QED  BY <1>3 DEF r

\* What two nodes applied, the one in the earlier term or the same: a later leader
\* has both.
LEMMA AppliedAgree ==
  ASSUME NEW h, NEW ns \in [Server -> RaftNode], Explains(h, ns),
         NEW s \in Seq(LogEntry), NEW r \in Seq(LogEntry),
         NEW u \in Nat, NEW k \in Nat, Chosen(h, u, k), Len(s) <= k,
         Same(s, h.llog[u], Len(s)), k <= Len(h.llog[u]),
         NEW w \in Nat, u <= w, h.ldr[w] # Nil, Same(r, h.llog[w], Len(r))
  PROVE  IsPrefix(s, r) \/ IsPrefix(r, s)
<1>1. h \in History
  BY DEF Explains
<1>2. h.llog[w] \in Seq(LogEntry) /\ h.llog[u] \in Seq(LogEntry) /\ Len(s) \in Nat
  BY <1>1, HistoryFields
<1>3. Same(h.llog[w], h.llog[u], k)
  BY ChosenIsKept
<1>4. Same(h.llog[u], h.llog[w], k)
  BY <1>2, <1>3, SameSym
<1>5. Same(s, h.llog[w], Len(s))
  BY <1>2, <1>4 DEF Same
<1> QED  BY <1>2, <1>5, PartsOfOne

\* No two nodes apply different entries at one index, for every cluster, whatever
\* is lost, cut off or late.
THEOREM StateMachinesAgree == Spec => []StateMachineSafety
<1>1. ASSUME TypeOK, StoreInv, NEW i \in Server, NEW j \in Server
      PROVE  IsPrefix(nodes[i].kv, nodes[j].kv) \/ IsPrefix(nodes[j].kv, nodes[i].kv)
  <2> DEFINE s == nodes[i].kv
             r == nodes[j].kv
  <2>1. nodes \in [Server -> RaftNode]
    BY <1>1 DEF TypeOK
  <2>2. PICK h : Explains(h, nodes)
    BY <1>1 DEF StoreInv, Accounts
  <2>3. s \in Seq(LogEntry) /\ r \in Seq(LogEntry)
    BY <2>1, StoreTypes
  <2>4. CASE s = <<>> \/ r = <<>>
    BY <2>3, <2>4, EmptyPrefix
  <2>5. CASE s # <<>> /\ r # <<>>
    <3>1. PICK u \in Nat, k \in Nat :
            /\ Chosen(h, u, k) /\ Len(s) <= k /\ k <= Len(h.llog[u]) /\ h.ldr[u] # Nil
            /\ Same(s, h.llog[u], Len(s))
      BY <2>1, <2>2, <2>5, AppliedWasChosen
    <3>2. PICK w \in Nat, l \in Nat :
            /\ Chosen(h, w, l) /\ Len(r) <= l /\ l <= Len(h.llog[w]) /\ h.ldr[w] # Nil
            /\ Same(r, h.llog[w], Len(r))
      BY <2>1, <2>2, <2>5, AppliedWasChosen
    <3> HIDE DEF s, r
    <3>3. u <= w => IsPrefix(s, r) \/ IsPrefix(r, s)
      BY <2>1, <2>2, <2>3, <3>1, <3>2, AppliedAgree
    <3>4. w <= u => IsPrefix(r, s) \/ IsPrefix(s, r)
      BY <2>1, <2>2, <2>3, <3>1, <3>2, AppliedAgree
    <3>5. u <= w \/ w <= u
      OBVIOUS
    <3> QED  BY <3>3, <3>4, <3>5 DEF s, r
  <2> QED  BY <2>4, <2>5
<1>2. TypeOK /\ StoreInv => StateMachineSafety
  BY <1>1 DEF StateMachineSafety
<1> QED  BY <1>2, HistoryExplains, PTL

\* A node that leads the latest term there is holds everything that any node has
\* applied, for every cluster, whatever was cut off or late.
THEOREM LeadersAreComplete == Spec => []LeaderIsComplete
<1>1. ASSUME TypeOK, StoreInv, NEW i \in Server, NEW j \in Server,
             nodes[i].role = "Leader",
             \A k \in Server : nodes[k].current_term <= nodes[i].current_term
      PROVE  IsPrefix(nodes[j].kv, nodes[i].log)
  <2> DEFINE s == nodes[j].kv
             n == nodes[i]
             t == n.current_term
  <2>1. nodes \in [Server -> RaftNode]
    BY <1>1 DEF TypeOK
  <2>2. PICK h : Explains(h, nodes)
    BY <1>1 DEF StoreInv, Accounts
  <2>3. /\ s \in Seq(LogEntry) /\ n.log \in Seq(LogEntry) /\ Len(s) \in Nat /\ t \in Nat
        /\ h \in History
    BY <2>1, <2>2, StoreTypes, NodeFields DEF Explains
  <2>4. h.ldr[t] = i /\ h.llog[t] = n.log
    BY <1>1, <2>2 DEF Explains, NodeOk, OfficeOk
  <2>5. CASE s = <<>>
    BY <2>3, <2>5, EmptyPrefix
  <2>6. CASE s # <<>>
    <3>1. PICK u \in Nat, k \in Nat :
            /\ u <= nodes[j].current_term /\ Chosen(h, u, k)
            /\ Len(s) <= k /\ k <= Len(h.llog[u]) /\ Same(s, h.llog[u], Len(s))
      BY <2>1, <2>2, <2>6, AppliedWasChosen
    <3>2. u <= t
      <4>1. nodes[j].current_term <= t /\ nodes[j].current_term \in Nat
        BY <1>1, <2>1, NodeFields
      <4> QED  BY <2>3, <3>1, <4>1
    <3>3. h.ldr[t] # Nil
      BY <2>4, StoreNodeAssumption
    <3> HIDE DEF s, t, n
    <3>4. Same(h.llog[t], h.llog[u], k)
      BY <2>1, <2>2, <2>3, <3>1, <3>2, <3>3, ChosenIsKept
    <3>5. Same(s, n.log, Len(s))
      <4>1. h.llog[u] \in Seq(LogEntry)
        BY <2>3, HistoryFields
      <4> QED  BY <2>3, <2>4, <3>1, <3>4, <4>1, SMTT(30) DEF Same
    <3>6. IsPrefix(s, n.log)
      BY <2>3, <3>5, SamePrefix
    <3> QED  BY <3>6 DEF s, n
  <2> QED  BY <2>5, <2>6
<1>2. TypeOK /\ StoreInv => LeaderIsComplete
  BY <1>1 DEF LeaderIsComplete
<1> QED  BY <1>2, HistoryExplains, PTL

\* What a leader takes a follower of its term to hold, the follower holds, for
\* every cluster: no late or repeated reply makes it believe more.
THEOREM MatchesAreHeld == Spec => []MatchIsHeld
<1>1. ASSUME TypeOK, StoreInv, NEW i \in Server, NEW j \in Server,
             nodes[i].role = "Leader", i # j,
             nodes[j].current_term = nodes[i].current_term
      PROVE  LET known == nodes[i].match_index[j]
             IN  /\ known <= LastLogIndex(nodes[i])
                 /\ IsPrefix(SubSeq(nodes[i].log, 1, known), nodes[j].log)
  <2> DEFINE n == nodes[i]
             known == n.match_index[j]
             t == n.current_term
             log == nodes[j].log
             part == SubSeq(n.log, 1, known)
  <2>1. /\ nodes \in [Server -> RaftNode] /\ n \in RaftNode /\ nodes[j] \in RaftNode
        /\ n.match_index \in [Server -> Nat]
    BY <1>1 DEF TypeOK, RaftNode
  <2>2. PICK h : Explains(h, nodes)
    BY <1>1 DEF StoreInv, Accounts
  <2>3. /\ log \in Seq(LogEntry) /\ n.log \in Seq(LogEntry) /\ known \in Nat /\ t \in Nat
        /\ h \in History
    BY <2>1, <2>2, StoreTypes, NodeFields DEF Explains
  <2>4. h.ldr[t] = i /\ h.llog[t] = n.log /\ known <= h.acc[t][j] /\ h.ldr[t] # Nil
    BY <1>1, <2>2, StoreNodeAssumption DEF Explains, NodeOk, OfficeOk
  <2>5. h.acc[t][j] \in Nat
    BY <2>3, HistoryFields
  <2>6. TakenOver(h, nodes, t, j)
    BY <2>2, <2>3, <2>4 DEF Explains, LeaderOk
  <2>7. h.acc[t][j] <= Len(n.log) /\ Same(log, n.log, h.acc[t][j])
    BY <1>1, <2>4, <2>6 DEF TakenOver
  <2> HIDE DEF n, known, t, log, part
  <2>8. known <= Len(n.log) /\ Same(log, n.log, known)
    <3>1. Len(n.log) \in Nat
      BY <2>3
    <3> QED  BY <2>3, <2>4, <2>5, <2>7, <3>1, SameShorter
  <2>9. Same(n.log, log, known)
    BY <2>3, <2>8, SameSym
  <2>10. part \in Seq(LogEntry) /\ Len(part) = known
         /\ part = SubSeq(log, 1, known)
    BY <2>3, <2>9, SameParts DEF part
  <2>11. IsPrefix(part, log)
    <3>1. known <= Len(log)
      BY <2>9 DEF Same
    <3>2. SubSeq(part, 1, known) = part
      BY <2>10, WholePart
    <3>3. SubSeq(part, 1, Len(part)) = SubSeq(log, 1, Len(part))
      BY <2>10, <3>2
    <3> QED  BY <2>10, <3>1, <3>3 DEF IsPrefix
  <2> QED  BY <2>8, <2>11 DEF n, known, log, part, LastLogIndex
<1>2. TypeOK /\ StoreInv => MatchIsHeld
  BY <1>1 DEF MatchIsHeld
<1> QED  BY <1>2, HistoryExplains, PTL

\* Sets with an element each for what is counted and what is to come.
LEMMA CountFits ==
  ASSUME NEW i \in Server, NEW M, M \subseteq Server, i \notin M,
         NEW C, C \subseteq M \cup {i},
         NEW G, NEW f \in Injection(G, M \ C)
  PROVE  Cardinality(C) + Cardinality(G) <= Cardinality(M) + 1
<1> DEFINE W == M \ C
           A == M \cup {i}
<1>1. IsFiniteSet(Server) /\ W \subseteq Server /\ A \subseteq Server /\ C \subseteq A
      /\ C \cap W = {} /\ C \cup W \subseteq A
  BY StoreNodeAssumption
<1>2. IsFiniteSet(M) /\ IsFiniteSet(W) /\ IsFiniteSet(A)
  BY <1>1, FS_Subset
<1>3. IsFiniteSet(C)
  BY <1>1, <1>2, FS_Subset
<1>4. Cardinality(A) = Cardinality(M) + 1
  BY <1>2, FS_AddElement
<1>5. IsFiniteSet(G) /\ Cardinality(G) <= Cardinality(W)
  BY <1>2, FS_Injection
<1> HIDE DEF W, A
<1>6. Cardinality(C \cup W) = Cardinality(C) + Cardinality(W) - Cardinality(C \cap W)
  BY <1>2, <1>3, FS_Union
<1>7. Cardinality(C \cap W) = 0
  BY <1>1, FS_EmptySet
<1>8. Cardinality(C \cup W) <= Cardinality(A) /\ IsFiniteSet(C \cup W)
  BY <1>1, <1>2, FS_Subset
<1>9. /\ Cardinality(C) \in Nat /\ Cardinality(W) \in Nat /\ Cardinality(G) \in Nat
      /\ Cardinality(M) \in Nat /\ Cardinality(A) \in Nat /\ Cardinality(C \cup W) \in Nat
  BY <1>2, <1>3, <1>5, <1>8, FS_CardinalityType
<1> QED  BY <1>4, <1>5, <1>6, <1>7, <1>8, <1>9

\* What a candidate or a leader has counted, and what is under way to it, are votes
\* of as many nodes, for every cluster: none is counted twice.
THEOREM VotesAreGiven == Spec => []VotesWereGiven
<1>1. ASSUME TypeOK, StoreInv, NEW i \in Server, nodes[i].role # "Follower"
      PROVE  nodes[i].votes_received + Cardinality(GrantsUnderWay(i))
               <= Cardinality(MayHaveVotedFor(i)) + 1
  <2> DEFINE t == nodes[i].current_term
             G == GrantsUnderWay(i)
             M == MayHaveVotedFor(i)
             f == [k \in G |-> bus[k].msg.voter]
  <2>1. /\ nodes \in [Server -> RaftNode] /\ bus \in Seq(Envelope) /\ t \in Nat
    BY <1>1, NodeFields DEF TypeOK
  <2>2. PICK h : Accounts(h, nodes, bus)
    BY <1>1 DEF StoreInv
  <2>3. h \in History /\ Explains(h, nodes) /\ NodeOk(h, nodes, i)
    BY <2>2 DEF Accounts, Explains
  <2> DEFINE C == h.counted[t][i]
  <2>4. /\ nodes[i].votes_received = Cardinality(C) /\ i \in C /\ C \in SUBSET Server
    BY <1>1, <2>1, <2>3, HistoryFields DEF NodeOk, OfficeOk
  <2>5. ASSUME NEW v \in Server, v # i, h.vote[t][v] = i PROVE v \in M
    <3>1. VoteOk(h, nodes, t, v) /\ i # Nil /\ nodes[v].current_term \in Nat
      BY <2>1, <2>3, StoreNodeAssumption, NodeFields DEF Explains
    <3>2. /\ ~(nodes[v].current_term < t)
          /\ nodes[v].current_term = t => nodes[v].voted_for = i
      BY <2>5, <3>1 DEF VoteOk
    <3>3. nodes[v].current_term > t \/ nodes[v].current_term = t
      BY <2>1, <3>1, <3>2
    <3> QED  BY <2>5, <3>2, <3>3 DEF MayHaveVotedFor
  <2>6. \A w \in C : h.vote[t][w] = i
    BY <2>1, <2>3 DEF Explains, VoteOk
  <2>7. M \subseteq Server /\ i \notin M
    BY DEF MayHaveVotedFor
  <2>8. ASSUME NEW k \in G
        PROVE  /\ k \in DOMAIN bus /\ bus[k] \in Envelope /\ Single(bus[k])
               /\ bus[k].to = i /\ bus[k].msg.type = "RequestVoteReply"
               /\ bus[k].msg.granted = TRUE /\ bus[k].msg.term = t
               /\ bus[k].msg.voter \in M \ C
    <3>1. /\ k \in DOMAIN bus /\ bus[k].to = i /\ bus[k].msg.type = "RequestVoteReply"
          /\ bus[k].msg.granted /\ bus[k].msg.term = t
      BY <2>8 DEF GrantsUnderWay
    <3>2. bus[k] \in Envelope /\ bus[k] \in Range(bus)
      BY <2>1, <3>1 DEF Range
    <3>3. bus[k].msg.granted \in BOOLEAN /\ bus[k].msg.voter \in Server
      BY <3>1, <3>2, MessageFields DEF Envelope
    <3>4. GrantOk(h, bus[k])
      BY <2>2, <3>1, <3>2 DEF Accounts, EnvelopeOk
    <3>5. /\ bus[k].msg.voter # i /\ h.vote[t][bus[k].msg.voter] = i
          /\ bus[k].msg.voter \notin C
      BY <3>1, <3>4 DEF GrantOk
    <3>6. bus[k].msg.voter \in M
      BY <2>5, <3>3, <3>5
    <3> QED  BY <3>1, <3>2, <3>3, <3>5, <3>6 DEF Single
  <2> HIDE DEF G, M, C
  <2>9. C \subseteq M \cup {i}
    BY <2>4, <2>5, <2>6
  <2>10. ASSUME NEW k \in G, NEW l \in G, bus[k].msg.voter = bus[l].msg.voter
         PROVE  k = l
    <3>1. bus[k] = bus[l]
      BY <2>8, <2>10, SameEnvelope
    <3>2. Once(bus)
      BY <2>2 DEF Accounts
    <3> QED  BY <2>8, <3>1, <3>2 DEF Once
  <2>11. f \in Injection(G, M \ C)
    <3>1. f \in [G -> M \ C]
      BY <2>8
    <3>2. \A k, l \in G : f[k] = f[l] => k = l
      BY <2>10
    <3> HIDE DEF f
    <3>3. IsInjective(f)
      BY <3>1, <3>2 DEF IsInjective
    <3> QED  BY <3>1, <3>3 DEF Injection
  <2> HIDE DEF f
  <2>12. Cardinality(C) + Cardinality(G) <= Cardinality(M) + 1
    BY <2>7, <2>9, <2>11, CountFits
  <2> QED  BY <2>4, <2>12 DEF G, M
<1>2. TypeOK /\ StoreInv => VotesWereGiven
  BY <1>1 DEF VotesWereGiven
<1> QED  BY <1>2, HistoryExplains, PTL

=============================================================================
