------------------------------ MODULE LedgerProofs ------------------------------
(***************************************************************************)
(* What the harness's ledger keeps for any accounts, keys, amounts and     *)
(* number of concurrent requests.                                          *)
(***************************************************************************)
EXTENDS Ledgers, FiniteSetTheorems, TLAPS

-----------------------------------------------------------------------------
(* Types.                                                                  *)

\* The accounts open well typed.
LEMMA InitTyped == Init => TypeOK
  BY LedgerAssumption, NoneAssumption DEF Init, TypeOK, State

\* An accepted transfer leaves two balances a u64 can hold.
LEMMA PaidType ==
  ASSUME TypeOK, NEW c \in Command, Accepted(c)
  PROVE  /\ Paid(c) \in [Account -> 0..U64_MAX]
         /\ c.from \in Account /\ c.to \in Account /\ c.from # c.to
         /\ c.amount \in 1..balance[c.from]
         /\ state[c.from] = "Open" /\ state[c.to] = "Open"
         /\ c.key \in Key \ applied_keys
<1>1. /\ c.from \in Account /\ c.to \in Account /\ c.from # c.to
      /\ state[c.from] = "Open" /\ state[c.to] = "Open"
      /\ c.key \in Key \ applied_keys
      /\ c.amount # 0 /\ c.amount <= balance[c.from]
      /\ balance[c.to] + c.amount <= U64_MAX
  BY DEF Accepted, ApplyTransfer, accepts_transfers, Command
<1>2. c.amount \in Nat /\ U64_MAX \in Nat
  <2>1. c.amount \in Amount
    BY DEF Command
  <2>2. U64_MAX \in Nat /\ \A a \in Amount : a \in Nat
    BY LedgerAssumption
  <2> QED  BY <2>1, <2>2
<1>3. balance \in [Account -> 0..U64_MAX]
  BY DEF TypeOK
<1>4. c.amount \in 1..balance[c.from]
  BY <1>1, <1>2, <1>3
<1>5. /\ balance[c.from] - c.amount \in 0..U64_MAX
      /\ balance[c.to] + c.amount \in 0..U64_MAX
  BY <1>1, <1>2, <1>3
<1>6. Paid(c) \in [Account -> 0..U64_MAX]
  BY <1>1, <1>3, <1>5 DEF Paid
<1> QED  BY <1>1, <1>4, <1>6

\* Every request, and the late half of a lifecycle reply, keeps the types.
LEMMA NextTyped == TypeOK /\ [Next]_vars => TypeOK'
<1> SUFFICES ASSUME TypeOK, [Next]_vars PROVE TypeOK'
  OBVIOUS
<1>1. ASSUME NEW c \in Command, Transfer(c) PROVE TypeOK'
  <2>1. CASE Accepted(c)
    <3>1. balance' \in [Account -> 0..U64_MAX] /\ c.key \in Key
      BY <1>1, <2>1, PaidType DEF Transfer
    <3>2. applied_keys' \subseteq Key /\ moved' \in [Key -> Command \cup {None}]
      BY <1>1, <2>1, <3>1 DEF Transfer, TypeOK
    <3> QED  BY <1>1, <2>1, <3>1, <3>2 DEF Transfer, TypeOK
  <2>2. CASE ~Accepted(c)
    BY <1>1, <2>2 DEF Transfer, TypeOK
  <2> QED  BY <2>1, <2>2
<1>2. ASSUME NEW t \in Handler, NEW id \in Id, NEW event \in Event,
             ApplyLifecycle(t, id, event)
      PROVE  TypeOK'
  <2>1. state' \in [Account -> State]
    BY <1>2 DEF ApplyLifecycle, TypeOK
  <2>2. ASSUME NEW s \in State, id \in Account, pending' = [pending EXCEPT ![t] = <<id, s>>]
        PROVE  pending' \in [Handler -> (Account \X State) \cup {<<>>}]
    BY <2>2 DEF TypeOK
  <2>3. pending' \in [Handler -> (Account \X State) \cup {<<>>}]
    <3>1. CASE UNCHANGED pending
      BY <3>1 DEF TypeOK
    <3>2. CASE ~UNCHANGED pending
      BY <1>2, <2>2, <3>2 DEF ApplyLifecycle
    <3> QED  BY <3>1, <3>2
  <2> QED  BY <1>2, <2>1, <2>3 DEF ApplyLifecycle, TypeOK, history
<1>3. ASSUME NEW t \in Handler, ReplyLifecycle(t) PROVE TypeOK'
  <2>1. pending[t] \in Account \X State
    BY <1>3 DEF ReplyLifecycle, TypeOK
  <2>2. pending[t][1] \in Account
    BY <2>1
  <2>3. told' \subseteq Account \X (0..U64_MAX)
    BY <1>3, <2>2 DEF ReplyLifecycle, TypeOK
  <2>4. pending' \in [Handler -> (Account \X State) \cup {<<>>}]
    BY <1>3 DEF ReplyLifecycle, TypeOK
  <2> QED  BY <1>3, <2>3, <2>4 DEF ReplyLifecycle, TypeOK
<1>4. ASSUME NEW id \in Id, GetAccount(id) PROVE TypeOK'
  BY <1>4 DEF GetAccount, TypeOK
<1>5. CASE UNCHANGED vars
  BY <1>5 DEF vars, history, TypeOK
<1> QED  BY <1>1, <1>2, <1>3, <1>4, <1>5 DEF Next

\* Reachable states are well typed: no balance passes U64_MAX or falls below 0.
THEOREM LedgerTyped == Spec => []TypeOK
  BY InitTyped, NextTyped, PTL DEF Spec

-----------------------------------------------------------------------------
(* Money is conserved.                                                     *)

Piles(b, A) == UNION {{id} \X (1..b[id]) : id \in A}

\* An account holds as many coins as its balance says.
LEMMA PileOfOne ==
  ASSUME NEW id, NEW n \in Nat
  PROVE  /\ IsFiniteSet({id} \X (1..n))
         /\ Cardinality({id} \X (1..n)) = n
<1> DEFINE S == {id}
           T == 1..n
<1>1. IsFiniteSet(S) /\ Cardinality(S) = 1
  BY FS_Singleton
<1>2. IsFiniteSet(T) /\ Cardinality(T) = n
  BY FS_Interval
<1> HIDE DEF S, T
<1>3. IsFiniteSet(S \X T) /\ Cardinality(S \X T) = Cardinality(S) * Cardinality(T)
  BY <1>1, <1>2, FS_Product, Zenon
<1>4. Cardinality(S) * Cardinality(T) = n
  BY <1>1, <1>2
<1> QED  BY <1>3, <1>4 DEF S, T

\* Finitely many accounts with u64 balances hold finitely many coins.
LEMMA PilesFinite ==
  ASSUME NEW b \in [Account -> 0..U64_MAX], NEW A \in SUBSET Account
  PROVE  IsFiniteSet(Piles(b, A))
<1>1. IsFiniteSet(Account) /\ IsFiniteSet(1..U64_MAX)
  BY LedgerAssumption, FS_Interval
<1>2. IsFiniteSet(Account \X (1..U64_MAX))
  <2> DEFINE T == 1..U64_MAX
  <2> HIDE DEF T
  <2>1. IsFiniteSet(T)
    BY <1>1 DEF T
  <2> QED  BY <1>1, <2>1, FS_Product DEF T
<1>3. Piles(b, A) \subseteq Account \X (1..U64_MAX)
  BY LedgerAssumption DEF Piles
<1> QED  BY <1>2, <1>3, FS_Subset

\* One account's coins can be counted apart from the others'.
LEMMA PilesApart ==
  ASSUME NEW b \in [Account -> 0..U64_MAX], NEW A \in SUBSET Account, NEW id \in A
  PROVE  Cardinality(Piles(b, A)) = Cardinality(Piles(b, A \ {id})) + b[id]
<1> DEFINE S == Piles(b, A \ {id})
           T == {id} \X (1..b[id])
<1>1. Piles(b, A) = S \cup T /\ S \cap T = {}
  BY DEF Piles
<1>2. IsFiniteSet(S) /\ Cardinality(S) \in Nat
  BY PilesFinite, FS_CardinalityType
<1>3. b[id] \in Nat
  BY LedgerAssumption
<1>4. IsFiniteSet(T) /\ Cardinality(T) = b[id]
  BY <1>3, PileOfOne
<1> HIDE DEF S, T
<1>5. Cardinality(S \cup T) = Cardinality(S) + Cardinality(T) - Cardinality(S \cap T)
  BY <1>2, <1>4, FS_Union
<1>6. Cardinality(S \cap T) = 0
  BY <1>1, FS_EmptySet
<1> QED  BY <1>1, <1>2, <1>3, <1>4, <1>5, <1>6 DEF S

Shifted(b, from, to, amount) == [b EXCEPT ![from] = @ - amount, ![to] = @ + amount]

\* A payment between two accounts moves coins from one pile to another.
LEMMA MoveConserves ==
  ASSUME NEW b \in [Account -> 0..U64_MAX], NEW from \in Account, NEW to \in Account,
         from # to, NEW amount \in 1..b[from], b[to] + amount <= U64_MAX
  PROVE  /\ Shifted(b, from, to, amount) \in [Account -> 0..U64_MAX]
         /\ Cardinality(Piles(Shifted(b, from, to, amount), Account))
              = Cardinality(Piles(b, Account))
<1> DEFINE A == Account \ {from}
           R == A \ {to}
           d == Shifted(b, from, to, amount)
<1>1. b[from] \in 0..U64_MAX /\ b[to] \in 0..U64_MAX /\ U64_MAX \in Nat
  BY LedgerAssumption
<1>2. b[from] \in Nat /\ b[to] \in Nat /\ amount \in Nat
  BY <1>1
<1>3. b[from] - amount \in 0..U64_MAX /\ b[to] + amount \in 0..U64_MAX
  BY <1>1, <1>2
<1>4. d[from] = b[from] - amount /\ d[to] = b[to] + amount /\ \A id \in R : d[id] = b[id]
  BY DEF Shifted
<1>5. d \in [Account -> 0..U64_MAX]
  BY <1>3 DEF Shifted
<1> HIDE DEF d
<1>6. Piles(d, R) = Piles(b, R)
  BY <1>4 DEF Piles
<1>7. Cardinality(Piles(b, R)) \in Nat
  <2>1. R \in SUBSET Account
    OBVIOUS
  <2> QED  BY <2>1, PilesFinite, FS_CardinalityType
<1>8. /\ Cardinality(Piles(b, Account)) = Cardinality(Piles(b, A)) + b[from]
      /\ Cardinality(Piles(d, Account)) = Cardinality(Piles(d, A)) + d[from]
  BY <1>5, PilesApart
<1>9. /\ Cardinality(Piles(b, A)) = Cardinality(Piles(b, R)) + b[to]
      /\ Cardinality(Piles(d, A)) = Cardinality(Piles(d, R)) + d[to]
  <2>1. A \in SUBSET Account /\ to \in A
    OBVIOUS
  <2> HIDE DEF A
  <2> QED  BY <1>5, <2>1, PilesApart
<1> HIDE DEF A, R
<1>10. Cardinality(Piles(d, Account)) = Cardinality(Piles(b, Account))
  BY <1>2, <1>4, <1>6, <1>7, <1>8, <1>9
<1> QED  BY <1>5, <1>10 DEF d

\* Two accounts hold no more than all of them.
LEMMA TwoPiles ==
  ASSUME NEW b \in [Account -> 0..U64_MAX], NEW from \in Account, NEW to \in Account,
         from # to
  PROVE  b[from] + b[to] <= Cardinality(Piles(b, Account))
<1> DEFINE A == Account \ {from}
           R == A \ {to}
<1>1. A \in SUBSET Account /\ to \in A /\ R \in SUBSET Account
  OBVIOUS
<1>2. Cardinality(Piles(b, R)) \in Nat
  BY <1>1, PilesFinite, FS_CardinalityType
<1>3. Cardinality(Piles(b, Account)) = Cardinality(Piles(b, A)) + b[from]
  BY PilesApart
<1>4. Cardinality(Piles(b, A)) = Cardinality(Piles(b, R)) + b[to]
  <2> HIDE DEF A
  <2> QED  BY <1>1, PilesApart
<1>5. b[from] \in Nat /\ b[to] \in Nat
  BY LedgerAssumption
<1> HIDE DEF A, R
<1> QED  BY <1>2, <1>3, <1>4, <1>5

\* An accepted transfer is such a payment.
LEMMA PaidConserves ==
  ASSUME TypeOK, NEW c \in Command, Accepted(c)
  PROVE  Cardinality(Piles(Paid(c), Account)) = Cardinality(Piles(balance, Account))
<1>1. balance[c.to] + c.amount <= U64_MAX
  BY DEF Accepted, ApplyTransfer
<1>2. balance \in [Account -> 0..U64_MAX]
  BY DEF TypeOK
<1>3. Paid(c) = Shifted(balance, c.from, c.to, c.amount)
  BY DEF Paid, Shifted
<1>4. c.from \in Account /\ c.to \in Account /\ c.from # c.to /\ c.amount \in 1..balance[c.from]
  BY PaidType
<1> QED  BY <1>1, <1>2, <1>3, <1>4, MoveConserves

\* Conserved, written with the balances as an argument.
LEMMA ConservedPiles ==
  Conserved <=> Cardinality(Piles(balance, Account)) = Cardinality(Piles(Seed, Account))
  BY DEF Conserved, Coins, Piles

\* No request makes or loses money.
LEMMA NextConserved == TypeOK /\ Conserved /\ [Next]_vars => Conserved'
<1> SUFFICES ASSUME TypeOK, Conserved, [Next]_vars PROVE Conserved'
  OBVIOUS
<1>1. CASE \E c \in Command : Accepted(c) /\ Transfer(c)
  <2>1. PICK c \in Command : Accepted(c) /\ Transfer(c)
    BY <1>1
  <2>2. balance' = Paid(c)
    BY <2>1 DEF Transfer
  <2>3. Cardinality(Piles(balance', Account)) = Cardinality(Piles(Seed, Account))
    BY <2>1, <2>2, PaidConserves, ConservedPiles
  <2> QED  BY <2>3 DEF Conserved, Coins, Piles
<1>2. CASE ~\E c \in Command : Accepted(c) /\ Transfer(c)
  <2>1. UNCHANGED balance
    BY <1>2 DEF Next, Transfer, ApplyLifecycle, ReplyLifecycle, GetAccount, vars
  <2> QED  BY <2>1 DEF Conserved, Coins
<1> QED  BY <1>1, <1>2

\* The accounts hold together what they were opened with (REQ-003), whatever is
\* transferred, retried, frozen and closed, and in whatever order.
THEOREM MoneyConserved == Spec => []Conserved
<1>1. Init => Conserved
  BY DEF Init, Conserved, Coins
<1> QED  BY <1>1, LedgerTyped, NextConserved, PTL DEF Spec

-----------------------------------------------------------------------------
(* A closed account's balance is its last.                                 *)

\* A handler that is about to say closed got there by closing the account.
LateRepliesHold ==
  \A t \in Handler :
    pending[t] # <<>> => (pending[t][2] = "Closed" => state[pending[t][1]] = "Closed")

FinalInv == TypeOK /\ ClosedIsFinal /\ LateRepliesHold

\* A closed account stays closed and no transfer touches it.
LEMMA ClosedStays ==
  ASSUME TypeOK, [Next]_vars, NEW id \in Account, state[id] = "Closed"
  PROVE  state'[id] = "Closed" /\ balance'[id] = balance[id]
<1>1. CASE \E c \in Command : Accepted(c) /\ Transfer(c)
  <2>1. PICK c \in Command : Accepted(c) /\ Transfer(c)
    BY <1>1
  <2>2. balance' = Paid(c) /\ UNCHANGED state
    BY <2>1 DEF Transfer
  <2>3. id # c.from /\ id # c.to
    BY <2>1 DEF Accepted, accepts_transfers
  <2> QED  BY <2>2, <2>3 DEF Paid, TypeOK
<1>2. CASE \E t \in Handler, other \in Id, event \in Event : ApplyLifecycle(t, other, event)
  <2>1. PICK t \in Handler, other \in Id, event \in Event : ApplyLifecycle(t, other, event)
    BY <1>2
  <2>2. UNCHANGED state \/ (other # id /\ \E s \in State : state' = [state EXCEPT ![other] = s])
    BY <2>1 DEF ApplyLifecycle, Arms
  <2> QED  BY <2>1, <2>2 DEF ApplyLifecycle, TypeOK
<1>3. CASE UNCHANGED <<balance, state>>
  BY <1>3
<1> QED  BY <1>1, <1>2, <1>3 DEF Next, Transfer, ReplyLifecycle, GetAccount, vars

\* Between its two lockings a handler keeps the right to say closed.
LEMMA NextLate == TypeOK /\ LateRepliesHold /\ [Next]_vars => LateRepliesHold'
<1> SUFFICES ASSUME TypeOK, LateRepliesHold, [Next]_vars,
                    NEW t \in Handler, (pending[t] # <<>>)', (pending[t][2] = "Closed")'
             PROVE  (state[pending[t][1]] = "Closed")'
  BY DEF LateRepliesHold
<1>1. CASE pending'[t] = pending[t]
  <2>1. pending[t] # <<>> /\ pending[t][2] = "Closed"
    BY <1>1
  <2>2. pending[t] \in Account \X State
    BY <2>1 DEF TypeOK
  <2>3. pending[t][1] \in Account
    BY <2>2
  <2>4. state[pending[t][1]] = "Closed"
    BY <2>1 DEF LateRepliesHold
  <2>5. state'[pending[t][1]] = "Closed"
    BY <2>3, <2>4, ClosedStays
  <2> QED  BY <1>1, <2>5
<1>2. CASE pending'[t] # pending[t]
  <2>1. PICK h \in Handler, id \in Id, event \in Event : ApplyLifecycle(h, id, event)
    <3>1. ~\E h \in Handler : ReplyLifecycle(h)
      BY <1>2 DEF ReplyLifecycle, TypeOK
    <3> QED  BY <1>2, <3>1 DEF Next, Transfer, GetAccount, vars
  <2>2. PICK s \in State : /\ id \in Account
                          /\ state' = [state EXCEPT ![id] = s]
                          /\ pending' = [pending EXCEPT ![h] = <<id, s>>]
    BY <1>2, <2>1 DEF ApplyLifecycle
  <2>3. pending'[t] = <<id, s>>
    BY <1>2, <2>2 DEF TypeOK
  <2> QED  BY <2>2, <2>3 DEF TypeOK
<1> QED  BY <1>1, <1>2

\* Every reply that says closed tells a balance that will not change.
LEMMA NextFinal == FinalInv /\ [Next]_vars => FinalInv'
<1> SUFFICES ASSUME FinalInv, [Next]_vars PROVE FinalInv'
  OBVIOUS
<1>1. TypeOK /\ ClosedIsFinal /\ LateRepliesHold
  BY DEF FinalInv
<1>2. TypeOK' /\ LateRepliesHold'
  BY <1>1, NextTyped, NextLate
<1>3. \A r \in told' : r[1] \in Account /\ state[r[1]] = "Closed" /\ balance[r[1]] = r[2]
  <2>1. \A r \in told : r[1] \in Account /\ state[r[1]] = "Closed" /\ balance[r[1]] = r[2]
    BY <1>1 DEF TypeOK, ClosedIsFinal
  <2>2. ASSUME NEW t \in Handler, ReplyLifecycle(t)
        PROVE  \A r \in told' : r[1] \in Account /\ state[r[1]] = "Closed" /\ balance[r[1]] = r[2]
    <3> DEFINE id == pending[t][1]
    <3>1. pending[t] \in Account \X State
      BY <1>1, <2>2 DEF ReplyLifecycle, TypeOK
    <3>2. id \in Account
      BY <3>1
    <3>3. CASE pending[t][2] = "Closed"
      <4>1. state[id] = "Closed"
        BY <1>1, <2>2, <3>3 DEF ReplyLifecycle, LateRepliesHold
      <4>2. told' = told \cup {<<id, balance[id]>>}
        BY <2>2, <3>3 DEF ReplyLifecycle
      <4> HIDE DEF id
      <4> QED  BY <2>1, <3>2, <4>1, <4>2
    <3>4. CASE pending[t][2] # "Closed"
      BY <2>1, <2>2, <3>4 DEF ReplyLifecycle
    <3> QED  BY <3>3, <3>4
  <2>3. ASSUME NEW id \in Id, GetAccount(id)
        PROVE  \A r \in told' : r[1] \in Account /\ state[r[1]] = "Closed" /\ balance[r[1]] = r[2]
    BY <2>1, <2>3 DEF GetAccount
  <2>4. CASE UNCHANGED told
    BY <2>1, <2>4
  <2> QED  BY <2>2, <2>3, <2>4 DEF Next, Transfer, ApplyLifecycle, vars, history
<1>4. ClosedIsFinal'
  BY <1>1, <1>3, ClosedStays DEF ClosedIsFinal
<1> QED  BY <1>2, <1>4 DEF FinalInv

\* What a client was told of a closed account stays true, for any number of
\* lifecycle requests between their two lockings.
THEOREM ClosedAccountsFinal == Spec => []ClosedIsFinal
<1>1. Init => FinalInv
  BY InitTyped DEF Init, FinalInv, ClosedIsFinal, LateRepliesHold
<1>2. FinalInv => ClosedIsFinal
  BY DEF FinalInv
<1> QED  BY <1>1, <1>2, NextFinal, PTL DEF Spec

-----------------------------------------------------------------------------
(* The service implements Payments.                                        *)

\* The keys kept are those a transfer moved money under.
KeysMoved == \A key \in Key : key \notin applied_keys => moved[key] = None

\* A key is recorded when, and only when, its transfer is carried out.
LEMMA NextKeys == TypeOK /\ KeysMoved /\ [Next]_vars => KeysMoved'
<1> SUFFICES ASSUME TypeOK, KeysMoved, [Next]_vars PROVE KeysMoved'
  OBVIOUS
<1>1. CASE \E c \in Command : Accepted(c) /\ Transfer(c)
  <2>1. PICK c \in Command : Accepted(c) /\ Transfer(c)
    BY <1>1
  <2>2. applied_keys' = applied_keys \cup {c.key} /\ moved' = [moved EXCEPT ![c.key] = c]
    BY <2>1 DEF Transfer
  <2> QED  BY <2>2 DEF KeysMoved, TypeOK
<1>2. CASE UNCHANGED <<applied_keys, moved>>
  BY <1>2 DEF KeysMoved
<1> QED  BY <1>1, <1>2 DEF Next, Transfer, ApplyLifecycle, ReplyLifecycle, GetAccount, vars, history

\* An accepted transfer is a Move.
LEMMA TransferMoves ==
  ASSUME TypeOK, KeysMoved, NEW c \in Command, Accepted(c), Transfer(c)
  PROVE  Books!Next
<1>1. /\ c.from \in Account /\ c.to \in Account /\ c.from # c.to
      /\ c.amount \in 1..balance[c.from]
      /\ state[c.from] = "Open" /\ state[c.to] = "Open"
      /\ c.key \in Key \ applied_keys
  BY PaidType
<1>2. balance' = Paid(c) /\ moved' = [moved EXCEPT ![c.key] = c] /\ UNCHANGED state
  BY DEF Transfer
<1>3. moved[c.key] = None /\ moved'[c.key] = c
  BY <1>1, <1>2 DEF KeysMoved, TypeOK
<1>4. moved'[c.key] # None
  BY <1>3, NoneAssumption
<1>5. \A other \in Key \ {c.key} : moved'[other] = moved[other]
  BY <1>2 DEF TypeOK
<1>6. Books!Move(c.from, c.to, c.amount, c.key)
  BY <1>1, <1>2, <1>3, <1>4, <1>5 DEF Books!Move, Paid
<1> QED  BY <1>1, <1>6 DEF Books!Next

\* An event that has an arm is a Change.
LEMMA LifecycleChanges ==
  ASSUME TypeOK, NEW t \in Handler, NEW id \in Id, NEW event \in Event,
         ApplyLifecycle(t, id, event)
  PROVE  Books!Next \/ UNCHANGED <<balance, state, moved>>
<1>1. CASE id \in Account /\ \E s \in State : <<state[id], event, s>> \in Arms
  <2>1. PICK s \in State : <<state[id], event, s>> \in Arms /\ state' = [state EXCEPT ![id] = s]
    BY <1>1 DEF ApplyLifecycle
  <2>2. state'[id] = s /\ \A other \in Account \ {id} : state'[other] = state[other]
    BY <1>1, <2>1 DEF TypeOK
  <2>3. <<state[id], s>> \in Books!Arms
    BY <2>1 DEF Arms, Books!Arms
  <2>4. Books!Change(id)
    BY <2>2, <2>3 DEF Books!Change, ApplyLifecycle, history
  <2> QED  BY <1>1, <2>4 DEF Books!Next
<1>2. CASE ~(id \in Account /\ \E s \in State : <<state[id], event, s>> \in Arms)
  BY <1>2 DEF ApplyLifecycle, history
<1> QED  BY <1>1, <1>2

\* Every step of the service is a step of the abstract books, or none.
LEMMA NextBooks ==
  TypeOK /\ KeysMoved /\ [Next]_vars => [Books!Next]_<<balance, state, moved>>
<1> SUFFICES ASSUME TypeOK, KeysMoved, [Next]_vars
             PROVE  Books!Next \/ UNCHANGED <<balance, state, moved>>
  OBVIOUS
<1>1. ASSUME NEW c \in Command, Transfer(c)
      PROVE  Books!Next \/ UNCHANGED <<balance, state, moved>>
  <2>1. CASE Accepted(c)
    BY <1>1, <2>1, TransferMoves
  <2>2. CASE ~Accepted(c)
    BY <1>1, <2>2 DEF Transfer
  <2> QED  BY <2>1, <2>2
<1>2. ASSUME NEW t \in Handler, ReplyLifecycle(t) PROVE UNCHANGED <<balance, state, moved>>
  BY <1>2 DEF ReplyLifecycle
<1>3. ASSUME NEW id \in Id, GetAccount(id) PROVE UNCHANGED <<balance, state, moved>>
  BY <1>3 DEF GetAccount
<1>4. CASE UNCHANGED vars
  BY <1>4 DEF vars, history
<1> QED  BY <1>1, <1>2, <1>3, <1>4, LifecycleChanges DEF Next

\* The harness's ledger implements Payments: no retry moves money twice, no
\* transfer races past a frozen or closed account or an empty balance.
THEOREM ImplementsPayments == Spec => KeepsBooks
<1>1. Init => Books!Init /\ KeysMoved
  BY DEF Init, Books!Init, KeysMoved
<1> QED  BY <1>1, LedgerTyped, NextKeys, NextBooks, PTL DEF Spec, KeepsBooks, Books!Spec

-----------------------------------------------------------------------------
(* The two services, given the same requests.                              *)

pair_vars == <<vars, store_vars, unfrozen>>

StoreTyped == /\ store_balance \in [Account -> 0..U64_MAX]
              /\ store_state \in [Account -> State]
              /\ store_applied \in [Key -> Store!Receipt \cup {None}]
              /\ store_told \subseteq Key \X Store!Receipt

StoreConserved ==
  Cardinality(Piles(store_balance, Account)) = Cardinality(Piles(Seed, Account))

\* A reply once given is the receipt under its key.
TellsReceipts == \A r \in store_told : store_applied[r[1]] = r[2]

StoreInv == StoreTyped /\ StoreConserved /\ TellsReceipts

\* A request given to both is a step of each, or none.
LEMMA PairSteps ==
  [PairNext]_pair_vars =>
    /\ [Next]_vars
    /\ \/ \E c \in Command : Store!Transfer(c)
       \/ \E id \in Id, to \in {"Frozen", "Closed"} : Store!SetLifecycle(id, to)
       \/ UNCHANGED store_vars
<1> SUFFICES ASSUME [PairNext]_pair_vars
             PROVE  /\ [Next]_vars
                    /\ \/ \E c \in Command : Store!Transfer(c)
                       \/ \E id \in Id, to \in {"Frozen", "Closed"} : Store!SetLifecycle(id, to)
                       \/ UNCHANGED store_vars
  OBVIOUS
<1>1. ASSUME NEW c \in Command, PairTransfer(c) PROVE Next /\ Store!Transfer(c)
  BY <1>1 DEF PairTransfer, Next
<1>2. ASSUME NEW t \in Handler, NEW id \in Id, Freeze(t, id)
      PROVE  Next /\ Store!SetLifecycle(id, "Frozen")
  BY <1>2 DEF Freeze, Next, Event
<1>3. ASSUME NEW t \in Handler, NEW id \in Id, Close(t, id)
      PROVE  Next /\ Store!SetLifecycle(id, "Closed")
  BY <1>3 DEF Close, Next, Event
<1>4. ASSUME NEW t \in Handler, NEW id \in Id, Unfreeze(t, id)
      PROVE  Next /\ UNCHANGED store_vars
  BY <1>4 DEF Unfreeze, Next, Event
<1>5. ASSUME NEW t \in Handler, Reply(t) PROVE Next /\ UNCHANGED store_vars
  BY <1>5 DEF Reply, Next
<1>6. ASSUME NEW id \in Id, Query(id) PROVE Next /\ UNCHANGED store_vars
  BY <1>6 DEF Query, Next
<1>7. CASE UNCHANGED pair_vars
  BY <1>7 DEF pair_vars
<1> QED  BY <1>1, <1>2, <1>3, <1>4, <1>5, <1>6, <1>7 DEF PairNext

\* What the harness's ledger does beside the other it also does alone.
LEMMA PairLedger == PairSpec => Spec
  BY PairSteps, PTL DEF PairSpec, PairInit, Spec, pair_vars

\* A transfer the store accepts never wraps: the payer's cents and the payee's
\* are part of a supply that fits a u64.
LEMMA StoreCarriesOut ==
  ASSUME StoreInv, NEW c \in Command, Store!Accepted(c)
  PROVE  /\ c.from \in Account /\ c.to \in Account /\ c.from # c.to
         /\ store_state[c.from] = "Open" /\ store_state[c.to] = "Open"
         /\ c.amount \in 1..store_balance[c.from] /\ c.amount \in Amount /\ c.key \in Key
         /\ store_balance[c.to] + c.amount <= U64_MAX
         /\ Store!ReceiptFor(c) \in Store!Receipt
         /\ Store!ReceiptFor(c).from_balance = store_balance[c.from] - c.amount
         /\ Store!ReceiptFor(c).to_balance = store_balance[c.to] + c.amount
<1>1. /\ c.from \in Account /\ c.to \in Account /\ c.from # c.to
      /\ store_state[c.from] = "Open" /\ store_state[c.to] = "Open"
      /\ c.amount # 0 /\ c.amount <= store_balance[c.from]
      /\ c.amount \in Amount /\ c.key \in Key
  BY DEF Store!Accepted, Store!accepts_transfers, Command
<1>2. c.amount \in Nat /\ U64_MAX \in Nat
  <2>1. U64_MAX \in Nat /\ \A a \in Amount : a \in Nat
    BY LedgerAssumption
  <2> QED  BY <1>1, <2>1
<1>3. store_balance \in [Account -> 0..U64_MAX]
  BY DEF StoreInv, StoreTyped
<1>4. store_balance[c.from] \in 0..U64_MAX /\ store_balance[c.to] \in 0..U64_MAX
  BY <1>1, <1>3
<1>5. c.amount \in 1..store_balance[c.from]
  BY <1>1, <1>2, <1>4
<1>6. store_balance[c.to] + c.amount <= U64_MAX
  <2>1. store_balance[c.from] + store_balance[c.to] <= Cardinality(Piles(store_balance, Account))
    BY <1>1, <1>3, TwoPiles
  <2>2. Cardinality(Piles(store_balance, Account)) <= U64_MAX
    BY SupplyAssumption DEF StoreInv, StoreConserved, Piles
  <2>3. Cardinality(Piles(store_balance, Account)) \in Nat
    BY <1>3, PilesFinite, FS_CardinalityType
  <2> QED  BY <1>1, <1>2, <1>4, <2>1, <2>2, <2>3
<1>7. Store!Plus(store_balance[c.to], c.amount) = store_balance[c.to] + c.amount
  <2>1. store_balance[c.to] + c.amount \in 0..U64_MAX
    BY <1>2, <1>4, <1>6
  <2> DEFINE s == store_balance[c.to] + c.amount
  <2> HIDE DEF s
  <2>2. s % (U64_MAX + 1) = s
    BY <1>2, <2>1 DEF s
  <2> QED  BY <2>2 DEF Store!Plus, s
<1>8. store_balance[c.from] - c.amount \in 0..U64_MAX /\ store_balance[c.to] + c.amount \in 0..U64_MAX
  BY <1>1, <1>2, <1>4, <1>6
<1>9. /\ Store!ReceiptFor(c) = [from |-> c.from, to |-> c.to, amount |-> c.amount,
                                from_balance |-> store_balance[c.from] - c.amount,
                                to_balance |-> store_balance[c.to] + c.amount]
  BY <1>7 DEF Store!ReceiptFor
<1>10. Store!ReceiptFor(c) \in Store!Receipt
  BY <1>1, <1>8, <1>9 DEF Store!Receipt
<1> QED  BY <1>1, <1>5, <1>6, <1>9, <1>10

\* What a transfer of the store changes: nothing but the replies, or the two
\* balances and the receipt together.
LEMMA StoreTransfers ==
  ASSUME StoreInv, NEW c \in Command, Store!Transfer(c)
  PROVE  \/ /\ store_applied[c.key] # None
            /\ store_told' = store_told \cup {<<c.key, store_applied[c.key]>>}
            /\ UNCHANGED <<store_balance, store_state, store_applied>>
         \/ /\ store_applied[c.key] = None /\ Store!Accepted(c)
            /\ store_balance' = Shifted(store_balance, c.from, c.to, c.amount)
            /\ store_applied' = [store_applied EXCEPT ![c.key] = Store!ReceiptFor(c)]
            /\ store_told' = store_told \cup {<<c.key, Store!ReceiptFor(c)>>}
            /\ UNCHANGED store_state
         \/ /\ store_applied[c.key] = None /\ ~Store!Accepted(c)
            /\ UNCHANGED store_vars
<1>1. CASE store_applied[c.key] # None
  BY <1>1 DEF Store!Transfer, Store!Replay
<1>2. CASE store_applied[c.key] = None /\ Store!Accepted(c)
  <2>1. /\ store_balance' = [store_balance EXCEPT ![c.from] = Store!ReceiptFor(c).from_balance,
                                                  ![c.to] = Store!ReceiptFor(c).to_balance]
        /\ store_applied' = [store_applied EXCEPT ![c.key] = Store!ReceiptFor(c)]
        /\ store_told' = store_told \cup {<<c.key, Store!ReceiptFor(c)>>}
        /\ UNCHANGED store_state
    BY <1>2 DEF Store!Transfer
  <2>2. store_balance' = Shifted(store_balance, c.from, c.to, c.amount)
    <3>1. /\ Store!ReceiptFor(c).from_balance = store_balance[c.from] - c.amount
          /\ Store!ReceiptFor(c).to_balance = store_balance[c.to] + c.amount
          /\ c.from # c.to
      BY <1>2, StoreCarriesOut
    <3>2. store_balance \in [Account -> 0..U64_MAX]
      BY DEF StoreInv, StoreTyped
    <3> QED  BY <2>1, <3>1, <3>2 DEF Shifted
  <2> QED  BY <1>2, <2>1, <2>2
<1>3. CASE store_applied[c.key] = None /\ ~Store!Accepted(c)
  BY <1>3 DEF Store!Transfer, store_vars
<1> QED  BY <1>1, <1>2, <1>3

\* The other service opens with the same accounts.
LEMMA InitStore == PairInit => StoreInv
<1> SUFFICES ASSUME PairInit PROVE StoreInv
  OBVIOUS
<1>1. Store!Init
  BY DEF PairInit
<1>2. StoreTyped
  BY <1>1, LedgerAssumption DEF Store!Init, StoreTyped, State
<1>3. StoreConserved
  BY <1>1 DEF Store!Init, StoreConserved
<1>4. TellsReceipts
  BY <1>1 DEF Store!Init, TellsReceipts
<1> QED  BY <1>2, <1>3, <1>4 DEF StoreInv

\* Each of its handlers keeps its money and its receipts.
LEMMA NextStore == StoreInv /\ [PairNext]_pair_vars => StoreInv'
<1> SUFFICES ASSUME StoreInv, [PairNext]_pair_vars PROVE StoreInv'
  OBVIOUS
<1>1. StoreTyped /\ StoreConserved /\ TellsReceipts
  BY DEF StoreInv
<1>2. ASSUME NEW c \in Command, Store!Transfer(c) PROVE StoreInv'
  <2>0. c.key \in Key
    BY DEF Command
  <2>1. CASE /\ store_applied[c.key] # None
             /\ store_told' = store_told \cup {<<c.key, store_applied[c.key]>>}
             /\ UNCHANGED <<store_balance, store_state, store_applied>>
    <3>1. store_applied[c.key] \in Store!Receipt
      BY <1>1, <2>0, <2>1 DEF StoreTyped
    <3>2. StoreTyped'
      BY <1>1, <2>0, <2>1, <3>1 DEF StoreTyped
    <3>3. TellsReceipts'
      BY <1>1, <2>1 DEF TellsReceipts
    <3>4. StoreConserved'
      BY <1>1, <2>1 DEF StoreConserved
    <3> QED  BY <3>2, <3>3, <3>4 DEF StoreInv
  <2>2. CASE /\ store_applied[c.key] = None /\ Store!Accepted(c)
             /\ store_balance' = Shifted(store_balance, c.from, c.to, c.amount)
             /\ store_applied' = [store_applied EXCEPT ![c.key] = Store!ReceiptFor(c)]
             /\ store_told' = store_told \cup {<<c.key, Store!ReceiptFor(c)>>}
             /\ UNCHANGED store_state
    <3> DEFINE r == Store!ReceiptFor(c)
    <3>1. /\ c.from \in Account /\ c.to \in Account /\ c.from # c.to
          /\ c.amount \in 1..store_balance[c.from]
          /\ store_balance[c.to] + c.amount <= U64_MAX
          /\ r \in Store!Receipt
      BY <2>2, StoreCarriesOut
    <3>2. store_balance \in [Account -> 0..U64_MAX]
      BY <1>1 DEF StoreTyped
    <3>3. /\ store_balance' \in [Account -> 0..U64_MAX]
          /\ Cardinality(Piles(store_balance', Account)) = Cardinality(Piles(store_balance, Account))
      BY <2>2, <3>1, <3>2, MoveConserves
    <3> HIDE DEF r
    <3>4. StoreTyped'
      BY <1>1, <2>0, <2>2, <3>1, <3>3 DEF StoreTyped, r
    <3>5. StoreConserved'
      BY <1>1, <3>3 DEF StoreConserved, Piles
    <3>6. \A s \in store_told : s[1] \in Key /\ s[1] # c.key
      BY <1>1, <2>2, ReceiptAssumption DEF StoreTyped, TellsReceipts
    <3>7. TellsReceipts'
      BY <1>1, <2>0, <2>2, <3>6 DEF TellsReceipts, StoreTyped
    <3> QED  BY <3>4, <3>5, <3>7 DEF StoreInv
  <2>3. CASE UNCHANGED store_vars
    BY <1>1, <2>3 DEF store_vars, StoreInv, StoreTyped, StoreConserved, TellsReceipts, Piles
  <2> QED  BY <1>2, <2>1, <2>2, <2>3, StoreTransfers
<1>3. ASSUME NEW id \in Id, NEW to \in {"Frozen", "Closed"}, Store!SetLifecycle(id, to)
      PROVE  StoreInv'
  <2>1. UNCHANGED <<store_balance, store_applied, store_told>>
    BY <1>3 DEF Store!SetLifecycle
  <2>2. store_state' \in [Account -> State]
    BY <1>1, <1>3 DEF Store!SetLifecycle, StoreTyped, State
  <2> QED  BY <1>1, <2>1, <2>2 DEF StoreInv, StoreTyped, StoreConserved, TellsReceipts, Piles
<1>4. CASE UNCHANGED store_vars
  BY <1>1, <1>4 DEF store_vars, StoreInv, StoreTyped, StoreConserved, TellsReceipts, Piles
<1> QED  BY <1>2, <1>3, <1>4, PairSteps

\* However often a key is sent again, and with whatever beside it, the reply is
\* the receipt the first accepted transfer got.
THEOREM StoreRepeats == PairSpec => []ReceiptsRepeat
<1>1. StoreInv => ReceiptsRepeat
  BY DEF StoreInv, TellsReceipts, ReceiptsRepeat, Store!ReceiptsRepeat
<1> QED  BY <1>1, InitStore, NextStore, PTL DEF PairSpec, pair_vars

\* A transfer the store carries out is a Move of Payments.
LEMMA StoreMoves ==
  ASSUME StoreInv, NEW c \in Command,
         store_applied[c.key] = None, Store!Accepted(c),
         store_balance' = Shifted(store_balance, c.from, c.to, c.amount),
         store_applied' = [store_applied EXCEPT ![c.key] = Store!ReceiptFor(c)],
         UNCHANGED store_state
  PROVE  Store!Books!Next
<1>1. /\ c.from \in Account /\ c.to \in Account /\ c.from # c.to
      /\ store_state[c.from] = "Open" /\ store_state[c.to] = "Open"
      /\ c.amount \in 1..store_balance[c.from] /\ c.key \in Key
      /\ Store!ReceiptFor(c) \in Store!Receipt
  BY StoreCarriesOut
<1>2. store_applied \in [Key -> Store!Receipt \cup {None}]
  BY DEF StoreInv, StoreTyped
<1>3. store_applied'[c.key] # None
  BY <1>1, <1>2, ReceiptAssumption
<1>4. \A other \in Key \ {c.key} : store_applied'[other] = store_applied[other]
  BY <1>2
<1>5. Store!Books!Move(c.from, c.to, c.amount, c.key)
  BY <1>1, <1>3, <1>4 DEF Store!Books!Move, Shifted
<1> QED  BY <1>1, <1>5 DEF Store!Books!Next

\* freeze and close change an account along the arms of Payments, or nothing.
LEMMA StoreChanges ==
  ASSUME StoreInv, NEW id \in Id, NEW to \in {"Frozen", "Closed"},
         Store!SetLifecycle(id, to)
  PROVE  Store!Books!Next \/ UNCHANGED <<store_balance, store_state, store_applied>>
<1>1. CASE id \in Account /\ store_state[id] # "Closed" /\ store_state[id] # to
  <2>1. store_state \in [Account -> State]
    BY DEF StoreInv, StoreTyped
  <2>2. /\ store_state' = [store_state EXCEPT ![id] = to]
        /\ UNCHANGED <<store_balance, store_applied>>
    BY <1>1 DEF Store!SetLifecycle
  <2>3. <<store_state[id], store_state'[id]>> \in Store!Books!Arms
    BY <1>1, <2>1, <2>2 DEF State, Store!Books!Arms
  <2>4. Store!Books!Change(id)
    BY <1>1, <2>1, <2>2, <2>3 DEF Store!Books!Change
  <2> QED  BY <1>1, <2>4 DEF Store!Books!Next
<1>2. CASE ~(id \in Account /\ store_state[id] # "Closed" /\ store_state[id] # to)
  BY <1>2 DEF Store!SetLifecycle, StoreInv, StoreTyped
<1> QED  BY <1>1, <1>2

\* The service built without the harness implements Payments too; it checks no
\* sum for overflow, and needs none as long as the supply fits a u64.
THEOREM StoreImplementsPayments == PairSpec => StoreKeepsBooks
<1>1. PairInit => Store!Books!Init
  BY DEF PairInit, Store!Init, Store!Books!Init
<1>2. StoreInv /\ [PairNext]_pair_vars =>
        [Store!Books!Next]_<<store_balance, store_state, store_applied>>
  <2> SUFFICES ASSUME StoreInv, [PairNext]_pair_vars
               PROVE  Store!Books!Next \/ UNCHANGED <<store_balance, store_state, store_applied>>
    OBVIOUS
  <2>1. ASSUME NEW c \in Command, Store!Transfer(c)
        PROVE  Store!Books!Next \/ UNCHANGED <<store_balance, store_state, store_applied>>
    BY <2>1, StoreTransfers, StoreMoves DEF store_vars
  <2>2. CASE UNCHANGED store_vars
    BY <2>2 DEF store_vars
  <2> QED  BY <2>1, <2>2, PairSteps, StoreChanges
<1> QED  BY <1>1, <1>2, InitStore, NextStore, PTL
         DEF PairSpec, pair_vars, StoreKeepsBooks, Store!KeepsBooks, Store!Books!Spec

\* While the books are the same, the checks of the two services, though they
\* stand in another order, let the same transfers through.
LEMMA SameAccepts ==
  ASSUME TypeOK, StoreInv, SameBooks, ~unfrozen, NEW c \in Command
  PROVE  Accepted(c) <=> store_applied[c.key] = None /\ Store!Accepted(c)
<1>1. /\ balance = store_balance /\ state = store_state
      /\ applied_keys = {key \in Key : store_applied[key] # None}
      /\ c.key \in Key
  BY DEF SameBooks, Command
<1>2. ASSUME Accepted(c) PROVE store_applied[c.key] = None /\ Store!Accepted(c)
  BY <1>1, <1>2 DEF Accepted, ApplyTransfer, accepts_transfers,
                    Store!Accepted, Store!accepts_transfers
<1>3. ASSUME store_applied[c.key] = None, Store!Accepted(c) PROVE Accepted(c)
  <2>1. store_balance[c.to] + c.amount <= U64_MAX
    BY <1>3, StoreCarriesOut
  <2> QED  BY <1>1, <1>3, <2>1 DEF Accepted, ApplyTransfer, accepts_transfers,
                                   Store!Accepted, Store!accepts_transfers
<1> QED  BY <1>2, <1>3

\* A transfer sent to both leaves the books the same.
LEMMA SameTransfer ==
  ASSUME TypeOK, StoreInv, SameBooks, ~unfrozen, NEW c \in Command, PairTransfer(c)
  PROVE  SameBooks'
<1>1. /\ balance = store_balance /\ state = store_state
      /\ applied_keys = {key \in Key : store_applied[key] # None}
      /\ c.key \in Key
  BY DEF SameBooks, Command
<1>2. Transfer(c) /\ Store!Transfer(c)
  BY DEF PairTransfer
<1>3. CASE Accepted(c)
  <2>1. store_applied[c.key] = None /\ Store!Accepted(c)
    BY <1>3, SameAccepts
  <2>2. /\ store_balance' = Shifted(store_balance, c.from, c.to, c.amount)
        /\ store_applied' = [store_applied EXCEPT ![c.key] = Store!ReceiptFor(c)]
        /\ UNCHANGED store_state
    BY <1>2, <2>1, StoreTransfers
  <2>3. balance' = Paid(c) /\ applied_keys' = applied_keys \cup {c.key} /\ UNCHANGED state
    BY <1>2, <1>3 DEF Transfer
  <2>4. balance' = store_balance'
    BY <1>1, <2>2, <2>3 DEF Paid, Shifted
  <2>5. Store!ReceiptFor(c) # None
    BY <2>1, StoreCarriesOut, ReceiptAssumption
  <2>6. store_applied \in [Key -> Store!Receipt \cup {None}]
    BY DEF StoreInv, StoreTyped
  <2>7. applied_keys' = {key \in Key : store_applied'[key] # None}
    BY <1>1, <2>2, <2>3, <2>5, <2>6
  <2> QED  BY <1>1, <2>2, <2>3, <2>4, <2>7 DEF SameBooks
<1>4. CASE ~Accepted(c)
  <2>1. UNCHANGED <<balance, state, applied_keys>>
    BY <1>2, <1>4 DEF Transfer
  <2>2. UNCHANGED <<store_balance, store_state, store_applied>>
    BY <1>2, <1>4, SameAccepts, StoreTransfers DEF store_vars
  <2> QED  BY <1>1, <2>1, <2>2 DEF SameBooks
<1> QED  BY <1>3, <1>4

\* A freeze or a close sent to both leaves the books the same: the arms of one
\* and the early return of the other agree.
LEMMA SameLifecycle ==
  ASSUME TypeOK, SameBooks, ~unfrozen, NEW t \in Handler, NEW id \in Id,
         Freeze(t, id) \/ Close(t, id)
  PROVE  SameBooks'
<1>1. /\ balance = store_balance /\ state = store_state
      /\ applied_keys = {key \in Key : store_applied[key] # None}
  BY DEF SameBooks
<1>2. UNCHANGED <<balance, applied_keys, store_balance, store_applied>>
  BY DEF Freeze, Close, ApplyLifecycle, Store!SetLifecycle
<1>3. state \in [Account -> State]
  BY DEF TypeOK
<1>4. CASE id \in Account
  <2>1. state[id] \in State
    BY <1>3, <1>4
  <2>2. CASE Freeze(t, id)
    <3>1. state' = IF state[id] = "Open" THEN [state EXCEPT ![id] = "Frozen"] ELSE state
      BY <1>4, <2>1, <2>2 DEF Freeze, ApplyLifecycle, Arms, State
    <3>2. store_state' = IF state[id] # "Closed" THEN [state EXCEPT ![id] = "Frozen"] ELSE state
      BY <1>1, <1>4, <2>2 DEF Freeze, Store!SetLifecycle
    <3> QED  BY <1>3, <2>1, <3>1, <3>2, <1>1, <1>2 DEF State, SameBooks
  <2>3. CASE Close(t, id)
    <3>1. state' = IF state[id] # "Closed" THEN [state EXCEPT ![id] = "Closed"] ELSE state
      BY <1>4, <2>1, <2>3 DEF Close, ApplyLifecycle, Arms, State
    <3>2. store_state' = IF state[id] # "Closed" THEN [state EXCEPT ![id] = "Closed"] ELSE state
      BY <1>1, <1>4, <2>3 DEF Close, Store!SetLifecycle
    <3> QED  BY <3>1, <3>2, <1>1, <1>2 DEF SameBooks
  <2> QED  BY <2>2, <2>3
<1>5. CASE id \notin Account
  BY <1>1, <1>2, <1>5 DEF Freeze, Close, ApplyLifecycle, Store!SetLifecycle, SameBooks
<1> QED  BY <1>4, <1>5

\* No request drives the two services apart but an unfreeze.
LEMMA NextSame == TypeOK /\ StoreInv /\ SameBooks /\ [PairNext]_pair_vars => SameBooks'
<1> SUFFICES ASSUME TypeOK, StoreInv, SameBooks, [PairNext]_pair_vars PROVE SameBooks'
  OBVIOUS
<1>1. CASE unfrozen
  <2>1. unfrozen'
    <3>1. ASSUME NEW c \in Command, PairTransfer(c) PROVE unfrozen'
      BY <1>1, <3>1 DEF PairTransfer
    <3>2. ASSUME NEW t \in Handler, NEW id \in Id, Freeze(t, id) \/ Close(t, id) \/ Unfreeze(t, id)
          PROVE  unfrozen'
      BY <1>1, <3>2 DEF Freeze, Close, Unfreeze
    <3>3. ASSUME NEW t \in Handler, Reply(t) PROVE unfrozen'
      BY <1>1, <3>3 DEF Reply
    <3>4. ASSUME NEW id \in Id, Query(id) PROVE unfrozen'
      BY <1>1, <3>4 DEF Query
    <3>5. CASE UNCHANGED pair_vars
      BY <1>1, <3>5 DEF pair_vars
    <3> QED  BY <3>1, <3>2, <3>3, <3>4, <3>5 DEF PairNext
  <2> QED  BY <2>1 DEF SameBooks
<1>2. CASE ~unfrozen
  <2>1. ASSUME NEW t \in Handler, NEW id \in Id, Unfreeze(t, id) PROVE SameBooks'
    <3>1. CASE unfrozen'
      BY <3>1 DEF SameBooks
    <3>2. CASE ~unfrozen'
      BY <1>2, <2>1, <3>2 DEF Unfreeze, ApplyLifecycle, store_vars, SameBooks
    <3> QED  BY <3>1, <3>2
  <2>2. ASSUME NEW t \in Handler, Reply(t) PROVE SameBooks'
    BY <2>2 DEF Reply, ReplyLifecycle, store_vars, SameBooks
  <2>3. ASSUME NEW id \in Id, Query(id) PROVE SameBooks'
    BY <2>3 DEF Query, GetAccount, store_vars, SameBooks
  <2>4. CASE UNCHANGED pair_vars
    BY <2>4 DEF pair_vars, vars, store_vars, SameBooks
  <2> QED  BY <1>2, <2>1, <2>2, <2>3, <2>4, SameTransfer, SameLifecycle DEF PairNext
<1> QED  BY <1>1, <1>2

\* Until an account is unfrozen the two services carry out the same transfers
\* and end with the same accounts, for any accounts, keys and amounts.
THEOREM ServicesAgree == PairSpec => []SameBooks
<1>1. PairInit => SameBooks
  BY DEF PairInit, Init, Store!Init, SameBooks
<1>2. PairSpec => []TypeOK
  BY PairLedger, LedgerTyped
<1> QED  BY <1>1, <1>2, InitStore, NextStore, NextSame, PTL DEF PairSpec, pair_vars

=============================================================================
