-------------------------------- MODULE Ledger --------------------------------
(***************************************************************************)
(* The ledger service built with the harness: Ledger (ledger.rs) behind    *)
(* the mutex of SharedLedger (state.rs), called by the handlers of         *)
(* http.rs.  A transfer and a query hold the mutex once, so each is one    *)
(* action.  The lifecycle handler takes it twice: to apply the event, and  *)
(* to read the balance it reports beside the state it was given.  Lines    *)
(* that do not parse change nothing and are left out.                      *)
(***************************************************************************)
EXTENDS Naturals, FiniteSets

CONSTANTS Account,  \* the accounts opened at start-up (main.rs)
          Id,       \* the ids requests name, known or not
          Amount,   \* the amounts requests name
          Key,      \* the idempotency keys
          Handler,  \* the lifecycle requests the server works on at one time
          Seed,     \* the balances the accounts are opened with
          U64_MAX,
          None

ASSUME LedgerAssumption ==
  /\ Account \subseteq Id /\ IsFiniteSet(Account)
  /\ U64_MAX \in Nat /\ Amount \subseteq 0..U64_MAX
  /\ Seed \in [Account -> 0..U64_MAX]

Command == [from : Id, to : Id, amount : Amount, key : Key]

ASSUME NoneAssumption == None \notin Command

VARIABLES balance,       \* of every account; its other half is
          state,         \* the lifecycle state
          applied_keys,
          pending,       \* what a lifecycle handler reads the balance for
          moved,         \* history: the command applied under every key
          told           \* history: <<id, balance>> of the replies that said closed

history == <<moved, told>>
vars == <<balance, state, applied_keys, pending, history>>

State == {"Open", "Frozen", "Closed"}

TypeOK == /\ balance \in [Account -> 0..U64_MAX]
          /\ state \in [Account -> State]
          /\ applied_keys \subseteq Key
          /\ pending \in [Handler -> (Account \X State) \cup {<<>>}]
          /\ moved \in [Key -> Command \cup {None}]
          /\ told \subseteq Account \X (0..U64_MAX)

Init == /\ balance = Seed
        /\ state = [id \in Account |-> "Open"]
        /\ applied_keys = {}
        /\ pending = [t \in Handler |-> <<>>]
        /\ moved = [key \in Key |-> None]
        /\ told = {}

accepts_transfers(id) == state[id] = "Open"

\* apply_transfer returns Some.
ApplyTransfer(from, to, amount) ==
  amount # 0 /\ amount <= from /\ to + amount <= U64_MAX

\* Mutant: a known key is no obstacle.
AcceptedAgain(c) ==
  /\ c.from # c.to
  /\ c.from \in Account /\ c.to \in Account
  /\ accepts_transfers(c.from) /\ accepts_transfers(c.to)
  /\ ApplyTransfer(balance[c.from], balance[c.to], c.amount)

\* Mutant: a frozen or closed account still receives.
AcceptedByAny(c) ==
  /\ c.key \notin applied_keys
  /\ c.from # c.to
  /\ c.from \in Account /\ c.to \in Account
  /\ accepts_transfers(c.from)
  /\ ApplyTransfer(balance[c.from], balance[c.to], c.amount)

\* None of the checks of `transfer` returns early.
Accepted(c) ==
  /\ c.key \notin applied_keys
  /\ c.from # c.to
  /\ c.from \in Account /\ c.to \in Account
  /\ accepts_transfers(c.from) /\ accepts_transfers(c.to)
  /\ ApplyTransfer(balance[c.from], balance[c.to], c.amount)

\* Mutant: the recipient's account is written, the payer's is not.
PaidUndebited(c) == [balance EXCEPT ![c.to] = @ + c.amount]

\* Mutant: the two new balances are written to each other's account.
PaidBackwards(c) == [balance EXCEPT ![c.from] = @ + c.amount, ![c.to] = @ - c.amount]

\* The two writes of `transfer`.
Paid(c) == [balance EXCEPT ![c.from] = @ - c.amount, ![c.to] = @ + c.amount]

\* The pairs of `next` with what they return; it returns None from all others.
Arms == {<<"Open", "Freeze", "Frozen">>, <<"Open", "Close", "Closed">>,
         <<"Frozen", "Unfreeze", "Open">>, <<"Frozen", "Close", "Closed">>}

Event == {"Freeze", "Unfreeze", "Close"}

-----------------------------------------------------------------------------

\* transfer: a duplicate, like a rejection, changes nothing.
Transfer(c) ==
  IF Accepted(c)
  THEN /\ balance' = Paid(c)
       /\ applied_keys' = applied_keys \cup {c.key}
       /\ moved' = [moved EXCEPT ![c.key] = c]
       /\ UNCHANGED <<state, pending, told>>
  ELSE UNCHANGED <<balance, state, applied_keys, pending, moved, told>>

\* The first locking of post_lifecycle; without an arm it replies at once.
ApplyLifecycle(t, id, event) ==
  /\ pending[t] = <<>>
  /\ IF id \in Account /\ \E s \in State : <<state[id], event, s>> \in Arms
     THEN \E s \in State :
            /\ <<state[id], event, s>> \in Arms
            /\ state' = [state EXCEPT ![id] = s]
            /\ pending' = [pending EXCEPT ![t] = <<id, s>>]
     ELSE UNCHANGED <<state, pending>>
  /\ UNCHANGED <<balance, applied_keys, history>>

\* Its second: the state is the event's, the balance is today's.
ReplyLifecycle(t) ==
  /\ pending[t] # <<>>
  /\ LET id == pending[t][1]
     IN  told' = IF pending[t][2] = "Closed" THEN told \cup {<<id, balance[id]>>}
                                             ELSE told
  /\ pending' = [pending EXCEPT ![t] = <<>>]
  /\ UNCHANGED <<balance, state, applied_keys, moved>>

\* get_account: both halves under one lock.
GetAccount(id) ==
  /\ told' = IF id \in Account /\ state[id] = "Closed"
             THEN told \cup {<<id, balance[id]>>} ELSE told
  /\ UNCHANGED <<balance, state, applied_keys, pending, moved>>

Next == \/ \E c \in Command : Transfer(c)
        \/ \E t \in Handler, id \in Id, event \in Event : ApplyLifecycle(t, id, event)
        \/ \E t \in Handler : ReplyLifecycle(t)
        \/ \E id \in Id : GetAccount(id)

Spec == Init /\ [][Next]_vars

-----------------------------------------------------------------------------

Books == INSTANCE Payments

\* Whatever the order of the requests, their retries and their lockings, the
\* service keeps the books Payments describes.
KeepsBooks == Books!Spec

\* The coins of the accounts in A, one <<id, k>> each.
Coins(A) == UNION {{id} \X (1..balance[id]) : id \in A}

\* Money is neither made nor lost (REQ-003), and so fits a u64 when what the
\* accounts were opened with did.
Conserved ==
  Cardinality(Coins(Account)) =
    Cardinality(UNION {{id} \X (1..Seed[id]) : id \in Account})

\* Once a client was told that an account is closed, in a reply put together
\* under two locks, the balance told beside it is the account's last.
ClosedIsFinal ==
  \A r \in told : state[r[1]] = "Closed" /\ balance[r[1]] = r[2]

=============================================================================
