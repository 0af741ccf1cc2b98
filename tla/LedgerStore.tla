------------------------------ MODULE LedgerStore ------------------------------
(***************************************************************************)
(* The ledger service built without the harness (main.rs): one mutex, held *)
(* by every handler from its first look at the ledger to its reply.  What  *)
(* a transfer replied is kept under its key and replayed.  There is no     *)
(* unfreeze.                                                               *)
(***************************************************************************)
EXTENDS Naturals, FiniteSets

CONSTANTS Account, Id, Amount, Key, Seed, U64_MAX, None

Command == [from : Id, to : Id, amount : Amount, key : Key]

\* What is kept and replied of a transfer that was carried out.
Receipt == [from : Account, to : Account, amount : Amount,
            from_balance : 0..U64_MAX, to_balance : 0..U64_MAX]

VARIABLES balance, state,
          applied,  \* the receipt under every key, or None
          told      \* history: <<key, receipt>> of the transfers replied with one

vars == <<balance, state, applied, told>>

Init == /\ balance = Seed
        /\ state = [id \in Account |-> "Open"]
        /\ applied = [key \in Key |-> None]
        /\ told = {}

accepts_transfers(id) == state[id] = "Open"

\* The unchecked addition: it wraps, as a release build does.
Plus(a, b) == (a + b) % (U64_MAX + 1)

\* Mutant: the payer's balance is not looked at.
AcceptedUnpaid(c) == /\ c.amount # 0 /\ c.from # c.to
                     /\ c.from \in Account /\ accepts_transfers(c.from)
                     /\ c.to \in Account /\ accepts_transfers(c.to)

\* None of the checks of apply_transfer returns early.
Accepted(c) == /\ c.amount # 0 /\ c.from # c.to
               /\ c.from \in Account /\ accepts_transfers(c.from)
               /\ c.to \in Account /\ accepts_transfers(c.to)
               /\ c.amount <= balance[c.from]

\* The receipt of a transfer that is carried out now.
ReceiptFor(c) == [from |-> c.from, to |-> c.to, amount |-> c.amount,
                  from_balance |-> balance[c.from] - c.amount,
                  to_balance |-> Plus(balance[c.to], c.amount)]

-----------------------------------------------------------------------------

\* Mutant: the replay is put together anew from today's balances.
ReplayAnew(c) == /\ told' = told \cup {<<c.key, [applied[c.key] EXCEPT
                               !.from_balance = balance[applied[c.key].from],
                               !.to_balance = balance[applied[c.key].to]]>>}
                 /\ UNCHANGED <<balance, state, applied>>

\* A known key: its receipt is replied again, whatever else the request says.
Replay(c) == /\ told' = told \cup {<<c.key, applied[c.key]>>}
             /\ UNCHANGED <<balance, state, applied>>

\* The handler `transfer`; a rejection changes nothing.
Transfer(c) ==
  IF applied[c.key] # None THEN Replay(c)
  ELSE IF Accepted(c)
  THEN LET receipt == ReceiptFor(c)
       IN  /\ balance' = [balance EXCEPT ![c.from] = receipt.from_balance,
                                         ![c.to] = receipt.to_balance]
           /\ applied' = [applied EXCEPT ![c.key] = receipt]
           /\ told' = told \cup {<<c.key, receipt>>}
           /\ UNCHANGED state
  ELSE UNCHANGED <<balance, state, applied, told>>

\* Mutant: a closed account is frozen again.
SetLifecycleAny(id, to) ==
  /\ state' = IF id \in Account THEN [state EXCEPT ![id] = to] ELSE state
  /\ UNCHANGED <<balance, applied, told>>

\* freeze and close, by set_state.
SetLifecycle(id, to) ==
  /\ state' = IF id \in Account /\ state[id] # "Closed"
              THEN [state EXCEPT ![id] = to] ELSE state
  /\ UNCHANGED <<balance, applied, told>>

Next == \/ \E c \in Command : Transfer(c)
        \/ \E id \in Id, to \in {"Frozen", "Closed"} : SetLifecycle(id, to)

Spec == Init /\ [][Next]_vars

-----------------------------------------------------------------------------

Books == INSTANCE Payments WITH moved <- applied

\* This service keeps the same books; the sum that is not checked never wraps
\* as long as the opening balances together fit a u64 (main.rs:194).
KeepsBooks == Books!Spec

\* Whatever is asked again under a key, and whenever, the reply is the first one
\* (main.rs:130, "so re-submission replays it").
ReceiptsRepeat ==
  \A r, s \in told : r[1] = s[1] => r[2] = s[2] /\ applied[r[1]] = r[2]

=============================================================================
