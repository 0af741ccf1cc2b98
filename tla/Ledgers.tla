-------------------------------- MODULE Ledgers --------------------------------
(***************************************************************************)
(* The two ledger services, built from one specification, given the same   *)
(* requests.  One of them has no unfreeze and passes over it; the other    *)
(* takes its mutex twice and may reply late.                               *)
(***************************************************************************)
EXTENDS Ledger

VARIABLES store_balance, store_state, store_applied, store_told,
          unfrozen  \* history: some account was unfrozen

Store == INSTANCE LedgerStore
           WITH balance <- store_balance, state <- store_state,
                applied <- store_applied, told <- store_told

store_vars == <<store_balance, store_state, store_applied, store_told>>

\* What the accounts are opened with fits a u64 all together (main.rs:194).
ASSUME SupplyAssumption ==
  Cardinality(UNION {{id} \X (1..Seed[id]) : id \in Account}) <= U64_MAX

ASSUME ReceiptAssumption == None \notin Store!Receipt

PairInit == Init /\ Store!Init /\ unfrozen = FALSE

PairTransfer(c) == Transfer(c) /\ Store!Transfer(c) /\ UNCHANGED unfrozen

Freeze(t, id) == /\ ApplyLifecycle(t, id, "Freeze")
                 /\ Store!SetLifecycle(id, "Frozen")
                 /\ UNCHANGED unfrozen

Close(t, id) == /\ ApplyLifecycle(t, id, "Close")
                /\ Store!SetLifecycle(id, "Closed")
                /\ UNCHANGED unfrozen

Unfreeze(t, id) == /\ ApplyLifecycle(t, id, "Unfreeze")
                   /\ unfrozen' = (unfrozen \/ state' # state)
                   /\ UNCHANGED store_vars

Reply(t) == ReplyLifecycle(t) /\ UNCHANGED <<store_vars, unfrozen>>

Query(id) == GetAccount(id) /\ UNCHANGED <<store_vars, unfrozen>>

PairNext == \/ \E c \in Command : PairTransfer(c)
            \/ \E t \in Handler, id \in Id : Freeze(t, id) \/ Close(t, id) \/ Unfreeze(t, id)
            \/ \E t \in Handler : Reply(t)
            \/ \E id \in Id : Query(id)

PairSpec == PairInit /\ [][PairNext]_<<vars, store_vars, unfrozen>>

-----------------------------------------------------------------------------

\* What the other service promises by itself.
StoreKeepsBooks == Store!KeepsBooks
ReceiptsRepeat == Store!ReceiptsRepeat

\* Until an account is unfrozen the two services, whose checks come in another
\* order, carry out the same transfers and end with the same accounts.
SameBooks ==
  unfrozen \/ /\ balance = store_balance /\ state = store_state
              /\ applied_keys = {key \in Key : store_applied[key] # None}
=============================================================================
