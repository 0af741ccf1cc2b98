------------------------------- MODULE Payments -------------------------------
(***************************************************************************)
(* What a ledger promises (REQ-002 to REQ-005 of the ledger example): a    *)
(* key moves money at most once, between two different open accounts and   *)
(* never more than the payer has, and an account moves from Open to Frozen *)
(* and back and is Closed for good.                                        *)
(***************************************************************************)
EXTENDS Naturals

CONSTANTS Account, Key,
          Seed,   \* the balances the accounts are opened with
          None

VARIABLES balance,
          state,
          moved   \* the transfer that moved money under every key, or None

\* The moves of lifecycle.rs's `next`, whatever the event.
Arms == {<<"Open", "Frozen">>, <<"Open", "Closed">>,
         <<"Frozen", "Open">>, <<"Frozen", "Closed">>}

Init == /\ balance = Seed
        /\ state = [id \in Account |-> "Open"]
        /\ moved = [key \in Key |-> None]

Move(from, to, amount, key) ==
  /\ moved[key] = None /\ moved'[key] # None
  /\ \A other \in Key \ {key} : moved'[other] = moved[other]
  /\ from # to /\ state[from] = "Open" /\ state[to] = "Open"
  /\ amount \in 1..balance[from]
  /\ balance' = [balance EXCEPT ![from] = @ - amount, ![to] = @ + amount]
  /\ UNCHANGED state

Change(id) == /\ <<state[id], state'[id]>> \in Arms
              /\ \A other \in Account \ {id} : state'[other] = state[other]
              /\ UNCHANGED <<balance, moved>>

Next == \/ \E from, to \in Account, key \in Key :
             \E amount \in 1..balance[from] : Move(from, to, amount, key)
        \/ \E id \in Account : Change(id)

Spec == Init /\ [][Next]_<<balance, state, moved>>
=============================================================================
