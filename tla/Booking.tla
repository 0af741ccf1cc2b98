-------------------------------- MODULE Booking --------------------------------
(***************************************************************************)
(* What a seat service promises, whatever it stores: every hold follows    *)
(* the lifecycle of hold.rs (`next`), and the seats of the holds that are  *)
(* held or confirmed never exceed the capacity.  Several holds may move in *)
(* one step: time expires all that are due at once.                        *)
(***************************************************************************)
EXTENDS Naturals, FiniteSets

CONSTANTS Id,        \* the ids holds may get
          capacity

VARIABLES status,  \* of every hold; "None" before it is granted
          size     \* the seats of every hold

States == {"Held", "Confirmed", "Released", "Expired"}

\* The pairs of `next`; it returns None from the other three states.
Arms == {<<"Held", "Confirmed">>, <<"Held", "Released">>, <<"Held", "Expired">>}

\* The sum of the sizes of the holds, as the number of their seats.
SeatsOf(ids) == Cardinality(UNION {{id} \X (1..size[id]) : id \in ids})

Committed == SeatsOf({id \in Id : status[id] \in {"Held", "Confirmed"}})

Init == /\ status = [id \in Id |-> "None"]
        /\ size = [id \in Id |-> 0]

Grant(id) == /\ status[id] = "None" /\ status'[id] = "Held"
             /\ size'[id] \in Nat \ {0}

Move(id) == <<status[id], status'[id]>> \in Arms /\ size'[id] = size[id]

Stay(id) == status'[id] = status[id] /\ size'[id] = size[id]

Next == /\ status' \in [Id -> States \cup {"None"}]
        /\ size' \in [Id -> Nat]
        /\ \A id \in Id : Grant(id) \/ Move(id) \/ Stay(id)
        /\ Committed' <= capacity

Spec == Init /\ [][Next]_<<status, size>>
=============================================================================
