------------------------------- MODULE SeatStore -------------------------------
(***************************************************************************)
(* The seat service built without the harness (store.rs, main.rs).  A      *)
(* handler reads Instant::now() and only then asks SeatStore for the       *)
(* mutex, so calls may run in another order than their clock readings; the *)
(* sweep of every call makes the expiry it saw final.                      *)
(***************************************************************************)
EXTENDS Naturals, FiniteSets

CONSTANTS Handler,   \* the requests the server works on at one time
          capacity,
          ttl,
          Requests,  \* the numbers of seats clients ask for
          MaxId,     \* bound on the holds granted
          MaxClock   \* bound on the clock

ASSUME StoreAssumption ==
  /\ capacity \in Nat /\ ttl \in Nat \ {0} /\ MaxId \in Nat
  /\ Requests \subseteq Nat /\ MaxClock \in Nat

VARIABLES clock,      \* Instant: it never goes back
          confirmed,
          holds,      \* the HashMap, as the set of its entries, [id, seats, expires_at]
          call,       \* what every handler is about to ask of the store, with
                      \* the clock reading it took along (`now`)
          outcome,    \* history: what became of every id
          size        \* history: the seats granted to every id

history == <<outcome, size>>
vars == <<clock, confirmed, holds, call, history>>

Id == 1..MaxId

Idle == [op |-> "none"]

Init == /\ clock = 0
        /\ confirmed = 0
        /\ holds = {}
        /\ call = [t \in Handler |-> Idle]
        /\ outcome = [id \in Id |-> "None"]
        /\ size = [id \in Id |-> 0]

SeatsOf(hs) == UNION {{h.id} \X (1..h.seats) : h \in hs}

\* expire: what the sweep of a call keeps.
Swept(now) == {h \in holds : h.expires_at > now}

committed(hs) == confirmed + Cardinality(SeatsOf(hs))

Fits(seats, hs) == seats # 0 /\ seats <= capacity - committed(hs)

\* Uuid::new_v4 gives an id no hold had; which one does not matter.
Unused == {id \in Id : outcome[id] = "None"}

\* The hold expires ttl after the clock reading its call took along.
Grant(c, kept) ==
  \E id \in Unused :
    /\ \A other \in Unused : id <= other
    /\ holds' = kept \cup {[id |-> id, seats |-> c.seats, expires_at |-> c.now + ttl]}
    /\ outcome' = [outcome EXCEPT ![id] = "Granted"]
    /\ size' = [size EXCEPT ![id] = c.seats]

-----------------------------------------------------------------------------

\* A handler has read the clock and waits for the mutex.
Arrive(t, c) == /\ call[t] = Idle
                /\ call' = [call EXCEPT ![t] = c]
                /\ UNCHANGED <<clock, confirmed, holds, history>>

Return(t) == call' = [call EXCEPT ![t] = Idle] /\ UNCHANGED clock

\* Mutant: what has expired is passed over in the count but stays stored.
RunHoldLazily(t) ==
  LET c == call[t]
  IN  /\ c.op = "hold"
      /\ IF Fits(c.seats, Swept(c.now))
         THEN Grant(c, holds)
         ELSE UNCHANGED <<holds, history>>
      /\ UNCHANGED confirmed
      /\ Return(t)

RunHold(t) ==
  LET c == call[t]
  IN  /\ c.op = "hold"
      /\ IF Fits(c.seats, Swept(c.now))
         THEN Grant(c, Swept(c.now))
         ELSE holds' = Swept(c.now) /\ UNCHANGED history
      /\ UNCHANGED confirmed
      /\ Return(t)

\* The entry of the call's id, when the sweep keeps it.
Found(c) == {h \in Swept(c.now) : h.id = c.id}

\* The entry leaves the map, and its hold ends as `how`.
Remove(c, how) ==
  /\ holds' = Swept(c.now) \ Found(c)
  /\ outcome' = [id \in Id |-> IF id = c.id /\ Found(c) # {} THEN how ELSE outcome[id]]
  /\ UNCHANGED size

RunConfirm(t) == /\ call[t].op = "confirm"
                 /\ Remove(call[t], "Confirmed")
                 /\ confirmed' = confirmed + Cardinality(SeatsOf(Found(call[t])))
                 /\ Return(t)

RunRelease(t) == /\ call[t].op = "release"
                 /\ Remove(call[t], "Released")
                 /\ UNCHANGED confirmed
                 /\ Return(t)

RunAvailable(t) == /\ call[t].op = "available"
                   /\ holds' = Swept(call[t].now)
                   /\ UNCHANGED <<confirmed, history>>
                   /\ Return(t)

Tick == /\ clock < MaxClock
        /\ clock' = clock + 1
        /\ UNCHANGED <<confirmed, holds, call, history>>

Ask(t) == \/ \E req \in Requests :
               Unused # {} /\ Arrive(t, [op |-> "hold", seats |-> req, now |-> clock])
          \/ \E id \in Id, op \in {"confirm", "release"} :
               outcome[id] # "None" /\ Arrive(t, [op |-> op, id |-> id, now |-> clock])
          \/ Arrive(t, [op |-> "available", now |-> clock])

Run(t) == RunHold(t) \/ RunConfirm(t) \/ RunRelease(t) \/ RunAvailable(t)

Next == Tick \/ \E t \in Handler : Ask(t) \/ Run(t)

Spec == Init /\ [][Next]_vars

-----------------------------------------------------------------------------

\* A hold is Held until a sweep drops it, though its time may be over before.
status == [id \in Id |->
             CASE outcome[id] = "Granted" ->
                    IF \E h \in holds : h.id = id THEN "Held" ELSE "Expired"
               [] OTHER -> outcome[id]]

Promise == INSTANCE Booking

\* Whatever the order in which the calls get the mutex, a call with an old
\* clock reading revives or confirms no hold whose seats a later reading has
\* freed, and the subtraction from the capacity never underflows.
KeepsPromise == Promise!Spec

=============================================================================
