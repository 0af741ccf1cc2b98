--------------------------------- MODULE Seats ---------------------------------
(***************************************************************************)
(* The seat service built with the harness: SeatMap (seats.rs) behind the  *)
(* mutex of SeatService (service.rs), which every operation holds from the *)
(* reading of the clock to its return, so an operation is one action.      *)
(*                                                                         *)
(* The clock is SystemTime (adapters.rs): it passes, and it may also be    *)
(* set back.  Sums of u32 are exact here: the code's checked and           *)
(* saturating arithmetic differs from them only past u32::MAX.             *)
(***************************************************************************)
EXTENDS Naturals, FiniteSets

CONSTANTS capacity,
          HOLD_TTL_SECS,
          Requests,   \* the numbers of seats clients ask for
          MaxId,      \* bound on the calls of hold
          MaxClock,   \* bound on the clock: a hold is asked for only if it
                      \* expires by then
          Jumps       \* by how much the clock may be set back

ASSUME SeatsAssumption ==
  /\ capacity \in Nat /\ HOLD_TTL_SECS \in Nat \ {0} /\ MaxId \in Nat
  /\ Requests \subseteq Nat /\ MaxClock \in Nat /\ Jumps \subseteq Nat

VARIABLES clock,
          last_id,    \* the ids handed out are 1..last_id
          confirmed,
          holds,      \* the Vec of holds, whose order is never observed
          outcome,    \* history: what became of every id
          size        \* history: the seats granted to every id

history == <<outcome, size>>
vars == <<clock, last_id, confirmed, holds, history>>

Id == 1..MaxId

Hold == [id : Id, seats : Nat \ {0}, expires_at : Nat]

TypeOK == /\ clock \in Nat
          /\ last_id \in 0..MaxId
          /\ confirmed \in Nat
          /\ holds \subseteq Hold
          /\ outcome \in [Id -> {"None", "Granted", "Confirmed", "Released"}]
          /\ size \in [Id -> Nat]

Init == /\ clock = 0
        /\ last_id = 0
        /\ confirmed = 0
        /\ holds = {}
        /\ outcome = [id \in Id |-> "None"]
        /\ size = [id \in Id |-> 0]

\* Mutant: a hold never expires.
LiveForever(now) == holds

Live(now) == {h \in holds : now < h.expires_at}

\* The seats of a set of holds, one <<id, k>> each: their number is the sum.
SeatsOf(hs) == UNION {{h.id} \X (1..h.seats) : h \in hs}

live_held(now) == Cardinality(SeatsOf(Live(now)))

\* Mutant: a hold of no seats is granted.
GrantStepZero(req) == confirmed + live_held(clock) + req <= capacity

\* Mutant: the request itself is not counted.
GrantStepBefore(req) == req # 0 /\ confirmed + live_held(clock) < capacity

\* grant_step returns Some.
GrantStep(req) == req # 0 /\ confirmed + live_held(clock) + req <= capacity

-----------------------------------------------------------------------------

\* hold: an id is spent even when the seats do not fit.
TakeHold(req) ==
  /\ last_id < MaxId /\ clock + HOLD_TTL_SECS <= MaxClock
  /\ last_id' = last_id + 1
  /\ IF GrantStep(req)
     THEN /\ holds' = holds \cup {[id |-> last_id', seats |-> req,
                                   expires_at |-> clock + HOLD_TTL_SECS]}
          /\ outcome' = [outcome EXCEPT ![last_id'] = "Granted"]
          /\ size' = [size EXCEPT ![last_id'] = req]
     ELSE UNCHANGED <<holds, history>>
  /\ UNCHANGED <<clock, confirmed>>

\* Mutant: an expired hold is confirmed too.
ConfirmAny(h) ==
  /\ h \in holds
  /\ holds' = holds \ {h}
  /\ confirmed' = confirmed + h.seats
  /\ outcome' = [outcome EXCEPT ![h.id] = "Confirmed"]
  /\ UNCHANGED <<clock, last_id, size>>

\* Mutant: the confirmed hold stays in the list.
ConfirmKeeps(h) ==
  /\ h \in Live(clock)
  /\ confirmed' = confirmed + h.seats
  /\ outcome' = [outcome EXCEPT ![h.id] = "Confirmed"]
  /\ UNCHANGED <<clock, last_id, holds, size>>

Confirm(h) ==
  /\ h \in Live(clock)
  /\ holds' = holds \ {h}
  /\ confirmed' = confirmed + h.seats
  /\ outcome' = [outcome EXCEPT ![h.id] = "Confirmed"]
  /\ UNCHANGED <<clock, last_id, size>>

Release(h) ==
  /\ h \in Live(clock)
  /\ holds' = holds \ {h}
  /\ outcome' = [outcome EXCEPT ![h.id] = "Released"]
  /\ UNCHANGED <<clock, last_id, confirmed, size>>

\* purge_expired: the service itself never calls it.
Purge == /\ holds' = Live(clock)
         /\ UNCHANGED <<clock, last_id, confirmed, history>>

Tick == /\ clock < MaxClock
        /\ clock' = clock + 1
        /\ UNCHANGED <<last_id, confirmed, holds, history>>

SetBack(by) == /\ by <= clock
               /\ clock' = clock - by
               /\ UNCHANGED <<last_id, confirmed, holds, history>>

Operation == \/ \E req \in Requests : TakeHold(req)
             \/ \E h \in holds : Confirm(h) \/ Release(h)
             \/ Purge

\* The clock only passes.
Next == Operation \/ Tick

Spec == Init /\ [][Next]_vars

\* Time passes; no client owes the service a call.
FairSpec == Spec /\ WF_vars(Tick)

\* The clock is what the host's is.
AnyClockNext == Next \/ \E by \in Jumps : SetBack(by)

AnyClockSpec == Init /\ [][AnyClockNext]_vars

-----------------------------------------------------------------------------

\* Confirmed and live-held seats never exceed the capacity (REQ-005), at the
\* present time and at every later one.
CapacityKept == confirmed + live_held(clock) <= capacity

\* Every seat counted as confirmed belongs to one hold that was confirmed, and
\* a hold that ended is not confirmed, or released, again.
BookedOnce ==
  /\ confirmed = Cardinality(UNION {{id} \X (1..size[id]) :
                               id \in {i \in Id : outcome[i] = "Confirmed"}})
  /\ \A h \in holds : outcome[h.id] = "Granted" /\ h.seats = size[h.id]
  /\ \A g, h \in holds : g.id = h.id => g = h

\* A hold in the list is Held while it is live and Expired from then on.
status == [id \in Id |->
             CASE outcome[id] = "Granted" ->
                    IF \E h \in Live(clock) : h.id = id THEN "Held" ELSE "Expired"
               [] OTHER -> outcome[id]]

Promise == INSTANCE Booking

\* The service is one way to keep the promise: a hold that expired is never
\* confirmed or held again, and what is committed stays within the capacity.
KeepsPromise == Promise!Spec

\* The seats of a hold nobody ends return by themselves (REQ-004).
SeatsReturn ==
  \A id \in Id : status[id] = "Held" ~> status[id] # "Held"

=============================================================================
