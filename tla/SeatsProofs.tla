------------------------------ MODULE SeatsProofs ------------------------------
(***************************************************************************)
(* Seats for every capacity, TTL and choice of requests: no overbooking    *)
(* while the clock only passes, no hold confirmed twice whatever the clock *)
(* does, and the promise of Booking kept, step by step.                    *)
(***************************************************************************)
EXTENDS Seats, FiniteSetTheorems, TLAPS

-----------------------------------------------------------------------------
(* Sums of seats.                                                          *)

\* A hold accounts for as many seats as it was granted.
LEMMA SeatsOfOne ==
  ASSUME NEW id, NEW n \in Nat
  PROVE  /\ IsFiniteSet({id} \X (1..n))
         /\ Cardinality({id} \X (1..n)) = n
<1>1. IsFiniteSet({id}) /\ Cardinality({id}) = 1
  BY FS_Singleton
<1>2. IsFiniteSet(1..n) /\ Cardinality(1..n) = n
  BY FS_Interval
<1>3. /\ IsFiniteSet({id} \X (1..n))
      /\ Cardinality({id} \X (1..n)) = Cardinality({id}) * Cardinality(1..n)
  <2> DEFINE S == {id}
             T == 1..n
  <2> HIDE DEF S, T
  <2>1. IsFiniteSet(S) /\ IsFiniteSet(T)
    BY <1>1, <1>2 DEF S, T
  <2>2. IsFiniteSet(S \X T) /\ Cardinality(S \X T) = Cardinality(S) * Cardinality(T)
    BY <2>1, FS_Product, Zenon
  <2> QED  BY <2>2 DEF S, T
<1>4. Cardinality({id}) * Cardinality(1..n) = n
  BY <1>1, <1>2
<1> QED  BY <1>3, <1>4

\* Adding a hold adds at most its seats.
LEMMA SeatsOfAdded ==
  ASSUME NEW hs, IsFiniteSet(SeatsOf(hs)), NEW h, h.seats \in Nat
  PROVE  /\ IsFiniteSet(SeatsOf(hs \cup {h}))
         /\ Cardinality(SeatsOf(hs \cup {h})) <= Cardinality(SeatsOf(hs)) + h.seats
<1> DEFINE S == SeatsOf(hs)
           T == {h.id} \X (1..h.seats)
<1>1. SeatsOf(hs \cup {h}) = S \cup T
  BY DEF SeatsOf
<1>2. IsFiniteSet(T) /\ Cardinality(T) = h.seats
  BY SeatsOfOne
<1>3. IsFiniteSet(S \cap T) /\ Cardinality(S \cap T) \in Nat
      /\ Cardinality(S) \in Nat
  BY FS_Subset, FS_CardinalityType
<1> HIDE DEF S, T
<1>4. /\ IsFiniteSet(S \cup T)
      /\ Cardinality(S \cup T) = Cardinality(S) + Cardinality(T) - Cardinality(S \cap T)
  BY <1>2, FS_Union DEF S
<1>5. Cardinality(S \cup T) <= Cardinality(S) + h.seats
  BY <1>2, <1>3, <1>4
<1> QED  BY <1>1, <1>4, <1>5 DEF S

\* Removing a hold whose id no other has removes exactly its seats.
LEMMA SeatsOfRemoved ==
  ASSUME NEW hs, IsFiniteSet(SeatsOf(hs)), NEW h \in hs, h.seats \in Nat,
         \A g \in hs : g.id = h.id => g = h
  PROVE  /\ IsFiniteSet(SeatsOf(hs \ {h}))
         /\ Cardinality(SeatsOf(hs)) = Cardinality(SeatsOf(hs \ {h})) + h.seats
<1> DEFINE S == SeatsOf(hs \ {h})
           T == {h.id} \X (1..h.seats)
<1>1. SeatsOf(hs) = S \cup T
  BY DEF SeatsOf
<1>2. S \cap T = {}
  BY DEF SeatsOf
<1>3. IsFiniteSet(S) /\ Cardinality(S) \in Nat
  BY <1>1, FS_Subset, FS_CardinalityType
<1>4. IsFiniteSet(T) /\ Cardinality(T) = h.seats
  BY SeatsOfOne
<1> HIDE DEF S, T
<1>5. Cardinality(S \cup T) = Cardinality(S) + Cardinality(T) - Cardinality(S \cap T)
  BY <1>3, <1>4, FS_Union
<1>6. Cardinality(S \cap T) = 0
  BY <1>2, FS_EmptySet
<1> QED  BY <1>1, <1>3, <1>4, <1>5, <1>6 DEF S

\* Fewer holds have no more seats.
LEMMA SeatsOfFewer ==
  ASSUME NEW hs, IsFiniteSet(SeatsOf(hs)), NEW gs \in SUBSET hs
  PROVE  /\ IsFiniteSet(SeatsOf(gs))
         /\ Cardinality(SeatsOf(gs)) \in Nat
         /\ Cardinality(SeatsOf(gs)) <= Cardinality(SeatsOf(hs))
<1>1. SeatsOf(gs) \subseteq SeatsOf(hs)
  BY DEF SeatsOf
<1> QED  BY <1>1, FS_Subset, FS_CardinalityType

-----------------------------------------------------------------------------
(* The inductive invariant.                                                *)

\* The ids of the holds are distinct and were handed out.
DistinctIds == /\ \A h \in holds : h.id <= last_id
               /\ \A g, h \in holds : g.id = h.id => g = h

SeatsInv == /\ TypeOK
            /\ DistinctIds
            /\ IsFiniteSet(SeatsOf(holds))
            /\ CapacityKept

\* An event starts with no seat held or confirmed.
LEMMA InitSeats == Init => SeatsInv
<1> SUFFICES ASSUME Init PROVE SeatsInv
  OBVIOUS
<1>1. SeatsOf(holds) = {} /\ SeatsOf(Live(clock)) = {}
  BY DEF Init, SeatsOf, Live
<1>2. IsFiniteSet({}) /\ Cardinality({}) = 0
  BY FS_EmptySet
<1>3. CapacityKept
  BY <1>1, <1>2, SeatsAssumption DEF Init, CapacityKept, live_held
<1>4. TypeOK
  BY SeatsAssumption DEF Init, TypeOK, Id
<1> QED  BY <1>1, <1>2, <1>3, <1>4 DEF SeatsInv, DistinctIds, Init

-----------------------------------------------------------------------------
(* Every step keeps it.                                                    *)

\* Every operation, and the passing of time, keeps the capacity.
LEMMA NextSeats == SeatsInv /\ [Next]_vars => SeatsInv'
<1> SUFFICES ASSUME SeatsInv, [Next]_vars PROVE SeatsInv'
  OBVIOUS
<1>1. /\ clock \in Nat /\ last_id \in 0..MaxId /\ confirmed \in Nat
      /\ holds \subseteq Hold /\ IsFiniteSet(SeatsOf(holds))
      /\ \A h \in holds : h.id \in Id /\ h.seats \in Nat \ {0} /\ h.expires_at \in Nat
  BY DEF SeatsInv, TypeOK, Hold
<1>2. /\ Live(clock) \in SUBSET holds
      /\ IsFiniteSet(SeatsOf(Live(clock)))
      /\ live_held(clock) \in Nat
      /\ confirmed + live_held(clock) <= capacity
  <2>1. Live(clock) \in SUBSET holds
    BY DEF Live
  <2> QED  BY <1>1, <2>1, SeatsOfFewer DEF SeatsInv, CapacityKept, live_held
<1>3. ASSUME NEW req \in Requests, TakeHold(req) PROVE SeatsInv'
  <2>1. CASE ~GrantStep(req)
    <3>1. UNCHANGED <<clock, confirmed, holds, outcome, size>>
          /\ last_id' = last_id + 1 /\ last_id < MaxId
      BY <1>3, <2>1 DEF TakeHold, history
    <3> QED  BY <1>1, <3>1, SeatsAssumption
             DEF SeatsInv, TypeOK, DistinctIds, CapacityKept, live_held, Live,
                 SeatsOf, Hold, Id
  <2>2. CASE GrantStep(req)
    <3> DEFINE new == [id |-> last_id', seats |-> req,
                       expires_at |-> clock + HOLD_TTL_SECS]
    <3>1. /\ holds' = holds \cup {new}
          /\ outcome' = [outcome EXCEPT ![last_id'] = "Granted"]
          /\ size' = [size EXCEPT ![last_id'] = req]
          /\ last_id' = last_id + 1 /\ last_id < MaxId
          /\ clock' = clock /\ confirmed' = confirmed
      BY <1>3, <2>2 DEF TakeHold
    <3>2. /\ last_id' \in Id /\ req \in Nat \ {0}
          /\ clock + HOLD_TTL_SECS \in Nat /\ clock < clock + HOLD_TTL_SECS
      BY <1>1, <2>2, <3>1, SeatsAssumption DEF GrantStep, Id
    <3>3. new \in Hold /\ new.seats = req /\ new.id = last_id'
          /\ clock < new.expires_at
      BY <3>2 DEF Hold
    <3> HIDE DEF new
    <3>4. TypeOK'
      BY <1>1, <3>1, <3>2, <3>3, SeatsAssumption DEF SeatsInv, TypeOK, Id
    <3>5. DistinctIds'
      <4>1. \A h \in holds : h.id <= last_id' /\ h.id # new.id
        BY <1>1, <3>1, <3>3, SeatsAssumption DEF SeatsInv, DistinctIds, Id
      <4>2. \A h \in holds' : h.id <= last_id'
        BY <1>1, <3>1, <3>3, <4>1
      <4>3. \A g, h \in holds' : g.id = h.id => g = h
        BY <3>1, <4>1 DEF SeatsInv, DistinctIds
      <4> QED  BY <4>2, <4>3 DEF DistinctIds
    <3>6. IsFiniteSet(SeatsOf(holds'))
      BY <1>1, <3>1, <3>2, <3>3, SeatsOfAdded
    <3>7. CapacityKept'
      <4>1. Live(clock)' = Live(clock) \cup {new}
        BY <3>1, <3>3 DEF Live
      <4>2. /\ live_held(clock)' <= live_held(clock) + req
            /\ live_held(clock)' \in Nat
        <5>1. /\ IsFiniteSet(SeatsOf(Live(clock) \cup {new}))
              /\ Cardinality(SeatsOf(Live(clock) \cup {new}))
                   <= Cardinality(SeatsOf(Live(clock))) + req
          BY <1>2, <3>2, <3>3, SeatsOfAdded
        <5>2. live_held(clock)' = Cardinality(SeatsOf(Live(clock) \cup {new}))
          BY <4>1 DEF live_held, SeatsOf
        <5> QED  BY <5>1, <5>2, FS_CardinalityType DEF live_held
      <4> QED  BY <1>1, <1>2, <2>2, <3>1, <3>2, <4>2, SeatsAssumption
               DEF GrantStep, CapacityKept
    <3> QED  BY <3>4, <3>5, <3>6, <3>7 DEF SeatsInv, SeatsOf
  <2> QED  BY <2>1, <2>2
\* A hold leaves the list, with or without its seats.
<1>4. ASSUME NEW h \in Live(clock), holds' = holds \ {h},
             confirmed' \in {confirmed, confirmed + h.seats},
             clock' = clock, last_id' = last_id, TypeOK'
      PROVE  SeatsInv'
  <2>1. Live(clock)' = Live(clock) \ {h} /\ h \in holds
    BY <1>4 DEF Live
  <2>2. DistinctIds'
    BY <1>4 DEF SeatsInv, DistinctIds
  <2>3. IsFiniteSet(SeatsOf(holds'))
    <3>1. holds' \in SUBSET holds
      BY <1>4
    <3> QED  BY <1>1, <3>1, SeatsOfFewer
  <2>4. /\ h.seats \in Nat
        /\ IsFiniteSet(SeatsOf(Live(clock) \ {h}))
        /\ Cardinality(SeatsOf(Live(clock))) =
             Cardinality(SeatsOf(Live(clock) \ {h})) + h.seats
    <3>1. h.seats \in Nat /\ \A g \in Live(clock) : g.id = h.id => g = h
      BY <1>1, <1>2, <2>1 DEF SeatsInv, DistinctIds
    <3> QED  BY <1>2, <1>4, <3>1, SeatsOfRemoved
  <2>5. live_held(clock)' = Cardinality(SeatsOf(Live(clock) \ {h}))
    BY <2>1 DEF live_held, SeatsOf
  <2>6. CapacityKept'
    <3>1. live_held(clock)' \in Nat /\ live_held(clock) = live_held(clock)' + h.seats
      BY <2>4, <2>5, FS_CardinalityType DEF live_held
    <3> QED  BY <1>1, <1>2, <1>4, <2>4, <3>1, SeatsAssumption DEF CapacityKept
  <2> QED  BY <1>4, <2>2, <2>3, <2>6 DEF SeatsInv, SeatsOf
<1>5. ASSUME NEW h \in holds, Confirm(h) PROVE SeatsInv'
  <2>1. TypeOK'
    BY <1>1, <1>5 DEF SeatsInv, TypeOK, Confirm
  <2> QED  BY <1>4, <1>5, <2>1 DEF Confirm
<1>6. ASSUME NEW h \in holds, Release(h) PROVE SeatsInv'
  <2>1. TypeOK'
    BY <1>1, <1>6 DEF SeatsInv, TypeOK, Release
  <2> QED  BY <1>4, <1>6, <2>1 DEF Release
\* Less of the list is live, and nothing else changes what is counted.
<1>7. ASSUME holds' \subseteq holds, Live(clock)' \subseteq Live(clock),
             confirmed' = confirmed, last_id' = last_id, TypeOK'
      PROVE  SeatsInv'
  <2>1. DistinctIds'
    BY <1>7 DEF SeatsInv, DistinctIds
  <2>2. IsFiniteSet(SeatsOf(holds'))
    BY <1>1, <1>7, SeatsOfFewer
  <2>3. Live(clock)' \in SUBSET Live(clock)
    BY <1>7
  <2>4. live_held(clock)' \in Nat /\ live_held(clock)' <= live_held(clock)
    <3>1. live_held(clock)' = Cardinality(SeatsOf(Live(clock)'))
      BY DEF live_held, SeatsOf
    <3> QED  BY <1>2, <2>3, <3>1, SeatsOfFewer DEF live_held
  <2>5. CapacityKept'
    BY <1>1, <1>2, <1>7, <2>4, SeatsAssumption DEF CapacityKept
  <2> QED  BY <1>7, <2>1, <2>2, <2>5 DEF SeatsInv, SeatsOf
<1>8. CASE Purge
  <2>1. holds' \subseteq holds /\ Live(clock)' \subseteq Live(clock)
    BY <1>8 DEF Purge, Live
  <2>2. TypeOK'
    BY <1>1, <1>8, <2>1 DEF SeatsInv, TypeOK, Purge, history
  <2> QED  BY <1>7, <1>8, <2>1, <2>2 DEF Purge
<1>9. CASE Tick
  <2>1. holds' = holds /\ clock' = clock + 1
    BY <1>9 DEF Tick
  <2>2. Live(clock)' \subseteq Live(clock)
    BY <1>1, <2>1 DEF Live
  <2>3. TypeOK'
    BY <1>1, <1>9 DEF SeatsInv, TypeOK, Tick, history
  <2> QED  BY <1>7, <1>9, <2>1, <2>2, <2>3 DEF Tick
<1>10. CASE UNCHANGED vars
  <2>1. UNCHANGED <<clock, last_id, confirmed, holds, outcome, size>>
    BY <1>10 DEF vars, history
  <2> QED  BY <2>1 DEF SeatsInv, TypeOK, DistinctIds, CapacityKept, live_held,
                       Live, SeatsOf
<1> QED  BY <1>3, <1>5, <1>6, <1>8, <1>9, <1>10 DEF Next, Operation

\* Reachable states are well typed.
THEOREM SeatsTyped == Spec => []TypeOK
<1>1. SeatsInv => TypeOK
  BY DEF SeatsInv
<1> QED  BY <1>1, InitSeats, NextSeats, PTL DEF Spec

\* While the clock only passes, confirmed and live-held seats never exceed the
\* capacity, for any number of holds, requests and seats (REQ-005).
THEOREM NeverOverbooked == Spec => []CapacityKept
<1>1. SeatsInv => CapacityKept
  BY DEF SeatsInv
<1> QED  BY <1>1, InitSeats, NextSeats, PTL DEF Spec

-----------------------------------------------------------------------------
(* What is confirmed is accounted for, whatever the clock does.            *)

Ended(how) == {id \in Id : outcome[id] = how}

\* The seats granted to a set of ids.
Granted(ids) == UNION {{id} \X (1..size[id]) : id \in ids}

\* BookedOnce, with what makes it inductive: the ids in use were handed out.
BookInv == /\ TypeOK
           /\ \A h \in holds : h.id <= last_id
           /\ \A id \in Id : id > last_id => outcome[id] = "None"
           /\ IsFiniteSet(Granted(Ended("Confirmed")))
           /\ BookedOnce

\* The seats of one more id are counted on top of the others.
LEMMA CountOneMore ==
  ASSUME NEW S, IsFiniteSet(S), NEW id, NEW n \in Nat, S \cap ({id} \X (1..n)) = {}
  PROVE  /\ IsFiniteSet(S \cup ({id} \X (1..n)))
         /\ Cardinality(S \cup ({id} \X (1..n))) = Cardinality(S) + n
<1> DEFINE T == {id} \X (1..n)
<1>1. IsFiniteSet(T) /\ Cardinality(T) = n /\ S \cap T = {}
  BY SeatsOfOne
<1> HIDE DEF T
<1>2. /\ IsFiniteSet(S \cup T)
      /\ Cardinality(S \cup T) = Cardinality(S) + Cardinality(T) - Cardinality(S \cap T)
  BY <1>1, FS_Union
<1>3. Cardinality(S \cap T) = 0 /\ Cardinality(S) \in Nat
  BY <1>1, FS_EmptySet, FS_CardinalityType
<1> QED  BY <1>1, <1>2, <1>3 DEF T

\* An event starts with nothing booked.
LEMMA InitBook == Init => BookInv
<1> SUFFICES ASSUME Init PROVE BookInv
  OBVIOUS
<1>1. Ended("Confirmed") = {} /\ holds = {}
  BY DEF Init, Ended
<1>2. Granted(Ended("Confirmed")) = {} /\ IsFiniteSet({}) /\ Cardinality({}) = 0
  BY <1>1, FS_EmptySet DEF Granted
<1>3. TypeOK
  BY InitSeats DEF SeatsInv
<1> QED  BY <1>1, <1>2, <1>3 DEF BookInv, BookedOnce, Granted, Ended, Init

\* Every operation, time passing and the clock set back keep the books.
LEMMA NextBook == BookInv /\ [AnyClockNext]_vars => BookInv'
<1> SUFFICES ASSUME BookInv, [AnyClockNext]_vars PROVE BookInv'
  OBVIOUS
<1>1. /\ clock \in Nat /\ last_id \in 0..MaxId /\ confirmed \in Nat
      /\ MaxId \in Nat /\ HOLD_TTL_SECS \in Nat
      /\ holds \subseteq Hold
      /\ outcome \in [Id -> {"None", "Granted", "Confirmed", "Released"}]
      /\ size \in [Id -> Nat]
      /\ \A h \in holds : h.id \in Id /\ h.seats \in Nat \ {0} /\ h.expires_at \in Nat
  BY SeatsAssumption DEF BookInv, TypeOK, Hold
<1>2. /\ confirmed = Cardinality(Granted(Ended("Confirmed")))
      /\ \A h \in holds : outcome[h.id] = "Granted" /\ h.seats = size[h.id]
      /\ \A g, h \in holds : g.id = h.id => g = h
  BY DEF BookInv, BookedOnce, Granted, Ended
\* Holds are dropped, and nothing that is confirmed changes.
<1>3. ASSUME holds' \subseteq holds, TypeOK',
             UNCHANGED <<last_id, confirmed, outcome, size>>
      PROVE  BookInv'
  BY <1>3 DEF BookInv, BookedOnce, Granted, Ended
<1>4. ASSUME NEW req \in Requests, TakeHold(req) PROVE BookInv'
  <2>1. last_id' = last_id + 1 /\ last_id < MaxId /\ last_id' \in Id
        /\ UNCHANGED <<clock, confirmed>>
    BY <1>1, <1>4 DEF TakeHold, Id
  <2>2. CASE ~GrantStep(req)
    <3>1. UNCHANGED <<holds, outcome, size>>
      BY <1>4, <2>2 DEF TakeHold, history
    <3>2. /\ \A h \in holds' : h.id <= last_id'
          /\ \A id \in Id : id > last_id' => outcome'[id] = "None"
          /\ TypeOK'
      BY <1>1, <2>1, <3>1 DEF BookInv, TypeOK, Id
    <3> QED  BY <2>1, <3>1, <3>2 DEF BookInv, BookedOnce, Granted, Ended
  <2>3. CASE GrantStep(req)
    <3> DEFINE new == [id |-> last_id', seats |-> req,
                       expires_at |-> clock + HOLD_TTL_SECS]
    <3>1. /\ holds' = holds \cup {new}
          /\ outcome' = [outcome EXCEPT ![last_id'] = "Granted"]
          /\ size' = [size EXCEPT ![last_id'] = req]
      BY <1>4, <2>3 DEF TakeHold
    <3>2. req \in Nat \ {0} /\ clock + HOLD_TTL_SECS \in Nat
      BY <1>1, <2>3, SeatsAssumption DEF GrantStep
    <3>3. new \in Hold /\ new.seats = req /\ new.id = last_id'
      BY <2>1, <3>2 DEF Hold
    <3> HIDE DEF new
    <3>4. /\ outcome'[last_id'] = "Granted" /\ size'[last_id'] = req
          /\ \A id \in Id : id # last_id' => outcome'[id] = outcome[id] /\ size'[id] = size[id]
          /\ outcome[last_id'] = "None"
      BY <1>1, <2>1, <3>1 DEF BookInv
    <3>5. Ended("Confirmed")' = Ended("Confirmed") /\ last_id' \notin Ended("Confirmed")
      BY <3>4 DEF Ended
    <3>6. Granted(Ended("Confirmed"))' = Granted(Ended("Confirmed"))
      <4>1. \A id \in Ended("Confirmed") : size'[id] = size[id]
        BY <3>4, <3>5 DEF Ended
      <4> QED  BY <3>5, <4>1 DEF Granted
    <3>7. \A h \in holds : h.id <= last_id' /\ h.id # last_id'
      BY <1>1, <2>1 DEF BookInv, Id
    <3>8. /\ \A h \in holds' : h.id <= last_id'
          /\ \A id \in Id : id > last_id' => outcome'[id] = "None"
          /\ \A h \in holds' : outcome'[h.id] = "Granted" /\ h.seats = size'[h.id]
          /\ \A g, h \in holds' : g.id = h.id => g = h
      <4>1. \A h \in holds' : h.id <= last_id'
        BY <1>1, <2>1, <3>1, <3>3, <3>7 DEF Id
      <4>2. \A id \in Id : id > last_id' => outcome'[id] = "None"
        BY <1>1, <2>1, <3>4 DEF BookInv, Id
      <4> QED  BY <1>1, <1>2, <3>1, <3>3, <3>4, <3>7, <4>1, <4>2
    <3>9. TypeOK'
      BY <1>1, <2>1, <3>1, <3>2, <3>3 DEF TypeOK, Id
    <3> QED  BY <1>2, <2>1, <3>6, <3>8, <3>9 DEF BookInv, BookedOnce, Granted, Ended
  <2> QED  BY <2>2, <2>3
\* A live hold ends.
<1>5. ASSUME NEW h \in holds, NEW how \in {"Confirmed", "Released"},
             holds' = holds \ {h}, outcome' = [outcome EXCEPT ![h.id] = how],
             UNCHANGED <<clock, last_id, size>>
      PROVE  /\ TypeOK' <=> confirmed' \in Nat
             /\ \A g \in holds' : g.id <= last_id'
             /\ \A id \in Id : id > last_id' => outcome'[id] = "None"
             /\ \A g \in holds' : outcome'[g.id] = "Granted" /\ g.seats = size'[g.id]
             /\ \A f, g \in holds' : f.id = g.id => f = g
             /\ \A id \in Id : id # h.id => outcome'[id] = outcome[id]
             /\ outcome'[h.id] = how
  <2>1. \A id \in Id : id # h.id => outcome'[id] = outcome[id]
    BY <1>1, <1>5
  <2>2. \A g \in holds' : g.id # h.id /\ g.id \in Id /\ g \in holds
    BY <1>1, <1>2, <1>5
  <2>3. outcome'[h.id] = how
    BY <1>1, <1>5
  <2>4. TypeOK' <=> confirmed' \in Nat
    BY <1>1, <1>5 DEF TypeOK
  <2>5. \A id \in Id : id > last_id' => outcome'[id] = "None"
    BY <1>1, <1>5, <2>1 DEF BookInv, Id
  <2> QED  BY <1>2, <1>5, <2>1, <2>2, <2>3, <2>4, <2>5 DEF BookInv
<1>6. ASSUME NEW h \in holds, Confirm(h) PROVE BookInv'
  <2>1. /\ holds' = holds \ {h} /\ outcome' = [outcome EXCEPT ![h.id] = "Confirmed"]
        /\ confirmed' = confirmed + h.seats /\ UNCHANGED <<clock, last_id, size>>
        /\ h.id \in Id /\ h.seats \in Nat /\ outcome[h.id] = "Granted" /\ h.seats = size[h.id]
    BY <1>1, <1>2, <1>6 DEF Confirm
  <2>2. Ended("Confirmed")' = Ended("Confirmed") \cup {h.id} /\ h.id \notin Ended("Confirmed")
    BY <1>5, <2>1, ZenonT(30) DEF Ended
  <2> DEFINE S == Granted(Ended("Confirmed"))
             T == {h.id} \X (1..h.seats)
  <2>3. Granted(Ended("Confirmed"))' = S \cup T /\ S \cap T = {}
    BY <2>1, <2>2 DEF Granted
  <2>4. IsFiniteSet(S \cup T) /\ Cardinality(S \cup T) = Cardinality(S) + h.seats
    <3>1. IsFiniteSet(S)
      BY DEF BookInv
    <3> HIDE DEF S
    <3> QED  BY <2>1, <2>3, <3>1, CountOneMore
  <2>5. TypeOK'
    <3>1. confirmed' \in Nat
      BY <1>1, <2>1
    <3>2. UNCHANGED <<clock, last_id, size>> /\ holds' = holds \ {h}
      BY <2>1
    <3>3. outcome' = [outcome EXCEPT ![h.id] = "Confirmed"]
      BY <2>1
    <3> QED  BY <1>1, <2>1, <3>1, <3>2, <3>3 DEF TypeOK
  <2> QED  BY <1>2, <1>5, <2>1, <2>3, <2>4, <2>5 DEF BookInv, BookedOnce, Granted, Ended
<1>7. ASSUME NEW h \in holds, Release(h) PROVE BookInv'
  <2>1. /\ holds' = holds \ {h} /\ outcome' = [outcome EXCEPT ![h.id] = "Released"]
        /\ confirmed' = confirmed /\ UNCHANGED <<clock, last_id, size>>
        /\ h.id \in Id /\ outcome[h.id] = "Granted"
    BY <1>1, <1>2, <1>7 DEF Release
  <2>2. Ended("Confirmed")' = Ended("Confirmed")
    BY <1>5, <2>1 DEF Ended
  <2>3. Granted(Ended("Confirmed"))' = Granted(Ended("Confirmed"))
    BY <2>1, <2>2 DEF Granted
  <2>4. TypeOK'
    BY <1>1, <1>5, <2>1
  <2> QED  BY <1>2, <1>5, <2>1, <2>3, <2>4 DEF BookInv, BookedOnce, Granted, Ended
<1>8. CASE Purge
  <2>1. holds' \subseteq holds /\ UNCHANGED <<clock, last_id, confirmed, outcome, size>>
    BY <1>8 DEF Purge, Live, history
  <2>2. TypeOK'
    BY <1>1, <2>1 DEF TypeOK
  <2> QED  BY <1>3, <2>1, <2>2
<1>9. CASE Tick \/ \E by \in Jumps : SetBack(by)
  <2>1. clock' \in Nat
    BY <1>1, <1>9, SeatsAssumption DEF Tick, SetBack
  <2>2. UNCHANGED <<last_id, confirmed, holds, outcome, size>>
    BY <1>9 DEF Tick, SetBack, history
  <2>3. TypeOK'
    BY <1>1, <2>1, <2>2 DEF TypeOK
  <2> QED  BY <1>3, <2>2, <2>3
<1>10. CASE UNCHANGED vars
  <2>1. UNCHANGED <<clock, last_id, confirmed, holds, outcome, size>>
    BY <1>10 DEF vars, history
  <2>2. TypeOK'
    BY <1>1, <2>1 DEF TypeOK
  <2> QED  BY <1>3, <2>1, <2>2
<1> QED  BY <1>4, <1>6, <1>7, <1>8, <1>9, <1>10 DEF AnyClockNext, Next, Operation

\* Each confirmed seat belongs to one hold confirmed once, for any number of
\* holds, even when the clock is set back under the service.
THEOREM BookedOnceAnyClock == AnyClockSpec => []BookedOnce
<1>1. BookInv => BookedOnce
  BY DEF BookInv
<1> QED  BY <1>1, InitBook, NextBook, PTL DEF AnyClockSpec

\* In particular while it only passes, the specification the other theorems
\* here are about.
THEOREM BookedOnceOnly == Spec => []BookedOnce
<1>1. BookInv => BookedOnce
  BY DEF BookInv
<1>2. [Next]_vars => [AnyClockNext]_vars
  BY DEF AnyClockNext
<1> QED  BY <1>1, <1>2, InitBook, NextBook, PTL DEF Spec

-----------------------------------------------------------------------------
(* The service keeps the promise of Booking.                               *)

\* The books stay right while the clock only passes.
LEMMA NextBoth == SeatsInv /\ BookInv /\ [Next]_vars => (SeatsInv /\ BookInv)'
<1>1. [Next]_vars => [AnyClockNext]_vars
  BY DEF AnyClockNext
<1> QED  BY <1>1, NextSeats, NextBook

\* Held and confirmed holds of Booking are the live and the confirmed here.
LEMMA CommittedIsCounted ==
  SeatsInv /\ BookInv => Promise!Committed <= capacity
<1> SUFFICES ASSUME SeatsInv, BookInv PROVE Promise!Committed <= capacity
  OBVIOUS
<1> DEFINE S == Granted(Ended("Confirmed"))
           T == SeatsOf(Live(clock))
           ids == {id \in Id : status[id] \in {"Held", "Confirmed"}}
           U == UNION {{id} \X (1..size[id]) : id \in ids}
<1>1. /\ \A h \in Live(clock) : h \in holds /\ h.id \in Id /\ outcome[h.id] = "Granted"
                                /\ h.seats = size[h.id]
      /\ confirmed = Cardinality(S) /\ IsFiniteSet(S)
  BY DEF BookInv, BookedOnce, Granted, Ended, TypeOK, Hold, Live
<1>2. \A id \in Id : /\ status[id] = "Confirmed" <=> outcome[id] = "Confirmed"
                     /\ status[id] = "Held" <=> \E h \in Live(clock) : h.id = id
  BY <1>1 DEF status, BookInv, TypeOK
<1>3. ids = Ended("Confirmed") \cup {h.id : h \in Live(clock)}
  BY <1>1, <1>2 DEF Ended
<1> HIDE DEF ids
<1>4. U = S \cup T
  BY <1>1, <1>3 DEF Granted, SeatsOf
<1>5. S \cap T = {}
  BY <1>1 DEF Granted, SeatsOf, Ended
<1>6. IsFiniteSet(T)
  <2>1. Live(clock) \in SUBSET holds
    BY DEF Live
  <2> QED  BY <2>1, SeatsOfFewer DEF SeatsInv
<1>7. Promise!Committed = Cardinality(U)
  BY DEF Promise!Committed, Promise!SeatsOf, Promise!Cardinality, Cardinality, U, ids
<1> HIDE DEF S, T, U
<1>8. Cardinality(S \cup T) = Cardinality(S) + Cardinality(T)
  <2>1. Cardinality(S \cup T) = Cardinality(S) + Cardinality(T) - Cardinality(S \cap T)
    BY <1>1, <1>6, FS_Union
  <2>2. Cardinality(S \cap T) = 0 /\ Cardinality(S) \in Nat /\ Cardinality(T) \in Nat
    BY <1>1, <1>5, <1>6, FS_EmptySet, FS_CardinalityType
  <2> QED  BY <2>1, <2>2
<1>9. confirmed + Cardinality(T) <= capacity
  BY DEF SeatsInv, CapacityKept, live_held, T
<1> QED  BY <1>1, <1>4, <1>7, <1>8, <1>9

\* No step moves a hold but along an arm of hold.rs; time may expire several.
LEMMA HoldsMove ==
  ASSUME SeatsInv, BookInv, [Next]_vars, NEW id \in Id
  PROVE  Promise!Grant(id) \/ Promise!Move(id) \/ Promise!Stay(id)
<1> DEFINE Lives(i) == \E h \in Live(clock) : h.id = i
<1>1. /\ clock \in Nat /\ last_id \in 0..MaxId /\ MaxId \in Nat /\ HOLD_TTL_SECS \in Nat \ {0}
      /\ outcome \in [Id -> {"None", "Granted", "Confirmed", "Released"}]
      /\ size \in [Id -> Nat]
      /\ \A h \in holds : /\ h.id \in Id /\ h.expires_at \in Nat /\ h.id <= last_id
                          /\ outcome[h.id] = "Granted"
      /\ \A g, h \in holds : g.id = h.id => g = h
      /\ \A i \in Id : i > last_id => outcome[i] = "None"
  BY SeatsAssumption DEF BookInv, BookedOnce, TypeOK, Hold
<1>2. /\ outcome[id] = "Granted" /\ Lives(id) => status[id] = "Held"
      /\ outcome[id] = "Granted" /\ ~Lives(id) => status[id] = "Expired"
      /\ outcome[id] # "Granted" => status[id] = outcome[id]
  BY DEF status
<1>3. /\ outcome'[id] = "Granted" /\ Lives(id)' => status'[id] = "Held"
      /\ outcome'[id] = "Granted" /\ ~Lives(id)' => status'[id] = "Expired"
      /\ outcome'[id] # "Granted" => status'[id] = outcome'[id]
  BY DEF status
<1>4. ASSUME outcome'[id] = outcome[id], size'[id] = size[id], Lives(id)' <=> Lives(id)
      PROVE  Promise!Stay(id)
  BY <1>2, <1>3, <1>4 DEF Promise!Stay
<1>5. ASSUME NEW req \in Requests, TakeHold(req)
      PROVE  Promise!Grant(id) \/ Promise!Stay(id)
  <2>1. /\ last_id' = last_id + 1 /\ last_id < MaxId /\ last_id' \in Id /\ clock' = clock
        /\ last_id' > last_id
    BY <1>1, <1>5 DEF TakeHold, Id
  <2>2. CASE ~GrantStep(req)
    <3>1. UNCHANGED <<holds, outcome, size>>
      BY <1>5, <2>2 DEF TakeHold, history
    <3>2. Live(clock)' = Live(clock)
      BY <2>1, <3>1 DEF Live
    <3> QED  BY <1>4, <3>1, <3>2
  <2>3. CASE GrantStep(req)
    <3> DEFINE new == [id |-> last_id', seats |-> req,
                       expires_at |-> clock + HOLD_TTL_SECS]
    <3>1. /\ holds' = holds \cup {new}
          /\ outcome' = [outcome EXCEPT ![last_id'] = "Granted"]
          /\ size' = [size EXCEPT ![last_id'] = req]
      BY <1>5, <2>3 DEF TakeHold
    <3>2. req \in Nat \ {0} /\ clock < clock + HOLD_TTL_SECS /\ new.id = last_id'
          /\ new.expires_at = clock + HOLD_TTL_SECS
      BY <1>1, <2>3, SeatsAssumption DEF GrantStep
    <3> HIDE DEF new
    <3>3. Live(clock)' = Live(clock) \cup {new}
      BY <2>1, <3>1, <3>2 DEF Live
    <3>4. CASE id = last_id'
      <4>1. outcome[id] = "None" /\ outcome'[id] = "Granted" /\ size'[id] \in Nat \ {0}
            /\ Lives(id)'
        BY <1>1, <2>1, <3>1, <3>2, <3>3, <3>4
      <4> QED  BY <1>2, <1>3, <4>1 DEF Promise!Grant
    <3>5. CASE id # last_id'
      <4>1. outcome'[id] = outcome[id] /\ size'[id] = size[id]
        BY <1>1, <3>1, <3>5
      <4>2. Lives(id)' <=> Lives(id)
        BY <3>2, <3>3, <3>5
      <4> QED  BY <1>4, <4>1, <4>2
    <3> QED  BY <3>4, <3>5
  <2> QED  BY <2>2, <2>3
<1>6. ASSUME NEW h \in holds, Confirm(h) \/ Release(h)
      PROVE  Promise!Move(id) \/ Promise!Stay(id)
  <2>1. PICK how \in {"Confirmed", "Released"} :
          /\ h \in Live(clock) /\ holds' = holds \ {h}
          /\ outcome' = [outcome EXCEPT ![h.id] = how] /\ clock' = clock /\ size' = size
    BY <1>6 DEF Confirm, Release
  <2>2. Live(clock)' = Live(clock) \ {h}
    BY <2>1 DEF Live
  <2>3. CASE id = h.id
    <3>1. status[id] = "Held"
      BY <1>1, <1>2, <2>1, <2>3
    <3>2. status'[id] = how
      BY <1>1, <1>3, <2>1, <2>3
    <3> QED  BY <2>1, <3>1, <3>2 DEF Promise!Move, Promise!Arms
  <2>4. CASE id # h.id
    <3>1. outcome'[id] = outcome[id] /\ size'[id] = size[id]
      BY <1>1, <2>1, <2>4
    <3>2. Lives(id)' <=> Lives(id)
      BY <2>2, <2>4
    <3> QED  BY <1>4, <3>1, <3>2
  <2> QED  BY <2>3, <2>4
<1>7. CASE Purge \/ UNCHANGED vars
  <2>1. UNCHANGED <<clock, outcome, size>> /\ Live(clock)' = Live(clock)
    BY <1>7 DEF Purge, Live, vars, history
  <2> QED  BY <1>4, <2>1
<1>8. CASE Tick
  <2>1. UNCHANGED <<holds, outcome, size>> /\ clock' = clock + 1
    BY <1>8 DEF Tick, history
  <2>2. Lives(id)' => Lives(id)
    BY <1>1, <2>1 DEF Live
  <2>3. CASE Lives(id)' <=> Lives(id)
    BY <1>4, <2>1, <2>3
  <2>4. CASE Lives(id) /\ ~Lives(id)'
    <3>1. outcome[id] = "Granted"
      BY <1>1, <2>4 DEF Live
    <3> QED  BY <1>2, <1>3, <2>1, <2>4, <3>1 DEF Promise!Move, Promise!Arms
  <2> QED  BY <2>2, <2>3, <2>4
<1> QED  BY <1>5, <1>6, <1>7, <1>8 DEF Next, Operation

\* The seat service implements Booking while the clock only passes: a hold that
\* expired is never confirmed or held again, and held and confirmed seats stay
\* within the capacity, for every capacity, TTL and sequence of requests.
THEOREM ImplementsBooking == Spec => KeepsPromise
<1>1. Init => Promise!Init
  BY DEF Init, Promise!Init, status
<1>2. SeatsInv /\ BookInv /\ [Next]_vars => [Promise!Next]_<<status, size>>
  <2> SUFFICES ASSUME SeatsInv, BookInv, [Next]_vars
               PROVE  Promise!Next
    OBVIOUS
  <2>1. SeatsInv' /\ BookInv'
    BY NextBoth
  <2>2. (Promise!Committed)' <= capacity
    <3>1. (SeatsInv /\ BookInv => Promise!Committed <= capacity)'
      BY CommittedIsCounted, PTL
    <3> QED  BY <2>1, <3>1
  <2>3. size' \in [Id -> Nat]
    BY <2>1 DEF BookInv, TypeOK
  <2>4. status' \in [Id -> Promise!States \cup {"None"}]
    BY <2>1 DEF BookInv, TypeOK, status, Promise!States
  <2> QED  BY <2>2, <2>3, <2>4, HoldsMove DEF Promise!Next
<1> QED  BY <1>1, <1>2, InitSeats, InitBook, NextBoth, PTL
         DEF Spec, KeepsPromise, Promise!Spec

=============================================================================
