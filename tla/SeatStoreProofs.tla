--------------------------- MODULE SeatStoreProofs ---------------------------
(***************************************************************************)
(* SeatStore for every number of handlers, capacity, TTL and choice of     *)
(* requests: whatever the order in which the calls get the mutex, and      *)
(* however old the clock readings they bring, the promise of Booking is    *)
(* kept, step by step.  The argument counts seats as a set: those of the   *)
(* confirmed ids and those of the stored holds are disjoint, so what an    *)
(* operation moves from the one to the other is counted once.              *)
(***************************************************************************)
EXTENDS SeatStore, FiniteSetTheorems, TLAPS

Confirmed == {id \in Id : outcome[id] = "Confirmed"}

\* The seats of the confirmed ids.
Booked == UNION {{id} \X (1..size[id]) : id \in Confirmed}

\* The stored holds are those granted and not ended, under distinct ids; the seats
\* counted as confirmed are the confirmed holds'; all of them fit.
Books == /\ outcome \in [Id -> {"None", "Granted", "Confirmed", "Released"}]
         /\ size \in [Id -> Nat]
         /\ \A h \in holds : /\ h.id \in Id /\ outcome[h.id] = "Granted"
                             /\ h.seats = size[h.id]
         /\ \A g, h \in holds : g.id = h.id => g = h
         /\ confirmed = Cardinality(Booked)
         /\ IsFiniteSet(Booked \cup SeatsOf(holds))
         /\ Cardinality(Booked \cup SeatsOf(holds)) <= capacity

\* A call of hold asks for a number of seats.
Calls == /\ call = [t \in Handler |-> call[t]]
         /\ \A t \in Handler : call[t].op = "hold" => call[t].seats \in Requests

StoreInv == Books /\ Calls

-----------------------------------------------------------------------------
(* Sets of seats.                                                          *)

\* A hold accounts for as many seats as it was granted.
LEMMA SeatsOfOne ==
  ASSUME NEW id, NEW n \in Nat
  PROVE  /\ IsFiniteSet({id} \X (1..n))
         /\ Cardinality({id} \X (1..n)) = n
<1> DEFINE S == {id}
           T == 1..n
<1>1. IsFiniteSet(S) /\ Cardinality(S) = 1
  BY FS_Singleton
<1>2. IsFiniteSet(T) /\ Cardinality(T) = n
  BY FS_Interval
<1> HIDE DEF S, T
<1>3. IsFiniteSet(S \X T) /\ Cardinality(S \X T) = Cardinality(S) * Cardinality(T)
  BY <1>1, <1>2, FS_Product, Zenon
<1>4. Cardinality(S) * Cardinality(T) = n
  BY <1>1, <1>2
<1> QED  BY <1>3, <1>4 DEF S, T

\* No seat is both confirmed and held.
LEMMA Disjoint == Books => Booked \cap SeatsOf(holds) = {}
  BY DEF Books, Booked, Confirmed, SeatsOf

\* Disjoint parts of a finite set of seats are counted together.
LEMMA CountTogether ==
  ASSUME NEW S, NEW T, IsFiniteSet(S), IsFiniteSet(T), S \cap T = {}
  PROVE  /\ IsFiniteSet(S \cup T)
         /\ Cardinality(S \cup T) = Cardinality(S) + Cardinality(T)
         /\ Cardinality(S) \in Nat /\ Cardinality(T) \in Nat
<1>1. /\ IsFiniteSet(S \cup T)
      /\ Cardinality(S \cup T) = Cardinality(S) + Cardinality(T) - Cardinality(S \cap T)
  BY FS_Union
<1>2. Cardinality(S \cap T) = 0 /\ Cardinality(S) \in Nat /\ Cardinality(T) \in Nat
  BY FS_EmptySet, FS_CardinalityType
<1> QED  BY <1>1, <1>2

\* What a sweep keeps still fits, and `committed` counts it.
LEMMA KeptFits ==
  ASSUME Books, NEW kept \in SUBSET holds
  PROVE  /\ IsFiniteSet(Booked) /\ IsFiniteSet(SeatsOf(kept))
         /\ Booked \cap SeatsOf(kept) = {}
         /\ Cardinality(Booked \cup SeatsOf(kept)) = committed(kept)
         /\ committed(kept) \in Nat /\ committed(kept) <= capacity
<1>1. SeatsOf(kept) \subseteq SeatsOf(holds)
  BY DEF SeatsOf
<1>2. /\ IsFiniteSet(Booked) /\ IsFiniteSet(SeatsOf(kept))
      /\ Cardinality(Booked \cup SeatsOf(kept)) <= Cardinality(Booked \cup SeatsOf(holds))
  <2> DEFINE U == Booked \cup SeatsOf(holds)
  <2>1. IsFiniteSet(U)
    BY DEF Books
  <2>2. /\ Booked \in SUBSET U /\ SeatsOf(kept) \in SUBSET U
        /\ Booked \cup SeatsOf(kept) \in SUBSET U
    BY <1>1
  <2> HIDE DEF U
  <2>3. /\ IsFiniteSet(Booked) /\ IsFiniteSet(SeatsOf(kept))
        /\ Cardinality(Booked \cup SeatsOf(kept)) <= Cardinality(U)
    BY <2>1, <2>2, FS_Subset
  <2> QED  BY <2>3 DEF U
<1>3. Booked \cap SeatsOf(kept) = {}
  BY <1>1, Disjoint
<1>4. /\ Cardinality(Booked \cup SeatsOf(kept)) = committed(kept)
      /\ committed(kept) \in Nat
  BY <1>2, <1>3, CountTogether, SMTT(30) DEF committed, Books
<1>5. Cardinality(Booked \cup SeatsOf(holds)) \in Nat /\ capacity \in Nat
  BY FS_CardinalityType, StoreAssumption DEF Books
<1>6. committed(kept) <= capacity
  BY <1>2, <1>4, <1>5 DEF Books
<1> QED  BY <1>2, <1>3, <1>4, <1>6

-----------------------------------------------------------------------------
(* What a call does to the books, and to the holds of Booking.             *)

\* One step of the promise for one hold.
Kept(id) == Promise!Grant(id) \/ Promise!Move(id) \/ Promise!Stay(id)

Stored(id) == \E h \in holds : h.id = id

\* The status of a hold, in the state before a step and after it.
LEMMA StatusIs ==
  ASSUME NEW id \in Id
  PROVE  /\ outcome[id] = "Granted" /\ Stored(id) => status[id] = "Held"
         /\ outcome[id] = "Granted" /\ ~Stored(id) => status[id] = "Expired"
         /\ outcome[id] # "Granted" => status[id] = outcome[id]
         /\ outcome'[id] = "Granted" /\ Stored(id)' => status'[id] = "Held"
         /\ outcome'[id] = "Granted" /\ ~Stored(id)' => status'[id] = "Expired"
         /\ outcome'[id] # "Granted" => status'[id] = outcome'[id]
  BY DEF status, Stored

\* A sweep expires what it drops.
LEMMA SweepKeeps ==
  ASSUME Books, holds' \in SUBSET holds, UNCHANGED <<confirmed, outcome, size>>
  PROVE  Books' /\ \A id \in Id : Kept(id)
<1>1. Booked' = Booked
  BY DEF Booked, Confirmed
<1>2. /\ IsFiniteSet(Booked \cup SeatsOf(holds'))
      /\ Cardinality(Booked \cup SeatsOf(holds')) <= capacity
  BY KeptFits, CountTogether
<1>3. SeatsOf(holds)' = SeatsOf(holds')
  BY DEF SeatsOf
<1>4. Books'
  BY <1>1, <1>2, <1>3 DEF Books
<1>5. ASSUME NEW id \in Id PROVE Kept(id)
  <2>1. Stored(id)' => Stored(id)
    BY DEF Stored
  <2>2. CASE Stored(id) <=> Stored(id)'
    <3>1. status'[id] = status[id]
      BY <2>2, StatusIs
    <3> QED  BY <3>1 DEF Kept, Promise!Stay
  <2>3. CASE Stored(id) /\ ~Stored(id)'
    <3>1. outcome[id] = "Granted"
      BY <2>3 DEF Stored, Books
    <3>2. status[id] = "Held" /\ status'[id] = "Expired"
      BY <2>3, <3>1, StatusIs
    <3> QED  BY <3>2 DEF Kept, Promise!Move, Promise!Arms
  <2> QED  BY <2>1, <2>2, <2>3
<1> QED  BY <1>4, <1>5

\* A hold is granted under an id never used, for seats that are free.
LEMMA GrantKeeps ==
  ASSUME Books, NEW kept \in SUBSET holds, NEW c, c.seats \in Nat,
         Fits(c.seats, kept), Grant(c, kept), UNCHANGED confirmed
  PROVE  Books' /\ \A id \in Id : Kept(id)
<1>1. PICK new_id \in Unused :
        /\ holds' = kept \cup {[id |-> new_id, seats |-> c.seats,
                                expires_at |-> c.now + ttl]}
        /\ outcome' = [outcome EXCEPT ![new_id] = "Granted"]
        /\ size' = [size EXCEPT ![new_id] = c.seats]
  BY DEF Grant
<1>2. /\ new_id \in Id /\ outcome[new_id] = "None"
      /\ outcome'[new_id] = "Granted" /\ size'[new_id] = c.seats
      /\ \A id \in Id : id # new_id => outcome'[id] = outcome[id] /\ size'[id] = size[id]
      /\ outcome' \in [Id -> {"None", "Granted", "Confirmed", "Released"}]
      /\ size' \in [Id -> Nat]
  BY <1>1 DEF Unused, Books
<1> DEFINE new == [id |-> new_id, seats |-> c.seats, expires_at |-> c.now + ttl]
<1>3. holds' = kept \cup {new} /\ new.id = new_id /\ new.seats = c.seats
  BY <1>1
<1> HIDE DEF new
<1>4. \A h \in kept : h.id \in Id /\ h.id # new_id
  BY <1>2 DEF Books
<1>5. Booked' = Booked
  <2>1. Confirmed' = Confirmed /\ \A id \in Confirmed : id \in Id /\ id # new_id
    BY <1>2 DEF Confirmed
  <2> QED  BY <1>2, <2>1 DEF Booked
<1>6. /\ \A h \in holds' : h.id \in Id /\ outcome'[h.id] = "Granted"
                           /\ h.seats = size'[h.id]
      /\ \A g, h \in holds' : g.id = h.id => g = h
  <2>1. \A h \in kept : outcome[h.id] = "Granted" /\ h.seats = size[h.id]
    BY DEF Books
  <2>2. \A g, h \in kept : g.id = h.id => g = h
    BY DEF Books
  <2> QED  BY <1>2, <1>3, <1>4, <2>1, <2>2
<1>7. /\ IsFiniteSet(Booked \cup SeatsOf(holds'))
      /\ Cardinality(Booked \cup SeatsOf(holds')) <= capacity
  <2> DEFINE S == Booked \cup SeatsOf(kept)
             T == {new_id} \X (1..c.seats)
  <2>1. Booked \cup SeatsOf(holds') = S \cup T
    BY <1>3 DEF SeatsOf
  <2>2. S \cap T = {}
    BY <1>2, <1>4 DEF Booked, Confirmed, SeatsOf
  <2>3. /\ IsFiniteSet(S) /\ Cardinality(S) = committed(kept)
        /\ committed(kept) \in Nat /\ committed(kept) <= capacity
    BY KeptFits, CountTogether
  <2>4. IsFiniteSet(T) /\ Cardinality(T) = c.seats
    BY SeatsOfOne
  <2> HIDE DEF S, T
  <2>5. IsFiniteSet(S \cup T) /\ Cardinality(S \cup T) = committed(kept) + c.seats
    BY <2>2, <2>3, <2>4, CountTogether
  <2>6. committed(kept) + c.seats <= capacity
    BY <2>3, StoreAssumption DEF Fits
  <2> QED  BY <2>1, <2>5, <2>6
<1>8. Books'
  <2>1. SeatsOf(holds)' = SeatsOf(holds')
    BY DEF SeatsOf
  <2> QED  BY <1>2, <1>5, <1>6, <1>7, <2>1 DEF Books
<1>9. ASSUME NEW id \in Id PROVE Kept(id)
  <2>1. CASE id = new_id
    <3>1. Stored(id)'
      BY <1>3, <2>1 DEF Stored
    <3>2. status[id] = "None" /\ status'[id] = "Held" /\ size'[id] \in Nat \ {0}
      BY <1>2, <2>1, <3>1, StatusIs DEF Fits
    <3> QED  BY <3>2 DEF Kept, Promise!Grant
  <2>2. CASE id # new_id
    <3>1. outcome'[id] = outcome[id] /\ size'[id] = size[id]
      BY <1>2, <2>2
    <3>2. Stored(id)' => Stored(id)
      BY <1>3, <2>2 DEF Stored
    <3>3. CASE outcome[id] = "Granted" /\ Stored(id) /\ ~Stored(id)'
      <4>1. status[id] = "Held" /\ status'[id] = "Expired"
        BY <3>1, <3>3, StatusIs
      <4> QED  BY <3>1, <4>1 DEF Kept, Promise!Move, Promise!Arms
    <3>4. CASE ~(outcome[id] = "Granted" /\ Stored(id) /\ ~Stored(id)')
      <4>1. status'[id] = status[id]
        BY <3>1, <3>2, <3>4, StatusIs
      <4> QED  BY <3>1, <4>1 DEF Kept, Promise!Stay
    <3> QED  BY <3>3, <3>4
  <2> QED  BY <2>1, <2>2
<1> QED  BY <1>8, <1>9

\* A stored hold ends: its seats become the client's, or free.
LEMMA EndKeeps ==
  ASSUME Books, NEW kept \in SUBSET holds, NEW h \in kept,
         NEW how \in {"Confirmed", "Released"},
         holds' = kept \ {h}, size' = size,
         outcome' = [id \in Id |-> IF id = h.id THEN how ELSE outcome[id]],
         confirmed' = IF how = "Confirmed"
                      THEN confirmed + Cardinality(SeatsOf({h})) ELSE confirmed
  PROVE  Books' /\ \A id \in Id : Kept(id)
<1>1. /\ h.id \in Id /\ outcome[h.id] = "Granted" /\ h.seats = size[h.id]
      /\ h.seats \in Nat /\ h \in holds
  BY DEF Books
<1>2. /\ outcome'[h.id] = how
      /\ \A id \in Id : id # h.id => outcome'[id] = outcome[id]
  BY <1>1
<1>3. /\ outcome' \in [Id -> {"None", "Granted", "Confirmed", "Released"}]
      /\ size' \in [Id -> Nat]
  BY <1>2 DEF Books
<1>4. /\ \A g \in holds' : g \in holds /\ g.id # h.id
      /\ \A g \in holds' : g.id \in Id /\ outcome'[g.id] = "Granted"
                           /\ g.seats = size'[g.id]
      /\ \A f, g \in holds' : f.id = g.id => f = g
  <2>1. \A g \in holds' : g \in holds /\ g.id # h.id
    BY <1>1 DEF Books
  <2> QED  BY <1>2, <2>1 DEF Books
<1> DEFINE T == {h.id} \X (1..h.seats)
<1>5. T = SeatsOf({h})
  BY DEF SeatsOf
<1>6. IsFiniteSet(T) /\ IsFiniteSet(Booked) /\ T \subseteq SeatsOf(holds)
      /\ SeatsOf(holds') \subseteq SeatsOf(holds)
  <2>1. T \subseteq SeatsOf(holds)
    BY <1>1 DEF SeatsOf
  <2>2. SeatsOf(holds') \subseteq SeatsOf(holds)
    BY <1>4 DEF SeatsOf
  <2> QED  BY <1>1, <2>1, <2>2, SeatsOfOne, KeptFits
<1>7. /\ Booked' \subseteq Booked \cup T
      /\ confirmed' = Cardinality(Booked')
  <2>1. CASE how = "Confirmed"
    <3>1. Confirmed' = Confirmed \cup {h.id}
      BY <1>1, <1>2, <2>1 DEF Confirmed
    <3>2. Booked' = Booked \cup T
      BY <1>1, <3>1 DEF Booked
    <3>3. Booked \cap T = {}
      BY <1>6, Disjoint
    <3>4. Cardinality(Booked \cup T) = Cardinality(Booked) + Cardinality(T)
      BY <1>6, <3>3, CountTogether
    <3> QED  BY <1>5, <2>1, <3>2, <3>4 DEF Books
  <2>2. CASE how = "Released"
    <3>1. Confirmed' = Confirmed
      BY <1>1, <1>2, <2>2 DEF Confirmed
    <3>2. Booked' = Booked
      BY <3>1 DEF Booked
    <3> QED  BY <2>2, <3>2 DEF Books
  <2> QED  BY <2>1, <2>2
<1>8. /\ IsFiniteSet(Booked' \cup SeatsOf(holds'))
      /\ Cardinality(Booked' \cup SeatsOf(holds')) <= capacity
  <2> DEFINE U == Booked \cup SeatsOf(holds)
             V == Booked' \cup SeatsOf(holds')
  <2>1. V \in SUBSET U
    BY <1>6, <1>7
  <2>2. IsFiniteSet(U) /\ Cardinality(U) <= capacity /\ Cardinality(U) \in Nat
    BY FS_CardinalityType DEF Books
  <2> HIDE DEF U, V
  <2>3. IsFiniteSet(V) /\ Cardinality(V) <= Cardinality(U) /\ Cardinality(V) \in Nat
    BY <2>1, <2>2, FS_Subset, FS_CardinalityType
  <2>4. Cardinality(V) <= capacity
    BY <2>2, <2>3, StoreAssumption
  <2> QED  BY <2>3, <2>4 DEF V
<1>9. Books'
  <2>1. SeatsOf(holds)' = SeatsOf(holds')
    BY DEF SeatsOf
  <2> QED  BY <1>3, <1>4, <1>7, <1>8, <2>1 DEF Books
<1>10. ASSUME NEW id \in Id PROVE Kept(id)
  <2>1. CASE id = h.id
    <3>1. Stored(id)
      BY <1>1, <2>1 DEF Stored
    <3>2. status[id] = "Held" /\ status'[id] = how
      BY <1>1, <1>2, <2>1, <3>1, StatusIs
    <3> QED  BY <3>2 DEF Kept, Promise!Move, Promise!Arms
  <2>2. CASE id # h.id
    <3>1. outcome'[id] = outcome[id] /\ size'[id] = size[id]
      BY <1>2, <2>2
    <3>2. Stored(id)' => Stored(id)
      BY <1>4 DEF Stored
    <3>3. CASE outcome[id] = "Granted" /\ Stored(id) /\ ~Stored(id)'
      <4>1. status[id] = "Held" /\ status'[id] = "Expired"
        BY <3>1, <3>3, StatusIs
      <4> QED  BY <3>1, <4>1 DEF Kept, Promise!Move, Promise!Arms
    <3>4. CASE ~(outcome[id] = "Granted" /\ Stored(id) /\ ~Stored(id)')
      <4>1. status'[id] = status[id]
        BY <3>1, <3>2, <3>4, StatusIs
      <4> QED  BY <3>1, <4>1 DEF Kept, Promise!Stay
    <3> QED  BY <3>3, <3>4
  <2> QED  BY <2>1, <2>2
<1> QED  BY <1>9, <1>10

\* Both calls that end a hold: the hold they find ends, or nothing but the sweep
\* happens.
LEMMA RemoveKeeps ==
  ASSUME Books, NEW c, NEW how \in {"Confirmed", "Released"}, Remove(c, how),
         confirmed' = IF how = "Confirmed"
                      THEN confirmed + Cardinality(SeatsOf(Found(c))) ELSE confirmed
  PROVE  Books' /\ \A id \in Id : Kept(id)
<1> DEFINE kept == Swept(c.now)
<1>1. kept \in SUBSET holds
  BY DEF Swept
<1>2. CASE Found(c) = {}
  <2>1. holds' = kept /\ outcome' = [id \in Id |-> outcome[id]] /\ size' = size
    BY <1>2 DEF Remove
  <2>2. outcome' = outcome
    BY <2>1 DEF Books
  <2>3. SeatsOf({}) = {} /\ Cardinality({}) = 0 /\ confirmed \in Nat
    <3>1. confirmed \in Nat
      BY <1>1, KeptFits, FS_CardinalityType DEF Books
    <3> QED  BY <3>1, FS_EmptySet DEF SeatsOf
  <2>4. confirmed' = confirmed
    BY <1>2, <2>3
  <2> QED  BY <1>1, <2>1, <2>2, <2>4, SweepKeeps
<1>3. CASE Found(c) # {}
  <2>1. PICK h \in kept : h.id = c.id /\ h \in Found(c)
    BY <1>3 DEF Found
  <2>2. Found(c) = {h}
    BY <1>1, <2>1 DEF Found, Books
  <2>3. /\ holds' = kept \ {h} /\ size' = size
        /\ outcome' = [id \in Id |-> IF id = h.id THEN how ELSE outcome[id]]
    BY <1>3, <2>1, <2>2 DEF Remove
  <2> HIDE DEF kept
  <2> QED  BY <1>1, <2>1, <2>2, <2>3, EndKeeps
<1> QED  BY <1>2, <1>3

-----------------------------------------------------------------------------
(* The store keeps the promise.                                            *)

\* Nothing is booked before the first call.
LEMMA InitStore == Init => StoreInv
<1> SUFFICES ASSUME Init PROVE StoreInv
  OBVIOUS
<1>1. Booked = {} /\ SeatsOf(holds) = {}
  BY DEF Init, Booked, Confirmed, SeatsOf
<1>2. IsFiniteSet({}) /\ Cardinality({}) = 0
  BY FS_EmptySet
<1>3. Books
  BY <1>1, <1>2, StoreAssumption DEF Init, Books
<1>4. Calls
  BY DEF Init, Calls, Idle
<1> QED  BY <1>3, <1>4 DEF StoreInv

\* A step changes at most one handler's call, to one that is well formed.
LEMMA CallsNext == Calls /\ [Next]_vars => Calls'
<1> SUFFICES ASSUME Calls, [Next]_vars PROVE Calls'
  OBVIOUS
<1>1. ASSUME NEW t \in Handler, NEW c, call' = [call EXCEPT ![t] = c],
             c.op = "hold" => c.seats \in Requests
      PROVE  Calls'
  BY <1>1 DEF Calls
<1>2. ASSUME NEW t \in Handler, Ask(t) PROVE Calls'
  <2>1. PICK c : call' = [call EXCEPT ![t] = c] /\ (c.op = "hold" => c.seats \in Requests)
    <3>1. CASE \E req \in Requests : Arrive(t, [op |-> "hold", seats |-> req, now |-> clock])
      <4>1. PICK req \in Requests : Arrive(t, [op |-> "hold", seats |-> req, now |-> clock])
        BY <3>1
      <4> DEFINE c == [op |-> "hold", seats |-> req, now |-> clock]
      <4>2. call' = [call EXCEPT ![t] = c] /\ c.seats \in Requests
        BY <4>1 DEF Arrive
      <4> HIDE DEF c
      <4> QED  BY <4>2
    <3>2. CASE \E id \in Id, op \in {"confirm", "release"} :
                 Arrive(t, [op |-> op, id |-> id, now |-> clock])
      <4>1. PICK id \in Id, op \in {"confirm", "release"} :
              Arrive(t, [op |-> op, id |-> id, now |-> clock])
        BY <3>2
      <4> DEFINE c == [op |-> op, id |-> id, now |-> clock]
      <4>2. call' = [call EXCEPT ![t] = c] /\ c.op # "hold"
        BY <4>1 DEF Arrive
      <4> HIDE DEF c
      <4> QED  BY <4>2
    <3>3. CASE Arrive(t, [op |-> "available", now |-> clock])
      <4> DEFINE c == [op |-> "available", now |-> clock]
      <4>1. call' = [call EXCEPT ![t] = c] /\ c.op # "hold"
        BY <3>3 DEF Arrive
      <4> HIDE DEF c
      <4> QED  BY <4>1
    <3> QED  BY <1>2, <3>1, <3>2, <3>3 DEF Ask
  <2> QED  BY <1>1, <2>1
<1>3. ASSUME NEW t \in Handler, Run(t) PROVE Calls'
  <2>1. call' = [call EXCEPT ![t] = Idle]
    BY <1>3 DEF Run, RunHold, RunConfirm, RunRelease, RunAvailable, Return
  <2> QED  BY <1>1, <2>1 DEF Idle
<1>4. CASE Tick \/ UNCHANGED vars
  BY <1>4 DEF Tick, vars, Calls
<1> QED  BY <1>2, <1>3, <1>4 DEF Next

\* Every step keeps the books and the promise.
LEMMA BooksNext ==
  ASSUME StoreInv, [Next]_vars
  PROVE  Books' /\ \A id \in Id : Kept(id)
<1>1. Books /\ Calls
  BY DEF StoreInv
<1>2. ASSUME UNCHANGED <<confirmed, holds, outcome, size>>
      PROVE  Books' /\ \A id \in Id : Kept(id)
  BY <1>1, <1>2, SweepKeeps
<1>3. ASSUME NEW t \in Handler, RunHold(t)
      PROVE  Books' /\ \A id \in Id : Kept(id)
  <2> DEFINE c == call[t]
             kept == Swept(c.now)
  <2>1. kept \in SUBSET holds
    BY DEF Swept
  <2>2. c.seats \in Nat
    BY <1>1, <1>3, StoreAssumption DEF Calls, RunHold
  <2>3. UNCHANGED confirmed
    BY <1>3 DEF RunHold
  <2>4. CASE Fits(c.seats, kept)
    <3>1. Grant(c, kept)
      BY <1>3, <2>4 DEF RunHold
    <3> HIDE DEF kept, c
    <3> QED  BY <1>1, <2>1, <2>2, <2>3, <2>4, <3>1, GrantKeeps
  <2>5. CASE ~Fits(c.seats, kept)
    <3>1. holds' = kept /\ UNCHANGED <<outcome, size>>
      BY <1>3, <2>5 DEF RunHold, history
    <3> QED  BY <1>1, <2>1, <2>3, <3>1, SweepKeeps
  <2> QED  BY <2>4, <2>5
<1>4. ASSUME NEW t \in Handler, RunConfirm(t)
      PROVE  Books' /\ \A id \in Id : Kept(id)
  <2>1. /\ Remove(call[t], "Confirmed")
        /\ confirmed' = confirmed + Cardinality(SeatsOf(Found(call[t])))
    BY <1>4 DEF RunConfirm
  <2> QED  BY <1>1, <2>1, RemoveKeeps
<1>5. ASSUME NEW t \in Handler, RunRelease(t)
      PROVE  Books' /\ \A id \in Id : Kept(id)
  <2>1. Remove(call[t], "Released") /\ confirmed' = confirmed
    BY <1>5 DEF RunRelease
  <2> QED  BY <1>1, <2>1, RemoveKeeps
<1>6. ASSUME NEW t \in Handler, RunAvailable(t)
      PROVE  Books' /\ \A id \in Id : Kept(id)
  <2>1. holds' \in SUBSET holds /\ UNCHANGED <<confirmed, outcome, size>>
    BY <1>6 DEF RunAvailable, Swept, history
  <2> QED  BY <1>1, <2>1, SweepKeeps
<1> QED  BY <1>2, <1>3, <1>4, <1>5, <1>6
         DEF Next, Run, Ask, Arrive, Tick, vars, history

\* So it holds of every reachable state.
LEMMA NextStore == StoreInv /\ [Next]_vars => StoreInv'
  BY BooksNext, CallsNext DEF StoreInv

\* What Booking counts as committed are the confirmed and the stored holds.
LEMMA CommittedFits == Books => Promise!Committed <= capacity
<1> SUFFICES ASSUME Books PROVE Promise!Committed <= capacity
  OBVIOUS
<1> DEFINE ids == {id \in Id : status[id] \in {"Held", "Confirmed"}}
           U == UNION {{id} \X (1..size[id]) : id \in ids}
<1>1. ids = Confirmed \cup {h.id : h \in holds}
  <2>1. \A id \in Id : /\ status[id] = "Confirmed" <=> outcome[id] = "Confirmed"
                       /\ status[id] = "Held" <=> \E h \in holds : h.id = id
    BY DEF status, Books
  <2> QED  BY <2>1 DEF Confirmed, Books
<1> HIDE DEF ids
<1>2. U = Booked \cup SeatsOf(holds)
  BY <1>1 DEF Booked, SeatsOf, Books
<1>3. Promise!Committed = Cardinality(U)
  BY DEF Promise!Committed, Promise!SeatsOf, Promise!Cardinality, Cardinality, U, ids
<1> HIDE DEF U
<1> QED  BY <1>2, <1>3 DEF Books

\* The store never underflows the subtraction of its committed seats from the
\* capacity, whatever a sweep leaves (store.rs): what is confirmed and held fits.
THEOREM StoreFits == Spec => [](committed(holds) <= capacity)
<1>1. StoreInv => committed(holds) <= capacity
  <2> SUFFICES ASSUME StoreInv PROVE committed(holds) <= capacity
    OBVIOUS
  <2>1. holds \in SUBSET holds
    OBVIOUS
  <2> QED  BY <2>1, KeptFits DEF StoreInv
<1> QED  BY <1>1, InitStore, NextStore, PTL DEF Spec

\* The store implements Booking for any number of concurrent handlers: calls that
\* get the mutex in another order than they read the clock revive no hold a sweep
\* dropped, confirm none twice, and never commit more than the capacity.
THEOREM StoreImplementsBooking == Spec => KeepsPromise
<1>1. Init => Promise!Init
  BY DEF Init, Promise!Init, status
<1>2. StoreInv /\ [Next]_vars => [Promise!Next]_<<status, size>>
  <2> SUFFICES ASSUME StoreInv, [Next]_vars PROVE Promise!Next
    OBVIOUS
  <2>1. Books' /\ \A id \in Id : Kept(id)
    BY BooksNext
  <2>2. (Promise!Committed)' <= capacity
    <3>1. (Books => Promise!Committed <= capacity)'
      BY CommittedFits, PTL
    <3> QED  BY <2>1, <3>1
  <2>3. size' \in [Id -> Nat]
    BY <2>1 DEF Books
  <2>4. status' \in [Id -> Promise!States \cup {"None"}]
    BY <2>1 DEF Books, status, Promise!States
  <2> QED  BY <2>1, <2>2, <2>3, <2>4 DEF Promise!Next, Kept
<1> QED  BY <1>1, <1>2, InitStore, NextStore, PTL
         DEF Spec, KeepsPromise, Promise!Spec

=============================================================================
