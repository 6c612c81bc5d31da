------------------------ MODULE BitmapMemory_proofs ------------------------
(***************************************************************************)
(* What the coverage bitmap guarantees on a bus that takes and answers      *)
(* whenever it likes, for all sizes, hashes and depths of the queues.       *)
(***************************************************************************)
EXTENDS BitmapMemory, SequenceTheorems, FiniteSetTheorems, FunctionTheorems, TLAPS

(***************************************************************************)
(* Queues.  CountIn is how many elements of a queue are in a set.           *)
(***************************************************************************)
Places(q, S) == {n \in DOMAIN q : q[n] \in S}
CountIn(q, S) == Cardinality(Places(q, S))

\* The elements of a queue in a set are finitely many, and none if there is none.
LEMMA CountType ==
  ASSUME NEW T, NEW q \in Seq(T), NEW S
  PROVE  /\ IsFiniteSet(Places(q, S)) /\ CountIn(q, S) \in Nat
         /\ CountIn(q, S) = 0 <=> \A n \in DOMAIN q : q[n] \notin S
<1>1. Len(q) \in Nat /\ DOMAIN q = 1..Len(q)
  BY LenProperties
<1>2. IsFiniteSet(Places(q, S))
  <2>1. IsFiniteSet(1..Len(q))
    BY <1>1, FS_Interval
  <2>2. Places(q, S) \in SUBSET (1..Len(q))
    BY <1>1 DEF Places
  <2> QED
    BY <2>1, <2>2, FS_Subset
<1>3. CountIn(q, S) = 0 <=> Places(q, S) = {}
  BY <1>2, FS_EmptySet DEF CountIn
<1> QED
  BY <1>2, <1>3, FS_CardinalityType DEF CountIn, Places

\* What is appended is counted.
LEMMA CountAppend ==
  ASSUME NEW T, NEW q \in Seq(T), NEW e \in T, NEW S
  PROVE  CountIn(Append(q, e), S) = CountIn(q, S) + One(e \in S)
<1> DEFINE r == Append(q, e)
<1>1. /\ Len(q) \in Nat /\ DOMAIN q = 1..Len(q) /\ DOMAIN r = 1..Len(q) + 1
      /\ \A i \in 1..Len(q) : r[i] = q[i]
      /\ r[Len(q) + 1] = e
  BY LenProperties, AppendProperties
<1>2. \A n : n \in 1..Len(q) + 1 <=> n \in 1..Len(q) \/ n = Len(q) + 1
  BY <1>1
<1> HIDE DEF r
<1>3. CASE e \in S
  <2>1. Places(r, S) = Places(q, S) \cup {Len(q) + 1}
    BY <1>1, <1>2, <1>3 DEF Places
  <2>2. Len(q) + 1 \notin Places(q, S)
    BY <1>1 DEF Places
  <2> QED
    BY <1>3, <2>1, <2>2, CountType, FS_AddElement DEF CountIn, One, r
<1>4. CASE e \notin S
  <2>1. Places(r, S) = Places(q, S)
    BY <1>1, <1>2, <1>4 DEF Places
  <2> QED
    BY <1>4, <2>1, CountType DEF CountIn, One, r
<1> QED
  BY <1>3, <1>4

\* What is removed is counted no more.
LEMMA CountTail ==
  ASSUME NEW T, NEW q \in Seq(T), q # << >>, NEW S
  PROVE  CountIn(Tail(q), S) = CountIn(q, S) - One(q[1] \in S)
<1> DEFINE r == Tail(q)
           A == Places(r, S)
           B == Places(q, S) \ {1}
           f == [n \in A |-> n + 1]
<1>1. /\ Len(q) \in Nat \ {0} /\ DOMAIN q = 1..Len(q)
      /\ r \in Seq(T) /\ DOMAIN r = 1..Len(q) - 1
      /\ \A i \in 1..Len(q) - 1 : r[i] = q[i + 1]
  BY EmptySeq, LenProperties, HeadTailProperties
<1> HIDE DEF r
<1>2. \A n \in A : n \in Nat /\ n + 1 \in B
  BY <1>1 DEF Places
<1>3. \A m \in B : m - 1 \in A /\ m = (m - 1) + 1
  BY <1>1 DEF Places
<1>4. f \in Bijection(A, B)
  <2>1. f \in [A -> B] /\ \A n \in A : f[n] = n + 1
    BY <1>2
  <2>2. \A m, n \in A : f[m] = f[n] => m = n
    BY <1>2, <2>1
  <2>3. \A m \in B : \E n \in A : f[n] = m
    BY <1>3, <2>1
  <2> HIDE DEF f, A, B
  <2> QED
    BY <2>1, <2>2, <2>3, Fun_IsBij
<1>5. IsFiniteSet(A) /\ Cardinality(A) = CountIn(r, S)
  BY <1>1, CountType DEF CountIn
<1>6. Cardinality(B) = Cardinality(A)
  <2> HIDE DEF f, A, B
  <2>1. ExistsBijection(A, B)
    BY <1>4 DEF ExistsBijection
  <2> QED
    BY <1>5, <2>1, FS_Bijection
<1>7. /\ IsFiniteSet(Places(q, S)) /\ CountIn(q, S) \in Nat
      /\ Cardinality(B) = IF 1 \in Places(q, S) THEN CountIn(q, S) - 1 ELSE CountIn(q, S)
  BY CountType, FS_RemoveElement DEF CountIn
<1>8. 1 \in Places(q, S) <=> q[1] \in S
  BY <1>1 DEF Places
<1> QED
  BY <1>5, <1>6, <1>7, <1>8 DEF One, r

\* The elements of a queue after an append and after a removal.
Elements(q) == {q[n] : n \in DOMAIN q}

\* What is appended is among the elements.
LEMMA ElementsAppend ==
  ASSUME NEW T, NEW q \in Seq(T), NEW e \in T
  PROVE  Elements(Append(q, e)) = Elements(q) \cup {e}
<1>1. /\ Len(q) \in Nat /\ DOMAIN q = 1..Len(q) /\ DOMAIN Append(q, e) = 1..Len(q) + 1
      /\ \A i \in 1..Len(q) : Append(q, e)[i] = q[i]
      /\ Append(q, e)[Len(q) + 1] = e
  BY LenProperties, AppendProperties
<1>2. \A n : n \in 1..Len(q) + 1 <=> n \in 1..Len(q) \/ n = Len(q) + 1
  BY <1>1
<1> QED
  BY <1>1, <1>2 DEF Elements

\* What is removed is the first of the elements.
LEMMA ElementsTail ==
  ASSUME NEW T, NEW q \in Seq(T), q # << >>
  PROVE  /\ Elements(Tail(q)) \subseteq Elements(q)
         /\ Elements(q) \subseteq Elements(Tail(q)) \cup {q[1]}
         /\ q[1] \in Elements(q)
<1>1. /\ Len(q) \in Nat \ {0} /\ DOMAIN q = 1..Len(q) /\ DOMAIN Tail(q) = 1..Len(q) - 1
      /\ \A i \in 1..Len(q) - 1 : Tail(q)[i] = q[i + 1]
  BY EmptySeq, LenProperties, HeadTailProperties
<1>2. \A n \in 1..Len(q) - 1 : n + 1 \in 1..Len(q)
  BY <1>1
<1>3. \A n \in 1..Len(q) : n = 1 \/ (n - 1 \in 1..Len(q) - 1 /\ n = (n - 1) + 1)
  BY <1>1
<1>4. 1 \in 1..Len(q)
  BY <1>1
<1>5. Elements(Tail(q)) \subseteq Elements(q)
  BY <1>1, <1>2 DEF Elements
<1>6. ASSUME NEW n \in 1..Len(q), n # 1 PROVE q[n] \in Elements(Tail(q))
  <2>1. n - 1 \in DOMAIN Tail(q) /\ Tail(q)[n - 1] = q[n]
    BY <1>1, <1>3, <1>6
  <2> QED
    BY <2>1 DEF Elements
<1>7. Elements(q) \subseteq Elements(Tail(q)) \cup {q[1]}
  BY <1>1, <1>6 DEF Elements
<1> QED
  BY <1>1, <1>4, <1>5, <1>7 DEF Elements

(***************************************************************************)
(* The bus.  One cycle takes an address, ends a burst and confirms one.     *)
(***************************************************************************)
AwBursts   == [id : {Bitmap, Ext}, addr : Int]
TodoBursts == [id : {Bitmap, Ext}, addr : Int, from : SUBSET {Bitmap, Ext},
               strb : SUBSET Nat, data : 0..CountMax]
BusTyped ==
  /\ wrm_id_queue \in Seq({Bitmap, Ext})
  /\ bus \in [aw : Seq(AwBursts), from : SUBSET {Bitmap, Ext}, todo : Seq(TodoBursts),
              r : Seq(0..CountMax)]

\* The queue of ids is what the bus would need to see with the data.
Paired ==
  /\ Len(wrm_id_queue) = Len(bus.aw)
  /\ \A n \in DOMAIN bus.aw : wrm_id_queue[n] = bus.aw[n].id
  /\ DataMeetAddress

\* The parts of busTakes.
NewAw(k) == [id |-> k.wa, addr |-> IF k.wa = Bitmap THEN writeAddrReq ELSE 0]
Taken(k) == IF k.wa = None THEN bus.aw ELSE Append(bus.aw, NewAw(k))
Sent(k)  == IF k.wd = None THEN bus.from ELSE bus.from \cup {k.wd}
Ends(k)  == lastBeat(k) /\ Taken(k) # <<>>
NewTodo(k) == [id |-> Taken(k)[1].id, addr |-> Taken(k)[1].addr, from |-> Sent(k),
               strb |-> IF k.wd = Bitmap THEN writeDataReq.strb ELSE {},
               data |-> IF k.wd = Bitmap THEN writeDataReq.data ELSE 0]
Owed(k) == IF ~Ends(k) THEN bus.todo ELSE Append(bus.todo, NewTodo(k))
Read(k) == IF k.ra THEN Append(bus.r, memory[cur_request_addr]) ELSE bus.r

\* The bus after a cycle, part by part.
LEMMA BusParts ==
  ASSUME NEW k, busTakes(k)
  PROVE  /\ bus'.aw = IF Ends(k) THEN Tail(Taken(k)) ELSE Taken(k)
         /\ bus'.from = IF Ends(k) THEN {} ELSE Sent(k)
         /\ bus'.todo = IF k.wb THEN Tail(Owed(k)) ELSE Owed(k)
         /\ bus'.r = IF k.rd THEN Tail(Read(k)) ELSE Read(k)
         /\ bus' = [aw |-> bus'.aw, from |-> bus'.from, todo |-> bus'.todo, r |-> bus'.r]
BY DEF busTakes, Ends, Taken, Sent, Owed, Read, NewAw, NewTodo

\* What the core offers has its type.
Offered ==
  /\ writeAddrReq \in Int
  /\ writeDataReq \in [strb : SUBSET Nat, data : 0..CountMax]

\* What can be offered in a cycle.
LEMMA OffersDo ==
  ASSUME NEW k \in BusOffers
  PROVE  /\ k.wa \in {None, Bitmap, Ext} /\ k.wd \in {None, Bitmap, Ext}
         /\ k.ra \in BOOLEAN /\ k.rd \in BOOLEAN /\ k.wb \in BOOLEAN
         /\ k.ra => update_read_addr
         /\ k.rd => bus.r # <<>>
         /\ k.wb => bus.todo # <<>>
         /\ k.wa = Bitmap => clear_write_addr \/ update_write_addr
         /\ k.wd # None => /\ forwardWriteRequest(k) # <<>>
                           /\ Head(forwardWriteRequest(k)) = k.wd
         /\ k.wa # None => Len(wrm_id_queue) < IdDepth
         /\ k.wd = Ext => ext > 0
         /\ k.beats \in ExtBeats \cup {0}
<1>1. update_read_addr \in BOOLEAN
  BY DEF update_read_addr
<1> QED
  BY <1>1 DEF BusOffers, BusCalls, takesAddr, takesData

\* An id for every address: whoever's data are taken, the oldest address is theirs.
LEMMA TakenTyped ==
  ASSUME BusTyped, Paired, Offered, NEW k \in BusOffers
  PROVE  /\ Taken(k) \in Seq(AwBursts) /\ forwardWriteRequest(k) \in Seq({Bitmap, Ext})
         /\ Len(forwardWriteRequest(k)) = Len(Taken(k))
         /\ \A n \in 1..Len(Taken(k)) : forwardWriteRequest(k)[n] = Taken(k)[n].id
         /\ k.wa # None => NewAw(k) \in AwBursts
         /\ k.wd # None => Taken(k) # <<>> /\ Taken(k)[1].id = k.wd
         /\ bus.aw # <<>> => Taken(k) # <<>> /\ Taken(k)[1] = bus.aw[1]
<1>1. /\ bus.aw \in Seq(AwBursts) /\ wrm_id_queue \in Seq({Bitmap, Ext})
      /\ Len(wrm_id_queue) = Len(bus.aw) /\ Len(bus.aw) \in Nat
      /\ DOMAIN bus.aw = 1..Len(bus.aw)
      /\ \A n \in 1..Len(bus.aw) : wrm_id_queue[n] = bus.aw[n].id
  <2>1. bus.aw \in Seq(AwBursts)
    BY DEF BusTyped
  <2> QED
    BY <2>1, LenProperties DEF BusTyped, Paired
<1>2. k.wa # None => NewAw(k) \in AwBursts /\ NewAw(k).id = k.wa
  BY OffersDo DEF NewAw, AwBursts, Offered
<1>3. /\ Taken(k) \in Seq(AwBursts) /\ forwardWriteRequest(k) \in Seq({Bitmap, Ext})
      /\ Len(forwardWriteRequest(k)) = Len(Taken(k))
      /\ \A n \in 1..Len(Taken(k)) : forwardWriteRequest(k)[n] = Taken(k)[n].id
  <2>1. CASE k.wa = None
    BY <1>1, <2>1 DEF Taken, forwardWriteRequest
  <2>2. CASE k.wa # None
    <3>1. k.wa \in {Bitmap, Ext} /\ NewAw(k) \in AwBursts /\ NewAw(k).id = k.wa
      BY <1>2, <2>2, OffersDo
    <3>2. Taken(k) = Append(bus.aw, NewAw(k)) /\ forwardWriteRequest(k) = Append(wrm_id_queue, k.wa)
      BY <2>2 DEF Taken, forwardWriteRequest
    <3>3. /\ Taken(k) \in Seq(AwBursts) /\ Len(Taken(k)) = Len(bus.aw) + 1
          /\ \A n \in 1..Len(bus.aw) : Taken(k)[n] = bus.aw[n]
          /\ Taken(k)[Len(bus.aw) + 1] = NewAw(k)
      BY <1>1, <3>1, <3>2, AppendProperties
    <3>4. /\ forwardWriteRequest(k) \in Seq({Bitmap, Ext})
          /\ Len(forwardWriteRequest(k)) = Len(bus.aw) + 1
          /\ \A n \in 1..Len(bus.aw) : forwardWriteRequest(k)[n] = wrm_id_queue[n]
          /\ forwardWriteRequest(k)[Len(bus.aw) + 1] = k.wa
      BY <1>1, <3>1, <3>2, AppendProperties
    <3>5. \A n \in 1..Len(bus.aw) + 1 : n \in 1..Len(bus.aw) \/ n = Len(bus.aw) + 1
      BY <1>1
    <3> QED
      BY <1>1, <3>1, <3>3, <3>4, <3>5
  <2> QED
    BY <2>1, <2>2
<1>4. ASSUME k.wd # None PROVE Taken(k) # <<>> /\ Taken(k)[1].id = k.wd
  <2>1. forwardWriteRequest(k) # <<>> /\ Head(forwardWriteRequest(k)) = k.wd
    BY <1>4, OffersDo
  <2>2. Len(forwardWriteRequest(k)) \in Nat \ {0} /\ Head(forwardWriteRequest(k)) = forwardWriteRequest(k)[1]
    BY <1>3, <2>1, EmptySeq
  <2>3. Taken(k) # <<>>
    BY <1>3, <2>2, EmptySeq
  <2> QED
    BY <1>3, <2>1, <2>2, <2>3
<1>5. ASSUME bus.aw # <<>> PROVE Taken(k) # <<>> /\ Taken(k)[1] = bus.aw[1]
  <2>1. Len(bus.aw) \in Nat \ {0}
    BY <1>1, <1>5, EmptySeq
  <2>2. 1 \in 1..Len(bus.aw)
    BY <2>1
  <2> QED
    BY <1>1, <1>2, <1>5, <2>2, OffersDo, AppendProperties DEF Taken
<1> QED
  BY <1>2, <1>3, <1>4, <1>5

\* How many bursts of the bitmap the bus owes data or a confirmation.
OursAw   == {b \in AwBursts : b.id = Bitmap}
OursTodo == {b \in TodoBursts : b.id = Bitmap}
InAw   == CountIn(bus.aw, OursAw)
InTodo == CountIn(bus.todo, OursTodo)
\* The bursts themselves.
Aw   == {b \in Elements(bus.aw) : b.id = Bitmap}
Todo == {b \in Elements(bus.todo) : b.id = Bitmap}
Confirmed(k) == k.wb /\ bus.todo[1].id = Bitmap

\* Addresses become bursts, in any order that the other writer leaves.
LEMMA AwMoves ==
  ASSUME BusTyped, Paired, Offered, NEW k \in BusOffers, busTakes(k)
  PROVE  /\ bus'.aw \in Seq(AwBursts)
         /\ InAw' = InAw + One(k.wa = Bitmap) - One(k.wd = Bitmap)
         /\ \A b \in Aw' : b \in Aw \/ (k.wa = Bitmap /\ b = NewAw(k))
         /\ \A b \in Aw : b \in Aw' \/ (k.wd = Bitmap /\ b = Taken(k)[1])
         /\ k.wa = Bitmap => NewAw(k) \in Aw' \/ (k.wd = Bitmap /\ NewAw(k) = Taken(k)[1])
         /\ k.wd = Bitmap => Taken(k)[1] \in Aw \/ (k.wa = Bitmap /\ Taken(k)[1] = NewAw(k))
<1>0. /\ k.wa \in {None, Bitmap, Ext} /\ k.wd \in {None, Bitmap, Ext}
      /\ bus.aw \in Seq(AwBursts)
      /\ None # Bitmap /\ None # Ext /\ Bitmap # Ext
  BY OffersDo DEF BusTyped, None, Bitmap, Ext
<1>1. Taken(k) \in Seq(AwBursts)
  BY TakenTyped
<1>2. /\ CountIn(Taken(k), OursAw) = InAw + One(k.wa = Bitmap)
      /\ Elements(Taken(k)) = Elements(bus.aw) \cup (IF k.wa = None THEN {} ELSE {NewAw(k)})
      /\ InAw \in Nat
  <2>0. InAw \in Nat
    BY <1>0, CountType DEF InAw
  <2>1. CASE k.wa = None
    BY <1>0, <2>0, <2>1 DEF Taken, InAw, One
  <2>2. CASE k.wa # None
    <3>1. NewAw(k) \in AwBursts /\ Taken(k) = Append(bus.aw, NewAw(k))
      BY <2>2, TakenTyped DEF Taken
    <3>2. NewAw(k) \in OursAw <=> k.wa = Bitmap
      BY <3>1 DEF OursAw, NewAw
    <3>3. /\ CountIn(Taken(k), OursAw) = CountIn(bus.aw, OursAw) + One(NewAw(k) \in OursAw)
          /\ Elements(Taken(k)) = Elements(bus.aw) \cup {NewAw(k)}
      BY <1>0, <3>1, CountAppend, ElementsAppend
    <3> QED
      BY <2>0, <2>2, <3>2, <3>3 DEF InAw, One
  <2> QED
    BY <2>1, <2>2
<1>3. NewAw(k).id = k.wa
  BY DEF NewAw
<1>4. /\ lastBeat(k) => k.wd # None
      /\ k.wd = Bitmap => lastBeat(k)
  BY <1>0 DEF lastBeat
<1>5. CASE ~Ends(k)
  <2>1. bus'.aw = Taken(k) /\ k.wd # Bitmap
    BY <1>4, <1>5, BusParts, TakenTyped, <1>0 DEF Ends
  <2>2. InAw' = CountIn(Taken(k), OursAw) /\ Aw' = {b \in Elements(Taken(k)) : b.id = Bitmap}
    BY <2>1 DEF InAw, Aw
  <2> QED
    BY <1>0, <1>1, <1>2, <1>3, <2>1, <2>2 DEF Aw, One
<1>6. CASE Ends(k)
  <2>1. bus'.aw = Tail(Taken(k)) /\ Taken(k) # <<>> /\ k.wd # None /\ Taken(k)[1].id = k.wd
    BY <1>4, <1>6, BusParts, TakenTyped DEF Ends
  <2>2. /\ CountIn(bus'.aw, OursAw) = CountIn(Taken(k), OursAw) - One(Taken(k)[1] \in OursAw)
        /\ Elements(bus'.aw) \subseteq Elements(Taken(k))
        /\ Elements(Taken(k)) \subseteq Elements(bus'.aw) \cup {Taken(k)[1]}
        /\ Taken(k)[1] \in Elements(Taken(k))
        /\ bus'.aw \in Seq(AwBursts)
    BY <1>1, <2>1, CountTail, ElementsTail, HeadTailProperties
  <2>3. Taken(k)[1] \in AwBursts
    BY <1>1, <2>1, EmptySeq, ElementOfSeq
  <2>4. Taken(k)[1] \in OursAw <=> k.wd = Bitmap
    BY <2>1, <2>3 DEF OursAw
  <2>5. InAw' = InAw + One(k.wa = Bitmap) - One(k.wd = Bitmap)
    BY <1>2, <2>2, <2>4 DEF InAw, One
  <2>6. \A b : b \in Aw' <=> b \in Elements(bus'.aw) /\ b.id = Bitmap
    BY DEF Aw
  <2>7. \A b : b \in Aw <=> b \in Elements(bus.aw) /\ b.id = Bitmap
    BY DEF Aw
  <2> HIDE DEF Elements
  <2>8. /\ \A b \in Aw' : b \in Aw \/ (k.wa = Bitmap /\ b = NewAw(k))
        /\ \A b \in Aw : b \in Aw' \/ (k.wd = Bitmap /\ b = Taken(k)[1])
    BY <1>0, <1>2, <1>3, <2>1, <2>2, <2>6, <2>7
  <2>9. /\ k.wa = Bitmap => NewAw(k) \in Aw' \/ (k.wd = Bitmap /\ NewAw(k) = Taken(k)[1])
        /\ k.wd = Bitmap => Taken(k)[1] \in Aw \/ (k.wa = Bitmap /\ Taken(k)[1] = NewAw(k))
    BY <1>0, <1>2, <1>3, <2>1, <2>2, <2>6, <2>7
  <2> QED
    BY <2>2, <2>5, <2>8, <2>9
<1> QED
  BY <1>5, <1>6

\* Bursts are confirmed, the oldest first.
LEMMA TodoMoves ==
  ASSUME BusTyped, Paired, Offered, NEW k \in BusOffers, busTakes(k)
  PROVE  /\ bus'.todo \in Seq(TodoBursts)
         /\ InTodo' = InTodo + One(k.wd = Bitmap) - One(Confirmed(k))
         /\ \A b \in Todo' : b \in Todo \/ (k.wd = Bitmap /\ b = NewTodo(k))
         /\ \A b \in Todo : b \in Todo' \/ (Confirmed(k) /\ b = bus.todo[1])
         /\ k.wd = Bitmap =>
              NewTodo(k) \in Todo' \/ (Confirmed(k) /\ NewTodo(k) = bus.todo[1])
         /\ Confirmed(k) => bus.todo[1] \in Todo
         /\ \A b \in Elements(bus'.todo) : b \in Elements(bus.todo) \/ (Ends(k) /\ b = NewTodo(k))
<1>0. /\ k.wa \in {None, Bitmap, Ext} /\ k.wd \in {None, Bitmap, Ext}
      /\ bus.todo \in Seq(TodoBursts)
      /\ bus.from \in SUBSET {Bitmap, Ext}
      /\ None # Bitmap /\ None # Ext /\ Bitmap # Ext
      /\ k.wb \in BOOLEAN
  BY OffersDo DEF BusTyped, None, Bitmap, Ext
<1>1. /\ lastBeat(k) => k.wd # None
      /\ k.wd = Bitmap => Ends(k)
  BY <1>0, TakenTyped DEF lastBeat, Ends
<1>2. ASSUME Ends(k)
      PROVE  NewTodo(k) \in TodoBursts /\ NewTodo(k).id = k.wd
  <2>1. Taken(k)[1] \in AwBursts /\ Taken(k)[1].id = k.wd
    BY <1>1, <1>2, TakenTyped, EmptySeq, ElementOfSeq DEF Ends
  <2>2. Sent(k) \in SUBSET {Bitmap, Ext}
    BY <1>0 DEF Sent
  <2> QED
    BY <1>0, <2>1, <2>2, BitmapAssumption DEF NewTodo, TodoBursts, AwBursts, Offered
<1>3. /\ Owed(k) \in Seq(TodoBursts)
      /\ CountIn(Owed(k), OursTodo) = InTodo + One(k.wd = Bitmap)
      /\ Elements(Owed(k)) = Elements(bus.todo) \cup (IF Ends(k) THEN {NewTodo(k)} ELSE {})
      /\ InTodo \in Nat
      /\ bus.todo # <<>> => Owed(k) # <<>> /\ Owed(k)[1] = bus.todo[1]
  <2>0. InTodo \in Nat
    BY <1>0, CountType DEF InTodo
  <2>1. CASE ~Ends(k)
    BY <1>0, <1>1, <2>0, <2>1 DEF Owed, InTodo, One
  <2>2. CASE Ends(k)
    <3>1. NewTodo(k) \in TodoBursts /\ NewTodo(k).id = k.wd /\ Owed(k) = Append(bus.todo, NewTodo(k))
      BY <1>2, <2>2 DEF Owed
    <3>2. NewTodo(k) \in OursTodo <=> k.wd = Bitmap
      BY <3>1 DEF OursTodo
    <3> HIDE DEF Ends
    <3>3. /\ CountIn(Owed(k), OursTodo) = CountIn(bus.todo, OursTodo) + One(NewTodo(k) \in OursTodo)
          /\ Elements(Owed(k)) = Elements(bus.todo) \cup {NewTodo(k)}
          /\ Owed(k) \in Seq(TodoBursts)
      BY <1>0, <3>1, CountAppend, ElementsAppend, AppendProperties
    <3>4. bus.todo # <<>> => 1 \in 1..Len(bus.todo)
      BY <1>0, EmptySeq
    <3>5. bus.todo # <<>> => Owed(k) # <<>> /\ Owed(k)[1] = bus.todo[1]
      BY <1>0, <3>1, <3>4, AppendProperties
    <3> QED
      BY <2>0, <2>2, <3>2, <3>3, <3>5 DEF InTodo, One
  <2> QED
    BY <2>1, <2>2
<1>4. \A b : b \in Todo' <=> b \in Elements(bus'.todo) /\ b.id = Bitmap
  BY DEF Todo
<1>5. \A b : b \in Todo <=> b \in Elements(bus.todo) /\ b.id = Bitmap
  BY DEF Todo
<1>6. CASE ~k.wb
  <2>1. bus'.todo = Owed(k) /\ ~Confirmed(k)
    BY <1>6, BusParts DEF Confirmed
  <2>2. InTodo' = CountIn(Owed(k), OursTodo)
    BY <2>1 DEF InTodo
  <2>3. InTodo' = InTodo + One(k.wd = Bitmap) - One(Confirmed(k))
    BY <1>3, <2>1, <2>2 DEF One
  <2> QED
    BY <1>1, <1>2, <1>3, <1>4, <1>5, <2>1, <2>3
<1>7. CASE k.wb
  <2>1. /\ bus'.todo = Tail(Owed(k)) /\ bus.todo # <<>>
        /\ Owed(k) # <<>> /\ Owed(k)[1] = bus.todo[1]
        /\ Confirmed(k) <=> bus.todo[1].id = Bitmap
    BY <1>3, <1>7, BusParts, OffersDo DEF Confirmed
  <2>2. /\ CountIn(bus'.todo, OursTodo) = CountIn(Owed(k), OursTodo) - One(bus.todo[1] \in OursTodo)
        /\ Elements(bus'.todo) \subseteq Elements(Owed(k))
        /\ Elements(Owed(k)) \subseteq Elements(bus'.todo) \cup {bus.todo[1]}
        /\ bus'.todo \in Seq(TodoBursts)
    BY <1>3, <2>1, CountTail, ElementsTail, HeadTailProperties
  <2>3. bus.todo[1] \in TodoBursts /\ bus.todo[1] \in Elements(bus.todo)
    BY <1>0, <2>1, EmptySeq, ElementOfSeq, ElementsTail
  <2>4. bus.todo[1] \in OursTodo <=> Confirmed(k)
    BY <2>1, <2>3 DEF OursTodo
  <2>5. InTodo' = InTodo + One(k.wd = Bitmap) - One(Confirmed(k))
    BY <1>3, <2>2, <2>4 DEF InTodo, One
  <2>6. k.wd = Bitmap =>
          NewTodo(k) \in Todo' \/ (Confirmed(k) /\ NewTodo(k) = bus.todo[1])
    BY <1>1, <1>2, <1>3, <1>4, <2>1, <2>2
  <2> QED
    BY <1>1, <1>2, <1>3, <1>4, <1>5, <2>1, <2>2, <2>3, <2>5, <2>6
<1> QED
  BY <1>0, <1>6, <1>7

\* The ids go on matching the addresses, and each burst's data its address.
LEMMA BusKept ==
  ASSUME BusTyped, Paired, Offered, NEW k \in BusOffers, busTakes(k), wrm_id_queue_update(k),
         k.ra => memory[cur_request_addr] \in 0..CountMax,
         Len(wrm_id_queue) <= IdDepth
  PROVE  /\ BusTyped' /\ Paired'
         /\ Len(wrm_id_queue') <= IdDepth
<1>0. /\ k.wa \in {None, Bitmap, Ext} /\ k.wd \in {None, Bitmap, Ext}
      /\ bus.aw \in Seq(AwBursts) /\ bus.from \in SUBSET {Bitmap, Ext}
      /\ bus.todo \in Seq(TodoBursts) /\ bus.r \in Seq(0..CountMax)
      /\ wrm_id_queue \in Seq({Bitmap, Ext})
      /\ None # Bitmap /\ None # Ext /\ Bitmap # Ext
  BY OffersDo DEF BusTyped, None, Bitmap, Ext
<1>1. lastBeat(k) => k.wd # None
  BY <1>0 DEF lastBeat
<1> DEFINE q == forwardWriteRequest(k)
<1>2. /\ Taken(k) \in Seq(AwBursts) /\ q \in Seq({Bitmap, Ext})
      /\ Len(q) = Len(Taken(k)) /\ Len(q) \in Nat
      /\ \A n \in 1..Len(Taken(k)) : q[n] = Taken(k)[n].id
      /\ k.wd # None => Taken(k) # <<>> /\ Taken(k)[1].id = k.wd /\ q # <<>>
      /\ bus.aw # <<>> => Taken(k) # <<>> /\ Taken(k)[1] = bus.aw[1]
  BY TakenTyped, OffersDo, LenProperties
<1>3. /\ wrm_id_queue' = IF Ends(k) THEN Tail(q) ELSE q
      /\ Ends(k) => q # <<>>
  BY <1>1, <1>2 DEF wrm_id_queue_update, Ends
<1>4. bus'.aw = IF Ends(k) THEN Tail(Taken(k)) ELSE Taken(k)
  BY BusParts
<1>5. Ends(k) => Taken(k) # <<>>
  BY DEF Ends
<1>6. Sent(k) \in SUBSET {Bitmap, Ext}
  BY <1>0 DEF Sent
<1>7. Len(q) <= IdDepth
  <2>1. Len(wrm_id_queue) \in Nat /\ IdDepth \in Nat
    BY <1>0, LenProperties, BusAssumption
  <2>2. CASE k.wa = None
    BY <2>2 DEF forwardWriteRequest
  <2>3. CASE k.wa # None
    <3>1. Len(wrm_id_queue) < IdDepth /\ k.wa \in {Bitmap, Ext}
      BY <1>0, <2>3, OffersDo
    <3>2. Len(q) = Len(wrm_id_queue) + 1
      BY <1>0, <2>3, <3>1, AppendProperties DEF forwardWriteRequest
    <3> QED
      BY <2>1, <3>1, <3>2
  <2> QED
    BY <2>2, <2>3
<1> HIDE DEF q
<1>8. BusTyped' /\ Len(wrm_id_queue') <= IdDepth
  <2>1. bus'.aw \in Seq(AwBursts) /\ bus'.todo \in Seq(TodoBursts)
    BY AwMoves, TodoMoves
  <2>2. wrm_id_queue' \in Seq({Bitmap, Ext}) /\ Len(wrm_id_queue') <= IdDepth
    BY <1>2, <1>3, <1>7, HeadTailProperties, BusAssumption
  <2>3. bus'.from \in SUBSET {Bitmap, Ext}
    BY <1>6, BusParts
  <2>4. bus'.r \in Seq(0..CountMax)
    <3>1. /\ Read(k) \in Seq(0..CountMax)
          /\ bus.r # <<>> => Read(k) # <<>>
      <4> DEFINE Entries == 0..CountMax
                 old == memory[cur_request_addr]
      <4>1. bus.r \in Seq(Entries) /\ (k.ra => old \in Entries)
        BY <1>0
      <4>2. Read(k) = IF k.ra THEN Append(bus.r, old) ELSE bus.r
        BY DEF Read
      <4> HIDE DEF Entries, old
      <4>3. Read(k) \in Seq(Entries) /\ (bus.r # <<>> => Read(k) # <<>>)
        BY <4>1, <4>2, AppendProperties
      <4> QED
        BY <4>3 DEF Entries
    <3>2. bus'.r = Read(k) \/ (Read(k) # <<>> /\ bus'.r = Tail(Read(k)))
      BY <3>1, BusParts, OffersDo
    <3> QED
      BY <3>1, <3>2, HeadTailProperties
  <2>5. bus' = [aw |-> bus'.aw, from |-> bus'.from, todo |-> bus'.todo, r |-> bus'.r]
    BY BusParts
  <2> QED
    BY <2>1, <2>2, <2>3, <2>4, <2>5 DEF BusTyped
<1>9. /\ Len(wrm_id_queue') = Len(bus'.aw)
      /\ \A n \in DOMAIN bus'.aw : wrm_id_queue'[n] = bus'.aw[n].id
  <2>1. CASE ~Ends(k)
    BY <1>2, <1>3, <1>4, <2>1, LenProperties
  <2>2. CASE Ends(k)
    <3>1. /\ wrm_id_queue' = Tail(q) /\ bus'.aw = Tail(Taken(k)) /\ q # <<>> /\ Taken(k) # <<>>
      BY <1>2, <1>3, <1>4, <1>5, <2>2
    <3>2. /\ Len(Tail(q)) = Len(Taken(k)) - 1 /\ Len(Tail(Taken(k))) = Len(Taken(k)) - 1
          /\ \A n \in 1..Len(Taken(k)) - 1 : Tail(q)[n] = q[n + 1]
          /\ \A n \in 1..Len(Taken(k)) - 1 : Tail(Taken(k))[n] = Taken(k)[n + 1]
          /\ DOMAIN Tail(Taken(k)) = 1..Len(Taken(k)) - 1
      BY <1>2, <3>1, HeadTailProperties, LenProperties
    <3>3. \A n \in 1..Len(Taken(k)) - 1 : n + 1 \in 1..Len(Taken(k))
      BY <1>2
    <3> QED
      BY <1>2, <3>1, <3>2, <3>3
  <2> QED
    BY <2>1, <2>2
<1>10. DataMeetAddress'
  <2>1. Sent(k) # {} => Taken(k) # <<>> /\ Sent(k) = {Taken(k)[1].id}
    <3>1. bus.from # {} => bus.aw # <<>> /\ bus.from = {bus.aw[1].id}
      BY DEF Paired, DataMeetAddress
    <3> QED
      BY <1>2, <3>1 DEF Sent
  <2>2. bus'.from # {} => bus'.aw # <<>> /\ bus'.from = {bus'.aw[1].id}
    <3>1. bus'.from = IF Ends(k) THEN {} ELSE Sent(k)
      BY BusParts
    <3> QED
      BY <1>4, <2>1, <3>1
  <2>3. \A b \in Elements(bus.todo) : b.from = {b.id}
    BY DEF Paired, DataMeetAddress, Elements
  <2>4. Ends(k) => NewTodo(k).from = {NewTodo(k).id}
    <3>1. Ends(k) => Sent(k) # {}
      BY <1>1 DEF Ends, Sent
    <3> QED
      BY <2>1, <3>1 DEF NewTodo
  <2>5. \A b \in Elements(bus'.todo) : b.from = {b.id}
    BY <2>3, <2>4, TodoMoves
  <2>6. \A n \in DOMAIN bus'.todo : bus'.todo[n] \in Elements(bus'.todo)
    BY DEF Elements
  <2> QED
    BY <2>2, <2>5, <2>6 DEF DataMeetAddress
<1> QED
  BY <1>8, <1>9, <1>10 DEF Paired

(***************************************************************************)
(* The core.  What the state is like between two clears: while it rests,    *)
(* clears the memory, or counts one request after the other.                *)
(***************************************************************************)
CoreTyped ==
  /\ initialized \in BOOLEAN /\ clearReq \in BOOLEAN /\ clearing \in BOOLEAN
  /\ cur_request_raddr_set \in BOOLEAN /\ cur_request_waddr_set \in BOOLEAN
  /\ stall \in BOOLEAN
  /\ bitmap_size \in Sizes \cup {0}
  /\ bitmap_hash_indexmask \in Nat \ {0}
  /\ bitmapUpdateReqFifo \in Seq(Hashes) /\ Len(bitmapUpdateReqFifo) <= FifoDepth
  /\ clearAddr_next \in 0..MemSize
  /\ clear_beats_pending \in 0..PendingMax
  /\ write_bursts_pending_confirm \in 0..PendingMax
  /\ cur_update_state \in UpdateStates
  /\ cur_request \in Hashes \cup {0}
  /\ cur_request_addr \in Begin..(MemSize - 1)
  /\ cur_request_readdata \in 0..CountMax
MemoryTyped ==
  /\ wrs_active \in BOOLEAN /\ ext \in Nat
  /\ Len(wrm_id_queue) <= IdDepth
  /\ memory \in [Addrs -> 0..CountMax]
  /\ hits \in [Addrs -> 0..CountMax]

\* The counters match the bus (PendingMatchesBus), also between clears.
Counted ==
  /\ write_bursts_pending_confirm = InAw + InTodo
  /\ clearing => clear_beats_pending = InAw
  /\ ~clearing => clear_beats_pending = 0 /\ InAw = One(cur_request_waddr_set)

\* Nothing is under way before the first clear, and from when one is asked for to
\* when it begins.
Resting == clearReq \/ (~initialized /\ ~clearing)
RestOK ==
  Resting => /\ ~clearing
             /\ cur_update_state = "UpdateIdle"
             /\ bitmapUpdateReqFifo = <<>>
             /\ write_bursts_pending_confirm = 0
             /\ \A a \in Addrs : hits[a] = 0

\* A clear goes from word to word and meets the end exactly.
ClearOK ==
  clearing => /\ ~initialized
              /\ cur_update_state = "UpdateIdle"
              /\ Begin <= clearAddr_next
              /\ \E n \in Nat : bitmapAddr_end = clearAddr_next + n * WordBytes

\* A request is worked on with nothing else under way, on the memory as it is.
UpdateOK ==
  /\ ~Resting => bitmap_hash_indexmask = indexmask
  /\ cur_update_state \in {"UpdateCalcAddr", "UpdateRead"} => write_bursts_pending_confirm = 0
  /\ cur_update_state = "UpdateWrite" => InTodo = 0
  /\ cur_request_waddr_set => cur_update_state = "UpdateWrite"
  /\ cur_update_state \in {"UpdateRead", "UpdateWrite"} => cur_request_addr = entry(cur_request)
  /\ cur_update_state = "UpdateWrite" => cur_request_readdata = memory[cur_request_addr]
  /\ bus.r = IF cur_update_state = "UpdateRead" /\ cur_request_raddr_set
             THEN <<memory[cur_request_addr]>> ELSE <<>>

\* The control part of the inductive invariant.
ControlOK ==
  /\ CoreTyped /\ MemoryTyped /\ BusTyped /\ Paired
  /\ Counted /\ RestOK /\ ClearOK /\ UpdateOK

\* Counts and sets agree when there is nothing.
LEMMA NoneOwed ==
  ASSUME BusTyped
  PROVE  /\ InAw \in Nat /\ InTodo \in Nat
         /\ InAw = 0 <=> Aw = {}
         /\ InTodo = 0 <=> Todo = {}
<1>1. bus.aw \in Seq(AwBursts) /\ bus.todo \in Seq(TodoBursts)
  BY DEF BusTyped
<1>2. /\ InAw \in Nat
      /\ InAw = 0 <=> \A n \in DOMAIN bus.aw : bus.aw[n] \notin OursAw
  BY <1>1, CountType DEF InAw
<1>3. /\ InTodo \in Nat
      /\ InTodo = 0 <=> \A n \in DOMAIN bus.todo : bus.todo[n] \notin OursTodo
  BY <1>1, CountType DEF InTodo
<1>4. /\ \A n \in DOMAIN bus.aw : bus.aw[n] \in AwBursts
      /\ \A n \in DOMAIN bus.todo : bus.todo[n] \in TodoBursts
  BY <1>1, LenProperties, ElementOfSeq
<1> QED
  BY <1>2, <1>3, <1>4 DEF OursAw, OursTodo, Aw, Todo, Elements

\* The entry of a hash is in the memory.
LEMMA EntryInMemory ==
  ASSUME bitmap_size \in Sizes \cup {0}, NEW h \in Nat
  PROVE  /\ entry(h) \in Begin..(MemSize - 1)
         /\ bitmap_size # 0 => entry(h) \in Region
         /\ entry(h) = Begin + (h % indexmask)
         /\ indexmask \in Nat \ {0}
<1>1. bitmap_size \in Nat /\ Begin \in Nat /\ MemSize \in Nat
      /\ Begin + bitmap_size <= MemSize /\ Begin < MemSize
  BY BitmapAssumption
<1>2. CASE bitmap_size = 0
  BY <1>1, <1>2 DEF entry, indexmask
<1>3. CASE bitmap_size # 0
  <2>1. h % bitmap_size \in 0..(bitmap_size - 1)
    BY <1>1, <1>3
  <2> QED
    BY <1>1, <1>3, <2>1 DEF entry, indexmask, Region, bitmapAddr_end
<1> QED
  BY <1>2, <1>3

\* What the core offers the bus is an address and an entry's value.
LEMMA CoreOffers == ASSUME CoreTyped, MemoryTyped PROVE Offered
<1>1. /\ clearAddr_next \in Int /\ cur_request_addr \in Nat /\ WordBytes \in Nat \ {0}
      /\ CountMax \in Nat /\ cur_request_readdata \in 0..CountMax
  BY BitmapAssumption DEF CoreTyped
<1>2. cur_request_addr % WordBytes \in Nat
  BY <1>1
<1>3. writeAddrReq \in Int
  BY <1>1, <1>2 DEF writeAddrReq, wordAddr
<1>4. counter_updated \in 0..CountMax
  BY <1>1 DEF counter_updated
<1>5. 0..(WordBytes - 1) \in SUBSET Nat
  BY <1>1
<1> QED
  BY <1>1, <1>2, <1>3, <1>4, <1>5 DEF Offered, writeDataReq

\* The methods the core sees called.
LEMMA CallsAre ==
  ASSUME ControlOK, NEW k \in BusOffers, NEW req, NEW clear
  PROVE  LET i == calls(k, req, clear) IN
         /\ i.req = req /\ i.clear = clear
         /\ i.waddr = (k.wa = Bitmap) /\ i.wdata = (k.wd = Bitmap) /\ i.raddr = k.ra
         /\ i.wdone = Confirmed(k)
         /\ (i.rdata # NoReq) = k.rd
         /\ k.rd => i.rdata = memory[cur_request_addr] /\ cur_update_state = "UpdateRead"
         /\ Confirmed(k) => bus.todo[1] \in Todo
<1>1. k.rd \in BOOLEAN /\ k.wb \in BOOLEAN /\ (k.rd => bus.r # <<>>) /\ (k.wb => bus.todo # <<>>)
  BY OffersDo
<1>2. k.rd => cur_update_state = "UpdateRead" /\ bus.r = <<memory[cur_request_addr]>>
  BY <1>1 DEF ControlOK, UpdateOK
<1>3. cur_request_addr \in Addrs
  BY BitmapAssumption DEF ControlOK, CoreTyped, Addrs
<1>4. memory[cur_request_addr] # NoReq
  BY <1>3, BitmapAssumption DEF ControlOK, MemoryTyped
<1>5. bus.todo # <<>> => bus.todo[1] \in Elements(bus.todo)
  BY ElementsTail DEF ControlOK, BusTyped
<1> QED
  BY <1>1, <1>2, <1>4, <1>5 DEF calls, Confirmed, Todo

\* What the bus does for the bitmap in a cycle.
LEMMA BusOutcome ==
  ASSUME ControlOK, NEW k \in BusOffers, NEW req, NEW clear, MemoryCycle(k, req, clear)
  PROVE  /\ BusTyped' /\ Paired' /\ Len(wrm_id_queue') <= IdDepth
         /\ InAw' = InAw + One(k.wa = Bitmap) - One(k.wd = Bitmap)
         /\ InTodo' = InTodo + One(k.wd = Bitmap) - One(Confirmed(k))
         /\ InAw \in Nat /\ InTodo \in Nat /\ InAw' \in Nat /\ InTodo' \in Nat
         /\ ~Confirmed(k) => memory' = memory
         /\ \A a \in Addrs :
              memory'[a] = IF Confirmed(k) /\ \E b \in bus.todo[1].strb : a = bus.todo[1].addr + b
                           THEN bus.todo[1].data ELSE memory[a]
         /\ memory' \in [Addrs -> 0..CountMax]
         /\ wrs_active' \in BOOLEAN /\ ext' \in Nat
<1>1. /\ Offered /\ BusTyped /\ Paired /\ busTakes(k) /\ wrm_id_queue_update(k)
      /\ busWrites(k) /\ hostWrites(k)
      /\ Len(wrm_id_queue) <= IdDepth
      /\ memory \in [Addrs -> 0..CountMax] /\ ext \in Nat /\ wrs_active \in BOOLEAN
  BY CoreOffers DEF ControlOK, MemoryCycle, MemoryTyped
<1>2. memory[cur_request_addr] \in 0..CountMax
  <2>1. cur_request_addr \in Addrs
    BY BitmapAssumption DEF ControlOK, CoreTyped, Addrs
  <2> QED
    BY <1>1, <2>1
<1>3. BusTyped' /\ Paired' /\ Len(wrm_id_queue') <= IdDepth
  BY <1>1, <1>2, BusKept
<1>4. /\ InAw' = InAw + One(k.wa = Bitmap) - One(k.wd = Bitmap)
      /\ InTodo' = InTodo + One(k.wd = Bitmap) - One(Confirmed(k))
  BY <1>1, AwMoves, TodoMoves
<1>5. InAw \in Nat /\ InTodo \in Nat /\ InAw' \in Nat /\ InTodo' \in Nat
  <2>1. InAw \in Nat /\ InTodo \in Nat
    BY <1>1, NoneOwed
  <2>2. bus'.aw \in Seq(AwBursts) /\ bus'.todo \in Seq(TodoBursts)
    BY <1>3 DEF BusTyped
  <2>3. CountIn(bus'.aw, OursAw) \in Nat /\ CountIn(bus'.todo, OursTodo) \in Nat
    BY <2>2, CountType
  <2> QED
    BY <2>1, <2>3 DEF InAw, InTodo
<1>6. Confirmed(k) => bus.todo[1].data \in 0..CountMax
  <2>1. Confirmed(k) => bus.todo # <<>>
    BY OffersDo DEF Confirmed
  <2>2. bus.todo \in Seq(TodoBursts)
    BY <1>1 DEF BusTyped
  <2>3. bus.todo # <<>> => bus.todo[1] \in TodoBursts
    BY <2>2, EmptySeq, ElementOfSeq
  <2> QED
    BY <2>1, <2>3 DEF TodoBursts
<1>7. memory' = IF Confirmed(k)
                THEN [a \in Addrs |->
                       IF \E b \in bus.todo[1].strb : a = bus.todo[1].addr + b
                         THEN bus.todo[1].data ELSE memory[a]]
                ELSE memory
  BY <1>1 DEF busWrites, Confirmed
<1>8. ext' \in Nat /\ wrs_active' \in BOOLEAN
  <2>1. k.wd = Ext => ext > 0
    BY OffersDo
  <2>2. k.beats \in Nat
    <3>1. k.beats \in ExtBeats \cup {0}
      BY OffersDo
    <3>2. \A n \in ExtBeats : n \in Nat
      BY BusAssumption
    <3> QED
      BY <3>1, <3>2
  <2> QED
    BY <1>1, <2>1, <2>2 DEF hostWrites, One
<1> QED
  BY <1>1, <1>3, <1>4, <1>5, <1>6, <1>7, <1>8

\* What is on the bus when a read is taken, and when it is answered.
LEMMA ReadOutcome ==
  ASSUME ControlOK, NEW k \in BusOffers, busTakes(k)
  PROVE  /\ bus'.r = IF k.ra THEN <<memory[cur_request_addr]>> ELSE IF k.rd THEN <<>> ELSE bus.r
         /\ k.ra => ~k.rd /\ cur_update_state = "UpdateRead" /\ ~clearing /\ ~cur_request_raddr_set
<1>1. k.ra => cur_update_state = "UpdateRead" /\ ~clearing /\ ~cur_request_raddr_set
  BY OffersDo DEF update_read_addr
<1>2. /\ bus.r = IF cur_update_state = "UpdateRead" /\ cur_request_raddr_set
                 THEN <<memory[cur_request_addr]>> ELSE <<>>
      /\ k.rd => bus.r # <<>>
      /\ k.ra \in BOOLEAN /\ k.rd \in BOOLEAN
  BY OffersDo DEF ControlOK, UpdateOK
<1>3. bus'.r = IF k.rd THEN Tail(Read(k)) ELSE Read(k)
  BY BusParts
<1>4. CASE k.ra
  <2>1. bus.r = <<>> /\ ~k.rd
    BY <1>1, <1>2, <1>4
  <2>2. bus'.r = Append(<<>>, memory[cur_request_addr])
    BY <1>3, <1>4, <2>1 DEF Read
  <2> QED
    BY <1>1, <1>4, <2>1, <2>2
<1>5. CASE ~k.ra /\ k.rd
  <2>1. bus.r = <<memory[cur_request_addr]>>
    BY <1>2, <1>5
  <2>2. bus'.r = Tail(<<memory[cur_request_addr]>>)
    BY <1>3, <1>5, <2>1 DEF Read
  <2> QED
    BY <1>5, <2>2
<1>6. CASE ~k.ra /\ ~k.rd
  BY <1>3, <1>6 DEF Read
<1> QED
  BY <1>2, <1>4, <1>5, <1>6

NoTraffic(k) == k.wa # Bitmap /\ k.wd # Bitmap /\ ~Confirmed(k) /\ ~k.ra /\ ~k.rd

\* Between two clears nothing moves but what a clear begins with.
LEMMA Rests ==
  ASSUME ControlOK, NEW k \in BusOffers, NEW u \in Uses, MemoryCycle(k, u[1], u[2]),
         ~clearing, cur_update_state = "UpdateIdle", bitmapUpdateReqFifo = <<>>,
         write_bursts_pending_confirm = 0, u[1] = NoReq
  PROVE  LET begins == clearReq
             empty  == bitmapAddr_end <= Begin
         IN
         /\ NoTraffic(k)
         /\ initialized' = IF begins THEN empty ELSE initialized
         /\ clearing' = (begins /\ ~empty)
         /\ clearReq' = (u[2] # NoClear)
         /\ bitmap_size' = IF u[2] # NoClear THEN u[2] ELSE bitmap_size
         /\ bitmap_hash_indexmask' = IF begins THEN indexmask ELSE bitmap_hash_indexmask
         /\ clearAddr_next' = IF begins THEN Begin ELSE clearAddr_next
         /\ clear_beats_pending' = 0
         /\ write_bursts_pending_confirm' = 0
         /\ cur_update_state' = "UpdateIdle"
         /\ bitmapUpdateReqFifo' = <<>>
         /\ cur_request' = cur_request /\ cur_request_addr' = cur_request_addr
         /\ cur_request_readdata' = cur_request_readdata
         /\ cur_request_raddr_set' = cur_request_raddr_set
         /\ cur_request_waddr_set' = FALSE
         /\ InAw' = 0 /\ InTodo' = 0 /\ bus'.r = <<>>
<1> DEFINE i == calls(k, u[1], u[2])
<1>0. /\ CoreTyped /\ clear_beats_pending = 0 /\ ~cur_request_waddr_set
      /\ InAw = 0 /\ InTodo = 0 /\ bus.r = <<>>
      /\ None # Bitmap
  <2>1. InAw \in Nat /\ InTodo \in Nat
    BY NoneOwed DEF ControlOK
  <2>2. InAw + InTodo = 0
    BY DEF ControlOK, Counted
  <2> QED
    BY <2>1, <2>2 DEF ControlOK, Counted, UpdateOK, CoreTyped, None, Bitmap
<1>1. /\ i.req = NoReq /\ i.clear = u[2]
      /\ i.waddr = (k.wa = Bitmap) /\ i.wdata = (k.wd = Bitmap) /\ i.raddr = k.ra
      /\ i.wdone = Confirmed(k) /\ (i.rdata # NoReq) = k.rd
      /\ ~k.rd /\ ~Confirmed(k)
  <2>1. Todo = {}
    BY <1>0, NoneOwed DEF ControlOK
  <2> QED
    BY <2>1, CallsAre
<1>2. BitmapCycle(i)
  BY DEF MemoryCycle
<1> HIDE DEF i
<1>3. k.wa # Bitmap /\ ~k.ra
  BY OffersDo DEF clear_write_addr, update_write_addr, update_read_addr
<1>4. k.wd # Bitmap
  BY <1>1, <1>2 DEF BitmapCycle, clear_write_data, update_write_data
<1>5. k.ra \in BOOLEAN /\ k.rd \in BOOLEAN
  BY OffersDo
<1>6. /\ ~i.waddr /\ ~i.wdata /\ ~i.raddr /\ ~i.wdone /\ i.rdata = NoReq
      /\ i.waddr = FALSE /\ i.wdone = FALSE
  BY <1>1, <1>3, <1>4, <1>5
<1>7. initiate_clear <=> clearReq
  BY DEF initiate_clear, clear_detect_end
<1>8. /\ pending_confirm_1(i) = 0 /\ clear_beats_pending_1(i) = 0
      /\ cur_update_state_1(i) = "UpdateIdle" /\ ~handle_req(i)
  BY <1>0, <1>6 DEF pending_confirm_1, clear_beats_pending_1, cur_update_state_1, handle_req, One
<1>9. clearRules(i) /\ updateRules(i) /\ on_write_complete(i) /\ queueRules(i)
  BY <1>2 DEF BitmapCycle
<1>10. /\ initialized' = IF clearReq THEN bitmapAddr_end <= Begin ELSE initialized
       /\ clearing' = (clearReq /\ ~(bitmapAddr_end <= Begin))
       /\ clearReq' = (u[2] # NoClear)
       /\ bitmap_size' = IF u[2] # NoClear THEN u[2] ELSE bitmap_size
       /\ bitmap_hash_indexmask' = IF clearReq THEN indexmask ELSE bitmap_hash_indexmask
       /\ clear_beats_pending' = 0
  <2>1. ~clear_detect_end /\ initialized \in BOOLEAN /\ clearReq \in BOOLEAN
    BY <1>0 DEF clear_detect_end, CoreTyped
  <2>2. /\ initialized' = IF clearReq THEN bitmapAddr_end <= Begin ELSE initialized
        /\ clearing' = (clearReq /\ ~(bitmapAddr_end <= Begin))
    BY <1>7, <1>9, <2>1 DEF clearRules
  <2>3. /\ clearReq' = (u[2] # NoClear)
        /\ bitmap_size' = IF u[2] # NoClear THEN u[2] ELSE bitmap_size
        /\ bitmap_hash_indexmask' = IF clearReq THEN indexmask ELSE bitmap_hash_indexmask
    BY <1>1, <1>7, <1>9 DEF clearRules
  <2>4. clear_beats_pending' = 0 - 0
    BY <1>8, <1>9 DEF clearRules, One
  <2> QED
    BY <2>2, <2>3, <2>4
<1>11. clearAddr_next' = IF clearReq THEN Begin ELSE clearAddr_next
  <2>1. clearAddr_next' = IF clearReq THEN Begin ELSE clearAddr_next + 0
    BY <1>7, <1>9 DEF clearRules, clear_on_enq_waddr_req
  <2> QED
    BY <1>0, <2>1 DEF CoreTyped
<1>12. write_bursts_pending_confirm' = 0
  <2>1. write_bursts_pending_confirm' = (0 - 0) % (PendingMax + 1)
    BY <1>6, <1>8, <1>9 DEF on_write_complete, One
  <2> QED
    BY <2>1, BitmapAssumption
<1>13. /\ cur_update_state' = "UpdateIdle"
       /\ cur_request' = cur_request /\ cur_request_addr' = cur_request_addr
       /\ cur_request_readdata' = cur_request_readdata
       /\ cur_request_waddr_set' = FALSE
  BY <1>0, <1>6, <1>8, <1>9 DEF updateRules
<1>14. cur_request_raddr_set' = cur_request_raddr_set
  BY <1>0, <1>6, <1>9 DEF updateRules, update_on_enq_raddr_req, CoreTyped
<1>15. bitmapUpdateReqFifo' = <<>>
  BY <1>1, <1>8, <1>9 DEF queueRules
<1>16. InAw' = 0 /\ InTodo' = 0
  BY <1>0, <1>1, <1>3, <1>4, BusOutcome DEF One
<1>17. bus'.r = <<>>
  BY <1>0, <1>1, <1>3, <1>5, ReadOutcome DEF MemoryCycle
<1> QED
  BY <1>1, <1>3, <1>4, <1>10, <1>11, <1>12, <1>13, <1>14, <1>15, <1>16, <1>17 DEF NoTraffic

\* A counter of bursts that takes one up or one down does not wrap.
LEMMA PendingStep ==
  ASSUME ControlOK, NEW k \in BusOffers, NEW req, NEW clear, MemoryCycle(k, req, clear),
         k.wa = Bitmap => write_bursts_pending_confirm < PendingMax
  PROVE  /\ write_bursts_pending_confirm' =
              write_bursts_pending_confirm + One(k.wa = Bitmap) - One(Confirmed(k))
         /\ write_bursts_pending_confirm' \in 0..PendingMax
         /\ write_bursts_pending_confirm' = InAw' + InTodo'
<1> DEFINE i == calls(k, req, clear)
<1>1. i.waddr = (k.wa = Bitmap) /\ i.wdone = Confirmed(k)
  BY CallsAre
<1>2. on_write_complete(i)
  BY DEF MemoryCycle, BitmapCycle
<1> HIDE DEF i
<1>3. write_bursts_pending_confirm' =
        ((write_bursts_pending_confirm + One(k.wa = Bitmap)) - One(Confirmed(k))) % (PendingMax + 1)
  <2>1. One(i.waddr) = One(k.wa = Bitmap) /\ One(i.wdone) = One(Confirmed(k))
    BY <1>1 DEF One
  <2>2. write_bursts_pending_confirm' =
          ((write_bursts_pending_confirm + One(i.waddr)) - One(i.wdone)) % (PendingMax + 1)
    BY <1>2 DEF on_write_complete, pending_confirm_1
  <2> QED
    BY <2>1, <2>2
<1>4. /\ write_bursts_pending_confirm = InAw + InTodo
      /\ write_bursts_pending_confirm \in 0..PendingMax /\ PendingMax \in Nat
  BY BitmapAssumption DEF ControlOK, Counted, CoreTyped
<1>5. InAw' + InTodo' = write_bursts_pending_confirm + One(k.wa = Bitmap) - One(Confirmed(k))
  BY <1>4, BusOutcome DEF One
<1>6. InAw' + InTodo' \in 0..PendingMax
  <2>1. InAw' \in Nat /\ InTodo' \in Nat
    BY BusOutcome
  <2>3. write_bursts_pending_confirm + One(k.wa = Bitmap) <= PendingMax
    BY <1>4 DEF One
  <2>4. One(k.wa = Bitmap) \in {0, 1} /\ One(Confirmed(k)) \in {0, 1}
    BY DEF One
  <2> QED
    <3>1. \A a, b, p, m \in Int : a + (b - p) <= m /\ 0 <= a + (b - p) => a + (b - p) \in 0..m
      OBVIOUS
    <3>2. write_bursts_pending_confirm + (One(k.wa = Bitmap) - One(Confirmed(k))) <= PendingMax
      BY <1>4, <2>3, <2>4
    <3>3. \A a, b \in Nat : 0 <= a + b
      OBVIOUS
    <3>4. 0 <= InAw' + InTodo'
      BY <2>1, <3>3
    <3>5. 0 <= write_bursts_pending_confirm + (One(k.wa = Bitmap) - One(Confirmed(k)))
      BY <1>5, <3>4
    <3> QED
      BY <1>4, <1>5, <2>4, <3>1, <3>2, <3>5
<1> QED
  <2>1. One(k.wa = Bitmap) \in {0, 1} /\ One(Confirmed(k)) \in {0, 1}
    BY DEF One
  <2>2. write_bursts_pending_confirm' = (InAw' + InTodo') % (PendingMax + 1)
    <3>1. (write_bursts_pending_confirm + One(k.wa = Bitmap)) - One(Confirmed(k)) = InAw' + InTodo'
      BY <1>4, <1>5, <2>1
    <3> QED
      BY <1>3, <3>1
  <2>3. write_bursts_pending_confirm' = InAw' + InTodo'
    <3> DEFINE n == InAw' + InTodo'
    <3> HIDE DEF n
    <3>1. n \in 0..PendingMax /\ PendingMax \in Nat
      BY <1>4, <1>6 DEF n
    <3>2. n % (PendingMax + 1) = n
      BY <3>1
    <3> QED
      BY <2>2, <3>2 DEF n
  <2> QED
    BY <1>5, <1>6, <2>3

\* What is put into the queue of requests.
PutIn(q, req) == IF req # NoReq THEN Append(q, req) ELSE q

\* While the memory is cleared, words go out in order and requests wait.
LEMMA ClearsStep ==
  ASSUME ControlOK, NEW k \in BusOffers, NEW u \in Uses, MemoryCycle(k, u[1], u[2]), clearing
  PROVE  LET ends == clearAddr_next = bitmapAddr_end /\ clear_beats_pending = 0 IN
         /\ u[2] = NoClear /\ ~clearReq /\ ~k.ra /\ ~k.rd
         /\ k.wa = Bitmap => /\ clearAddr_next # bitmapAddr_end
                             /\ clear_beats_pending < PendingMax
                             /\ write_bursts_pending_confirm < PendingMax
         /\ k.wd = Bitmap => clear_beats_pending > 0 \/ k.wa = Bitmap
         /\ initialized' = ends /\ clearing' = ~ends /\ clearReq' = FALSE
         /\ bitmap_size' = bitmap_size /\ bitmap_hash_indexmask' = bitmap_hash_indexmask
         /\ clearAddr_next' = IF k.wa = Bitmap THEN clearAddr_next + WordBytes ELSE clearAddr_next
         /\ clear_beats_pending' = clear_beats_pending + One(k.wa = Bitmap) - One(k.wd = Bitmap)
         /\ cur_update_state' = "UpdateIdle"
         /\ bitmapUpdateReqFifo' = PutIn(bitmapUpdateReqFifo, u[1])
         /\ cur_request' = cur_request /\ cur_request_addr' = cur_request_addr
         /\ cur_request_readdata' = cur_request_readdata
         /\ cur_request_raddr_set' = cur_request_raddr_set
         /\ cur_request_waddr_set' = FALSE
         /\ bus'.r = <<>>
<1> DEFINE i == calls(k, u[1], u[2])
<1>0. /\ CoreTyped /\ ~cur_request_waddr_set /\ bus.r = <<>> /\ ~clearReq
      /\ cur_update_state = "UpdateIdle" /\ ~initialized
      /\ clear_beats_pending \in Nat /\ clearAddr_next \in Nat /\ WordBytes \in Nat
  BY BitmapAssumption DEF ControlOK, RestOK, ClearOK, UpdateOK, Resting, CoreTyped
<1>1. /\ i.req = u[1] /\ i.clear = u[2]
      /\ i.waddr = (k.wa = Bitmap) /\ i.wdata = (k.wd = Bitmap) /\ i.raddr = k.ra
      /\ (i.rdata # NoReq) = k.rd
      /\ ~k.rd /\ k.rd \in BOOLEAN
  BY <1>0, CallsAre, OffersDo
<1>2. BitmapCycle(i)
  BY DEF MemoryCycle
<1> HIDE DEF i
<1>3. u[2] = NoClear
  BY DEF Uses, Clears
<1>4. /\ ~k.ra
      /\ k.wa = Bitmap => clear_write_addr
  BY OffersDo DEF update_write_addr, update_read_addr
<1>5. k.wd = Bitmap => clear_write_data(i)
  BY <1>1, <1>2 DEF BitmapCycle, update_write_data
<1>6. /\ clear_beats_pending_1(i) = clear_beats_pending + One(k.wa = Bitmap)
      /\ One(clearing /\ i.wdata) = One(k.wd = Bitmap)
      /\ clearing /\ i.waddr <=> k.wa = Bitmap
  BY <1>1 DEF clear_beats_pending_1, One
<1>7. clearRules(i) /\ updateRules(i) /\ queueRules(i)
  BY <1>2 DEF BitmapCycle
<1>8. cur_update_state_1(i) = "UpdateIdle" /\ ~handle_req(i) /\ ~initiate_clear
  BY <1>0 DEF cur_update_state_1, handle_req, initiate_clear
<1>9. /\ initialized' = clear_detect_end /\ clearing' = ~clear_detect_end
  <2>1. clear_detect_end \in BOOLEAN
    BY DEF clear_detect_end
  <2> QED
    BY <1>0, <1>7, <1>8, <2>1 DEF clearRules
<1>10. /\ clearReq' = FALSE /\ bitmap_size' = bitmap_size
       /\ bitmap_hash_indexmask' = bitmap_hash_indexmask
  BY <1>0, <1>1, <1>3, <1>7, <1>8 DEF clearRules
<1>11. clear_beats_pending' = clear_beats_pending + One(k.wa = Bitmap) - One(k.wd = Bitmap)
  <2>1. clear_beats_pending' = clear_beats_pending_1(i) - One(clearing /\ i.wdata)
    BY <1>7 DEF clearRules
  <2>2. One(k.wa = Bitmap) \in {0, 1} /\ One(k.wd = Bitmap) \in {0, 1}
    BY DEF One
  <2> QED
    BY <1>0, <1>6, <2>1, <2>2
<1>12. clearAddr_next' = IF k.wa = Bitmap THEN clearAddr_next + WordBytes ELSE clearAddr_next
  <2>1. clearAddr_next' = clearAddr_next + (IF clearing /\ i.waddr THEN WordBytes ELSE 0)
    BY <1>7, <1>8 DEF clearRules, clear_on_enq_waddr_req
  <2> QED
    BY <1>0, <1>6, <2>1
<1>13. /\ cur_update_state' = "UpdateIdle"
       /\ cur_request' = cur_request /\ cur_request_addr' = cur_request_addr
       /\ cur_request_readdata' = cur_request_readdata
       /\ cur_request_waddr_set' = FALSE
  BY <1>0, <1>1, <1>7, <1>8 DEF updateRules
<1>14. cur_request_raddr_set' = cur_request_raddr_set
  BY <1>0, <1>1, <1>4, <1>7 DEF updateRules, update_on_enq_raddr_req, CoreTyped
<1>15. bitmapUpdateReqFifo' = PutIn(bitmapUpdateReqFifo, u[1])
  BY <1>1, <1>7, <1>8 DEF queueRules, PutIn
<1>16. bus'.r = <<>>
  BY <1>0, <1>1, <1>4, ReadOutcome, OffersDo DEF MemoryCycle
<1>17. k.wd = Bitmap => clear_beats_pending > 0 \/ k.wa = Bitmap
  BY <1>0, <1>5, <1>6 DEF clear_write_data, One
<1> QED
  BY <1>0, <1>1, <1>3, <1>4, <1>9, <1>10, <1>11, <1>12, <1>13, <1>14, <1>15, <1>16, <1>17
  DEF clear_write_addr, clear_detect_end

\* Counting leaves what a clear set up.
LEMMA UpdatesFrame ==
  ASSUME ControlOK, NEW k \in BusOffers, NEW u \in Uses, MemoryCycle(k, u[1], u[2]),
         ~clearing, ~Resting, u[2] = NoClear
  PROVE  /\ initialized' = TRUE /\ clearing' = FALSE /\ clearReq' = FALSE /\ initialized
         /\ bitmap_size' = bitmap_size /\ bitmap_hash_indexmask' = bitmap_hash_indexmask
         /\ clearAddr_next' = clearAddr_next /\ clear_beats_pending' = 0
         /\ k.wa = Bitmap => cur_update_state = "UpdateWrite" /\ ~cur_request_waddr_set
         /\ k.wd = Bitmap => /\ cur_update_state = "UpdateWrite"
                             /\ cur_request_waddr_set \/ k.wa = Bitmap
         /\ k.ra => cur_update_state = "UpdateRead"
         /\ k.rd => cur_update_state = "UpdateRead" /\ cur_request_raddr_set
         /\ Confirmed(k) => cur_update_state = "UpdateIdle"
<1> DEFINE i == calls(k, u[1], u[2])
<1>0. /\ CoreTyped /\ ~clearReq /\ initialized /\ clear_beats_pending = 0
      /\ clearAddr_next \in Nat
  BY DEF ControlOK, Resting, Counted, CoreTyped
<1>1. /\ i.clear = NoClear
      /\ i.waddr = (k.wa = Bitmap) /\ i.wdata = (k.wd = Bitmap)
  BY CallsAre
<1>2. BitmapCycle(i)
  BY DEF MemoryCycle
<1> HIDE DEF i
<1>3. ~initiate_clear /\ ~clear_detect_end /\ clear_beats_pending_1(i) = 0
  BY <1>0 DEF initiate_clear, clear_detect_end, clear_beats_pending_1, One
<1>4. clearRules(i)
  BY <1>2 DEF BitmapCycle
<1>5. /\ initialized' = TRUE /\ clearing' = FALSE /\ clearReq' = FALSE
      /\ bitmap_size' = bitmap_size /\ bitmap_hash_indexmask' = bitmap_hash_indexmask
  BY <1>0, <1>1, <1>3, <1>4 DEF clearRules
<1>6. clear_beats_pending' = 0 - 0
  BY <1>3, <1>4 DEF clearRules, One
<1>7. clearAddr_next' = clearAddr_next + 0
  BY <1>3, <1>4 DEF clearRules, clear_on_enq_waddr_req
<1>8. k.wa = Bitmap => cur_update_state = "UpdateWrite" /\ ~cur_request_waddr_set
  BY OffersDo DEF clear_write_addr, update_write_addr
<1>9. k.wd = Bitmap => /\ cur_update_state = "UpdateWrite"
                       /\ cur_request_waddr_set \/ k.wa = Bitmap
  BY <1>1, <1>2 DEF BitmapCycle, clear_write_data, update_write_data
<1>10. k.ra => cur_update_state = "UpdateRead"
  BY OffersDo DEF update_read_addr
<1>11. k.rd => cur_update_state = "UpdateRead" /\ cur_request_raddr_set
  BY OffersDo DEF ControlOK, UpdateOK
<1>12. Confirmed(k) => cur_update_state = "UpdateIdle"
  <2>1. Confirmed(k) => InTodo # 0
    BY CallsAre, NoneOwed DEF ControlOK
  <2>2. InTodo \in Nat /\ InAw \in Nat /\ write_bursts_pending_confirm = InAw + InTodo
    BY NoneOwed DEF ControlOK, Counted
  <2> QED
    BY <1>0, <2>1, <2>2 DEF ControlOK, UpdateOK, CoreTyped, UpdateStates
<1> QED
  BY <1>0, <1>5, <1>6, <1>7, <1>8, <1>9, <1>10, <1>11, <1>12

\* A queued request is begun in this cycle.
Starts(k, u) == handle_req(calls(k, u[1], u[2]))
Requested(k, u) == IF Starts(k, u) THEN Tail(bitmapUpdateReqFifo) ELSE bitmapUpdateReqFifo

\* A request is begun once the last is confirmed, and only then.
LEMMA UpdatesStart ==
  ASSUME ControlOK, NEW k \in BusOffers, NEW u \in Uses, MemoryCycle(k, u[1], u[2]),
         ~clearing, ~Resting, u[2] = NoClear
  PROVE  /\ Starts(k, u) \in BOOLEAN
         /\ Starts(k, u) => /\ bitmapUpdateReqFifo # <<>>
                            /\ write_bursts_pending_confirm' = 0
                            /\ cur_update_state # "UpdateCalcAddr"
                            /\ cur_update_state # "UpdateRead"
                            /\ cur_update_state # "UpdateWrite"
         /\ cur_request' = IF Starts(k, u) THEN Head(bitmapUpdateReqFifo) ELSE cur_request
         /\ bitmapUpdateReqFifo' = PutIn(Requested(k, u), u[1])
         /\ write_bursts_pending_confirm' =
              write_bursts_pending_confirm + One(k.wa = Bitmap) - One(Confirmed(k))
         /\ write_bursts_pending_confirm' \in 0..PendingMax
         /\ write_bursts_pending_confirm' = InAw' + InTodo'
<1> DEFINE i == calls(k, u[1], u[2])
<1>0. /\ initialized /\ PendingMax \in Nat \ {0}
      /\ write_bursts_pending_confirm \in Nat
      /\ InAw \in Nat /\ InTodo \in Nat
      /\ write_bursts_pending_confirm = InAw + InTodo
      /\ InAw = One(cur_request_waddr_set)
  <2>1. initialized
    BY UpdatesFrame
  <2>2. InAw \in Nat /\ InTodo \in Nat
    BY NoneOwed DEF ControlOK
  <2>3. /\ write_bursts_pending_confirm = InAw + InTodo
        /\ InAw = One(cur_request_waddr_set)
    BY DEF ControlOK, Counted
  <2> QED
    BY <2>1, <2>2, <2>3, BitmapAssumption
<1>1. /\ i.req = u[1]
      /\ i.waddr = (k.wa = Bitmap) /\ i.wdata = (k.wd = Bitmap)
      /\ i.wdone = Confirmed(k) /\ (i.rdata # NoReq) = k.rd
  BY CallsAre
<1>2. BitmapCycle(i)
  BY DEF MemoryCycle
<1>3. Starts(k, u) = handle_req(i)
  BY DEF Starts
<1> HIDE DEF i
<1>4. /\ k.wa = Bitmap => cur_update_state = "UpdateWrite" /\ ~cur_request_waddr_set
      /\ k.wd = Bitmap => /\ cur_update_state = "UpdateWrite"
                          /\ cur_request_waddr_set \/ k.wa = Bitmap
      /\ Confirmed(k) => cur_update_state = "UpdateIdle"
  BY UpdatesFrame
<1>5. k.wa = Bitmap => write_bursts_pending_confirm < PendingMax
  <2>1. ASSUME k.wa = Bitmap PROVE InAw = 0 /\ InTodo = 0
    BY <1>0, <1>4, <2>1 DEF ControlOK, UpdateOK, One
  <2> QED
    BY <1>0, <2>1
<1>6. /\ write_bursts_pending_confirm' =
           write_bursts_pending_confirm + One(k.wa = Bitmap) - One(Confirmed(k))
      /\ write_bursts_pending_confirm' \in 0..PendingMax
      /\ write_bursts_pending_confirm' = InAw' + InTodo'
  BY <1>5, PendingStep
<1>7. /\ One(i.waddr) = One(k.wa = Bitmap) /\ One(i.wdone) = One(Confirmed(k))
      /\ One(k.wa = Bitmap) \in {0, 1} /\ One(Confirmed(k)) \in {0, 1}
  BY <1>1 DEF One
<1>8. handle_req(i) => /\ bitmapUpdateReqFifo # <<>>
                       /\ cur_update_state_1(i) = "UpdateIdle"
                       /\ write_bursts_pending_confirm + One(k.wa = Bitmap) = One(Confirmed(k))
  <2>1. handle_req(i) => pending_confirm_1(i) = One(i.wdone)
    BY DEF handle_req
  <2>2. pending_confirm_1(i) = write_bursts_pending_confirm + One(i.waddr)
    BY DEF pending_confirm_1
  <2> QED
    BY <1>7, <2>1, <2>2 DEF handle_req
<1>9. handle_req(i) => write_bursts_pending_confirm' = 0
  BY <1>0, <1>6, <1>7, <1>8
<1>10. handle_req(i) => /\ cur_update_state # "UpdateCalcAddr"
                        /\ cur_update_state # "UpdateRead"
  <2>1. cur_update_state_1(i) = "UpdateIdle" => /\ cur_update_state # "UpdateCalcAddr"
                                                /\ cur_update_state # "UpdateRead"
    BY DEF cur_update_state_1
  <2> QED
    BY <1>8, <2>1
<1>11. ASSUME handle_req(i), cur_update_state = "UpdateWrite" PROVE FALSE
  <2>1. cur_update_state_1(i) = IF i.wdata THEN "UpdateIdle" ELSE "UpdateWrite"
    BY <1>11 DEF cur_update_state_1
  <2>2. k.wd = Bitmap
    BY <1>1, <1>8, <1>11, <2>1
  <2>3. ~Confirmed(k)
    BY <1>4, <1>11
  <2>4. write_bursts_pending_confirm = 0 /\ k.wa # Bitmap
    BY <1>0, <1>8, <1>11, <2>3 DEF One
  <2>5. cur_request_waddr_set
    BY <1>4, <2>2, <2>4
  <2> QED
    BY <1>0, <2>4, <2>5 DEF One
<1>12. updateRules(i) /\ queueRules(i)
  BY <1>2 DEF BitmapCycle
<1>13. cur_request' = IF handle_req(i) THEN Head(bitmapUpdateReqFifo) ELSE cur_request
  BY <1>12 DEF updateRules
<1>14. bitmapUpdateReqFifo' = PutIn(Requested(k, u), u[1])
  BY <1>1, <1>3, <1>12 DEF queueRules, PutIn, Requested
<1>15. handle_req(i) \in BOOLEAN
  BY DEF handle_req
<1> QED
  BY <1>3, <1>6, <1>8, <1>9, <1>10, <1>11, <1>13, <1>14, <1>15

\* While it waits for a request, the core only has its last write confirmed.
LEMMA IdleStep ==
  ASSUME ControlOK, NEW k \in BusOffers, NEW u \in Uses, MemoryCycle(k, u[1], u[2]),
         ~clearing, ~Resting, u[2] = NoClear, cur_update_state = "UpdateIdle"
  PROVE  /\ k.wa # Bitmap /\ k.wd # Bitmap /\ ~k.ra /\ ~k.rd
         /\ cur_update_state' = IF Starts(k, u) THEN "UpdateCalcAddr" ELSE "UpdateIdle"
         /\ cur_request_addr' = cur_request_addr
         /\ cur_request_readdata' = cur_request_readdata
         /\ cur_request_raddr_set' = cur_request_raddr_set
         /\ cur_request_waddr_set' = FALSE
         /\ InAw' = 0 /\ bus'.r = <<>>
<1> DEFINE i == calls(k, u[1], u[2])
<1>1. /\ i.waddr = (k.wa = Bitmap) /\ i.wdata = (k.wd = Bitmap) /\ i.raddr = k.ra
      /\ (i.rdata # NoReq) = k.rd
  BY CallsAre
<1>2. BitmapCycle(i)
  BY DEF MemoryCycle
<1>3. Starts(k, u) = handle_req(i)
  BY DEF Starts
<1> HIDE DEF i
<1>4. k.wa # Bitmap /\ k.wd # Bitmap /\ ~k.ra /\ ~k.rd
  BY UpdatesFrame
<1>5. /\ CoreTyped /\ ~cur_request_waddr_set /\ bus.r = <<>>
      /\ InAw = 0
  BY DEF ControlOK, UpdateOK, Counted, One
<1>6. updateRules(i)
  BY <1>2 DEF BitmapCycle
<1>7. cur_update_state_1(i) = "UpdateIdle"
  BY DEF cur_update_state_1
<1>8. /\ cur_update_state' = IF Starts(k, u) THEN "UpdateCalcAddr" ELSE "UpdateIdle"
      /\ cur_request_addr' = cur_request_addr
  BY <1>3, <1>6, <1>7 DEF updateRules
<1>9. /\ cur_request_readdata' = cur_request_readdata
      /\ cur_request_waddr_set' = FALSE
  BY <1>1, <1>4, <1>5, <1>6 DEF updateRules
<1>10. cur_request_raddr_set' = cur_request_raddr_set
  BY <1>1, <1>4, <1>5, <1>6 DEF updateRules, update_on_enq_raddr_req, CoreTyped
<1>11. InAw' = 0
  BY <1>4, <1>5, BusOutcome DEF One
<1>12. bus'.r = <<>>
  BY <1>4, <1>5, ReadOutcome, OffersDo DEF MemoryCycle
<1> QED
  BY <1>4, <1>8, <1>9, <1>10, <1>11, <1>12

\* The address is worked out with nothing on the bus.
LEMMA CalcStep ==
  ASSUME ControlOK, NEW k \in BusOffers, NEW u \in Uses, MemoryCycle(k, u[1], u[2]),
         ~clearing, ~Resting, u[2] = NoClear, cur_update_state = "UpdateCalcAddr"
  PROVE  /\ NoTraffic(k) /\ ~Starts(k, u)
         /\ cur_update_state' = "UpdateRead"
         /\ cur_request_addr' = entry(cur_request)
         /\ cur_request_readdata' = cur_request_readdata
         /\ cur_request_raddr_set' = FALSE
         /\ cur_request_waddr_set' = FALSE
         /\ write_bursts_pending_confirm' = 0
         /\ InAw' = 0 /\ bus'.r = <<>>
<1> DEFINE i == calls(k, u[1], u[2])
<1>1. /\ i.waddr = (k.wa = Bitmap) /\ i.wdata = (k.wd = Bitmap) /\ i.raddr = k.ra
      /\ (i.rdata # NoReq) = k.rd
  BY CallsAre
<1>2. BitmapCycle(i)
  BY DEF MemoryCycle
<1>3. Starts(k, u) = handle_req(i)
  BY DEF Starts
<1> HIDE DEF i
<1>4. k.wa # Bitmap /\ k.wd # Bitmap /\ ~k.ra /\ ~k.rd /\ ~Confirmed(k) /\ ~Starts(k, u)
  BY UpdatesFrame, UpdatesStart
<1>5. /\ CoreTyped /\ ~cur_request_waddr_set /\ bus.r = <<>>
      /\ InAw = 0 /\ write_bursts_pending_confirm = 0
      /\ bitmap_hash_indexmask = indexmask
  BY DEF ControlOK, UpdateOK, Counted, One
<1>6. updateRules(i)
  BY <1>2 DEF BitmapCycle
<1>7. cur_update_state_1(i) = "UpdateRead"
  BY DEF cur_update_state_1
<1>8. /\ cur_update_state' = "UpdateRead"
      /\ cur_request_addr' = Begin + (cur_request % bitmap_hash_indexmask)
      /\ cur_request_waddr_set' = FALSE
  BY <1>3, <1>4, <1>6, <1>7 DEF updateRules
<1>9. cur_request_readdata' = cur_request_readdata
  BY <1>1, <1>4, <1>6 DEF updateRules
<1>10. cur_request_raddr_set' = FALSE
  BY <1>6 DEF updateRules, update_on_enq_raddr_req
<1>11. InAw' = 0
  BY <1>4, <1>5, BusOutcome DEF One
<1>12. bus'.r = <<>>
  BY <1>4, <1>5, ReadOutcome, OffersDo DEF MemoryCycle
<1>13. cur_request_addr' = entry(cur_request)
  <2>1. cur_request \in Nat
    BY <1>5, BitmapAssumption DEF CoreTyped
  <2> QED
    BY <1>5, <1>8, <2>1, EntryInMemory DEF CoreTyped
<1>14. write_bursts_pending_confirm' = 0
  BY <1>4, <1>5, UpdatesStart DEF One
<1> QED
  BY <1>4, <1>8, <1>9, <1>10, <1>11, <1>12, <1>13, <1>14 DEF NoTraffic

\* The entry is read with no write on the bus.
LEMMA ReadStep ==
  ASSUME ControlOK, NEW k \in BusOffers, NEW u \in Uses, MemoryCycle(k, u[1], u[2]),
         ~clearing, ~Resting, u[2] = NoClear, cur_update_state = "UpdateRead"
  PROVE  /\ k.wa # Bitmap /\ k.wd # Bitmap /\ ~Confirmed(k) /\ ~Starts(k, u)
         /\ cur_update_state' = IF k.rd THEN "UpdateWrite" ELSE "UpdateRead"
         /\ cur_request_addr' = cur_request_addr
         /\ cur_request_readdata' = IF k.rd THEN memory[cur_request_addr]
                                    ELSE cur_request_readdata
         /\ cur_request_raddr_set' = (cur_request_raddr_set \/ k.ra)
         /\ cur_request_waddr_set' = FALSE
         /\ write_bursts_pending_confirm' = 0
         /\ InAw' = 0
         /\ k.rd => ~k.ra /\ cur_request_raddr_set
         /\ bus'.r = IF k.ra THEN <<memory[cur_request_addr]>>
                     ELSE IF k.rd THEN <<>> ELSE bus.r
<1> DEFINE i == calls(k, u[1], u[2])
<1>1. /\ i.waddr = (k.wa = Bitmap) /\ i.wdata = (k.wd = Bitmap) /\ i.raddr = k.ra
      /\ (i.rdata # NoReq) = k.rd
      /\ k.rd => i.rdata = memory[cur_request_addr]
      /\ k.rd \in BOOLEAN /\ k.ra \in BOOLEAN
  BY CallsAre, OffersDo
<1>2. BitmapCycle(i)
  BY DEF MemoryCycle
<1>3. Starts(k, u) = handle_req(i)
  BY DEF Starts
<1> HIDE DEF i
<1>4. /\ k.wa # Bitmap /\ k.wd # Bitmap /\ ~Confirmed(k) /\ ~Starts(k, u)
      /\ k.rd => cur_request_raddr_set
  BY UpdatesFrame, UpdatesStart
<1>5. /\ CoreTyped /\ ~cur_request_waddr_set
      /\ InAw = 0 /\ write_bursts_pending_confirm = 0
  BY DEF ControlOK, UpdateOK, Counted, One
<1>6. updateRules(i)
  BY <1>2 DEF BitmapCycle
<1>7. cur_update_state_1(i) = IF k.rd THEN "UpdateWrite" ELSE "UpdateRead"
  BY <1>1 DEF cur_update_state_1
<1>8. /\ cur_update_state' = IF k.rd THEN "UpdateWrite" ELSE "UpdateRead"
      /\ cur_request_addr' = cur_request_addr
  BY <1>3, <1>4, <1>6, <1>7 DEF updateRules
<1>9. cur_request_waddr_set' = FALSE
  BY <1>1, <1>4, <1>5, <1>6 DEF updateRules
<1>10. cur_request_readdata' = IF k.rd THEN memory[cur_request_addr] ELSE cur_request_readdata
  BY <1>1, <1>6 DEF updateRules
<1>11. cur_request_raddr_set' = (cur_request_raddr_set \/ k.ra)
  BY <1>1, <1>5, <1>6 DEF updateRules, update_on_enq_raddr_req
<1>12. InAw' = 0
  BY <1>4, <1>5, BusOutcome DEF One
<1>13. /\ bus'.r = IF k.ra THEN <<memory[cur_request_addr]>> ELSE IF k.rd THEN <<>> ELSE bus.r
       /\ k.rd => ~k.ra
  BY ReadOutcome DEF MemoryCycle
<1>14. write_bursts_pending_confirm' = 0
  BY <1>4, <1>5, UpdatesStart DEF One
<1> QED
  BY <1>4, <1>8, <1>9, <1>10, <1>11, <1>12, <1>13, <1>14

\* The entry is written once, address and data in either order or together.
LEMMA WriteStep ==
  ASSUME ControlOK, NEW k \in BusOffers, NEW u \in Uses, MemoryCycle(k, u[1], u[2]),
         ~clearing, ~Resting, u[2] = NoClear, cur_update_state = "UpdateWrite"
  PROVE  /\ ~k.ra /\ ~k.rd /\ ~Confirmed(k) /\ ~Starts(k, u)
         /\ k.wa = Bitmap => ~cur_request_waddr_set
         /\ k.wd = Bitmap => cur_request_waddr_set \/ k.wa = Bitmap
         /\ cur_update_state' = IF k.wd = Bitmap THEN "UpdateIdle" ELSE "UpdateWrite"
         /\ cur_request_addr' = cur_request_addr
         /\ cur_request_readdata' = cur_request_readdata
         /\ cur_request_raddr_set' = cur_request_raddr_set
         /\ cur_request_waddr_set' = (k.wd # Bitmap /\ (cur_request_waddr_set \/ k.wa = Bitmap))
         /\ InAw' = One(cur_request_waddr_set')
         /\ InTodo' = One(k.wd = Bitmap) /\ InTodo = 0
         /\ bus'.r = <<>>
<1> DEFINE i == calls(k, u[1], u[2])
<1>1. /\ i.waddr = (k.wa = Bitmap) /\ i.wdata = (k.wd = Bitmap) /\ i.raddr = k.ra
      /\ (i.rdata # NoReq) = k.rd
  BY CallsAre
<1>2. BitmapCycle(i)
  BY DEF MemoryCycle
<1>3. Starts(k, u) = handle_req(i)
  BY DEF Starts
<1> HIDE DEF i
<1>4. /\ ~k.ra /\ ~k.rd /\ ~Confirmed(k) /\ ~Starts(k, u)
      /\ k.wa = Bitmap => ~cur_request_waddr_set
      /\ k.wd = Bitmap => cur_request_waddr_set \/ k.wa = Bitmap
  BY UpdatesFrame, UpdatesStart
<1>5. /\ CoreTyped /\ bus.r = <<>>
      /\ InAw = One(cur_request_waddr_set) /\ InTodo = 0
  BY DEF ControlOK, UpdateOK, Counted
<1>6. updateRules(i)
  BY <1>2 DEF BitmapCycle
<1>7. cur_update_state_1(i) = IF k.wd = Bitmap THEN "UpdateIdle" ELSE "UpdateWrite"
  BY <1>1 DEF cur_update_state_1
<1>8. /\ cur_update_state' = IF k.wd = Bitmap THEN "UpdateIdle" ELSE "UpdateWrite"
      /\ cur_request_addr' = cur_request_addr
  BY <1>3, <1>4, <1>6, <1>7 DEF updateRules
<1>9. cur_request_waddr_set' = (k.wd # Bitmap /\ (cur_request_waddr_set \/ k.wa = Bitmap))
  BY <1>1, <1>6 DEF updateRules
<1>10. cur_request_readdata' = cur_request_readdata
  BY <1>1, <1>4, <1>6 DEF updateRules
<1>11. cur_request_raddr_set' = cur_request_raddr_set
  BY <1>1, <1>4, <1>5, <1>6 DEF updateRules, update_on_enq_raddr_req, CoreTyped
<1>12. InAw' = One(cur_request_waddr_set')
  <2>1. /\ InAw' = InAw + One(k.wa = Bitmap) - One(k.wd = Bitmap)
    BY BusOutcome
  <2>2. /\ One(k.wa = Bitmap) = IF k.wa = Bitmap THEN 1 ELSE 0
        /\ One(k.wd = Bitmap) = IF k.wd = Bitmap THEN 1 ELSE 0
        /\ InAw = IF cur_request_waddr_set THEN 1 ELSE 0
    BY <1>5 DEF One
  <2>3. InAw' = IF k.wd # Bitmap /\ (cur_request_waddr_set \/ k.wa = Bitmap) THEN 1 ELSE 0
    BY <1>4, <2>1, <2>2
  <2> QED
    BY <1>9, <2>3 DEF One
<1>13. InTodo' = One(k.wd = Bitmap)
  <2>1. InTodo' = InTodo + One(k.wd = Bitmap) - One(Confirmed(k))
    BY BusOutcome
  <2> QED
    BY <1>4, <1>5, <2>1 DEF One
<1>14. bus'.r = <<>>
  BY <1>4, <1>5, ReadOutcome, OffersDo DEF MemoryCycle
<1> QED
  BY <1>4, <1>5, <1>8, <1>9, <1>10, <1>11, <1>12, <1>13, <1>14

\* When the core and the host put hashes and ask for a clear.
LEMMA UsesAre ==
  ASSUME NEW u \in Uses
  PROVE  /\ u[1] \in Hashes \cup {NoReq} /\ u[2] \in Sizes \cup {NoClear}
         /\ u[1] # NoReq => (initialized \/ clearing) /\ ~clearReq /\ canPutReq
         /\ u[2] # NoClear => /\ ~clearReq /\ ~clearing /\ u[1] = NoReq
                              /\ initialized => isFlushed
BY DEF Uses, Requests, Clears

\* Queued hashes are hashes, and no more than fit.
LEMMA QueueKept ==
  ASSUME CoreTyped, NEW u \in Uses, NEW rest,
         rest = bitmapUpdateReqFifo \/ (bitmapUpdateReqFifo # <<>> /\ rest = Tail(bitmapUpdateReqFifo))
  PROVE  PutIn(rest, u[1]) \in Seq(Hashes) /\ Len(PutIn(rest, u[1])) <= FifoDepth
<1>1. /\ bitmapUpdateReqFifo \in Seq(Hashes) /\ Len(bitmapUpdateReqFifo) <= FifoDepth
      /\ Len(bitmapUpdateReqFifo) \in Nat /\ FifoDepth \in Nat
  BY BitmapAssumption, LenProperties DEF CoreTyped
<1>2. rest \in Seq(Hashes) /\ Len(rest) \in Nat /\ Len(rest) <= Len(bitmapUpdateReqFifo)
  BY <1>1, HeadTailProperties, EmptySeq, LenProperties
<1>3. CASE u[1] = NoReq
  BY <1>1, <1>2, <1>3 DEF PutIn
<1>4. CASE u[1] # NoReq
  <2>1. u[1] \in Hashes /\ Len(bitmapUpdateReqFifo) < FifoDepth
    BY <1>4, UsesAre DEF canPutReq
  <2>2. PutIn(rest, u[1]) = Append(rest, u[1])
    BY <1>4 DEF PutIn
  <2>3. Append(rest, u[1]) \in Seq(Hashes) /\ Len(Append(rest, u[1])) = Len(rest) + 1
    BY <1>2, <2>1, AppendProperties
  <2> QED
    BY <1>1, <1>2, <2>1, <2>2, <2>3
<1> QED
  BY <1>3, <1>4

\* A hash put is a hit on its entry, and a new clear forgets them all.
LEMMA HitsStep ==
  ASSUME CoreTyped, MemoryTyped, NEW u \in Uses, countHits(u[1], u[2])
  PROVE  /\ hits' \in [Addrs -> 0..CountMax]
         /\ u[2] # NoClear => \A a \in Addrs : hits'[a] = 0
         /\ u[2] = NoClear /\ u[1] = NoReq => hits' = hits
         /\ u[2] = NoClear => \A a \in Addrs :
              hits'[a] = IF u[1] # NoReq /\ a = entry(u[1]) /\ hits[a] # CountMax
                         THEN hits[a] + 1 ELSE hits[a]
<1>1. hits \in [Addrs -> 0..CountMax] /\ CountMax \in Nat
  BY BitmapAssumption DEF MemoryTyped
<1>2. CASE u[2] # NoClear
  <2>1. hits' = [a \in Addrs |-> 0]
    BY <1>2 DEF countHits
  <2> QED
    BY <1>1, <1>2, <2>1
<1>3. CASE u[2] = NoClear /\ u[1] = NoReq
  BY <1>1, <1>3 DEF countHits
<1>4. CASE u[2] = NoClear /\ u[1] # NoReq
  <2>1. u[1] \in Nat
    BY <1>4, UsesAre, BitmapAssumption
  <2> DEFINE e == entry(u[1])
  <2>2. e \in Addrs
    <3>1. e \in Begin..(MemSize - 1)
      BY <2>1, EntryInMemory DEF CoreTyped
    <3> QED
      BY <3>1, BitmapAssumption DEF Addrs
  <2>3. hits' = IF hits[e] = CountMax THEN hits ELSE [hits EXCEPT ![e] = hits[e] + 1]
    BY <1>4 DEF countHits
  <2> HIDE DEF e
  <2>4. hits[e] \in 0..CountMax
    BY <1>1, <2>2
  <2>5. CASE hits[e] = CountMax
    BY <1>1, <1>4, <2>2, <2>3, <2>5 DEF e
  <2>6. CASE hits[e] # CountMax
    <3>1. hits' = [hits EXCEPT ![e] = hits[e] + 1] /\ hits[e] + 1 \in 0..CountMax
      BY <1>1, <2>3, <2>4, <2>6
    <3>2. hits' \in [Addrs -> 0..CountMax]
      BY <1>1, <3>1
    <3>3. \A a \in Addrs : hits'[a] = IF a = e THEN hits[a] + 1 ELSE hits[a]
      BY <1>1, <3>1
    <3> QED
      BY <1>4, <2>6, <3>2, <3>3 DEF e
  <2> QED
    BY <2>5, <2>6
<1> QED
  BY <1>2, <1>3, <1>4

\* What keeps its type in any cycle.
LEMMA MemoryKept ==
  ASSUME ControlOK, NEW k \in BusOffers, NEW u \in Uses, MemoryCycle(k, u[1], u[2])
  PROVE  MemoryTyped' /\ BusTyped' /\ Paired' /\ stall' \in BOOLEAN
<1>1. hits' \in [Addrs -> 0..CountMax]
  BY HitsStep DEF ControlOK, MemoryCycle
<1>2. stall' \in BOOLEAN
  <2>1. BitmapCycle(calls(k, u[1], u[2]))
    BY DEF MemoryCycle
  <2>2. update_stall
    BY <2>1 DEF BitmapCycle
  <2> QED
    BY <2>2 DEF update_stall
<1> QED
  BY <1>1, <1>2, BusOutcome DEF MemoryTyped

\* The bitmap ends in the memory, a whole number of words from where it begins.
LEMMA SizeFits ==
  ASSUME NEW s \in Sizes \cup {0}
  PROVE  /\ s \in Nat /\ Begin + s <= MemSize
         /\ \E n \in Nat : Begin + s = Begin + n * WordBytes
<1>1. /\ s \in Nat /\ Begin \in Nat /\ MemSize \in Nat /\ Begin < MemSize
      /\ WordBytes \in Nat \ {0} /\ Begin + s <= MemSize /\ s % WordBytes = 0
  BY BitmapAssumption
<1>2. s = (s \div WordBytes) * WordBytes + (s % WordBytes) /\ s \div WordBytes \in Nat
  BY <1>1
<1>3. Begin + s = Begin + (s \div WordBytes) * WordBytes
  BY <1>1, <1>2
<1> QED
  BY <1>1, <1>2, <1>3

\* When a clear is asked for, and until it begins, nothing is under way.
LEMMA RestsWhen ==
  ASSUME ControlOK, NEW u \in Uses, Resting \/ u[2] # NoClear
  PROVE  /\ ~clearing /\ cur_update_state = "UpdateIdle" /\ bitmapUpdateReqFifo = <<>>
         /\ write_bursts_pending_confirm = 0 /\ u[1] = NoReq
         /\ u[2] # NoClear => ~clearReq
<1>1. u[2] # NoClear => ~clearReq
  BY UsesAre
<1>2. CASE Resting
  BY <1>1, <1>2, UsesAre DEF ControlOK, RestOK, Resting
<1>3. CASE ~Resting /\ u[2] # NoClear
  <2>1. initialized /\ isFlushed /\ ~clearing /\ u[1] = NoReq
    BY <1>3, UsesAre DEF Resting
  <2> QED
    BY <1>1, <2>1 DEF isFlushed
<1> QED
  BY <1>2, <1>3

\* The control stays in order when a clear is asked for and when it begins.
LEMMA RestingKept ==
  ASSUME ControlOK, NEW k \in BusOffers, NEW u \in Uses, MemoryCycle(k, u[1], u[2]),
         Resting \/ u[2] # NoClear
  PROVE  ControlOK'
<1>1. /\ ~clearing /\ cur_update_state = "UpdateIdle" /\ bitmapUpdateReqFifo = <<>>
      /\ write_bursts_pending_confirm = 0 /\ u[1] = NoReq
      /\ u[2] # NoClear => ~clearReq
  BY RestsWhen
<1> DEFINE empty == bitmapAddr_end <= Begin
<1>2. /\ NoTraffic(k)
      /\ initialized' = IF clearReq THEN empty ELSE initialized
      /\ clearing' = (clearReq /\ ~empty)
      /\ clearReq' = (u[2] # NoClear)
      /\ bitmap_size' = IF u[2] # NoClear THEN u[2] ELSE bitmap_size
      /\ bitmap_hash_indexmask' = IF clearReq THEN indexmask ELSE bitmap_hash_indexmask
      /\ clearAddr_next' = IF clearReq THEN Begin ELSE clearAddr_next
      /\ clear_beats_pending' = 0
      /\ write_bursts_pending_confirm' = 0
      /\ cur_update_state' = "UpdateIdle"
      /\ bitmapUpdateReqFifo' = <<>>
      /\ cur_request' = cur_request /\ cur_request_addr' = cur_request_addr
      /\ cur_request_readdata' = cur_request_readdata
      /\ cur_request_raddr_set' = cur_request_raddr_set
      /\ cur_request_waddr_set' = FALSE
      /\ InAw' = 0 /\ InTodo' = 0 /\ bus'.r = <<>>
  BY <1>1, Rests
<1>3. MemoryTyped' /\ BusTyped' /\ Paired' /\ stall' \in BOOLEAN
  BY MemoryKept
<1>4. CoreTyped /\ MemoryTyped /\ countHits(u[1], u[2])
  BY DEF ControlOK, MemoryCycle
<1>5. /\ bitmap_size \in Sizes \cup {0} /\ bitmap_size' \in Sizes \cup {0}
      /\ indexmask \in Nat \ {0}
  <2>1. bitmap_size \in Sizes \cup {0}
    BY <1>4 DEF CoreTyped
  <2>2. indexmask \in Nat \ {0}
    BY <2>1, EntryInMemory
  <2> QED
    BY <1>2, <2>1, <2>2, UsesAre
<1>6. CoreTyped'
  <2>1. empty \in BOOLEAN
    OBVIOUS
  <2>2. /\ initialized' \in BOOLEAN /\ clearReq' \in BOOLEAN /\ clearing' \in BOOLEAN
        /\ cur_request_raddr_set' \in BOOLEAN /\ cur_request_waddr_set' \in BOOLEAN
    BY <1>2, <1>4, <2>1 DEF CoreTyped
  <2>3. bitmap_hash_indexmask' \in Nat \ {0}
    BY <1>2, <1>4, <1>5 DEF CoreTyped
  <2>4. bitmapUpdateReqFifo' \in Seq(Hashes) /\ Len(bitmapUpdateReqFifo') <= FifoDepth
    BY <1>2, BitmapAssumption
  <2>5. clearAddr_next' \in 0..MemSize
    BY <1>2, <1>4, BitmapAssumption DEF CoreTyped
  <2>6. /\ clear_beats_pending' \in 0..PendingMax
        /\ write_bursts_pending_confirm' \in 0..PendingMax
    BY <1>2, BitmapAssumption
  <2> QED
    BY <1>2, <1>3, <1>4, <1>5, <2>2, <2>3, <2>4, <2>5, <2>6 DEF CoreTyped, UpdateStates
<1>7. Counted'
  BY <1>2 DEF Counted, One
<1>8. RestOK'
  <2>1. ASSUME Resting' PROVE /\ ~clearing'
                              /\ \A a \in Addrs : hits'[a] = 0
    <3>1. CASE u[2] # NoClear
      BY <1>1, <1>2, <1>4, <3>1, HitsStep
    <3>2. CASE u[2] = NoClear
      <4>1. Resting /\ ~clearReq
        BY <1>2, <2>1, <3>2 DEF Resting
      <4>2. hits' = hits
        BY <1>1, <1>4, <3>2, HitsStep
      <4> QED
        BY <1>2, <4>1, <4>2 DEF ControlOK, RestOK
    <3> QED
      BY <3>1, <3>2
  <2> QED
    BY <1>2, <2>1 DEF RestOK
<1>9. ClearOK'
  <2>1. ASSUME clearing' PROVE /\ ~initialized' /\ Begin <= clearAddr_next'
                               /\ bitmap_size' = bitmap_size /\ clearAddr_next' = Begin
    <3>1. clearReq /\ ~empty /\ u[2] = NoClear
      BY <1>1, <1>2, <2>1
    <3>2. initialized' = empty /\ clearAddr_next' = Begin /\ bitmap_size' = bitmap_size
      BY <1>2, <3>1
    <3>3. Begin <= Begin
      BY BitmapAssumption
    <3> QED
      BY <3>1, <3>2, <3>3
  <2>2. ASSUME clearing'
        PROVE  \E n \in Nat : bitmapAddr_end' = clearAddr_next' + n * WordBytes
    <3>1. \E n \in Nat : Begin + bitmap_size = Begin + n * WordBytes
      BY <1>5, SizeFits
    <3> QED
      BY <2>1, <2>2, <3>1 DEF bitmapAddr_end
  <2> QED
    BY <1>2, <2>1, <2>2 DEF ClearOK
<1>10. UpdateOK'
  <2>1. ASSUME ~Resting' PROVE bitmap_hash_indexmask' = indexmask'
    <3>1. u[2] = NoClear /\ bitmap_size' = bitmap_size
      BY <1>2, <2>1 DEF Resting
    <3>2. indexmask' = indexmask
      BY <3>1 DEF indexmask
    <3>3. CASE clearReq
      BY <1>2, <3>2, <3>3
    <3>4. CASE ~clearReq
      <4>1. ~Resting
        BY <1>1, <1>2, <2>1, <3>4 DEF Resting
      <4> QED
        BY <3>1, <4>1
    <3> QED
      BY <3>3, <3>4
  <2> QED
    BY <1>2, <2>1 DEF UpdateOK
<1> QED
  BY <1>3, <1>6, <1>7, <1>8, <1>9, <1>10 DEF ControlOK

\* The control stays in order while the memory is cleared.
LEMMA ClearingKept ==
  ASSUME ControlOK, NEW k \in BusOffers, NEW u \in Uses, MemoryCycle(k, u[1], u[2]), clearing
  PROVE  ControlOK'
<1> DEFINE ends == clearAddr_next = bitmapAddr_end /\ clear_beats_pending = 0
<1>1. /\ u[2] = NoClear /\ ~clearReq /\ ~k.ra /\ ~k.rd
      /\ k.wa = Bitmap => /\ clearAddr_next # bitmapAddr_end
                          /\ clear_beats_pending < PendingMax
                          /\ write_bursts_pending_confirm < PendingMax
      /\ k.wd = Bitmap => clear_beats_pending > 0 \/ k.wa = Bitmap
      /\ initialized' = ends /\ clearing' = ~ends /\ clearReq' = FALSE
      /\ bitmap_size' = bitmap_size /\ bitmap_hash_indexmask' = bitmap_hash_indexmask
      /\ clearAddr_next' = IF k.wa = Bitmap THEN clearAddr_next + WordBytes ELSE clearAddr_next
      /\ clear_beats_pending' = clear_beats_pending + One(k.wa = Bitmap) - One(k.wd = Bitmap)
      /\ cur_update_state' = "UpdateIdle"
      /\ bitmapUpdateReqFifo' = PutIn(bitmapUpdateReqFifo, u[1])
      /\ cur_request' = cur_request /\ cur_request_addr' = cur_request_addr
      /\ cur_request_readdata' = cur_request_readdata
      /\ cur_request_raddr_set' = cur_request_raddr_set
      /\ cur_request_waddr_set' = FALSE
      /\ bus'.r = <<>>
  BY ClearsStep
<1>2. MemoryTyped' /\ BusTyped' /\ Paired' /\ stall' \in BOOLEAN
  BY MemoryKept
<1>3. CoreTyped /\ MemoryTyped
  BY DEF ControlOK
<1>4. /\ write_bursts_pending_confirm' \in 0..PendingMax
      /\ write_bursts_pending_confirm' = InAw' + InTodo'
  BY <1>1, PendingStep
<1>5. /\ clear_beats_pending = InAw
      /\ InAw' = InAw + One(k.wa = Bitmap) - One(k.wd = Bitmap)
      /\ InAw' \in Nat
      /\ clear_beats_pending \in 0..PendingMax
  BY <1>3, BusOutcome DEF ControlOK, Counted, CoreTyped
<1>6. clear_beats_pending' = InAw'
  BY <1>1, <1>5
<1>7. PICK n \in Nat : bitmapAddr_end = clearAddr_next + n * WordBytes
  BY DEF ControlOK, ClearOK
<1>8. /\ clearAddr_next \in Nat /\ WordBytes \in Nat \ {0} /\ MemSize \in Nat /\ Begin \in Nat
      /\ bitmap_size \in Sizes \cup {0} /\ bitmapAddr_end <= MemSize
      /\ Begin <= clearAddr_next /\ PendingMax \in Nat
  <2>1. bitmap_size \in Sizes \cup {0} /\ clearAddr_next \in Nat
    BY <1>3, BitmapAssumption DEF CoreTyped
  <2>2. bitmapAddr_end <= MemSize
    BY <2>1, SizeFits DEF bitmapAddr_end
  <2>3. Begin <= clearAddr_next
    BY DEF ControlOK, ClearOK
  <2> QED
    BY <2>1, <2>2, <2>3, BitmapAssumption
<1>9. PICK m \in Nat : bitmapAddr_end = clearAddr_next' + m * WordBytes
  <2>1. CASE k.wa # Bitmap
    BY <1>1, <1>7, <2>1
  <2>2. CASE k.wa = Bitmap
    <3>1. n # 0
      BY <1>1, <1>7, <1>8, <2>2
    <3>2. n - 1 \in Nat /\ n * WordBytes = WordBytes + (n - 1) * WordBytes
      BY <1>8, <3>1
    <3>3. (n - 1) * WordBytes \in Int
      BY <1>8, <3>2
    <3>4. bitmapAddr_end = (clearAddr_next + WordBytes) + (n - 1) * WordBytes
      BY <1>7, <1>8, <3>2, <3>3
    <3> QED
      BY <1>1, <2>2, <3>2, <3>4
  <2> QED
    BY <2>1, <2>2
<1>10. clearAddr_next' \in Nat /\ Begin <= clearAddr_next' /\ clearAddr_next' <= MemSize
  <2>1. clearAddr_next' \in Nat /\ Begin <= clearAddr_next'
    BY <1>1, <1>8
  <2> DEFINE left == m * WordBytes
  <2>2. left \in Nat /\ bitmapAddr_end = clearAddr_next' + left
    BY <1>8, <1>9
  <2> HIDE DEF left
  <2>3. \A a, b, c \in Nat : a + b <= c => a <= c
    OBVIOUS
  <2> QED
    BY <1>8, <2>1, <2>2, <2>3
<1>11. clear_beats_pending' \in 0..PendingMax
  <2>1. InAw' <= PendingMax
    BY <1>4, <1>5, NoneOwed, BusOutcome, <1>8
  <2> QED
    BY <1>5, <1>6, <1>8, <2>1
<1>12. CoreTyped'
  <2>1. /\ bitmapUpdateReqFifo' \in Seq(Hashes) /\ Len(bitmapUpdateReqFifo') <= FifoDepth
    BY <1>1, <1>3, QueueKept
  <2>2. clearAddr_next' \in 0..MemSize
    BY <1>8, <1>10
  <2>3. initialized' \in BOOLEAN /\ clearing' \in BOOLEAN /\ clearReq' \in BOOLEAN
    BY <1>1
  <2> QED
    BY <1>1, <1>2, <1>3, <1>4, <1>11, <2>1, <2>2, <2>3 DEF CoreTyped, UpdateStates
<1>13. Counted'
  <2>1. ASSUME ends PROVE InAw' = 0
    <3>1. k.wa # Bitmap /\ k.wd # Bitmap /\ InAw = 0
      BY <1>1, <1>5, <2>1
    <3> QED
      BY <1>5, <3>1 DEF One
  <2> QED
    BY <1>1, <1>4, <1>6, <2>1 DEF Counted, One
<1>14. RestOK'
  BY <1>1 DEF RestOK, Resting
<1>15. ClearOK'
  <2>1. bitmapAddr_end' = bitmapAddr_end
    BY <1>1 DEF bitmapAddr_end
  <2> QED
    BY <1>1, <1>9, <1>10, <2>1 DEF ClearOK
<1>16. UpdateOK'
  <2>1. bitmap_hash_indexmask = indexmask
    BY <1>1 DEF ControlOK, UpdateOK, Resting
  <2>2. indexmask' = indexmask
    BY <1>1 DEF indexmask
  <2> QED
    BY <1>1, <2>1, <2>2 DEF UpdateOK
<1> QED
  BY <1>2, <1>12, <1>13, <1>14, <1>15, <1>16 DEF ControlOK

\* The control stays in order while requests are counted.
LEMMA UpdatingKept ==
  ASSUME ControlOK, NEW k \in BusOffers, NEW u \in Uses, MemoryCycle(k, u[1], u[2]),
         ~clearing, ~Resting, u[2] = NoClear
  PROVE  ControlOK'
<1>1. /\ initialized' = TRUE /\ clearing' = FALSE /\ clearReq' = FALSE
      /\ bitmap_size' = bitmap_size /\ bitmap_hash_indexmask' = bitmap_hash_indexmask
      /\ clearAddr_next' = clearAddr_next /\ clear_beats_pending' = 0
  BY UpdatesFrame
<1>2. MemoryTyped' /\ BusTyped' /\ Paired' /\ stall' \in BOOLEAN
  BY MemoryKept
<1>3. CoreTyped /\ MemoryTyped /\ UpdateOK
  BY DEF ControlOK
<1>4. /\ Starts(k, u) \in BOOLEAN
      /\ Starts(k, u) => bitmapUpdateReqFifo # <<>> /\ write_bursts_pending_confirm' = 0
      /\ cur_request' = IF Starts(k, u) THEN Head(bitmapUpdateReqFifo) ELSE cur_request
      /\ bitmapUpdateReqFifo' = PutIn(Requested(k, u), u[1])
      /\ write_bursts_pending_confirm' \in 0..PendingMax
      /\ write_bursts_pending_confirm' = InAw' + InTodo'
  BY UpdatesStart
<1>5. /\ bitmap_hash_indexmask' = indexmask'
      /\ \A h : entry(h)' = Begin + (IF bitmap_size = 0 THEN 0 ELSE h % bitmap_size)
  BY <1>1, <1>3 DEF UpdateOK, indexmask, entry
<1>6. bitmapUpdateReqFifo' \in Seq(Hashes) /\ Len(bitmapUpdateReqFifo') <= FifoDepth
  BY <1>3, <1>4, QueueKept DEF Requested
<1>7. cur_request' \in Hashes \cup {0}
  BY <1>3, <1>4, HeadTailProperties DEF CoreTyped
<1>8. RestOK' /\ ClearOK'
  BY <1>1 DEF RestOK, ClearOK, Resting
<1>9. /\ cur_update_state \in UpdateStates /\ cur_request \in Nat
      /\ cur_request_raddr_set \in BOOLEAN /\ cur_request_waddr_set \in BOOLEAN
      /\ cur_request_addr \in Begin..(MemSize - 1) /\ cur_request_addr \in Addrs
      /\ cur_request_readdata \in 0..CountMax
  BY <1>3, BitmapAssumption DEF CoreTyped, Addrs
\* What each state leaves to show.
<1> DEFINE Left == /\ cur_update_state' \in UpdateStates
                   /\ cur_request_addr' \in Begin..(MemSize - 1)
                   /\ cur_request_readdata' \in 0..CountMax
                   /\ cur_request_raddr_set' \in BOOLEAN /\ cur_request_waddr_set' \in BOOLEAN
                   /\ InAw' = One(cur_request_waddr_set')
                   /\ cur_update_state' \in {"UpdateCalcAddr", "UpdateRead"} =>
                        write_bursts_pending_confirm' = 0
                   /\ cur_update_state' = "UpdateWrite" => InTodo' = 0
                   /\ cur_request_waddr_set' => cur_update_state' = "UpdateWrite"
                   /\ cur_update_state' \in {"UpdateRead", "UpdateWrite"} =>
                        cur_request_addr' = entry(cur_request)'
                   /\ cur_update_state' = "UpdateWrite" =>
                        cur_request_readdata' = memory'[cur_request_addr']
                   /\ bus'.r = IF cur_update_state' = "UpdateRead" /\ cur_request_raddr_set'
                               THEN <<memory'[cur_request_addr']>> ELSE <<>>
<1>10. Left
  <2>1. CASE cur_update_state = "UpdateIdle"
    <3>1. /\ cur_update_state' = IF Starts(k, u) THEN "UpdateCalcAddr" ELSE "UpdateIdle"
          /\ cur_request_addr' = cur_request_addr
          /\ cur_request_readdata' = cur_request_readdata
          /\ cur_request_raddr_set' = cur_request_raddr_set
          /\ cur_request_waddr_set' = FALSE
          /\ InAw' = 0 /\ bus'.r = <<>>
      BY <2>1, IdleStep
    <3> QED
      BY <1>4, <1>9, <3>1 DEF One, UpdateStates
  <2>2. CASE cur_update_state = "UpdateCalcAddr"
    <3>1. /\ ~Starts(k, u)
          /\ cur_update_state' = "UpdateRead"
          /\ cur_request_addr' = entry(cur_request)
          /\ cur_request_readdata' = cur_request_readdata
          /\ cur_request_raddr_set' = FALSE
          /\ cur_request_waddr_set' = FALSE
          /\ write_bursts_pending_confirm' = 0
          /\ InAw' = 0 /\ bus'.r = <<>>
      BY <2>2, CalcStep
    <3>2. /\ cur_request' = cur_request
          /\ entry(cur_request) \in Begin..(MemSize - 1)
      BY <1>3, <1>4, <1>9, <3>1, EntryInMemory DEF CoreTyped
    <3>3. entry(cur_request)' = entry(cur_request)
      BY <1>1, <3>2 DEF entry
    <3> QED
      BY <1>4, <1>9, <3>1, <3>2, <3>3 DEF One, UpdateStates
  <2>3. CASE cur_update_state = "UpdateRead"
    <3>1. /\ ~Confirmed(k) /\ ~Starts(k, u)
          /\ cur_update_state' = IF k.rd THEN "UpdateWrite" ELSE "UpdateRead"
          /\ cur_request_addr' = cur_request_addr
          /\ cur_request_readdata' = IF k.rd THEN memory[cur_request_addr]
                                     ELSE cur_request_readdata
          /\ cur_request_raddr_set' = (cur_request_raddr_set \/ k.ra)
          /\ cur_request_waddr_set' = FALSE
          /\ write_bursts_pending_confirm' = 0
          /\ InAw' = 0
          /\ k.rd => ~k.ra /\ cur_request_raddr_set
          /\ bus'.r = IF k.ra THEN <<memory[cur_request_addr]>>
                      ELSE IF k.rd THEN <<>> ELSE bus.r
      BY <2>3, ReadStep
    <3>2. /\ cur_request' = cur_request /\ memory' = memory
          /\ memory[cur_request_addr] \in 0..CountMax
          /\ k.rd \in BOOLEAN /\ k.ra \in BOOLEAN
      BY <1>3, <1>4, <1>9, <3>1, BusOutcome, OffersDo DEF MemoryTyped
    <3>3. entry(cur_request)' = entry(cur_request)
      BY <1>1, <3>2 DEF entry
    <3>4. /\ cur_request_addr = entry(cur_request)
          /\ bus.r = IF cur_request_raddr_set THEN <<memory[cur_request_addr]>> ELSE <<>>
      BY <1>3, <2>3 DEF UpdateOK
    <3>5. InTodo' = 0
      <4>1. InTodo' \in Nat
        BY BusOutcome
      <4>2. write_bursts_pending_confirm' = InAw' + InTodo'
        BY <1>4
      <4>3. 0 = 0 + InTodo'
        BY <3>1, <4>2
      <4>4. \A a \in Nat : 0 = 0 + a => a = 0
        OBVIOUS
      <4> QED
        BY <4>1, <4>3, <4>4
    <3>6. bus'.r = IF cur_update_state' = "UpdateRead" /\ cur_request_raddr_set'
                   THEN <<memory'[cur_request_addr']>> ELSE <<>>
      BY <1>9, <3>1, <3>2, <3>4
    <3>7. /\ cur_request_readdata' \in 0..CountMax
          /\ cur_update_state' = "UpdateWrite" =>
               cur_request_readdata' = memory'[cur_request_addr']
      BY <1>9, <3>1, <3>2
    <3>8. cur_request_raddr_set' \in BOOLEAN
      BY <3>1
    <3> QED
      BY <1>9, <3>1, <3>3, <3>4, <3>5, <3>6, <3>7, <3>8 DEF One, UpdateStates
  <2>4. CASE cur_update_state = "UpdateWrite"
    <3>1. /\ ~Confirmed(k) /\ ~Starts(k, u)
          /\ cur_update_state' = IF k.wd = Bitmap THEN "UpdateIdle" ELSE "UpdateWrite"
          /\ cur_request_addr' = cur_request_addr
          /\ cur_request_readdata' = cur_request_readdata
          /\ cur_request_raddr_set' = cur_request_raddr_set
          /\ cur_request_waddr_set' = (k.wd # Bitmap /\ (cur_request_waddr_set \/ k.wa = Bitmap))
          /\ InAw' = One(cur_request_waddr_set')
          /\ InTodo' = One(k.wd = Bitmap)
          /\ bus'.r = <<>>
      BY <2>4, WriteStep
    <3>2. cur_request' = cur_request /\ memory' = memory
      BY <1>4, <3>1, BusOutcome
    <3>3. entry(cur_request)' = entry(cur_request)
      BY <1>1, <3>2 DEF entry
    <3>4. /\ cur_request_addr = entry(cur_request)
          /\ cur_request_readdata = memory[cur_request_addr]
      BY <1>3, <2>4 DEF UpdateOK
    <3>5. cur_request_waddr_set' \in BOOLEAN
      BY <3>1
    <3>6. cur_request_waddr_set' => k.wd # Bitmap
      BY <3>1
    <3>7. k.wd # Bitmap => InTodo' = 0
      BY <3>1 DEF One
    <3> QED
      BY <1>9, <3>1, <3>2, <3>3, <3>4, <3>5, <3>6, <3>7 DEF UpdateStates
  <2> QED
    BY <1>9, <2>1, <2>2, <2>3, <2>4 DEF UpdateStates
<1>11. CoreTyped'
  <2>1. /\ initialized' \in BOOLEAN /\ clearReq' \in BOOLEAN /\ clearing' \in BOOLEAN
    BY <1>1
  <2>2. clear_beats_pending' \in 0..PendingMax
    <3>1. 0 \in 0..PendingMax
      BY BitmapAssumption
    <3> QED
      BY <1>1, <3>1
  <2> QED
    BY <1>1, <1>2, <1>3, <1>4, <1>6, <1>7, <1>10, <2>1, <2>2 DEF CoreTyped
<1>12. Counted'
  BY <1>1, <1>4, <1>10 DEF Counted
<1>13. UpdateOK'
  BY <1>5, <1>10 DEF UpdateOK
<1> QED
  BY <1>2, <1>8, <1>11, <1>12, <1>13 DEF ControlOK

\* The control part holds of every state.
LEMMA ControlInit == Init => ControlOK
<1> SUFFICES ASSUME Init PROVE ControlOK
  OBVIOUS
<1>0. BitmapInit
  BY DEF Init
<1>1. /\ wrm_id_queue = <<>> /\ wrs_active = FALSE /\ ext = 0
      /\ bus = [aw |-> <<>>, from |-> {}, todo |-> <<>>, r |-> <<>>]
      /\ memory = [a \in Addrs |-> CountMax]
      /\ hits = [a \in Addrs |-> 0]
  BY DEF Init
<1>2. CoreTyped
  <2>1. \A S : <<>> \in Seq(S) /\ Len(<<>>) = 0
    BY EmptySeq
  <2>2. bitmapUpdateReqFifo \in Seq(Hashes) /\ Len(bitmapUpdateReqFifo) <= FifoDepth
    BY <1>0, <2>1, BitmapAssumption DEF BitmapInit
  <2>3. /\ 0 \in 0..MemSize /\ 0 \in 0..PendingMax /\ 0 \in 0..CountMax
        /\ Begin \in Begin..(MemSize - 1) /\ 1 \in Nat \ {0}
    BY BitmapAssumption
  <2> QED
    BY <1>0, <2>2, <2>3 DEF CoreTyped, BitmapInit, UpdateStates
<1>3. MemoryTyped /\ BusTyped /\ Paired
  <2>1. \A S : <<>> \in Seq(S) /\ Len(<<>>) = 0 /\ DOMAIN <<>> = {}
    BY EmptySeq, LenProperties
  <2>2. MemoryTyped
    <3>1. 0 \in 0..CountMax /\ CountMax \in 0..CountMax /\ IdDepth \in Nat
      BY BitmapAssumption, BusAssumption
    <3>2. memory \in [Addrs -> 0..CountMax] /\ hits \in [Addrs -> 0..CountMax]
      BY <1>1, <3>1
    <3>3. Len(wrm_id_queue) <= IdDepth
      BY <1>1, <2>1, <3>1
    <3> QED
      BY <1>1, <3>2, <3>3 DEF MemoryTyped
  <2>3. BusTyped
    BY <1>1, <2>1 DEF BusTyped
  <2>4. Paired
    BY <1>1, <2>1 DEF Paired, DataMeetAddress
  <2> QED
    BY <2>2, <2>3, <2>4
<1>4. InAw = 0 /\ InTodo = 0
  <2>1. Aw = {} /\ Todo = {}
    BY <1>1 DEF Aw, Todo, Elements
  <2> QED
    BY <1>3, <2>1, NoneOwed
<1>5. Counted
  BY <1>0, <1>4 DEF Counted, BitmapInit, One
<1>6. RestOK /\ ClearOK
  BY <1>0, <1>1 DEF RestOK, ClearOK, BitmapInit
<1>7. UpdateOK
  BY <1>0, <1>1 DEF UpdateOK, BitmapInit, Resting
<1> QED
  BY <1>2, <1>3, <1>5, <1>6, <1>7 DEF ControlOK

\* Each cycle keeps the control part: at rest, clearing and counting.
LEMMA ControlKept ==
  ASSUME ControlOK, NEW k \in BusOffers, NEW u \in Uses, MemoryCycle(k, u[1], u[2])
  PROVE  ControlOK'
BY RestingKept, ClearingKept, UpdatingKept, UsesAre

\* A stuttering step changes nothing the invariant is about.
LEMMA ControlStays == ASSUME ControlOK, UNCHANGED vars PROVE ControlOK'
BY DEF ControlOK, CoreTyped, MemoryTyped, BusTyped, Paired, DataMeetAddress, Counted, RestOK,
       Resting, ClearOK, UpdateOK, InAw, InTodo, CountIn, Places, bitmapAddr_end, indexmask,
       entry, vars, bitmapVars, clearVars, updateVars, busVars

\* The invariant is inductive, so it holds in every behaviour.
LEMMA Controlled == Spec => []ControlOK
<1>1. ControlOK /\ [Next]_vars => ControlOK'
  BY ControlKept, ControlStays DEF Next
<1> QED
  BY <1>1, ControlInit, PTL DEF Spec

\* Every variable of the bitmap core and of the bus stays in its type: no counter
\* wraps, no queue overflows and no address leaves the memory.
THEOREM BitmapTypeCorrect == Spec => []TypeOK
<1>1. ControlOK => TypeOK
  <2> SUFFICES ASSUME ControlOK PROVE TypeOK
    OBVIOUS
  <2>1. CoreTyped /\ MemoryTyped /\ BusTyped
    BY DEF ControlOK
  <2>2. {stall, initialized, clearReq, clearing, cur_request_raddr_set,
         cur_request_waddr_set} \subseteq BOOLEAN
    BY <2>1 DEF CoreTyped
  <2>3. cur_request_addr \in Begin..MemSize
    BY <2>1, BitmapAssumption DEF CoreTyped
  <2>4. BitmapTypeOK
    BY <2>1, <2>2, <2>3 DEF CoreTyped, BitmapTypeOK
  <2> QED
    BY <2>1, <2>4 DEF MemoryTyped, BusTyped, TypeOK
<1> QED
  BY <1>1, Controlled, PTL

\* The data of a burst meet the address of the same writer: the queue of ids says
\* what the bus cannot see.
THEOREM BitmapDataMeetAddress == Spec => []DataMeetAddress
<1>1. ControlOK => DataMeetAddress
  BY DEF ControlOK, Paired
<1> QED
  BY <1>1, Controlled, PTL

\* The two counters of the core say exactly what the bus owes it.
THEOREM BitmapPendingMatchesBus == Spec => []PendingMatchesBus
<1>1. ControlOK => PendingMatchesBus
  <2> SUFFICES ASSUME ControlOK PROVE PendingMatchesBus
    OBVIOUS
  <2>1. bus.aw \in Seq(AwBursts) /\ bus.todo \in Seq(TodoBursts)
    BY DEF ControlOK, BusTyped
  <2>2. /\ \A n \in DOMAIN bus.aw : bus.aw[n] \in AwBursts
        /\ \A n \in DOMAIN bus.todo : bus.todo[n] \in TodoBursts
    BY <2>1, LenProperties, ElementOfSeq
  <2>3. /\ {n \in DOMAIN bus.aw : bus.aw[n].id = Bitmap} = Places(bus.aw, OursAw)
        /\ {n \in DOMAIN bus.todo : bus.todo[n].id = Bitmap} = Places(bus.todo, OursTodo)
    BY <2>2 DEF Places, OursAw, OursTodo
  <2>4. /\ Cardinality({n \in DOMAIN bus.aw : bus.aw[n].id = Bitmap}) = InAw
        /\ Cardinality({n \in DOMAIN bus.todo : bus.todo[n].id = Bitmap}) = InTodo
    BY <2>3 DEF InAw, InTodo, CountIn
  <2> QED
    BY <2>4 DEF PendingMatchesBus, ControlOK, Counted
<1> QED
  BY <1>1, Controlled, PTL

(***************************************************************************)
(* The counts.  A byte of the bitmap holds what was counted of its hits;    *)
(* the rest waits in the queue, in the core or on the bus.                  *)
(***************************************************************************)
Sat(n) == IF n >= CountMax THEN CountMax ELSE n
Asks(a) == {h \in Hashes : entry(h) = a}
Serving(a) == cur_update_state # "UpdateIdle" /\ entry(cur_request) = a
Waiting(a) == CountIn(bitmapUpdateReqFifo, Asks(a)) + One(Serving(a))
\* A byte with value v holds all hits that no longer wait.
Owes(a, v) == hits[a] = Sat(v + Waiting(a))
Puts(u, a) == u[1] # NoReq /\ entry(u[1]) = a
\* This cycle sends the updated entry.
Serves(k, a) == ~clearing /\ k.wd = Bitmap /\ entry(cur_request) = a

\* Counting one more, before or after the rest.
LEMMA SatCounts ==
  ASSUME NEW v \in Nat, NEW w \in Nat
  PROVE  /\ Sat(v) \in 0..CountMax
         /\ Sat(v + (w + 1)) = IF Sat(v + w) # CountMax THEN Sat(v + w) + 1 ELSE Sat(v + w)
         /\ v <= CountMax => Sat(v + (w + 1)) = Sat((IF v = CountMax THEN CountMax ELSE v + 1) + w)
<1>1. CountMax \in Nat
  BY BitmapAssumption
<1> QED
  BY <1>1 DEF Sat

\* What waits for an entry, after a request is put and after one is begun.
LEMMA WaitingQueue ==
  ASSUME CoreTyped, NEW a, NEW u \in Uses
  PROVE  /\ CountIn(bitmapUpdateReqFifo, Asks(a)) \in Nat
         /\ CountIn(PutIn(bitmapUpdateReqFifo, u[1]), Asks(a)) =
              CountIn(bitmapUpdateReqFifo, Asks(a)) + One(Puts(u, a))
         /\ bitmapUpdateReqFifo # <<>> =>
              CountIn(PutIn(Tail(bitmapUpdateReqFifo), u[1]), Asks(a)) =
                (CountIn(bitmapUpdateReqFifo, Asks(a)) + One(Puts(u, a)))
                - One(entry(Head(bitmapUpdateReqFifo)) = a)
<1> DEFINE q == bitmapUpdateReqFifo
           S == Asks(a)
<1>1. q \in Seq(Hashes)
  BY DEF CoreTyped
<1>2. \A r \in Seq(Hashes) : CountIn(r, S) \in Nat
  BY CountType
<1>3. ASSUME NEW r \in Seq(Hashes)
      PROVE  CountIn(PutIn(r, u[1]), S) = CountIn(r, S) + One(Puts(u, a))
  <2>1. CASE u[1] = NoReq
    <3>1. PutIn(r, u[1]) = r /\ One(Puts(u, a)) = 0
      BY <2>1 DEF PutIn, Puts, One
    <3> HIDE DEF S
    <3> QED
      BY <1>2, <3>1
  <2>2. CASE u[1] # NoReq
    <3>1. u[1] \in Hashes /\ PutIn(r, u[1]) = Append(r, u[1])
      BY <2>2, UsesAre DEF PutIn
    <3>2. u[1] \in S <=> Puts(u, a)
      BY <2>2, <3>1 DEF Asks, Puts
    <3>3. One(u[1] \in S) = One(Puts(u, a))
      BY <3>2 DEF One
    <3> HIDE DEF S
    <3> QED
      BY <3>1, <3>3, CountAppend
  <2> QED
    BY <2>1, <2>2
<1>4. ASSUME q # <<>>
      PROVE  /\ Tail(q) \in Seq(Hashes)
             /\ CountIn(Tail(q), S) = CountIn(q, S) - One(entry(Head(q)) = a)
  <2>1. Tail(q) \in Seq(Hashes) /\ Head(q) \in Hashes /\ Head(q) = q[1]
    BY <1>1, <1>4, HeadTailProperties
  <2>2. One(q[1] \in S) = One(entry(Head(q)) = a)
    BY <2>1 DEF Asks, One
  <2> HIDE DEF S, q
  <2> QED
    BY <1>1, <1>4, <2>1, <2>2, CountTail
<1> HIDE DEF S, q
<1>5. /\ \A p \in BOOLEAN : One(p) \in {0, 1}
      /\ One(Puts(u, a)) \in {0, 1} /\ One(entry(Head(q)) = a) \in {0, 1}
  BY DEF One
<1>6. ASSUME q # <<>>
      PROVE  CountIn(PutIn(Tail(q), u[1]), S) =
               (CountIn(q, S) + One(Puts(u, a))) - One(entry(Head(q)) = a)
  <2>1. CountIn(PutIn(Tail(q), u[1]), S) = CountIn(Tail(q), S) + One(Puts(u, a))
    BY <1>3, <1>4, <1>6
  <2> QED
    BY <1>1, <1>2, <1>4, <1>5, <1>6, <2>1
<1> QED
  BY <1>1, <1>2, <1>3, <1>6 DEF q, S

\* A hash waits from when it is put to when its entry is sent.
LEMMA WaitingStep ==
  ASSUME ControlOK, NEW k \in BusOffers, NEW u \in Uses, MemoryCycle(k, u[1], u[2]),
         clearing \/ ~Resting, u[2] = NoClear, NEW a
  PROVE  /\ Waiting(a) \in Nat /\ Waiting(a)' \in Nat
         /\ Waiting(a)' + One(Serves(k, a)) = Waiting(a) + One(Puts(u, a))
         /\ Serves(k, a) => Serving(a)
<1>1. CoreTyped /\ CoreTyped'
  BY ControlKept DEF ControlOK
<1> DEFINE n == CountIn(bitmapUpdateReqFifo, Asks(a))
<1>2. /\ n \in Nat
      /\ CountIn(PutIn(bitmapUpdateReqFifo, u[1]), Asks(a)) = n + One(Puts(u, a))
      /\ bitmapUpdateReqFifo # <<>> =>
           CountIn(PutIn(Tail(bitmapUpdateReqFifo), u[1]), Asks(a)) =
             (n + One(Puts(u, a))) - One(entry(Head(bitmapUpdateReqFifo)) = a)
  BY <1>1, WaitingQueue
<1>3. bitmap_size' = bitmap_size
  BY ClearsStep, UpdatesFrame
<1>4. /\ Asks(a)' = Asks(a)
      /\ \A h : (entry(h))' = Begin + (IF bitmap_size = 0 THEN 0 ELSE h % bitmap_size)
  BY <1>3 DEF Asks, entry
<1> DEFINE nn == CountIn(bitmapUpdateReqFifo', Asks(a))
<1>5. Waiting(a) = n + One(Serving(a))
  BY DEF Waiting
<1>6. Waiting(a)' = nn + One(Serving(a)')
  BY <1>4 DEF Waiting
<1>7. /\ One(Serving(a)) \in {0, 1} /\ One(Serving(a)') \in {0, 1}
      /\ One(Puts(u, a)) \in {0, 1} /\ One(Serves(k, a)) \in {0, 1}
  BY DEF One
<1>8. Serving(a)' <=> cur_update_state' # "UpdateIdle" /\ entry(cur_request') = a
  BY <1>3 DEF Serving, entry
<1> DEFINE Goal == /\ nn \in Nat
                   /\ (nn + One(Serving(a)')) + One(Serves(k, a))
                        = (n + One(Serving(a))) + One(Puts(u, a))
                   /\ Serves(k, a) => Serving(a)
<1>9. nn \in Nat
  BY <1>1, CountType DEF CoreTyped
<1>10. Goal
  <2>1. CASE clearing
    <3>1. /\ bitmapUpdateReqFifo' = PutIn(bitmapUpdateReqFifo, u[1])
          /\ cur_update_state' = "UpdateIdle" /\ cur_update_state = "UpdateIdle"
      BY <2>1, ClearsStep DEF ControlOK, ClearOK
    <3>2. nn = n + One(Puts(u, a))
      BY <1>2, <3>1
    <3>3. One(Serving(a)) = 0 /\ One(Serving(a)') = 0 /\ One(Serves(k, a)) = 0 /\ ~Serves(k, a)
      BY <1>8, <2>1, <3>1 DEF One, Serving, Serves
    <3> HIDE DEF n, nn
    <3> QED
      BY <1>2, <1>7, <1>9, <3>2, <3>3
  <2>2. CASE ~clearing /\ Starts(k, u)
    <3>1. /\ cur_update_state = "UpdateIdle" /\ cur_update_state' = "UpdateCalcAddr"
          /\ cur_request' = Head(bitmapUpdateReqFifo) /\ bitmapUpdateReqFifo # <<>>
          /\ bitmapUpdateReqFifo' = PutIn(Tail(bitmapUpdateReqFifo), u[1])
          /\ k.wd # Bitmap
      <4>1. /\ bitmapUpdateReqFifo # <<>> /\ cur_update_state = "UpdateIdle"
            /\ cur_request' = Head(bitmapUpdateReqFifo)
            /\ bitmapUpdateReqFifo' = PutIn(Tail(bitmapUpdateReqFifo), u[1])
        BY <1>1, <2>2, UpdatesStart DEF Requested, CoreTyped, UpdateStates
      <4> QED
        BY <2>2, <4>1, IdleStep
    <3>2. nn = (n + One(Puts(u, a))) - One(entry(Head(bitmapUpdateReqFifo)) = a)
      BY <1>2, <3>1
    <3>3. /\ One(Serving(a)) = 0 /\ One(Serves(k, a)) = 0 /\ ~Serves(k, a)
          /\ One(Serving(a)') = One(entry(Head(bitmapUpdateReqFifo)) = a)
      BY <1>8, <3>1 DEF One, Serving, Serves
    <3> HIDE DEF n, nn
    <3> QED
      BY <1>2, <1>7, <1>9, <3>2, <3>3
  <2>3. CASE ~clearing /\ ~Starts(k, u)
    <3>1. /\ cur_request' = cur_request
          /\ bitmapUpdateReqFifo' = PutIn(bitmapUpdateReqFifo, u[1])
      BY <2>3, UpdatesStart DEF Requested
    <3>2. nn = n + One(Puts(u, a))
      BY <1>2, <3>1
    <3>3. /\ One(Serving(a)') + One(Serves(k, a)) = One(Serving(a))
          /\ Serves(k, a) => Serving(a)
      <4>1. CASE cur_update_state = "UpdateWrite"
        <5>1. cur_update_state' = IF k.wd = Bitmap THEN "UpdateIdle" ELSE "UpdateWrite"
          BY <2>3, <4>1, WriteStep
        <5> QED
          BY <1>8, <2>3, <3>1, <4>1, <5>1 DEF One, Serving, Serves
      <4>2. CASE cur_update_state # "UpdateWrite"
        <5>1. k.wd # Bitmap
          BY <2>3, <4>2, UpdatesFrame
        <5>2. cur_update_state' = "UpdateIdle" <=> cur_update_state = "UpdateIdle"
          BY <1>1, <2>3, <4>2, IdleStep, CalcStep, ReadStep DEF CoreTyped, UpdateStates
        <5> QED
          BY <1>8, <3>1, <5>1, <5>2 DEF One, Serving, Serves
      <4> QED
        BY <4>1, <4>2
    <3> HIDE DEF n, nn
    <3> QED
      BY <1>2, <1>7, <1>9, <3>2, <3>3
  <2>4. Starts(k, u) \in BOOLEAN
    BY DEF Starts, handle_req
  <2> QED
    BY <2>1, <2>2, <2>3, <2>4
<1> HIDE DEF n, nn
<1> QED
  BY <1>2, <1>5, <1>6, <1>7, <1>10

\* A byte goes on holding what it owes nothing for: a hash put waits, and an
\* entry that is sent is one more than the byte it was read from.
LEMMA OwesStep ==
  ASSUME ControlOK, NEW k \in BusOffers, NEW u \in Uses, MemoryCycle(k, u[1], u[2]),
         clearing \/ ~Resting, u[2] = NoClear, NEW a \in Addrs, NEW v \in 0..CountMax,
         Owes(a, v)
  PROVE  /\ ~Serves(k, a) => hits'[a] = Sat(v + Waiting(a)')
         /\ Serves(k, a) =>
              hits'[a] = Sat((IF v = CountMax THEN CountMax ELSE v + 1) + Waiting(a)')
<1> DEFINE w == Waiting(a)
           x == Waiting(a)'
           y == One(Serves(k, a))
           z == One(Puts(u, a))
           v1 == IF v = CountMax THEN CountMax ELSE v + 1
<1>1. /\ w \in Nat /\ x \in Nat /\ x + y = w + z
      /\ Serves(k, a) => Serving(a)
  BY WaitingStep
<1>2. y \in {0, 1} /\ z \in {0, 1} /\ (y = 1 <=> Serves(k, a)) /\ (z = 1 <=> Puts(u, a))
  BY DEF One
<1>3. hits[a] = Sat(v + w)
  BY DEF Owes
<1>4. hits'[a] = IF Puts(u, a) /\ hits[a] # CountMax THEN hits[a] + 1 ELSE hits[a]
  <2>1. countHits(u[1], u[2]) /\ CoreTyped /\ MemoryTyped
    BY DEF MemoryCycle, ControlOK
  <2>2. hits'[a] = IF u[1] # NoReq /\ a = entry(u[1]) /\ hits[a] # CountMax
                   THEN hits[a] + 1 ELSE hits[a]
    BY <2>1, HitsStep
  <2> QED
    BY <2>2 DEF Puts
<1>5. v \in Nat /\ v <= CountMax /\ CountMax \in Nat /\ v1 \in Nat
  BY BitmapAssumption
<1>6. Serves(k, a) => w # 0
  <2>1. Serves(k, a) => One(Serving(a)) = 1
    BY <1>1 DEF One
  <2>2. /\ CountIn(bitmapUpdateReqFifo, Asks(a)) \in Nat
        /\ w = CountIn(bitmapUpdateReqFifo, Asks(a)) + One(Serving(a))
    BY WaitingQueue DEF ControlOK, Waiting
  <2> QED
    BY <2>1, <2>2
<1> HIDE DEF w, x, y, z, v1
<1>7. hits'[a] = Sat(v + (w + z))
  <2>1. CASE z = 1
    BY <1>1, <1>2, <1>3, <1>4, <1>5, <2>1, SatCounts
  <2>2. CASE z = 0
    <3>1. w + z = w /\ ~Puts(u, a)
      BY <1>1, <1>2, <2>2
    <3> QED
      BY <1>3, <1>4, <3>1
  <2> QED
    BY <1>2, <2>1, <2>2
<1>8. ASSUME ~Serves(k, a) PROVE hits'[a] = Sat(v + x)
  <2>1. x = w + z
    BY <1>1, <1>2, <1>8
  <2> QED
    BY <1>7, <2>1
<1>9. ASSUME Serves(k, a) PROVE hits'[a] = Sat(v1 + x)
  <2>1. w + z = x + 1
    BY <1>1, <1>2, <1>9
  <2>2. Sat(v + (x + 1)) = Sat(v1 + x)
    BY <1>1, <1>5, SatCounts DEF v1
  <2> QED
    BY <1>7, <2>1, <2>2
<1> QED
  BY <1>8, <1>9 DEF x, v1

(***************************************************************************)
(* Where the counts are.                                                    *)
(***************************************************************************)
Bytes(b) == {b.addr + i : i \in b.strb}
Word(x) == {x + i : i \in 0..(WordBytes - 1)}

\* What the bus still owes confirmation for holds its bytes' counts, as if written.
TodoExact == \A b \in Todo : \A a \in Bytes(b) \cap Region : Owes(a, b.data)
\* What it still owes data for: words of the bitmap, or the one entry's word.
AwExact ==
  /\ clearing => /\ \A b \in Aw : Word(b.addr) \subseteq Region
                 /\ \A a \in Region : Owes(a, 0)
  /\ ~clearing => \A b \in Aw : b.addr = wordAddr(cur_request_addr)
\* Each byte is yet to be cleared, or on its way, or right.
MemoryExact ==
  ~Resting => \A a \in Region :
    \/ clearing /\ a >= clearAddr_next
    \/ clearing /\ \E b \in Aw : a \in Word(b.addr)
    \/ \E b \in Todo : a \in Bytes(b)
    \/ Owes(a, memory[a])
Exact == TodoExact /\ AwExact /\ MemoryExact

\* The bitmap is in the memory.
LEMMA RegionInMemory ==
  ASSUME CoreTyped
  PROVE  /\ Region \subseteq Addrs
         /\ \A a \in Region : a \in Nat
         /\ \A a : a \in Region <=> a \in Int /\ Begin <= a /\ a < bitmapAddr_end
         /\ bitmapAddr_end \in Nat /\ Begin \in Nat
<1>1. bitmap_size \in Nat /\ Begin \in Nat /\ MemSize \in Nat /\ Begin + bitmap_size <= MemSize
  BY SizeFits, BitmapAssumption DEF CoreTyped
<1>2. bitmapAddr_end \in Nat /\ bitmapAddr_end <= MemSize
  BY <1>1 DEF bitmapAddr_end
<1> QED
  BY <1>1, <1>2 DEF Region, Addrs

\* A confirmed burst is what the memory holds from then on.
LEMMA MemoryStep ==
  ASSUME ControlOK, NEW k \in BusOffers, NEW req, NEW clear, MemoryCycle(k, req, clear),
         NEW a \in Addrs
  PROVE  /\ Confirmed(k) => bus.todo[1] \in Todo
         /\ Confirmed(k) /\ a \in Bytes(bus.todo[1]) => memory'[a] = bus.todo[1].data
         /\ ~(Confirmed(k) /\ a \in Bytes(bus.todo[1])) => memory'[a] = memory[a]
<1>1. memory'[a] = IF Confirmed(k) /\ \E b \in bus.todo[1].strb : a = bus.todo[1].addr + b
                   THEN bus.todo[1].data ELSE memory[a]
  BY BusOutcome
<1>2. a \in Bytes(bus.todo[1]) <=> \E b \in bus.todo[1].strb : a = bus.todo[1].addr + b
  BY DEF Bytes
<1> QED
  BY <1>1, <1>2, CallsAre

\* The bursts move as the bus says (AwMoves and TodoMoves).
LEMMA BurstsMove ==
  ASSUME ControlOK, NEW k \in BusOffers, NEW req, NEW clear, MemoryCycle(k, req, clear)
  PROVE  /\ \A b \in Aw' : b \in Aw \/ (k.wa = Bitmap /\ b = NewAw(k))
         /\ \A b \in Aw : b \in Aw' \/ (k.wd = Bitmap /\ b = Taken(k)[1])
         /\ k.wa = Bitmap => NewAw(k) \in Aw' \/ (k.wd = Bitmap /\ NewAw(k) = Taken(k)[1])
         /\ k.wd = Bitmap => Taken(k)[1] \in Aw \/ (k.wa = Bitmap /\ Taken(k)[1] = NewAw(k))
         /\ \A b \in Todo' : b \in Todo \/ (k.wd = Bitmap /\ b = NewTodo(k))
         /\ \A b \in Todo : b \in Todo' \/ (Confirmed(k) /\ b = bus.todo[1])
         /\ k.wd = Bitmap =>
              NewTodo(k) \in Todo' \/ (Confirmed(k) /\ NewTodo(k) = bus.todo[1])
<1>1. Offered /\ BusTyped /\ Paired /\ busTakes(k)
  BY CoreOffers DEF ControlOK, MemoryCycle
<1> QED
  BY <1>1, AwMoves, TodoMoves

\* The bursts owed have values of entries for data.
LEMMA TodoTyped ==
  ASSUME BusTyped
  PROVE  \A b \in Todo : b.data \in 0..CountMax
<1>1. bus.todo \in Seq(TodoBursts)
  BY DEF BusTyped
<1>2. \A n \in DOMAIN bus.todo : bus.todo[n] \in TodoBursts
  BY <1>1, LenProperties, ElementOfSeq
<1> QED
  BY <1>2 DEF Todo, Elements, TodoBursts

\* The invariant of the counts, for the next state.
Counts(a, v) == hits'[a] = Sat(v + Waiting(a)')

\* What is on its way or right stays so, but for the entry being sent.
LEMMA ExactMoves ==
  ASSUME ControlOK, Exact, NEW k \in BusOffers, NEW u \in Uses, MemoryCycle(k, u[1], u[2]),
         clearing \/ ~Resting, u[2] = NoClear, NEW a \in Region, ~Serves(k, a)
  PROVE  /\ \A b \in Todo : a \in Bytes(b) => Counts(a, b.data)
         /\ (\E b \in Todo : a \in Bytes(b)) \/ Owes(a, memory[a]) =>
              (\E b \in Todo' : a \in Bytes(b)) \/ Counts(a, memory'[a])
<1>1. a \in Addrs
  BY RegionInMemory DEF ControlOK
<1>2. \A v \in 0..CountMax : Owes(a, v) => Counts(a, v)
  BY <1>1, OwesStep DEF Counts
<1>3. \A b \in Todo : a \in Bytes(b) => Counts(a, b.data)
  BY <1>2, TodoTyped DEF Exact, TodoExact, ControlOK
<1>4. CASE Confirmed(k) /\ a \in Bytes(bus.todo[1])
  <2>1. bus.todo[1] \in Todo /\ memory'[a] = bus.todo[1].data
    BY <1>1, <1>4, MemoryStep
  <2> QED
    BY <1>3, <1>4, <2>1
<1>5. CASE ~(Confirmed(k) /\ a \in Bytes(bus.todo[1]))
  <2>1. memory'[a] = memory[a] /\ memory[a] \in 0..CountMax
    BY <1>1, <1>5, MemoryStep DEF ControlOK, MemoryTyped
  <2>2. \A b \in Todo : a \in Bytes(b) => b \in Todo'
    BY <1>5, BurstsMove
  <2> QED
    BY <1>2, <1>3, <2>1, <2>2
<1> QED
  BY <1>3, <1>4, <1>5

\* What is sent in a cycle is owed or confirmed after it.
LEMMA ExactSends ==
  ASSUME ControlOK, NEW k \in BusOffers, NEW req, NEW clear, MemoryCycle(k, req, clear),
         k.wd = Bitmap, NEW a \in Addrs, a \in Bytes(NewTodo(k)), Counts(a, NewTodo(k).data)
  PROVE  (\E b \in Todo' : a \in Bytes(b)) \/ Counts(a, memory'[a])
<1>1. NewTodo(k) \in Todo' \/ (Confirmed(k) /\ NewTodo(k) = bus.todo[1])
  BY BurstsMove
<1>2. CASE NewTodo(k) \in Todo'
  BY <1>2
<1>3. CASE Confirmed(k) /\ NewTodo(k) = bus.todo[1]
  BY <1>3, MemoryStep
<1> QED
  BY <1>1, <1>2, <1>3

\* Between two clears the bus owes nothing.
LEMMA RestsEmpty ==
  ASSUME ControlOK, NEW k \in BusOffers, NEW u \in Uses, MemoryCycle(k, u[1], u[2]),
         Resting \/ u[2] # NoClear
  PROVE  Aw' = {} /\ Todo' = {}
<1>1. /\ ~clearing /\ cur_update_state = "UpdateIdle" /\ bitmapUpdateReqFifo = <<>>
      /\ write_bursts_pending_confirm = 0 /\ u[1] = NoReq
  BY RestsWhen
<1>2. NoTraffic(k)
  BY <1>1, Rests
<1>3. InAw + InTodo = 0 /\ InAw \in Nat /\ InTodo \in Nat
  BY <1>1, NoneOwed DEF ControlOK, Counted
<1>4. InAw = 0 /\ InTodo = 0
  BY <1>3
<1>5. Aw = {} /\ Todo = {}
  BY <1>4, NoneOwed DEF ControlOK
<1> QED
  BY <1>2, <1>5, BurstsMove DEF NoTraffic

\* Before a clear and when it begins, no byte of the bitmap says anything.
LEMMA ExactRests ==
  ASSUME ControlOK, Exact, NEW k \in BusOffers, NEW u \in Uses, MemoryCycle(k, u[1], u[2]),
         Resting \/ u[2] # NoClear
  PROVE  Exact'
<1>1. /\ ~clearing /\ cur_update_state = "UpdateIdle" /\ bitmapUpdateReqFifo = <<>>
      /\ write_bursts_pending_confirm = 0 /\ u[1] = NoReq
      /\ u[2] # NoClear => ~clearReq
  BY RestsWhen
<1> DEFINE empty == bitmapAddr_end <= Begin
<1>2. /\ NoTraffic(k)
      /\ initialized' = IF clearReq THEN empty ELSE initialized
      /\ clearing' = (clearReq /\ ~empty)
      /\ clearReq' = (u[2] # NoClear)
      /\ bitmap_size' = IF u[2] # NoClear THEN u[2] ELSE bitmap_size
      /\ clearAddr_next' = IF clearReq THEN Begin ELSE clearAddr_next
      /\ cur_update_state' = "UpdateIdle"
      /\ bitmapUpdateReqFifo' = <<>>
  BY <1>1, Rests
<1>3. Aw' = {} /\ Todo' = {}
  BY RestsEmpty
<1>4. ASSUME clearing', NEW a \in Region' PROVE Owes(a, 0)'
  <2>1. clearReq /\ u[2] = NoClear /\ bitmap_size' = bitmap_size
    BY <1>1, <1>2, <1>4
  <2>2. hits' = hits
    BY <1>1, <2>1, HitsStep DEF ControlOK, MemoryCycle
  <2>3. a \in Addrs
    <3>1. Region' = Region
      BY <2>1 DEF Region, bitmapAddr_end
    <3> QED
      BY <1>4, <3>1, RegionInMemory DEF ControlOK
  <2>4. hits'[a] = 0
    BY <2>1, <2>2, <2>3 DEF ControlOK, RestOK, Resting
  <2>5. Waiting(a)' = 0
    <3>1. CountIn(<<>>, Asks(a)') = 0
      <4> DEFINE A == Asks(a)'
      <4> HIDE DEF A
      <4>1. <<>> \in Seq({}) /\ \A n \in DOMAIN <<>> : <<>>[n] \notin A
        OBVIOUS
      <4>2. CountIn(<<>>, A) = 0
        BY <4>1, CountType
      <4> QED
        BY <4>2 DEF A
    <3>2. Waiting(a)' = CountIn(<<>>, Asks(a)') + 0
      BY <1>2 DEF Waiting, Serving, One
    <3> QED
      BY <3>1, <3>2
  <2>6. Sat(0 + 0) = 0
    BY BitmapAssumption DEF Sat
  <2> QED
    BY <2>4, <2>5, <2>6 DEF Owes
<1>5. ASSUME ~Resting', NEW a \in Region' PROVE clearing' /\ a >= clearAddr_next'
  <2>1. clearReq /\ bitmap_size' = bitmap_size
    BY <1>1, <1>2, <1>5 DEF Resting
  <2>2. Region' = Region
    BY <2>1 DEF Region, bitmapAddr_end
  <2>3. a \in Int /\ Begin <= a /\ a < bitmapAddr_end /\ bitmapAddr_end \in Nat /\ Begin \in Nat
    BY <1>5, <2>2, RegionInMemory DEF ControlOK
  <2>4. ~empty /\ a >= Begin
    BY <2>3
  <2>5. clearing' /\ clearAddr_next' = Begin
    BY <1>2, <2>1, <2>4
  <2> QED
    BY <2>4, <2>5
<1>6. TodoExact'
  BY <1>3 DEF TodoExact
<1>7. AwExact'
  BY <1>3, <1>4 DEF AwExact
<1>8. MemoryExact'
  BY <1>5 DEF MemoryExact
<1> QED
  BY <1>6, <1>7, <1>8 DEF Exact

\* A clear sends zeros to the words of the bitmap, in their order.
LEMMA ClearSends ==
  ASSUME ControlOK, AwExact, NEW k \in BusOffers, NEW u \in Uses, MemoryCycle(k, u[1], u[2]),
         clearing
  PROVE  /\ k.wa = Bitmap => /\ NewAw(k).addr = clearAddr_next
                             /\ Word(clearAddr_next) \subseteq Region
                             /\ clearing'
                             /\ clearAddr_next' = clearAddr_next + WordBytes
         /\ k.wd = Bitmap => /\ NewTodo(k).data = 0
                             /\ Bytes(NewTodo(k)) = Word(Taken(k)[1].addr)
                             /\ Word(Taken(k)[1].addr) \subseteq Region
         /\ Aw # {} => clearing'
         /\ \A a : a \in Word(clearAddr_next) <=>
              a \in Int /\ clearAddr_next <= a /\ a < clearAddr_next + WordBytes
<1> DEFINE ends == clearAddr_next = bitmapAddr_end /\ clear_beats_pending = 0
<1>1. /\ k.wa = Bitmap => clearAddr_next # bitmapAddr_end
      /\ clearing' = ~ends
      /\ clearAddr_next' = IF k.wa = Bitmap THEN clearAddr_next + WordBytes ELSE clearAddr_next
  BY ClearsStep
<1>2. /\ clearAddr_next \in Nat /\ WordBytes \in Nat \ {0} /\ Begin \in Nat
      /\ Begin <= clearAddr_next
  BY BitmapAssumption DEF ControlOK, CoreTyped, ClearOK
<1>3. \A a : a \in Word(clearAddr_next) <=>
              a \in Int /\ clearAddr_next <= a /\ a < clearAddr_next + WordBytes
  <2>1. ASSUME NEW a, a \in Int, clearAddr_next <= a, a < clearAddr_next + WordBytes
        PROVE  a \in Word(clearAddr_next)
    <3>1. a - clearAddr_next \in 0..(WordBytes - 1) /\ a = clearAddr_next + (a - clearAddr_next)
      BY <1>2, <2>1
    <3> QED
      BY <3>1 DEF Word
  <2>2. ASSUME NEW i \in 0..(WordBytes - 1)
        PROVE  LET a == clearAddr_next + i IN
               a \in Int /\ clearAddr_next <= a /\ a < clearAddr_next + WordBytes
    BY <1>2
  <2> QED
    BY <2>1, <2>2 DEF Word
<1>4. ASSUME clearAddr_next # bitmapAddr_end PROVE Word(clearAddr_next) \subseteq Region
  <2>1. PICK n \in Nat : bitmapAddr_end = clearAddr_next + n * WordBytes
    BY DEF ControlOK, ClearOK
  <2>2. n # 0
    BY <1>2, <1>4, <2>1
  <2>3. n * WordBytes = WordBytes + (n - 1) * WordBytes /\ (n - 1) * WordBytes \in Nat
    BY <1>2, <2>2
  <2> DEFINE more == (n - 1) * WordBytes
  <2>4. more \in Nat /\ bitmapAddr_end = clearAddr_next + (WordBytes + more)
    BY <2>1, <2>3
  <2> HIDE DEF more
  <2>5. clearAddr_next + WordBytes <= bitmapAddr_end
    BY <1>2, <2>4
  <2>6. \A a : a \in Region <=> a \in Int /\ Begin <= a /\ a < bitmapAddr_end
    BY RegionInMemory DEF ControlOK
  <2>7. bitmapAddr_end \in Nat
    BY RegionInMemory DEF ControlOK
  <2>8. \A a \in Word(clearAddr_next) : a \in Int /\ Begin <= a /\ a < bitmapAddr_end
    BY <1>2, <1>3, <2>5, <2>7
  <2> QED
    BY <2>6, <2>8
<1>5. k.wa = Bitmap => NewAw(k).addr = clearAddr_next
  BY DEF NewAw, writeAddrReq
<1>6. ASSUME k.wd = Bitmap
      PROVE  /\ NewTodo(k).data = 0
             /\ Bytes(NewTodo(k)) = Word(Taken(k)[1].addr)
             /\ Word(Taken(k)[1].addr) \subseteq Region
  <2>1. /\ NewTodo(k).data = 0 /\ NewTodo(k).strb = 0..(WordBytes - 1)
        /\ NewTodo(k).addr = Taken(k)[1].addr
    BY <1>6 DEF NewTodo, writeDataReq
  <2>2. Bytes(NewTodo(k)) = Word(Taken(k)[1].addr)
    BY <2>1 DEF Bytes, Word
  <2>3. Word(Taken(k)[1].addr) \subseteq Region
    <3>1. Taken(k)[1] \in Aw \/ (k.wa = Bitmap /\ Taken(k)[1] = NewAw(k))
      BY <1>6, BurstsMove
    <3>2. \A b \in Aw : Word(b.addr) \subseteq Region
      BY DEF AwExact
    <3>3. k.wa = Bitmap => Word(NewAw(k).addr) \subseteq Region
      BY <1>1, <1>4, <1>5
    <3> QED
      BY <3>1, <3>2, <3>3
  <2> QED
    BY <2>1, <2>2, <2>3
<1>7. Aw # {} => clearing'
  <2>1. Aw # {} => InAw # 0
    BY NoneOwed DEF ControlOK
  <2>2. clear_beats_pending = InAw
    BY DEF ControlOK, Counted
  <2> QED
    BY <1>1, <2>1, <2>2
<1> QED
  BY <1>1, <1>3, <1>4, <1>5, <1>6, <1>7

\* While the memory is cleared, each byte is ahead, on its way or zero.
LEMMA ExactClears ==
  ASSUME ControlOK, Exact, NEW k \in BusOffers, NEW u \in Uses, MemoryCycle(k, u[1], u[2]),
         clearing
  PROVE  Exact'
<1>0. u[2] = NoClear /\ bitmap_size' = bitmap_size
  BY ClearsStep
<1>1. Region' = Region
  BY <1>0 DEF Region, bitmapAddr_end
<1>2. ASSUME NEW a \in Region PROVE Counts(a, 0)
  <2>1. Owes(a, 0) /\ a \in Addrs
    BY RegionInMemory DEF Exact, AwExact, ControlOK
  <2>2. 0 \in 0..CountMax /\ ~Serves(k, a)
    BY BitmapAssumption DEF Serves
  <2> QED
    BY <1>0, <2>1, <2>2, OwesStep DEF Counts
<1>3. AwExact
  BY DEF Exact
<1>4. /\ k.wa = Bitmap => /\ NewAw(k).addr = clearAddr_next
                          /\ Word(clearAddr_next) \subseteq Region
                          /\ clearing'
                          /\ clearAddr_next' = clearAddr_next + WordBytes
      /\ k.wd = Bitmap => /\ NewTodo(k).data = 0
                          /\ Bytes(NewTodo(k)) = Word(Taken(k)[1].addr)
                          /\ Word(Taken(k)[1].addr) \subseteq Region
      /\ Aw # {} => clearing'
      /\ \A a : a \in Word(clearAddr_next) <=>
           a \in Int /\ clearAddr_next <= a /\ a < clearAddr_next + WordBytes
  BY <1>3, ClearSends
<1>5. /\ \A b \in Aw' : b \in Aw \/ (k.wa = Bitmap /\ b = NewAw(k))
      /\ \A b \in Aw : b \in Aw' \/ (k.wd = Bitmap /\ b = Taken(k)[1])
      /\ k.wa = Bitmap => NewAw(k) \in Aw' \/ (k.wd = Bitmap /\ NewAw(k) = Taken(k)[1])
      /\ \A b \in Todo' : b \in Todo \/ (k.wd = Bitmap /\ b = NewTodo(k))
  BY BurstsMove
<1>6. ASSUME NEW a \in Region
      PROVE  /\ \A b \in Todo : a \in Bytes(b) => Counts(a, b.data)
             /\ (\E b \in Todo : a \in Bytes(b)) \/ Owes(a, memory[a]) =>
                  (\E b \in Todo' : a \in Bytes(b)) \/ Counts(a, memory'[a])
  BY <1>0, ExactMoves DEF Serves
<1>7. ASSUME NEW a \in Region, k.wd = Bitmap, a \in Word(Taken(k)[1].addr)
      PROVE  (\E b \in Todo' : a \in Bytes(b)) \/ Counts(a, memory'[a])
  BY <1>2, <1>4, <1>7, ExactSends, RegionInMemory DEF ControlOK
<1>8. TodoExact'
  <2>1. ASSUME NEW b \in Todo', NEW a \in Bytes(b), a \in Region
        PROVE  Counts(a, b.data)
    <3>1. CASE b \in Todo
      BY <1>6, <2>1, <3>1
    <3>2. CASE k.wd = Bitmap /\ b = NewTodo(k)
      BY <1>2, <1>4, <2>1, <3>2
    <3> QED
      BY <1>5, <3>1, <3>2
  <2>2. ASSUME NEW b \in Todo', NEW a \in (Bytes(b) \cap Region)'
        PROVE  Owes(a, b.data)'
    <3>1. a \in Bytes(b) /\ a \in Region
      BY <1>1, <2>2 DEF Bytes
    <3>2. Counts(a, b.data)
      BY <2>1, <3>1
    <3> QED
      BY <3>2 DEF Counts, Owes, Sat
  <2> QED
    BY <2>2 DEF TodoExact
<1>9. AwExact'
  <2>1. ASSUME clearing', NEW b \in Aw' PROVE Word(b.addr) \subseteq Region
    BY <1>3, <1>4, <1>5, <2>1 DEF AwExact
  <2>2. ASSUME NEW a \in Region' PROVE Owes(a, 0)'
    <3>1. Counts(a, 0)
      BY <1>1, <1>2, <2>2
    <3> QED
      BY <3>1 DEF Counts, Owes, Sat
  <2>3. ~clearing' => Aw' = {}
    BY <1>4, <1>5
  <2>4. clearing' => \A b \in Aw' : Word(b.addr)' \subseteq Region'
    BY <1>1, <2>1 DEF Word
  <2> QED
    BY <2>2, <2>3, <2>4 DEF AwExact
<1>10. MemoryExact'
  <2>0. ~Resting /\ clearAddr_next \in Nat /\ WordBytes \in Nat
    BY BitmapAssumption DEF ControlOK, CoreTyped, RestOK
  <2> SUFFICES ASSUME NEW a \in Region
               PROVE  \/ clearing' /\ a >= clearAddr_next'
                      \/ clearing' /\ \E b \in Aw' : a \in Word(b.addr)
                      \/ \E b \in Todo' : a \in Bytes(b)
                      \/ Counts(a, memory'[a])
    <3>1. \A a : Owes(a, memory[a])' <=> Counts(a, memory'[a])
      BY DEF Counts, Owes, Sat
    <3> QED
      BY <1>1, <3>1 DEF MemoryExact, Word, Bytes
  <2>1. \/ a >= clearAddr_next
        \/ \E b \in Aw : a \in Word(b.addr)
        \/ \E b \in Todo : a \in Bytes(b)
        \/ Owes(a, memory[a])
    BY <2>0 DEF Exact, MemoryExact
  <2>2. CASE a >= clearAddr_next
    <3>1. a \in Int /\ a < bitmapAddr_end
      BY RegionInMemory DEF ControlOK
    <3>2. CASE k.wa # Bitmap
      <4>1. clearAddr_next # bitmapAddr_end
        BY <2>0, <2>2, <3>1, RegionInMemory DEF ControlOK
      <4> QED
        BY <2>2, <3>2, <4>1, ClearsStep
    <3>3. CASE k.wa = Bitmap
      <4>1. a >= clearAddr_next' \/ a \in Word(NewAw(k).addr)
        BY <1>4, <2>0, <2>2, <3>1, <3>3
      <4>2. a \in Word(NewAw(k).addr) =>
              (\E b \in Aw' : a \in Word(b.addr)) \/ (k.wd = Bitmap /\ a \in Word(Taken(k)[1].addr))
        BY <1>5, <3>3
      <4> QED
        BY <1>4, <1>7, <3>3, <4>1, <4>2
    <3> QED
      BY <3>2, <3>3
  <2>3. CASE \E b \in Aw : a \in Word(b.addr)
    <3>1. clearing'
      BY <1>4, <2>3
    <3>2. (\E b \in Aw' : a \in Word(b.addr)) \/ (k.wd = Bitmap /\ a \in Word(Taken(k)[1].addr))
      BY <1>5, <2>3
    <3> QED
      BY <1>7, <3>1, <3>2
  <2>4. CASE (\E b \in Todo : a \in Bytes(b)) \/ Owes(a, memory[a])
    BY <1>6, <2>4
  <2> QED
    BY <2>1, <2>2, <2>3, <2>4
<1> QED
  BY <1>8, <1>9, <1>10 DEF Exact

\* An update sends one byte: the entry it was read from, and one more.
LEMMA CountSends ==
  ASSUME ControlOK, AwExact, NEW k \in BusOffers, NEW u \in Uses, MemoryCycle(k, u[1], u[2]),
         ~clearing, ~Resting, u[2] = NoClear
  PROVE  /\ k.wa = Bitmap => NewAw(k).addr = wordAddr(cur_request_addr)
         /\ k.wd = Bitmap =>
              /\ Bytes(NewTodo(k)) = {cur_request_addr}
              /\ cur_request_addr = entry(cur_request)
              /\ NewTodo(k).data = IF memory[cur_request_addr] = CountMax THEN CountMax
                                   ELSE memory[cur_request_addr] + 1
              /\ Todo = {} /\ ~Confirmed(k)
<1>1. k.wa = Bitmap => NewAw(k).addr = wordAddr(cur_request_addr)
  BY DEF NewAw, writeAddrReq
<1>2. ASSUME k.wd = Bitmap
      PROVE  /\ Bytes(NewTodo(k)) = {cur_request_addr}
             /\ cur_request_addr = entry(cur_request)
             /\ NewTodo(k).data = IF memory[cur_request_addr] = CountMax THEN CountMax
                                  ELSE memory[cur_request_addr] + 1
             /\ Todo = {} /\ ~Confirmed(k)
  <2>1. cur_update_state = "UpdateWrite"
    BY <1>2, UpdatesFrame
  <2>2. /\ cur_request_addr = entry(cur_request)
        /\ cur_request_readdata = memory[cur_request_addr]
        /\ InTodo = 0
    BY <2>1 DEF ControlOK, UpdateOK
  <2>3. ~Confirmed(k)
    BY <2>1, WriteStep
  <2>4. Todo = {}
    BY <2>2, NoneOwed DEF ControlOK
  <2>5. Taken(k)[1].addr = wordAddr(cur_request_addr)
    BY <1>1, <1>2, BurstsMove DEF AwExact
  <2>6. /\ NewTodo(k).data = counter_updated
        /\ NewTodo(k).strb = {cur_request_addr % WordBytes}
        /\ NewTodo(k).addr = wordAddr(cur_request_addr)
    BY <1>2, <2>5 DEF NewTodo, writeDataReq
  <2>7. Bytes(NewTodo(k)) = {cur_request_addr}
    <3> DEFINE i == cur_request_addr % WordBytes
    <3>1. cur_request_addr \in Nat /\ WordBytes \in Nat \ {0} /\ i \in Int
      BY BitmapAssumption DEF ControlOK, CoreTyped
    <3> HIDE DEF i
    <3>2. (cur_request_addr - i) + i = cur_request_addr
      BY <3>1
    <3>3. NewTodo(k).addr = cur_request_addr - i /\ NewTodo(k).strb = {i}
      BY <2>6 DEF i, wordAddr
    <3> QED
      BY <3>2, <3>3 DEF Bytes
  <2> QED
    BY <2>2, <2>3, <2>4, <2>6, <2>7 DEF counter_updated
<1> QED
  BY <1>1, <1>2

\* While requests are counted, each byte holds its count or has it on its way.
LEMMA ExactCounts ==
  ASSUME ControlOK, Exact, NEW k \in BusOffers, NEW u \in Uses, MemoryCycle(k, u[1], u[2]),
         ~clearing, ~Resting, u[2] = NoClear
  PROVE  Exact'
<1>0. bitmap_size' = bitmap_size /\ clearing' = FALSE
  BY UpdatesFrame
<1>1. Region' = Region
  BY <1>0 DEF Region, bitmapAddr_end
<1>2. AwExact
  BY DEF Exact
<1>3. /\ k.wa = Bitmap => NewAw(k).addr = wordAddr(cur_request_addr)
      /\ k.wd = Bitmap =>
           /\ Bytes(NewTodo(k)) = {cur_request_addr}
           /\ cur_request_addr = entry(cur_request)
           /\ NewTodo(k).data = IF memory[cur_request_addr] = CountMax THEN CountMax
                                ELSE memory[cur_request_addr] + 1
           /\ Todo = {} /\ ~Confirmed(k)
  BY <1>2, CountSends
<1>4. ASSUME NEW a \in Region
      PROVE  (\E b \in Todo : a \in Bytes(b)) \/ Owes(a, memory[a])
  BY DEF Exact, MemoryExact
<1>5. ASSUME NEW a \in Region, ~Serves(k, a)
      PROVE  /\ \A b \in Todo : a \in Bytes(b) => Counts(a, b.data)
             /\ (\E b \in Todo' : a \in Bytes(b)) \/ Counts(a, memory'[a])
  BY <1>4, <1>5, ExactMoves
<1>6. ASSUME NEW a \in Region, Serves(k, a)
      PROVE  /\ k.wd = Bitmap /\ a \in Bytes(NewTodo(k)) /\ Counts(a, NewTodo(k).data)
             /\ Todo = {}
  <2>1. k.wd = Bitmap /\ a = cur_request_addr /\ Todo = {}
    BY <1>3, <1>6 DEF Serves
  <2>2. Owes(a, memory[a])
    BY <1>4, <2>1
  <2>3. a \in Addrs
    BY RegionInMemory DEF ControlOK
  <2>4. memory[a] \in 0..CountMax
    BY <2>3 DEF ControlOK, MemoryTyped
  <2>5. hits'[a] = Sat((IF memory[a] = CountMax THEN CountMax ELSE memory[a] + 1) + Waiting(a)')
    BY <1>6, <2>2, <2>3, <2>4, OwesStep
  <2> QED
    BY <1>3, <2>1, <2>5 DEF Counts
<1>7. ASSUME NEW a \in Region
      PROVE  (\E b \in Todo' : a \in Bytes(b)) \/ Counts(a, memory'[a])
  BY <1>5, <1>6, ExactSends, RegionInMemory DEF ControlOK
<1>8. TodoExact'
  <2>1. ASSUME NEW b \in Todo', NEW a \in Bytes(b), a \in Region
        PROVE  Counts(a, b.data)
    <3>1. b \in Todo \/ (k.wd = Bitmap /\ b = NewTodo(k))
      BY BurstsMove
    <3>2. CASE b \in Todo
      BY <1>5, <1>6, <2>1, <3>2
    <3>3. CASE k.wd = Bitmap /\ b = NewTodo(k)
      <4>1. Serves(k, a)
        BY <1>3, <2>1, <3>3 DEF Serves
      <4> QED
        BY <1>6, <2>1, <3>3, <4>1
    <3> QED
      BY <3>1, <3>2, <3>3
  <2>2. ASSUME NEW b \in Todo', NEW a \in (Bytes(b) \cap Region)'
        PROVE  Owes(a, b.data)'
    <3>1. a \in Bytes(b) /\ a \in Region
      BY <1>1, <2>2 DEF Bytes
    <3>2. Counts(a, b.data)
      BY <2>1, <3>1
    <3> QED
      BY <3>2 DEF Counts, Owes, Sat
  <2> QED
    BY <2>2 DEF TodoExact
<1>9. AwExact'
  <2>1. ASSUME NEW b \in Aw' PROVE b.addr = wordAddr(cur_request_addr')
    <3>1. CASE cur_update_state = "UpdateWrite"
      <4>1. cur_request_addr' = cur_request_addr
        BY <3>1, WriteStep
      <4>2. b.addr = wordAddr(cur_request_addr)
        BY <1>2, <1>3, BurstsMove DEF AwExact
      <4> QED
        BY <4>1, <4>2
    <3>2. CASE cur_update_state # "UpdateWrite"
      <4>1. k.wa # Bitmap
        BY <3>2, UpdatesFrame
      <4>2. ~cur_request_waddr_set
        BY <3>2 DEF ControlOK, UpdateOK
      <4>3. InAw = 0
        BY <4>2 DEF ControlOK, Counted, One
      <4>4. Aw = {}
        BY <4>3, NoneOwed DEF ControlOK
      <4> QED
        BY <2>1, <4>1, <4>4, BurstsMove
    <3> QED
      BY <3>1, <3>2
  <2> QED
    BY <1>0, <2>1 DEF AwExact, wordAddr
<1>10. MemoryExact'
  <2>1. \A a : Owes(a, memory[a])' <=> Counts(a, memory'[a])
    BY DEF Counts, Owes, Sat
  <2> QED
    BY <1>1, <1>7, <2>1 DEF MemoryExact, Bytes
<1> QED
  BY <1>8, <1>9, <1>10 DEF Exact

\* The counts are exact in every behaviour.
LEMMA CountedExactly == Spec => [](ControlOK /\ Exact)
<1>1. Init => Exact
  <2> SUFFICES ASSUME Init PROVE Exact
    OBVIOUS
  <2>1. /\ bus.aw = <<>> /\ bus.todo = <<>> /\ clearReq = FALSE
        /\ initialized = FALSE /\ clearing = FALSE
    BY DEF Init, BitmapInit
  <2>2. Aw = {} /\ Todo = {}
    BY <2>1 DEF Aw, Todo, Elements
  <2> QED
    BY <2>1, <2>2 DEF Exact, TodoExact, AwExact, MemoryExact, Resting
<1>2. ControlOK /\ Exact /\ [Next]_vars => (ControlOK /\ Exact)'
  <2> SUFFICES ASSUME ControlOK, Exact, [Next]_vars PROVE (ControlOK /\ Exact)'
    OBVIOUS
  <2>1. ASSUME NEW k \in BusOffers, NEW u \in Uses, MemoryCycle(k, u[1], u[2])
        PROVE  Exact'
    BY <2>1, ExactRests, ExactClears, ExactCounts, UsesAre
  <2>2. CASE UNCHANGED vars
    BY <2>2, ControlStays
    DEF Exact, TodoExact, AwExact, MemoryExact, Todo, Aw, Elements, Bytes, Word, Region, Owes,
        Waiting, Serving, Asks, CountIn, Places, Resting, bitmapAddr_end, entry, wordAddr,
        vars, bitmapVars, clearVars, updateVars, busVars
  <2> QED
    BY <2>1, <2>2, ControlKept DEF Next
<1> QED
  BY <1>1, <1>2, ControlInit, PTL DEF Spec

\* Whenever the core says the bitmap is flushed, every entry counts exactly the
\* hashes handed over since the clear, up to saturation.
THEOREM BitmapFlushedIsExact == Spec => []FlushedIsExact
<1>1. ControlOK /\ Exact => FlushedIsExact
  <2> SUFFICES ASSUME ControlOK, Exact, isFlushed, ~clearReq, NEW a \in Region
               PROVE  memory[a] = hits[a]
    BY DEF FlushedIsExact
  <2>1. /\ initialized /\ cur_update_state = "UpdateIdle" /\ bitmapUpdateReqFifo = <<>>
        /\ write_bursts_pending_confirm = 0
    BY DEF isFlushed
  <2>2. ~clearing /\ ~Resting
    BY <2>1 DEF ControlOK, ClearOK, Resting
  <2>3. Todo = {}
    <3>1. InAw \in Nat /\ InTodo \in Nat /\ InAw + InTodo = 0
      BY <2>1, NoneOwed DEF ControlOK, Counted
    <3>2. InTodo = 0
      BY <3>1
    <3> QED
      BY <3>2, NoneOwed DEF ControlOK
  <2>4. Owes(a, memory[a])
    BY <2>2, <2>3 DEF Exact, MemoryExact
  <2>5. Waiting(a) = 0
    <3> DEFINE A == Asks(a)
    <3> HIDE DEF A
    <3>1. <<>> \in Seq({}) /\ \A n \in DOMAIN <<>> : <<>>[n] \notin A
      OBVIOUS
    <3>2. CountIn(<<>>, A) = 0
      BY <3>1, CountType
    <3> QED
      BY <2>1, <3>2 DEF Waiting, Serving, One, A
  <2>6. memory[a] \in 0..CountMax
    BY RegionInMemory DEF ControlOK, MemoryTyped
  <2> QED
    BY <2>4, <2>5, <2>6, BitmapAssumption DEF Owes, Sat
<1> QED
  BY <1>1, CountedExactly, PTL

(***************************************************************************)
(* Where the writes go.  A bitmap that has been asked for has a size, and   *)
(* what the bus owes for it is in it.                                       *)
(***************************************************************************)
Inside ==
  /\ clearReq \/ initialized \/ clearing => bitmap_size # 0
  /\ \A b \in Todo : Bytes(b) \subseteq Region

\* No cycle makes the bus owe a write outside the bitmap.
LEMMA InsideKept ==
  ASSUME 0 \notin Sizes, ControlOK, Exact, Inside,
         NEW k \in BusOffers, NEW u \in Uses, MemoryCycle(k, u[1], u[2])
  PROVE  Inside'
<1>0. AwExact
  BY DEF Exact
<1>1. CASE Resting \/ u[2] # NoClear
  <2>1. Aw' = {} /\ Todo' = {}
    BY <1>1, RestsEmpty
  <2>2. /\ ~clearing /\ cur_update_state = "UpdateIdle" /\ bitmapUpdateReqFifo = <<>>
        /\ write_bursts_pending_confirm = 0 /\ u[1] = NoReq
    BY <1>1, RestsWhen
  <2>3. /\ initialized' => clearReq \/ initialized
        /\ clearing' => clearReq
        /\ clearReq' = (u[2] # NoClear)
        /\ bitmap_size' = IF u[2] # NoClear THEN u[2] ELSE bitmap_size
    BY <2>2, Rests
  <2>4. u[2] # NoClear => u[2] # 0
    BY UsesAre
  <2>5. clearReq' \/ initialized' \/ clearing' => bitmap_size' # 0
    BY <2>3, <2>4 DEF Inside
  <2> QED
    BY <2>1, <2>5 DEF Inside
<1>2. CASE clearing
  <2>1. bitmap_size' = bitmap_size /\ bitmap_size # 0
    BY <1>2, ClearsStep DEF Inside
  <2>2. Region' = Region
    BY <2>1 DEF Region, bitmapAddr_end
  <2>3. k.wd = Bitmap => Bytes(NewTodo(k)) \subseteq Region
    BY <1>0, <1>2, ClearSends
  <2>4. \A b \in Todo' : Bytes(b) \subseteq Region
    BY <2>3, BurstsMove DEF Inside
  <2> QED
    BY <2>1, <2>2, <2>4 DEF Inside, Bytes
<1>3. CASE ~clearing /\ ~Resting /\ u[2] = NoClear
  <2>1. bitmap_size' = bitmap_size /\ bitmap_size # 0
    BY <1>3, UpdatesFrame DEF Inside
  <2>2. Region' = Region
    BY <2>1 DEF Region, bitmapAddr_end
  <2>3. entry(cur_request) \in Region
    <3>1. cur_request \in Nat /\ bitmap_size \in Sizes \cup {0}
      BY BitmapAssumption DEF ControlOK, CoreTyped
    <3> QED
      BY <2>1, <3>1, EntryInMemory
  <2>4. k.wd = Bitmap => Bytes(NewTodo(k)) \subseteq Region
    BY <1>0, <1>3, <2>3, CountSends
  <2>5. \A b \in Todo' : Bytes(b) \subseteq Region
    BY <2>4, BurstsMove DEF Inside
  <2> QED
    BY <2>1, <2>2, <2>5 DEF Inside, Bytes
<1> QED
  BY <1>1, <1>2, <1>3

\* Clearing and counting write inside the bitmap and nowhere else, if no size is 0:
\* isValidSize lets 0 through, and an update then writes where the bitmap would begin.
THEOREM BitmapOnlyBitmapWritten ==
  ASSUME 0 \notin Sizes
  PROVE  Spec => OnlyBitmapWritten
<1> DEFINE IInv == ControlOK /\ Exact /\ Inside
<1>1. Init => Inside
  BY DEF Init, BitmapInit, Inside, Todo, Elements
<1>2. IInv /\ [Next]_vars => Inside'
  <2> SUFFICES ASSUME IInv, [Next]_vars PROVE Inside'
    OBVIOUS
  <2>1. CASE Next
    BY <2>1, InsideKept DEF Next
  <2>2. CASE UNCHANGED vars
    BY <2>2 DEF Inside, Todo, Elements, Bytes, Region, bitmapAddr_end,
                vars, bitmapVars, clearVars, updateVars, busVars
  <2> QED
    BY <2>1, <2>2
<1>3. IInv /\ [Next]_vars => [\A a \in Addrs \ Region : memory'[a] = memory[a]]_vars
  <2> SUFFICES ASSUME IInv, Next, NEW a \in Addrs \ Region
               PROVE  memory'[a] = memory[a]
    OBVIOUS
  <2>1. PICK k \in BusOffers, u \in Uses : MemoryCycle(k, u[1], u[2])
    BY DEF Next
  <2>2. /\ Confirmed(k) => bus.todo[1] \in Todo
        /\ ~(Confirmed(k) /\ a \in Bytes(bus.todo[1])) => memory'[a] = memory[a]
    BY <2>1, MemoryStep
  <2> QED
    BY <2>2 DEF Inside
<1>4. Spec => []Inside
  BY <1>1, <1>2, CountedExactly, PTL DEF Spec
<1> QED
  BY <1>3, <1>4, CountedExactly, PTL DEF Spec, OnlyBitmapWritten

(***************************************************************************)
(* The bitmap as its user sees it: what may be asked of it, and what comes  *)
(* of a cycle.                                                              *)
(***************************************************************************)
AtRest == ~clearReq /\ ~clearing /\ (initialized => isFlushed)
MayPut(req) == req \in Hashes /\ (initialized \/ clearing) /\ ~clearReq /\ canPutReq
MayClear(clear) == clear \in Sizes /\ AtRest

\* A clear that is asked for begins in the next cycle; a bitmap that is or gets ready
\* stays so until then, and one at rest stays at rest while it is handed nothing.
LEMMA AsUsed ==
  ASSUME ControlOK, NEW k \in BusOffers, NEW req, NEW clear, MemoryCycle(k, req, clear),
         req # NoReq => MayPut(req), clear # NoClear => MayClear(clear),
         req = NoReq \/ clear = NoClear
  PROVE  /\ Next /\ ControlOK'
         /\ clearReq' = (clear # NoClear)
         /\ bitmap_size' = IF clear # NoClear THEN clear ELSE bitmap_size
         /\ clearReq \/ initialized \/ clearing => clearReq' \/ initialized' \/ clearing'
         /\ initialized /\ ~clearReq => initialized'
         /\ req = NoReq /\ AtRest => /\ ~clearing' /\ initialized' = initialized
                                     /\ initialized' => isFlushed'
         /\ clear # NoClear => \A a \in Addrs : hits'[a] = 0
         /\ clear = NoClear => \A a \in Addrs :
              hits'[a] = IF req # NoReq /\ a = entry(req) /\ hits[a] # CountMax
                         THEN hits[a] + 1 ELSE hits[a]
<1> DEFINE u == <<req, clear>>
<1>1. u \in Uses /\ u[1] = req /\ u[2] = clear
  <2>1. req \in Requests
    BY DEF MayPut, Requests
  <2>2. clear \in Clears
    BY DEF MayClear, AtRest, Clears
  <2> QED
    BY <2>1, <2>2 DEF Uses
<1>2. MemoryCycle(k, u[1], u[2])
  BY <1>1
<1> HIDE DEF u
<1>3. Next /\ ControlOK'
  BY <1>1, <1>2, ControlKept DEF Next
<1>4. CoreTyped /\ MemoryTyped /\ countHits(u[1], u[2])
  BY <1>2 DEF ControlOK, MemoryCycle
<1>5. /\ u[2] # NoClear => \A a \in Addrs : hits'[a] = 0
      /\ u[2] = NoClear => \A a \in Addrs :
           hits'[a] = IF u[1] # NoReq /\ a = entry(u[1]) /\ hits[a] # CountMax
                      THEN hits[a] + 1 ELSE hits[a]
  BY <1>1, <1>4, HitsStep
<1>6. CASE Resting \/ u[2] # NoClear
  <2>1. /\ ~clearing /\ cur_update_state = "UpdateIdle" /\ bitmapUpdateReqFifo = <<>>
        /\ write_bursts_pending_confirm = 0 /\ u[1] = NoReq
        /\ u[2] # NoClear => ~clearReq
    BY <1>1, <1>6, RestsWhen
  <2> DEFINE empty == bitmapAddr_end <= Begin
  <2>2. /\ initialized' = IF clearReq THEN empty ELSE initialized
        /\ clearing' = (clearReq /\ ~empty)
        /\ clearReq' = (u[2] # NoClear)
        /\ bitmap_size' = IF u[2] # NoClear THEN u[2] ELSE bitmap_size
        /\ write_bursts_pending_confirm' = 0
        /\ cur_update_state' = "UpdateIdle"
        /\ bitmapUpdateReqFifo' = <<>>
    BY <1>1, <1>2, <2>1, Rests
  <2> HIDE DEF empty
  <2>3. clearReq \/ initialized \/ clearing => clearReq' \/ initialized' \/ clearing'
    BY <2>1, <2>2
  <2>4. initialized /\ ~clearReq => initialized'
    BY <2>2
  <2>5. AtRest => /\ ~clearing' /\ initialized' = initialized
                  /\ initialized' => isFlushed'
    BY <2>2 DEF AtRest, isFlushed
  <2> QED
    BY <1>1, <1>3, <1>5, <2>2, <2>3, <2>4, <2>5
<1>7. CASE ~Resting /\ u[2] = NoClear /\ clearing
  <2>1. /\ ~clearReq /\ clearReq' = FALSE /\ bitmap_size' = bitmap_size
        /\ (initialized' \/ clearing') /\ ~initialized
    BY <1>1, <1>2, <1>7, ClearsStep DEF ControlOK, ClearOK
  <2> QED
    BY <1>1, <1>3, <1>5, <1>7, <2>1 DEF AtRest
<1>8. CASE ~Resting /\ u[2] = NoClear /\ ~clearing
  <2>1. /\ initialized' = TRUE /\ clearing' = FALSE /\ clearReq' = FALSE /\ initialized
        /\ bitmap_size' = bitmap_size
    BY <1>1, <1>2, <1>8, UpdatesFrame
  <2>2. ASSUME req = NoReq, AtRest PROVE isFlushed'
    <3>1. /\ ~clearing /\ cur_update_state = "UpdateIdle" /\ bitmapUpdateReqFifo = <<>>
          /\ write_bursts_pending_confirm = 0 /\ u[1] = NoReq
      BY <1>1, <2>1, <2>2 DEF AtRest, isFlushed
    <3>2. /\ write_bursts_pending_confirm' = 0 /\ cur_update_state' = "UpdateIdle"
          /\ bitmapUpdateReqFifo' = <<>>
      BY <1>1, <1>2, <3>1, Rests
    <3> QED
      BY <2>1, <3>2 DEF isFlushed
  <2> QED
    BY <1>1, <1>3, <1>5, <1>8, <2>1, <2>2 DEF AtRest
<1> QED
  BY <1>6, <1>7, <1>8
=============================================================================
