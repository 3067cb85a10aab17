------------------------- MODULE LoadBalancerProofs -------------------------
(***************************************************************************)
(* The load balancer for any number of workers and callers.  LBInv says    *)
(* what an unlocked reader can find in a backing array while Run rewrites  *)
(* it; from it follow that Next() stays inside the list and that the       *)
(* balancer implements Rotation.                                           *)
(***************************************************************************)
EXTENDS LoadBalancer, SequenceTheorems, TLAPS

-----------------------------------------------------------------------------
(* Backing arrays.                                                         *)

\* A write of one slot of the published array changes that slot and nothing else.
LEMMA SlotWritten ==
  ASSUME TypeOK, HeaderInv, NEW i \in 1..Len(Array), NEW v \in Slot,
         arrays' = [arrays EXCEPT ![slice.arr][i] = v]
  PROVE  /\ arrays' \in Seq(Seq(Slot))
         /\ Len(arrays') = Len(arrays)
         /\ \A a \in 1..Len(arrays) : Len(arrays'[a]) = Len(arrays[a])
         /\ \A a \in 1..Len(arrays) : \A j \in 1..Len(arrays[a]) :
              arrays'[a][j] = IF a = slice.arr /\ j = i THEN v ELSE arrays[a][j]
<1> DEFINE new == [Array EXCEPT ![i] = v]
<1>1. slice.arr \in 1..Len(arrays) /\ arrays \in Seq(Seq(Slot))
  BY DEF TypeOK, HeaderInv
<1>2. Array \in Seq(Slot)
  BY <1>1, ElementOfSeq DEF Array
<1>3. /\ new \in Seq(Slot)
      /\ Len(new) = Len(Array)
      /\ \A j \in 1..Len(Array) : new[j] = IF j = i THEN v ELSE Array[j]
  BY <1>2, ExceptSeq
<1>4. arrays' = [arrays EXCEPT ![slice.arr] = new]
  BY DEF Array
<1> HIDE DEF new
<1>5. /\ arrays' \in Seq(Seq(Slot))
      /\ Len(arrays') = Len(arrays)
      /\ \A a \in 1..Len(arrays) : arrays'[a] = IF a = slice.arr THEN new ELSE arrays[a]
  BY <1>1, <1>3, <1>4, ExceptSeq
<1> QED
  BY <1>3, <1>5 DEF Array

\* append allocated an array: the old ones are as they were.
LEMMA ArrayAppended ==
  ASSUME TypeOK, NEW new \in Seq(Slot), arrays' = Append(arrays, new)
  PROVE  /\ arrays' \in Seq(Seq(Slot))
         /\ Len(arrays') = Len(arrays) + 1
         /\ arrays'[Len(arrays')] = new
         /\ \A a \in 1..Len(arrays) : arrays'[a] = arrays[a]
  BY AppendProperties DEF TypeOK

\* The array growslice makes: a copy, the new worker, and zeroed slots.
LEMMA GrownProperties ==
  ASSUME TypeOK, HeaderInv, cur \in Worker, ~(slice.len < Len(Array))
  PROVE  /\ Grown \in Seq(Slot)
         /\ slice.len + 1 <= Len(Grown)
         /\ \A i \in 1..slice.len : Grown[i] = Array[i]
         /\ Grown[slice.len + 1] = cur
         /\ \A i \in (slice.len + 2)..Len(Grown) : Grown[i] = Nil
<1> DEFINE size == IF slice.len = 0 THEN 1 ELSE 2 * slice.len
<1>1. slice.len \in Nat /\ size \in Nat /\ slice.len + 1 <= size
  BY DEF TypeOK, Header
<1>2. Array \in Seq(Slot) /\ slice.len = Len(Array)
  BY <1>1, ElementOfSeq, LenProperties DEF TypeOK, HeaderInv, Array
<1>3. \A i \in 1..slice.len : Array[i] \in Slot
  BY <1>2, ElementOfSeq
<1> DEFINE slot(i) == IF i <= slice.len THEN Array[i] ELSE IF i = slice.len + 1 THEN cur ELSE Nil
<1>4. \A i \in 1..size : slot(i) \in Slot
  BY <1>1, <1>3 DEF Slot
<1>5. Grown = [i \in 1..size |-> slot(i)]
  BY DEF Grown
<1>6. Grown \in [1..size -> Slot]
  BY <1>4, <1>5
<1> HIDE DEF size
<1>7. Grown \in Seq(Slot) /\ Len(Grown) = size
  BY <1>1, <1>6
<1>8. \A i \in 1..size : Grown[i] = slot(i)
  BY <1>5
<1>9. \A i \in 1..slice.len : Grown[i] = Array[i]
  BY <1>1, <1>8
<1>10. Grown[slice.len + 1] = cur
  BY <1>1, <1>8
<1>11. \A i \in (slice.len + 2)..Len(Grown) : Grown[i] = Nil
  BY <1>1, <1>7, <1>8
<1> QED
  BY <1>1, <1>7, <1>9, <1>10, <1>11

\* Every slot of the published array holds a worker in rotation or nothing.
LEMMA ArrayContent ==
  ASSUME TypeOK, HeaderInv, ContentInv
  PROVE  \A i \in 1..Len(Array) : Array[i] \in InRotation \cup {Nil}
<1> SUFFICES ASSUME NEW i \in 1..Len(Array) PROVE Array[i] \in InRotation \cup {Nil}
  OBVIOUS
<1>1. slice.len \in Nat /\ Len(Array) \in Nat
  BY LenProperties, ElementOfSeq DEF TypeOK, Header, HeaderInv, Array
<1>2. CASE i \in 1..slice.len /\ ~(Removing /\ i = hole)
  BY <1>2 DEF ContentInv, Staying, InRotation
<1>3. CASE Removing /\ i = hole
  BY <1>3 DEF Removing, ContentInv, InRotation
<1>4. CASE i \notin 1..slice.len
  <2>1. i \in (slice.len + 1)..Len(Array)
    BY <1>1, <1>4
  <2> QED
    BY <2>1 DEF HeaderInv, InRotation
<1> QED
  BY <1>2, <1>3, <1>4

-----------------------------------------------------------------------------
(* The steps of Run.                                                       *)

\* NewLoadBalancer: an empty list, no calls.
LEMMA InitInv == Init => ListInv
<1> SUFFICES ASSUME Init PROVE ListInv
  OBVIOUS
<1> USE LBAssumption DEF Init
<1>1. arrays \in Seq(Seq(Slot)) /\ Len(arrays) = 1 /\ arrays[1] = <<>> /\ Len(arrays[1]) = 0
  OBVIOUS
<1>2. TypeOK
  BY <1>1 DEF TypeOK, Header, Slot, NoView
<1>3. HeaderInv
  BY <1>1 DEF HeaderInv, Array
<1>4. ContentInv
  BY <1>1 DEF ContentInv, Array, Staying, Removing
<1>5. ViewInv
  BY <1>1 DEF ViewInv, NoView
<1> QED
  BY <1>2, <1>3, <1>4, <1>5 DEF ListInv

\* A step of Run that puts no new worker in any array leaves every call as it was: what
\* moves between slots, and what is zeroed, was in the array before.
LEMMA ViewsKept ==
  ASSUME TypeOK, ViewInv, UNCHANGED callVars, UNCHANGED candidates,
         slice'.arr \in Nat, slice.arr <= slice'.arr, InRotation' \subseteq InRotation,
         \A a \in 1..slice.arr :
           /\ Len(arrays'[a]) = Len(arrays[a])
           /\ \A j \in 1..Len(arrays[a]) :
                \/ arrays'[a][j] = Nil
                \/ \E k \in 1..Len(arrays[a]) : arrays'[a][j] = arrays[a][k]
  PROVE  ViewInv'
<1> SUFFICES ASSUME NEW c \in Caller
             PROVE  /\ view'[c].arr \in 1..slice'.arr
                    /\ view'[c].len <= Len(arrays'[view'[c].arr])
                    /\ step'[c] # "idle" => InRotation' \subseteq candidates'[c]
                    /\ step'[c] \in {"bump", "type", "data"} =>
                         /\ view'[c].len > 0
                         /\ \A i \in 1..Len(arrays'[view'[c].arr]) :
                              arrays'[view'[c].arr][i] \in candidates'[c] \cup {Nil}
                    /\ step'[c] \in {"type", "data"} => pos'[c] \in 1..view'[c].len
  BY DEF ViewInv
<1> DEFINE a == view[c].arr
<1>1. /\ view' = view /\ step' = step /\ pos' = pos /\ candidates' = candidates
  BY DEF callVars
<1>2. a \in 1..slice.arr /\ slice.arr \in Nat
  BY DEF ViewInv, TypeOK, Header
<1>3. Len(arrays'[a]) = Len(arrays[a])
  BY <1>2
<1>4. step[c] \in {"bump", "type", "data"} =>
        \A i \in 1..Len(arrays'[a]) : arrays'[a][i] \in candidates[c] \cup {Nil}
  <2> SUFFICES ASSUME step[c] \in {"bump", "type", "data"}, NEW i \in 1..Len(arrays'[a])
               PROVE  arrays'[a][i] \in candidates[c] \cup {Nil}
    OBVIOUS
  <2>1. \A k \in 1..Len(arrays[a]) : arrays[a][k] \in candidates[c] \cup {Nil}
    BY DEF ViewInv
  <2>2. \/ arrays'[a][i] = Nil
        \/ \E k \in 1..Len(arrays[a]) : arrays'[a][i] = arrays[a][k]
    BY <1>2, <1>3
  <2> QED
    BY <2>1, <2>2
<1>5. a \in 1..slice'.arr
  BY <1>2
<1> HIDE DEF a
<1>6. /\ view[c].len <= Len(arrays[a])
      /\ step[c] # "idle" => InRotation \subseteq candidates[c]
      /\ step[c] \in {"bump", "type", "data"} => view[c].len > 0
      /\ step[c] \in {"type", "data"} => pos[c] \in 1..view[c].len
  BY DEF ViewInv, a
<1> QED
  BY <1>1, <1>3, <1>4, <1>5, <1>6 DEF a

\* Run accepts a worker that is not in the list, or stops.
LEMMA AcceptInv ==
  ASSUME ListInv, (\E w \in Worker : OnAddWorker(w)) \/ Stop
  PROVE  ListInv'
<1> USE DEF ListInv
<1>1. /\ UNCHANGED <<arrays, slice, names, hole, callVars, histVars>>
      /\ pc = "select" /\ pc' \in {"add", "stopped"}
      /\ cur' \in Slot
      /\ pc' = "add" => cur' \in Worker \ names
  BY DEF OnAddWorker, Stop, TypeOK, Slot
<1>2. InRotation' = InRotation /\ Staying' = Staying /\ ~Removing /\ ~Removing'
  BY <1>1 DEF InRotation, Staying, Removing
<1>3. TypeOK'
  BY <1>1 DEF TypeOK, callVars, histVars
<1>4. HeaderInv'
  BY <1>1 DEF HeaderInv, Array
<1>5. ContentInv'
  BY <1>1, <1>2 DEF ContentInv, Array
<1>6. ViewInv'
  BY <1>1, <1>2, ViewsKept DEF histVars, TypeOK, Header
<1> QED
  BY <1>3, <1>4, <1>5, <1>6

\* append: in place, where the slot after the published ones is unused, or in a new array.
LEMMA AddWriteInv == ASSUME ListInv, AddWrite PROVE ListInv'
<1> USE DEF ListInv
<1>1. /\ pc = "add" /\ pc' = "addStore"
      /\ UNCHANGED <<slice, names, cur, hole, callVars, wasEmpty, turn>>
      /\ cur \in Worker \ names
      /\ slice.arr = Len(arrays) /\ slice.len <= Len(Array)
      /\ slice.len \in Nat /\ slice.arr \in 1..Len(arrays)
  BY DEF AddWrite, ContentInv, HeaderInv, TypeOK, Header
<1>2. /\ InRotation = names /\ InRotation' = names \cup {cur}
      /\ Staying' = names /\ Staying = names /\ ~Removing /\ ~Removing'
  BY <1>1 DEF InRotation, Staying, Removing
<1>3. /\ candidates' \in [Caller -> SUBSET Worker]
      /\ \A c \in Caller : candidates'[c] =
           IF step[c] # "idle" THEN candidates[c] \cup {cur} ELSE candidates[c]
  BY <1>1 DEF AddWrite, Calling, TypeOK
<1>4. /\ Array \in Seq(Slot) /\ Len(Array) \in Nat /\ Len(arrays) \in Nat
      /\ \A a \in 1..Len(arrays) : Len(arrays[a]) \in Nat
  BY <1>1, ElementOfSeq, LenProperties DEF TypeOK, Array
<1>5. /\ arrays' \in Seq(Seq(Slot))
      /\ \A a \in 1..Len(arrays) : Len(arrays'[a]) = Len(arrays[a])
      /\ \A a \in 1..Len(arrays) : \A j \in 1..Len(arrays[a]) :
           arrays'[a][j] = arrays[a][j] \/ (a = slice.arr /\ j = slice.len + 1
                                            /\ arrays'[a][j] = cur)
      /\ Len(arrays) \in {Len(arrays') - 1, Len(arrays')} /\ Len(arrays') \in Nat
      /\ LET new == arrays'[Len(arrays')]
         IN  /\ slice.len + 1 <= Len(new)
             /\ new[slice.len + 1] = cur
             /\ \A i \in 1..slice.len : new[i] = Array[i]
             /\ \A i \in (slice.len + 2)..Len(new) : new[i] = Nil
  <2>1. CASE slice.len < Len(Array)
    <3>1. arrays' = [arrays EXCEPT ![slice.arr][slice.len + 1] = cur]
      BY <2>1 DEF AddWrite
    <3>2. slice.len + 1 \in 1..Len(Array) /\ cur \in Slot
      BY <1>1, <1>4, <2>1 DEF Slot
    <3>3. /\ arrays' \in Seq(Seq(Slot)) /\ Len(arrays') = Len(arrays)
          /\ \A a \in 1..Len(arrays) : Len(arrays'[a]) = Len(arrays[a])
          /\ \A a \in 1..Len(arrays) : \A j \in 1..Len(arrays[a]) :
               arrays'[a][j] = IF a = slice.arr /\ j = slice.len + 1 THEN cur
                                                                    ELSE arrays[a][j]
      BY <3>1, <3>2, SlotWritten
    <3>4. \A i \in (slice.len + 1)..Len(Array) : Array[i] = Nil
      BY <1>1 DEF HeaderInv
    <3>5. Len(arrays') = slice.arr /\ slice.arr \in 1..Len(arrays) /\ Array = arrays[slice.arr]
      BY <1>1, <3>3 DEF Array
    <3> DEFINE new == arrays'[Len(arrays')]
    <3>6. /\ Len(new) = Len(Array)
          /\ \A j \in 1..Len(Array) : new[j] = IF j = slice.len + 1 THEN cur ELSE Array[j]
      BY <3>3, <3>5
    <3> HIDE DEF new
    <3>7. /\ new[slice.len + 1] = cur
          /\ \A i \in 1..slice.len : new[i] = Array[i]
      BY <1>1, <1>4, <3>2, <3>6
    <3>8. \A i \in (slice.len + 2)..Len(new) : new[i] = Nil
      <4> SUFFICES ASSUME NEW i \in (slice.len + 2)..Len(new) PROVE new[i] = Nil
        OBVIOUS
      <4>1. i \in (slice.len + 1)..Len(Array) /\ i \in 1..Len(Array) /\ i # slice.len + 1
        BY <1>1, <1>4, <3>6
      <4> QED
        BY <3>4, <3>6, <4>1
    <3>9. slice.len + 1 <= Len(new)
      BY <1>1, <1>4, <3>2, <3>6
    <3>10. /\ Len(arrays) \in {Len(arrays') - 1, Len(arrays')} /\ Len(arrays') \in Nat
      BY <1>4, <3>3
    <3>11. \A a \in 1..Len(arrays) : \A j \in 1..Len(arrays[a]) :
             arrays'[a][j] = arrays[a][j] \/ (a = slice.arr /\ j = slice.len + 1
                                              /\ arrays'[a][j] = cur)
      BY <3>3
    <3> QED
      BY <3>3, <3>7, <3>8, <3>9, <3>10, <3>11 DEF new
  <2>2. CASE ~(slice.len < Len(Array))
    <3>1. arrays' = Append(arrays, Grown)
      BY <2>2 DEF AddWrite
    <3>2. /\ Grown \in Seq(Slot)
          /\ slice.len + 1 <= Len(Grown)
          /\ \A i \in 1..slice.len : Grown[i] = Array[i]
          /\ Grown[slice.len + 1] = cur
          /\ \A i \in (slice.len + 2)..Len(Grown) : Grown[i] = Nil
      BY <1>1, <2>2, GrownProperties
    <3>3. /\ arrays' \in Seq(Seq(Slot))
          /\ Len(arrays') = Len(arrays) + 1
          /\ arrays'[Len(arrays')] = Grown
          /\ \A a \in 1..Len(arrays) : arrays'[a] = arrays[a]
      BY <3>1, <3>2, ArrayAppended
    <3>4. \A a \in 1..Len(arrays) :
            /\ Len(arrays'[a]) = Len(arrays[a])
            /\ \A j \in 1..Len(arrays[a]) : arrays'[a][j] = arrays[a][j]
      BY <3>3
    <3>5. Len(arrays) \in {Len(arrays') - 1, Len(arrays')} /\ Len(arrays') \in Nat
      BY <1>4, <3>3
    <3> QED
      BY <3>2, <3>3, <3>4, <3>5
  <2> QED
    BY <2>1, <2>2
<1>6. Array' = arrays'[slice.arr] /\ Len(Array') = Len(Array)
  BY <1>1, <1>5 DEF Array
<1>kept. \A i \in 1..slice.len : Array'[i] = Array[i]
  <2> SUFFICES ASSUME NEW i \in 1..slice.len PROVE Array'[i] = Array[i]
    OBVIOUS
  <2>1. slice.arr \in 1..Len(arrays) /\ Array = arrays[slice.arr]
    BY <1>1 DEF Array
  <2>2. i \in 1..Len(arrays[slice.arr]) /\ i # slice.len + 1
    BY <1>1, <1>4, <2>1
  <2>3. \A a \in 1..Len(arrays) : \A j \in 1..Len(arrays[a]) :
          arrays'[a][j] = arrays[a][j] \/ j = slice.len + 1
    BY <1>5
  <2>4. arrays'[slice.arr][i] = arrays[slice.arr][i]
    BY <2>1, <2>2, <2>3
  <2> QED
    BY <1>6, <2>1, <2>4
<1>7. TypeOK'
  BY <1>1, <1>3, <1>5 DEF TypeOK, callVars, Header
<1>8. HeaderInv'
  <2>1. \A i \in (slice.len + 1)..Len(Array) : Array'[i] \in {Nil, cur}
    <3> SUFFICES ASSUME NEW i \in (slice.len + 1)..Len(Array)
                 PROVE  Array'[i] \in {Nil, cur}
      OBVIOUS
    <3>1. i \in 1..Len(Array) /\ Array[i] = Nil
      BY <1>1, <1>4 DEF HeaderInv
    <3> QED
      BY <1>1, <1>5, <1>6, <3>1 DEF Array
  <2> QED
    BY <1>1, <1>4, <1>5, <1>6, <1>kept, <2>1 DEF HeaderInv
<1>9. ContentInv'
  BY <1>1, <1>2, <1>kept DEF ContentInv
<1>10. ViewInv'
  <2> SUFFICES ASSUME NEW c \in Caller
               PROVE  /\ view[c].arr \in 1..slice.arr
                      /\ view[c].len <= Len(arrays'[view[c].arr])
                      /\ step[c] # "idle" => InRotation' \subseteq candidates'[c]
                      /\ step[c] \in {"bump", "type", "data"} =>
                           /\ view[c].len > 0
                           /\ \A i \in 1..Len(arrays'[view[c].arr]) :
                                arrays'[view[c].arr][i] \in candidates'[c] \cup {Nil}
                      /\ step[c] \in {"type", "data"} => pos[c] \in 1..view[c].len
    BY <1>1 DEF ViewInv, callVars
  <2>1. view[c].arr \in 1..slice.arr /\ view[c].arr \in 1..Len(arrays)
    BY <1>1 DEF ViewInv
  <2>2. view[c].len <= Len(arrays'[view[c].arr])
    BY <1>5, <2>1 DEF ViewInv
  <2>3. step[c] # "idle" => InRotation' \subseteq candidates'[c]
    BY <1>2, <1>3 DEF ViewInv
  <2>4. ASSUME step[c] \in {"bump", "type", "data"},
               NEW i \in 1..Len(arrays'[view[c].arr])
        PROVE  arrays'[view[c].arr][i] \in candidates'[c] \cup {Nil}
    <3>1. i \in 1..Len(arrays[view[c].arr])
      BY <1>5, <2>1
    <3>2. arrays[view[c].arr][i] \in candidates[c] \cup {Nil}
      BY <2>4, <3>1 DEF ViewInv
    <3>3. candidates'[c] = candidates[c] \cup {cur}
      BY <1>3, <2>4
    <3> QED
      BY <1>5, <2>1, <3>1, <3>2, <3>3
  <2> QED
    BY <2>1, <2>2, <2>3, <2>4 DEF ViewInv
<1> QED
  BY <1>7, <1>8, <1>9, <1>10

\* lb.workers.Store of the longer list.
LEMMA AddStoreInv == ASSUME ListInv, AddStore PROVE ListInv'
<1> USE DEF ListInv
<1> DEFINE new == arrays[Len(arrays)]
<1>1. /\ pc = "addStore" /\ pc' = "select" /\ cur' = Nil /\ turn' = {}
      /\ UNCHANGED <<arrays, hole, callVars, candidates, wasEmpty>>
      /\ names' = names \cup {cur} /\ cur \in Worker \ names
      /\ slice.len \in Nat /\ slice.arr \in Nat /\ Len(arrays) \in Nat
      /\ slice'.arr = Len(arrays) /\ slice'.len = slice.len + 1
      /\ slice' \in Header
  <2>1. slice.len \in Nat /\ Len(arrays) \in Nat \ {0}
    BY LenProperties DEF TypeOK, Header, HeaderInv
  <2> QED
    BY <2>1 DEF AddStore, ContentInv, TypeOK, Header
<1>2. /\ slice.arr <= Len(arrays)
      /\ slice.len + 1 <= Len(new)
      /\ new[slice.len + 1] = cur
      /\ \A i \in 1..slice.len : new[i] = Array[i]
      /\ \A i \in (slice.len + 2)..Len(new) : new[i] = Nil
  BY <1>1 DEF HeaderInv
<1>3. Array' = new /\ Len(new) \in Nat
  BY <1>1, ElementOfSeq, LenProperties DEF Array, TypeOK, HeaderInv
<1> HIDE DEF new
<1>4. /\ InRotation' = InRotation /\ Staying' = names \cup {cur} /\ Staying = names
      /\ ~Removing /\ ~Removing'
  BY <1>1 DEF InRotation, Staying, Removing
<1>5. TypeOK'
  BY <1>1, LBAssumption DEF TypeOK, callVars, Slot
<1>6. HeaderInv'
  <2>1. \A i \in (slice'.len + 1)..Len(Array') : Array'[i] = Nil
    BY <1>1, <1>2, <1>3
  <2>2. slice'.arr \in 1..Len(arrays') /\ slice'.len <= Len(Array')
    BY <1>1, <1>2, <1>3 DEF HeaderInv
  <2> QED
    BY <1>1, <2>1, <2>2 DEF HeaderInv
<1>7. ContentInv'
  <2>1. \A i \in 1..slice'.len : i \in 1..slice.len \/ i = slice.len + 1
    BY <1>1
  <2>2. \A i \in 1..slice.len : Array'[i] = Array[i] /\ Array[i] \in names
    BY <1>2, <1>3, <1>4 DEF ContentInv
  <2>3. Array'[slice.len + 1] = cur /\ slice.len + 1 \in 1..slice'.len
    BY <1>1, <1>2, <1>3
  <2>4. \A i \in 1..slice'.len : Array'[i] \in Staying'
    BY <1>4, <2>1, <2>2, <2>3
  <2>5. \A n \in Staying' : \E i \in 1..slice'.len : Array'[i] = n
    <3>1. ASSUME NEW n \in names PROVE \E i \in 1..slice'.len : Array'[i] = n
      <4>1. PICK i \in 1..slice.len : Array[i] = n
        BY <1>4 DEF ContentInv
      <4>2. i \in 1..slice'.len
        BY <1>1, <4>1
      <4> QED
        BY <2>2, <4>1, <4>2
    <3> QED
      BY <1>4, <2>3, <3>1
  <2>6. \A i, j \in 1..slice'.len : Array'[i] = Array'[j] => i = j
    BY <1>1, <1>4, <2>1, <2>2, <2>3 DEF ContentInv
  <2> QED
    BY <1>1, <1>4, <2>4, <2>5, <2>6 DEF ContentInv
<1>8. ViewInv'
  <2>1. \A a \in 1..slice.arr :
          /\ Len(arrays'[a]) = Len(arrays[a])
          /\ \A j \in 1..Len(arrays[a]) : \E k \in 1..Len(arrays[a]) :
               arrays'[a][j] = arrays[a][k]
    BY <1>1
  <2> QED
    BY <1>1, <1>2, <1>4, <2>1, ViewsKept
<1> QED
  BY <1>5, <1>6, <1>7, <1>8

\* onRemoveWorker finds the worker's slot.
LEMMA OnRemoveInv == ASSUME ListInv, NEW w \in Worker, OnRemoveWorker(w) PROVE ListInv'
<1> USE DEF ListInv
<1>1. /\ pc = "select" /\ pc' = "shift" /\ cur' = w /\ w \in names
      /\ UNCHANGED <<arrays, slice, names, callVars, candidates, turn>>
      /\ hole' \in 1..slice.len /\ Array[hole'] = w
      /\ wasEmpty' \in [Caller -> BOOLEAN]
      /\ slice.arr \in Nat /\ slice.len \in Nat
  BY DEF OnRemoveWorker, TypeOK, Header
<1>2. /\ InRotation' = InRotation /\ Staying' = names \ {w} /\ Staying = names
      /\ ~Removing /\ Removing'
  BY <1>1 DEF InRotation, Staying, Removing
<1>3. TypeOK'
  BY <1>1 DEF TypeOK, callVars, Slot
<1>4. HeaderInv'
  BY <1>1 DEF HeaderInv, Array
<1>5. ContentInv'
  <2>1. Array' = Array
    BY <1>1 DEF Array
  <2>2. /\ \A i \in 1..slice.len : Array[i] \in names
        /\ \A n \in names : \E i \in 1..slice.len : Array[i] = n
        /\ \A i, j \in 1..slice.len : Array[i] = Array[j] => i = j
    BY <1>2 DEF ContentInv
  <2>3. \A n \in names \ {w} : \E i \in 1..slice.len \ {hole'} : Array[i] = n
    BY <1>1, <2>2
  <2> QED
    BY <1>1, <1>2, <2>1, <2>2, <2>3 DEF ContentInv
<1>6. ViewInv'
  <2>1. \A a \in 1..slice.arr :
          /\ Len(arrays'[a]) = Len(arrays[a])
          /\ \A j \in 1..Len(arrays[a]) : \E k \in 1..Len(arrays[a]) :
               arrays'[a][j] = arrays[a][k]
    BY <1>1
  <2> QED
    BY <1>1, <1>2, <2>1, ViewsKept
<1> QED
  BY <1>3, <1>4, <1>5, <1>6

\* slices.Delete moves the next element down into the hole.
LEMMA ShiftInv == ASSUME ListInv, ShiftSlot PROVE ListInv'
<1> USE DEF ListInv
<1>1. /\ pc = "shift" /\ hole < slice.len /\ hole' = hole + 1
      /\ UNCHANGED <<slice, names, pc, cur, callVars, histVars>>
      /\ arrays' = [arrays EXCEPT ![slice.arr][hole] = Array[hole + 1]]
      /\ hole \in 1..slice.len /\ slice.len \in Nat /\ slice.arr \in Nat
      /\ slice.arr = Len(arrays) /\ slice.len <= Len(Array) /\ slice.arr \in 1..Len(arrays)
      /\ cur \in names
  BY DEF ShiftSlot, ContentInv, HeaderInv, Removing, TypeOK, Header
<1>2. /\ InRotation' = InRotation /\ Staying' = Staying /\ Staying \subseteq names
      /\ Removing /\ Removing'
  BY <1>1 DEF InRotation, Staying, Removing
<1>3. Array \in Seq(Slot) /\ Len(Array) \in Nat
  BY <1>1, ElementOfSeq, LenProperties DEF TypeOK, Array
<1>4. hole \in 1..Len(Array) /\ hole + 1 \in 1..Len(Array) /\ Array[hole + 1] \in Slot
  BY <1>1, <1>3, ElementOfSeq
<1>5. /\ arrays' \in Seq(Seq(Slot))
      /\ Len(arrays') = Len(arrays)
      /\ \A a \in 1..Len(arrays) : Len(arrays'[a]) = Len(arrays[a])
      /\ \A a \in 1..Len(arrays) : \A j \in 1..Len(arrays[a]) :
           arrays'[a][j] = IF a = slice.arr /\ j = hole THEN Array[hole + 1] ELSE arrays[a][j]
  BY <1>1, <1>4, SlotWritten
<1>6. /\ Len(Array') = Len(Array)
      /\ \A j \in 1..Len(Array) : Array'[j] = IF j = hole THEN Array[hole + 1] ELSE Array[j]
  BY <1>1, <1>5 DEF Array
<1>7. TypeOK'
  BY <1>1, <1>5 DEF TypeOK, callVars, histVars
<1>8. HeaderInv'
  <2>1. \A i \in (slice.len + 1)..Len(Array) : Array'[i] = Nil
    <3> SUFFICES ASSUME NEW i \in (slice.len + 1)..Len(Array) PROVE Array'[i] = Nil
      OBVIOUS
    <3>1. i \in 1..Len(Array) /\ i # hole /\ Array[i] = Nil
      BY <1>1, <1>3 DEF HeaderInv
    <3> QED
      BY <1>6, <3>1
  <2> QED
    BY <1>1, <1>5, <1>6, <2>1 DEF HeaderInv
<1>9. ContentInv'
  <2>1. /\ \A i \in 1..slice.len \ {hole} : Array[i] \in Staying
        /\ \A n \in Staying : \E i \in 1..slice.len \ {hole} : Array[i] = n
        /\ \A i, j \in 1..slice.len \ {hole} : Array[i] = Array[j] => i = j
    BY <1>2 DEF ContentInv
  <2>2. hole + 1 \in 1..slice.len \ {hole}
    BY <1>1
  <2>3. \A i \in 1..slice.len \ {hole + 1} :
          Array'[i] = IF i = hole THEN Array[hole + 1] ELSE Array[i]
    BY <1>1, <1>3, <1>6
  <2>4. \A i \in 1..slice.len \ {hole + 1} : Array'[i] \in Staying
    BY <2>1, <2>2, <2>3
  <2>5. \A n \in Staying : \E i \in 1..slice.len \ {hole + 1} : Array'[i] = n
    <3> SUFFICES ASSUME NEW n \in Staying
                 PROVE  \E i \in 1..slice.len \ {hole + 1} : Array'[i] = n
      OBVIOUS
    <3>1. PICK i \in 1..slice.len \ {hole} : Array[i] = n
      BY <2>1
    <3>2. CASE i = hole + 1
      BY <1>1, <2>3, <3>1, <3>2
    <3>3. CASE i # hole + 1
      BY <2>3, <3>1, <3>3
    <3> QED
      BY <3>2, <3>3
  <2>6. \A i, j \in 1..slice.len \ {hole + 1} : Array'[i] = Array'[j] => i = j
    BY <2>1, <2>2, <2>3
  <2>7. Array'[hole + 1] \in names
    BY <1>2, <1>4, <1>6, <2>1, <2>2
  <2> QED
    BY <1>1, <1>2, <2>2, <2>4, <2>5, <2>6, <2>7 DEF ContentInv
<1>10. ViewInv'
  <2>1. \A a \in 1..slice.arr :
          /\ Len(arrays'[a]) = Len(arrays[a])
          /\ \A j \in 1..Len(arrays[a]) :
               \/ arrays'[a][j] = Nil
               \/ \E k \in 1..Len(arrays[a]) : arrays'[a][j] = arrays[a][k]
    BY <1>1, <1>4, <1>5 DEF Array
  <2> QED
    BY <1>1, <1>2, <2>1, ViewsKept DEF histVars
<1> QED
  BY <1>7, <1>8, <1>9, <1>10

\* slices.Delete zeroes the last published slot.
LEMMA ClearInv == ASSUME ListInv, ClearTail PROVE ListInv'
<1> USE DEF ListInv
<1>1. /\ pc = "shift" /\ pc' = "removeStore" /\ hole = slice.len
      /\ UNCHANGED <<slice, names, cur, hole, callVars, histVars>>
      /\ arrays' = [arrays EXCEPT ![slice.arr][hole] = Nil]
      /\ hole \in 1..slice.len /\ slice.len \in Nat /\ slice.arr \in Nat
      /\ slice.arr = Len(arrays) /\ slice.len <= Len(Array) /\ slice.arr \in 1..Len(arrays)
      /\ cur \in names
  BY DEF ClearTail, ContentInv, HeaderInv, Removing, TypeOK, Header
<1>2. /\ InRotation' = InRotation /\ Staying' = Staying /\ Removing /\ Removing'
  BY <1>1 DEF InRotation, Staying, Removing
<1>3. hole \in 1..Len(Array) /\ Len(Array) \in Nat /\ Nil \in Slot
  BY <1>1, ElementOfSeq, LenProperties DEF TypeOK, Array, Slot
<1>4. /\ arrays' \in Seq(Seq(Slot))
      /\ Len(arrays') = Len(arrays)
      /\ \A a \in 1..Len(arrays) : Len(arrays'[a]) = Len(arrays[a])
      /\ \A a \in 1..Len(arrays) : \A j \in 1..Len(arrays[a]) :
           arrays'[a][j] = IF a = slice.arr /\ j = hole THEN Nil ELSE arrays[a][j]
  BY <1>1, <1>3, SlotWritten
<1>5. /\ Len(Array') = Len(Array)
      /\ \A j \in 1..Len(Array) : Array'[j] = IF j = hole THEN Nil ELSE Array[j]
  BY <1>1, <1>4 DEF Array
<1>6. TypeOK'
  BY <1>1, <1>4 DEF TypeOK, callVars, histVars
<1>7. HeaderInv'
  <2>1. \A i \in (slice.len + 1)..Len(Array) : Array'[i] = Nil
    <3> SUFFICES ASSUME NEW i \in (slice.len + 1)..Len(Array) PROVE Array'[i] = Nil
      OBVIOUS
    <3>1. i \in 1..Len(Array) /\ Array[i] = Nil
      BY <1>1, <1>3 DEF HeaderInv
    <3> QED
      BY <1>5, <3>1
  <2> QED
    BY <1>1, <1>4, <1>5, <2>1 DEF HeaderInv
<1>8. ContentInv'
  <2>1. \A i \in 1..slice.len \ {hole} : Array'[i] = Array[i]
    BY <1>1, <1>3, <1>5
  <2>2. Array'[hole] = Nil
    BY <1>3, <1>5
  <2> QED
    BY <1>1, <1>2, <2>1, <2>2 DEF ContentInv
<1>9. ViewInv'
  <2>1. \A a \in 1..slice.arr :
          /\ Len(arrays'[a]) = Len(arrays[a])
          /\ \A j \in 1..Len(arrays[a]) :
               \/ arrays'[a][j] = Nil
               \/ \E k \in 1..Len(arrays[a]) : arrays'[a][j] = arrays[a][k]
    BY <1>1, <1>4
  <2> QED
    BY <1>1, <1>2, <2>1, ViewsKept DEF histVars
<1> QED
  BY <1>6, <1>7, <1>8, <1>9

\* lb.workers.Store of the shorter list.
LEMMA RemoveStoreInv == ASSUME ListInv, RemoveStore PROVE ListInv'
<1> USE DEF ListInv
<1>1. /\ pc = "removeStore" /\ pc' = "select" /\ cur' = Nil /\ hole' = 0 /\ turn' = {}
      /\ UNCHANGED <<arrays, callVars, candidates, wasEmpty>>
      /\ names' = names \ {cur}
      /\ hole = slice.len /\ Array[hole] = Nil
      /\ slice.len \in Nat \ {0} /\ slice.arr \in Nat /\ slice.arr = Len(arrays)
      /\ slice'.arr = slice.arr /\ slice'.len = slice.len - 1 /\ slice' \in Header
      /\ slice.len <= Len(Array) /\ slice.arr \in 1..Len(arrays)
  <2>1. /\ pc = "removeStore" /\ slice' = [slice EXCEPT !.len = @ - 1]
        /\ pc' = "select" /\ cur' = Nil /\ hole' = 0 /\ turn' = {}
        /\ UNCHANGED <<arrays, callVars, candidates, wasEmpty>>
        /\ names' = names \ {cur}
    BY DEF RemoveStore
  <2>2. hole \in 1..slice.len /\ hole = slice.len /\ Array[hole] = Nil
    BY <2>1 DEF ContentInv, Removing
  <2>3. slice \in [arr : Nat \ {0}, len : Nat]
    BY DEF TypeOK, Header
  <2>4. slice.len \in Nat \ {0} /\ slice.arr \in Nat \ {0}
    BY <2>2, <2>3
  <2>5. slice'.arr = slice.arr /\ slice'.len = slice.len - 1 /\ slice' \in Header
    BY <2>1, <2>3, <2>4 DEF Header
  <2>6. slice.arr = Len(arrays) /\ slice.len <= Len(Array) /\ slice.arr \in 1..Len(arrays)
    BY <2>1 DEF HeaderInv
  <2> QED
    BY <2>1, <2>2, <2>4, <2>5, <2>6
<1>2. /\ InRotation' = names \ {cur} /\ InRotation = names
      /\ Staying' = names \ {cur} /\ Staying = names \ {cur}
      /\ Removing /\ ~Removing'
  BY <1>1 DEF InRotation, Staying, Removing
<1>3. Array' = Array /\ Len(Array) \in Nat
  BY <1>1, ElementOfSeq, LenProperties DEF TypeOK, Array
<1>4. TypeOK'
  BY <1>1 DEF TypeOK, callVars, Slot
<1>5. HeaderInv'
  <2>1. \A i \in (slice'.len + 1)..Len(Array) : Array[i] = Nil
    <3> SUFFICES ASSUME NEW i \in (slice'.len + 1)..Len(Array) PROVE Array[i] = Nil
      OBVIOUS
    <3>1. i = hole \/ i \in (slice.len + 1)..Len(Array)
      BY <1>1, <1>3
    <3> QED
      BY <1>1, <3>1 DEF HeaderInv
  <2> QED
    BY <1>1, <1>3, <2>1 DEF HeaderInv
<1>6. ContentInv'
  <2>1. 1..slice'.len = 1..slice.len \ {hole}
    BY <1>1
  <2> QED
    BY <1>1, <1>2, <1>3, <2>1 DEF ContentInv
<1>7. ViewInv'
  <2>1. \A a \in 1..slice.arr :
          /\ Len(arrays'[a]) = Len(arrays[a])
          /\ \A j \in 1..Len(arrays[a]) : \E k \in 1..Len(arrays[a]) :
               arrays'[a][j] = arrays[a][k]
    BY <1>1
  <2> QED
    BY <1>1, <1>2, <2>1, ViewsKept
<1> QED
  BY <1>4, <1>5, <1>6, <1>7

-----------------------------------------------------------------------------
(* The steps of a call.                                                    *)

\* Calls write neither the list nor the arrays.
LEMMA ListKept ==
  ASSUME HeaderInv, ContentInv, UNCHANGED runVars
  PROVE  HeaderInv' /\ ContentInv'
  BY DEF runVars, HeaderInv, ContentInv, Array, Staying, Removing

\* Slot numbers computed from the counter are in range.
LEMMA IndexInRange ==
  ASSUME NEW i \in Nat, NEW n \in Nat \ {0}
  PROVE  i % n \in 0..(n - 1) /\ (i % n) + 1 \in 1..n
  OBVIOUS

\* Division with remainder has one result.
LEMMA RemainderIs ==
  ASSUME NEW i \in Nat, NEW n \in Nat \ {0}, NEW q \in Nat, NEW r \in 0..(n - 1),
         i = n * q + r
  PROVE  i % n = r
  OBVIOUS

\* The counter and the slot it stands for: the successor's slot is the next one, or the first.
LEMMA SlotOfSuccessor ==
  ASSUME NEW i \in Nat, NEW n \in Nat \ {0}
  PROVE  (i + 1) % n = IF (i % n) + 1 = n THEN 0 ELSE (i % n) + 1
<1> DEFINE quotient == i \div n
           rest == i % n
<1>1. quotient \in Nat /\ rest \in 0..(n - 1) /\ i = n * quotient + rest
  OBVIOUS
<1>2. i + 1 \in Nat
  OBVIOUS
<1> HIDE DEF quotient, rest
<1>3. CASE rest + 1 = n
  <2>1. i + 1 = n * (quotient + 1) + 0 /\ quotient + 1 \in Nat /\ 0 \in 0..(n - 1)
    BY <1>1, <1>3
  <2> QED
    BY <1>2, <1>3, <2>1, RemainderIs DEF rest
<1>4. CASE rest + 1 # n
  <2>1. i + 1 = n * quotient + (rest + 1) /\ rest + 1 \in 0..(n - 1)
    BY <1>1, <1>4
  <2> QED
    BY <1>1, <1>2, <1>4, <2>1, RemainderIs DEF rest
<1> QED
  BY <1>3, <1>4

\* The counter goes up by one or wraps.
LEMMA CounterStep ==
  ASSUME NEW limit \in Nat \ {0}, NEW i \in 0..(limit - 1)
  PROVE  (i + 1) % limit = IF i + 1 = limit THEN 0 ELSE i + 1
<1>1. i \in Nat /\ i % limit = i
  OBVIOUS
<1>2. (i + 1) % limit = IF (i % limit) + 1 = limit THEN 0 ELSE (i % limit) + 1
  BY <1>1, SlotOfSuccessor
<1> QED
  BY <1>1, <1>2

\* Next() loads the header: everything its array holds is in rotation now.
LEMMA LoadInv == ASSUME ListInv, NEW c \in Caller, NextLoad(c) PROVE ListInv'
<1> USE DEF ListInv
<1>1. /\ UNCHANGED runVars /\ UNCHANGED <<nextIndex, pos, turn>>
      /\ view' = [view EXCEPT ![c] = slice]
      /\ step' = [step EXCEPT ![c] = IF slice.len = 0 THEN "empty" ELSE "bump"]
      /\ pick' = [pick EXCEPT ![c] = Nil]
      /\ candidates' = [candidates EXCEPT ![c] = InRotation]
      /\ wasEmpty' = [wasEmpty EXCEPT ![c] = Staying = {}]
  BY DEF NextLoad
<1>2. HeaderInv' /\ ContentInv'
  BY <1>1, ListKept
<1>3. InRotation \subseteq Worker /\ InRotation' = InRotation
  BY <1>1 DEF InRotation, runVars, ContentInv, TypeOK
<1>4. TypeOK'
  BY <1>1, <1>3 DEF TypeOK, runVars, Slot
<1>5. ViewInv'
  <2> SUFFICES ASSUME NEW d \in Caller
               PROVE  /\ view'[d].arr \in 1..slice.arr
                      /\ view'[d].len <= Len(arrays[view'[d].arr])
                      /\ step'[d] # "idle" => InRotation \subseteq candidates'[d]
                      /\ step'[d] \in {"bump", "type", "data"} =>
                           /\ view'[d].len > 0
                           /\ \A i \in 1..Len(arrays[view'[d].arr]) :
                                arrays[view'[d].arr][i] \in candidates'[d] \cup {Nil}
                      /\ step'[d] \in {"type", "data"} => pos[d] \in 1..view'[d].len
    BY <1>1, <1>3 DEF ViewInv, runVars
  <2>1. CASE d # c
    BY <1>1, <2>1 DEF ViewInv, TypeOK
  <2>2. CASE d = c
    <3>1. /\ view'[d] = slice /\ candidates'[d] = InRotation
          /\ step'[d] = IF slice.len = 0 THEN "empty" ELSE "bump"
      BY <1>1, <2>2 DEF TypeOK
    <3>2. slice.arr \in 1..slice.arr /\ slice.len <= Len(Array) /\ slice.len \in Nat
      BY DEF HeaderInv, TypeOK, Header
    <3> QED
      BY <3>1, <3>2, ArrayContent DEF Array
  <2> QED
    BY <2>1, <2>2
<1> QED
  BY <1>2, <1>4, <1>5

\* Next() draws its slot number.
LEMMA BumpInv == ASSUME ListInv, NEW c \in Caller, NextBump(c) PROVE ListInv'
<1> USE DEF ListInv
<1> DEFINE next == (nextIndex + 1) % IndexLimit
<1> DEFINE slot == (next % view[c].len) + 1
<1>1. /\ UNCHANGED runVars /\ UNCHANGED <<view, pick, candidates, wasEmpty>>
      /\ step[c] = "bump" /\ step' = [step EXCEPT ![c] = "type"]
      /\ nextIndex' = next
      /\ pos' = [pos EXCEPT ![c] = slot]
      /\ turn' \subseteq IF view[c] = slice THEN turn \cup {pos'[c]} ELSE {}
  BY DEF NextBump, Bump
<1>2. HeaderInv' /\ ContentInv'
  BY <1>1, ListKept
<1>3. view[c].len \in Nat \ {0} /\ nextIndex + 1 \in Nat /\ IndexLimit \in Nat \ {0}
  BY <1>1, LBAssumption DEF ViewInv, TypeOK, Header
<1>4. next \in 0..(IndexLimit - 1) /\ next \in Nat
  BY <1>3, IndexInRange
<1> HIDE DEF next
<1>5. slot \in 1..view[c].len /\ slot \in Nat
  <2>1. PICK rest \in 0..(view[c].len - 1) : rest = next % view[c].len
    BY <1>3, <1>4, IndexInRange
  <2> QED
    BY <1>3, <2>1
<1> HIDE DEF slot
<1>6. pos'[c] = slot /\ pos' \in [Caller -> Nat]
  BY <1>1, <1>5 DEF TypeOK
<1>7. turn' \subseteq 1..slice.len
  BY <1>1, <1>5, <1>6 DEF TypeOK
<1>8. TypeOK'
  BY <1>1, <1>4, <1>6, <1>7 DEF TypeOK, runVars
<1>9. ViewInv'
  <2> SUFFICES ASSUME NEW d \in Caller
               PROVE  /\ view[d].arr \in 1..slice.arr
                      /\ view[d].len <= Len(arrays[view[d].arr])
                      /\ step'[d] # "idle" => InRotation \subseteq candidates[d]
                      /\ step'[d] \in {"bump", "type", "data"} =>
                           /\ view[d].len > 0
                           /\ \A i \in 1..Len(arrays[view[d].arr]) :
                                arrays[view[d].arr][i] \in candidates[d] \cup {Nil}
                      /\ step'[d] \in {"type", "data"} => pos'[d] \in 1..view[d].len
    BY <1>1 DEF ViewInv, InRotation, runVars
  <2>1. CASE d # c
    BY <1>1, <2>1 DEF ViewInv, TypeOK
  <2>2. CASE d = c
    BY <1>1, <1>5, <1>6, <2>2 DEF ViewInv
  <2> QED
    BY <2>1, <2>2
<1> QED
  BY <1>2, <1>8, <1>9

\* Next() returns, or goes on to the second word of the slot.
LEMMA AnswerInv ==
  ASSUME ListInv, NEW c \in Caller, NextNil(c) \/ NextReadType(c) \/ NextReadData(c)
  PROVE  ListInv'
<1> USE DEF ListInv
<1>1. UNCHANGED runVars /\ UNCHANGED <<nextIndex, turn>>
  BY DEF NextNil, NextReadType, NextReadData, Return, histVars
<1>2. HeaderInv' /\ ContentInv' /\ InRotation' = InRotation
  BY <1>1, ListKept DEF InRotation, runVars
<1>3. CASE NextReadType(c)
  <2>1. /\ step[c] = "type" /\ step' = [step EXCEPT ![c] = "data"]
        /\ UNCHANGED <<view, pos, pick, candidates, wasEmpty>>
    BY <1>3 DEF NextReadType, histVars
  <2>2. TypeOK'
    BY <1>1, <2>1 DEF TypeOK, runVars
  <2>3. ViewInv'
    BY <1>1, <1>2, <2>1 DEF ViewInv, TypeOK, runVars
  <2> QED
    BY <1>2, <2>2, <2>3
<1>4. ASSUME NEW r \in Slot \cup {Half}, Return(c, r) PROVE ListInv'
  <2>1. /\ step' = [step EXCEPT ![c] = "idle"] /\ pick' = [pick EXCEPT ![c] = r]
        /\ view' = [view EXCEPT ![c] = NoView] /\ pos' = [pos EXCEPT ![c] = 0]
        /\ candidates' = [candidates EXCEPT ![c] = {}]
        /\ wasEmpty' = [wasEmpty EXCEPT ![c] = FALSE]
    BY <1>4 DEF Return
  <2>2. NoView \in Header
    BY DEF NoView, Header
  <2>3. TypeOK'
    BY <1>1, <1>4, <2>1, <2>2 DEF TypeOK, runVars
  <2>4. ViewInv'
    <3> SUFFICES ASSUME NEW d \in Caller
                 PROVE  /\ view'[d].arr \in 1..slice.arr
                        /\ view'[d].len <= Len(arrays[view'[d].arr])
                        /\ step'[d] # "idle" => InRotation \subseteq candidates'[d]
                        /\ step'[d] \in {"bump", "type", "data"} =>
                             /\ view'[d].len > 0
                             /\ \A i \in 1..Len(arrays[view'[d].arr]) :
                                  arrays[view'[d].arr][i] \in candidates'[d] \cup {Nil}
                        /\ step'[d] \in {"type", "data"} => pos'[d] \in 1..view'[d].len
      BY <1>1, <1>2 DEF ViewInv, runVars
    <3>1. CASE d # c
      BY <2>1, <3>1 DEF ViewInv, TypeOK
    <3>2. CASE d = c
      <4>1. view'[d] = NoView /\ step'[d] = "idle"
        BY <2>1, <3>2 DEF TypeOK
      <4>2. 1 \in 1..slice.arr /\ Len(arrays[1]) \in Nat
        BY ElementOfSeq, LenProperties DEF TypeOK, Header, HeaderInv
      <4> QED
        BY <4>1, <4>2 DEF NoView
    <3> QED
      BY <3>1, <3>2
  <2> QED
    BY <1>2, <2>3, <2>4
<1>5. CASE NextNil(c)
  BY <1>4, <1>5 DEF NextNil, Slot
<1>6. CASE NextReadData(c)
  <2>1. step[c] = "data" /\ Return(c, IF Target(c) = Nil THEN Half ELSE Target(c))
    BY <1>6 DEF NextReadData
  <2>2. Target(c) \in Slot
    <3>1. /\ view[c].arr \in 1..slice.arr /\ pos[c] \in 1..view[c].len
          /\ view[c].len <= Len(arrays[view[c].arr])
      BY <2>1 DEF ViewInv
    <3>2. /\ slice.arr \in Nat /\ slice.arr <= Len(arrays) /\ Len(arrays) \in Nat
          /\ view[c].len \in Nat
      BY LenProperties DEF HeaderInv, TypeOK, Header
    <3>3. view[c].arr \in 1..Len(arrays)
      BY <3>1, <3>2
    <3>4. arrays[view[c].arr] \in Seq(Slot)
      BY <3>3, ElementOfSeq DEF TypeOK
    <3>5. pos[c] \in 1..Len(arrays[view[c].arr])
      BY <3>1, <3>2, <3>4, LenProperties
    <3> QED
      BY <3>4, <3>5, ElementOfSeq DEF Target
  <2> QED
    BY <1>4, <2>1, <2>2
<1> QED
  BY <1>3, <1>5, <1>6

-----------------------------------------------------------------------------
(* The theorems.                                                           *)

\* Every step preserves ListInv.
LEMMA NextListInv == ListInv /\ [Next]_vars => ListInv'
<1> SUFFICES ASSUME ListInv, [Next]_vars PROVE ListInv'
  OBVIOUS
<1>1. CASE Run
  BY <1>1, AcceptInv, OnRemoveInv, AddWriteInv, AddStoreInv, ShiftInv, ClearInv,
     RemoveStoreInv DEF Run
<1>2. ASSUME NEW c \in Caller, NextCall(c) PROVE ListInv'
  BY <1>2, LoadInv, BumpInv, AnswerInv DEF NextCall
<1>3. CASE UNCHANGED vars
  <2>1. UNCHANGED runVars /\ UNCHANGED callVars /\ UNCHANGED histVars
    BY <1>3 DEF vars
  <2>2. HeaderInv' /\ ContentInv'
    BY <2>1, ListKept DEF ListInv
  <2>3. TypeOK' /\ ViewInv'
    BY <2>1 DEF ListInv, TypeOK, ViewInv, InRotation, runVars, callVars, histVars
  <2> QED
    BY <2>2, <2>3 DEF ListInv
<1> QED
  BY <1>1, <1>2, <1>3 DEF Next

\* The calls that draw from the current list, and no wrap of the counter, go on with the
\* slot after the latest one, which has not had its turn in this round.
LEMMA NextSlotIsFree ==
  ASSUME TypeOK, TurnInv, slice.len \in Nat \ {0}
  PROVE  ((nextIndex + 1) % slice.len) + 1 \notin turn
<1> DEFINE n == slice.len
           last == (nextIndex % n) + 1
           next == ((nextIndex + 1) % n) + 1
<1>1. last \in 1..n /\ next = IF last = n THEN 1 ELSE last + 1
  <2>1. nextIndex \in Nat /\ n \in Nat \ {0}
    BY LBAssumption DEF TypeOK
  <2>2. /\ nextIndex % n \in 0..(n - 1)
        /\ (nextIndex + 1) % n = IF (nextIndex % n) + 1 = n THEN 0 ELSE (nextIndex % n) + 1
    BY <2>1, IndexInRange, SlotOfSuccessor
  <2> HIDE DEF n
  <2> QED
    BY <2>1, <2>2
<1>2. SUFFICES ASSUME turn # {} PROVE next \notin turn
  OBVIOUS
<1>3. PICK first \in 1..n :
        turn = IF first <= last THEN first..last ELSE first..n \cup 1..last
  BY <1>2 DEF TurnInv
<1>4. turn # 1..n
  BY <1>2 DEF TurnInv
<1> HIDE DEF n, last, next
<1>5. n \in Nat \ {0}
  BY DEF n
<1>6. CASE first <= last
  <2>1. turn = first..last /\ next \in 1..n /\ (first > 1 \/ last < n)
    BY <1>1, <1>3, <1>4, <1>5, <1>6
  <2> QED
    BY <1>1, <1>5, <1>6, <2>1
<1>7. CASE first > last
  <2>1. turn = first..n \cup 1..last /\ next = last + 1
    BY <1>1, <1>3, <1>5, <1>7
  <2>2. (last + 1)..n \cup 1..last = 1..n
    BY <1>1, <1>5, <1>7
  <2>3. first # last + 1
    BY <1>4, <2>1, <2>2
  <2> QED
    BY <1>1, <1>5, <1>7, <2>1, <2>3
<1> QED
  BY <1>1, <1>5, <1>6, <1>7

\* A call that draws a number extends the round by the slot after the latest one, ends it
\* or begins a new one.
LEMMA BumpTurnInv ==
  ASSUME ListInv, TurnInv, NEW c \in Caller, NextBump(c)
  PROVE  TurnInv'
<1> DEFINE n == slice.len
           last == (nextIndex % n) + 1
           next == (nextIndex + 1) % IndexLimit
           slot == (next % n) + 1
           round == (IF next > nextIndex THEN turn ELSE {}) \cup {slot}
<1>1. slice' = slice /\ nextIndex' = next
  BY DEF NextBump, Bump, runVars
<1>2. CASE turn' = {}
  BY <1>2 DEF TurnInv
<1>3. CASE turn' # {}
  <2>1. view[c] = slice /\ turn' = round /\ round # 1..n
    BY <1>3 DEF NextBump, Bump, ListInv, TypeOK
  <2>2. n \in Nat \ {0} /\ nextIndex \in Nat /\ IndexLimit \in Nat \ {0}
        /\ nextIndex \in 0..(IndexLimit - 1)
    BY <2>1, LBAssumption DEF NextBump, Bump, ListInv, TypeOK, ViewInv, Header
  <2>3. next \in 0..(IndexLimit - 1) /\ slot \in 1..n /\ last \in 1..n
    <3>1. (nextIndex + 1) % IndexLimit \in 0..(IndexLimit - 1)
      BY <2>2
    <3>2. next \in Nat
      BY <2>2, <3>1
    <3> QED
      BY <2>2, <3>1, <3>2, IndexInRange
  <2> SUFFICES \E first \in 1..n :
                 round = IF first <= slot THEN first..slot ELSE first..n \cup 1..slot
    <3>1. slice'.len = n /\ (nextIndex' % slice'.len) + 1 = slot /\ turn' = round /\ n > 0
      BY <1>1, <2>1, <2>2
    <3> HIDE DEF n, slot, round
    <3> QED
      BY <2>1, <3>1 DEF TurnInv
  <2>4. CASE ~(next > nextIndex) \/ turn = {}
    <3>1. round = slot..slot
      BY <2>3, <2>4
    <3> QED
      BY <2>3, <3>1
  <2>5. CASE next > nextIndex /\ turn # {}
    <3>1. next = nextIndex + 1
      BY <2>2, <2>5, CounterStep
    <3>2. slot = IF last = n THEN 1 ELSE last + 1
      <4>1. /\ nextIndex % n \in 0..(n - 1)
            /\ (nextIndex + 1) % n = IF (nextIndex % n) + 1 = n THEN 0 ELSE (nextIndex % n) + 1
        BY <2>2, IndexInRange, SlotOfSuccessor
      <4> HIDE DEF n, next
      <4> QED
        BY <2>2, <3>1, <4>1
    <3>3. PICK first \in 1..n :
            turn = IF first <= last THEN first..last ELSE first..n \cup 1..last
      BY <2>5 DEF TurnInv
    <3>4. turn # 1..n /\ round = turn \cup {slot}
      BY <2>5 DEF TurnInv
    <3> HIDE DEF n, last, next, slot, round
    <3>5. n \in Nat \ {0}
      BY <2>2
    <3>6. CASE last < n
      <4>1. slot = last + 1
        BY <2>3, <3>2, <3>5, <3>6
      <4>2. CASE first <= last
        BY <2>3, <3>3, <3>4, <3>5, <3>6, <4>1, <4>2
      <4>3. CASE first > last
        <5>1. slot..n \cup 1..last = 1..n
          BY <2>3, <3>5, <3>6, <4>1
        <5>2. turn = first..n \cup 1..last
          BY <2>3, <3>3, <3>5, <4>3
        <5>3. first # slot
          BY <3>4, <5>1, <5>2
        <5>4. round = first..n \cup 1..slot /\ first > slot
          BY <2>3, <3>4, <3>5, <3>6, <4>1, <4>3, <5>2, <5>3
        <5> QED
          BY <2>3, <3>5, <5>4
      <4> QED
        BY <2>3, <3>3, <3>5, <4>2, <4>3
    <3>7. CASE last = n
      BY <2>3, <3>2, <3>3, <3>4, <3>5, <3>7
    <3> QED
      BY <2>3, <3>5, <3>6, <3>7
  <2> QED
    BY <2>4, <2>5
<1> QED
  BY <1>2, <1>3

\* Every other step leaves the round alone or ends it.
LEMMA NextTurnInv == ListInv /\ TurnInv /\ [Next]_vars => TurnInv'
<1> SUFFICES ASSUME ListInv, TurnInv, [Next]_vars PROVE TurnInv'
  OBVIOUS
<1>1. ASSUME turn' = {} PROVE TurnInv'
  BY <1>1 DEF TurnInv
<1>2. ASSUME UNCHANGED <<turn, slice, nextIndex>> PROVE TurnInv'
  BY <1>2 DEF TurnInv
<1>3. CASE Run
  BY <1>1, <1>2, <1>3 DEF Run, OnAddWorker, OnRemoveWorker, AddWrite, AddStore, ShiftSlot,
     ClearTail, RemoveStore, Stop, callVars, histVars
<1>4. ASSUME NEW c \in Caller, NextCall(c) PROVE TurnInv'
  <2>1. CASE NextBump(c)
    BY <2>1, BumpTurnInv
  <2>2. CASE NextLoad(c) \/ NextNil(c) \/ NextReadType(c) \/ NextReadData(c)
    BY <1>2, <2>2 DEF NextLoad, NextNil, NextReadType, NextReadData, Return, runVars, histVars
  <2> QED
    BY <1>4, <2>1, <2>2 DEF NextCall
<1>5. CASE UNCHANGED vars
  BY <1>2, <1>5 DEF vars, runVars, callVars, histVars
<1> QED
  BY <1>3, <1>4, <1>5 DEF Next

\* Every step preserves LBInv.
LEMMA NextInv == LBInv /\ [Next]_vars => LBInv'
  BY NextListInv, NextTurnInv DEF LBInv

\* LBInv holds in every reachable state, for any number of workers and callers.
THEOREM LBInvariant == Spec => []LBInv
<1>1. Init => LBInv
  BY InitInv DEF LBInv, Init, TurnInv
<1> QED
  BY <1>1, NextInv, PTL DEF Spec

\* Next() never indexes outside the list it loaded (TypeOK and ViewInv give the bounds).
THEOREM TypeOKHolds == Spec => []TypeOK
<1>1. LBInv => TypeOK
  BY DEF LBInv, ListInv
<1> QED
  BY <1>1, LBInvariant, PTL

\* Between two handlers the published list and workerNames agree, so a removed worker is
\* really out and no worker is listed twice.
THEOREM ListMatchesNamesHolds == Spec => []ListMatchesNames
<1>1. LBInv => ListMatchesNames
  <2> SUFFICES ASSUME LBInv, pc \in {"select", "stopped"} PROVE ListMatchesNames
    BY DEF ListMatchesNames
  <2>1. ~Removing /\ Staying = names
    BY DEF Removing, Staying
  <2> QED
    BY <2>1 DEF LBInv, ListInv, ContentInv, ListMatchesNames
<1> QED
  BY <1>1, LBInvariant, PTL

\* What a call answers from a slot is one of its candidates.
LEMMA TargetIsCandidate ==
  ASSUME ListInv, NEW c \in Caller, step[c] \in {"type", "data"}
  PROVE  Target(c) \in candidates[c] \cup {Nil}
<1>1. /\ view[c].arr \in 1..slice.arr /\ pos[c] \in 1..view[c].len
      /\ view[c].len <= Len(arrays[view[c].arr])
  BY DEF ListInv, ViewInv
<1>2. slice.arr \in Nat /\ slice.arr <= Len(arrays) /\ Len(arrays) \in Nat
  BY LenProperties DEF ListInv, HeaderInv, TypeOK, Header
<1>3. arrays[view[c].arr] \in Seq(Slot) /\ view[c].len \in Nat
  BY <1>1, <1>2, ElementOfSeq DEF ListInv, TypeOK, Header
<1>4. pos[c] \in 1..Len(arrays[view[c].arr])
  BY <1>1, <1>3, LenProperties
<1> QED
  BY <1>4 DEF ListInv, ViewInv, Target

\* A step of the load balancer is a step of Rotation or changes nothing there.
LEMMA StepImplements == ListInv /\ [Next]_vars => [Rot!Next]_(Rot!vars)
<1> SUFFICES ASSUME ListInv, [Next]_vars, ~ UNCHANGED Rot!vars PROVE Rot!Next
  OBVIOUS
<1> USE DEF ListInv
<1>1. CASE AddWrite
  <2>1. /\ pc = "add" /\ pc' = "addStore" /\ cur' = cur /\ names' = names
        /\ cur \in Worker \ names
    BY <1>1 DEF AddWrite, ContentInv
  <2>2. InRotation = names /\ InRotation' = names \cup {cur}
    BY <2>1 DEF InRotation
  <2>3. /\ Calling' = Calling /\ pick' = pick
        /\ candidates' = [c \in Caller |->
             IF c \in Calling THEN candidates[c] \cup {cur} ELSE candidates[c]]
    BY <1>1 DEF AddWrite, Calling, callVars
  <2>4. Rot!Add(cur)
    BY <2>1, <2>2, <2>3 DEF Rot!Add, Rot!WithCandidate
  <2> QED
    BY <2>1, <2>4 DEF Rot!Next
<1>2. CASE RemoveStore
  <2>1. /\ pc = "removeStore" /\ pc' = "select" /\ names' = names \ {cur}
        /\ UNCHANGED <<callVars, candidates>>
        /\ cur \in names /\ names \subseteq Worker
    BY <1>2 DEF RemoveStore, ContentInv, Removing, TypeOK
  <2>2. InRotation = names /\ InRotation' = names \ {cur}
    BY <2>1 DEF InRotation
  <2>3. Calling' = Calling /\ pick' = pick /\ candidates' = candidates
    BY <2>1 DEF Calling, callVars
  <2>4. Rot!Remove(cur)
    BY <2>1, <2>2, <2>3 DEF Rot!Remove
  <2> QED
    BY <2>1, <2>4 DEF Rot!Next
<1>3. ASSUME NEW c \in Caller, NextLoad(c) PROVE Rot!Next
  <2>1. /\ step[c] = "idle" /\ step'[c] # "idle"
        /\ \A d \in Caller : d # c => step'[d] = step[d]
        /\ InRotation' = InRotation
        /\ pick' = [pick EXCEPT ![c] = Nil]
        /\ candidates' = [candidates EXCEPT ![c] = InRotation]
    BY <1>3 DEF NextLoad, InRotation, runVars, TypeOK
  <2>2. c \notin Calling /\ Calling' = Calling \cup {c}
    BY <2>1 DEF Calling
  <2>3. Rot!Call(c)
    BY <2>1, <2>2 DEF Rot!Call
  <2> QED
    BY <2>3 DEF Rot!Next
<1>4. ASSUME NEW c \in Caller, NEW r \in candidates[c] \cup {Nil, Half},
             step[c] # "idle", Return(c, r)
      PROVE  Rot!Next
  <2>1. /\ step'[c] = "idle"
        /\ \A d \in Caller : d # c => step'[d] = step[d]
        /\ InRotation' = InRotation
        /\ pick' = [pick EXCEPT ![c] = r]
        /\ candidates' = [candidates EXCEPT ![c] = {}]
    BY <1>4 DEF Return, InRotation, runVars, TypeOK
  <2>2. c \in Calling /\ Calling' = Calling \ {c}
    BY <1>4, <2>1 DEF Calling
  <2>3. Rot!Answer(c)
    BY <2>1, <2>2 DEF Rot!Answer
  <2> QED
    BY <2>3 DEF Rot!Next
<1>5. ASSUME NEW c \in Caller, NextNil(c) \/ NextReadData(c) PROVE Rot!Next
  <2>1. CASE NextNil(c)
    BY <1>4, <2>1 DEF NextNil
  <2>2. CASE NextReadData(c)
    BY <1>4, <2>2, TargetIsCandidate DEF NextReadData
  <2> QED
    BY <1>5, <2>1, <2>2
<1>6. ASSUME NEW c \in Caller, NextBump(c) \/ NextReadType(c) PROVE FALSE
  <2>1. /\ UNCHANGED runVars /\ UNCHANGED <<pick, candidates>>
        /\ Calling' = Calling
    BY <1>6 DEF NextBump, Bump, NextReadType, Calling, histVars, TypeOK
  <2>2. InRotation' = InRotation
    BY <2>1 DEF InRotation, runVars
  <2> QED
    BY <2>1, <2>2 DEF Rot!vars
<1>7. ASSUME \/ \E w \in Worker : OnAddWorker(w) \/ OnRemoveWorker(w)
             \/ AddStore \/ ShiftSlot \/ ClearTail \/ Stop
      PROVE  FALSE
  <2>1. UNCHANGED callVars /\ UNCHANGED candidates
    BY <1>7 DEF OnAddWorker, OnRemoveWorker, AddStore, ShiftSlot, ClearTail, Stop, histVars
  <2>2. InRotation' = InRotation
    BY <1>7 DEF OnAddWorker, OnRemoveWorker, AddStore, ShiftSlot, ClearTail, Stop,
                InRotation
  <2>3. Calling' = Calling /\ pick' = pick
    BY <2>1 DEF Calling, callVars
  <2> QED
    BY <2>1, <2>2, <2>3 DEF Rot!vars
<1>8. ASSUME UNCHANGED vars PROVE FALSE
  BY <1>8 DEF vars, runVars, callVars, histVars, Rot!vars, InRotation, Calling
<1> QED
  BY <1>1, <1>2, <1>3, <1>5, <1>6, <1>7, <1>8 DEF Next, Run, NextCall

\* The load balancer implements Rotation: whatever the handlers overwrite under the
\* readers, a call never answers with a worker that was out of rotation all along.
THEOREM ImplementsRotation == Spec => RotationSpec
<1>1. Init => Rot!Init
  BY DEF Init, Rot!Init, InRotation, Calling
<1>2. LBInv => ListInv
  BY DEF LBInv
<1> QED
  BY <1>1, <1>2, LBInvariant, StepImplements, PTL DEF Spec, RotationSpec, Rot!Spec

\* Next() spreads the calls evenly: among the calls on one list no slot has its second turn
\* before every slot had its first, until the shared counter wraps.
THEOREM EvenSpreadHolds == Spec => EvenSpread
<1>1. LBInv /\ [Next]_vars =>
        [\A c \in Caller :
           step[c] = "bump" /\ step'[c] = "type" /\ view[c] = slice /\ nextIndex' > nextIndex
             => pos'[c] \notin turn]_vars
  <2> SUFFICES ASSUME LBInv, Next, NEW c \in Caller, step[c] = "bump", step'[c] = "type",
                      view[c] = slice, nextIndex' > nextIndex
               PROVE  pos'[c] \notin turn
    OBVIOUS
  <2> USE DEF LBInv, ListInv
  <2>1. NextBump(c)
    <3>1. step' # step /\ step \in [Caller -> {"idle", "empty", "bump", "type", "data"}]
      BY DEF TypeOK
    <3>2. ~Run
      BY <3>1 DEF Run, OnAddWorker, OnRemoveWorker, AddWrite, AddStore, ShiftSlot,
         ClearTail, RemoveStore, Stop, callVars
    <3>3. PICK d \in Caller : NextCall(d)
      BY <3>2 DEF Next
    <3>4. d = c
      BY <3>1, <3>3 DEF NextCall, NextLoad, NextBump, Bump, NextNil, NextReadType,
         NextReadData, Return
    <3> QED
      BY <3>1, <3>3, <3>4 DEF NextCall, NextLoad, NextNil, NextReadType, NextReadData, Return
  <2>2. /\ slice.len \in Nat \ {0} /\ nextIndex \in 0..(IndexLimit - 1)
        /\ IndexLimit \in Nat \ {0} /\ nextIndex \in Nat
    BY LBAssumption DEF TypeOK, ViewInv, Header
  <2>3. nextIndex' = nextIndex + 1
    <3>1. nextIndex' = (nextIndex + 1) % IndexLimit
      BY <2>1 DEF NextBump, Bump
    <3> QED
      BY <2>2, <3>1, CounterStep
  <2>4. pos'[c] = ((nextIndex + 1) % slice.len) + 1
    BY <2>1, <2>3 DEF NextBump, Bump, TypeOK
  <2> QED
    BY <2>2, <2>4, NextSlotIsFree
<1> QED
  BY <1>1, LBInvariant, PTL DEF Spec, EvenSpread

\* A call that found workers comes back without one only when a removal is overwriting the
\* list it loaded or the list has been replaced since.
THEOREM MissNeedsChangeHolds == Spec => MissNeedsChange
<1>1. LBInv /\ [Next]_vars =>
        [\A c \in Caller :
           step[c] \in {"type", "data"} /\ step'[c] = "idle" /\ pick'[c] \in {Nil, Half}
             => Removing \/ view[c] # slice]_vars
  <2> SUFFICES ASSUME LBInv, Next, NEW c \in Caller, step[c] \in {"type", "data"},
                      step'[c] = "idle", pick'[c] \in {Nil, Half},
                      ~Removing, view[c] = slice
               PROVE  FALSE
    OBVIOUS
  <2> USE DEF LBInv, ListInv
  <2>1. step' # step /\ step \in [Caller -> {"idle", "empty", "bump", "type", "data"}]
    BY DEF TypeOK
  <2>2. ~Run
    BY <2>1 DEF Run, OnAddWorker, OnRemoveWorker, AddWrite, AddStore, ShiftSlot,
       ClearTail, RemoveStore, Stop, callVars
  <2>3. PICK d \in Caller : NextCall(d)
    BY <2>2 DEF Next
  <2>4. d = c
    BY <2>1, <2>3 DEF NextCall, NextLoad, NextBump, Bump, NextNil, NextReadType,
       NextReadData, Return
  <2>5. pos[c] \in 1..slice.len /\ Target(c) = Array[pos[c]]
    BY DEF ViewInv, Target, Array
  <2>6. Target(c) \in Worker
    BY <2>5 DEF ContentInv, Staying, TypeOK
  <2>7. Target(c) \notin {Nil, Half}
    BY <2>6, LBAssumption
  <2>8. NextReadData(c) /\ pick'[c] = Target(c)
    <3>1. NextReadData(c)
      BY <2>1, <2>3, <2>4, <2>7 DEF NextCall, NextLoad, NextBump, Bump, NextNil, NextReadType
    <3> QED
      BY <2>7, <3>1 DEF NextReadData, Return, TypeOK
  <2> QED
    BY <2>7, <2>8
<1> QED
  BY <1>1, LBInvariant, PTL DEF Spec, MissNeedsChange
=============================================================================
