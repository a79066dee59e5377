---------------------------- MODULE StorageProofs ----------------------------
(***************************************************************************)
(* Proofs about the parts that store things.  The containers of            *)
(* kernel/src/storage.rs implement Containers, for every capacity, word    *)
(* size and set of keys and values: each operation on the arrays is the    *)
(* operation on the stack, the table, the set of bits or the queue that    *)
(* Stacked, Tabled, BitNumbers and Queued read off them.  The invariant is *)
(* what the operations rely on and none of them checks: the entries of a   *)
(* map are packed and their keys differ, and the head of a ring is in its  *)
(* array.                                                                  *)
(*                                                                         *)
(* The trace of atomic operations comes last: its loads are coherent.      *)
(***************************************************************************)
EXTENDS Storage, AtomicTrace, FiniteSetTheorems, WellFoundedInduction, TLAPS

(* A leaf that names no prover is for Zenon, with time to spare. *)
USE ZenonT(30)

(* Every set of naturals has a least member. *)
LEMMA LeastNat ==
  ASSUME NEW S \in SUBSET Nat, S # {}
  PROVE  \E m \in S : \A k \in S : m <= k
<1>1. PICK m \in S : \A k \in S : ~(<<k, m>> \in OpToRel(<, Nat))
  <2>1. S \subseteq Nat OBVIOUS
  <2>2. QED BY <2>1, NatLessThanWellFounded, WFMin
<1>2. \A k \in S : ~(k < m)
  BY <1>1, Zenon DEF OpToRel
<1>3. QED BY SMT, <1>2

(* Every bounded set of naturals has a greatest member. *)
LEMMA GreatestNat ==
  ASSUME NEW S \in SUBSET Nat, S # {}, NEW n \in Nat, \A k \in S : k <= n
  PROVE  \E m \in S : \A k \in S : k <= m
<1> DEFINE R == {d \in Nat : n - d \in S}
<1>1. R \in SUBSET Nat /\ R # {}
  <2>1. PICK k \in S : TRUE OBVIOUS
  <2>2. n - k \in R BY SMT, <2>1
  <2>3. QED BY <2>2
<1>2. PICK d \in R : \A e \in R : d <= e
  <2> HIDE DEF R
  <2> QED BY <1>1, LeastNat
<1>3. \A k \in S : k <= n - d
  BY SMT, <1>2
<1>4. QED BY <1>2, <1>3
-----------------------------------------------------------------------------
(* Sequences. *)

(* A function on 1..n is a sequence of length n. *)
LEMMA SeqOfLength ==
  ASSUME NEW V, NEW n \in Nat, NEW s \in [1..n -> V]
  PROVE  s \in Seq(V) /\ Len(s) = n
BY SMT

(* Two sequences of one length and the same elements are equal. *)
LEMMA SameElements ==
  ASSUME NEW V, NEW s \in Seq(V), NEW t \in Seq(V), Len(s) = Len(t),
         \A i \in 1..Len(s) : s[i] = t[i]
  PROVE  s = t
BY SMT

(* Append leaves the elements where they are and puts the value after them. *)
LEMMA AppendIs ==
  ASSUME NEW V, NEW n \in Nat, NEW s \in [1..n -> V], NEW t \in [1..(n + 1) -> V],
         \A i \in 1..n : t[i] = s[i]
  PROVE  t = Append(s, t[n + 1])
<1> DEFINE v == t[n + 1]
<1>1. s \in Seq(V) /\ Len(s) = n BY SeqOfLength
<1>2. v \in V BY SMT
<1> HIDE DEF v
<1>3. Append(s, v) \in Seq(V) /\ Len(Append(s, v)) = n + 1 BY SMT, <1>1, <1>2
<1>4. \A i \in 1..(n + 1) : Append(s, v)[i] = t[i] BY SMT, <1>1, <1>2 DEF v
<1>5. t \in Seq(V) /\ Len(t) = n + 1 BY SMT, SeqOfLength
<1>6. t = Append(s, v) BY <1>3, <1>4, <1>5, SameElements
<1>7. QED BY <1>6 DEF v

(* SubSeq(s, 1, Len(s) - 1) drops the last element. *)
LEMMA FrontIs ==
  ASSUME NEW V, NEW n \in Nat \ {0}, NEW s \in [1..n -> V], NEW t \in [1..(n - 1) -> V],
         \A i \in 1..(n - 1) : t[i] = s[i]
  PROVE  t = SubSeq(s, 1, n - 1)
<1>1. s \in Seq(V) /\ Len(s) = n BY SeqOfLength
<1>2. SubSeq(s, 1, n - 1) = [i \in 1..(n - 1) |-> s[i]] BY SMT, <1>1
<1>3. QED BY <1>2

(* Tail drops the first element and moves the others down. *)
LEMMA TailIs ==
  ASSUME NEW V, NEW n \in Nat \ {0}, NEW s \in [1..n -> V], NEW t \in [1..(n - 1) -> V],
         \A i \in 1..(n - 1) : t[i] = s[i + 1]
  PROVE  t = Tail(s) /\ Head(s) = s[1]
<1>1. s \in Seq(V) /\ Len(s) = n BY SeqOfLength
<1>2. Tail(s) \in Seq(V) /\ Len(Tail(s)) = n - 1 /\ \A i \in 1..(n - 1) : Tail(s)[i] = s[i + 1]
  BY SMT, <1>1
<1>3. t \in Seq(V) /\ Len(t) = n - 1 BY SMT, SeqOfLength
<1>4. QED BY SMT, <1>1, <1>2, <1>3, SameElements
-----------------------------------------------------------------------------
(* The invariant.  Containers with nothing in common keep separate parts. *)
VecInv == fixed_vec \in [values : [Index -> StorageValues], len : 0..StorageN]

MapInv ==
  /\ fixed_map \in [entries : [Index -> (StorageKeys \X StorageValues) \cup {NoEntry}],
                    len : 0..StorageN]
  /\ \A i \in Index : fixed_map.entries[i] # NoEntry <=> i < fixed_map.len
  /\ \A i, j \in 0..(fixed_map.len - 1) :
       fixed_map.entries[i][1] = fixed_map.entries[j][1] => i = j

BitsInv == bitmap \in [0..(WORDS - 1) -> SUBSET (0..(WordBits - 1))]

RingInv ==
  /\ ring \in [values : [Index -> StorageValues], head : Nat, len : 0..StorageN]
  /\ StorageN > 0 => ring.head < StorageN

StorageInv == VecInv /\ MapInv /\ BitsInv /\ RingInv

(* The initial state. *)
LEMMA StorageInitHolds == StorageInit => StorageInv /\ Promise!ContainersInit
<1> SUFFICES ASSUME StorageInit PROVE StorageInv /\ Promise!ContainersInit OBVIOUS
<1> USE StorageAssumption DEF StorageInit
<1>1. VecInv BY SMT DEF VecInv, Index
<1>2. MapInv BY SMT DEF MapInv, Index, NoEntry
<1>3. BitsInv BY DEF BitsInv
<1>4. RingInv BY SMT DEF RingInv, Index
<1>5. Stacked = <<>> BY SMT DEF Stacked
<1>6. Tabled = {} BY DEF Tabled
<1>7. BitNumbers = {} BY SMT DEF BitNumbers
<1>8. Queued = <<>> BY SMT DEF Queued
<1>9. Promise!ContainersInit
  BY <1>5, <1>6, <1>7, <1>8 DEF Promise!ContainersInit
<1>10. QED BY <1>1, <1>2, <1>3, <1>4, <1>9 DEF StorageInv
-----------------------------------------------------------------------------
(* FixedVec. *)

(* The first n values of the array, as a sequence. *)
StackFrom(a, n) == [i \in 1..n |-> a[i - 1]]

(* It is a sequence of n values, empty only if n is 0. *)
LEMMA StackFromIs ==
  ASSUME NEW a \in [Index -> StorageValues], NEW n \in 0..StorageN
  PROVE  /\ n \in Nat
         /\ StackFrom(a, n) \in [1..n -> StorageValues]
         /\ StackFrom(a, n) \in Seq(StorageValues) /\ Len(StackFrom(a, n)) = n
         /\ StackFrom(a, n) = <<>> <=> n = 0
         /\ \A i \in 0..(n - 1) : StackFrom(a, n)[i + 1] = a[i]
<1>1. n \in Nat /\ StackFrom(a, n) \in [1..n -> StorageValues]
  BY SMT, StorageAssumption DEF StackFrom, Index
<1>2. StackFrom(a, n) \in Seq(StorageValues) /\ Len(StackFrom(a, n)) = n
  BY <1>1, SeqOfLength
<1>3. \A i \in 0..(n - 1) : StackFrom(a, n)[i + 1] = a[i]
  BY SMT, <1>1 DEF StackFrom
<1>4. QED BY SMT, <1>1, <1>2, <1>3

(* Writing slot i below the length changes element i + 1 of the stack      *)
(* alone.                                                                  *)
LEMMA StackSet ==
  ASSUME NEW a \in [Index -> StorageValues], NEW b \in [Index -> StorageValues],
         NEW n \in 0..StorageN, NEW i \in Index, i < n, \A j \in Index \ {i} : b[j] = a[j]
  PROVE  StackFrom(b, n) = [StackFrom(a, n) EXCEPT ![i + 1] = b[i]]
<1>1. n \in Nat /\ i \in Nat /\ i + 1 \in 1..n
      /\ \A j \in 1..n : j - 1 \in Index /\ (j - 1 = i <=> j = i + 1)
  BY SMT, StorageAssumption DEF Index
<1>2. \A j \in 1..n : b[j - 1] = IF j = i + 1 THEN b[i] ELSE a[j - 1] BY <1>1
<1>3. QED BY <1>1, <1>2 DEF StackFrom

(* A value written into the slot at the length, which then grows by one,   *)
(* is appended to the stack.                                               *)
LEMMA StackPush ==
  ASSUME NEW a \in [Index -> StorageValues], NEW n \in Index, NEW v \in StorageValues
  PROVE  /\ [a EXCEPT ![n] = v] \in [Index -> StorageValues] /\ n + 1 \in 0..StorageN
         /\ StackFrom([a EXCEPT ![n] = v], n + 1) = Append(StackFrom(a, n), v)
<1> DEFINE b == [a EXCEPT ![n] = v]
<1>1. n \in Nat /\ n \in 0..StorageN /\ n + 1 \in 0..StorageN /\ (n + 1) - 1 = n
  BY SMT, StorageAssumption DEF Index
<1>2. b \in [Index -> StorageValues] OBVIOUS
<1>3. \A i \in 1..n : i - 1 \in 0..(n - 1) /\ i - 1 \in Index /\ i - 1 # n /\ i \in 1..(n + 1)
  BY SMT, <1>1, StorageAssumption DEF Index
<1>4. \A i \in 1..n : b[i - 1] = a[i - 1] BY <1>3
<1>5. b[n] = v OBVIOUS
<1> HIDE DEF b
<1>6. StackFrom(b, n + 1)[n + 1] = v /\ \A i \in 1..n : StackFrom(b, n + 1)[i] = StackFrom(a, n)[i]
  BY SMT, <1>1, <1>3, <1>4, <1>5 DEF StackFrom
<1>7. StackFrom(b, n + 1) = Append(StackFrom(a, n), v)
  BY SMT, <1>1, <1>2, <1>6, StackFromIs, AppendIs
<1>8. QED BY <1>1, <1>2, <1>7 DEF b

(* A length one less drops the last element of the stack. *)
LEMMA StackPop ==
  ASSUME NEW a \in [Index -> StorageValues], NEW n \in 0..StorageN, n # 0
  PROVE  /\ n - 1 \in 0..StorageN
         /\ StackFrom(a, n - 1) = SubSeq(StackFrom(a, n), 1, n - 1)
<1>1. n \in Nat \ {0} /\ n - 1 \in 0..StorageN /\ n - 1 \in Nat BY SMT, StorageAssumption
<1>2. \A i \in 1..(n - 1) : StackFrom(a, n - 1)[i] = StackFrom(a, n)[i]
  BY SMT, <1>1 DEF StackFrom
<1>3. QED BY SMT, <1>1, <1>2, StackFromIs, FrontIs

(* What the assignments to values and len leave. *)
LEMMA VecAssigned ==
  ASSUME NEW a, NEW n, NEW i, NEW v, NEW b, b = [a EXCEPT ![i] = v], NEW r,
         r = [values |-> a, len |-> n]
  PROVE  /\ [r EXCEPT !.values[i] = v] = [values |-> b, len |-> n]
         /\ [r EXCEPT !.values[i] = v, !.len = @ + 1] = [values |-> b, len |-> n + 1]
<1>1. [r EXCEPT !.values[i] = v] = [values |-> b, len |-> n]
  BY SMT
<1>2. [r EXCEPT !.values[i] = v, !.len = @ + 1] = [[r EXCEPT !.values[i] = v] EXCEPT !.len = @ + 1]
  OBVIOUS
<1>3. [[values |-> b, len |-> n] EXCEPT !.len = @ + 1] = [values |-> b, len |-> n + 1]
  BY SMT
<1>4. QED BY <1>1, <1>2, <1>3

(* Every operation of FixedVec keeps its shape and does to the stack what  *)
(* Containers promises, errors included.                                   *)
LEMMA VecStep ==
  ASSUME VecInv, VecNext
  PROVE  VecInv' /\ Promise!StackStep
<1> DEFINE a == fixed_vec.values
           n == fixed_vec.len
<1>1. fixed_vec = [values |-> a, len |-> n] /\ a \in [Index -> StorageValues] /\ n \in 0..StorageN
  BY DEF VecInv
<1>2. Stacked = StackFrom(a, n) BY DEF Stacked, StackFrom
<1>3. UNCHANGED <<Tabled, BitNumbers, Queued>>
  BY SMT DEF VecNext, Tabled, BitNumbers, Queued
<1>4. ASSUME UNCHANGED fixed_vec PROVE VecInv' /\ UNCHANGED Stacked
  BY <1>4 DEF VecInv, Stacked
<1>5. ASSUME NEW b \in [Index -> StorageValues], NEW m \in 0..StorageN,
             fixed_vec' = [values |-> b, len |-> m]
      PROVE  VecInv' /\ Stacked' = StackFrom(b, m)
  BY <1>5 DEF VecInv, Stacked, StackFrom
<1>6. n \in Nat /\ Len(Stacked) = n /\ (Stacked = <<>> <=> n = 0)
  BY <1>1, <1>2, StackFromIs
<1> HIDE DEF a, n
<1> USE DEF Promise!Ok, Promise!Refuse, Called, Errs, Returns
<1>10. CASE \E i \in 0..StorageN : vec_get(i)
  <2>1. PICK i \in 0..StorageN : vec_get(i) BY <1>10
  <2>20. request' = <<"vec_get", i>> BY <2>1 DEF vec_get
  <2>2. UNCHANGED fixed_vec BY <2>1 DEF vec_get
  <2>3. CASE i >= n
    <3>1. answer' = <<"OutOfBounds", 0>> BY <2>1, <2>3 DEF vec_get, n
    <3>2. QED BY <1>3, <1>4, <1>6, <2>2, <2>3, <3>1, StorageAssumption, <2>20 DEF Promise!StackStep, Promise!ElementAt
  <2>4. CASE ~(i >= n)
    <3>1. i \in 0..(n - 1) BY SMT, <1>6, <2>4
    <3>2. answer' = <<"Ok", Stacked[i + 1]>>
      BY <1>1, <1>2, <2>1, <2>4, <3>1, StackFromIs DEF vec_get, n, a
    <3>3. QED BY <1>3, <1>4, <1>6, <2>2, <2>4, <3>2, StorageAssumption, <2>20 DEF Promise!StackStep, Promise!ElementAt
  <2>5. QED BY <2>3, <2>4
<1>11. CASE \E i \in 0..StorageN, v \in StorageValues : vec_set(i, v)
  <2>1. PICK i \in 0..StorageN, v \in StorageValues : vec_set(i, v) BY <1>11
  <2>20. request' = <<"vec_set", i, v>> BY <2>1 DEF vec_set
  <2>2. CASE i >= n
    <3>1. answer' = <<"OutOfBounds", 0>> /\ UNCHANGED fixed_vec BY <2>1, <2>2 DEF vec_set, n
    <3>2. QED BY <1>3, <1>4, <1>6, <2>2, <3>1, StorageAssumption, <2>20 DEF Promise!StackStep, Promise!Assign
  <2>3. CASE ~(i >= n)
    <3>1. i < n /\ i \in Index BY SMT, <1>1, <1>6, <2>3, StorageAssumption DEF Index
    <3> DEFINE b == [a EXCEPT ![i] = v]
    <3>2. fixed_vec' = [fixed_vec EXCEPT !.values[i] = v] /\ answer' = <<"Ok", 0>>
      BY <2>1, <2>3 DEF vec_set, n
    <3>3. fixed_vec' = [values |-> b, len |-> n]
      BY <1>1, <3>1, <3>2, VecAssigned
    <3>4. b \in [Index -> StorageValues] /\ b[i] = v /\ \A j \in Index \ {i} : b[j] = a[j]
      BY <1>1, <3>1
    <3> HIDE DEF b
    <3>5. StackFrom(b, n) = [StackFrom(a, n) EXCEPT ![i + 1] = b[i]]
      BY SMT, <1>1, <3>1, <3>4, StackSet
    <3>7. VecInv' /\ Stacked' = [Stacked EXCEPT ![i + 1] = v]
      BY <1>1, <1>2, <1>5, <3>3, <3>4, <3>5
    <3>8. QED BY <1>3, <1>6, <2>3, <3>2, <3>7, <2>20 DEF Promise!StackStep, Promise!Assign
  <2>4. QED BY <2>2, <2>3
<1>12. CASE \E v \in StorageValues : vec_push(v)
  <2>1. PICK v \in StorageValues : vec_push(v) BY <1>12
  <2>20. request' = <<"vec_push", v>> BY <2>1 DEF vec_push
  <2>2. CASE n = StorageN
    <3>1. answer' = <<"Full", 0>> /\ UNCHANGED fixed_vec BY <2>1, <2>2 DEF vec_push, n
    <3>2. QED BY <1>3, <1>4, <1>6, <2>2, <3>1, <2>20 DEF Promise!StackStep, Promise!Push
  <2>3. CASE n # StorageN
    <3>1. n \in Index BY SMT, <1>1, <2>3, StorageAssumption DEF Index
    <3> DEFINE b == [a EXCEPT ![n] = v]
    <3>2. fixed_vec' = [fixed_vec EXCEPT !.values[n] = v, !.len = @ + 1] /\ answer' = <<"Ok", 0>>
      BY <2>1, <2>3 DEF vec_push, n
    <3>3. fixed_vec' = [values |-> b, len |-> n + 1]
      BY <1>1, <3>1, <3>2, VecAssigned
    <3>4. /\ b \in [Index -> StorageValues] /\ n + 1 \in 0..StorageN
          /\ StackFrom(b, n + 1) = Append(Stacked, v)
      BY <1>1, <1>2, <3>1, StackPush
    <3> HIDE DEF b
    <3>5. VecInv' /\ Stacked' = Append(Stacked, v) BY <1>5, <3>3, <3>4
    <3>6. QED BY <1>3, <1>6, <2>3, <3>2, <3>5, <2>20 DEF Promise!StackStep, Promise!Push
  <2>4. QED BY <2>2, <2>3
<1>13. CASE vec_pop
  <2>20. request' = <<"vec_pop">> BY <1>13 DEF vec_pop
  <2>1. CASE n = 0
    <3>1. answer' = <<"Empty", 0>> /\ UNCHANGED fixed_vec BY <1>13, <2>1 DEF vec_pop, n
    <3>2. QED BY <1>3, <1>4, <1>6, <2>1, <3>1, <2>20 DEF Promise!StackStep, Promise!Pop
  <2>2. CASE n # 0
    <3>1. n - 1 \in 0..(n - 1) /\ (n - 1) + 1 = n BY SMT, <1>6, <2>2
    <3>2. fixed_vec' = [values |-> a, len |-> n - 1] /\ answer' = <<"Ok", a[n - 1]>>
      BY <1>1, <1>13, <2>2 DEF vec_pop, n, a
    <3>3. a[n - 1] = Stacked[n] BY SMT, <1>1, <1>2, <3>1, StackFromIs
    <3>4. VecInv' /\ Stacked' = SubSeq(Stacked, 1, n - 1)
      BY <1>1, <1>2, <1>5, <2>2, <3>2, StackPop
    <3>5. QED BY <1>3, <1>6, <2>2, <3>2, <3>3, <3>4, <2>20 DEF Promise!StackStep, Promise!Pop
  <2>3. QED BY <2>1, <2>2
<1>14. QED BY <1>10, <1>11, <1>12, <1>13 DEF VecNext

-----------------------------------------------------------------------------
(* Bitmap. *)

(* Division with remainder, and its uniqueness. *)
LEMMA DivMod ==
  ASSUME NEW B \in Nat \ {0}, NEW x \in Nat
  PROVE  x \div B \in Nat /\ x % B \in 0..(B - 1) /\ x = B * (x \div B) + (x % B)
<1>1. x \div B \in Nat /\ x % B \in 0..(B - 1) BY SMT
<1>2. x = B * (x \div B) + (x % B) BY SMT
<1>3. QED BY <1>1, <1>2

(* A smaller quotient makes a smaller number, whatever the remainders. *)
LEMMA DivOrder ==
  ASSUME NEW B \in Nat \ {0}, NEW q \in Nat, NEW p \in Nat, q < p,
         NEW r \in 0..(B - 1), NEW s \in 0..(B - 1)
  PROVE  B * q + r < B * p + s
<1>1. B * p >= B * (q + 1) BY SMT
<1>2. B * (q + 1) = B * q + B BY SMT
<1>3. B * q \in Nat /\ B * p \in Nat BY SMT
<1>4. QED BY SMT, <1>1, <1>2, <1>3

(* Bit b of word w has the number w * B + b, and no other bit has it. *)
LEMMA BitNumber ==
  ASSUME NEW B \in Nat \ {0}, NEW w \in Nat, NEW b \in 0..(B - 1)
  PROVE  /\ w * B + b \in Nat /\ w * B + b = B * w + b
         /\ (w * B + b) \div B = w /\ (w * B + b) % B = b
<1> DEFINE x == w * B + b
           q == x \div B
           r == x % B
<1>1. x \in Nat /\ x = B * w + b BY SMT
<1> HIDE DEF x
<1>2. q \in Nat /\ r \in 0..(B - 1) /\ x = B * q + r BY <1>1, DivMod
<1> HIDE DEF q, r
<1>3. ~(q < w) /\ ~(w < q)
  <2>1. ASSUME q < w PROVE B * q + r < B * w + b BY <1>2, <2>1, DivOrder
  <2>2. ASSUME w < q PROVE B * w + b < B * q + r BY <1>2, <2>2, DivOrder
  <2>3. QED BY SMT, <1>1, <1>2, <2>1, <2>2
<1>4. q = w BY SMT, <1>2, <1>3
<1>5. r = b BY SMT, <1>1, <1>2, <1>4
<1>6. QED BY <1>1, <1>4, <1>5 DEF x, q, r

(* A number below WORDS * WordBits is a bit of a word of the map, and only *)
(* such a number.                                                          *)
LEMMA WordInRange ==
  ASSUME NEW x \in Nat
  PROVE  /\ x \div WordBits \in 0..(WORDS - 1) <=> x < WORDS * WordBits
         /\ x \div WordBits >= WORDS <=> x >= WORDS * WordBits
         /\ WORDS * WordBits \in Nat
<1> DEFINE q == x \div WordBits
           r == x % WordBits
<1>1. q \in Nat /\ r \in 0..(WordBits - 1) /\ x = WordBits * q + r
  BY DivMod, StorageAssumption
<1>2. WORDS * WordBits = WordBits * WORDS + 0 /\ WORDS * WordBits \in Nat /\ WORDS \in Nat
  BY SMT, StorageAssumption
<1>3. 0 \in 0..(WordBits - 1) /\ WordBits \in Nat \ {0} BY SMT, StorageAssumption
<1> HIDE DEF q, r
<1>4. ASSUME q < WORDS PROVE x < WORDS * WordBits
  BY <1>1, <1>2, <1>3, <1>4, DivOrder
<1>5. ASSUME q >= WORDS PROVE x >= WORDS * WordBits
  <2>1. WordBits * q >= WordBits * WORDS BY SMT, <1>1, <1>2, <1>3, <1>5
  <2>2. WordBits * q \in Nat /\ WordBits * WORDS \in Nat BY SMT, <1>1, <1>2, <1>3
  <2>3. QED BY SMT, <1>1, <1>2, <2>1, <2>2
<1>6. QED BY SMT, <1>1, <1>2, <1>4, <1>5 DEF q

(* The words of a bitmap. *)
Words == [0..(WORDS - 1) -> SUBSET (0..(WordBits - 1))]

BitsFrom(m) == UNION {{w * WordBits + b : b \in m[w]} : w \in DOMAIN m}

(* Which numbers are in the set. *)
LEMMA InBits ==
  ASSUME NEW m \in Words
  PROVE  /\ BitsFrom(m) \subseteq 0..(WORDS * WordBits - 1)
         /\ \A x \in Nat : x \in BitsFrom(m) <=> /\ x < WORDS * WordBits
                                                 /\ x % WordBits \in m[x \div WordBits]
<1>1. ASSUME NEW w \in 0..(WORDS - 1), NEW b \in m[w]
      PROVE  /\ w * WordBits + b \in 0..(WORDS * WordBits - 1)
             /\ (w * WordBits + b) \div WordBits = w /\ (w * WordBits + b) % WordBits = b
  <2>1. w \in Nat /\ b \in 0..(WordBits - 1) BY SMT, StorageAssumption DEF Words
  <2> DEFINE x == w * WordBits + b
  <2>2. x \in Nat /\ x \div WordBits = w /\ x % WordBits = b
    BY <2>1, BitNumber, StorageAssumption
  <2> HIDE DEF x
  <2>3. x < WORDS * WordBits /\ WORDS * WordBits \in Nat BY <2>2, WordInRange
  <2>4. QED BY SMT, <2>2, <2>3 DEF x
<1>2. BitsFrom(m) \subseteq 0..(WORDS * WordBits - 1)
  BY SMT, <1>1 DEF BitsFrom, Words
<1>3. ASSUME NEW x \in Nat, x \in BitsFrom(m)
      PROVE  x < WORDS * WordBits /\ x % WordBits \in m[x \div WordBits]
  <2>1. PICK w \in 0..(WORDS - 1) : \E b \in m[w] : x = w * WordBits + b
    BY <1>3 DEF BitsFrom, Words
  <2>2. PICK b \in m[w] : x = w * WordBits + b BY <2>1
  <2>3. x % WordBits = b /\ x \div WordBits = w BY <1>1, <2>2
  <2>4. x \div WordBits \in 0..(WORDS - 1) /\ x % WordBits \in m[x \div WordBits] BY <2>3
  <2>5. QED BY <2>4, WordInRange
<1>4. ASSUME NEW x \in Nat, x < WORDS * WordBits, x % WordBits \in m[x \div WordBits]
      PROVE  x \in BitsFrom(m)
  <2> DEFINE w == x \div WordBits
             b == x % WordBits
  <2>1. w \in 0..(WORDS - 1) BY <1>4, WordInRange
  <2>2. w \in Nat /\ b \in Nat /\ x = WordBits * w + b BY SMT, DivMod, StorageAssumption
  <2>3. b \in m[w] BY <1>4
  <2> HIDE DEF w, b
  <2>4. x = w * WordBits + b BY SMT, <2>2, StorageAssumption
  <2>5. QED BY SMT, <2>1, <2>3, <2>4 DEF BitsFrom, Words
<1>5. QED BY <1>2, <1>3, <1>4

(* The least element of a set of naturals. *)
LEMMA FirstOfIs ==
  ASSUME NEW S \in SUBSET Nat, S # {}
  PROVE  FirstOf(S) \in S /\ FirstOf(S) \in Nat /\ \A j \in S : FirstOf(S) <= j
<1>1. \E i \in S : \A j \in S : i <= j BY LeastNat
<1>2. QED BY <1>1 DEF FirstOf

(* Setting or clearing a bit of a word does it to the number of the bit. *)
LEMMA BitAssigned ==
  ASSUME NEW m \in Words, NEW x \in Nat, x < WORDS * WordBits, NEW n, NEW value \in BOOLEAN,
         n = [m EXCEPT ![x \div WordBits] = IF value THEN @ \cup {x % WordBits}
                                                    ELSE @ \ {x % WordBits}]
  PROVE  /\ n \in Words
         /\ BitsFrom(n) = IF value THEN BitsFrom(m) \cup {x} ELSE BitsFrom(m) \ {x}
<1> DEFINE w == x \div WordBits
           b == x % WordBits
<1>1. w \in 0..(WORDS - 1) /\ b \in 0..(WordBits - 1) /\ x = WordBits * w + b
  BY WordInRange, DivMod, StorageAssumption
<1> HIDE DEF w, b
<1>2. n = [m EXCEPT ![w] = IF value THEN @ \cup {b} ELSE @ \ {b}] BY DEF w, b
<1>3. n \in Words
  <2>1. m[w] \in SUBSET (0..(WordBits - 1)) BY <1>1 DEF Words
  <2>2. (IF value THEN m[w] \cup {b} ELSE m[w] \ {b}) \in SUBSET (0..(WordBits - 1))
    BY <1>1, <2>1
  <2>3. QED BY <1>2, <2>2 DEF Words
<1>4. ASSUME NEW y \in Nat, y < WORDS * WordBits
      PROVE  y \in BitsFrom(n) <=> IF y = x THEN value ELSE y \in BitsFrom(m)
  <2> DEFINE v == y \div WordBits
             c == y % WordBits
  <2>1. v \in 0..(WORDS - 1) /\ c \in 0..(WordBits - 1) /\ y = WordBits * v + c
    BY <1>4, WordInRange, DivMod, StorageAssumption
  <2>2. y \in BitsFrom(n) <=> c \in n[v] BY <1>3, <1>4, InBits
  <2>3. y \in BitsFrom(m) <=> c \in m[v] BY <1>4, InBits
  <2>4. y = x => v = w /\ c = b BY DEF w, b
  <2> HIDE DEF v, c
  <2>5. v = w /\ c = b => y = x BY <1>1, <2>1
  <2>6. c \in n[v] <=> IF v = w /\ c = b THEN value ELSE c \in m[v]
    BY SMT, <1>1, <1>2, <2>1 DEF Words
  <2>7. QED BY <2>2, <2>3, <2>4, <2>5, <2>6
<1>5. \A y \in BitsFrom(n) \cup BitsFrom(m) : y \in Nat /\ y < WORDS * WordBits
  <2>1. BitsFrom(n) \cup BitsFrom(m) \subseteq 0..(WORDS * WordBits - 1) BY <1>3, InBits
  <2>2. WORDS * WordBits \in Nat BY WordInRange
  <2>3. QED BY SMT, <2>1, <2>2
<1>6. \A y : y \in BitsFrom(n) <=> IF y = x THEN value ELSE y \in BitsFrom(m)
  BY <1>4, <1>5
<1>7. QED BY <1>3, <1>6

(* When every word is full so is the set. *)
LEMMA AllFull ==
  ASSUME NEW m \in Words, \A w \in 0..(WORDS - 1) : m[w] = 0..(WordBits - 1)
  PROVE  BitsFrom(m) = 0..(WORDS * WordBits - 1)
<1>1. ASSUME NEW x \in 0..(WORDS * WordBits - 1) PROVE x \in BitsFrom(m)
  <2>1. x \in Nat /\ x < WORDS * WordBits BY SMT, <1>1, WordInRange
  <2>2. x \div WordBits \in 0..(WORDS - 1) BY <2>1, WordInRange
  <2>3. x % WordBits \in 0..(WordBits - 1) BY <2>1, DivMod, StorageAssumption
  <2>4. QED BY <2>1, <2>2, <2>3, InBits
<1>2. QED BY <1>1, InBits

(* The trailing ones of the first word that is not full end at the least   *)
(* number that is not in the set.                                          *)
LEMMA FirstClear ==
  ASSUME NEW m \in Words, NEW w \in 0..(WORDS - 1), NEW b \in (0..(WordBits - 1)) \ m[w],
         \A v \in 0..(WORDS - 1) : m[v] # 0..(WordBits - 1) => w <= v,
         \A c \in (0..(WordBits - 1)) \ m[w] : b <= c
  PROVE  LET x == w * WordBits + b IN
         /\ x \in (0..(WORDS * WordBits - 1)) \ BitsFrom(m)
         /\ \A y \in 0..(x - 1) : y \in BitsFrom(m)
<1> DEFINE x == w * WordBits + b
<1>1. w \in Nat /\ b \in 0..(WordBits - 1) /\ WordBits \in Nat \ {0} BY SMT, StorageAssumption
<1>2. x \in Nat /\ x \div WordBits = w /\ x % WordBits = b /\ x = WordBits * w + b
  BY <1>1, BitNumber
<1> HIDE DEF x
<1>3. x < WORDS * WordBits BY <1>2, WordInRange
<1>4. x \notin BitsFrom(m) BY <1>2, InBits
<1>5. ASSUME NEW y \in 0..(x - 1) PROVE y \in BitsFrom(m)
  <2> DEFINE v == y \div WordBits
             c == y % WordBits
  <2>1. y \in Nat /\ y < x /\ y < WORDS * WordBits BY SMT, <1>2, <1>3, WordInRange
  <2>2. v \in 0..(WORDS - 1) /\ v \in Nat /\ c \in 0..(WordBits - 1) /\ y = WordBits * v + c
    BY <1>1, <2>1, WordInRange, DivMod
  <2>3. y \in BitsFrom(m) <=> c \in m[v] BY <2>1, InBits
  <2> HIDE DEF v, c
  <2>4. ~(w < v)
    <3>1. ASSUME w < v PROVE WordBits * w + b < WordBits * v + c
      BY <1>1, <2>2, <3>1, DivOrder
    <3>2. QED BY SMTT(30), <1>2, <2>1, <2>2, <3>1
  <2>5. CASE v < w
    <3>1. m[v] = 0..(WordBits - 1) BY SMT, <1>1, <2>2, <2>5
    <3>2. QED BY <2>2, <2>3, <3>1
  <2>6. CASE v = w
    <3>1. c < b BY SMTT(30), <1>1, <1>2, <2>1, <2>2, <2>6
    <3>2. c \in m[w] BY SMT, <1>1, <2>2, <3>1
    <3>3. QED BY <2>3, <2>6, <3>2
  <2>7. QED BY SMTT(30), <1>1, <2>2, <2>4, <2>5, <2>6
<1>6. x \in 0..(WORDS * WordBits - 1) BY SMT, <1>2, <1>3, WordInRange
<1>7. QED BY <1>4, <1>5, <1>6 DEF x

(* Every operation of Bitmap sets, clears or finds the bit that Containers *)
(* promises: find_first_clear skips the full words and answers the least   *)
(* bit number that is clear.                                               *)
LEMMA BitmapStep ==
  ASSUME BitsInv, BitmapNext
  PROVE  BitsInv' /\ Promise!BitsStep
<1>1. bitmap \in Words /\ BitNumbers = BitsFrom(bitmap)
  BY DEF BitsInv, Words, BitNumbers, BitsFrom
<1>2. UNCHANGED <<Stacked, Tabled, Queued>>
  BY DEF BitmapNext, Stacked, Tabled, Queued
<1>3. ASSUME UNCHANGED bitmap PROVE BitsInv' /\ UNCHANGED BitNumbers
  BY SMT, <1>3 DEF BitsInv, BitNumbers
<1>4. WORDS * WordBits \in Nat BY SMT, StorageAssumption
<1> DEFINE limit == WORDS * WordBits
<1> HIDE DEF limit
<1> USE DEF Promise!Ok, Promise!Refuse, Called, Errs, Returns
<1>5. CASE \E x \in 0..limit : bit_get(x)
  <2>1. PICK x \in 0..limit : bit_get(x) BY <1>5
  <2>20. request' = <<"bit_get", x>> BY <2>1 DEF bit_get
  <2>2. x \in Nat BY SMT, <1>4, <2>1 DEF limit
  <2>3. UNCHANGED bitmap BY <2>1 DEF bit_get
  <2>4. x \div WordBits >= WORDS <=> x >= limit BY <2>2, WordInRange DEF limit
  <2>5. x < limit => (x \in BitNumbers <=> x % WordBits \in bitmap[x \div WordBits])
    BY <1>1, <2>2, InBits DEF limit
  <2>6. CASE x >= limit
    <3>1. answer' = <<"OutOfBounds", 0>> BY <2>1, <2>4, <2>6 DEF bit_get
    <3>2. QED BY <1>2, <1>3, <2>1, <2>3, <2>6, <3>1, <2>20 DEF Promise!BitsStep, Promise!TestBit, limit
  <2>7. CASE ~(x >= limit)
    <3>1. x < limit BY SMT, <1>4, <2>2, <2>7 DEF limit
    <3>2. answer' = <<"Ok", IF x \in BitNumbers THEN 1 ELSE 0>>
      BY <2>1, <2>4, <2>5, <2>7, <3>1 DEF bit_get
    <3>3. QED BY <1>2, <1>3, <2>1, <2>3, <2>7, <3>2, <2>20 DEF Promise!BitsStep, Promise!TestBit, limit
  <2>8. QED BY <2>6, <2>7
<1>6. CASE \E x \in 0..limit, value \in BOOLEAN : bit_set(x, value)
  <2>1. PICK x \in 0..limit, value \in BOOLEAN : bit_set(x, value) BY <1>6
  <2>20. request' = <<"bit_set", x, value>> BY <2>1 DEF bit_set
  <2>2. x \in Nat BY SMT, <1>4, <2>1 DEF limit
  <2>3. x \div WordBits >= WORDS <=> x >= limit BY <2>2, WordInRange DEF limit
  <2>4. CASE x >= limit
    <3>1. answer' = <<"OutOfBounds", 0>> /\ UNCHANGED bitmap BY <2>1, <2>3, <2>4 DEF bit_set
    <3>2. QED BY <1>2, <1>3, <2>1, <2>4, <3>1, <2>20 DEF Promise!BitsStep, Promise!SetBit, limit
  <2>5. CASE ~(x >= limit)
    <3>1. x < WORDS * WordBits BY SMT, <1>4, <2>2, <2>5 DEF limit
    <3>2. answer' = <<"Ok", 0>> BY <2>1, <2>3, <2>5 DEF bit_set
    <3>3. bitmap' = [bitmap EXCEPT ![x \div WordBits] = IF value THEN @ \cup {x % WordBits}
                                                                 ELSE @ \ {x % WordBits}]
      BY <2>1, <2>3, <2>5 DEF bit_set
    <3>4. /\ bitmap' \in Words
          /\ BitsFrom(bitmap') = IF value THEN BitsFrom(bitmap) \cup {x} ELSE BitsFrom(bitmap) \ {x}
      BY <1>1, <2>2, <3>1, <3>3, BitAssigned
    <3>5. BitsInv' /\ BitNumbers' = IF value THEN BitNumbers \cup {x} ELSE BitNumbers \ {x}
      BY <1>1, <3>4 DEF BitsInv, Words, BitNumbers, BitsFrom
    <3>6. QED BY <1>2, <2>1, <2>5, <3>2, <3>5, <2>20 DEF Promise!BitsStep, Promise!SetBit, limit
  <2>6. QED BY <2>4, <2>5
<1>7. CASE first_clear
  <2>20. request' = <<"first_clear">> BY <1>7 DEF first_clear
  <2> DEFINE full == 0..(WordBits - 1)
             open == {w \in 0..(WORDS - 1) : bitmap[w] # full}
  <2>1. UNCHANGED bitmap BY <1>7 DEF first_clear
  <2>2. CASE open = {}
    <3>1. BitNumbers = 0..(WORDS * WordBits - 1) BY <1>1, <2>2, AllFull
    <3>2. answer' = <<"None", 0>> BY <1>7, <2>2 DEF first_clear
    <3>3. QED BY <1>2, <1>3, <2>1, <3>1, <3>2, <2>20 DEF Promise!BitsStep, Promise!LeastClear
  <2>3. CASE open # {}
    <3> DEFINE w == FirstOf(open)
               b == FirstOf(full \ bitmap[w])
    <3>1. open \in SUBSET Nat BY SMT, StorageAssumption
    <3>2. w \in open /\ \A v \in open : w <= v BY <2>3, <3>1, FirstOfIs
    <3>3. answer' = <<"Ok", w * WordBits + b>> BY <1>7, <2>3 DEF first_clear
    <3>4. w \in 0..(WORDS - 1) /\ \A v \in 0..(WORDS - 1) : bitmap[v] # full => w <= v
      BY <3>2
    <3>5. full \ bitmap[w] # {} /\ full \ bitmap[w] \in SUBSET Nat
      <4>1. bitmap[w] # full BY <3>2
      <4>2. bitmap[w] \in SUBSET full BY <1>1, <3>4 DEF Words
      <4>3. full \in SUBSET Nat BY SMT, StorageAssumption
      <4> HIDE DEF full, w
      <4>4. QED BY <4>1, <4>2, <4>3
    <3> HIDE DEF w
    <3>6. b \in full \ bitmap[w] /\ \A c \in full \ bitmap[w] : b <= c BY <3>5, FirstOfIs
    <3> HIDE DEF b
    <3> DEFINE x == w * WordBits + b
    <3>7. /\ x \in (0..(WORDS * WordBits - 1)) \ BitsFrom(bitmap)
          /\ \A y \in 0..(x - 1) : y \in BitsFrom(bitmap)
      BY <1>1, <3>4, <3>6, FirstClear
    <3>8. answer' = <<"Ok", x>> BY <3>3
    <3> HIDE DEF x
    <3>9. BitNumbers # 0..(WORDS * WordBits - 1) BY <1>1, <3>7
    <3>10. QED BY <1>1, <1>2, <1>3, <2>1, <3>7, <3>8, <3>9, <2>20 DEF Promise!BitsStep, Promise!LeastClear
  <2>4. QED BY <2>2, <2>3
<1>8. QED BY <1>5, <1>6, <1>7 DEF BitmapNext, limit
-----------------------------------------------------------------------------
(* RingBuffer. *)

(* The slot k places after the head. *)
Slot(h, k) == (h + k) % StorageN

(* The slots are in the array, two of them less than N apart are           *)
(* different, and moving the head on moves every slot by one.              *)
LEMMA RingSlots ==
  ASSUME NEW h \in Index
  PROVE  /\ StorageN \in Nat \ {0} /\ h \in Nat /\ Slot(h, 0) = h /\ Slot(h, 1) \in Index
         /\ \A k \in Index : Slot(h, k) \in Index
         /\ \A j, k \in Index : Slot(h, j) = Slot(h, k) => j = k
         /\ \A k \in Index : k > 0 => Slot(Slot(h, 1), k - 1) = Slot(h, k)
<1>1. StorageN \in Nat \ {0} /\ h \in Nat /\ h < StorageN BY SMT, StorageAssumption DEF Index
<1>2. ASSUME NEW x \in Nat, x < 2 * StorageN
      PROVE  x % StorageN = IF x < StorageN THEN x ELSE x - StorageN
  <2>1. CASE x < StorageN BY SMT, <1>1, <2>1
  <2>2. CASE x >= StorageN BY SMT, <1>1, <1>2, <2>2
  <2>3. QED BY SMT, <1>1, <2>1, <2>2
<1>3. ASSUME NEW g \in Index, NEW k \in 0..StorageN
      PROVE  Slot(g, k) = IF g + k < StorageN THEN g + k ELSE g + k - StorageN
  BY SMT, <1>1, <1>2 DEF Slot, Index
<1>4. \A k \in 0..StorageN : Slot(h, k) \in Index
  BY SMT, <1>1, <1>3 DEF Index
<1>5. \A j, k \in Index : Slot(h, j) = Slot(h, k) => j = k
  BY SMT, <1>1, <1>3 DEF Index
<1>6. ASSUME NEW k \in Index, k > 0 PROVE Slot(Slot(h, 1), k - 1) = Slot(h, k)
  <2>1. 1 \in 0..StorageN /\ k \in 0..StorageN /\ k - 1 \in 0..StorageN
    BY SMT, <1>1, <1>6 DEF Index
  <2>2. Slot(h, 1) = IF h + 1 < StorageN THEN h + 1 ELSE h + 1 - StorageN BY <1>3, <2>1
  <2>3. Slot(h, k) = IF h + k < StorageN THEN h + k ELSE h + k - StorageN BY <1>3, <2>1
  <2>4. Slot(Slot(h, 1), k - 1) = IF Slot(h, 1) + (k - 1) < StorageN THEN Slot(h, 1) + (k - 1)
                                  ELSE Slot(h, 1) + (k - 1) - StorageN
    BY <1>3, <1>4, <2>1
  <2>5. QED BY SMT, <1>1, <1>6, <2>2, <2>3, <2>4 DEF Index
<1>7. Slot(h, 0) = h /\ Slot(h, 1) \in Index BY SMT, <1>1, <1>3, <1>4
<1>8. QED BY SMTT(30), <1>1, <1>4, <1>5, <1>6, <1>7 DEF Index

(* The n values from the head on, as a sequence. *)
QueueFrom(a, h, n) == [i \in 1..n |-> a[Slot(h, i - 1)]]

(* It is a sequence of n values. *)
LEMMA QueueFromIs ==
  ASSUME NEW a \in [Index -> StorageValues], NEW n \in 0..StorageN, NEW h \in Index
  PROVE  /\ n \in Nat
         /\ QueueFrom(a, h, n) \in [1..n -> StorageValues]
         /\ Len(QueueFrom(a, h, n)) = n /\ (QueueFrom(a, h, n) = <<>> <=> n = 0)
<1>1. \A i \in 1..n : i - 1 \in Index
  BY SMT, StorageAssumption DEF Index
<1>2. \A i \in 1..n : Slot(h, i - 1) \in Index
  BY <1>1, RingSlots
<1>3. n \in Nat /\ QueueFrom(a, h, n) \in [1..n -> StorageValues]
  BY SMT, <1>2, StorageAssumption DEF QueueFrom
<1>4. QueueFrom(a, h, n) \in Seq(StorageValues) /\ Len(QueueFrom(a, h, n)) = n
  BY <1>3, SeqOfLength
<1>5. QED BY SMT, <1>3, <1>4

(* A value written into the slot after the last one, wherever the head is, *)
(* is appended to the queue.                                               *)
LEMMA QueuePush ==
  ASSUME NEW a \in [Index -> StorageValues], NEW n \in Index, NEW h \in Index,
         NEW b \in [Index -> StorageValues], \A j \in Index \ {Slot(h, n)} : b[j] = a[j]
  PROVE  /\ n + 1 \in 0..StorageN
         /\ QueueFrom(b, h, n + 1) = Append(QueueFrom(a, h, n), b[Slot(h, n)])
<1>1. n \in Nat /\ n \in 0..StorageN /\ n + 1 \in 0..StorageN
  BY SMT, StorageAssumption DEF Index
<1>2. ASSUME NEW i \in 1..n
      PROVE  b[Slot(h, i - 1)] = a[Slot(h, i - 1)]
  <2> DEFINE k == i - 1
  <2>1. k \in Index /\ k # n BY SMT, <1>1, StorageAssumption DEF Index
  <2> HIDE DEF k
  <2>2. Slot(h, k) \in Index BY <2>1, RingSlots
  <2>3. \A j, l \in Index : Slot(h, j) = Slot(h, l) => j = l BY RingSlots
  <2>4. Slot(h, k) # Slot(h, n) BY <2>1, <2>3
  <2>5. QED BY <2>2, <2>4 DEF k
<1>3. QueueFrom(b, h, n + 1) \in [1..(n + 1) -> StorageValues]
      /\ QueueFrom(a, h, n) \in [1..n -> StorageValues]
  BY <1>1, QueueFromIs
<1>4. QueueFrom(b, h, n + 1)[n + 1] = b[Slot(h, n)]
  <2>1. n + 1 \in 1..(n + 1) /\ (n + 1) - 1 = n BY SMT, <1>1
  <2>2. QED BY <2>1 DEF QueueFrom
<1>5. \A i \in 1..n : QueueFrom(b, h, n + 1)[i] = QueueFrom(a, h, n)[i]
  <2>1. \A i \in 1..n : i \in 1..(n + 1) BY SMT, <1>1
  <2>2. QED BY <1>2, <2>1 DEF QueueFrom
<1>6. QueueFrom(b, h, n + 1) = Append(QueueFrom(a, h, n), QueueFrom(b, h, n + 1)[n + 1])
  BY SMT, <1>1, <1>3, <1>5, AppendIs
<1>7. QED BY <1>1, <1>4, <1>6

(* Moving the head on by one slot, around the end of the array too, drops  *)
(* the first element of the queue, and that was the one at the head.       *)
LEMMA QueuePop ==
  ASSUME NEW a \in [Index -> StorageValues], NEW n \in 0..StorageN, n # 0, NEW h \in Index
  PROVE  /\ Slot(h, 1) \in Index /\ n - 1 \in 0..StorageN
         /\ QueueFrom(a, Slot(h, 1), n - 1) = Tail(QueueFrom(a, h, n))
         /\ Head(QueueFrom(a, h, n)) = a[h]
<1> DEFINE g == Slot(h, 1)
<1>1. n \in Nat \ {0} /\ n - 1 \in 0..StorageN /\ n - 1 \in Nat
  BY SMT, StorageAssumption
<1>2. g \in Index BY RingSlots
<1>3. ASSUME NEW i \in 1..(n - 1) PROVE Slot(g, i - 1) = Slot(h, (i + 1) - 1)
  <2>1. i \in Index /\ i > 0 /\ (i + 1) - 1 = i BY SMT, <1>1, StorageAssumption DEF Index
  <2>2. QED BY SMT, <2>1, RingSlots
<1> HIDE DEF g
<1>4. QueueFrom(a, h, n) \in [1..n -> StorageValues]
      /\ QueueFrom(a, g, n - 1) \in [1..(n - 1) -> StorageValues]
  BY <1>1, <1>2, QueueFromIs
<1>5. \A i \in 1..(n - 1) : QueueFrom(a, g, n - 1)[i] = QueueFrom(a, h, n)[i + 1]
  <2>1. \A i \in 1..(n - 1) : i + 1 \in 1..n BY SMT, <1>1
  <2>2. QED BY <1>3, <2>1 DEF QueueFrom
<1>6. QueueFrom(a, h, n)[1] = a[h]
  <2>1. 1 \in 1..n /\ 1 - 1 = 0 BY SMT, <1>1
  <2>2. Slot(h, 0) = h BY RingSlots
  <2>3. QED BY <2>1, <2>2 DEF QueueFrom
<1>7. QueueFrom(a, g, n - 1) = Tail(QueueFrom(a, h, n))
      /\ Head(QueueFrom(a, h, n)) = QueueFrom(a, h, n)[1]
  BY SMT, <1>1, <1>4, <1>5, TailIs
<1>8. QED BY <1>1, <1>2, <1>6, <1>7 DEF g

(* What the assignments of a push and a pop leave. *)
LEMMA RingAssigned ==
  ASSUME NEW a, NEW h, NEW n, NEW i, NEW v, NEW b, b = [a EXCEPT ![i] = v], NEW r,
         r = [values |-> a, head |-> h, len |-> n]
  PROVE  /\ [r EXCEPT !.values[i] = v, !.len = @ + 1] = [values |-> b, head |-> h, len |-> n + 1]
         /\ [r EXCEPT !.head = (@ + 1) % StorageN, !.len = @ - 1]
              = [values |-> a, head |-> (h + 1) % StorageN, len |-> n - 1]
<1>1. [r EXCEPT !.values[i] = v] = [values |-> b, head |-> h, len |-> n]
  BY SMT
<1>2. [r EXCEPT !.values[i] = v, !.len = @ + 1] = [[r EXCEPT !.values[i] = v] EXCEPT !.len = @ + 1]
  OBVIOUS
<1>3. [[values |-> b, head |-> h, len |-> n] EXCEPT !.len = @ + 1]
        = [values |-> b, head |-> h, len |-> n + 1]
  BY SMT
<1>4. [r EXCEPT !.head = (@ + 1) % StorageN, !.len = @ - 1]
        = [values |-> a, head |-> (h + 1) % StorageN, len |-> n - 1]
  <2> DEFINE g == (h + 1) % StorageN
  <2>1. [r EXCEPT !.head = (@ + 1) % StorageN] = [values |-> a, head |-> g, len |-> n]
    BY SMT
  <2>2. [r EXCEPT !.head = (@ + 1) % StorageN, !.len = @ - 1]
          = [[r EXCEPT !.head = (@ + 1) % StorageN] EXCEPT !.len = @ - 1]
    OBVIOUS
  <2>3. [[values |-> a, head |-> g, len |-> n] EXCEPT !.len = @ - 1]
          = [values |-> a, head |-> g, len |-> n - 1]
    BY SMT
  <2>4. QED BY <2>1, <2>2, <2>3
<1>5. QED BY <1>1, <1>2, <1>3, <1>4

(* Every operation of RingBuffer keeps the head in the array and does to   *)
(* the queue what Containers promises.                                     *)
LEMMA RingStep ==
  ASSUME RingInv, RingNext
  PROVE  RingInv' /\ Promise!QueueStep
<1> DEFINE a == ring.values
           h == ring.head
           n == ring.len
<1>1. ring = [values |-> a, head |-> h, len |-> n]
      /\ a \in [Index -> StorageValues] /\ n \in 0..StorageN /\ h \in Nat
  BY DEF RingInv
<1>2. StorageN # 0 => h \in Index BY SMT, StorageAssumption DEF RingInv, Index
<1>3. Queued = QueueFrom(a, h, n)
  <2>1. \A i \in 1..n : h + i - 1 = h + (i - 1) BY <1>1
  <2>2. QED BY <2>1 DEF Queued, QueueFrom, Slot
<1>4. UNCHANGED <<Stacked, Tabled, BitNumbers>>
  BY SMT DEF RingNext, Stacked, Tabled, BitNumbers
<1>5. ASSUME UNCHANGED ring PROVE RingInv' /\ UNCHANGED Queued
  BY <1>5 DEF RingInv, Queued
<1>6. ASSUME NEW b \in [Index -> StorageValues], NEW g \in Index, NEW m \in 0..StorageN,
             ring' = [values |-> b, head |-> g, len |-> m]
      PROVE  RingInv' /\ Queued' = QueueFrom(b, g, m)
  <2>1. RingInv' BY SMT, <1>6, StorageAssumption DEF RingInv, Index
  <2>2. \A i \in 1..m : g + i - 1 = g + (i - 1) BY StorageAssumption DEF Index
  <2>3. QED BY <1>6, <2>1, <2>2 DEF Queued, QueueFrom, Slot
<1>7. n \in Nat /\ Len(Queued) = n /\ (Queued = <<>> <=> n = 0)
  <2>1. CASE StorageN = 0
    <3>1. n = 0 BY SMT, <1>1, <2>1
    <3>2. Queued = <<>> BY SMT, <3>1 DEF Queued
    <3>3. QED BY SMT, <3>1, <3>2
  <2>2. CASE StorageN # 0 BY SMTT(30), <1>1, <1>2, <1>3, <2>2, QueueFromIs
  <2>3. QED BY <2>1, <2>2
<1> HIDE DEF a, n, h
<1> USE DEF Promise!Ok, Promise!Refuse, Called, Errs, Returns
<1>8. CASE \E v \in StorageValues : ring_push(v)
  <2>1. PICK v \in StorageValues : ring_push(v) BY <1>8
  <2>20. request' = <<"ring_push", v>> BY <2>1 DEF ring_push
  <2>2. CASE n = StorageN
    <3>1. answer' = <<"Full", 0>> /\ UNCHANGED ring BY <2>1, <2>2 DEF ring_push, n
    <3>2. QED BY <1>4, <1>5, <1>7, <2>2, <3>1, <2>20 DEF Promise!QueueStep, Promise!Enqueue
  <2>3. CASE n # StorageN
    <3>1. n \in Index /\ StorageN # 0 BY SMT, <1>1, <2>3, StorageAssumption DEF Index
    <3> DEFINE t == Slot(h, n)
               b == [a EXCEPT ![t] = v]
    <3>2. ring' = [ring EXCEPT !.values[t] = v, !.len = @ + 1] /\ answer' = <<"Ok", 0>>
      BY <2>1, <2>3 DEF ring_push, RingTail, Slot, n, h
    <3>3. t \in Index BY <1>2, <3>1, RingSlots
    <3> HIDE DEF t
    <3>4. ring' = [values |-> b, head |-> h, len |-> n + 1] BY <1>1, <3>2, RingAssigned
    <3>5. b \in [Index -> StorageValues] /\ b[t] = v /\ \A j \in Index \ {t} : b[j] = a[j]
      BY <1>1, <3>3
    <3> HIDE DEF b
    <3>6. n + 1 \in 0..StorageN /\ QueueFrom(b, h, n + 1) = Append(QueueFrom(a, h, n), b[t])
      BY <1>1, <1>2, <3>1, <3>5, QueuePush DEF t
    <3>7. RingInv' /\ Queued' = Append(Queued, v) BY <1>2, <1>3, <1>6, <3>1, <3>4, <3>5, <3>6
    <3>8. QED BY <1>4, <1>7, <2>3, <3>2, <3>7, <2>20 DEF Promise!QueueStep, Promise!Enqueue
  <2>4. QED BY <2>2, <2>3
<1>9. CASE ring_pop
  <2>20. request' = <<"ring_pop">> BY <1>9 DEF ring_pop
  <2>1. CASE n = 0
    <3>1. answer' = <<"Empty", 0>> /\ UNCHANGED ring BY <1>9, <2>1 DEF ring_pop, n
    <3>2. QED BY <1>4, <1>5, <1>7, <2>1, <3>1, <2>20 DEF Promise!QueueStep, Promise!Dequeue
  <2>2. CASE n # 0
    <3>1. h \in Index BY SMT, <1>1, <1>2, <2>2, StorageAssumption
    <3> DEFINE g == Slot(h, 1)
    <3>2. /\ ring' = [ring EXCEPT !.head = (@ + 1) % StorageN, !.len = @ - 1]
          /\ answer' = <<"Ok", a[h]>>
      BY <1>9, <2>2 DEF ring_pop, n, h, a
    <3>3. ring' = [values |-> a, head |-> g, len |-> n - 1] BY <1>1, <3>2, RingAssigned DEF Slot
    <3>4. /\ g \in Index /\ n - 1 \in 0..StorageN
          /\ QueueFrom(a, g, n - 1) = Tail(Queued) /\ Head(Queued) = a[h]
      BY <1>1, <1>3, <2>2, <3>1, QueuePop
    <3> HIDE DEF g
    <3>5. RingInv' /\ Queued' = Tail(Queued) BY <1>1, <1>6, <3>3, <3>4
    <3>6. QED BY <1>4, <1>7, <2>2, <3>2, <3>4, <3>5, <2>20 DEF Promise!QueueStep, Promise!Dequeue
  <2>3. QED BY <2>1, <2>2
<1>10. QED BY <1>8, <1>9 DEF RingNext
-----------------------------------------------------------------------------
(* FixedMap. *)

Pairs == StorageKeys \X StorageValues

(* The first n entries are pairs with different keys; the others are None. *)
MapShape(e, n) ==
  /\ e \in [Index -> Pairs \cup {NoEntry}] /\ n \in 0..StorageN
  /\ \A i \in Index : e[i] # NoEntry <=> i < n
  /\ \A i, j \in 0..(n - 1) : e[i][1] = e[j][1] => i = j

TableFrom(e) == {e[i] : i \in {j \in Index : e[j] # NoEntry}}

(* A pair is an entry. *)
LEMMA PairIsEntry ==
  ASSUME NEW k, NEW v
  PROVE  <<k, v>> # NoEntry
BY DEF NoEntry

(* The table has the first n entries, and no two of them are equal. *)
LEMMA TableIs ==
  ASSUME NEW e, NEW n, MapShape(e, n)
  PROVE  /\ n \in Nat /\ 0..(n - 1) \subseteq Index
         /\ TableFrom(e) = {e[i] : i \in 0..(n - 1)}
         /\ \A i \in 0..(n - 1) : e[i] \in Pairs /\ e[i] # NoEntry
         /\ \A i, j \in 0..(n - 1) : e[i] = e[j] => i = j
<1>1. n \in Nat /\ 0..(n - 1) \subseteq Index /\ \A i \in Index : i < n <=> i \in 0..(n - 1)
  BY SMT, StorageAssumption DEF MapShape, Index
<1>2. \A i \in Index : e[i] # NoEntry <=> i \in 0..(n - 1)
  BY <1>1 DEF MapShape
<1>3. TableFrom(e) = {e[i] : i \in 0..(n - 1)} BY <1>1, <1>2 DEF TableFrom
<1>4. \A i \in 0..(n - 1) : e[i] \in Pairs /\ e[i] # NoEntry BY <1>1, <1>2 DEF MapShape
<1>5. \A i, j \in 0..(n - 1) : e[i] = e[j] => i = j BY DEF MapShape
<1>6. QED BY <1>1, <1>3, <1>4, <1>5

(* len counts the entries. *)
LEMMA TableSize ==
  ASSUME NEW e, NEW n, MapShape(e, n)
  PROVE  Cardinality(TableFrom(e)) = n
<1> DEFINE S == 0..(n - 1)
           f == [i \in S |-> e[i]]
<1>1. n \in Nat /\ TableFrom(e) = {e[i] : i \in S} /\ \A i, j \in S : e[i] = e[j] => i = j
  BY TableIs
<1>2. f \in Bijection(S, TableFrom(e))
  BY <1>1 DEF Bijection, Injection, Surjection, IsInjective
<1>3. IsFiniteSet(S) /\ Cardinality(S) = n
  BY SMT, <1>1, FS_Interval
<1>4. ExistsBijection(S, TableFrom(e)) BY <1>2 DEF ExistsBijection
<1>5. Cardinality(S) = Cardinality(TableFrom(e)) BY <1>3, <1>4, FS_Bijection
<1>6. QED BY <1>3, <1>5

(* A new key goes behind the last entry. *)
LEMMA TableInsert ==
  ASSUME NEW e, NEW n, MapShape(e, n), n # StorageN, NEW k \in StorageKeys, NEW v \in StorageValues,
         \A i \in 0..(n - 1) : e[i][1] # k,
         NEW f \in [Index -> Pairs \cup {NoEntry}], f[n] = <<k, v>>,
         \A i \in Index \ {n} : f[i] = e[i]
  PROVE  MapShape(f, n + 1) /\ TableFrom(f) = TableFrom(e) \cup {<<k, v>>}
<1>1. n \in Nat /\ n \in Index /\ n + 1 \in 0..StorageN /\ (n + 1) - 1 = n
  BY SMT, StorageAssumption DEF MapShape, Index
<1>2. e \in [Index -> Pairs \cup {NoEntry}] BY DEF MapShape
<1>3. <<k, v>> \in Pairs /\ <<k, v>> # NoEntry BY PairIsEntry DEF Pairs
<1>4. f \in [Index -> Pairs \cup {NoEntry}] OBVIOUS
<1>5. f[n] = <<k, v>> /\ \A i \in Index \ {n} : f[i] = e[i] OBVIOUS
<1>6. \A i \in 0..(n - 1) : i \in Index /\ i # n BY SMT, <1>1, StorageAssumption DEF Index
<1>7. \A i \in 0..n : i = n \/ i \in 0..(n - 1) BY SMT, <1>1
<1>8. \A i \in Index : f[i] # NoEntry <=> i < n + 1
  <2>1. ASSUME NEW i \in Index PROVE f[i] # NoEntry <=> i < n + 1
    <3>1. CASE i = n BY SMTT(30), <1>1, <1>3, <1>5, <3>1
    <3>2. CASE i # n
      <4>1. f[i] # NoEntry <=> i < n BY <1>5, <3>2 DEF MapShape
      <4>2. i < n <=> i < n + 1 BY SMTT(30), <1>1, <3>2, StorageAssumption DEF Index
      <4>3. QED BY <4>1, <4>2
    <3>3. QED BY <3>1, <3>2
  <2>2. QED BY <2>1
<1>9. \A i, j \in 0..n : f[i][1] = f[j][1] => i = j
  <2>1. f[n][1] = k BY SMT, <1>5
  <2>2. \A i \in 0..(n - 1) : f[i] = e[i] BY <1>5, <1>6
  <2>3. \A i, j \in 0..(n - 1) : e[i][1] = e[j][1] => i = j BY DEF MapShape
  <2>4. QED BY <1>7, <2>1, <2>2, <2>3
<1>10. MapShape(f, n + 1) BY <1>1, <1>4, <1>8, <1>9 DEF MapShape
<1>11. TableFrom(f) = {f[i] : i \in 0..n} /\ TableFrom(e) = {e[i] : i \in 0..(n - 1)}
  BY SMTT(30), <1>1, <1>10, TableIs
<1>12. \A i \in 0..(n - 1) : f[i] = e[i] /\ i \in 0..n BY SMTT(30), <1>1, <1>5, <1>6
<1>13. n \in 0..n BY SMT, <1>1
<1>14. TableFrom(f) \subseteq TableFrom(e) \cup {<<k, v>>}
  <2>1. \A i \in 0..n : f[i] \in TableFrom(e) \cup {<<k, v>>} BY <1>5, <1>7, <1>11, <1>12
  <2>2. QED BY SMT, <1>11, <2>1
<1>15. TableFrom(e) \cup {<<k, v>>} \subseteq TableFrom(f)
  <2>1. <<k, v>> \in TableFrom(f) BY SMTT(30), <1>5, <1>11, <1>13
  <2>2. \A i \in 0..(n - 1) : e[i] \in TableFrom(f) BY <1>11, <1>12
  <2>3. QED BY SMTT(30), <1>11, <2>1, <2>2
<1>16. QED BY <1>10, <1>14, <1>15

(* Entries that differ from those of e in the hole h and the last slot l   *)
(* alone, with what was in l now in h, hold all of them but the one at h.  *)
LEMMA TableMoved ==
  ASSUME NEW e, NEW n, MapShape(e, n), NEW h \in 0..(n - 1), NEW l, l = n - 1,
         NEW f \in [Index -> Pairs \cup {NoEntry}], f[l] = NoEntry, h # l => f[h] = e[l],
         \A i \in Index \ {h, l} : f[i] = e[i]
  PROVE  MapShape(f, l) /\ TableFrom(f) = TableFrom(e) \ {e[h]}
<1>1. n \in Nat /\ h \in Nat /\ l \in Nat /\ l \in 0..StorageN /\ n = l + 1 /\ h <= l
      /\ l \in 0..(n - 1) /\ h \in Index /\ l \in Index
  BY SMT, StorageAssumption DEF MapShape, Index
<1>2. f[l] = NoEntry /\ (h # l => f[h] = e[l]) /\ \A i \in Index \ {h, l} : f[i] = e[i]
  OBVIOUS
<1>3. \A i \in 0..(l - 1) : i \in Index /\ i # l /\ i \in 0..(n - 1)
  BY SMT, <1>1, StorageAssumption DEF Index
<1>4. \A i \in Index : e[i] # NoEntry <=> i < n BY DEF MapShape
<1>5. \A i \in Index : f[i] # NoEntry <=> i < l
  <2>1. ASSUME NEW i \in Index PROVE f[i] # NoEntry <=> i < l
    <3>0. i \in Nat BY SMT, StorageAssumption DEF Index
    <3>1. CASE i = l BY SMTT(30), <1>1, <1>2, <3>1
    <3>2. CASE i # l /\ i = h
      <4>1. f[i] = e[l] /\ l < n BY SMTT(30), <1>1, <1>2, <3>2
      <4>2. e[l] # NoEntry BY <1>1, <1>4, <4>1
      <4>3. QED BY SMTT(30), <1>1, <3>2, <4>1, <4>2
    <3>3. CASE i # l /\ i # h
      <4>1. f[i] = e[i] BY <1>2, <3>3
      <4>2. i < n <=> i < l BY SMTT(30), <1>1, <3>0, <3>3
      <4>3. QED BY <1>4, <4>1, <4>2
    <3>4. QED BY <3>1, <3>2, <3>3
  <2>2. QED BY <2>1
<1>6. \A i \in 0..(l - 1) : f[i] = IF i = h THEN e[l] ELSE e[i]
  BY <1>2, <1>3
<1>7. \A i, j \in 0..(l - 1) : f[i][1] = f[j][1] => i = j
  <2>1. \A i, j \in 0..(n - 1) : e[i][1] = e[j][1] => i = j BY DEF MapShape
  <2>2. QED BY SMTT(30), <1>1, <1>3, <1>6, <2>1
<1>8. MapShape(f, l) BY <1>1, <1>5, <1>7 DEF MapShape
<1>9. TableFrom(f) = {f[i] : i \in 0..(l - 1)} /\ TableFrom(e) = {e[i] : i \in 0..(n - 1)}
       /\ \A i, j \in 0..(n - 1) : e[i] = e[j] => i = j
  BY <1>8, TableIs
<1>10. TableFrom(f) \subseteq TableFrom(e) \ {e[h]}
  <2>1. ASSUME NEW i \in 0..(l - 1) PROVE f[i] \in TableFrom(e) \ {e[h]}
    <3>1. CASE i = h
      <4>1. f[i] = e[l] /\ l # h BY <1>3, <1>6, <3>1
      <4>2. QED BY <1>1, <1>9, <4>1
    <3>2. CASE i # h
      <4>1. f[i] = e[i] /\ i \in 0..(n - 1) BY <1>3, <1>6, <3>2
      <4>2. QED BY <1>9, <3>2, <4>1
    <3>3. QED BY <3>1, <3>2
  <2>2. QED BY SMT, <1>9, <2>1
<1>11. TableFrom(e) \ {e[h]} \subseteq TableFrom(f)
  <2>1. ASSUME NEW i \in 0..(n - 1), i # h PROVE e[i] \in TableFrom(f)
    <3>1. CASE i = l
      <4>1. h \in 0..(l - 1) BY SMT, <1>1, <2>1, <3>1
      <4>2. f[h] = e[i] BY <1>6, <3>1, <4>1
      <4>3. QED BY SMTT(30), <1>9, <4>1, <4>2
    <3>2. CASE i # l
      <4>1. i \in 0..(l - 1) BY SMT, <1>1, <3>2
      <4>2. f[i] = e[i] BY <1>6, <2>1, <4>1
      <4>3. QED BY SMTT(30), <1>9, <4>1, <4>2
    <3>3. QED BY <3>1, <3>2
  <2>2. QED BY SMT, <1>9, <2>1
<1>12. QED BY <1>8, <1>10, <1>11

(* Moving the last entry into the hole loses and duplicates none. *)
LEMMA TableRemove ==
  ASSUME NEW e, NEW n, MapShape(e, n), NEW h \in 0..(n - 1), NEW f
  PROVE  f = [e EXCEPT ![h] = e[n - 1], ![n - 1] = NoEntry] =>
           MapShape(f, n - 1) /\ TableFrom(f) = TableFrom(e) \ {e[h]}
<1> DEFINE l == n - 1
           Moved == /\ f \in [Index -> Pairs \cup {NoEntry}] /\ f[l] = NoEntry
                    /\ h # l => f[h] = e[l]
                    /\ \A i \in Index \ {h, l} : f[i] = e[i]
<1>1. h \in Index /\ l \in Index /\ e \in [Index -> Pairs \cup {NoEntry}] /\ l = n - 1
  BY SMT, StorageAssumption DEF MapShape, Index
<1>2. f = [e EXCEPT ![h] = e[n - 1], ![n - 1] = NoEntry] => f = [e EXCEPT ![h] = e[l], ![l] = NoEntry]
  OBVIOUS
<1> HIDE DEF l
<1>3. f = [e EXCEPT ![h] = e[l], ![l] = NoEntry] => Moved BY <1>1
<1>4. Moved => MapShape(f, l) /\ TableFrom(f) = TableFrom(e) \ {e[h]} BY SMT, <1>1, TableMoved
<1>5. QED BY <1>1, <1>2, <1>3, <1>4

(* What the assignments of an insertion leave. *)
LEMMA MapAssigned ==
  ASSUME NEW e, NEW n, NEW i, NEW v, NEW f, f = [e EXCEPT ![i] = v], NEW r,
         r = [entries |-> e, len |-> n]
  PROVE  [r EXCEPT !.entries[i] = v, !.len = @ + 1] = [entries |-> f, len |-> n + 1]
<1>1. [r EXCEPT !.entries[i] = v] = [entries |-> f, len |-> n]
  BY SMT
<1>2. [r EXCEPT !.entries[i] = v, !.len = @ + 1] = [[r EXCEPT !.entries[i] = v] EXCEPT !.len = @ + 1]
  OBVIOUS
<1>3. [[entries |-> f, len |-> n] EXCEPT !.len = @ + 1] = [entries |-> f, len |-> n + 1]
  BY SMT
<1>4. QED BY <1>1, <1>2, <1>3

(* Both modules mean the Cardinality of FiniteSets. *)
LEMMA SameCardinality ==
  ASSUME NEW S
  PROVE  Promise!Cardinality(S) = Cardinality(S)
BY DEF Promise!Cardinality, Cardinality

(* Every operation of FixedMap keeps the entries packed and their keys     *)
(* different, and does to the table what Containers promises.              *)
LEMMA MapStep ==
  ASSUME MapInv, MapNext
  PROVE  MapInv' /\ Promise!TableStep
<1> DEFINE e == fixed_map.entries
           n == fixed_map.len
<1>1. fixed_map = [entries |-> e, len |-> n] /\ MapShape(e, n)
  BY DEF MapInv, MapShape, Pairs
<1>2. Tabled = TableFrom(e) BY DEF Tabled, TableFrom
<1>3. UNCHANGED <<Stacked, BitNumbers, Queued>>
  BY SMT DEF MapNext, Stacked, BitNumbers, Queued
<1>4. ASSUME UNCHANGED fixed_map PROVE MapInv' /\ UNCHANGED Tabled
  BY SMT, <1>4 DEF MapInv, Tabled
<1>5. ASSUME NEW f, NEW m, MapShape(f, m), fixed_map' = [entries |-> f, len |-> m]
      PROVE  MapInv' /\ Tabled' = TableFrom(f)
  BY SMT, <1>5 DEF MapInv, MapShape, Pairs, Tabled, TableFrom
<1>6. ASSUME NEW i, NEW k PROVE Holds(i, k) <=> e[i] # NoEntry /\ e[i][1] = k
  BY DEF Holds
<1> HIDE DEF e, n
<1>7. n \in Nat /\ 0..(n - 1) \subseteq Index /\ Tabled = {e[i] : i \in 0..(n - 1)}
      /\ Promise!Cardinality(Tabled) = n
  BY <1>1, <1>2, TableIs, TableSize, SameCardinality
<1>8. ASSUME NEW i \in Index, NEW k
      PROVE  Holds(i, k) <=> i \in 0..(n - 1) /\ e[i][1] = k
  BY SMTT(30), <1>1, <1>6, StorageAssumption DEF MapShape, Index
<1> USE DEF Promise!Ok, Promise!Refuse, Called, Errs, Returns
<1>9. PICK k \in StorageKeys : map_get(k) \/ map_remove(k) \/ \E v \in StorageValues : map_insert(k, v)
  BY DEF MapNext
<1> DEFINE under == Promise!Under(k)
           found == {i \in 0..(n - 1) : Holds(i, k)}
<1>10. found = {i \in Index : Holds(i, k)} /\ found \in SUBSET Nat
  BY SMTT(30), <1>7, <1>8, StorageAssumption DEF Index
<1>11. under = {e[i] : i \in found}
  <2>1. under = {pair \in Tabled : pair[1] = k} BY DEF Promise!Under
  <2>2. found = {i \in 0..(n - 1) : e[i][1] = k} BY <1>7, <1>8
  <2>3. QED BY SMTT(30), <1>7, <2>1, <2>2
<1>12. found # {} => /\ FirstOf(found) \in 0..(n - 1) /\ e[FirstOf(found)] \in under
  BY <1>10, <1>11, FirstOfIs
<1>13. found = {} <=> under = {} BY <1>11
<1> HIDE DEF under, found
<1>14. CASE map_get(k)
  <2>20. request' = <<"map_get", k>> BY <1>14 DEF map_get
  <2>1. UNCHANGED fixed_map BY <1>14 DEF map_get
  <2>2. CASE found = {}
    <3>1. answer' = <<"MissingKey", 0>> BY <1>10, <1>14, <2>2 DEF map_get
    <3>2. QED BY <1>3, <1>4, <1>13, <2>1, <2>2, <3>1, <2>20 DEF Promise!TableStep, Promise!Lookup, under
  <2>3. CASE found # {}
    <3>1. answer' = <<"Ok", e[FirstOf(found)][2]>> BY <1>10, <1>14, <2>3 DEF map_get, e
    <3>2. QED BY <1>3, <1>4, <1>12, <2>1, <2>3, <3>1, <2>20 DEF Promise!TableStep, Promise!Lookup, under
  <2>4. QED BY <2>2, <2>3
<1>15. CASE map_remove(k)
  <2>20. request' = <<"map_remove", k>> BY <1>15 DEF map_remove
  <2>1. CASE found = {}
    <3>1. answer' = <<"MissingKey", 0>> /\ UNCHANGED fixed_map
      BY <1>15, <2>1 DEF map_remove, found, n
    <3>2. QED BY <1>3, <1>4, <1>13, <2>1, <3>1, <2>20 DEF Promise!TableStep, Promise!Remove, under
  <2>2. CASE found # {}
    <3> DEFINE h == FirstOf(found)
               f == [e EXCEPT ![h] = e[n - 1], ![n - 1] = NoEntry]
    <3>1. answer' = <<"Ok", e[h][2]>> /\ fixed_map' = [entries |-> f, len |-> n - 1]
      BY <1>15, <2>2 DEF map_remove, MovedLast, found, n, e
    <3>2. h \in 0..(n - 1) /\ e[h] \in under BY <1>12, <2>2
    <3> HIDE DEF h
    <3>3. MapShape(f, n - 1) /\ TableFrom(f) = Tabled \ {e[h]} BY <1>1, <1>2, <3>2, TableRemove
    <3> HIDE DEF f
    <3>4. MapInv' /\ Tabled' = Tabled \ {e[h]} BY <1>5, <3>1, <3>3
    <3>5. QED BY <1>3, <3>1, <3>2, <3>4, <2>20 DEF Promise!TableStep, Promise!Remove, under
  <2>3. QED BY <2>1, <2>2
<1>16. CASE \E v \in StorageValues : map_insert(k, v)
  <2>1. PICK v \in StorageValues : map_insert(k, v) BY <1>16
  <2>20. request' = <<"map_insert", k, v>> BY <2>1 DEF map_insert
  <2>2. CASE found # {}
    <3>1. answer' = <<"DuplicateKey", 0>> /\ UNCHANGED fixed_map
      BY <1>10, <2>1, <2>2 DEF map_insert
    <3>2. QED BY <1>3, <1>4, <1>13, <2>1, <2>2, <3>1, <2>20 DEF Promise!TableStep, Promise!Insert, under
  <2>3. CASE found = {} /\ n = StorageN
    <3>1. answer' = <<"Full", 0>> /\ UNCHANGED fixed_map
      BY <1>10, <2>1, <2>3 DEF map_insert, n
    <3>2. QED BY <1>3, <1>4, <1>7, <1>13, <2>1, <2>3, <3>1, <2>20 DEF Promise!TableStep, Promise!Insert, under
  <2>4. CASE found = {} /\ n # StorageN
    <3> DEFINE f == [e EXCEPT ![n] = <<k, v>>]
    <3>1. /\ answer' = <<"Ok", 0>>
          /\ fixed_map' = [fixed_map EXCEPT !.entries[n] = <<k, v>>, !.len = @ + 1]
      BY <1>10, <2>1, <2>4 DEF map_insert, n
    <3>2. fixed_map' = [entries |-> f, len |-> n + 1] BY <1>1, <3>1, MapAssigned
    <3>3. \A i \in 0..(n - 1) : e[i][1] # k BY <1>7, <1>8, <2>4 DEF found
    <3>4. /\ f \in [Index -> Pairs \cup {NoEntry}] /\ f[n] = <<k, v>>
          /\ \A i \in Index \ {n} : f[i] = e[i]
      <4>1. e \in [Index -> Pairs \cup {NoEntry}] /\ n \in Index
        BY SMTT(30), <1>1, <2>4, StorageAssumption DEF MapShape, Index
      <4>2. <<k, v>> \in Pairs BY DEF Pairs
      <4>3. QED BY <4>1, <4>2
    <3> HIDE DEF f
    <3>5. MapShape(f, n + 1) /\ TableFrom(f) = TableFrom(e) \cup {<<k, v>>}
      BY SMTT(30), <1>1, <2>4, <3>3, <3>4, TableInsert
    <3>6. MapInv' /\ Tabled' = Tabled \cup {<<k, v>>} BY <1>2, <1>5, <3>2, <3>5
    <3>7. QED BY <1>3, <1>7, <1>13, <2>1, <2>4, <3>1, <3>6, <2>20 DEF Promise!TableStep, Promise!Insert, under
  <2>5. QED BY <2>2, <2>3, <2>4
<1>17. QED BY <1>9, <1>14, <1>15, <1>16
-----------------------------------------------------------------------------
(* Every step of the containers keeps the invariant and is a step of what  *)
(* they promise.                                                           *)
LEMMA StorageStep ==
  ASSUME StorageInv, [StorageNext]_storageVars
  PROVE  /\ StorageInv'
         /\ [Promise!StackStep \/ Promise!TableStep \/ Promise!BitsStep \/ Promise!QueueStep]_
              (Promise!containerVars)
<1> USE DEF StorageInv
<1>1. CASE VecNext
  <2>1. VecInv' /\ Promise!StackStep BY <1>1, VecStep
  <2>2. UNCHANGED <<fixed_map, bitmap, ring>> BY <1>1 DEF VecNext
  <2>3. QED BY <2>1, <2>2 DEF MapInv, BitsInv, RingInv
<1>2. CASE MapNext
  <2>1. MapInv' /\ Promise!TableStep BY <1>2, MapStep
  <2>2. UNCHANGED <<fixed_vec, bitmap, ring>> BY <1>2 DEF MapNext
  <2>3. QED BY <2>1, <2>2 DEF VecInv, BitsInv, RingInv
<1>3. CASE BitmapNext
  <2>1. BitsInv' /\ Promise!BitsStep BY <1>3, BitmapStep
  <2>2. UNCHANGED <<fixed_vec, fixed_map, ring>> BY <1>3 DEF BitmapNext
  <2>3. QED BY <2>1, <2>2 DEF VecInv, MapInv, RingInv
<1>4. CASE RingNext
  <2>1. RingInv' /\ Promise!QueueStep BY <1>4, RingStep
  <2>2. UNCHANGED <<fixed_vec, fixed_map, bitmap>> BY <1>4 DEF RingNext
  <2>3. QED BY <2>1, <2>2 DEF VecInv, MapInv, BitsInv
<1>5. CASE UNCHANGED storageVars
  <2>1. StorageInv' BY <1>5 DEF storageVars, VecInv, MapInv, BitsInv, RingInv
  <2>2. UNCHANGED Promise!containerVars
    BY SMT, <1>5 DEF storageVars, Promise!containerVars, Stacked, Tabled, BitNumbers, Queued
  <2>3. QED BY <2>1, <2>2
<1>6. QED BY <1>1, <1>2, <1>3, <1>4, <1>5 DEF StorageNext

(* The containers of storage.rs keep the promise of Containers. *)
THEOREM ImplementsContainersHolds == StorageSpec => ImplementsContainers
<1>1. StorageInit => StorageInv /\ Promise!ContainersInit BY StorageInitHolds
<1>2. StorageInv /\ [StorageNext]_storageVars => StorageInv'
  BY StorageStep
<1>3. StorageInv /\ [StorageNext]_storageVars
        => [Promise!StackStep \/ Promise!TableStep \/ Promise!BitsStep \/ Promise!QueueStep]_
             (Promise!containerVars)
  BY StorageStep
<1>4. QED
  BY <1>1, <1>2, <1>3, PTL DEF StorageSpec, ImplementsContainers, Promise!ContainersSpec

-----------------------------------------------------------------------------
(* The trace of atomic operations.  What a cell remembers of its last      *)
(* write is what the trace says of it since the cell was last registered.  *)
AtomicEvent ==
  [id : Nat, cell : Cells \cup {0}, kind : {"Load", "Store", "ReadModifyWrite", "Fence"},
   ordering : Orderings, value : Nat, reads_from : Nat, modification_order : Nat,
   sc : Nat, after : Nat]

MemoryCell ==
  [value : Nat, modification_order : Nat, last_write : Nat,
   last_write_ordering : Orderings \cup {"Relaxed"}]

Registration == [after : Nat, initial : Nat]

Remembers(cell, trace, r, w) ==
  IF w = 0
    THEN cell.last_write = 0 /\ cell.value = r.initial /\ cell.last_write_ordering = "Relaxed"
    ELSE /\ cell.last_write = trace[w].id /\ cell.value = trace[w].value
         /\ cell.last_write_ordering = trace[w].ordering

CellsRemember ==
  \A c \in DOMAIN cells :
    /\ registered[c].after <= Len(events)
    /\ Remembers(cells[c], events, registered[c],
                 LastWrite(events, registered[c].after, Len(events), c))

TraceTypes ==
  /\ next_id \in Nat /\ next_sc \in Nat /\ events \in Seq(AtomicEvent)
  /\ DOMAIN cells \subseteq Cells /\ cells \in [DOMAIN cells -> MemoryCell]
  /\ registered \in [DOMAIN cells -> Registration]

TraceInv == TraceTypes /\ CellsRemember

NewLoadsCoherent ==
  \A e \in {events'[i] : i \in (Len(events) + 1)..Len(events')} :
    e.kind = "Load" => LoadCoherent(events, e, registered[e.cell])

Writes(trace, m, n, c) ==
  {j \in (m + 1)..n : trace[j].cell = c /\ trace[j].modification_order # 0}

(* LastWrite is the largest of the writes, or 0. *)
LEMMA LastWriteIs ==
  ASSUME NEW trace, NEW m \in Nat, NEW n \in Nat, NEW c
  PROVE  /\ LastWrite(trace, m, n, c) \in {0} \cup Writes(trace, m, n, c)
         /\ \A j \in Writes(trace, m, n, c) : j <= LastWrite(trace, m, n, c)
<1> DEFINE W == {0} \cup Writes(trace, m, n, c)
<1>1. W \in SUBSET Nat /\ W # {} /\ \A k \in W : k <= n
  BY SMT DEF Writes
<1>2. \E x \in W : \A k \in W : k <= x
  BY <1>1, GreatestNat
<1>3. LastWrite(trace, m, n, c) = Max(W)
  BY DEF LastWrite, Writes
<1> HIDE DEF W
<1>4. Max(W) = CHOOSE x \in W : \A y \in W : x >= y
  BY DEF Max
<1>5. \E x \in W : \A k \in W : x >= k
  BY <1>1, <1>2
<1>6. Max(W) \in W /\ \A k \in W : Max(W) >= k
  BY <1>4, <1>5
<1>7. Max(W) \in W /\ \A k \in W : k <= Max(W)
  BY <1>1, <1>6
<1>8. QED BY <1>3, <1>7 DEF W

(* An event appended to the trace is the last write if it writes this      *)
(* cell, and changes nothing for this cell otherwise.                      *)
LEMMA LastWriteNext ==
  ASSUME NEW s, NEW t, NEW n \in Nat, NEW m \in 0..n, NEW c, \A j \in 1..n : t[j] = s[j]
  PROVE  LastWrite(t, m, n + 1, c) =
           IF t[n + 1].cell = c /\ t[n + 1].modification_order # 0
             THEN n + 1 ELSE LastWrite(s, m, n, c)
<1>1. m \in Nat /\ n + 1 \in Nat /\ n + 1 # 0 BY SMT
<1>2. CASE t[n + 1].cell = c /\ t[n + 1].modification_order # 0
  <2>1. n + 1 \in Writes(t, m, n + 1, c) /\ \A j \in Writes(t, m, n + 1, c) : j <= n + 1
    BY SMT, <1>2 DEF Writes
  <2>2. LastWrite(t, m, n + 1, c) \in {0} \cup Writes(t, m, n + 1, c)
        /\ n + 1 <= LastWrite(t, m, n + 1, c)
    BY <1>1, <2>1, LastWriteIs
  <2>3. LastWrite(t, m, n + 1, c) = n + 1
    BY SMT, <2>1, <2>2 DEF Writes
  <2>4. QED BY <1>2, <2>3
<1>3. CASE ~(t[n + 1].cell = c /\ t[n + 1].modification_order # 0)
  <2>1. ASSUME NEW j PROVE j \in Writes(t, m, n + 1, c) <=> j \in Writes(s, m, n, c)
    BY SMT, <1>3 DEF Writes
  <2>2. Writes(t, m, n + 1, c) = Writes(s, m, n, c) BY <2>1
  <2>3. QED BY <1>3, <2>2 DEF LastWrite, Writes
<1>4. QED BY <1>2, <1>3

(* What a cell remembers is untouched by an event that does not write it.  *)
LEMMA RemembersAfterOther ==
  ASSUME NEW s \in Seq(AtomicEvent), NEW e \in AtomicEvent, NEW c, NEW cell,
         NEW r \in Registration, r.after <= Len(s),
         ~(e.cell = c /\ e.modification_order # 0),
         Remembers(cell, s, r, LastWrite(s, r.after, Len(s), c))
  PROVE  Remembers(cell, Append(s, e), r, LastWrite(Append(s, e), r.after, Len(s) + 1, c))
<1> DEFINE t == Append(s, e)
           n == Len(s)
           m == r.after
           w == LastWrite(s, m, n, c)
<1>1. n \in Nat /\ t[n + 1] = e /\ \A j \in 1..n : t[j] = s[j]
  BY SMT
<1>2. m \in Nat /\ m \in 0..n
  BY SMT, <1>1 DEF Registration
<1> HIDE DEF t, n, m
<1>3. LastWrite(t, m, n + 1, c) = w
  <2>1. ~(t[n + 1].cell = c /\ t[n + 1].modification_order # 0) BY <1>1
  <2>2. LastWrite(t, m, n + 1, c) = IF t[n + 1].cell = c /\ t[n + 1].modification_order # 0
                                      THEN n + 1 ELSE w
    BY SMTT(30), <1>1, <1>2, LastWriteNext
  <2>3. QED BY <2>1, <2>2
<1>4. w # 0 => t[w] = s[w]
  <2>1. w \in {0} \cup Writes(s, m, n, c) BY <1>1, <1>2, LastWriteIs
  <2> HIDE DEF w
  <2>2. w # 0 => w \in 1..n BY SMT, <1>1, <1>2, <2>1 DEF Writes
  <2>3. QED BY <1>1, <2>2
<1>5. Remembers(cell, s, r, w)
  BY DEF w, m, n
<1> HIDE DEF w
<1>6. Remembers(cell, t, r, w)
  BY <1>4, <1>5 DEF Remembers
<1>7. QED BY <1>3, <1>6 DEF t, n, m

(* A write is what its cell remembers. *)
LEMMA RemembersAfterWrite ==
  ASSUME NEW s \in Seq(AtomicEvent), NEW e \in AtomicEvent, NEW c, NEW cell,
         NEW r \in Registration, r.after <= Len(s),
         e.cell = c /\ e.modification_order # 0,
         cell = [value |-> e.value, modification_order |-> e.modification_order,
                 last_write |-> e.id, last_write_ordering |-> e.ordering]
  PROVE  Remembers(cell, Append(s, e), r, LastWrite(Append(s, e), r.after, Len(s) + 1, c))
<1> DEFINE t == Append(s, e)
           n == Len(s)
           m == r.after
<1>1. n \in Nat /\ n + 1 # 0 /\ t[n + 1] = e /\ \A j \in 1..n : t[j] = s[j]
  BY SMT
<1>2. m \in 0..n
  BY SMT, <1>1 DEF Registration
<1> HIDE DEF t, n, m
<1>3. LastWrite(t, m, n + 1, c) = n + 1
  BY <1>1, <1>2, LastWriteNext
<1>4. /\ cell.value = e.value /\ cell.last_write = e.id /\ cell.last_write_ordering = e.ordering
  OBVIOUS
<1>5. Remembers(cell, t, r, n + 1)
  BY <1>1, <1>4 DEF Remembers
<1>6. QED BY <1>3, <1>5 DEF t, n, m

(* A load that tells what its cell remembers tells the story of the trace. *)
LEMMA LoadOfCell ==
  ASSUME NEW s, NEW e, NEW cell, NEW r,
         Remembers(cell, s, r, LastWrite(s, r.after, Len(s), e.cell)),
         e.reads_from = cell.last_write, e.value = cell.value,
         e.after = IF Acquires(e.ordering) /\ Releases(cell.last_write_ordering)
                     THEN cell.last_write ELSE 0
  PROVE  LoadCoherent(s, e, r)
<1> DEFINE w == LastWrite(s, r.after, Len(s), e.cell)
<1>1. Remembers(cell, s, r, w) OBVIOUS
<1>2. LoadCoherent(s, e, r) <=>
        IF w = 0
          THEN e.reads_from = 0 /\ e.value = r.initial /\ e.after = 0
          ELSE /\ e.reads_from = s[w].id
               /\ e.value = s[w].value
               /\ e.after = IF Acquires(e.ordering) /\ Releases(s[w].ordering)
                              THEN s[w].id ELSE 0
  BY DEF LoadCoherent
<1> HIDE DEF w
<1>3. QED BY <1>1, <1>2 DEF Remembers, Releases

(* The step that appends an event e, which may write its cell.             *)
LEMMA AppendKeeps ==
  ASSUME TraceInv, NEW e \in AtomicEvent, events' = Append(events, e), registered' = registered,
         next_id' \in Nat, next_sc' \in Nat,
         e.kind = "Load" =>
           /\ e.cell \in DOMAIN cells /\ e.modification_order = 0
           /\ e.reads_from = cells[e.cell].last_write /\ e.value = cells[e.cell].value
           /\ e.after = IF Acquires(e.ordering) /\ Releases(cells[e.cell].last_write_ordering)
                          THEN cells[e.cell].last_write ELSE 0,
         IF e.modification_order = 0 THEN cells' = cells
         ELSE /\ e.cell \in DOMAIN cells
              /\ cells' = [cells EXCEPT ![e.cell] =
                             [value |-> e.value, modification_order |-> e.modification_order,
                              last_write |-> e.id, last_write_ordering |-> e.ordering]]
  PROVE  TraceInv' /\ NewLoadsCoherent
<1> DEFINE n == Len(events)
<1>1. /\ events \in Seq(AtomicEvent) /\ n \in Nat /\ events' \in Seq(AtomicEvent)
      /\ Len(events') = n + 1 /\ events'[n + 1] = e
  BY SMT DEF TraceInv, TraceTypes
<1>2. DOMAIN cells' = DOMAIN cells
  OBVIOUS
<1>3. TraceTypes'
  <2>1. [value |-> e.value, modification_order |-> e.modification_order,
         last_write |-> e.id, last_write_ordering |-> e.ordering] \in MemoryCell
    BY DEF AtomicEvent, MemoryCell
  <2>2. cells' \in [DOMAIN cells' -> MemoryCell]
    BY <1>2, <2>1 DEF TraceInv, TraceTypes
  <2>3. QED BY <1>1, <1>2, <2>2 DEF TraceInv, TraceTypes
<1>4. CellsRemember'
  <2>1. ASSUME NEW c \in DOMAIN cells
        PROVE  /\ registered[c].after <= n + 1
               /\ Remembers(cells'[c], events', registered[c],
                            LastWrite(events', registered[c].after, n + 1, c))
    <3>1. registered[c] \in Registration /\ registered[c].after <= n
      BY <2>1 DEF TraceInv, TraceTypes, CellsRemember
    <3>2. registered[c].after <= n + 1
      BY SMT, <1>1, <3>1 DEF Registration
    <3>3. CASE e.cell = c /\ e.modification_order # 0
      <4>1. cells'[c] = [value |-> e.value, modification_order |-> e.modification_order,
                         last_write |-> e.id, last_write_ordering |-> e.ordering]
        BY <2>1, <3>3 DEF TraceInv, TraceTypes
      <4>2. QED BY <1>1, <3>1, <3>2, <3>3, <4>1, RemembersAfterWrite
    <3>4. CASE ~(e.cell = c /\ e.modification_order # 0)
      <4>1. /\ cells'[c] = cells[c]
            /\ Remembers(cells[c], events, registered[c],
                         LastWrite(events, registered[c].after, n, c))
        BY <2>1, <3>4 DEF TraceInv, TraceTypes, CellsRemember
      <4>2. QED BY <1>1, <3>1, <3>2, <3>4, <4>1, RemembersAfterOther
    <3>5. QED BY <3>3, <3>4
  <2>2. QED BY <1>1, <1>2, <2>1 DEF CellsRemember
<1>5. NewLoadsCoherent
  <2>1. \A i \in (n + 1)..Len(events') : events'[i] = e
    BY SMT, <1>1
  <2>2. ASSUME e.kind = "Load" PROVE LoadCoherent(events, e, registered[e.cell])
    <3>1. Remembers(cells[e.cell], events, registered[e.cell],
                    LastWrite(events, registered[e.cell].after, Len(events), e.cell))
      BY <2>2 DEF TraceInv, CellsRemember
    <3>2. QED BY <2>2, <3>1, LoadOfCell
  <2>3. QED BY <2>1, <2>2 DEF NewLoadsCoherent
<1>6. QED BY <1>3, <1>4, <1>5 DEF TraceInv

(* A step that appends nothing has no new load. *)
LEMMA NoNewLoads ==
  ASSUME TraceInv, events' = events
  PROVE  NewLoadsCoherent
<1>1. Len(events) \in Nat /\ Len(events') = Len(events) BY SMT DEF TraceInv, TraceTypes
<1>2. (Len(events) + 1)..Len(events') = {} BY SMT, <1>1
<1>3. QED BY <1>2 DEF NewLoadsCoherent

(* Every operation keeps the invariant, and a load tells the trace's story.*)
LEMMA TraceInvStep ==
  ASSUME TraceInv, [AtomicNext]_atomicVars
  PROVE  TraceInv' /\ NewLoadsCoherent
<1> USE AtomicAssumption
<1>1. next_id \in Nat /\ next_sc \in Nat
  BY DEF TraceInv, TraceTypes
<1>2. ASSUME NEW o, Indexed(o)
      PROVE  next_id' \in Nat /\ next_sc' \in Nat /\ ScIndex(o) \in Nat
  BY SMTT(30), <1>1, <1>2 DEF Indexed, ScIndex
<1>3. ASSUME NEW c \in Cells, NEW v \in Initials, register(c, v)
      PROVE  TraceInv' /\ NewLoadsCoherent
  <2> DEFINE new == [value |-> v, modification_order |-> 0, last_write |-> 0,
                     last_write_ordering |-> "Relaxed"]
             r == [after |-> Len(events), initial |-> v]
             n == Len(events)
  <2>1. /\ cells' = [d \in DOMAIN cells \cup {c} |-> IF d = c THEN new ELSE cells[d]]
        /\ registered' = [d \in DOMAIN registered \cup {c} |-> IF d = c THEN r ELSE registered[d]]
        /\ UNCHANGED <<events, next_id, next_sc>>
    BY <1>3 DEF register
  <2>2. v \in Nat /\ n \in Nat
    BY SMT DEF TraceInv, TraceTypes
  <2>3. new \in MemoryCell /\ r \in Registration
    BY <2>2 DEF MemoryCell, Registration
  <2>4. /\ new.value = v /\ new.last_write = 0 /\ new.last_write_ordering = "Relaxed"
        /\ r.after = n /\ r.initial = v
    OBVIOUS
  <2> HIDE DEF new, r, n
  <2>5. TraceTypes'
    <3>1. DOMAIN cells' = DOMAIN cells \cup {c} /\ DOMAIN registered = DOMAIN cells
      BY <2>1 DEF TraceInv, TraceTypes
    <3>2. cells' \in [DOMAIN cells' -> MemoryCell]
      BY <2>1, <2>3, <3>1 DEF TraceInv, TraceTypes
    <3>3. registered' \in [DOMAIN cells' -> Registration]
      BY <2>1, <2>3, <3>1 DEF TraceInv, TraceTypes
    <3>4. QED BY <2>1, <3>1, <3>2, <3>3 DEF TraceInv, TraceTypes
  <2>6. n <= n /\ Remembers(new, events, r, LastWrite(events, n, n, c))
    <3>1. Writes(events, n, n, c) = {} /\ n <= n
      BY SMT, <2>2 DEF Writes
    <3>2. LastWrite(events, n, n, c) = 0
      BY <2>2, <3>1, LastWriteIs
    <3>3. QED BY <2>4, <3>1, <3>2 DEF Remembers
  <2>7. ASSUME NEW d \in DOMAIN cells'
        PROVE  /\ registered'[d].after <= n
               /\ Remembers(cells'[d], events, registered'[d],
                            LastWrite(events, registered'[d].after, n, d))
    <3>1. CASE d = c
      BY <2>1, <2>4, <2>6, <3>1 DEF TraceInv, TraceTypes
    <3>2. CASE d # c
      <4>1. d \in DOMAIN cells /\ cells'[d] = cells[d] /\ registered'[d] = registered[d]
        BY <2>1, <2>7, <3>2 DEF TraceInv, TraceTypes
      <4>2. QED BY <4>1 DEF TraceInv, CellsRemember, n
    <3>3. QED BY <3>1, <3>2
  <2>8. CellsRemember'
    BY <2>1, <2>7 DEF CellsRemember, n
  <2>9. QED BY <2>1, <2>5, <2>8, NoNewLoads DEF TraceInv
<1>4. ASSUME NEW c \in Cells, NEW o \in Orderings, load(c, o)
      PROVE  TraceInv' /\ NewLoadsCoherent
  <2> DEFINE e == [id |-> next_id, cell |-> c, kind |-> "Load", ordering |-> o,
                   value |-> cells[c].value, reads_from |-> cells[c].last_write,
                   modification_order |-> 0, sc |-> ScIndex(o),
                   after |-> IF Acquires(o) /\ Releases(cells[c].last_write_ordering)
                               THEN cells[c].last_write ELSE 0]
  <2>1. /\ c \in DOMAIN cells /\ Indexed(o) /\ UNCHANGED <<cells, registered>>
        /\ events' = Append(events, e)
    BY <1>4 DEF load, ReadsFrom
  <2>2. cells[c].value \in Nat /\ cells[c].last_write \in Nat
    BY <2>1 DEF TraceInv, TraceTypes, MemoryCell
  <2>3. e \in AtomicEvent
    BY <1>1, <1>2, <2>1, <2>2 DEF AtomicEvent
  <2>4. /\ e.cell = c /\ e.kind = "Load" /\ e.modification_order = 0 /\ e.ordering = o
        /\ e.reads_from = cells[c].last_write /\ e.value = cells[c].value
        /\ e.after = IF Acquires(o) /\ Releases(cells[c].last_write_ordering)
                       THEN cells[c].last_write ELSE 0
    OBVIOUS
  <2> HIDE DEF e
  <2>5. QED BY <1>2, <2>1, <2>3, <2>4, AppendKeeps
<1>5. ASSUME NEW c \in Cells, NEW v \in Nat, NEW o \in Orderings,
             NEW kind \in {"Store", "ReadModifyWrite"}, NEW r \in Nat, NEW a \in Nat,
             WriteEvent(c, v, o, kind, r, a)
      PROVE  TraceInv' /\ NewLoadsCoherent
  <2>1. CASE c \notin DOMAIN cells
    <3>1. UNCHANGED <<cells, events, registered>> /\ Indexed(o)
      BY <1>5, <2>1 DEF WriteEvent
    <3>2. QED BY <1>2, <3>1, NoNewLoads DEF TraceInv, TraceTypes, CellsRemember
  <2>2. CASE c \in DOMAIN cells
    <3> DEFINE m == cells[c].modification_order + 1
               e == [id |-> next_id, cell |-> c, kind |-> kind, ordering |-> o,
                     value |-> v, reads_from |-> r, modification_order |-> m,
                     sc |-> ScIndex(o), after |-> a]
    <3>1. cells[c].modification_order \in Nat
      BY <2>2 DEF TraceInv, TraceTypes, MemoryCell
    <3>2. m \in Nat /\ m # 0
      BY SMT, <3>1
    <3>3. /\ Indexed(o) /\ events' = Append(events, e) /\ registered' = registered
          /\ cells' = [cells EXCEPT ![c] = [value |-> v, modification_order |-> m,
                             last_write |-> next_id, last_write_ordering |-> o]]
      BY <1>5, <2>2 DEF WriteEvent
    <3> HIDE DEF m
    <3>4. e \in AtomicEvent
      BY <1>1, <1>2, <3>2, <3>3 DEF AtomicEvent
    <3>5. /\ e.cell = c /\ e.kind # "Load" /\ e.modification_order = m /\ e.ordering = o
          /\ e.value = v /\ e.id = next_id
      OBVIOUS
    <3> HIDE DEF e
    <3>6. QED BY <1>2, <2>2, <3>2, <3>3, <3>4, <3>5, AppendKeeps
  <2>3. QED BY <2>1, <2>2
<1>6. ASSUME NEW c \in Cells, NEW v \in Stored, NEW o \in Orderings, store(c, v, o)
      PROVE  TraceInv' /\ NewLoadsCoherent
  <2>1. v \in Nat
    BY SMT
  <2>2. QED BY <1>5, <1>6, <2>1 DEF store
<1>7. ASSUME NEW c \in Cells, NEW v \in Stored, NEW o \in Orderings, fetch_add(c, v, o)
      PROVE  TraceInv' /\ NewLoadsCoherent
  <2> DEFINE last == events[Len(events)]
             found == events # << >> /\ last.cell = c /\ last.modification_order # 0
             prior == IF found THEN last.id ELSE 0
             sum == (cells[c].value + v) % ValueLimit
             after == IF found /\ Acquires(o) /\ Releases(last.ordering) THEN prior ELSE 0
  <2>1. c \in DOMAIN cells /\ WriteEvent(c, sum, o, "ReadModifyWrite", prior, after)
    BY <1>7 DEF fetch_add
  <2>2. cells[c].value \in Nat /\ v \in Nat
    BY SMTT(30), <2>1 DEF TraceInv, TraceTypes, MemoryCell
  <2>3. sum \in Nat
    BY SMT, <2>2
  <2>4. events # << >> => last.id \in Nat
    <3>1. events # << >> => last \in AtomicEvent
      BY SMT DEF TraceInv, TraceTypes
    <3>2. QED BY <3>1 DEF AtomicEvent
  <2>5. prior \in Nat /\ after \in Nat
    BY <2>4
  <2> HIDE DEF last, found, prior, sum, after
  <2>6. QED BY <1>5, <2>1, <2>3, <2>5
<1>8. ASSUME NEW o \in Orderings, fence(o) PROVE TraceInv' /\ NewLoadsCoherent
  <2> DEFINE e == [id |-> next_id, cell |-> 0, kind |-> "Fence", ordering |-> o, value |-> 0,
                   reads_from |-> 0, modification_order |-> 0, sc |-> ScIndex(o), after |-> 0]
  <2>1. Indexed(o) /\ UNCHANGED <<cells, registered>> /\ events' = Append(events, e)
    BY <1>8 DEF fence
  <2>2. e \in AtomicEvent
    BY <1>1, <1>2, <2>1 DEF AtomicEvent
  <2>3. e.cell = 0 /\ e.kind = "Fence" /\ e.modification_order = 0
    OBVIOUS
  <2> HIDE DEF e
  <2>4. QED BY <1>2, <2>1, <2>2, <2>3, AppendKeeps
<1>9. CASE UNCHANGED atomicVars
  BY <1>9, NoNewLoads DEF atomicVars, TraceInv, TraceTypes, CellsRemember
<1>10. QED BY <1>3, <1>4, <1>6, <1>7, <1>8, <1>9 DEF AtomicNext

(* Nothing is registered and nothing traced. *)
LEMMA TraceInvInit == AtomicInit => TraceInv
  BY SMT DEF AtomicInit, TraceInv, TraceTypes, CellsRemember

(* Every load of any trace reads the last write to its cell since the cell *)
(* was last registered, or the value it was registered with, and           *)
(* synchronises with that write exactly if it acquires and the write       *)
(* releases.                                                               *)
THEOREM LoadsCoherentHolds == AtomicSpec => LoadsCoherent
<1>1. TraceInv /\ [AtomicNext]_atomicVars => TraceInv'
  BY TraceInvStep
<1>2. TraceInv /\ [AtomicNext]_atomicVars => [NewLoadsCoherent]_atomicVars
  BY TraceInvStep
<1>3. QED BY <1>1, <1>2, TraceInvInit, PTL DEF AtomicSpec, LoadsCoherent, NewLoadsCoherent
=============================================================================
