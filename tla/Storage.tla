------------------------------- MODULE Storage -------------------------------
(***************************************************************************)
(* The allocation-free containers of kernel/src/storage.rs: FixedVec,      *)
(* FixedMap, Bitmap and RingBuffer, as their arrays, indices and counts.   *)
(* Arrays are indexed from 0.  request is the last call, with its          *)
(* arguments, and answer what it returned, an error included.              *)
(***************************************************************************)
EXTENDS Integers, Sequences, FiniteSets

CONSTANTS
  StorageValues,  \* the values stored
  StorageKeys,    \* the keys of the map
  StorageN,       \* N: the capacity of each container
  WORDS,          \* words of a bitmap
  WordBits        \* bits of a word (64 in the code)

ASSUME StorageAssumption ==
  /\ StorageN \in Nat /\ WORDS \in Nat /\ WordBits \in Nat \ {0}
  /\ 0 \in StorageValues /\ StorageValues \subseteq Nat

VARIABLES
  fixed_vec,  \* values and len
  fixed_map,  \* entries and len
  bitmap,     \* the set bits of each word
  ring,       \* values, head and len
  request,    \* the last call
  answer      \* what it returned

storageVars == <<fixed_vec, fixed_map, bitmap, ring, request, answer>>

Index == 0..(StorageN - 1)
NoEntry == <<>>  \* None

StorageInit ==
  /\ fixed_vec = [values |-> [i \in Index |-> 0], len |-> 0]
  /\ fixed_map = [entries |-> [i \in Index |-> NoEntry], len |-> 0]
  /\ bitmap = [w \in 0..(WORDS - 1) |-> {}]
  /\ ring = [values |-> [i \in Index |-> 0], head |-> 0, len |-> 0]
  /\ request = <<"none">> /\ answer = <<"none", 0>>

Called(c) == request' = c
Returns(value) == answer' = <<"Ok", value>>
Errs(error) == answer' = <<error, 0>>
-----------------------------------------------------------------------------
vec_get(i) ==
  /\ Called(<<"vec_get", i>>)
  /\ IF i >= fixed_vec.len THEN Errs("OutOfBounds") ELSE Returns(fixed_vec.values[i])
  /\ UNCHANGED fixed_vec

vec_set(i, v) ==
  /\ Called(<<"vec_set", i, v>>)
  /\ IF i >= fixed_vec.len THEN Errs("OutOfBounds") /\ UNCHANGED fixed_vec
     ELSE Returns(0) /\ fixed_vec' = [fixed_vec EXCEPT !.values[i] = v]

vec_push(v) ==
  /\ Called(<<"vec_push", v>>)
  /\ IF fixed_vec.len = StorageN THEN Errs("Full") /\ UNCHANGED fixed_vec
     ELSE /\ Returns(0)
          /\ fixed_vec' = [fixed_vec EXCEPT !.values[fixed_vec.len] = v, !.len = @ + 1]

vec_pop ==
  /\ Called(<<"vec_pop">>)
  /\ IF fixed_vec.len = 0 THEN Errs("Empty") /\ UNCHANGED fixed_vec
     ELSE /\ Returns(fixed_vec.values[fixed_vec.len - 1])
          /\ fixed_vec' = [fixed_vec EXCEPT !.len = @ - 1]

VecNext ==
  /\ \/ \E i \in 0..StorageN : vec_get(i) \/ \E v \in StorageValues : vec_set(i, v)
     \/ \E v \in StorageValues : vec_push(v)
     \/ vec_pop
  /\ UNCHANGED <<fixed_map, bitmap, ring>>
-----------------------------------------------------------------------------
Holds(i, key) == fixed_map.entries[i] # NoEntry /\ fixed_map.entries[i][1] = key

FirstOf(S) == CHOOSE i \in S : \A j \in S : i <= j

map_insert(key, v) ==
  /\ Called(<<"map_insert", key, v>>)
  /\ IF \E i \in Index : Holds(i, key) THEN Errs("DuplicateKey") /\ UNCHANGED fixed_map
     ELSE IF fixed_map.len = StorageN THEN Errs("Full") /\ UNCHANGED fixed_map
     ELSE /\ Returns(0)
          /\ fixed_map' = [fixed_map EXCEPT !.entries[fixed_map.len] = <<key, v>>, !.len = @ + 1]

map_get(key) ==
  /\ Called(<<"map_get", key>>)
  /\ IF \A i \in Index : ~Holds(i, key) THEN Errs("MissingKey")
     ELSE Returns(fixed_map.entries[FirstOf({i \in Index : Holds(i, key)})][2])
  /\ UNCHANGED fixed_map

(* The last entry moves into the hole and its old slot is cleared. *)
MovedLast(index, last) ==
  [fixed_map.entries EXCEPT ![index] = fixed_map.entries[last], ![last] = NoEntry]

map_remove(key) ==
  LET found == {i \in 0..(fixed_map.len - 1) : Holds(i, key)} IN
  /\ Called(<<"map_remove", key>>)
  /\ IF found = {} THEN Errs("MissingKey") /\ UNCHANGED fixed_map
     ELSE /\ Returns(fixed_map.entries[FirstOf(found)][2])
          /\ fixed_map' = [entries |-> MovedLast(FirstOf(found), fixed_map.len - 1),
                           len |-> fixed_map.len - 1]

MapNext ==
  /\ \E k \in StorageKeys :
       map_get(k) \/ map_remove(k) \/ \E v \in StorageValues : map_insert(k, v)
  /\ UNCHANGED <<fixed_vec, bitmap, ring>>
-----------------------------------------------------------------------------
bit_set(bit, value) ==
  LET word == bit \div WordBits IN
  /\ Called(<<"bit_set", bit, value>>)
  /\ IF word >= WORDS THEN Errs("OutOfBounds") /\ UNCHANGED bitmap
     ELSE /\ Returns(0)
          /\ bitmap' = [bitmap EXCEPT ![word] = IF value THEN @ \cup {bit % WordBits}
                                                         ELSE @ \ {bit % WordBits}]

bit_get(bit) ==
  LET word == bit \div WordBits IN
  /\ Called(<<"bit_get", bit>>)
  /\ IF word >= WORDS THEN Errs("OutOfBounds")
     ELSE Returns(IF bit % WordBits \in bitmap[word] THEN 1 ELSE 0)
  /\ UNCHANGED bitmap

(* The first word that is not full, and its trailing ones. *)
first_clear ==
  LET open == {w \in 0..(WORDS - 1) : bitmap[w] # 0..(WordBits - 1)} IN
  /\ Called(<<"first_clear">>)
  /\ IF open = {} THEN Errs("None")
     ELSE Returns(FirstOf(open) * WordBits
                    + FirstOf((0..(WordBits - 1)) \ bitmap[FirstOf(open)]))
  /\ UNCHANGED bitmap

BitmapNext ==
  /\ \/ \E b \in 0..(WORDS * WordBits) : bit_get(b) \/ \E value \in BOOLEAN : bit_set(b, value)
     \/ first_clear
  /\ UNCHANGED <<fixed_vec, fixed_map, ring>>
-----------------------------------------------------------------------------
FromStart == ring.len

RingTail == (ring.head + ring.len) % StorageN

ring_push(v) ==
  /\ Called(<<"ring_push", v>>)
  /\ IF ring.len = StorageN THEN Errs("Full") /\ UNCHANGED ring
     ELSE Returns(0) /\ ring' = [ring EXCEPT !.values[RingTail] = v, !.len = @ + 1]

ring_pop ==
  /\ Called(<<"ring_pop">>)
  /\ IF ring.len = 0 THEN Errs("Empty") /\ UNCHANGED ring
     ELSE /\ Returns(ring.values[ring.head])
          /\ ring' = [ring EXCEPT !.head = (@ + 1) % StorageN, !.len = @ - 1]

RingNext ==
  /\ ring_pop \/ \E v \in StorageValues : ring_push(v)
  /\ UNCHANGED <<fixed_vec, fixed_map, bitmap>>

StorageNext == VecNext \/ MapNext \/ BitmapNext \/ RingNext

StorageSpec == StorageInit /\ [][StorageNext]_storageVars
-----------------------------------------------------------------------------
(* What each container holds, whatever its arrays look like. *)
Stacked == [i \in 1..fixed_vec.len |-> fixed_vec.values[i - 1]]
Tabled == {fixed_map.entries[i] : i \in {j \in Index : fixed_map.entries[j] # NoEntry}}
BitNumbers == UNION {{w * WordBits + b : b \in bitmap[w]} : w \in DOMAIN bitmap}
Queued == [i \in 1..ring.len |-> ring.values[(ring.head + i - 1) % StorageN]]

Promise == INSTANCE Containers WITH
  Values <- StorageValues, Keys <- StorageKeys,
  StackMax <- StorageN, TableMax <- StorageN, BitsMax <- WORDS * WordBits, QueueMax <- StorageN,
  stack <- Stacked, table <- Tabled, bits <- BitNumbers, fifo <- Queued,
  call <- request, reply <- answer

(* The containers keep the promise of Containers, call by call: each does  *)
(* what it says to the index, key or bit it was given, and answers or      *)
(* refuses as it should.  The ring buffer stays a queue when it wraps      *)
(* around, the map loses and duplicates no entry when remove moves the     *)
(* last one, and the first clear bit is the least, across words.           *)
ImplementsContainers == Promise!ContainersSpec
=============================================================================
