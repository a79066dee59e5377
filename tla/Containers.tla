------------------------------ MODULE Containers ------------------------------
(***************************************************************************)
(* What the fixed-capacity containers promise, whatever they are made of:  *)
(* a stack, a table, a set of numbers below a limit and a queue, with the  *)
(* last call on any of them and the reply to it.                           *)
(***************************************************************************)
EXTENDS Integers, Sequences, FiniteSets

CONSTANTS Values, Keys, StackMax, TableMax, BitsMax, QueueMax

VARIABLES stack, table, bits, fifo, call, reply

containerVars == <<stack, table, bits, fifo, call, reply>>

Ok(value) == reply' = <<"Ok", value>>
Refuse(error) == reply' = <<error, 0>>

ContainersInit ==
  /\ stack = <<>> /\ table = {} /\ bits = {} /\ fifo = <<>>
  /\ call = <<"none">> /\ reply = <<"none", 0>>
-----------------------------------------------------------------------------
Push(v) ==
  /\ call' = <<"vec_push", v>>
  /\ IF Len(stack) = StackMax THEN Refuse("Full") /\ UNCHANGED stack
     ELSE Ok(0) /\ stack' = Append(stack, v)

Pop ==
  /\ call' = <<"vec_pop">>
  /\ IF stack = <<>> THEN Refuse("Empty") /\ UNCHANGED stack
     ELSE Ok(stack[Len(stack)]) /\ stack' = SubSeq(stack, 1, Len(stack) - 1)

Assign(i, v) ==
  /\ call' = <<"vec_set", i, v>>
  /\ IF i >= Len(stack) THEN Refuse("OutOfBounds") /\ UNCHANGED stack
     ELSE Ok(0) /\ stack' = [stack EXCEPT ![i + 1] = v]

ElementAt(i) ==
  /\ call' = <<"vec_get", i>>
  /\ IF i >= Len(stack) THEN Refuse("OutOfBounds") ELSE Ok(stack[i + 1])
  /\ UNCHANGED stack

StackStep ==
  /\ \/ \E v \in Values : Push(v)
     \/ Pop
     \/ \E i \in 0..StackMax : ElementAt(i) \/ \E v \in Values : Assign(i, v)
  /\ UNCHANGED <<table, bits, fifo>>
-----------------------------------------------------------------------------
Under(key) == {pair \in table : pair[1] = key}

Insert(k, v) ==
  /\ call' = <<"map_insert", k, v>>
  /\ IF Under(k) # {} THEN Refuse("DuplicateKey") /\ UNCHANGED table
     ELSE IF Cardinality(table) = TableMax THEN Refuse("Full") /\ UNCHANGED table
     ELSE Ok(0) /\ table' = table \cup {<<k, v>>}

Lookup(k) ==
  /\ call' = <<"map_get", k>>
  /\ IF Under(k) = {} THEN Refuse("MissingKey") ELSE \E pair \in Under(k) : Ok(pair[2])
  /\ UNCHANGED table

Remove(k) ==
  /\ call' = <<"map_remove", k>>
  /\ IF Under(k) = {} THEN Refuse("MissingKey") /\ UNCHANGED table
     ELSE \E pair \in Under(k) : Ok(pair[2]) /\ table' = table \ {pair}

TableStep ==
  /\ \E k \in Keys : Lookup(k) \/ Remove(k) \/ \E v \in Values : Insert(k, v)
  /\ UNCHANGED <<stack, bits, fifo>>
-----------------------------------------------------------------------------
SetBit(b, value) ==
  /\ call' = <<"bit_set", b, value>>
  /\ IF b >= BitsMax THEN Refuse("OutOfBounds") /\ UNCHANGED bits
     ELSE Ok(0) /\ bits' = IF value THEN bits \cup {b} ELSE bits \ {b}

TestBit(b) ==
  /\ call' = <<"bit_get", b>>
  /\ IF b >= BitsMax THEN Refuse("OutOfBounds") ELSE Ok(IF b \in bits THEN 1 ELSE 0)
  /\ UNCHANGED bits

LeastClear ==
  /\ call' = <<"first_clear">>
  /\ IF bits = 0..(BitsMax - 1) THEN Refuse("None")
     ELSE \E b \in (0..(BitsMax - 1)) \ bits : Ok(b) /\ \A c \in 0..(b - 1) : c \in bits
  /\ UNCHANGED bits

BitsStep ==
  /\ \/ \E b \in 0..BitsMax : TestBit(b) \/ \E value \in BOOLEAN : SetBit(b, value)
     \/ LeastClear
  /\ UNCHANGED <<stack, table, fifo>>
-----------------------------------------------------------------------------
Enqueue(v) ==
  /\ call' = <<"ring_push", v>>
  /\ IF Len(fifo) = QueueMax THEN Refuse("Full") /\ UNCHANGED fifo
     ELSE Ok(0) /\ fifo' = Append(fifo, v)

Dequeue ==
  /\ call' = <<"ring_pop">>
  /\ IF fifo = <<>> THEN Refuse("Empty") /\ UNCHANGED fifo
     ELSE Ok(Head(fifo)) /\ fifo' = Tail(fifo)

QueueStep ==
  /\ Dequeue \/ \E v \in Values : Enqueue(v)
  /\ UNCHANGED <<stack, table, bits>>

ContainersSpec ==
  ContainersInit /\ [][StackStep \/ TableStep \/ BitsStep \/ QueueStep]_containerVars
=============================================================================
