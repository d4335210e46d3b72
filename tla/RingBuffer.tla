------------------------------ MODULE RingBuffer ------------------------------
(***************************************************************************)
(* The ring buffer (model/ringbuffer.go): Push and Pop, one access to the  *)
(* shared counters and slots at a time.  The matching engine pushes from   *)
(* every goroutine that submits an order, and pops in one.  An item is a   *)
(* number; 0 stands for nil.                                               *)
(***************************************************************************)
EXTENDS Integers, Sequences, SequencesExt, FiniteSets

CONSTANTS
  Producers,     (* the goroutines that push                               *)
  Size,          (* a power of two                                         *)
  MaxItems       (* bound of the calls of Push                             *)

ASSUME RingBufferAssumption ==
  /\ IsFiniteSet(Producers)
  /\ Size \in Nat \ {0}
  /\ MaxItems \in Nat

VARIABLES
  buf, head, tail, count,
  producer,      (* each Push: its place, its item, the tail it loaded     *)
  items,         (* the calls of Push                                      *)
  consumer,      (* the Pop: its place and the item it read                *)
  pushed,        (* history: the items in the order in which they counted  *)
  overlapped,    (* history: two calls of Push were under way at once      *)
  popped         (* history: what Pop returned, nil included               *)

ringVars == <<buf, head, tail, count, producer, items, consumer, pushed, overlapped,
              popped>>

Idle == [at |-> "idle", item |-> 0, tail |-> 0]

RingInit ==
  /\ buf = [i \in 0..(Size - 1) |-> 0]
  /\ head = 0
  /\ tail = 0
  /\ count = 0
  /\ producer = [p \in Producers |-> Idle]
  /\ items = 0
  /\ consumer = [at |-> "idle", item |-> 0]
  /\ pushed = <<>>
  /\ overlapped = FALSE
  /\ popped = <<>>

-----------------------------------------------------------------------------
PushFrame == UNCHANGED <<head, consumer, popped>>

(* Mutant of Full: one slot too many. *)
FullLate == count > Size

Full == count >= Size

(* The count is loaded; Push of a full buffer returns false.                *)
Push(p) ==
  /\ producer[p].at = "idle"
  /\ items < MaxItems
  /\ items' = items + 1
  /\ producer' = IF Full THEN producer
                 ELSE [producer EXCEPT ![p] = [at |-> "tail", item |-> items', tail |-> 0]]
  /\ overlapped' = (overlapped \/ \E q \in Producers : producer[q].at # "idle")
  /\ UNCHANGED <<buf, tail, count, pushed>>

LoadTail(p) ==
  /\ producer[p].at = "tail"
  /\ producer' = [producer EXCEPT ![p].at = "write", ![p].tail = tail]
  /\ UNCHANGED <<buf, tail, count, items, pushed, overlapped>>

WriteSlot(p) ==
  /\ producer[p].at = "write"
  /\ buf' = [buf EXCEPT ![producer[p].tail % Size] = producer[p].item]
  /\ producer' = [producer EXCEPT ![p].at = "add"]
  /\ UNCHANGED <<tail, count, items, pushed, overlapped>>

(* Mutant of AddTail: the loaded tail plus one is stored. *)
StoreTail(p) ==
  /\ producer[p].at = "add"
  /\ tail' = producer[p].tail + 1
  /\ producer' = [producer EXCEPT ![p].at = "count"]
  /\ UNCHANGED <<buf, count, items, pushed, overlapped>>

AddTail(p) ==
  /\ producer[p].at = "add"
  /\ tail' = tail + 1
  /\ producer' = [producer EXCEPT ![p].at = "count"]
  /\ UNCHANGED <<buf, count, items, pushed, overlapped>>

(* Push returns true. *)
AddCount(p) ==
  /\ producer[p].at = "count"
  /\ count' = count + 1
  /\ pushed' = Append(pushed, producer[p].item)
  /\ producer' = [producer EXCEPT ![p] = Idle]
  /\ UNCHANGED <<buf, tail, items, overlapped>>

PushStep(p) ==
  /\ Push(p) \/ LoadTail(p) \/ WriteSlot(p) \/ AddTail(p) \/ AddCount(p)
  /\ PushFrame

-----------------------------------------------------------------------------
PopFrame == UNCHANGED <<tail, producer, items, pushed, overlapped>>

(* The count is loaded; Pop of an empty buffer returns false.               *)
Pop ==
  /\ consumer.at = "idle"
  /\ count > 0
  /\ consumer' = [at |-> "read", item |-> 0]
  /\ UNCHANGED <<buf, head, count, popped>>

(* Only Pop uses head: loading it is part of reading the slot.              *)
ReadSlot ==
  /\ consumer.at = "read"
  /\ consumer' = [at |-> "clear", item |-> buf[head % Size]]
  /\ UNCHANGED <<buf, head, count, popped>>

(* Mutant of ClearSlot: the slot keeps its item. *)
ClearSlotForgotten ==
  /\ consumer.at = "clear"
  /\ head' = head + 1
  /\ consumer' = [consumer EXCEPT !.at = "count"]
  /\ UNCHANGED <<buf, count, popped>>

ClearSlot ==
  /\ consumer.at = "clear"
  /\ buf' = [buf EXCEPT ![head % Size] = 0]
  /\ head' = head + 1
  /\ consumer' = [consumer EXCEPT !.at = "count"]
  /\ UNCHANGED <<count, popped>>

SubCount ==
  /\ consumer.at = "count"
  /\ count' = count - 1
  /\ popped' = Append(popped, consumer.item)
  /\ consumer' = [at |-> "idle", item |-> 0]
  /\ UNCHANGED <<buf, head>>

PopStep ==
  /\ Pop \/ ReadSlot \/ ClearSlot \/ SubCount
  /\ PopFrame

RingNext == PopStep \/ \E p \in Producers : PushStep(p)

RingSpec == RingInit /\ [][RingNext]_ringVars

-----------------------------------------------------------------------------
(* The counters agree: count is what was put in and not yet taken.          *)
Counted == {p \in Producers : producer[p].at = "count"}

Items == 1..MaxItems

RingTypes ==
  /\ buf \in [0..(Size - 1) -> Items \cup {0}]
  /\ head \in Nat /\ tail \in Nat
  /\ count = tail - Cardinality(Counted) - head + (IF consumer.at = "count" THEN 1 ELSE 0)
  /\ producer \in [Producers -> [at : {"idle", "tail", "write", "add", "count"},
                                 item : Items \cup {0}, tail : Nat]]
  /\ consumer \in [at : {"idle", "read", "clear", "count"}, item : Items \cup {0}]
  /\ overlapped \in BOOLEAN /\ items \in 0..MaxItems
  /\ pushed \in Seq(Items) /\ popped \in Seq(Items \cup {0})

(* Pushed to by one goroutine at a time, whichever it is, the buffer is a   *)
(* queue: Pop returns what was pushed, in order, and nothing is overwritten. *)
(* When calls of Push overlap, items may be overwritten and Pop may return  *)
(* nil, but no item is returned twice.                                      *)
PopsArePushes ==
  /\ ~overlapped => IsPrefix(popped, pushed) /\ count <= Size
  /\ \A i, j \in DOMAIN popped : popped[i] = popped[j] /\ popped[i] # 0 => i = j
=============================================================================
