----------------------------- MODULE LockedQueue -----------------------------
(***************************************************************************)
(* Common/LockedQueue.h with a thread that adds items and one that takes   *)
(* them, in each of the ways the class offers: next, next with a Checker,  *)
(* or empty, peek and pop_front, which are calls of their own, with the    *)
(* lock kept or not after the peek.                                        *)
(***************************************************************************)
EXTENDS Naturals, Sequences

CONSTANT MaxItems      \* bound: items added

(* Assumed of the constants.                                               *)
Constants == MaxItems \in Nat

VARIABLES
  _queue, _canceled,
  _lock,     \* "taker" when it is kept after a peek
  taker,     \* what the taker has done: "idle", "checked" with empty, "peeked",
             \*   or "done" when it found the queue cancelled
  item,      \* what it has peeked at
  added,     \* history: items added
  taken      \* history: items taken, in that order

vars == <<_queue, _canceled, _lock, taker, item, added, taken>>

Item == 1..MaxItems

TypeOK == /\ _queue \in Seq(Item) /\ taken \in Seq(Item)
          /\ _canceled \in BOOLEAN
          /\ _lock \in {"none", "taker"} /\ taker \in {"idle", "checked", "peeked", "done"}
          /\ item \in 0..MaxItems /\ added \in 0..MaxItems

Init == /\ _queue = << >> /\ _canceled = FALSE
        /\ _lock = "none"
        /\ taker = "idle"
        /\ item = 0 /\ added = 0 /\ taken = << >>

-----------------------------------------------------------------------------
(* Each call takes the lock and gives it back, but for peek.               *)
add == /\ _lock = "none"
       /\ added < MaxItems
       /\ _queue' = Append(_queue, added + 1)
       /\ added' = added + 1
       /\ UNCHANGED <<_canceled, _lock, taker, item, taken>>

cancel == /\ _lock = "none"
          /\ _canceled' = TRUE
          /\ UNCHANGED <<_queue, _lock, taker, item, added, taken>>

cancelled == /\ taker = "idle" /\ _lock = "none" /\ _canceled
             /\ taker' = "done"
             /\ UNCHANGED <<_queue, _canceled, _lock, item, added, taken>>

(* next of an empty queue changes nothing.                                 *)
next == /\ taker = "idle" /\ _lock = "none"
        /\ _queue # << >>
        /\ taken' = Append(taken, Head(_queue))
        /\ _queue' = Tail(_queue)
        /\ UNCHANGED <<_canceled, _lock, taker, item, added>>

(* Fault: the item is popped before it is checked.                         *)
nextIfPops(Process) ==
  /\ taker = "idle" /\ _lock = "none"
  /\ _queue # << >>
  /\ taken' = IF Process THEN Append(taken, Head(_queue)) ELSE taken
  /\ _queue' = Tail(_queue)
  /\ UNCHANGED <<_canceled, _lock, taker, item, added>>

(* An item that the Checker refuses stays where it is.                     *)
nextIf(Process) ==
  /\ taker = "idle" /\ _lock = "none"
  /\ _queue # << >>
  /\ taken' = IF Process THEN Append(taken, Head(_queue)) ELSE taken
  /\ _queue' = IF Process THEN Tail(_queue) ELSE _queue
  /\ UNCHANGED <<_canceled, _lock, taker, item, added>>

(* "Check if the queue is empty before calling", as the comment at peek has*)
(* it.                                                                     *)
empty == /\ taker = "idle" /\ _lock = "none"
         /\ taker' = IF _queue = << >> THEN "idle" ELSE "checked"
         /\ UNCHANGED <<_queue, _canceled, _lock, item, added, taken>>

peek(autoUnlock) == /\ taker = "checked" /\ _lock = "none"
                    /\ item' = Head(_queue)
                    /\ taker' = "peeked"
                    /\ _lock' = IF autoUnlock THEN "none" ELSE "taker"
                    /\ UNCHANGED <<_queue, _canceled, added, taken>>

unlock == /\ _lock = "taker"
          /\ _lock' = "none"
          /\ UNCHANGED <<_queue, _canceled, taker, item, added, taken>>

(* pop_front locks: the taker has to unlock before.                        *)
pop_front == /\ taker = "peeked" /\ _lock = "none"
             /\ _queue' = Tail(_queue)
             /\ taken' = Append(taken, item)
             /\ taker' = "idle"
             /\ UNCHANGED <<_canceled, _lock, item, added>>

Next == \/ add \/ cancel
        \/ next \/ (\E Process \in BOOLEAN : nextIf(Process))
        \/ empty \/ (\E autoUnlock \in BOOLEAN : peek(autoUnlock)) \/ unlock \/ pop_front
        \/ cancelled

Spec == Init /\ [][Next]_vars

-----------------------------------------------------------------------------
(* Every item added is taken once, in its turn, or still there, though the *)
(* queue grows between the calls of the taker; what it found by empty and  *)
(* peek holds until its pop_front.                                         *)
Fifo == /\ taken \o _queue = [i \in 1..added |-> i]
        /\ taker \in {"checked", "peeked"} => _queue # << >>
        /\ taker = "peeked" => item = Head(_queue)
=============================================================================
