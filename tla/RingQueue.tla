----------------------------- MODULE RingQueue ------------------------------
(***************************************************************************)
(* queue (queue.hpp), a ring buffer in memory it is given: positions       *)
(* root..out_of_range - 1, the oldest item at start, the next free slot    *)
(* at next.  start is NULL when the queue is empty, so that next = start   *)
(* can mean that it is full.                                               *)
(***************************************************************************)
EXTENDS Integers, Sequences, Memory

CONSTANTS Items, Size,
          NoItem      \* what memory holds before anything is written to it

\* A queue of no slots would hand out the one past its memory.
ASSUME SizeAssumption == Size \in Nat \ {0} /\ NoItem \notin Items

VARIABLES mem, start, next,
          got,          \* the item the last peek or dequeue pointed to
          fault

queue == <<mem, start, next, got, fault>>

root         == 1
out_of_range == root + Size

is_empty == start = NULL

Wrap_Late(p) == IF p > out_of_range THEN root ELSE p   \* mutant: one slot too far
Wrap(p)      == IF p >= out_of_range THEN root ELSE p

Init == /\ mem = [p \in root..out_of_range - 1 |-> NoItem]
        /\ start = NULL
        /\ next = root
        /\ got = NoItem
        /\ fault = NoFault

-----------------------------------------------------------------------------
\* assert(ok), then step
Asserting(ok, why, step) ==
    /\ fault = NoFault
    /\ IF ok THEN step /\ fault' = fault
       ELSE fault' = why /\ UNCHANGED <<mem, start, next, got>>

\* *move_next() = x
MoveNext(x) ==
    Asserting(next # start, "!out_of_space",
              /\ mem' = [mem EXCEPT ![next] = x]
              /\ next' = Wrap(next + 1)
              /\ start' = IF start = NULL THEN next ELSE start
              /\ UNCHANGED got)

\* *peek()
Peek == Asserting(~ is_empty, "!is_empty()",
                  got' = mem[start] /\ UNCHANGED <<mem, start, next>>)

Dequeue_NeverEmpty ==                             \* mutant: start is not reset
    Asserting(~ is_empty, "!is_empty()",
              /\ got' = mem[start]
              /\ start' = Wrap(start + 1)
              /\ UNCHANGED <<mem, next>>)

\* *dequeue(): the slot is read before it can be handed out again
Dequeue == Asserting(~ is_empty, "!is_empty()",
                     /\ got' = mem[start]
                     /\ start' = LET s == Wrap(start + 1)
                                 IN  IF s = next THEN NULL ELSE s
                     /\ UNCHANGED <<mem, next>>)

Clear == Asserting(TRUE, NoFault,
                   start' = NULL /\ next' = root /\ UNCHANGED <<mem, got>>)

Exited == fault # NoFault /\ UNCHANGED queue

Next == (\E x \in Items : MoveNext(x)) \/ Peek \/ Dequeue \/ Clear \/ Exited

Spec == Init /\ [][Next]_queue

-----------------------------------------------------------------------------
(***************************************************************************)
(* Properties.                                                             *)
(***************************************************************************)
Slots == root..out_of_range - 1

TypeOK ==
    /\ mem \in [Slots -> Items \cup {NoItem}]
    /\ start \in Slots \cup {NULL}
    /\ next \in Slots
    /\ got \in Items \cup {NoItem}
    /\ fault \in {NoFault, "!out_of_space", "!is_empty()"}

\* The items from start up to next, once around at most
Length == IF is_empty THEN 0
          ELSE IF next > start THEN next - start ELSE next - start + Size
Slot(k)  == IF start + k - 1 < out_of_range THEN start + k - 1 ELSE start + k - 1 - Size
Contents == [k \in 1..Length |-> mem[Slot(k)]]

F == INSTANCE Fifo WITH items <- Contents, Capacity <- Size, stopped <- fault # NoFault

\* The ring is a bounded queue: wherever its two ends stand, items come out
\* once, in order and unharmed, and it stops only when full or empty.
ImplementsFifo == F!Spec

count_OneMore == out_of_range - start - (next - root) + 1   \* mutant: off by one
count         == (out_of_range - start) - (next - root)

\* count() subtracts what lies before next from what lies after start: of a
\* queue that holds items it is their number only if next stands at root, or
\* just half way round an unwrapped queue.
CountIsLengthAtRoot ==
    ~ is_empty =>
        ((count = Length) <=> (next = root \/ (next > start /\ 2 * (next - root) = Size)))

=============================================================================
