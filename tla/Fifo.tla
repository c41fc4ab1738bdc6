-------------------------------- MODULE Fifo --------------------------------
(***************************************************************************)
(* What a queue promises: the items given and not yet taken, in the order  *)
(* they were given, at most Capacity of them.  It stops when it is given   *)
(* one more, or asked for one it does not have.                            *)
(***************************************************************************)
EXTENDS Naturals, Sequences

CONSTANTS Items, Capacity, NoItem

VARIABLES items, got, stopped

fifo == <<items, got, stopped>>

Init == items = <<>> /\ got = NoItem /\ stopped = FALSE

Give(x)  == /\ Len(items) < Capacity
            /\ items' = Append(items, x)
            /\ UNCHANGED <<got, stopped>>
Look     == /\ items # <<>>
            /\ got' = Head(items)
            /\ UNCHANGED <<items, stopped>>
Take     == /\ items # <<>>
            /\ got' = Head(items)
            /\ items' = Tail(items)
            /\ UNCHANGED stopped
Clear    == items' = <<>> /\ UNCHANGED <<got, stopped>>
Refuse   == /\ items = <<>> \/ Len(items) = Capacity
            /\ stopped' = TRUE
            /\ UNCHANGED <<items, got>>

Next == ~ stopped /\ ((\E x \in Items : Give(x)) \/ Look \/ Take \/ Clear \/ Refuse)

Spec == Init /\ [][Next]_fifo

=============================================================================
