------------------------------- MODULE Memory -------------------------------
(***************************************************************************)
(* Pointers and failures, shared by every module.                          *)
(*                                                                         *)
(* Objects live in arenas that never move or free, so a pointer is the     *)
(* index of its object in a sequence, and NULL is index 0.  A failed       *)
(* assert, like every log::fatalf, ends the process (log.hpp:44-47,        *)
(* log.cpp:55-77): a component is a record with a "fault" field, which     *)
(* the first failure sets and nothing clears, and no operation changes a   *)
(* record whose fault is set.                                              *)
(***************************************************************************)
EXTENDS Naturals

NULL    == 0
NoFault == "none"

\* x becomes next, unless the process has already stopped
Then(x, next) == IF x.fault = NoFault THEN next ELSE x

\* assert(ok) with the message why, then x becomes next
Checked(x, ok, why, next) ==
    Then(x, IF ok THEN next ELSE [x EXCEPT !.fault = why])

=============================================================================
