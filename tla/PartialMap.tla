----------------------------- MODULE PartialMap -----------------------------
(***************************************************************************)
(* What the maps promise: each is a partial function of its own, that      *)
(* takes a key once and keeps what it was given.  A second value for a key *)
(* stops the process; so may a lack of room, at any time.                  *)
(***************************************************************************)
CONSTANTS Maps, Keys, Values, NoValue

VARIABLES contents, found, stopped

Init == /\ contents = [m \in Maps |-> [k \in Keys |-> NoValue]]
        /\ found = NoValue
        /\ stopped = "no"

Add == \E m \in Maps, k \in Keys, v \in Values :
          /\ contents[m][k] = NoValue
          /\ contents' = [contents EXCEPT ![m][k] = v]
          /\ UNCHANGED <<found, stopped>>

Ask == found' = NoValue /\ UNCHANGED <<contents, stopped>>

Get == \E m \in Maps, k \in Keys :
          /\ found' = contents[m][k]
          /\ UNCHANGED <<contents, stopped>>

Refuse == /\ \E m \in Maps, k \in Keys : contents[m][k] # NoValue
          /\ stopped' = "duplicate"
          /\ UNCHANGED <<contents, found>>

RunOut == stopped' = "no room" /\ UNCHANGED <<contents, found>>

Next == stopped = "no" /\ (Ask \/ Add \/ Get \/ Refuse \/ RunOut)

Spec == Init /\ [][Next]_<<contents, found, stopped>>

=============================================================================
