------------------------------ MODULE KeyLine ------------------------------
(***************************************************************************)
(* What the keyboard line is to the application: make and break codes wait *)
(* in a bounded FIFO and go out one by one, whole or torn by a busy bus.   *)
(* A key is down if the last of its codes that went out whole is a make    *)
(* code; what the host makes of a torn code is not modelled.               *)
(*                                                                         *)
(* Ps2Keyboard implements this specification; Sketch is built on it.       *)
(***************************************************************************)
EXTENDS Naturals, Sequences

CONSTANTS
    Keys,       \* the keys of the keyboard
    Capacity    \* codes that can wait, the one on the bus included

VARIABLES
    pending,    \* codes not yet on the wire, oldest first
    down        \* the keys whose last whole code was a make code

vars == <<pending, down>>

Events == [key : Keys, down : BOOLEAN]

TypeOK ==
    /\ pending \in Seq(Events)
    /\ Len(pending) <= Capacity
    /\ down \subseteq Keys

Init == pending = <<>> /\ down = {}

Accept(e) ==
    /\ Len(pending) < Capacity
    /\ pending' = Append(pending, e)
    /\ UNCHANGED down

\* The whole code goes out ...
Deliver ==
    /\ pending # <<>>
    /\ LET e == Head(pending)
       IN  down' = IF e.down THEN down \cup {e.key} ELSE down \ {e.key}
    /\ pending' = Tail(pending)

\* ... or a busy bus loses a byte of it.
Lose ==
    /\ pending # <<>>
    /\ pending' = Tail(pending)
    /\ UNCHANGED down

Next ==
    \/ \E e \in Events : Accept(e)
    \/ Deliver
    \/ Lose

Spec == Init /\ [][Next]_vars
=============================================================================
