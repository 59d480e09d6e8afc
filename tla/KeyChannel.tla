----------------------------- MODULE KeyChannel -----------------------------
(***************************************************************************)
(* What the PS/2 keyboard device promises to the application: a bounded    *)
(* FIFO of scan-code packets.  A packet may be refused when it is offered  *)
(* (queue full, reporting disabled), which changes nothing here; once it   *)
(* is accepted it is put on the bus after every packet accepted before it, *)
(* exactly once and never mixed with another one.                          *)
(*                                                                         *)
(* Ps2Keyboard implements this specification.                              *)
(***************************************************************************)
EXTENDS Naturals, Sequences

CONSTANTS
    Packets,    \* the packets an application can offer
    Capacity    \* accepted packets that can wait for the bus

VARIABLES
    pending,    \* accepted packets not yet transmitted, oldest first
    out         \* packets that had their turn on the bus, oldest first

vars == <<pending, out>>

TypeOK ==
    /\ pending \in Seq(Packets)
    /\ Len(pending) <= Capacity
    /\ out \in Seq(Packets)

Init ==
    /\ pending = <<>>
    /\ out = <<>>

Accept(p) ==
    /\ Len(pending) < Capacity
    /\ pending' = Append(pending, p)
    /\ out' = out

Transmit ==
    /\ pending # <<>>
    /\ out' = Append(out, Head(pending))
    /\ pending' = Tail(pending)

Next ==
    \/ \E p \in Packets : Accept(p)
    \/ Transmit

Spec == Init /\ [][Next]_vars
=============================================================================
