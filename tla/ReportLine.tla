----------------------------- MODULE ReportLine -----------------------------
(***************************************************************************)
(* What the report queue of a device promises to the parser that issues    *)
(* the reports: they go out in the order they were issued.  A report goes  *)
(* out at once only if none waits; it waits in one of `Places' places; it  *)
(* is lost only if all places are taken or the device is deleted.          *)
(***************************************************************************)
EXTENDS Naturals, Sequences

CONSTANT Places

VARIABLES pending,     \* the reports that wait, oldest first
          sent,        \* the reports handed to L2CAP, in order
          issued       \* number of the last report issued

Init == pending = <<>> /\ sent = <<>> /\ issued = 0

\* A report is issued: sent, kept, or dropped because the places are taken.
Issue ==
  /\ issued' = issued + 1
  /\ \/ pending = <<>> /\ sent' = Append(sent, issued + 1) /\ UNCHANGED pending
     \/ /\ Len(pending) < Places
        /\ pending' = Append(pending, issued + 1)
        /\ UNCHANGED sent
     \/ Len(pending) = Places /\ UNCHANGED <<pending, sent>>

\* The oldest report goes out.
Transmit ==
  /\ pending # <<>>
  /\ sent' = Append(sent, Head(pending))
  /\ pending' = Tail(pending)
  /\ UNCHANGED issued

\* The device is deleted.
Clear == pending' = <<>> /\ UNCHANGED <<sent, issued>>

Next == Issue \/ Transmit \/ Clear

vars == <<pending, sent, issued>>

Spec == Init /\ [][Next]_vars
=============================================================================
