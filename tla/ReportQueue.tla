----------------------------- MODULE ReportQueue -----------------------------
(***************************************************************************)
(* The reports to a BR/EDR device: uni_hid_device_send_report(), the       *)
(* circular buffer of reports L2CAP could not take, and the retry on       *)
(* L2CAP_EVENT_CAN_SEND_NOW.                                               *)
(*                                                                         *)
(* Everything runs on the btstack task.  L2CAP emits the event from        *)
(* within l2cap_request_can_send_now_event() or when it is notified that   *)
(* HCI has room again, and goes on until no waiting channel can send; this *)
(* is CanSendNow, and every other action waits until that is over (Quiet). *)
(* In the code the event is the last thing each handler does, so that      *)
(* taking the nested calls one after the other loses nothing.              *)
(*                                                                         *)
(* A report is its number; its bytes are left out (all reports are shorter *)
(* than UNI_CIRCULAR_BUFFER_DATA_SIZE and than the MTU of their channel).  *)
(***************************************************************************)
EXTENDS Naturals, Sequences, FiniteSets

CONSTANTS Size,          \* UNI_CIRCULAR_BUFFER_SIZE
          MaxReports,    \* bound: reports issued
          MaxCid         \* bound: channels opened

ASSUME SizeAssumption == Size \in Nat /\ Size >= 2

ASSUME BoundsAssumption == MaxReports \in Nat /\ MaxCid \in Nat

Channels == {"ctrl", "intr"}

VARIABLES
  canSend,     \* hci_can_send_acl_packet_now(): room in HCI for one packet
  cid,         \* conn.control_cid, conn.interrupt_cid; 0 if there is none
  nextCid,     \* l2cap_local_source_cid: the number of the next channel
  waiting,     \* the channels with waiting_for_can_send_now set
  ring,        \* outgoing_buffer: head_idx, tail_idx and buffer
  sent,        \* the reports L2CAP has taken, in order (history)
  issued       \* number of the last report issued (history)

vars == <<canSend, cid, nextCid, waiting, ring, sent, issued>>

-----------------------------------------------------------------------------
(* The circular buffer.                                                    *)

Places == 0 .. Size - 1

After(i) == IF i + 1 = Size THEN 0 ELSE i + 1

Zeroed == [head |-> 0, tail |-> 0, buffer |-> [i \in Places |-> [cid |-> 0, report |-> 0]]]

IsEmpty(r) == r.head = r.tail

\* Mutant: the wrapped case is forgotten.
IsFullUnwrapped(r) == r.tail + 1 = r.head

IsFull(r) == r.tail + 1 = r.head \/ (r.head = 0 /\ r.tail = Size - 1)

\* A full buffer refuses the item; the caller only logs that.
Put(r, item) ==
  IF IsFull(r) THEN r
  ELSE [r EXCEPT !.buffer[r.tail] = item, !.tail = After(r.tail)]

Get(r) == [r EXCEPT !.head = After(r.head)]

-----------------------------------------------------------------------------
Init ==
  /\ canSend \in BOOLEAN
  /\ cid = [k \in Channels |-> 0]
  /\ nextCid = 1
  /\ waiting = {}
  /\ ring = Zeroed
  /\ sent = <<>>
  /\ issued = 0

\* The channels of the device.
Live == {cid[k] : k \in Channels} \ {0}

\* No event to emit: L2CAP is done with its notifications.
Quiet == ~canSend \/ waiting = {}

\* Mutant: the event is asked for only if the report could not be sent.
SendReportAsksOnFailure(r, w, item) ==
  IF canSend /\ item.cid \in Live
    THEN /\ sent' = Append(sent, item.report)
         /\ canSend' = FALSE
         /\ ring' = r
         /\ waiting' = w
    ELSE /\ ring' = Put(r, item)
         /\ UNCHANGED <<sent, canSend>>
         /\ waiting' = w \cup ({item.cid} \cap Live)

\* uni_hid_device_send_report(), with the buffer and the waiting channels at
\* the time of the call.  The HCI transport is asynchronous: a packet keeps
\* the one packet buffer of HCI until the transport has sent it.
SendReport(r, w, item) ==
  /\ IF canSend /\ item.cid \in Live
       THEN /\ sent' = Append(sent, item.report)
            /\ canSend' = FALSE
            /\ ring' = r
       ELSE /\ ring' = Put(r, item)
            /\ UNCHANGED <<sent, canSend>>
  /\ waiting' = w \cup ({item.cid} \cap Live)

\* A parser sends a report on one of the channels.
Send(k) ==
  /\ Quiet
  /\ cid[k] # 0
  /\ issued < MaxReports
  /\ issued' = issued + 1
  /\ SendReport(ring, waiting, [cid |-> cid[k], report |-> issued + 1])
  /\ UNCHANGED <<cid, nextCid>>

\* Mutant: only a report for the channel of the event is taken.
CanSendNowOwnChannel(c) ==
  /\ canSend
  /\ c \in waiting
  /\ IF c \in Live /\ ~IsEmpty(ring) /\ ring.buffer[ring.head].cid = c
       THEN SendReport(Get(ring), waiting \ {c}, ring.buffer[ring.head])
       ELSE waiting' = waiting \ {c} /\ UNCHANGED <<canSend, ring, sent>>
  /\ UNCHANGED <<cid, nextCid, issued>>

\* L2CAP_EVENT_CAN_SEND_NOW.  The report taken from the buffer goes out on the
\* channel it was meant for, which need not be the channel of the event.
CanSendNow(c) ==
  /\ canSend
  /\ c \in waiting
  /\ IF c \in Live /\ ~IsEmpty(ring)
       THEN SendReport(Get(ring), waiting \ {c}, ring.buffer[ring.head])
       ELSE waiting' = waiting \ {c} /\ UNCHANGED <<canSend, ring, sent>>
  /\ UNCHANGED <<cid, nextCid, issued>>

\* HCI has room again; L2CAP is notified.
PacketSent ==
  /\ ~canSend
  /\ canSend' = TRUE
  /\ UNCHANGED <<cid, nextCid, waiting, ring, sent, issued>>

\* Another user of HCI takes the room.
OtherPacket ==
  /\ canSend /\ Quiet
  /\ canSend' = FALSE
  /\ UNCHANGED <<cid, nextCid, waiting, ring, sent, issued>>

\* L2CAP_EVENT_CHANNEL_OPENED: the control channel first, then the interrupt one.
Open(k) ==
  /\ Quiet
  /\ cid[k] = 0
  /\ k = "intr" => cid["ctrl"] # 0
  /\ nextCid <= MaxCid
  /\ cid' = [cid EXCEPT ![k] = nextCid]
  /\ nextCid' = nextCid + 1
  /\ UNCHANGED <<canSend, waiting, ring, sent, issued>>

\* Mutant: the buffer of a deleted device keeps its reports.
DeleteKeepsQueue ==
  /\ Quiet
  /\ Live # {}
  /\ cid' = [k \in Channels |-> 0]
  /\ UNCHANGED <<canSend, nextCid, waiting, ring, sent, issued>>

\* The device is disconnected and deleted; its place is for another device.
\* L2CAP still has the channels, and some may still wait to send.
Delete ==
  /\ Quiet
  /\ Live # {}
  /\ cid' = [k \in Channels |-> 0]
  /\ ring' = Zeroed
  /\ UNCHANGED <<canSend, nextCid, waiting, sent, issued>>

\* L2CAP frees a channel of a deleted device.
Freed(c) ==
  /\ Quiet
  /\ c \in waiting \ Live
  /\ waiting' = waiting \ {c}
  /\ UNCHANGED <<canSend, cid, nextCid, ring, sent, issued>>

Next ==
  \/ \E k \in Channels : Send(k) \/ Open(k)
  \/ \E c \in waiting : CanSendNow(c) \/ Freed(c)
  \/ PacketSent
  \/ OtherPacket
  \/ Delete

\* L2CAP emits the event at once; the transport tells when it has sent a packet.
Fairness ==
  /\ WF_vars(\E c \in waiting : CanSendNow(c))
  /\ WF_vars(PacketSent)

Spec == Init /\ [][Next]_vars

FairSpec == Spec /\ Fairness

-----------------------------------------------------------------------------
(* Properties.                                                             *)

Count(r) == IF r.tail >= r.head THEN r.tail - r.head ELSE r.tail + Size - r.head

At(r, i) == IF r.head + i <= Size THEN r.head + i - 1 ELSE r.head + i - 1 - Size

\* The reports in the buffer, oldest first.
Pending(r) == [i \in 1 .. Count(r) |-> r.buffer[At(r, i)].report]

Item == [cid : Nat, report : Nat]

\* The types of the variables.
TypeOK ==
  /\ canSend \in BOOLEAN
  /\ cid \in [Channels -> Nat]
  /\ nextCid \in Nat \ {0}
  /\ waiting \subseteq Nat
  /\ ring \in [head : Places, tail : Places, buffer : [Places -> Item]]
  /\ sent \in Seq(Nat)
  /\ issued \in Nat

\* Whenever a report is queued, a channel of the device waits for the event
\* that takes it out: uni_hid_device.c:818 asks for the event even after a
\* report was sent ("Is this really needed?").
SomeoneWaits == ~IsEmpty(ring) => waiting \cap Live # {}

\* Every queued report is for a channel the device has, so that the retry of
\* a report is its last: it is never put back behind later ones.
QueuedForLive == \A i \in 1 .. Count(ring) : ring.buffer[At(ring, i)].cid \in Live

\* The inductive invariant.
QueueInv ==
  /\ TypeOK
  /\ \A k \in Channels : cid[k] < nextCid
  /\ \A c \in waiting : c # 0 /\ c < nextCid
  /\ SomeoneWaits
  /\ QueuedForLive

Line == INSTANCE ReportLine WITH pending <- Pending(ring), Places <- Size - 1

\* Reports go out in the order they were issued, whichever channel they take,
\* and each is lost only to a full buffer or a deletion.
LineSpec == Line!Spec

\* A queued report leaves the buffer: it is sent, or its device is deleted.
QueueDrains ==
  \A n \in 1 .. MaxReports :
    (\E i \in 1 .. Count(ring) : Pending(ring)[i] = n)
      ~> ~(\E i \in 1 .. Count(ring) : Pending(ring)[i] = n)

==============================================================================
