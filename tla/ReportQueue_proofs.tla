-------------------------- MODULE ReportQueue_proofs --------------------------
(***************************************************************************)
(* Proofs about ReportQueue, for every size of the buffer: its inductive   *)
(* invariant, and that it implements ReportLine.                           *)
(***************************************************************************)
EXTENDS ReportQueue, SequenceTheorems, TLAPS

Ring == [head : Places, tail : Places, buffer : [Places -> Item]]

-----------------------------------------------------------------------------
(* Lemmas about the circular buffer.                                       *)

\* The buffer holds at most Size - 1 items, that many when put refuses one.
LEMMA CountBounds ==
  ASSUME NEW r \in Ring
  PROVE  /\ Count(r) \in 0 .. Size - 1
         /\ IsFull(r) <=> Count(r) = Size - 1
         /\ IsEmpty(r) <=> Count(r) = 0
         /\ \A i \in 1 .. Count(r) : At(r, i) \in Places
BY SizeAssumption DEF Ring, Places, Count, IsFull, IsEmpty, At

\* uni_circular_buffer_put() adds the item at the end and keeps the others.
LEMMA PutAppends ==
  ASSUME NEW r \in Ring, NEW item \in Item, ~IsFull(r)
  PROVE  /\ Put(r, item) \in Ring
         /\ Count(Put(r, item)) = Count(r) + 1
         /\ \A i \in 1 .. Count(r) :
              Put(r, item).buffer[At(Put(r, item), i)] = r.buffer[At(r, i)]
         /\ Put(r, item).buffer[At(Put(r, item), Count(r) + 1)] = item
<1> DEFINE p == Put(r, item)
<1>1. /\ p = [r EXCEPT !.buffer[r.tail] = item, !.tail = After(r.tail)]
      /\ r.head \in Places /\ r.tail \in Places /\ r.buffer \in [Places -> Item]
  BY DEF Put, Ring
<1>2. /\ p.head = r.head /\ p.tail = After(r.tail)
      /\ p.buffer = [r.buffer EXCEPT ![r.tail] = item]
      /\ p = [head |-> p.head, tail |-> p.tail, buffer |-> p.buffer]
  BY <1>1 DEF Ring
<1>3. After(r.tail) \in Places
  BY <1>1, SizeAssumption DEF After, Places
<1>4. p \in Ring
  BY <1>1, <1>2, <1>3 DEF Ring
<1>5. Count(p) = Count(r) + 1
  <2>1. /\ r.head \in Nat /\ r.tail \in Nat /\ r.head < Size /\ r.tail < Size
        /\ r.tail + 1 # r.head /\ ~(r.head = 0 /\ r.tail + 1 = Size)
    BY <1>1, SizeAssumption DEF Places, IsFull
  <2>2. Count(p) = IF After(r.tail) >= r.head THEN After(r.tail) - r.head
                   ELSE After(r.tail) + Size - r.head
    BY <1>2 DEF Count
  <2>3. Count(r) = IF r.tail >= r.head THEN r.tail - r.head ELSE r.tail + Size - r.head
    BY DEF Count
  <2>4. CASE r.tail + 1 = Size
    BY <2>1, <2>2, <2>3, <2>4, SizeAssumption DEF After
  <2>5. CASE r.tail + 1 # Size
    BY <2>1, <2>2, <2>3, <2>5, SizeAssumption DEF After
  <2> QED
    BY <2>4, <2>5
<1>6. \A i \in 1 .. Count(r) : At(p, i) = At(r, i) /\ At(r, i) \in Places /\ At(r, i) # r.tail
  BY <1>1, <1>2, SizeAssumption DEF Count, At, Places
<1>7. At(p, Count(r) + 1) = r.tail
  BY <1>1, <1>2, SizeAssumption DEF Count, At, Places, IsFull
<1> HIDE DEF p
<1>8. \A i \in 1 .. Count(r) : p.buffer[At(p, i)] = r.buffer[At(r, i)]
  BY <1>1, <1>2, <1>6
<1>9. p.buffer[At(p, Count(r) + 1)] = item
  BY <1>1, <1>2, <1>7
<1> QED
  BY <1>4, <1>5, <1>8, <1>9 DEF p

\* uni_circular_buffer_get() removes the first item and keeps the others.
LEMMA GetRemoves ==
  ASSUME NEW r \in Ring, ~IsEmpty(r)
  PROVE  /\ Get(r) \in Ring
         /\ Count(Get(r)) = Count(r) - 1
         /\ At(r, 1) = r.head
         /\ \A i \in 1 .. Count(r) - 1 :
              /\ At(Get(r), i) = At(r, i + 1)
              /\ Get(r).buffer[At(Get(r), i)] = r.buffer[At(r, i + 1)]
<1>1. /\ r.head \in Places /\ r.tail \in Places /\ r.buffer \in [Places -> Item]
      /\ Get(r).head = After(r.head) /\ Get(r).tail = r.tail /\ Get(r).buffer = r.buffer
      /\ Get(r) = [head |-> Get(r).head, tail |-> Get(r).tail, buffer |-> Get(r).buffer]
  BY DEF Get, Ring
<1>2. After(r.head) \in Places
  BY <1>1, SizeAssumption DEF After, Places
<1>3. Get(r) \in Ring
  BY <1>1, <1>2 DEF Ring
<1>4. Count(Get(r)) = Count(r) - 1
  BY <1>1, SizeAssumption DEF Count, After, Places, IsEmpty
<1>5. At(r, 1) = r.head
  BY <1>1, SizeAssumption DEF At, Places
<1>6. \A i \in 1 .. Count(r) - 1 : At(Get(r), i) = At(r, i + 1)
  <2> SUFFICES ASSUME NEW i \in 1 .. Count(r) - 1
               PROVE  At(Get(r), i) = At(r, i + 1)
    OBVIOUS
  <2>1. i \in Nat /\ 0 < i /\ i < Size
    BY CountBounds, SizeAssumption
  <2>2. CASE r.head + 1 = Size
    BY <1>1, <2>1, <2>2, SizeAssumption DEF At, After, Places
  <2>3. CASE r.head + 1 # Size
    <3>1. r.head \in Nat /\ Get(r).head = r.head + 1
      BY <1>1, <2>3, SizeAssumption DEF After, Places
    <3>2. At(Get(r), i) = IF Get(r).head + i <= Size THEN Get(r).head + i - 1
                          ELSE Get(r).head + i - 1 - Size
      BY DEF At
    <3>3. At(r, i + 1) = IF r.head + (i + 1) <= Size THEN r.head + (i + 1) - 1
                         ELSE r.head + (i + 1) - 1 - Size
      BY DEF At
    <3> QED
      BY <2>1, <3>1, <3>2, <3>3, SizeAssumption
  <2> QED
    BY <2>2, <2>3
<1> QED
  BY <1>1, <1>3, <1>4, <1>5, <1>6

-----------------------------------------------------------------------------
(* The inductive invariant.                                                *)

\* The reports in the buffer, oldest first, form a sequence of numbers.
LEMMA PendingType ==
  ASSUME NEW r \in Ring
  PROVE  /\ Pending(r) \in Seq(Nat)
         /\ Len(Pending(r)) = Count(r)
         /\ \A i \in 1 .. Count(r) : Pending(r)[i] = r.buffer[At(r, i)].report
<1>1. Count(r) \in Nat /\ \A i \in 1 .. Count(r) : r.buffer[At(r, i)].report \in Nat
  BY CountBounds, SizeAssumption DEF Ring, Item
<1>2. Pending(r) \in [1 .. Count(r) -> Nat]
  BY <1>1 DEF Pending
<1> QED
  BY <1>1, <1>2 DEF Pending

\* What uni_hid_device_send_report() does for a channel of the device: the
\* report goes out or into the buffer, and the channel waits for the event.
LEMMA SendReportKeeps ==
  ASSUME QueueInv,
         NEW r \in Ring, NEW w \in SUBSET Nat, NEW item \in Item,
         item.cid \in Live,
         \A i \in 1 .. Count(r) : r.buffer[At(r, i)].cid \in Live,
         SendReport(r, w, item)
  PROVE  /\ ring' \in Ring /\ sent' \in Seq(Nat) /\ canSend' \in BOOLEAN
         /\ waiting' = w \cup {item.cid}
         /\ \A i \in 1 .. Count(ring') : ring'.buffer[At(ring', i)].cid \in Live
<1>1. waiting' = w \cup {item.cid}
  BY DEF SendReport
<1>2. CASE canSend
  <2>1. sent' = Append(sent, item.report) /\ canSend' = FALSE /\ ring' = r
    BY <1>2 DEF SendReport
  <2>2. sent' \in Seq(Nat)
    BY <2>1 DEF QueueInv, TypeOK, Item
  <2> QED
    BY <1>1, <2>1, <2>2
<1>3. CASE ~canSend
  <2>1. ring' = Put(r, item) /\ UNCHANGED <<sent, canSend>>
    BY <1>3 DEF SendReport
  <2>2. CASE IsFull(r)
    BY <1>1, <2>1, <2>2 DEF Put, QueueInv, TypeOK
  <2>3. CASE ~IsFull(r)
    <3>1. Count(r) \in Nat
      BY CountBounds, SizeAssumption
    <3>2. \A i \in 1 .. Count(r) + 1 : i \in 1 .. Count(r) \/ i = Count(r) + 1
      BY <3>1
    <3> QED
      BY <1>1, <2>1, <2>3, <3>2, PutAppends DEF QueueInv, TypeOK
  <2> QED
    BY <2>2, <2>3
<1> QED
  BY <1>2, <1>3 DEF QueueInv, TypeOK

\* The invariant holds in the initial states.
LEMMA InitInv == Init => QueueInv
<1> SUFFICES ASSUME Init PROVE QueueInv
  OBVIOUS
<1>1. Zeroed \in Ring /\ IsEmpty(Zeroed) /\ Count(Zeroed) = 0
  BY SizeAssumption DEF Zeroed, Ring, Places, Item, IsEmpty, Count
<1>2. TypeOK
  BY <1>1, EmptySeq DEF Init, TypeOK, Ring
<1> QED
  BY <1>1, <1>2 DEF Init, QueueInv, SomeoneWaits, QueuedForLive

\* Every step keeps the invariant.
LEMMA NextInv == QueueInv /\ [Next]_vars => QueueInv'
<1> SUFFICES ASSUME QueueInv, [Next]_vars PROVE QueueInv'
  OBVIOUS
<1> USE DEF Channels
<1>t. /\ TypeOK /\ SomeoneWaits /\ QueuedForLive
      /\ ring \in Ring
      /\ \A k \in Channels : cid[k] \in Nat /\ cid[k] < nextCid
      /\ nextCid \in Nat /\ 0 < nextCid
      /\ \A c \in waiting : c # 0 /\ c < nextCid
  BY DEF QueueInv, TypeOK, Ring
<1>l. \A c \in Live : c \in Nat /\ c # 0 /\ c < nextCid
  BY <1>t DEF Live
<1>1. ASSUME NEW k \in Channels, Send(k) PROVE QueueInv'
  <2> DEFINE item == [cid |-> cid[k], report |-> issued + 1]
  <2>1. item \in Item /\ item.cid \in Live /\ issued' \in Nat
    BY <1>1, <1>t DEF Send, Item, Live, TypeOK
  <2>2. SendReport(ring, waiting, item) /\ UNCHANGED <<cid, nextCid>>
    BY <1>1 DEF Send
  <2> HIDE DEF item
  <2>3. /\ ring' \in Ring /\ sent' \in Seq(Nat) /\ canSend' \in BOOLEAN
        /\ waiting' = waiting \cup {item.cid}
        /\ \A i \in 1 .. Count(ring') : ring'.buffer[At(ring', i)].cid \in Live
    BY <1>t, <2>1, <2>2, SendReportKeeps DEF QueuedForLive, TypeOK
  <2>4. Live' = Live
    BY <2>2 DEF Live
  <2>5. TypeOK'
    BY <1>t, <1>l, <2>1, <2>2, <2>3 DEF TypeOK, Ring
  <2>6. SomeoneWaits'
    BY <2>1, <2>3, <2>4 DEF SomeoneWaits
  <2>7. QueuedForLive'
    BY <2>3, <2>4 DEF QueuedForLive
  <2> QED
    BY <1>t, <1>l, <2>1, <2>2, <2>3, <2>5, <2>6, <2>7 DEF QueueInv
<1>2. ASSUME NEW k \in Channels, Open(k) PROVE QueueInv'
  <2>1. /\ cid' = [cid EXCEPT ![k] = nextCid] /\ nextCid' = nextCid + 1 /\ cid[k] = 0
        /\ UNCHANGED <<canSend, waiting, ring, sent, issued>>
    BY <1>2 DEF Open
  <2>2. Live \subseteq Live'
    BY <1>t, <2>1 DEF Live, TypeOK
  <2>3. TypeOK'
    BY <1>t, <2>1 DEF TypeOK
  <2>4. \A j \in Channels : cid'[j] < nextCid'
    BY <1>t, <2>1 DEF TypeOK
  <2>5. \A c \in waiting : c \in Nat
    BY <1>t DEF TypeOK
  <2> QED
    BY <1>t, <2>1, <2>2, <2>3, <2>4, <2>5 DEF QueueInv, SomeoneWaits, QueuedForLive
<1>3. ASSUME NEW c \in waiting, CanSendNow(c) PROVE QueueInv'
  <2>1. UNCHANGED <<cid, nextCid, issued>> /\ canSend
    BY <1>3 DEF CanSendNow
  <2>2. Live' = Live
    BY <2>1 DEF Live
  <2>3. CASE c \in Live /\ ~IsEmpty(ring)
    <3> DEFINE item == ring.buffer[ring.head]
    <3>1. SendReport(Get(ring), waiting \ {c}, item)
      BY <1>3, <2>3 DEF CanSendNow
    <3>2. Count(ring) \in Nat \ {0}
      BY <1>t, <2>3, CountBounds, SizeAssumption
    <3>3. item \in Item /\ item.cid \in Live
      <4>1. ring.buffer[At(ring, 1)].cid \in Live
        BY <1>t, <3>2 DEF QueuedForLive
      <4> QED
        BY <1>t, <2>3, <4>1, GetRemoves DEF Ring
    <3>4. /\ Get(ring) \in Ring
          /\ \A i \in 1 .. Count(Get(ring)) : Get(ring).buffer[At(Get(ring), i)].cid \in Live
      <4>1. \A i \in 1 .. Count(ring) - 1 : i + 1 \in 1 .. Count(ring)
        BY <3>2
      <4> QED
        BY <1>t, <2>3, <4>1, GetRemoves DEF QueuedForLive
    <3> HIDE DEF item
    <3>5. waiting \ {c} \in SUBSET Nat
      BY <1>t DEF TypeOK
    <3>6. /\ ring' \in Ring /\ sent' \in Seq(Nat) /\ canSend' \in BOOLEAN
          /\ waiting' = (waiting \ {c}) \cup {item.cid}
          /\ \A i \in 1 .. Count(ring') : ring'.buffer[At(ring', i)].cid \in Live
      BY <3>1, <3>3, <3>4, <3>5, SendReportKeeps
    <3>7. TypeOK'
      BY <1>t, <1>l, <2>1, <3>3, <3>6 DEF TypeOK, Ring
    <3>8. SomeoneWaits'
      BY <2>2, <3>3, <3>6 DEF SomeoneWaits
    <3>9. QueuedForLive'
      BY <2>2, <3>6 DEF QueuedForLive
    <3> QED
      BY <1>t, <1>l, <2>1, <3>3, <3>6, <3>7, <3>8, <3>9 DEF QueueInv
  <2>4. CASE ~(c \in Live /\ ~IsEmpty(ring))
    <3>1. waiting' = waiting \ {c} /\ UNCHANGED <<canSend, ring, sent>>
      BY <1>3, <2>4 DEF CanSendNow
    <3>2. TypeOK'
      BY <1>t, <2>1, <3>1 DEF TypeOK
    <3>3. SomeoneWaits'
      BY <1>t, <2>2, <2>4, <3>1 DEF SomeoneWaits
    <3>4. QueuedForLive'
      BY <1>t, <2>2, <3>1 DEF QueuedForLive
    <3> QED
      BY <1>t, <2>1, <3>1, <3>2, <3>3, <3>4 DEF QueueInv
  <2> QED
    BY <2>3, <2>4
<1>4. ASSUME NEW c \in waiting, Freed(c) PROVE QueueInv'
  <2>1. /\ c \notin Live /\ waiting' = waiting \ {c}
        /\ UNCHANGED <<canSend, cid, nextCid, ring, sent, issued>>
    BY <1>4 DEF Freed
  <2>2. Live' = Live
    BY <2>1 DEF Live
  <2> QED
    BY <1>t, <2>1, <2>2 DEF QueueInv, TypeOK, SomeoneWaits, QueuedForLive
<1>5. CASE PacketSent
  BY <1>5, <1>t DEF PacketSent, QueueInv, TypeOK, SomeoneWaits, QueuedForLive, Live
<1>6. CASE OtherPacket
  BY <1>6, <1>t DEF OtherPacket, QueueInv, TypeOK, SomeoneWaits, QueuedForLive, Live
<1>7. CASE Delete
  <2>1. /\ cid' = [k \in Channels |-> 0] /\ ring' = Zeroed
        /\ UNCHANGED <<canSend, nextCid, waiting, sent, issued>>
    BY <1>7 DEF Delete
  <2>2. Zeroed \in Ring /\ IsEmpty(Zeroed) /\ Count(Zeroed) = 0
    BY SizeAssumption DEF Zeroed, Ring, Places, Item, IsEmpty, Count
  <2>3. TypeOK'
    BY <1>t, <2>1, <2>2 DEF TypeOK, Ring
  <2>4. SomeoneWaits' /\ QueuedForLive'
    BY <2>1, <2>2 DEF SomeoneWaits, QueuedForLive
  <2> QED
    BY <1>t, <2>1, <2>3, <2>4 DEF QueueInv
<1>8. CASE UNCHANGED vars
  BY <1>8, <1>t DEF vars, QueueInv, TypeOK, SomeoneWaits, QueuedForLive, Live
<1> QED
  BY <1>1, <1>2, <1>3, <1>4, <1>5, <1>6, <1>7, <1>8 DEF Next

\* QueueInv is an invariant for every size of the buffer: whenever a report
\* is queued some channel of its device waits for the event, and every queued
\* report is for a channel the device has.
THEOREM Inductive == Spec => []QueueInv
<1> QED
  BY InitInv, NextInv, PTL DEF Spec

\* A queued report never waits for an event nobody has asked for.
THEOREM AlwaysSomeoneWaits == Spec => []SomeoneWaits
<1>1. QueueInv => SomeoneWaits
  BY DEF QueueInv
<1> QED
  BY <1>1, Inductive, PTL

-----------------------------------------------------------------------------
(* The queue implements ReportLine.                                        *)

\* Without items nothing is pending.
LEMMA PendingEmpty ==
  ASSUME NEW r \in Ring
  PROVE  IsEmpty(r) <=> Pending(r) = <<>>
BY CountBounds, PendingType, SizeAssumption

\* Put adds a report at the end of the pending ones.
LEMMA PendingPut ==
  ASSUME NEW r \in Ring, NEW item \in Item, ~IsFull(r)
  PROVE  Pending(Put(r, item)) = Append(Pending(r), item.report)
<1> DEFINE p == Put(r, item)
<1>1. p \in Ring /\ Count(p) = Count(r) + 1 /\ Count(r) \in Nat
  BY PutAppends, CountBounds, SizeAssumption
<1>2. /\ \A i \in 1 .. Count(r) : p.buffer[At(p, i)] = r.buffer[At(r, i)]
      /\ p.buffer[At(p, Count(r) + 1)] = item
  BY PutAppends
<1> HIDE DEF p
<1>3. /\ Pending(r) \in Seq(Nat) /\ Len(Pending(r)) = Count(r)
      /\ \A i \in 1 .. Count(r) : Pending(r)[i] = r.buffer[At(r, i)].report
  BY PendingType
<1>4. /\ Pending(p) \in Seq(Nat) /\ Len(Pending(p)) = Count(p)
      /\ \A i \in 1 .. Count(p) : Pending(p)[i] = p.buffer[At(p, i)].report
  BY <1>1, PendingType
<1>5. item.report \in Nat
  BY DEF Item
<1>6. Append(Pending(r), item.report) \in Seq(Nat)
  BY <1>3, <1>5
<1>7. ASSUME NEW i \in 1 .. Count(p)
      PROVE  Pending(p)[i] = Append(Pending(r), item.report)[i]
  <2>0. i \in 1 .. Count(r) \/ i = Count(r) + 1
    BY <1>1
  <2>1. CASE i \in 1 .. Count(r)
    <3>1. Append(Pending(r), item.report)[i] = Pending(r)[i]
      BY <1>3, <1>5, <2>1
    <3> QED
      BY <1>2, <1>3, <1>4, <2>1, <3>1
  <2>2. CASE i = Count(r) + 1
    <3>1. Append(Pending(r), item.report)[i] = item.report
      BY <1>3, <1>5, <2>2
    <3> QED
      BY <1>2, <1>4, <2>2, <3>1
  <2> QED
    BY <2>0, <2>1, <2>2
<1>8. Len(Append(Pending(r), item.report)) = Count(p)
  BY <1>1, <1>3, <1>5
<1>9. Pending(p) = Append(Pending(r), item.report)
  BY <1>4, <1>6, <1>7, <1>8, SeqEqual
<1> QED
  BY <1>9 DEF p

\* Get takes the oldest of the pending reports.
LEMMA PendingGet ==
  ASSUME NEW r \in Ring, ~IsEmpty(r)
  PROVE  /\ Pending(r) # <<>>
         /\ Head(Pending(r)) = r.buffer[r.head].report
         /\ Pending(Get(r)) = Tail(Pending(r))
<1>1. Count(r) \in Nat /\ Count(r) > 0
  BY CountBounds, SizeAssumption
<1>2. /\ Get(r) \in Ring /\ Count(Get(r)) = Count(r) - 1 /\ At(r, 1) = r.head
      /\ \A i \in 1 .. Count(r) - 1 : Get(r).buffer[At(Get(r), i)] = r.buffer[At(r, i + 1)]
  BY GetRemoves
<1>3. /\ Pending(r) \in Seq(Nat) /\ Len(Pending(r)) = Count(r)
      /\ \A i \in 1 .. Count(r) : Pending(r)[i] = r.buffer[At(r, i)].report
  BY PendingType
<1>4. /\ Pending(Get(r)) \in Seq(Nat) /\ Len(Pending(Get(r))) = Count(Get(r))
      /\ \A i \in 1 .. Count(Get(r)) : Pending(Get(r))[i] = Get(r).buffer[At(Get(r), i)].report
  BY <1>2, PendingType
<1>5. Pending(r) # <<>> /\ Head(Pending(r)) = Pending(r)[1]
  BY <1>1, <1>3
<1>6. Head(Pending(r)) = r.buffer[r.head].report
  BY <1>1, <1>2, <1>3, <1>5
<1>7. /\ Tail(Pending(r)) \in Seq(Nat) /\ Len(Tail(Pending(r))) = Count(r) - 1
      /\ \A i \in 1 .. Count(r) - 1 : Tail(Pending(r))[i] = Pending(r)[i + 1]
  BY <1>1, <1>3, <1>5
<1>8. \A i \in 1 .. Count(r) - 1 : i + 1 \in 1 .. Count(r)
  BY <1>1
<1>9. \A i \in 1 .. Count(r) - 1 : Pending(Get(r))[i] = Tail(Pending(r))[i]
  BY <1>2, <1>3, <1>4, <1>7, <1>8
<1>10. Pending(Get(r)) = Tail(Pending(r))
  BY <1>2, <1>4, <1>7, <1>9, SeqEqual
<1> QED
  BY <1>5, <1>6, <1>10

\* Every step of the queue is a step of the line or leaves it unchanged.
LEMMA LineStep == QueueInv /\ [Next]_vars => [Line!Next]_(Line!vars)
<1> SUFFICES ASSUME QueueInv, [Next]_vars PROVE [Line!Next]_(Line!vars)
  OBVIOUS
<1> USE DEF Channels
<1>t. /\ TypeOK /\ SomeoneWaits /\ QueuedForLive
      /\ ring \in Ring /\ Pending(ring) \in Seq(Nat) /\ issued \in Nat
  BY PendingType DEF QueueInv, TypeOK, Ring
<1>1. ASSUME NEW k \in Channels, Send(k) PROVE Line!Issue
  <2> DEFINE item == [cid |-> cid[k], report |-> issued + 1]
  <2>1. /\ item \in Item /\ item.cid \in Live /\ item.report = issued + 1
        /\ issued' = issued + 1 /\ Quiet
    BY <1>1, <1>t DEF Send, Item, Live, TypeOK
  <2>2. SendReport(ring, waiting, item)
    BY <1>1 DEF Send
  <2> HIDE DEF item
  <2>3. CASE canSend
    <3>1. waiting = {}
      BY <2>1, <2>3 DEF Quiet
    <3>2. Pending(ring) = <<>>
      BY <1>t, <3>1, PendingEmpty DEF SomeoneWaits
    <3>3. sent' = Append(sent, issued + 1) /\ ring' = ring
      BY <2>1, <2>2, <2>3 DEF SendReport
    <3> QED
      BY <2>1, <3>2, <3>3 DEF Line!Issue
  <2>4. CASE ~canSend /\ IsFull(ring)
    <3>1. ring' = ring /\ sent' = sent
      BY <2>2, <2>4 DEF SendReport, Put
    <3>2. Len(Pending(ring)) = Size - 1
      BY <1>t, <2>4, CountBounds, PendingType
    <3> QED
      BY <2>1, <3>1, <3>2 DEF Line!Issue
  <2>5. CASE ~canSend /\ ~IsFull(ring)
    <3>1. ring' = Put(ring, item) /\ sent' = sent
      BY <2>2, <2>5 DEF SendReport
    <3>2. Pending(ring') = Append(Pending(ring), issued + 1)
      BY <1>t, <2>1, <2>5, <3>1, PendingPut
    <3>3. Len(Pending(ring)) < Size - 1
      BY <1>t, <2>5, CountBounds, PendingType, SizeAssumption
    <3> QED
      BY <2>1, <3>1, <3>2, <3>3 DEF Line!Issue
  <2> QED
    BY <2>3, <2>4, <2>5
<1>2. ASSUME NEW c \in waiting, CanSendNow(c)
      PROVE  Line!Transmit \/ UNCHANGED <<ring, sent, issued>>
  <2>1. UNCHANGED <<cid, nextCid, issued>> /\ canSend
    BY <1>2 DEF CanSendNow
  <2>2. CASE c \in Live /\ ~IsEmpty(ring)
    <3>1. Count(ring) \in Nat \ {0}
      BY <1>t, <2>2, CountBounds, SizeAssumption
    <3>2. ring.buffer[ring.head].cid \in Live
      <4>1. ring.buffer[At(ring, 1)].cid \in Live
        BY <1>t, <3>1 DEF QueuedForLive
      <4> QED
        BY <1>t, <2>2, <4>1, GetRemoves
    <3>3. SendReport(Get(ring), waiting \ {c}, ring.buffer[ring.head])
      BY <1>2, <2>2 DEF CanSendNow
    <3>4. ring' = Get(ring) /\ sent' = Append(sent, ring.buffer[ring.head].report)
      BY <2>1, <3>2, <3>3 DEF SendReport
    <3> QED
      BY <1>t, <2>1, <2>2, <3>4, PendingGet DEF Line!Transmit
  <2>3. CASE ~(c \in Live /\ ~IsEmpty(ring))
    BY <1>2, <2>1, <2>3 DEF CanSendNow
  <2> QED
    BY <2>2, <2>3
<1>3. CASE Delete
  <2>1. ring' = Zeroed /\ UNCHANGED <<sent, issued>>
    BY <1>3 DEF Delete
  <2>2. Zeroed \in Ring /\ IsEmpty(Zeroed)
    BY SizeAssumption DEF Zeroed, Ring, Places, Item, IsEmpty
  <2>3. Pending(ring') = <<>>
    BY <2>1, <2>2, PendingEmpty
  <2> QED
    BY <2>1, <2>3 DEF Line!Next, Line!Clear
<1>4. CASE \E k \in Channels : Open(k)
  BY <1>4 DEF Open, Line!vars
<1>5. CASE \E c \in waiting : Freed(c)
  BY <1>5 DEF Freed, Line!vars
<1>6. CASE PacketSent \/ OtherPacket \/ UNCHANGED vars
  BY <1>6 DEF PacketSent, OtherPacket, vars, Line!vars
<1>7. CASE \E c \in waiting : CanSendNow(c)
  BY <1>2, <1>7 DEF Line!Next, Line!vars
<1> QED
  BY <1>1, <1>3, <1>4, <1>5, <1>6, <1>7 DEF Next, Line!Next

\* For every size of the buffer, the reports of a device go out in the order
\* they were issued, and are lost only to a full buffer or a deletion.
THEOREM Refinement == Spec => LineSpec
<1>1. Init => Line!Init
  <2> SUFFICES ASSUME Init PROVE Line!Init
    OBVIOUS
  <2>1. Zeroed \in Ring /\ IsEmpty(Zeroed)
    BY SizeAssumption DEF Zeroed, Ring, Places, Item, IsEmpty
  <2>2. Pending(ring) = <<>>
    BY <2>1, PendingEmpty DEF Init
  <2> QED
    BY <2>2 DEF Init, Line!Init
<1> QED
  BY <1>1, LineStep, Inductive, PTL DEF Spec, LineSpec, Line!Spec
=============================================================================
