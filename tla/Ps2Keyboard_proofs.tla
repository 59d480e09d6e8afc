------------------------- MODULE Ps2Keyboard_proofs -------------------------
EXTENDS Ps2Keyboard, TLAPS

(***************************************************************************)
(* Every reply is a sequence of operations.                                *)
(***************************************************************************)
LEMMA ReplyType == \A c \in Commands : Reply[c] \in Seq(Ops)
<1>1. Ack \in Ops /\ Write("EE") \in Ops
  BY DEF Ack, Write, Ops
<1>2. Do("off") \in Ops /\ Do("on") \in Ops /\ Do("arg") \in Ops /\ Do("leds") \in Ops
  BY DEF Do, Ops
<1>3. Until("AA") \in Ops /\ Until("AB") \in Ops /\ Until("83") \in Ops /\ Until("FA") \in Ops
  BY DEF Until, Ops
<1>4. Reply["RESET"] \in Seq(Ops) /\ Reply["GET_DEVICE_ID"] \in Seq(Ops)
  BY <1>1, <1>2, <1>3 DEF Reply
<1>5. Reply["SET_RESET_LEDS"] \in Seq(Ops) /\ Reply["ECHO"] \in Seq(Ops)
  BY <1>1, <1>2, <1>3 DEF Reply
<1>6. Reply["SET_TYPEMATIC_RATE"] \in Seq(Ops) /\ Reply["SET_SCAN_CODE_SET"] \in Seq(Ops)
  BY <1>1, <1>2, <1>3 DEF Reply
<1>7. /\ Reply["DISABLE_DATA_REPORTING"] \in Seq(Ops)
      /\ Reply["ENABLE_DATA_REPORTING"] \in Seq(Ops)
  BY <1>1, <1>2, <1>3 DEF Reply
<1>8. /\ Reply["RESEND"] \in Seq(Ops)
      /\ Reply["SET_DEFAULTS"] \in Seq(Ops)
      /\ Reply["UNKNOWN"] \in Seq(Ops)
  BY <1>1, <1>2, <1>3 DEF Reply
<1>9. Commands = {"RESET", "RESEND", "SET_DEFAULTS", "DISABLE_DATA_REPORTING",
                  "ENABLE_DATA_REPORTING", "SET_TYPEMATIC_RATE", "GET_DEVICE_ID",
                  "SET_SCAN_CODE_SET", "ECHO", "SET_RESET_LEDS", "UNKNOWN"}
  BY DEF Commands, Reply
<1>10. QED BY <1>4, <1>5, <1>6, <1>7, <1>8, <1>9

\* Queue, wire and scripts keep their types: the queue never exceeds its length.
THEOREM TypeCorrect == Spec => []TypeOK
<1>1. Init => TypeOK
  BY Ps2Assumption DEF Init, TypeOK, Packets, AnyKey
<1>2. TypeOK /\ [Next]_vars => TypeOK'
  <2> SUFFICES ASSUME TypeOK, [Next]_vars PROVE TypeOK'
    OBVIOUS
  <2> USE DEF line_vars, app_vars, snd_vars, hst_vars, in_vars
  <2>1. CASE Host
    BY <2>1 DEF TypeOK, Host, HostInhibit, HostRelease, HostRequest, HostGiveUp
  <2>2. CASE BeginTake
    BY <2>2 DEF TypeOK, BeginTake
  <2>3. CASE BeginSelfTest
    <3>1. SelfTest \in Bytes
      BY DEF SelfTest, Bytes
    <3>2. wire' \in Seq(Bytes)
      BY <2>3, <3>1 DEF TypeOK, BeginSelfTest
    <3>3. QED BY <2>3, <3>2 DEF TypeOK, BeginSelfTest
  <2>4. ASSUME NEW k \in Keys, NEW down \in BOOLEAN, KeyEvent(k, down) PROVE TypeOK'
    BY <2>4 DEF TypeOK, KeyEvent
  <2>5. CASE SendPacket
    <3>1. CASE Len(queue) < QueueLen
      <4>1. [no |-> accepted + 1, key |-> offered.key, down |-> offered.down] \in Packets
        BY DEF TypeOK, Packets
      <4>2. queue' \in Seq(Packets) /\ Len(queue') = Len(queue) + 1
        <5> DEFINE p == [no |-> accepted + 1, key |-> offered.key, down |-> offered.down]
        <5>1. queue' = Append(queue, p)
          BY <2>5, <3>1 DEF SendPacket
        <5>2. queue \in Seq(Packets) /\ p \in Packets
          BY <4>1 DEF TypeOK
        <5> HIDE DEF p
        <5>3. QED BY <5>1, <5>2
      <4>3. Len(queue) \in Nat /\ Len(queue') <= QueueLen
        <5>1. Len(queue) \in Nat
          BY DEF TypeOK
        <5>2. QED BY <3>1, <4>2, <5>1, Ps2Assumption
      <4>4. accepted' \in Nat /\ late' \in Nat
        BY <2>5, <3>1 DEF TypeOK, SendPacket
      <4>5. QED BY <2>5, <4>2, <4>3, <4>4 DEF TypeOK, SendPacket
    <3>2. CASE ~(Len(queue) < QueueLen)
      BY <2>5, <3>2 DEF TypeOK, SendPacket
    <3>3. QED BY <3>1, <3>2
  <2>6. CASE SendReceive
    BY <2>6, Ps2Assumption DEF TypeOK, SendReceive
  <2>7. CASE SendTake
    BY <2>7 DEF TypeOK, SendTake
  <2>8. CASE SendByte
    <3>1. PacketByte(packet, pos) \in Bytes
      BY DEF TypeOK, PacketByte, Bytes, Packets
    <3>2. wire' \in Seq(Bytes)
      BY <2>8, <3>1 DEF TypeOK, SendByte
    <3>3. QED BY <2>8, <3>2 DEF TypeOK, SendByte
  <2>9. CASE SendGive
    BY <2>9 DEF TypeOK, SendGive
  <2>10. CASE HostTake
    BY <2>10 DEF TypeOK, HostTake
  <2>11. CASE HostNothing
    BY <2>11 DEF TypeOK, HostNothing
  <2>12. CASE HostRead
    <3> DEFINE b == ExchangeByte(commands + 1, "host")
    <3>1. b \in Bytes
      <4>1. commands + 1 \in Nat
        BY DEF TypeOK
      <4>2. QED BY <4>1 DEF ExchangeByte, Bytes
    <3>2. wire' \in Seq(Bytes)
      <4>1. wire' = Append(wire, b) \/ wire' = wire
        BY <2>12 DEF HostRead
      <4> HIDE DEF b
      <4>2. QED BY <3>1, <4>1 DEF TypeOK
    <3>3. QED BY <2>12, <3>2, ReplyType DEF TypeOK, HostRead
  <2>13. CASE ReplyFlag
    BY <2>13 DEF TypeOK, ReplyFlag, Advance
  <2>14. CASE ReplyWrite
    <3>1. ExchangeByte(commands, "device") \in Bytes
      BY DEF TypeOK, ExchangeByte, Bytes
    <3>2. wire' \in Seq(Bytes)
      BY <2>14, <3>1 DEF TypeOK, ReplyWrite
    <3>3. QED BY <2>14, <3>2 DEF TypeOK, ReplyWrite, Advance
  <2>15. CASE ReplyArg
    <3>1. ExchangeByte(commands, "host") \in Bytes
      BY DEF TypeOK, ExchangeByte, Bytes
    <3>2. wire' \in Seq(Bytes)
      BY <2>15, <3>1 DEF TypeOK, ReplyArg
    <3>3. QED BY <2>15, <3>2 DEF TypeOK, ReplyArg, Advance
  <2>16. CASE ReplyNoArg
    BY <2>16 DEF TypeOK, ReplyNoArg
  <2>17. CASE ReplyLeds
    BY <2>17 DEF TypeOK, ReplyLeds, Advance
  <2>18. CASE HostGive
    BY <2>18, Ps2Assumption DEF TypeOK, HostGive
  <2>19. CASE UNCHANGED vars
    BY <2>19 DEF TypeOK, vars
  <2>20. QED
    BY <2>1, <2>2, <2>3, <2>4, <2>5, <2>6, <2>7, <2>8, <2>9, <2>10, <2>11, <2>12,
       <2>13, <2>14, <2>15, <2>16, <2>17, <2>18, <2>19
    DEF Next, SendTask, HostTask, ReplyStep
<1>3. QED BY <1>1, <1>2, PTL DEF Spec

-----------------------------------------------------------------------------
(***************************************************************************)
(* Appending a byte to the wire, where the unit the byte belongs to is the *)
(* last one on it, keeps the units contiguous.                             *)
(***************************************************************************)
LEMMA AppendContiguous ==
  ASSUME NEW w \in Seq(Bytes), NEW b \in Bytes, Contiguous(w), Suffix(w, Unit(b))
  PROVE  Contiguous(Append(w, b)) /\ Suffix(Append(w, b), Unit(b))
<1> DEFINE v == Append(w, b)
<1>1. /\ DOMAIN w = 1 .. Len(w) /\ DOMAIN v = 1 .. Len(w) + 1 /\ Len(w) \in Nat
      /\ \A i \in DOMAIN w : v[i] = w[i]
      /\ v[Len(w) + 1] = b
  OBVIOUS
<1> HIDE DEF v
<1>2. Suffix(v, Unit(b))
  <2> SUFFICES ASSUME NEW i \in DOMAIN v, NEW j \in DOMAIN v, i < j, Unit(v[i]) = Unit(b)
               PROVE  Unit(v[j]) = Unit(b)
    BY DEF Suffix
  <2>1. i \in DOMAIN w
    BY <1>1
  <2>2. CASE j = Len(w) + 1
    BY <1>1, <2>2
  <2>3. CASE j \in DOMAIN w
    BY <1>1, <2>1, <2>3 DEF Suffix
  <2>4. QED BY <1>1, <2>2, <2>3
<1>3. Contiguous(v)
  <2> SUFFICES ASSUME NEW i \in DOMAIN v, NEW j \in DOMAIN v, NEW k \in DOMAIN v,
                      i < j, j < k, Unit(v[i]) = Unit(v[k])
               PROVE  Unit(v[j]) = Unit(v[i])
    BY DEF Contiguous
  <2>1. i \in DOMAIN w /\ j \in DOMAIN w
    BY <1>1
  <2>2. CASE k \in DOMAIN w
    BY <1>1, <2>1, <2>2 DEF Contiguous
  <2>3. CASE k = Len(w) + 1
    BY <1>1, <2>1, <2>3 DEF Suffix
  <2>4. QED BY <1>1, <2>2, <2>3
<1>4. QED BY <1>2, <1>3 DEF v

(***************************************************************************)
(* A byte of another unit than u keeps u's bytes a suffix only if u has    *)
(* none; a packet byte beyond all others keeps the packets in order, and a *)
(* byte that is no packet's does.                                          *)
(***************************************************************************)
LEMMA AppendInOrder ==
  ASSUME NEW w \in Seq(Bytes), NEW b \in Bytes, InOrder(w),
         b.kind = "packet" =>
            \A i \in DOMAIN w : w[i].kind = "packet" =>
                w[i].no < b.no \/ (w[i].no = b.no /\ w[i].pos < b.pos)
  PROVE  InOrder(Append(w, b))
<1> DEFINE v == Append(w, b)
<1>1. /\ DOMAIN w = 1 .. Len(w) /\ DOMAIN v = 1 .. Len(w) + 1 /\ Len(w) \in Nat
      /\ \A i \in DOMAIN w : v[i] = w[i]
      /\ v[Len(w) + 1] = b
  OBVIOUS
<1> HIDE DEF v
<1> SUFFICES ASSUME NEW i \in DOMAIN v, NEW j \in DOMAIN v,
                    i < j, v[i].kind = "packet", v[j].kind = "packet"
             PROVE  v[i].no < v[j].no \/ (v[i].no = v[j].no /\ v[i].pos < v[j].pos)
  BY DEF InOrder, v
<1>2. i \in DOMAIN w
  BY <1>1
<1>3. CASE j \in DOMAIN w
  BY <1>1, <1>2, <1>3 DEF InOrder
<1>4. CASE j = Len(w) + 1
  BY <1>1, <1>2, <1>4
<1>5. QED BY <1>1, <1>3, <1>4

\* The elements of a sequence one element longer.
LEMMA AppendDomain ==
  ASSUME NEW w \in Seq(Bytes), NEW b \in Bytes
  PROVE  \A i \in DOMAIN Append(w, b) :
            \/ i \in DOMAIN w /\ Append(w, b)[i] = w[i]
            \/ Append(w, b)[i] = b
  OBVIOUS

-----------------------------------------------------------------------------
(***************************************************************************)
(* The inductive invariant.  Only BeginSelfTest, SendByte and ReplyWrite   *)
(* put a byte on the wire, each while its task holds the mutex; MutexInv   *)
(* then says that no other unit is open, OpenUnitInv that the byte's own   *)
(* unit is the last one on the wire.                                       *)
(***************************************************************************)
\* Before the first byte nothing is on the wire.
LEMMA InitIInv == Init => IInv
  BY Ps2Assumption DEF Init, IInv, MutexInv, NumberInv, WireInv, OpenUnitInv, LateInv, EventsInv, WireContiguous,
         WireInOrder, Contiguous, InOrder, Suffix

\* Each step keeps the invariant: one step of the proof for each action.
LEMMA StepIInv == TypeOK /\ TypeOK' /\ IInv /\ [Next]_vars => IInv'
<1> SUFFICES ASSUME TypeOK, TypeOK', IInv, [Next]_vars PROVE IInv'
  OBVIOUS
<1> USE DEF line_vars, app_vars, snd_vars, hst_vars, in_vars,
            IInv, MutexInv, NumberInv, WireInv, OpenUnitInv, LateInv, EventsInv, WireContiguous,
            WireInOrder, Suffix
<1>b. \A i \in DOMAIN wire : wire[i].no \in Nat /\ wire[i].pos \in Nat
  <2>1. \A i \in DOMAIN wire : wire[i] \in Bytes
    BY DEF TypeOK
  <2>2. QED BY <2>1 DEF Bytes
<1>1. CASE Host
  BY <1>1 DEF TypeOK, Host, HostInhibit, HostRelease, HostRequest, HostGiveUp
<1>2. CASE BeginTake
  BY <1>2 DEF TypeOK, BeginTake
<1>3. CASE BeginSelfTest
  <2>1. MutexInv' /\ NumberInv' /\ LateInv' /\ EventsInv'
    BY <1>3 DEF TypeOK, BeginSelfTest
  <2>2. CASE line = "idle"
    <3>1. wire' = Append(wire, SelfTest) /\ SelfTest \in Bytes
      BY <1>3, <2>2 DEF BeginSelfTest, SelfTest, Bytes
    <3>2. Suffix(wire, Unit(SelfTest))
      BY <1>3, <1>b DEF BeginSelfTest, SelfTest, Unit
    <3>3. Contiguous(wire')
      BY <3>1, <3>2, AppendContiguous DEF TypeOK
    <3>4. InOrder(wire')
      BY <3>1, AppendInOrder DEF TypeOK, SelfTest
    <3>5. WireInv'
      BY <1>3, <1>b, <3>1, AppendDomain DEF TypeOK, BeginSelfTest, SelfTest
    <3>6. OpenUnitInv'
      BY <1>3 DEF BeginSelfTest
    <3>7. QED BY <2>1, <3>3, <3>4, <3>5, <3>6
  <2>3. CASE line # "idle"
    BY <1>3, <2>1, <2>3 DEF BeginSelfTest
  <2>4. QED BY <2>2, <2>3
<1>4. ASSUME NEW k \in Keys, NEW down \in BOOLEAN, KeyEvent(k, down) PROVE IInv'
  <2>1. EventsInv'
    <3>1. accepted \in Nat /\ events \in Nat
      BY DEF TypeOK
    <3>2. app = "run" /\ events' = events + 1 /\ events < MaxEvents /\ accepted' = accepted
      BY <1>4 DEF KeyEvent
    <3>3. QED BY <3>1, <3>2, Ps2Assumption
  <2>2. MutexInv' /\ NumberInv' /\ WireInv' /\ OpenUnitInv' /\ LateInv'
        /\ WireContiguous' /\ WireInOrder'
    BY <1>4 DEF KeyEvent
  <2>3. QED BY <2>1, <2>2
<1>5. CASE SendPacket
  <2>1. MutexInv' /\ WireInv' /\ OpenUnitInv' /\ WireContiguous' /\ WireInOrder'
    BY <1>5 DEF SendPacket
  <2>2. LateInv' /\ EventsInv'
    <3>1. accepted \in Nat /\ events \in Nat
      BY DEF TypeOK
    <3>2. QED BY <1>5, <3>1, Ps2Assumption DEF SendPacket
  <2>3. NumberInv'
    <3> DEFINE p == [no |-> accepted + 1, key |-> offered.key, down |-> offered.down]
    <3>1. CASE Len(queue) < QueueLen
      <4>1. queue' = Append(queue, p) /\ accepted' = accepted + 1 /\ packet' = packet
        BY <1>5, <3>1 DEF SendPacket
      <4>2. p.no = accepted + 1
        OBVIOUS
      <4> HIDE DEF p
      <4>3. /\ Len(queue') = Len(queue) + 1
            /\ DOMAIN queue' = 1 .. Len(queue) + 1
            /\ DOMAIN queue = 1 .. Len(queue)
            /\ \A i \in DOMAIN queue : queue'[i] = queue[i]
            /\ queue'[Len(queue) + 1] = p
        BY <4>1 DEF TypeOK
      <4>4. packet.no \in Nat /\ Len(queue) \in Nat /\ accepted \in Nat
        BY DEF TypeOK, Packets
      <4>5. QED BY <4>1, <4>2, <4>3, <4>4
    <3>2. CASE ~(Len(queue) < QueueLen)
      BY <1>5, <3>2 DEF SendPacket
    <3>3. QED BY <3>1, <3>2
  <2>4. QED BY <2>1, <2>2, <2>3
<1>6. CASE SendReceive
  <2>1. MutexInv' /\ OpenUnitInv' /\ LateInv' /\ EventsInv' /\ WireContiguous' /\ WireInOrder'
    BY <1>6 DEF SendReceive
  <2>2. /\ Len(queue') = Len(queue) - 1
        /\ DOMAIN queue = 1 .. Len(queue)
        /\ DOMAIN queue' = 1 .. Len(queue) - 1
        /\ \A i \in DOMAIN queue' : queue'[i] = queue[i + 1]
        /\ 1 \in DOMAIN queue /\ packet' = queue[1]
    BY <1>6 DEF TypeOK, SendReceive
  <2>3. packet.no \in Nat /\ Len(queue) \in Nat /\ accepted \in Nat
    BY DEF TypeOK, Packets
  <2>4. packet'.no = packet.no + 1
    BY <2>2
  <2>5. NumberInv'
    BY <1>6, <2>2, <2>3, <2>4 DEF SendReceive
  <2>6. WireInv'
    BY <1>6, <1>b, <2>3, <2>4 DEF SendReceive
  <2>7. QED BY <2>1, <2>5, <2>6
<1>7. CASE SendTake
  <2>1. MutexInv' /\ NumberInv' /\ LateInv' /\ EventsInv' /\ WireContiguous' /\ WireInOrder'
    BY <1>7 DEF SendTake
  <2>2. \A i \in DOMAIN wire : wire[i].kind = "packet" => wire[i].no < packet.no
    BY <1>7 DEF SendTake
  <2>3. packet.no \in Nat
    BY DEF TypeOK, Packets
  <2>4. WireInv'
    BY <1>7, <1>b, <2>2, <2>3 DEF SendTake
  <2>5. Suffix(wire, <<"packet", packet.no>>)
    BY <1>b, <2>2, <2>3 DEF Unit
  <2>6. OpenUnitInv'
    BY <1>7, <2>5 DEF SendTake
  <2>7. QED BY <2>1, <2>4, <2>6
<1>8. CASE SendByte
  <2>1. MutexInv' /\ NumberInv' /\ LateInv' /\ EventsInv'
    BY <1>8 DEF SendByte
  <2>2. snd = "write" /\ hst = "take" /\ packet.no \in Nat /\ pos \in Nat
    BY <1>8 DEF TypeOK, SendByte, Packets
  <2>3. CASE line = "idle"
    <3> DEFINE b == PacketByte(packet, pos)
    <3>1. wire' = Append(wire, b) /\ b \in Bytes
      BY <1>8, <2>3 DEF TypeOK, SendByte, PacketByte, Bytes, Packets
    <3>2. b.kind = "packet" /\ b.no = packet.no /\ b.pos = pos
          /\ Unit(b) = <<"packet", packet.no>>
      BY DEF PacketByte, Unit
    <3> HIDE DEF b
    <3>3. Contiguous(wire') /\ Suffix(wire', Unit(b))
      <4>1. Contiguous(wire) /\ Suffix(wire, Unit(b)) /\ wire \in Seq(Bytes)
        BY <2>2, <3>2 DEF TypeOK
      <4> HIDE DEF Suffix
      <4>2. QED BY <3>1, <4>1, AppendContiguous
    <3>4. InOrder(wire')
      <4>1. \A i \in DOMAIN wire : wire[i].kind = "packet" =>
                wire[i].no < b.no \/ (wire[i].no = b.no /\ wire[i].pos < b.pos)
        BY <1>b, <2>2, <3>2
      <4>2. QED BY <3>1, <4>1, AppendInOrder DEF TypeOK
    <3>5. WireInv'
      <4>1. \A i \in DOMAIN wire' : (i \in DOMAIN wire /\ wire'[i] = wire[i]) \/ wire'[i] = b
        BY <3>1, AppendDomain DEF TypeOK
      <4>2. QED BY <1>8, <1>b, <2>2, <3>2, <4>1 DEF SendByte
    <3>6. OpenUnitInv'
      BY <1>8, <2>2, <3>2, <3>3 DEF SendByte
    <3>7. QED BY <2>1, <3>3, <3>4, <3>5, <3>6
  <2>4. CASE line # "idle"
    <3>1. WireInv'
      BY <1>8, <1>b, <2>2, <2>4 DEF SendByte
    <3>2. QED BY <1>8, <2>1, <2>4, <3>1 DEF SendByte
  <2>5. QED BY <2>3, <2>4
<1>9. CASE SendGive
  BY <1>9 DEF TypeOK, SendGive
<1>10. CASE HostTake
  BY <1>10 DEF TypeOK, HostTake
<1>11. CASE HostNothing
  BY <1>11 DEF TypeOK, HostNothing
<1>12. CASE HostRead
  <2>1. MutexInv' /\ NumberInv' /\ LateInv' /\ EventsInv'
    BY <1>12 DEF HostRead
  <2>2. hst = "check" /\ snd # "write" /\ snd' = snd /\ commands \in Nat
    BY <1>12 DEF TypeOK, HostRead
  <2>3. CASE hst' = "reply"
    <3> DEFINE b == ExchangeByte(commands + 1, "host")
    <3>1. wire' = Append(wire, b) /\ commands' = commands + 1
      BY <1>12, <2>3 DEF HostRead
    <3>2. /\ b.kind = "exchange" /\ b.no = commands + 1
          /\ Unit(b) = <<"exchange", commands + 1>> /\ b \in Bytes
      BY <2>2 DEF ExchangeByte, Unit, Bytes
    <3> HIDE DEF b
    <3>3. Contiguous(wire') /\ Suffix(wire', Unit(b))
      <4>1. \A i \in DOMAIN wire : wire[i].kind = "exchange" => wire[i].no < commands + 1
        BY <1>b, <2>2
      <4>2. \A i \in DOMAIN wire : Unit(wire[i]) # Unit(b)
        BY <1>b, <2>2, <3>2, <4>1 DEF Unit
      <4>3. Contiguous(wire) /\ Suffix(wire, Unit(b)) /\ wire \in Seq(Bytes)
        BY <4>2 DEF TypeOK
      <4> HIDE DEF Suffix
      <4>4. QED BY <3>1, <3>2, <4>3, AppendContiguous
    <3>4. InOrder(wire')
      BY <3>1, <3>2, AppendInOrder DEF TypeOK
    <3>5. WireInv'
      <4>1. \A i \in DOMAIN wire' : (i \in DOMAIN wire /\ wire'[i] = wire[i]) \/ wire'[i] = b
        BY <3>1, <3>2, AppendDomain DEF TypeOK
      <4>2. QED BY <1>12, <1>b, <2>2, <3>1, <3>2, <4>1 DEF HostRead
    <3>6. OpenUnitInv'
      BY <2>2, <3>1, <3>2, <3>3
    <3>7. QED BY <2>1, <3>3, <3>4, <3>5, <3>6
  <2>4. CASE hst' # "reply"
    BY <1>12, <2>1, <2>4 DEF HostRead
  <2>5. QED BY <2>3, <2>4
<1>13. CASE ReplyFlag
  BY <1>13 DEF TypeOK, ReplyFlag, Advance
<1>14. CASE ReplyWrite
  <2>1. MutexInv' /\ NumberInv' /\ LateInv' /\ EventsInv'
    BY <1>14 DEF ReplyWrite, Advance
  <2>2. hst = "reply" /\ snd # "write" /\ commands \in Nat
    BY <1>14 DEF TypeOK, ReplyWrite, Advance
  <2>3. CASE line = "idle"
    <3> DEFINE b == ExchangeByte(commands, "device")
    <3>1. wire' = Append(wire, b)
      BY <1>14, <2>3 DEF ReplyWrite
    <3>2. b.kind = "exchange" /\ b.no = commands /\ Unit(b) = <<"exchange", commands>>
      BY DEF ExchangeByte, Unit
    <3>3. b \in Bytes
      BY <2>2 DEF ExchangeByte, Bytes
    <3> HIDE DEF b
    <3>4. Contiguous(wire') /\ Suffix(wire', Unit(b))
      <4>1. Contiguous(wire) /\ Suffix(wire, Unit(b)) /\ wire \in Seq(Bytes)
        BY <2>2, <3>2 DEF TypeOK
      <4> HIDE DEF Suffix
      <4>2. QED BY <3>1, <3>3, <4>1, AppendContiguous
    <3>5. InOrder(wire')
      BY <3>1, <3>2, <3>3, AppendInOrder DEF TypeOK
    <3>6. WireInv'
      <4>1. \A i \in DOMAIN wire' : (i \in DOMAIN wire /\ wire'[i] = wire[i]) \/ wire'[i] = b
        BY <3>1, <3>3, AppendDomain DEF TypeOK
      <4>2. QED BY <1>14, <1>b, <2>2, <3>2, <4>1 DEF ReplyWrite, Advance
    <3>7. OpenUnitInv'
      BY <1>14, <2>2, <3>2, <3>4 DEF ReplyWrite, Advance
    <3>8. QED BY <2>1, <3>4, <3>5, <3>6, <3>7
  <2>4. CASE line # "idle"
    BY <1>14, <2>1, <2>4 DEF ReplyWrite, Advance
  <2>5. QED BY <2>3, <2>4
<1>15. CASE ReplyArg
  <2> DEFINE b == ExchangeByte(commands, "host")
  <2>1. MutexInv' /\ NumberInv' /\ LateInv' /\ EventsInv'
    BY <1>15 DEF ReplyArg, Advance
  <2>2. hst = "reply" /\ snd # "write" /\ commands \in Nat
    BY <1>15 DEF TypeOK, ReplyArg, Advance
  <2>3. wire' = Append(wire, b)
    BY <1>15 DEF ReplyArg
  <2>4. b.kind = "exchange" /\ b.no = commands /\ Unit(b) = <<"exchange", commands>> /\ b \in Bytes
    BY <2>2 DEF ExchangeByte, Unit, Bytes
  <2> HIDE DEF b
  <2>5. Contiguous(wire') /\ Suffix(wire', Unit(b))
    <3>1. Contiguous(wire) /\ Suffix(wire, Unit(b)) /\ wire \in Seq(Bytes)
      BY <2>2, <2>4 DEF TypeOK
    <3> HIDE DEF Suffix
    <3>2. QED BY <2>3, <2>4, <3>1, AppendContiguous
  <2>6. InOrder(wire')
    BY <2>3, <2>4, AppendInOrder DEF TypeOK
  <2>7. WireInv'
    <3>1. \A i \in DOMAIN wire' : (i \in DOMAIN wire /\ wire'[i] = wire[i]) \/ wire'[i] = b
      BY <2>3, <2>4, AppendDomain DEF TypeOK
    <3>2. QED BY <1>15, <1>b, <2>2, <2>4, <3>1 DEF ReplyArg, Advance
  <2>8. OpenUnitInv'
    BY <1>15, <2>2, <2>4, <2>5 DEF ReplyArg, Advance
  <2>9. QED BY <2>1, <2>5, <2>6, <2>7, <2>8
<1>16. CASE ReplyNoArg
  BY <1>16 DEF TypeOK, ReplyNoArg
<1>17. CASE ReplyLeds
  BY <1>17 DEF TypeOK, ReplyLeds, Advance
<1>18. CASE HostGive
  BY <1>18 DEF TypeOK, HostGive
<1>19. CASE UNCHANGED vars
  BY <1>19 DEF TypeOK, vars
<1>20. QED
  BY <1>1, <1>2, <1>3, <1>4, <1>5, <1>6, <1>7, <1>8, <1>9, <1>10,
     <1>11, <1>12, <1>13, <1>14, <1>15, <1>16, <1>17, <1>18, <1>19
  DEF Next, SendTask, HostTask, ReplyStep

-----------------------------------------------------------------------------
(***************************************************************************)
(* The invariant holds in every reachable state, for every length of the   *)
(* queue, every set of keys and every length of their codes.               *)
(***************************************************************************)
THEOREM Inductive == Spec => []IInv
<1>1. TypeOK /\ TypeOK' /\ IInv /\ [Next]_vars => IInv'
  BY StepIInv
<1>2. QED BY <1>1, InitIInv, TypeCorrect, PTL DEF Spec

(***************************************************************************)
(* The send task and the host-request task never mix their bytes: each     *)
(* packet and each reply is contiguous on the wire.                        *)
(***************************************************************************)
THEOREM WireContiguity == Spec => []WireContiguous
<1>1. IInv => WireContiguous
  BY DEF IInv
<1>2. QED BY <1>1, Inductive, PTL

(***************************************************************************)
(* Scan codes leave in the order the application queued them.              *)
(***************************************************************************)
THEOREM WireOrder == Spec => []WireInOrder
<1>1. IInv => WireInOrder
  BY DEF IInv
<1>2. QED BY <1>1, Inductive, PTL

(***************************************************************************)
(* Disabling data reporting lets at most one more packet into the queue.   *)
(***************************************************************************)
THEOREM LatePackets == Spec => []OneLatePacket
<1>1. IInv => OneLatePacket
  BY DEF IInv, LateInv, OneLatePacket
<1>2. QED BY <1>1, Inductive, PTL

-----------------------------------------------------------------------------
(***************************************************************************)
(* Facts about sequences for the refinement mapping.                       *)
(***************************************************************************)
LEMMA ConsAppend ==
  ASSUME NEW S, NEW s \in Seq(S), NEW h \in S, NEW e \in S
  PROVE  <<h>> \o Append(s, e) = Append(<<h>> \o s, e)
OBVIOUS

LEMMA ConsHeadTail ==
  ASSUME NEW S, NEW s \in Seq(S), s # <<>>
  PROVE  <<Head(s)>> \o Tail(s) = s
OBVIOUS

LEMMA HeadTailCons ==
  ASSUME NEW S, NEW s \in Seq(S), NEW h \in S
  PROVE  /\ Head(<<h>> \o s) = h
         /\ Tail(<<h>> \o s) = s
         /\ <<h>> \o s # <<>>
         /\ Len(<<h>> \o s) = Len(s) + 1
OBVIOUS

(***************************************************************************)
(* The device implements the FIFO channel: accepting a packet is Accept,   *)
(* the send task giving the mutex back is Transmit, all else stutters.     *)
(***************************************************************************)
THEOREM Refinement == Spec => ChannelSpec
<1>1. Init => Channel!Init
  BY DEF Init, Channel!Init, InFlight
<1>2. TypeOK /\ IInv /\ [Next]_vars => [Channel!Next]_(Channel!vars)
  <2> SUFFICES ASSUME TypeOK, IInv, [Next]_vars PROVE [Channel!Next]_(Channel!vars)
    OBVIOUS
  <2> DEFINE Same == InFlight' = InFlight /\ sent' = sent
  <2> USE DEF line_vars, app_vars, snd_vars, hst_vars, in_vars
  <2>0. Same => [Channel!Next]_(Channel!vars)
    BY DEF Channel!vars
  <2>t. queue \in Seq(Packets) /\ packet \in Packets
    BY DEF TypeOK
  <2>1. CASE Host \/ BeginTake \/ BeginSelfTest
    BY <2>0, <2>1 DEF Host, BeginTake, BeginSelfTest, InFlight
  <2>2. ASSUME NEW k \in Keys, NEW down \in BOOLEAN, KeyEvent(k, down) PROVE Same
    BY <2>2 DEF KeyEvent, InFlight
  <2>3. CASE SendPacket
    <3>1. CASE Len(queue) < QueueLen
      <4> DEFINE p == [no |-> accepted + 1, key |-> offered.key, down |-> offered.down]
      <4>1. queue' = Append(queue, p) /\ packet' = packet /\ snd' = snd /\ sent' = sent
        BY <2>3, <3>1 DEF SendPacket
      <4>2. p \in Packets /\ p \in [no : 1 .. MaxEvents, key : Keys, down : BOOLEAN]
        BY <2>3, Ps2Assumption DEF TypeOK, SendPacket, IInv, EventsInv, Packets
      <4>3. CASE snd = "receive"
        <5>1. InFlight' = Append(InFlight, p) /\ Len(InFlight) < QueueLen + 1
          BY <3>1, <4>1, <4>3, Ps2Assumption DEF InFlight, TypeOK
        <5>2. Channel!Accept(p)
          BY <4>1, <5>1 DEF Channel!Accept
        <5>3. QED BY <4>2, <5>2 DEF Channel!Next
      <4>4. CASE snd # "receive"
        <5>1. InFlight = <<packet>> \o queue /\ InFlight' = <<packet>> \o Append(queue, p)
          BY <4>1, <4>4 DEF InFlight
        <5>2. InFlight' = Append(InFlight, p)
          BY <2>t, <4>2, <5>1, ConsAppend
        <5>3. Len(InFlight) = Len(queue) + 1 /\ Len(queue) \in Nat
          BY <2>t, <5>1, HeadTailCons
        <5>4. Len(InFlight) < QueueLen + 1
          BY <3>1, <5>3, Ps2Assumption
        <5>5. Channel!Accept(p)
          BY <4>1, <5>2, <5>4 DEF Channel!Accept
        <5>6. QED BY <4>2, <5>5 DEF Channel!Next
      <4>5. QED BY <4>3, <4>4
    <3>2. CASE ~(Len(queue) < QueueLen)
      BY <2>0, <2>3, <3>2 DEF SendPacket, InFlight
    <3>3. QED BY <3>1, <3>2
  <2>4. CASE SendReceive
    <3>1. InFlight = queue /\ InFlight' = <<Head(queue)>> \o Tail(queue) /\ sent' = sent
      BY <2>4 DEF SendReceive, InFlight
    <3>2. Same
      BY <2>4, <2>t, <3>1, ConsHeadTail DEF SendReceive
    <3>3. QED BY <2>0, <3>2
  <2>5. CASE SendTake \/ SendByte
    BY <2>0, <2>5 DEF SendTake, SendByte, InFlight
  <2>6. CASE SendGive
    <3>1. InFlight = <<packet>> \o queue /\ InFlight' = queue /\ sent' = Append(sent, packet)
      BY <2>6 DEF SendGive, InFlight
    <3>2. Head(InFlight) = packet /\ Tail(InFlight) = queue /\ InFlight # <<>>
      BY <2>t, <3>1, HeadTailCons
    <3>3. QED BY <3>1, <3>2 DEF Channel!Next, Channel!Transmit
  <2>7. CASE HostTake \/ HostNothing \/ HostRead \/ ReplyNoArg \/ HostGive
    BY <2>0, <2>7 DEF HostTake, HostNothing, HostRead, ReplyNoArg, HostGive, InFlight
  <2>8. CASE ReplyFlag \/ ReplyWrite \/ ReplyArg \/ ReplyLeds
    BY <2>0, <2>8 DEF ReplyFlag, ReplyWrite, ReplyArg, ReplyLeds, Advance, InFlight
  <2>9. CASE UNCHANGED vars
    BY <2>0, <2>9 DEF vars, InFlight
  <2>10. QED
    BY <2>0, <2>1, <2>2, <2>3, <2>4, <2>5, <2>6, <2>7, <2>8, <2>9
    DEF Next, SendTask, HostTask, ReplyStep
<1>3. QED BY <1>1, <1>2, TypeCorrect, Inductive, PTL DEF Spec, ChannelSpec, Channel!Spec
=============================================================================
