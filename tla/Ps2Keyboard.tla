---------------------------- MODULE Ps2Keyboard ----------------------------
(***************************************************************************)
(* The PS/2 keyboard device of esp32-ps2dev: the application task offers   *)
(* make and break codes, the send task moves them from a FreeRTOS queue to *)
(* the wire, the host-request task reads commands and writes the replies.  *)
(* The two tasks share the wire under one mutex, _mutex_bus.               *)
(*                                                                         *)
(* The grain is one byte: write() and read() each run in a critical        *)
(* section.  What the host does with the two open-drain lines between the  *)
(* bytes is free; a command or an argument it sends is any byte.           *)
(***************************************************************************)
EXTENDS Naturals, Sequences

CONSTANTS
    Keys,          \* keys the application presses and releases
    CodeLen,       \* bytes of the make (TRUE) and break (FALSE) code of a key
    QueueLen,      \* PACKET_QUEUE_LENGTH
    LedArgs,       \* arguments a host may send: sets of LEDs to light
    MaxEvents,     \* bound: key events the application produces
    MaxRequests    \* bound: bytes the host asks to send

ASSUME Ps2Assumption ==
    /\ QueueLen \in Nat \ {0}
    /\ CodeLen \in [Keys -> [BOOLEAN -> Nat]]
    /\ MaxEvents \in Nat
    /\ MaxRequests \in Nat
    /\ Keys # {}
    /\ {} \in LedArgs

VARIABLES
    line,       \* get_bus_state(): "idle", "inhibited" or "request"
    mutex,      \* holder of _mutex_bus, or "free"
    reporting,  \* _data_reporting_enabled
    leds,       \* _led_scroll_lock, _led_num_lock, _led_caps_lock: those lit
    queue,      \* _queue_packet
    app,        \* where the application task is
    offered,    \* the key event keydown()/keyup() is sending
    snd,        \* where _taskfn_send_packet is
    packet,     \* its packet (the last one while it waits for the next)
    pos,        \* the byte of the packet it is at
    hst,        \* where _taskfn_process_host_request is
    script,     \* what reply_to_host() has still to do
    val,        \* its local: the argument byte read from the host
    \* History and bounds, read by no guard but those of the bounds.
    wire,       \* every byte the device clocked, out or in
    sent,       \* the packets whose turn on the wire has ended
    accepted,   \* packets that entered the queue
    late,       \* packets that entered it since reporting was disabled
    commands,   \* commands read from the host
    events,     \* key events so far
    requests    \* bytes the host asked to send so far

line_vars == <<line, requests>>
app_vars  == <<app, offered, events>>
snd_vars  == <<snd, packet, pos, sent>>
hst_vars  == <<hst, script, val, leds, commands>>
in_vars   == <<queue, accepted, late>>
vars == <<line_vars, mutex, reporting, app_vars, snd_vars, hst_vars, in_vars, wire>>

-----------------------------------------------------------------------------
(* The replies of reply_to_host(), as the steps each command goes through. *)

Ops == {"off", "on", "write", "until", "arg", "leds"}

\* What is written, b, is left out: nothing but its place in the reply tells it.
Do(o)    == o
Write(b) == "write"   \* write(b), its result ignored
Until(b) == "until"   \* while (write(b) != 0) delay(1)
Ack      == Write("FA")

Reply ==
    [ RESET                  |-> <<Do("off"), Ack, Until("AA"), Do("on")>>,
      RESEND                 |-> <<Ack>>,
      SET_DEFAULTS           |-> <<Ack>>,
      DISABLE_DATA_REPORTING |-> <<Do("off"), Ack>>,
      ENABLE_DATA_REPORTING  |-> <<Do("on"), Ack>>,
      SET_TYPEMATIC_RATE     |-> <<Ack, Do("arg"), Ack>>,
      GET_DEVICE_ID          |-> <<Ack, Until("AB"), Until("83")>>,
      SET_SCAN_CODE_SET      |-> <<Ack, Do("arg"), Ack>>,
      ECHO                   |-> <<Write("EE")>>,
      SET_RESET_LEDS         |-> <<Until("FA"), Do("arg"), Until("FA"), Do("leds")>>,
      UNKNOWN                |-> <<Ack>> ]

Commands == DOMAIN Reply

-----------------------------------------------------------------------------
Packets == [no : Nat, key : Keys, down : BOOLEAN]
PacketLen(p) == CodeLen[p.key][p.down]

\* A byte on the wire belongs to packet no, to the exchange with the host that
\* its no-th command opened (the bytes of both sides), or to the self test.
Bytes == [kind : {"packet", "exchange", "bat"}, no : Nat, pos : Nat, from : {"device", "host"}]
PacketByte(p, i) == [kind |-> "packet", no |-> p.no, pos |-> i, from |-> "device"]
ExchangeByte(n, side) == [kind |-> "exchange", no |-> n, pos |-> 0, from |-> side]
SelfTest == [kind |-> "bat", no |-> 0, pos |-> 0, from |-> "device"]

\* The types of the variables.
TypeOK ==
    /\ line \in {"idle", "inhibited", "request"}
    /\ mutex \in {"free", "app", "send", "host"}
    /\ reporting \in BOOLEAN
    /\ leds \in LedArgs
    /\ queue \in Seq(Packets) /\ Len(queue) <= QueueLen
    /\ app \in {"begin", "bat", "run", "offer"}
    /\ offered \in [key : Keys, down : BOOLEAN]
    /\ snd \in {"receive", "take", "write"}
    /\ packet \in Packets
    /\ pos \in Nat
    /\ hst \in {"take", "check", "reply"}
    /\ script \in Seq(Ops)
    /\ val \in LedArgs
    /\ wire \in Seq(Bytes)
    /\ sent \in Seq(Packets)
    /\ accepted \in Nat /\ late \in Nat /\ commands \in Nat
    /\ events \in Nat /\ requests \in Nat

\* What the locals hold before the first event and the first packet.
AnyKey == CHOOSE k \in Keys : TRUE

\* PS2dev::begin() has created the mutex, the queue and the two tasks.
Init ==
    /\ line = "idle" /\ mutex = "free" /\ reporting = TRUE /\ leds = {}
    /\ queue = <<>>
    /\ app = "begin"
    /\ offered = [key |-> AnyKey, down |-> FALSE]
    /\ snd = "receive"
    /\ packet = [no |-> 0, key |-> AnyKey, down |-> FALSE]
    /\ pos = 0
    /\ hst = "take" /\ script = <<>> /\ val = {}
    /\ wire = <<>> /\ sent = <<>>
    /\ accepted = 0 /\ late = 0 /\ commands = 0 /\ events = 0 /\ requests = 0

-----------------------------------------------------------------------------
(* The host and its two lines. *)

\* The host pulls the clock low (it may do so at any time), or lets it go.
HostInhibit == line = "idle" /\ line' = "inhibited" /\ UNCHANGED requests
HostRelease == line = "inhibited" /\ line' = "idle" /\ UNCHANGED requests

\* The host asks to send a byte: clock low, data low, clock released.
HostRequest ==
    /\ line # "request"
    /\ requests < MaxRequests
    /\ line' = "request"
    /\ requests' = requests + 1

\* The host stops waiting for the device's clock.
HostGiveUp == line = "request" /\ line' = "idle" /\ UNCHANGED requests

Host ==
    /\ \/ HostInhibit
       \/ HostRelease
       \/ HostRequest
       \/ HostGiveUp
    /\ UNCHANGED <<mutex, reporting, app_vars, snd_vars, hst_vars, in_vars, wire>>

-----------------------------------------------------------------------------
(* The application task: PS2Keyboard::begin(), then key events. *)

BeginTake ==
    /\ app = "begin"
    /\ mutex = "free"
    /\ mutex' = "app"
    /\ app' = "bat"
    /\ UNCHANGED <<line_vars, reporting, offered, events, snd_vars, hst_vars, in_vars, wire>>

\* The self-test result is written once: a busy bus loses it.
BeginSelfTest ==
    /\ app = "bat"
    /\ wire' = IF line = "idle" THEN Append(wire, SelfTest) ELSE wire
    /\ mutex' = "free"
    /\ app' = "run"
    /\ UNCHANGED <<line_vars, reporting, offered, events, snd_vars, hst_vars, in_vars>>

\* Mutant: the flag is not looked at.
KeyEventUnchecked(k, down) ==
    /\ app = "run"
    /\ events < MaxEvents
    /\ events' = events + 1
    /\ app' = "offer"
    /\ offered' = [key |-> k, down |-> down]
    /\ UNCHANGED <<line_vars, mutex, reporting, snd_vars, hst_vars, in_vars, wire>>

\* keydown() and keyup() look at the flag first, and return when it is off ...
KeyEvent(k, down) ==
    /\ app = "run"
    /\ events < MaxEvents
    /\ events' = events + 1
    /\ IF reporting
       THEN app' = "offer" /\ offered' = [key |-> k, down |-> down]
       ELSE UNCHANGED <<app, offered>>
    /\ UNCHANGED <<line_vars, mutex, reporting, snd_vars, hst_vars, in_vars, wire>>

\* Mutants: no limit of the queue; a full queue's newest packet overwritten.
SendPacketUnlimited ==
    /\ app = "offer"
    /\ app' = "run"
    /\ queue' = Append(queue, [no |-> accepted + 1,
                              key |-> offered.key, down |-> offered.down])
    /\ accepted' = accepted + 1
    /\ late' = IF reporting THEN late ELSE late + 1
    /\ UNCHANGED <<line_vars, mutex, reporting, offered, events, snd_vars, hst_vars, wire>>

SendPacketOverwrite ==
    /\ app = "offer"
    /\ app' = "run"
    /\ LET p == [no |-> accepted + 1, key |-> offered.key, down |-> offered.down]
       IN  queue' = IF Len(queue) < QueueLen THEN Append(queue, p)
                    ELSE [queue EXCEPT ![Len(queue)] = p]
    /\ accepted' = accepted + 1
    /\ late' = IF reporting THEN late ELSE late + 1
    /\ UNCHANGED <<line_vars, mutex, reporting, offered, events, snd_vars, hst_vars, wire>>

\* ... and send_packet() then drops the packet when the queue is full.
SendPacket ==
    /\ app = "offer"
    /\ app' = "run"
    /\ IF Len(queue) < QueueLen
       THEN /\ queue' = Append(queue, [no |-> accepted + 1,
                                       key |-> offered.key, down |-> offered.down])
            /\ accepted' = accepted + 1
            /\ late' = IF reporting THEN late ELSE late + 1
       ELSE UNCHANGED in_vars
    /\ UNCHANGED <<line_vars, mutex, reporting, offered, events, snd_vars, hst_vars, wire>>

-----------------------------------------------------------------------------
(* _taskfn_send_packet *)

SendReceive ==
    /\ snd = "receive"
    /\ queue # <<>>
    /\ packet' = Head(queue)
    /\ queue' = Tail(queue)
    /\ snd' = "take"
    /\ UNCHANGED <<line_vars, mutex, reporting, app_vars, pos, sent, hst_vars,
                   accepted, late, wire>>

\* Mutant: the bus mutex is not waited for.
SendTakeUnlocked ==
    /\ snd = "take"
    /\ mutex' = "send"
    /\ snd' = "write"
    /\ pos' = 1
    /\ UNCHANGED <<line_vars, reporting, app_vars, packet, sent, hst_vars, in_vars, wire>>

SendTake ==
    /\ snd = "take"
    /\ mutex = "free"
    /\ mutex' = "send"
    /\ snd' = "write"
    /\ pos' = 1
    /\ UNCHANGED <<line_vars, reporting, app_vars, packet, sent, hst_vars, in_vars, wire>>

\* Mutants: no timeout of write_wait_idle(); a byte written twice.
SendByteNoTimeout ==
    /\ snd = "write"
    /\ pos <= PacketLen(packet)
    /\ line = "idle"
    /\ wire' = Append(wire, PacketByte(packet, pos))
    /\ pos' = pos + 1
    /\ UNCHANGED <<line_vars, mutex, reporting, app_vars, snd, packet, sent, hst_vars, in_vars>>

SendByteTwice ==
    /\ snd = "write"
    /\ pos <= PacketLen(packet)
    /\ LET b == PacketByte(packet, pos)
       IN  wire' = IF line = "idle" THEN wire \o <<b, b>> ELSE wire
    /\ pos' = pos + 1
    /\ UNCHANGED <<line_vars, mutex, reporting, app_vars, snd, packet, sent, hst_vars, in_vars>>

\* write_wait_idle() of one byte: it goes out when the bus is idle, and is
\* skipped when the bus stays busy for 1500 us (the result is ignored).
SendByte ==
    /\ snd = "write"
    /\ pos <= PacketLen(packet)
    /\ wire' = IF line = "idle" THEN Append(wire, PacketByte(packet, pos)) ELSE wire
    /\ pos' = pos + 1
    /\ UNCHANGED <<line_vars, mutex, reporting, app_vars, snd, packet, sent, hst_vars, in_vars>>

SendGive ==
    /\ snd = "write"
    /\ pos > PacketLen(packet)
    /\ mutex' = "free"
    /\ snd' = "receive"
    /\ sent' = Append(sent, packet)
    /\ UNCHANGED <<line_vars, reporting, app_vars, packet, pos, hst_vars, in_vars, wire>>

SendTask == SendReceive \/ SendTake \/ SendByte \/ SendGive

-----------------------------------------------------------------------------
(* _taskfn_process_host_request *)

HostTake ==
    /\ hst = "take"
    /\ mutex = "free"
    /\ mutex' = "host"
    /\ hst' = "check"
    /\ UNCHANGED <<line_vars, reporting, app_vars, snd_vars, script, val, leds, commands, in_vars, wire>>

\* No request, or one withdrawn before read() saw it: give the mutex back.
HostNothing ==
    /\ hst = "check"
    /\ line # "request"
    /\ mutex' = "free"
    /\ hst' = "take"
    /\ UNCHANGED <<line_vars, reporting, app_vars, snd_vars, script, val, leds, commands, in_vars, wire>>

\* read() of a command: with a bad parity bit it is ignored.
HostRead ==
    /\ hst = "check"
    /\ line = "request"
    /\ line' = "idle"
    /\ \/ \E c \in Commands : /\ script' = Reply[c]
                             /\ hst' = "reply"
                             /\ commands' = commands + 1
                             /\ wire' = Append(wire, ExchangeByte(commands', "host"))
                             /\ mutex' = mutex
       \/ hst' = "take" /\ mutex' = "free" /\ UNCHANGED <<script, commands, wire>>
    /\ UNCHANGED <<requests, reporting, app_vars, snd_vars, val, leds, in_vars>>

\* One step of reply_to_host(); Advance leaves what the step does not touch.
Advance ==
    /\ hst = "reply"
    /\ script # <<>>
    /\ script' = Tail(script)
    /\ UNCHANGED <<hst, mutex, app_vars, snd_vars, queue, accepted, requests, commands>>

\* Mutant: the flag set to FALSE in both places.
ReplyFlagOff ==
    /\ Advance
    /\ Head(script) \in {"off", "on"}
    /\ reporting' = FALSE
    /\ late' = 0
    /\ UNCHANGED <<line, val, leds, wire>>

ReplyFlag ==
    /\ Advance
    /\ Head(script) \in {"off", "on"}
    /\ reporting' = (Head(script) = "on")
    /\ late' = 0
    /\ UNCHANGED <<line, val, leds, wire>>

ReplyWrite ==
    /\ Advance
    /\ Head(script) \in {"write", "until"}
    /\ Head(script) = "until" => line = "idle"
    /\ wire' = IF line = "idle" THEN Append(wire, ExchangeByte(commands, "device"))
                ELSE wire
    /\ UNCHANGED <<line, reporting, val, leds, late>>

\* Mutant: the LEDs set as soon as the argument is read.
ReplyArgSetsLeds ==
    /\ Advance
    /\ Head(script) = "arg"
    /\ line = "request"
    /\ line' = "idle"
    /\ val' \in LedArgs
    /\ leds' = val'
    /\ wire' = Append(wire, ExchangeByte(commands, "host"))
    /\ UNCHANGED <<reporting, late>>

\* read(&val): the argument is there before the timeout (0 or 10 ms) ...
ReplyArg ==
    /\ Advance
    /\ Head(script) = "arg"
    /\ line = "request"
    /\ line' = "idle"
    /\ val' \in LedArgs
    /\ wire' = Append(wire, ExchangeByte(commands, "host"))
    /\ UNCHANGED <<reporting, leds, late>>

\* Mutant: read() without a timeout.
ReplyNoArgHangs ==
    /\ hst = "reply"
    /\ script # <<>>
    /\ Head(script) = "arg"
    /\ line = "request"
    /\ script' = <<>>
    /\ line' = "idle"
    /\ UNCHANGED <<requests, mutex, reporting, app_vars, snd_vars, hst, val, leds, commands, in_vars, wire>>

\* ... or it is not, or its parity is bad: the reply ends here.
ReplyNoArg ==
    /\ hst = "reply"
    /\ script # <<>>
    /\ Head(script) = "arg"
    /\ script' = <<>>
    /\ line' = IF line = "request" THEN "idle" ELSE line
    /\ UNCHANGED <<requests, mutex, reporting, app_vars, snd_vars, hst, val, leds, commands, in_vars, wire>>

ReplyLeds ==
    /\ Advance
    /\ Head(script) = "leds"
    /\ leds' = val
    /\ UNCHANGED <<line, reporting, val, late, wire>>

HostGive ==
    /\ hst = "reply"
    /\ script = <<>>
    /\ mutex' = "free"
    /\ hst' = "take"
    /\ val' = {}
    /\ UNCHANGED <<line_vars, reporting, app_vars, snd_vars, script, leds, commands, in_vars, wire>>

ReplyStep == ReplyFlag \/ ReplyWrite \/ ReplyArg \/ ReplyNoArg \/ ReplyLeds
HostTask == HostTake \/ HostNothing \/ HostRead \/ ReplyStep \/ HostGive

-----------------------------------------------------------------------------
Next ==
    \/ Host
    \/ BeginTake
    \/ BeginSelfTest
    \/ \E k \in Keys, down \in BOOLEAN : KeyEvent(k, down)
    \/ SendPacket
    \/ SendTask
    \/ HostTask

Spec == Init /\ [][Next]_vars

\* The FreeRTOS scheduler runs every task that stays ready (weak fairness), and
\* xSemaphoreGive hands the mutex to a waiting task while the one that gave it
\* delays or blocks on the queue (strong fairness of the takes).
Fairness ==
    /\ WF_vars(SendReceive) /\ WF_vars(SendByte) /\ WF_vars(SendGive)
    /\ WF_vars(HostNothing) /\ WF_vars(HostRead)
    /\ WF_vars(ReplyStep) /\ WF_vars(HostGive)
    /\ WF_vars(BeginSelfTest) /\ WF_vars(SendPacket)
    /\ SF_vars(SendTake) /\ SF_vars(HostTake) /\ SF_vars(BeginTake)

FairSpec == Spec /\ Fairness

-----------------------------------------------------------------------------
(* Safety *)

Unit(b) == <<b.kind, b.no>>

Contiguous(w) ==
    \A i, j, k \in DOMAIN w :
        i < j /\ j < k /\ Unit(w[i]) = Unit(w[k]) => Unit(w[j]) = Unit(w[i])

InOrder(w) ==
    \A i, j \in DOMAIN w :
        i < j /\ w[i].kind = "packet" /\ w[j].kind = "packet" =>
            \/ w[i].no < w[j].no
            \/ w[i].no = w[j].no /\ w[i].pos < w[j].pos

\* The bytes of one packet, or of one exchange with the host (its command, the
\* replies, the argument), are contiguous on the wire: no byte of the other task
\* comes between them (_mutex_bus is held from the first byte to the last).
WireContiguous == Contiguous(wire)

\* Scan codes go out in the order keydown() and keyup() queued them, and the
\* bytes of one code in their order; bytes may be missing, none is repeated.
WireInOrder == InOrder(wire)

\* keydown() checks the flag and queues the packet in two steps, so the host task
\* can disable reporting in between: at most that one packet enters the queue
\* while reporting is disabled.
OneLatePacket == ~reporting => late <= 1

\* The LED state the application reads changes only when the host has been told
\* that its argument arrived: the last byte on the wire is the device's answer.
LedsAcknowledged ==
    [][leds' # leds =>
        wire' # <<>> /\ wire'[Len(wire')] = ExchangeByte(commands, "device")]_vars

\* The device implements the FIFO channel the application relies on: from the
\* queue, through the send task's packet, to the wire.
InFlight == IF snd = "receive" THEN queue ELSE <<packet>> \o queue

Channel == INSTANCE KeyChannel
    WITH Packets <- [no : 1 .. MaxEvents, key : Keys, down : BOOLEAN],
         Capacity <- QueueLen + 1, pending <- InFlight, out <- sent

ChannelSpec == Channel!Spec

\* The code went out with every byte.
Whole(p) == \A i \in 1 .. PacketLen(p) : \E j \in DOMAIN wire : wire[j] = PacketByte(p, i)

\* The keys whose last whole code was a make code.
DownKeys ==
    {k \in Keys : \E i \in DOMAIN sent :
        /\ sent[i].key = k /\ sent[i].down /\ Whole(sent[i])
        /\ \A j \in DOMAIN sent : j > i /\ sent[j].key = k => ~Whole(sent[j])}

Line == INSTANCE KeyLine
    WITH Capacity <- QueueLen + 1,
         pending <- [i \in DOMAIN InFlight |-> [key |-> InFlight[i].key, down |-> InFlight[i].down]],
         down <- DownKeys

\* The device implements the line the sketch relies on: the codes leave in the
\* order of the key events, each counts when its turn on the wire ends, and one
\* that lost a byte does not count.
LineSpec == Line!Spec

-----------------------------------------------------------------------------
(* The inductive strengthening of WireContiguous, WireInOrder, OneLatePacket. *)

\* The task between its take and its give is the mutex's holder.
MutexInv ==
    /\ (mutex = "app") <=> (app = "bat")
    /\ (mutex = "send") <=> (snd = "write")
    /\ (mutex = "host") <=> (hst # "take")

\* The queue holds the latest accepted packets, after the send task's.
NumberInv ==
    /\ packet.no + Len(queue) = accepted
    /\ \A i \in DOMAIN queue : queue[i].no = packet.no + i

\* What is on the wire belongs to what was sent so far; the current packet has
\* no byte there before its turn, and only earlier bytes during it.
WireInv ==
    \A i \in DOMAIN wire :
        /\ wire[i].kind = "packet" =>
            /\ wire[i].no <= packet.no
            /\ snd = "take" => wire[i].no < packet.no
            /\ snd = "write" /\ wire[i].no = packet.no => wire[i].pos < pos
        /\ wire[i].kind = "exchange" => wire[i].no <= commands
        /\ wire[i].kind = "bat" => app \in {"run", "offer"} /\ wire[i].no = 0

\* From the first byte of unit u on, the wire carries nothing else.
Suffix(w, u) ==
    \A i, j \in DOMAIN w : i < j /\ Unit(w[i]) = u => Unit(w[j]) = u

\* The unit of the task that holds the mutex is the last one on the wire.
OpenUnitInv ==
    /\ snd = "write" => Suffix(wire, <<"packet", packet.no>>)
    /\ hst = "reply" => Suffix(wire, <<"exchange", commands>>)

LateInv == ~reporting => (late = 0 \/ (late = 1 /\ app # "offer"))

\* Every packet stems from a key event of its own.
EventsInv == accepted + (IF app = "offer" THEN 1 ELSE 0) <= events /\ events <= MaxEvents

IInv == MutexInv /\ NumberInv /\ WireInv /\ OpenUnitInv /\ LateInv /\ EventsInv
        /\ WireContiguous /\ WireInOrder

-----------------------------------------------------------------------------
(* Liveness *)

\* The host stops using the bus at some time.
HostQuiet == <>[](line = "idle")

\* reply_to_host() is in a "while (write(...) != 0)" loop on a busy bus.
Waiting == hst = "reply" /\ script # <<>> /\ Head(script) = "until"

\* A request of the host is read (or withdrawn) unless the device is itself
\* waiting to write: a busy bus never makes the send task keep the mutex.
RequestServed == (line = "request") ~> (line # "request" \/ Waiting)

\* Every packet the queue accepted has its turn on the wire.
PacketsGoOut ==
    HostQuiet => \A n \in 1 .. MaxEvents : (accepted >= n) ~> (Len(sent) >= n)

\* A RESET that has disabled data reporting enables it again, whatever the state
\* was before: the loop on its self-test byte ends and the flag is set after it.
ResetReenables ==
    HostQuiet => ((~reporting /\ script = Tail(Reply["RESET"])) ~> reporting)
=============================================================================
