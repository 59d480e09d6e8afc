# Verification of the gamepad-to-PS/2 adapter

The repository is the firmware of an ESP32 board. It takes up to four Bluetooth
gamepads and keyboards (Bluepad32 on btstack, CPU 0), and turns their reports into
five joystick lines and a PS/2 keyboard (an Arduino sketch, CPU 1; the PS/2 service
tasks, CPU 0). This directory holds TLA+ models of it, TLC runs that check them on
small instances, and proofs checked by TLAPS for every value of the constants.

## The system

    Bluetooth device                                    PS/2 host
          |  HCI / L2CAP events                             ^  clock, data
          v                                                 v
    btstack task (CPU 0)                          PS/2 tasks (CPU 0)
      connection state machines, SDP                send task, host-request task
      device table g_devices                        packet queue, bus mutex
      parsers, report queue                               ^
      platform handlers                                   | keyHid_send()
          |  controllers_[], controller_mutex_            |
          v                                               |
    Arduino loop (CPU 1):  update() -> callbacks -> processControllers()

| component | code | state | operations |
|---|---|---|---|
| PS/2 keyboard device | `esp32-ps2dev.cpp` | `_queue_packet`, `_mutex_bus`, `_data_reporting_enabled`, the LEDs | `begin`, `keydown`, `keyup`, the two tasks, `reply_to_host` |
| Arduino bridge | `arduino_platform.c`, `ArduinoBluepad32.cpp`, `ArduinoController.cpp` | `controllers_[]`, `used_controllers_`, each device's `controller_idx`; `_prevConnectedControllers`, `_controllers[]`; `pending_queue_` | platform handlers on CPU 0; `update()` and the requests on CPU 1 |
| sketch | `sketch.cpp` | `myControllers[]`, the static "previous" flags, the GPIO lines | two callbacks, `processGamepad`, `processKeyboard` |
| HID device table | `uni_hid_device.c` | `g_devices[]`: address, connection state, timers | create, connect, set ready, disconnect, delete |
| report queue | `uni_circular_buffer.c` | 32 places per device | put, get, retry when the channel can send |
| Bluetooth front end | `uni_bt.c` | scanning flags, ring of 8 calls from other threads | event dispatch, deferred calls |
| BR/EDR, SDP, BLE | `uni_bt_bredr.c`, `uni_bt_sdp.c`, `uni_bt_le.c` | connection state of each device, the one `sdp_device` and its timer | event handlers, state machine |
| controller parsers | `parser/*.c` | set-up state, calibration, rumble state and the timers of both, in the memory of the device | set-up, decode, lights, rumble |
| allowlist | `uni_bt_allowlist.c` | four addresses, in flash | add, remove, lookup |

What makes it hard to test:

- *Two CPUs.* Only the data of a slot of `controllers_[]` is under
  `controller_mutex_`. A slot is assigned index first, properties later, and it is
  cleared by a `memset`; `update()` may look at any moment in between.
- *Three tasks on one wire.* Codes and replies share the bus under one mutex, while
  the host may inhibit the bus, ask to send or give up between any two bytes. The
  waiting loops have a timeout for codes and none for some of the replies.
- *Losses.* A code is dropped when reporting is disabled or the queue is full, and
  is torn when the bus stays busy. Nobody looks at the result, and the previous
  state is updated anyway.
- *Shared state in the sketch.* All gamepads share one set of flags, all keyboards
  another, both share the keys: one controller's report breaks what another still
  holds. A selector pin changes what the buttons mean.
- *Retries.* A report L2CAP cannot take is queued and waits for an event that comes
  only if somebody asked for it, on either of two channels.
- *Calls between tasks.* The Arduino and the console task call into the btstack task
  through a ring of eight registrations whose index nothing protects.
- *Names that outlive what they name.* A request names a slot, a deferred disconnection
  a place in `g_devices[]`, a BLE event the handle of a link, a reply of a controller
  nothing but the state the set-up is in. By the time it is used the name may stand for
  another controller, link or subcommand.
- *Timers in the memory of a device.* They are in btstack's list of timers; deleting the
  device clears the memory they lie in.
- *Life cycles.* A device can vanish between any two steps: connection, seat,
  properties, data. `used_controllers_`, the slots and the devices' indices are
  separate pieces of state that have to agree.

PROJECT.json lists these hazards one by one, at the lines where they bite.

## The modules

| module | models | uses |
|---|---|---|
| `Ps2Keyboard` | the PS/2 device byte by byte: application, send task, host-request task, host | refines `KeyChannel` and `KeyLine` |
| `KeyChannel` | abstract: a bounded FIFO of packets | |
| `KeyLine` | abstract: make and break codes on their way, and the keys that are down | |
| `ControllerBridge` | the way of a controller from `g_devices[]` to `myControllers[]`, store by store | |
| `Sketch` | `processGamepad`, `processKeyboard`, and the key line | `KeyLine` |
| `ReportQueue` | the reports to a device: circular buffer, retry, L2CAP's event | refines `ReportLine` |
| `ReportLine` | abstract: reports leave in order, lost only to a full line or a deletion | |
| `SafeCalls` | the ring of registrations and the run loop's list | |
| `Requests` | the requests of the sketch, the deferred disconnection, and the controllers they name | extends `SafeCalls` |
| `Devices` | the life of BR/EDR devices: discovery, names, channels, SDP, timers | |
| `BleDevices` | the life of BLE devices: advertisement, link, pairing, HID service, scan | |
| `Controllers` | the set-up and the rumble of a Switch controller | |
| `MC*` modules | constants for TLC | |
| `*_proofs` modules | theorems and proofs | |

**Ps2Keyboard.** A step is one byte on the wire or one step of a task between two
calls that can block; `write()` and `read()` run in critical sections. `line` is what
`get_bus_state()` returns and is the host's to change at any moment. `Reply` holds,
for each command, the steps of its case of `reply_to_host()`: `Write` for a write
whose result is ignored, `Until` for a `while (write(...) != 0)` loop, `arg` for
`read(&val)`. `wire`, `sent`, `accepted`, `late` and `commands` are history. A packet
carries the number it got in the queue; scan codes themselves are not modelled, their
lengths are, and of the bytes of an exchange only which side they come from.

**KeyChannel, KeyLine.** `KeyChannel` says that an accepted packet has its turn on the
bus once and in order. `KeyLine` is the same line seen from the application: a
code goes out whole or torn, and a key is down if the last of its whole codes is a
make code. What a host makes of the bytes of a torn code is its own affair (a break
code that lost its prefix reads like a make code); the models claim nothing about them.

**ControllerBridge.** CPU 0 runs handlers one after the other (`h0` is the handler
that is running); assigning and clearing a slot are several steps each, because CPU 1
reads the slot without the mutex. CPU 1 runs `update()` slot by slot (`at`, `i1`), then
the loop over the changes, then the sketch's `processControllers()`. Data and
properties are the number of the session of the controller they came from, `Zero`
after a `memset`, `Torn` between two stores. Device creation, connection and deletion
are those of `uni_hid_device.c` as far as the platform sees them.

**Sketch.** `ProcessGamepad(report)` computes new flags and the set of calls of
`keyHid_send()` that follow (`due`); the calls are made one by one in the order of the
code, and each is accepted or lost. `lost` remembers the keys whose latest code was
lost and would have changed the key. The code does not know which controller holds a key:
its flags are those of the last report of any gamepad, or of any keyboard. The
history `held` does, and `taken` remembers the keys that somebody holds although another
controller's report has released them. `NoMissedKey` says that this and a lost code are the
only ways for a held key to be up, so one gamepad or keyboard alone is never wronged.

**ReportQueue.** One device, its two channels and one bit `canSend` for the room in HCI.
`SendReport` is `uni_hid_device_send_report()`: `l2cap_send`, the buffer if that fails,
and the request for the event either way. `CanSendNow` is the event; the report it takes
may be for the other channel. Nested calls (L2CAP emits the event from inside the
request) are steps in a row, as the event is the last thing each handler does; `Quiet`
keeps everything else out until they are over. A report is its number. Reports are
assumed to fit the 128 bytes of a place and the MTU of the channel: the ones of the
parsers do.

**SafeCalls.** A call is four steps of its caller: read the index, write it, fill the
registration in, add it to the list; the run loop pops a registration under the list's
mutex and then reads its context. Nothing keeps these steps apart, as nothing in the
code does: two callers may read the same index, and a caller may come round to a
registration that still waits. The list refuses a registration that is in it already, as
`btstack_linked_list_add_tail()` does. `shared` remembers the calls that had a registration
with another one; `raced` that a call read the index before another one had written it,
`crowded` that a call began while the one `CMD_CALLBACK_MAX` before it waited. The
properties say that calls with a registration of their own are safe whatever the others
do, and that a race or a crowd is needed to share one.

**Devices.** Every handler runs to its end on the btstack task, so a handler is one action;
the functions it calls (the state machine, the start and end of a query, the deletion of a
device) map a record `g` of the whole state to another, and call each other as in the code.
Pointers are places of the table: `sdp.device` is `sdp_device` and may outlive its device.
`bt` is btstack: links, channels, the one name request, the one SDP query, and, while a
link ends, what it still has to tell of it (`closing`, `left`; nothing else happens then).
Two habits of btstack matter: a channel asked for while a link ends is kept and makes it page
the device again (`l2cap.c:2544`, `hci.c:4325`), and it sends one name request at a time. Assumptions on the world: the
controller asks for a name before it pages the device; a page ends before the connection
timeout; a device has one control and one interrupt channel and refuses a second; a
device is silent while it is paged or its link is taken down. `Callers` are the devices
that connect by themselves, `Eager` says whether they do so after they were discovered.
`type` keeps what the state machine asks of a parser: whether it needs the HID descriptor
or has a set-up of its own; a query that fails gives the Android parser. `PlacesKept` says that
a place is never lost: its device is ready, or a timer runs that will delete it.

**Requests.** `process_pending_requests()` runs with the next report of any controller, until
the queue is empty or a request has lost its controller; `taking` is true from the report
to the end of that loop. A disconnection becomes a safe call, made by the btstack task
itself in the four steps of `SafeCalls`; `target` is the place in `g_devices[]` it
names. When the run loop executes the call it deletes whatever is in that place. `meant` is
the controller the sketch had in mind: `Aimed` says that another controller can only be
hit after that one has left. It can be then; the code does not look.

**BleDevices.** The same technique as `Devices`: a handler is a function of a record. A place is
found by handle, by client identifier or by address. `uni_hid_device_create()` clears the
place (`uni_hid_device.c:74`), so its handle is 0 until it is linked, and 0 is a handle the
controller uses; `mixed` remembers that such a place met the link of another device, and
the claims about seats, service and scan are made for runs where that never happened. A
device that does not answer is deleted by its connection timer without a link to take down,
so nothing resumes the scan; `abandoned` remembers that until the scan is on again.
`ScanResumes` is what the code does, but for these two; `ScanNotForgotten` is what its
comments say.

**Controllers.** `switch_instance_t` of one controller. The replies of the controller come in
order but late, short, longer than asked (the clones of `uni_hid_parser_switch.c:502`) or
never; `process_fsm()` moves on with any reply, and `Taken` is what the state makes of its
data. A reply is the size it reports, `padded` the reads that were answered with more than
was asked for. `setup_timer` runs out once and is not started again, so a set-up
that loses a second reply ends with the connection timer. Rumble is its state and its two
timers. `Delete` clears the memory of the device; when a timer of the parser is in
the list of the run loop then, the model ends (`halted`), and so it does at a
failed assertion. Which report mode a subcommand sets is left out.

## The runs

| run | constants | checks |
|---|---|---|
| `ps2_keyboard` | 1 key (1-byte make, 2-byte break), queue of 1, 2 key events, 2 host requests | type; bytes of a packet or exchange contiguous; codes in order; at most one late packet; LEDs only after the acknowledge; refinement of `KeyChannel` and `KeyLine`; requests served, packets go out, RESET ends with reporting enabled |
| `bridge` | 2 devices and slots, 2 sessions | type; slots match devices; a seat for all; data of the owner; one entry for each controller; the sketch's table follows the slots; reports are taken |
| `sketch` | 2 gamepads with Y and D-pad up, 2 keyboards with Up; a line of 2 codes | type; no stuck key; no missed key |
| `sketch_layout` | a gamepad with Y, D-pad up, Share, and a keyboard with F9 | violation: `sketch.cpp:216` |
| `report_queue` | buffer of 3 places, 7 reports, 4 channels (a device and its successor) | somebody waits; type and queue invariant; refinement of `ReportLine`; the queue drains |
| `safe_calls` | module `Requests`: the sketch's CPU and the btstack task call; 2 registrations, 3 calls; 2 places, a queue of 2, 3 requests, 2 controllers | no call lost that has its own registration; shared only after a race or a crowd; all of them executed; disconnections aimed right; requests taken |
| `devices` | 2 places; a DualShock 4, and a device known by its name that also calls; not eager | type; one place for each device; no place lost; seats match devices |
| `devices_timers` | the same, eager | violation: the assertion of `btstack_run_loop.c:112` |
| `ble` | 2 places, 3 devices, handles 0 and 1 | type; the table's invariant (handles, seats, service, the information client); the scan is paused only while a device connects; it goes on afterwards, but for the next run |
| `ble_scan` | 1 place, 1 device | violation: `uni_bt_le.c:85` and `:97` |
| `controllers` | at most 2 subcommands wait once the controller is ready; replies of 0, 9, 11, 18, 22, 24 and 30 bytes | calibration from the right reply; rumble and its timers agree; the set-up ends |
| `rumble` | 1 subcommand; replies of 0 and 24 bytes | violation: the assertion of `uni_hid_parser_switch.c:1368` |

Why the bounds are enough. In `ps2_keyboard` a queue of one is full at the second
event, so refusal, order of two codes and the send task's own packet all happen; two
requests give an exchange with an argument, or two commands that differ. In `bridge`
two slots and two sessions suffice for a swap of owners in one slot, for a slot
freed below a used one, and for a device that fails before it is ready while another
holds slot 0; the proofs cover any number. In `sketch` Y and D-pad up are the same key
(Up) in the two layouts and a joystick line in the other, the keyboards have that key too,
two controllers of each kind take it from each other within their kind and across, and a
line of two is full after two calls, which one report makes; the keys that have the same
meaning in both layouts (Share, Options) are in `sketch_layout` and in the proofs. In
`devices` two devices meet at each thing there is one of (the query, the name request, the
lowest free place), and the two kinds take the three orders of query and channels. In
`ble` a third device finds the table full and takes the place of one that has left, with a
handle that was used before; handle 0 is also that of a place without a link. In
`safe_calls` a ring of two is used up by the second call and the third comes round to a
registration that may still wait; the two callers race at every step; a queue of two
holds a request behind one that ends the round, the second controller may sit in another slot
than place or take the ones of the first, which a request or a call still names. In `controllers` the set-up has at most
two subcommands waiting, because its timer fires once: the bound is met only by lights set
before the replies to the set-up have come. The sizes are what the reads ask for (9 and 18
for the sticks, 11 and 22 for the user's, 24 for the IMU), nothing, and one more than any; so every
read can be answered in full, short, with more, and with the size of another.

No run switches deadlock checking off. The models never stop, except where their bounds
or the program do: `Requests.DoneRequests` and `Controllers.Halt` are the steps of a
system that has come to its end, and nothing else may stutter there.

## Fairness

FreeRTOS runs every ready task (the PS/2 tasks block or delay in every round), so their
steps are weakly fair. A mutex is given to the waiting task of the highest priority
as soon as it is released, and its releaser then delays or blocks, so the takes are
strongly fair. The host has no fairness: where progress needs the bus, the property
assumes `HostQuiet` (the bus is idle from some time on). In `ControllerBridge` a
handler that has begun ends, and `loop()` runs for ever; controllers may do nothing.
In `ReportQueue` L2CAP emits the event at once and the transport tells when a packet is
sent (weak fairness of `CanSendNow` and `PacketSent`). In `SafeCalls` a call begun is
finished, and the run loop, woken by every call, goes on until the list is empty. In
`Requests` a handler ends, and the run loop gets its
turn between handlers however often they run (strong fairness of `RunLoop`). The code does
not make controllers send: `RequestsTaken` has their reports as its hypothesis
(`ReportsCome`: reports go on coming, of whichever controller, while there is one). In
`BleDevices` a connection timer that runs fires or is stopped, and a link that is being
taken down ends. In `Controllers` the connection timer fires if it keeps running; nothing is
assumed of the replies or of `setup_timer`.

## What the violations show

1. `sketch_layout`: on a change of layout the flags are cleared even if the releases
   are dropped; no later report repeats them.
2. `devices_timers`: a device is discovered, its name is asked for, and it connects by itself
   before the answer. Its interrupt channel opens without a name, so the state machine asks
   again and adds a timer that is running: btstack asserts, and the board restarts.
3. `ble_scan`: the scan is stopped to connect to a device that does not answer, and its
   connection timer deletes it. There is no link to take down, btstack goes on connecting, and
   the link that comes in the end has no device whose disconnection would resume the scan.
4. `rumble`: a rumble is delayed; it is stopped, or has no duration, before it began.
   `switch_play_dual_rumble_now()` stops whatever is not disabled, and the stop asserts that
   the rumble is in progress. `uni_hid_parser_ds4.c:602` and `:626` are the same pair; other
   parsers look at the state first or assert less.

Some formulas are in the modules although they do not hold, and no run lists them. To see
how they fail, put one as an INVARIANT into the configuration named here:

- `ControllerBridge.AnnouncedFirst` (`MCControllerBridge.cfg`): `update()` compares sets of
  slots. A controller that leaves and another that takes its slot between two polls look
  like one controller; the second is never announced (`sketch.cpp:63`).
- `ControllerBridge.CachedProperties` (the same): a slot's index is published before its
  properties, so CPU 1 can copy zeros or a mixture, and keeps them for the whole session
  (`ArduinoController.cpp:160`).
- `SafeCalls.UpToMax` (`MCSafeCalls.cfg`): two tasks make a call at the same time and read the
  same index. Both get the same registration of the ring; the second overwrites what the
  first has filled in, the list takes the registration once, and the first call is never
  made, although `uni_bt.h:24` says that the functions are safe to call from another task or
  CPU and `uni_bt.c:80` that up to `CMD_CALLBACK_MAX` calls can wait.
- `Sketch.OncePerPress` (`MCSketch.cfg`, with the key "A" instead of "Up"): a key is held on one
  keyboard while another one, which does not hold it, sends a report. The flags they share
  turn that into a break code, and the next report of the first into another make code,
  although they are there "to generate make/break events only once" (`sketch.cpp:60`).
  Gamepads share theirs in the same way; `NoMissedKey` says exactly when.

`Devices` shows two more weak spots, which no run states as properties because the code
makes no promise about them: `sdp_device` dangles after its device is deleted, and a query
that was started for a late name can take a ready device back to an earlier state.

`report_queue` answers the question of `uni_hid_device.c:820` ("Is this really needed?"):
yes. If the event is asked for only after a failure (the mutant
`SendReportAsksOnFailure`), a report sent by the retry leaves nobody waiting and
the rest of the buffer is stranded until the next report, which overtakes it.

## What is proved

`Ps2Keyboard_proofs` (for every set of keys, code lengths, queue length and bounds):
`TypeCorrect`; `Inductive`, the invariant `IInv`; from it `WireContiguity`, `WireOrder`,
`LatePackets`; and `Refinement`, that the device implements `KeyChannel`. The wire
properties are not inductive alone: a byte may be appended because its task holds the
mutex (`MutexInv`), because its unit is the last one on the wire (`OpenUnitInv`), and
because everything else on the wire has a smaller number (`WireInv`, `NumberInv`). For
the refinement, packets stay within the abstract set because each stems from a key
event of its own (`EventsInv`).

`ControllerBridge_proofs` (for every number of devices): `Inductive`, the invariant
`BridgeInv`, and from it `SlotsAlwaysMatch`, `AlwaysASeat`, `DataIsOfOwner`. The invariant
says for each state of the running handler who owns the slot: one that is being
assigned has no owner yet, one that is being cleared still has one but is no longer
counted. `AlwaysASeat` is a counting argument: if no slot is free, the owners of the
slots are as many as the slots, so every device is ready.

The same module proves `TypesAlwaysRight` and `EachHasOneEntry`. `OneEntryEach` speaks of the
moments when the sketch looks at `myControllers`, so the invariant follows `update()`:
what it has told the sketch so far (`Told`) and has still to tell is exactly the
difference between the two sets of slots (`EntriesInv`), wherever the loop stands.

`ReportQueue_proofs` (for every size of at least two): `Inductive`, that every queued
report is for a channel the device has (`QueuedForLive`) and that such a channel waits
(`SomeoneWaits`, the theorem `AlwaysSomeoneWaits`); and `Refinement`, that the wrapped
buffer with its retries implements `ReportLine`. Order needs both: `CanSendNow` can only
be pending when HCI has room, so a new report is sent past the buffer only if the
buffer is empty, and the report of a retry always goes out, so it is never put back.

`SafeCalls_proofs` (for any number of callers, registrations and calls, whatever overlaps):
`Inductive`, the invariant `CallsInv`; from it `NoCallIsLost`, `CallsInOrder` and
`OwnUnlessRacedOrCrowded`, and `TypesAlwaysRight`. The history `shared` is what makes it
go through without a lock: a call outside it has a registration that nobody else fills in
(`MakingInv`, `WaitingInv`), so it stays in its caller, in the list or in the run loop until it
is executed (`LossInv`), and the calls of one caller enter the list one after the other (`OrderInv`). That the
ring gives everybody a free registration without a race is a count: as long as nobody
races, the index has moved once for each call, so a registration comes round
again after exactly `CMD_CALLBACK_MAX` calls (`RingInv`), and if its last call still waited
then, that is a crowd. Of `Requests`: `RequestsAreCalls`, that the requests use
the ring as `SafeCalls.Spec` says, which carries those theorems over to the
disconnections; and `RequestsAimed`, because a controller keeps its
slot and its place of the table while it is there, and a request, a call and a registration
all name one of the two. A registration two calls share still holds one of them whole.

`Sketch_proofs` (for any gamepads and keyboards, any inputs pressed at once, any finite set
of keyboard keys, any length of the line): `Inductive`, and from it `TypesAlwaysRight`, `NeverAStuckKey` and
`NeverAMissedKey`. The properties speak of moments when no call is due, so the
invariant has to say what the due calls will do: a key none of whose calls is due is
already right on the line (`QuietRight`), and of two due calls for one key the release
comes first (`ReleasesFirst`). The flags alone do not say that a held key
is down: of a key that is held and not `taken` every due call makes it so (`DueHeld`), and
without one it is so on the line. Refused codes are excluded by `lost` alone; nothing else is
assumed about them.

`Controllers_proofs` (for any number of waiting subcommands): `SetupInductive` and
`CalibrationsAreOwn`. Every reply moves the set-up on, so after a time-out the
subcommand that is answered need not be that of the state, and the reply is taken for the
state's own. It is told from it by what it cannot have: no earlier read has the mark of the
user's calibration or, unless it is `padded`, the size of the IMU's, and none comes before
the first. The IMU's calibration is the weak one: only its size tells it, and a late reply of a clone
to a read of the sticks may have that size; `CalibrationRight` allows for this case and no other. `Waiting`
says that what waits was sent by the state the set-up has come to, each read with its own
size. Until a time-out at most one waits, that of
the state (`InTime`), so a controller that always answers in time gets ready as what it
is. `TimersMatchRumble` needs no more than the rumble's own state.

`BleDevices_proofs` (for every number of places, devices and handles): `Inductive`, from it
`TypesAlwaysRight`, `TableAlwaysRight` and `PausedToConnect`. Three layers: `Tidy` (links have their
own handles, a place has its link's, btstack does one thing at a time about a link) holds
always; `Served` (clients, readiness, seats) as long as no handle is ambiguous; and a paused
scan has a connection that resumes it, or one of the two ghosts is set. `Ambiguous` is
itself part of the argument: a place with handle 0 whose device has no link, while
another device's link has handle 0.

`Devices_proofs` (for every number of places and devices): `Inductive`, from it
`TypesAlwaysRight`, `OnceInTheTable`, `SeatsAlwaysMatch` and `NoPlaceKept`. `TableInv` is inductive alone
and gives the first two. That a seated device cannot be left without a link needs all of
the rest. A place whose device is connected has its interrupt channel open (`LifeAt`), and
a link that is not there has no channels (`AddrInv`), so a place is only in danger when a
channel closes and the handler does not find it. That is when the channel was asked for
twice: the control channel can be asked for by the name's timer, by the late name and by
the query that goes before the channel, and `Budget` counts how many of these are still to
come, so that there are never more than two requests, and each is answered; the interrupt
channel is asked for once. A handler never ends with a device in a state the
state machine would act on (`SettledAt`), so no handler starts twice what another has begun.

The last argument corrected the model: until then a second request for a channel was
forgotten when the link ended, and the invariant failed at the end of a link. l2cap keeps a
channel that waits for its link, so `CloseLink` now carries it over to the next page.

The assumptions are those of the modules' `ASSUME`s, nothing else: positive queue
length and number of devices, natural code lengths, a buffer of at least two places,
handles in the range of HCI (0 to 3839), addresses that differ from "none", and a keyboard with
finitely many keys.

Only model-checked: the liveness properties (fairness is beyond the prover), and
`Ps2Keyboard.LineSpec` and `LedsAcknowledged`.

## Plan

Proofs that are left:

1. `Ps2Keyboard` implements `KeyLine` (`LineSpec`), beside the refinement of `KeyChannel`: it
   needs the codes on the wire related to the packets of the line.
2. `Ps2Keyboard.LedsAcknowledged`, an action property, from the steps of `Reply`.

Modelling that is left: the set-ups of the Wii and Steam parsers, which have a dialogue
of their own; bridge and sketch in one model, to say what a disconnection leaves
pressed; the allowlist.

## Not modelled

Mouse emulation (`PS2Mouse` is never instantiated), virtual devices and the BLE
service (disabled by `setup()`), the other platforms (not compiled), `main/ps2dev` (an
unused copy), the allowlist (off unless a property in flash turns it on), console, flash storage, and
the vendored libraries. Of the parsers only the Switch one is modelled: decoding a report
is data, one decoder per controller model, and most of the others are ready at once. The
Steam parser shares one static device among all its controllers
(`uni_hid_parser_steam.c:95`), which no model shows. Time in milliseconds is not
modelled either, only which timeout may fire when. The scan-code and key tables are data: a wrong
entry is not something these models could find.

Most of the repository is not the program: btstack, the ESP-IDF components and the
Arduino core are libraries, modelled where the code relies on what they do (the run
loop's list and timers, L2CAP's events, the one name request, the security manager,
the HID client) and marked as external.
