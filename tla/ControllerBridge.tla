-------------------------- MODULE ControllerBridge --------------------------
(***************************************************************************)
(* How controllers reach the application.  The Bluetooth task (CPU 0) runs *)
(* the platform handlers of arduino_platform.c one after the other; they   *)
(* give each ready device a slot of controllers_[].  The application task  *)
(* (CPU 1) polls the slots in Bluepad32::update(), calls the sketch's      *)
(* callbacks and lets the sketch process the data.                         *)
(*                                                                         *)
(* Only the data of a slot is under controller_mutex_: assigning a slot    *)
(* and clearing it are not, so both are modelled store by store.           *)
(***************************************************************************)
EXTENDS Integers, FiniteSets

CONSTANTS
    N,             \* CONFIG_BLUEPAD32_MAX_DEVICES: devices, slots, app controllers
    MaxSessions    \* bound: controllers that get ready

ASSUME BridgeAssumption == N \in Nat \ {0} /\ MaxSessions \in Nat

Slots   == 0 .. N - 1
Invalid == -1          \* UNI_ARDUINO_GAMEPAD_INVALID

\* Data and properties of a controller are the number of its session (the n-th
\* controller that got ready): Zero after a memset, Torn between two stores.
Sessions == 1 .. MaxSessions
Zero     == 0
Torn     == -1
Content  == Sessions \cup {Zero, Torn}

VARIABLES
    \* CPU 0
    dev,        \* g_devices[d]: "free", "created", "connected" or "ready"
    ins,        \* its arduino_instance_t.controller_idx
    session,    \* its session, Zero until it is ready
    used,       \* used_controllers_
    h0,         \* the handler that is running: "none", "props", "ready", "clear", "drop"
    d0,         \* its device (0 when no handler runs)
    i0,         \* its slot (0 when no handler runs)
    \* Shared
    idx,        \* controllers_[i].idx
    props,      \* controllers_[i].properties
    data,       \* controllers_[i].data
    updated,    \* controllers_[i].data_updated
    mutex,      \* controller_mutex_: "free", or "app" while CPU 1 copies
    \* CPU 1
    at,         \* where update() is: "poll", "take", "clear", "changes", "props", "process"
    i1,         \* its loop index
    mask,       \* connectedControllers
    prevMask,   \* _prevConnectedControllers
    anyData,    \* data_updated, the result of update()
    hasData,    \* _controllers[i]._hasData
    appData,    \* _controllers[i]._data
    appProps,   \* _controllers[i]._properties
    connected,  \* _controllers[i]._connected
    mine,       \* myControllers: the slot each entry points to, or Invalid
    \* History, read by no guard.
    sessions,   \* sessions so far
    announced   \* the sessions onConnectedController() was called for

cpu0   == <<dev, ins, session, used, h0, d0, i0, sessions>>
shared == <<idx, props, data, updated>>
polled == <<mask, anyData, hasData, appData>>
told   == <<prevMask, appProps, connected, mine, announced>>
cpu1   == <<mutex, at, i1, polled, told>>
vars   == <<cpu0, shared, cpu1>>

\* The types of the variables.
TypeOK ==
    /\ dev \in [Slots -> {"free", "created", "connected", "ready"}]
    /\ ins \in [Slots -> Slots \cup {Invalid}]
    /\ session \in [Slots -> Sessions \cup {Zero}]
    /\ used \in 0 .. N
    /\ h0 \in {"none", "props", "ready", "clear", "drop"}
    /\ d0 \in Slots /\ i0 \in Slots
    /\ idx \in [Slots -> Slots \cup {Invalid}]
    /\ props \in [Slots -> Content] /\ data \in [Slots -> Content]
    /\ updated \in [Slots -> BOOLEAN]
    /\ mutex \in {"free", "app"}
    /\ at \in {"poll", "take", "clear", "changes", "props", "process"}
    /\ i1 \in 0 .. N
    /\ mask \subseteq Slots /\ prevMask \subseteq Slots
    /\ anyData \in BOOLEAN
    /\ hasData \in [Slots -> BOOLEAN] /\ connected \in [Slots -> BOOLEAN]
    /\ appData \in [Slots -> Content] /\ appProps \in [Slots -> Content]
    /\ mine \in [Slots -> Slots \cup {Invalid}]
    /\ sessions \in Sessions \cup {0}
    /\ announced \subseteq Sessions

\* uni_hid_device_setup() and arduino_init() have run; the sketch is in loop().
Init ==
    /\ dev = [d \in Slots |-> "free"]
    /\ ins = [d \in Slots |-> 0]
    /\ session = [d \in Slots |-> Zero]
    /\ used = 0 /\ h0 = "none" /\ d0 = 0 /\ i0 = 0
    /\ idx = [i \in Slots |-> Invalid]
    /\ props = [i \in Slots |-> Zero] /\ data = [i \in Slots |-> Zero]
    /\ updated = [i \in Slots |-> FALSE]
    /\ mutex = "free" /\ at = "poll" /\ i1 = 0
    /\ mask = {} /\ prevMask = {} /\ anyData = FALSE
    /\ hasData = [i \in Slots |-> FALSE] /\ connected = [i \in Slots |-> FALSE]
    /\ appData = [i \in Slots |-> Zero] /\ appProps = [i \in Slots |-> Zero]
    /\ mine = [i \in Slots |-> Invalid]
    /\ sessions = 0
    /\ announced = {}

First(S) == CHOOSE i \in S : \A j \in S : i <= j

-----------------------------------------------------------------------------
(* CPU 0.  A handler runs to its end before the next event: h0 = "none". *)

\* uni_hid_device_create(): the whole entry is zero, its slot number included.
Create ==
    /\ h0 = "none"
    /\ LET free == {d \in Slots : dev[d] = "free"}
       IN  free # {} /\ dev' = [dev EXCEPT ![First(free)] = "created"]
    /\ UNCHANGED <<ins, session, used, h0, d0, i0, sessions, shared, cpu1>>

\* uni_hid_device_connect() and arduino_on_device_connected()
Connect(d) ==
    /\ h0 = "none"
    /\ dev[d] = "created"
    /\ dev' = [dev EXCEPT ![d] = "connected"]
    /\ ins' = [ins EXCEPT ![d] = Invalid]
    /\ UNCHANGED <<session, used, h0, d0, i0, sessions, shared, cpu1>>

\* uni_hid_device_set_ready_complete(), arduino_on_device_ready(): a device that
\* finds no seat is disconnected and deleted, one that does takes the first slot.
\* (Were there a seat but no free slot, the device would be ready without one.)
Ready(d) ==
    /\ h0 = "none"
    /\ dev[d] = "connected"
    /\ sessions < MaxSessions
    /\ LET free == {i \in Slots : idx[i] = Invalid}
       IN  IF used = N
           THEN /\ dev' = [dev EXCEPT ![d] = "free"]
                /\ ins' = [ins EXCEPT ![d] = 0]
                /\ UNCHANGED <<h0, d0, i0, idx>>
           ELSE IF free = {}
           THEN /\ dev' = [dev EXCEPT ![d] = "ready"]
                /\ UNCHANGED <<ins, h0, d0, i0, idx>>
           ELSE /\ h0' = "props" /\ d0' = d /\ i0' = First(free)
                /\ idx' = [idx EXCEPT ![i0'] = i0']
                /\ UNCHANGED <<dev, ins>>
    /\ sessions' = sessions + 1
    /\ session' = [session EXCEPT ![d] = IF h0' = "props" THEN sessions' ELSE Zero]
    /\ UNCHANGED <<used, props, data, updated, cpu1>>

\* The slot's properties are filled in after its index ...
ReadyProps ==
    /\ h0 = "props"
    /\ h0' = "ready"
    /\ props' = [props EXCEPT ![i0] = Torn]
    /\ UNCHANGED <<dev, ins, session, used, d0, i0, sessions, idx, data, updated, cpu1>>

\* ... and the device gets its slot and is ready at last.
ReadyDone ==
    /\ h0 = "ready"
    /\ h0' = "none"
    /\ props' = [props EXCEPT ![i0] = session[d0]]
    /\ ins' = [ins EXCEPT ![d0] = i0]
    /\ used' = used + 1
    /\ dev' = [dev EXCEPT ![d0] = "ready"]
    /\ d0' = 0 /\ i0' = 0
    /\ UNCHANGED <<session, sessions, idx, data, updated, cpu1>>

\* uni_hid_device_process_controller(), arduino_on_controller_data()
ControllerData(d) ==
    /\ h0 = "none"
    /\ dev[d] = "ready"
    /\ ins[d] \in Slots
    /\ mutex = "free"
    /\ data' = [data EXCEPT ![ins[d]] = session[d]]
    /\ updated' = [updated EXCEPT ![ins[d]] = TRUE]
    /\ UNCHANGED <<cpu0, idx, props, cpu1>>

\* Mutant: the platform is told of a device that was never connected.
DropUnconnected(d) ==
    /\ h0 = "none"
    /\ dev[d] # "free"
    /\ IF ins[d] # Invalid
       THEN /\ h0' = "clear" /\ d0' = d /\ i0' = ins[d]
            /\ used' = used - 1
            /\ idx' = [idx EXCEPT ![ins[d]] = 0]
            /\ data' = [data EXCEPT ![ins[d]] = Torn]
            /\ UNCHANGED <<dev, ins, session>>
       ELSE /\ dev' = [dev EXCEPT ![d] = "free"]
            /\ ins' = [ins EXCEPT ![d] = 0]
            /\ session' = [session EXCEPT ![d] = Zero]
            /\ UNCHANGED <<used, h0, d0, i0, idx, data>>
    /\ UNCHANGED <<sessions, props, updated, cpu1>>

\* uni_hid_device_disconnect() and _delete(), on a disconnection, a connection
\* timeout or a failure at any time.  Only a connected device is reported to
\* arduino_on_device_disconnected(), which clears the device's slot: the memset
\* goes through index, data, flag and properties.
Drop(d) ==
    /\ h0 = "none"
    /\ dev[d] # "free"
    /\ IF dev[d] # "created" /\ ins[d] # Invalid
       THEN /\ h0' = "clear" /\ d0' = d /\ i0' = ins[d]
            /\ used' = used - 1
            /\ idx' = [idx EXCEPT ![ins[d]] = 0]
            /\ data' = [data EXCEPT ![ins[d]] = Torn]
            /\ UNCHANGED <<dev, ins, session>>
       ELSE /\ dev' = [dev EXCEPT ![d] = "free"]
            /\ ins' = [ins EXCEPT ![d] = 0]
            /\ session' = [session EXCEPT ![d] = Zero]
            /\ UNCHANGED <<used, h0, d0, i0, idx, data>>
    /\ UNCHANGED <<sessions, props, updated, cpu1>>

\* Mutant: the flag is not cleared with the data.
DropClearKeepsFlag ==
    /\ h0 = "clear"
    /\ h0' = "drop"
    /\ data' = [data EXCEPT ![i0] = Zero]
    /\ props' = [props EXCEPT ![i0] = Zero]
    /\ UNCHANGED <<dev, ins, session, used, d0, i0, sessions, idx, updated, cpu1>>

DropClear ==
    /\ h0 = "clear"
    /\ h0' = "drop"
    /\ data' = [data EXCEPT ![i0] = Zero]
    /\ updated' = [updated EXCEPT ![i0] = FALSE]
    /\ props' = [props EXCEPT ![i0] = Zero]
    /\ UNCHANGED <<dev, ins, session, used, d0, i0, sessions, idx, cpu1>>

\* Mutant: the index stays as the memset left it.
DropDoneZeroIdx ==
    /\ h0 = "drop"
    /\ h0' = "none"
    /\ dev' = [dev EXCEPT ![d0] = "free"]
    /\ ins' = [ins EXCEPT ![d0] = 0]
    /\ session' = [session EXCEPT ![d0] = Zero]
    /\ d0' = 0 /\ i0' = 0
    /\ UNCHANGED <<used, sessions, shared, cpu1>>

DropDone ==
    /\ h0 = "drop"
    /\ h0' = "none"
    /\ idx' = [idx EXCEPT ![i0] = Invalid]
    /\ dev' = [dev EXCEPT ![d0] = "free"]
    /\ ins' = [ins EXCEPT ![d0] = 0]
    /\ session' = [session EXCEPT ![d0] = Zero]
    /\ d0' = 0 /\ i0' = 0
    /\ UNCHANGED <<used, sessions, props, data, updated, cpu1>>

Handler == ReadyProps \/ ReadyDone \/ DropClear \/ DropDone

BluetoothTask ==
    \/ Create
    \/ \E d \in Slots : Connect(d) \/ Ready(d) \/ ControllerData(d) \/ Drop(d)
    \/ Handler

-----------------------------------------------------------------------------
(* CPU 1: Bluepad32::update(), then processControllers(). *)

\* Mutant: the loop ends at the first slot that is not used.
PollIndexBreaks ==
    /\ at = "poll" /\ i1 < N
    /\ IF idx[i1] = Invalid THEN i1' = N /\ UNCHANGED at
                            ELSE at' = "take" /\ UNCHANGED i1
    /\ UNCHANGED <<mutex, polled, told, shared, cpu0>>

\* The loop of update() over the slots: the index is read without the mutex.
PollIndex ==
    /\ at = "poll" /\ i1 < N
    /\ IF idx[i1] = Invalid THEN i1' = i1 + 1 /\ UNCHANGED at
                            ELSE at' = "take" /\ UNCHANGED i1
    /\ UNCHANGED <<mutex, polled, told, shared, cpu0>>

\* arduino_get_controller_data(): the mutex is taken; nothing new is given back
\* at once, new data is copied ...
PollTake ==
    /\ at = "take"
    /\ mutex = "free"
    /\ IF updated[i1]
       THEN /\ mutex' = "app" /\ at' = "clear"
            /\ appData' = [appData EXCEPT ![i1] = data[i1]]
            /\ UNCHANGED <<i1, mask, hasData>>
       ELSE /\ at' = "poll" /\ i1' = i1 + 1
            /\ hasData' = [hasData EXCEPT ![i1] = FALSE]
            /\ mask' = mask \cup {i1}
            /\ UNCHANGED <<mutex, appData>>
    /\ UNCHANGED <<anyData, told, shared, cpu0>>

\* ... and its flag cleared before the mutex is given.
PollClear ==
    /\ at = "clear"
    /\ updated' = [updated EXCEPT ![i1] = FALSE]
    /\ mutex' = "free"
    /\ hasData' = [hasData EXCEPT ![i1] = TRUE]
    /\ anyData' = TRUE
    /\ mask' = mask \cup {i1}
    /\ at' = "poll" /\ i1' = i1 + 1
    /\ UNCHANGED <<appData, told, idx, props, data, cpu0>>

\* The second loop starts, if any slot changed.
PollEnd ==
    /\ at = "poll" /\ i1 = N
    /\ at' = IF mask = prevMask THEN "process" ELSE "changes"
    /\ i1' = 0
    /\ UNCHANGED <<mutex, polled, told, shared, cpu0>>

\* The controllers an announcement of slot i is about: the one that has the slot
\* or is getting it, and the one whose data was read from it.
About(i) ==
    LET has(d) == (dev[d] = "ready" /\ ins[d] = i) \/ (h0 # "none" /\ d0 = d /\ i0 = i)
    IN  ({appData[i]} \cap Sessions) \cup {session[d] : d \in {e \in Slots : has(e)}}

\* onConnectedController(): the controller goes to the first empty entry.
Announce(i) ==
    /\ LET empty == {m \in Slots : mine[m] = Invalid}
       IN  mine' = IF empty = {} THEN mine ELSE [mine EXCEPT ![First(empty)] = i]
    /\ announced' = announced \cup About(i)

\* Controller::onConnected(), up to the check of the index ...
Connected ==
    /\ at = "changes" /\ i1 < N
    /\ i1 \in mask \ prevMask
    /\ connected' = [connected EXCEPT ![i1] = TRUE]
    /\ IF idx[i1] = Invalid
       THEN /\ UNCHANGED <<at, appProps>> /\ i1' = i1 + 1
            /\ Announce(i1)
       ELSE at' = "props" /\ UNCHANGED <<i1, appProps, mine, announced>>
    /\ UNCHANGED <<mutex, polled, prevMask, shared, cpu0>>

\* ... and the copy of the properties; then the sketch is told.
ConnectedProps ==
    /\ at = "props"
    /\ mutex = "free"
    /\ appProps' = [appProps EXCEPT ![i1] = props[i1]]
    /\ Announce(i1)
    /\ at' = "changes" /\ i1' = i1 + 1
    /\ UNCHANGED <<mutex, polled, prevMask, connected, shared, cpu0>>

\* Mutant: the sketch is not told.
DisconnectedSilently ==
    /\ at = "changes" /\ i1 < N
    /\ i1 \in prevMask \ mask
    /\ UNCHANGED mine
    /\ connected' = [connected EXCEPT ![i1] = FALSE]
    /\ i1' = i1 + 1
    /\ UNCHANGED <<mutex, at, polled, prevMask, appProps, announced, shared, cpu0>>

\* onDisconnectedController(): the first entry with the controller is emptied.
Disconnected ==
    /\ at = "changes" /\ i1 < N
    /\ i1 \in prevMask \ mask
    /\ LET entries == {m \in Slots : mine[m] = i1}
       IN  mine' = IF entries = {} THEN mine
                   ELSE [mine EXCEPT ![First(entries)] = Invalid]
    /\ connected' = [connected EXCEPT ![i1] = FALSE]
    /\ i1' = i1 + 1
    /\ UNCHANGED <<mutex, at, polled, prevMask, appProps, announced, shared, cpu0>>

Unchanged ==
    /\ at = "changes" /\ i1 < N
    /\ i1 \in mask <=> i1 \in prevMask
    /\ i1' = i1 + 1
    /\ UNCHANGED <<mutex, at, polled, told, shared, cpu0>>

\* Mutant: the previous mask is not kept.
ChangesEndForgets ==
    /\ at = "changes" /\ i1 = N
    /\ at' = "process" /\ i1' = 0
    /\ UNCHANGED <<mutex, polled, told, shared, cpu0>>

ChangesEnd ==
    /\ at = "changes" /\ i1 = N
    /\ prevMask' = mask
    /\ at' = "process" /\ i1' = 0
    /\ UNCHANGED <<mutex, polled, appProps, connected, mine, announced, shared, cpu0>>

\* What processControllers() processes: it goes through myControllers.
Processed == IF anyData THEN {i \in Slots : /\ \E m \in Slots : mine[m] = i
                                            /\ connected[i] /\ hasData[i]}
                        ELSE {}

Process ==
    /\ at = "process"
    /\ at' = "poll" /\ mask' = {} /\ anyData' = FALSE
    /\ UNCHANGED <<mutex, i1, hasData, appData, told, shared, cpu0>>

Update ==
    \/ PollIndex \/ PollTake \/ PollClear \/ PollEnd
    \/ Connected \/ ConnectedProps \/ Disconnected \/ Unchanged \/ ChangesEnd
    \/ Process

-----------------------------------------------------------------------------
Next == BluetoothTask \/ Update

Spec == Init /\ [][Next]_vars

\* Both CPUs run; a handler that began goes on to its end, and loop() runs for
\* ever.  Nothing is assumed of the controllers.
FairSpec == Spec /\ WF_vars(Handler) /\ WF_vars(Update)

-----------------------------------------------------------------------------
(* Safety *)

ReadyDevices == {d \in Slots : dev[d] = "ready"}
Between == h0 = "none"

\* Each ready device has a slot of its own, a slot is marked used exactly when a
\* ready device has it, and used_controllers_ counts them: connections, refusals
\* and disconnections in any order neither leak a slot nor give it to two.
SlotsMatch ==
    Between =>
        /\ used = Cardinality(ReadyDevices)
        /\ \A d \in ReadyDevices : ins[d] \in Slots /\ idx[ins[d]] = ins[d]
        /\ \A d, e \in ReadyDevices : ins[d] = ins[e] => d = e
        /\ \A i \in Slots : idx[i] # Invalid => \E d \in ReadyDevices : ins[d] = i

\* "No more available seats" never happens: with as many slots as devices, the
\* controller that gets ready always finds one.
SeatForAll ==
    Between /\ (\E d \in Slots : dev[d] = "connected") =>
        used < N /\ \E i \in Slots : idx[i] = Invalid

\* New data in a slot was sent by the controller that has the slot now: the
\* clearing of a slot leaves nothing to the next controller, whatever CPU 1 was
\* reading meanwhile.
DataOfOwner ==
    \A i \in Slots : updated[i] /\ ~(h0 = "clear" /\ i0 = i) =>
        \E d \in ReadyDevices : ins[d] = i /\ data[i] = session[d]

\* Whenever the sketch looks at myControllers, each connected controller is there
\* once and nothing else is: every onDisconnected callback finds the entry of an
\* onConnected callback, and no entry is lost for good.
OneEntryEach ==
    at \in {"poll", "take", "clear", "process"} =>
        /\ {i \in Slots : connected[i]} = prevMask
        /\ prevMask = {mine[m] : m \in Slots} \ {Invalid}
        /\ \A m, n \in Slots : mine[m] = mine[n] /\ mine[m] # Invalid => m = n

\* "This callback gets called any time a new gamepad is connected": the sketch
\* is told of a controller before it processes the controller's data.
AnnouncedFirst ==
    at = "process" =>
        \A i \in Processed : appData[i] \in Sessions => appData[i] \in announced

\* "Fetch properties, and have them cached": the properties the sketch gets for a
\* controller are its own, as long as it is the one that has the slot.
CachedProperties ==
    at = "process" =>
        \A i \in Processed, d \in ReadyDevices :
            ins[d] = i /\ appData[i] = session[d] => appProps[i] = appData[i]

-----------------------------------------------------------------------------
(* The inductive strengthening of SlotsMatch, SeatForAll and DataOfOwner: the *)
(* slot that is being assigned has no owner yet, the one that is being        *)
(* cleared has still one, and used_controllers_ is already decremented.       *)

Assigning == h0 \in {"props", "ready"}
Clearing  == h0 \in {"clear", "drop"}
Owns(d, i) == dev[d] = "ready" /\ ins[d] = i

SeatsInv ==
    /\ \A d \in Slots : dev[d] = "ready" => ins[d] \in Slots
    /\ \A d \in Slots : dev[d] = "connected" => ins[d] = Invalid
    /\ \A d, e \in Slots : dev[d] = "ready" /\ dev[e] = "ready" /\ ins[d] = ins[e] => d = e
    /\ Assigning => dev[d0] = "connected" /\ \A d \in Slots : ~Owns(d, i0)
    /\ Clearing => Owns(d0, i0)

IndexInv ==
    /\ \A i \in Slots : idx[i] # Invalid <=> (\E d \in Slots : Owns(d, i)) \/ (Assigning /\ i = i0)
    /\ \A i \in Slots : idx[i] # Invalid /\ ~(Clearing /\ i = i0) => idx[i] = i

CountInv == used = Cardinality(ReadyDevices) - (IF Clearing THEN 1 ELSE 0)

SlotInv == SeatsInv /\ IndexInv /\ CountInv /\ DataOfOwner

\* The flag of a slot that was cleared stays off until it has an owner again.
FlagInv == h0 = "drop" => ~updated[i0]

BridgeInv == SlotInv /\ FlagInv

-----------------------------------------------------------------------------
(* Liveness *)

\* A slot that stays in use, or stays unused, is seen by the sketch: the entry of
\* its controller in myControllers is there, or gone, from some time on.
Listed(i) == \E m \in Slots : mine[m] = i
SketchCatchesUp ==
    \A i \in Slots :
        /\ <>[](idx[i] # Invalid) => <>[]Listed(i)
        /\ <>[](idx[i] = Invalid) => <>[]~Listed(i)

\* A new report does not stay in its slot: CPU 1 takes it, unless the controller
\* disconnects first.
ReportsTaken == \A i \in Slots : updated[i] ~> ~updated[i]
=============================================================================
