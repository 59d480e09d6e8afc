----------------------------- MODULE BleDevices -----------------------------
(***************************************************************************)
(* The life of a BLE device in g_devices[]: found by an advertisement,     *)
(* connected, encrypted or paired, asked for its device information, its   *)
(* HID service opened, ready, lost.  uni_bt_le.c with uni_hid_device.c,    *)
(* the scanning flags of uni_bt.c and the seats of the platform.           *)
(*                                                                         *)
(* A device is found by the handle of its link, by the identifier of its   *)
(* HID client or by its address, and the three need not agree: a place     *)
(* that was just created has handle 0, which is the handle of a link too.  *)
(*                                                                         *)
(* As in Devices, a handler maps a record of the whole state, g, to        *)
(* another one.  btstack and the controller are `bt'.                      *)
(*                                                                         *)
(* Left out: BR/EDR, the advertisements of other devices, connections that *)
(* the controller refuses at once, and a disabled BLE.                     *)
(***************************************************************************)
EXTENDS Naturals, FiniteSets, FiniteSetsExt

CONSTANTS N,          \* CONFIG_BLUEPAD32_MAX_DEVICES
          Addrs,      \* the devices there are
          Handles     \* the handles the controller gives to links, from 0

ASSUME NAssumption == N \in Nat \ {0}

ASSUME HandlesAssumption == Handles \subseteq 0 .. 3839

Idx == 1 .. N

None == "none"

ASSUME NoneAssumption == None \notin Addrs

NoHandle == 65535       \* UNI_BT_CONN_HANDLE_INVALID

\* uni_bt_conn_state_t, those of a BLE device.
States == {"NONE", "DISCOVERED", "PENDING_READY", "READY"}

VARIABLES
  dev,          \* g_devices[]
  used,         \* used_controllers_ of the platform
  is_scanning,  \* uni_bt_le.c: scan between connections?
  wanted,       \* bt_scanning_enabled of uni_bt.c
  bt,           \* btstack
  mixed,        \* was there a link with the handle 0 of another device's place?
  abandoned     \* since the scan was last on, was a device deleted while btstack
                \* was connecting to it?

vars == <<dev, used, is_scanning, wanted, bt, mixed, abandoned>>

\* A place after uni_hid_device_init(); an identifier of no client is None.
Empty ==
  [addr |-> None, state |-> "NONE", handle |-> NoHandle, cid |-> None,
   connected |-> FALSE, seat |-> "zero", connTimer |-> FALSE, setup |-> FALSE]

\* bt: what it scans, the connection it is making, the links and those that
\* are being taken down, what the security manager is asked for, the link that
\* the only client of the device information serves, and the HID clients.
Init ==
  /\ dev = [i \in Idx |-> Empty]
  /\ used = 0
  /\ is_scanning = TRUE
  /\ wanted = TRUE
  /\ bt = [scan |-> TRUE, page |-> None,
           link |-> [a \in Addrs |-> NoHandle], leaving |-> {},
           sm |-> [a \in Addrs |-> None], info |-> None,
           hids |-> [a \in Addrs |-> None]]
  /\ mixed = FALSE
  /\ abandoned = FALSE

\* A link and a place of another device have the same handle.
Ambiguous(g) ==
  \E i \in Idx, a \in Addrs :
    /\ g.bt.link[a] # NoHandle
    /\ g.dev[i].handle = g.bt.link[a] /\ g.dev[i].addr # a

\* btstack is making a connection that no place waits for any more.
Forgotten(g) == g.bt.page # None /\ \A i \in Idx : g.dev[i].addr # g.bt.page

g0 == [dev |-> dev, used |-> used, is_scanning |-> is_scanning, wanted |-> wanted, bt |-> bt]

Becomes(g) ==
  /\ dev' = g.dev /\ used' = g.used /\ is_scanning' = g.is_scanning
  /\ wanted' = g.wanted /\ bt' = g.bt
  /\ mixed' = (mixed \/ Ambiguous(g))
  /\ abandoned' = (~g.bt.scan /\ (abandoned \/ Forgotten(g)))

-----------------------------------------------------------------------------
(* The device table.                                                       *)

Linked(b, a) == b.link[a] # NoHandle

\* The devices that the link of this handle leads to: one or none.
Owners(b, h) == {a \in Addrs : b.link[a] = h} \ {a \in Addrs : h = NoHandle}

Free(g) == {i \in Idx : g.dev[i].addr = None}

ByAddr(g, a) == {i \in Idx : g.dev[i].addr = a}

\* uni_hid_device_get_instance_for_connection_handle(), ..._for_hids_cid():
\* the first place that fits, as a set.
First(S) == IF S = {} THEN {} ELSE {Min(S)}

ByHandle(g, h) == First({i \in Idx : g.dev[i].handle = h /\ h # NoHandle})

ByCid(g, a) == First({i \in Idx : g.dev[i].cid = a})

\* uni_hid_device_create(), after which the handle is 0.
Create(g, a) ==
  [g EXCEPT !.dev[Min(Free(g))] =
     [Empty EXCEPT !.addr = a, !.state = "DISCOVERED", !.connTimer = TRUE, !.handle = 0]]

\* resume_scanning_hint()
Resume(g) == IF g.is_scanning THEN [g EXCEPT !.bt.scan = TRUE] ELSE g

\* hog_connect() and gap_connect(), which makes one connection at a time.
HogConnect(g, a) ==
  [g EXCEPT !.bt.scan = FALSE,
            !.bt.page = IF @ = None THEN a ELSE @]

\* Mutant: the scan is resumed only where the link ends.
HogDisconnectSilent(g, h) ==
  LET cids == {g.dev[i].cid : i \in ByHandle(g, h)}
  IN  [g EXCEPT !.bt.hids = [a \in Addrs |-> IF a \in cids THEN None ELSE @[a]],
                !.bt.leaving = @ \cup Owners(g.bt, h)]

\* hog_disconnect().  The client that goes is the one of the place found.
HogDisconnect(g, h) ==
  LET cids == {g.dev[i].cid : i \in ByHandle(g, h)}
  IN  Resume([g EXCEPT !.bt.hids = [a \in Addrs |-> IF a \in cids THEN None ELSE @[a]],
                       !.bt.leaving = @ \cup Owners(g.bt, h)])

\* uni_hid_device_connect() and arduino_on_device_connected()
Connect(g, i) == [g EXCEPT !.dev[i].connected = TRUE, !.dev[i].seat = None]

\* Mutant: the platform gives back a seat the device does not have.
DeleteUnseats(g, i) ==
  LET d == g.dev[i]
      h == IF Owners(g.bt, d.handle) = {} THEN g ELSE HogDisconnect(g, d.handle)
  IN  [h EXCEPT !.dev[i] = Empty, !.used = IF d.connected THEN @ - 1 ELSE @]

\* uni_hid_device_disconnect(), uni_bt_le_disconnect(),
\* arduino_on_device_disconnected() and uni_hid_device_delete()
Delete(g, i) ==
  LET d == g.dev[i]
      seated == d.connected /\ d.seat # None
      h == IF Owners(g.bt, d.handle) = {} THEN g ELSE HogDisconnect(g, d.handle)
  IN  [h EXCEPT !.dev[i] = Empty, !.used = IF seated THEN @ - 1 ELSE @]

\* uni_hid_device_set_ready_complete() and arduino_on_device_ready()
SetReadyComplete(g, i) ==
  IF g.dev[i].state = "READY" THEN g
  ELSE IF g.used = N \/ g.dev[i].seat # None THEN Delete(g, i)
  ELSE [g EXCEPT !.dev[i].connTimer = FALSE, !.dev[i].seat = "seat",
                 !.dev[i].state = "READY", !.used = @ + 1]

\* Mutant: the connection timer stops when the set-up of the parser begins.
SetReadyUntimed(g, i, setup) ==
  LET h == [g EXCEPT !.dev[i].state = "PENDING_READY", !.dev[i].connTimer = FALSE]
  IN  IF g.dev[i].state = "PENDING_READY" THEN g
      ELSE IF setup THEN [h EXCEPT !.dev[i].setup = TRUE]
      ELSE SetReadyComplete(h, i)

\* uni_hid_device_set_ready(): a parser may have a set-up of its own.
SetReady(g, i, setup) ==
  LET h == [g EXCEPT !.dev[i].state = "PENDING_READY"]
  IN  IF g.dev[i].state = "PENDING_READY" THEN g
      ELSE IF setup THEN [h EXCEPT !.dev[i].setup = TRUE]
      ELSE SetReadyComplete(h, i)

\* device_information_service_client_query(): a busy client refuses.
QueryInfo(g, a) == [g EXCEPT !.bt.info = IF @ = None THEN a ELSE @]

\* hids_client_connect() for the link of a, which the place i is to remember.
\* An earlier client's identifier is not used again.
HidsConnect(g, a, i) ==
  [g EXCEPT !.bt.hids[a] = "asked",
            !.dev = [j \in Idx |->
                       IF j = i THEN [@[j] EXCEPT !.cid = a]
                       ELSE IF @[j].cid = a THEN [@[j] EXCEPT !.cid = None] ELSE @[j]]]

-----------------------------------------------------------------------------
(* The handlers of events.                                                 *)

\* uni_bt_le_on_gap_event_advertising_report()
Advertise(a) ==
  /\ bt.scan /\ ~Linked(bt, a)
  /\ ByAddr(g0, a) = {} /\ Free(g0) # {}
  /\ Becomes(HogConnect(Create(g0, a), a))

\* uni_bt_le_on_hci_event_le_meta().  Nobody may wait for the link any more.
ConnectionComplete(a, h, bonded) ==
  /\ bt.page = a /\ Owners(bt, h) = {}
  /\ LET g == [g0 EXCEPT !.bt.page = None, !.bt.link[a] = h]
         i == CHOOSE i \in ByAddr(g, a) : TRUE
     IN  Becomes(IF ByAddr(g, a) = {} THEN g
                 ELSE [g EXCEPT !.dev[i].handle = h,
                                !.bt.sm[a] = IF bonded THEN "encrypt" ELSE "pair"])

\* uni_sm_packet_handler(), SM_EVENT_REENCRYPTION_COMPLETE
ReencryptionComplete(a, status) ==
  /\ bt.sm[a] = "encrypt"
  /\ LET g == [g0 EXCEPT !.bt.sm[a] = None] IN
     Becomes(CASE status = "success"     -> QueryInfo(g, a)
               [] status = "timeout"     -> HogDisconnect(g, bt.link[a])
               [] status = "key missing" -> [g EXCEPT !.bt.sm[a] = "pair"]
               [] OTHER -> g)

\* The same, SM_EVENT_PAIRING_COMPLETE.  A failure is only logged.
PairingComplete(a, status) ==
  /\ bt.sm[a] = "pair"
  /\ LET g == [g0 EXCEPT !.bt.sm[a] = None] IN
     Becomes(IF ByAddr(g, a) = {} THEN HogDisconnect(g, bt.link[a])
             ELSE IF status = "success" THEN QueryInfo(g, a)
             ELSE g)

\* uni_device_information_packet_handler(), ..._DEVICE_INFORMATION_DONE
InformationDone(a, ok) ==
  /\ bt.info = a
  /\ LET g == [g0 EXCEPT !.bt.info = None]
         h == bt.link[a]
     IN  Becomes(IF ~ok THEN HogDisconnect(g, h)
                 ELSE IF ByHandle(g, h) = {} THEN g
                 ELSE IF bt.hids[a] # None THEN HogDisconnect(g, h)
                 ELSE HidsConnect(g, a, Min(ByHandle(g, h))))

\* Mutant: the scan is not resumed when the device is ready.
ServiceConnectedSilent(a, setup) ==
  /\ bt.hids[a] = "asked"
  /\ LET g == [g0 EXCEPT !.bt.hids[a] = "up"]
         i == Min(ByCid(g, a))
     IN  Becomes(IF ByCid(g, a) = {} THEN g ELSE SetReady(Connect(g, i), i, setup))

\* uni_hids_client_packet_handler(), ..._HID_SERVICE_CONNECTED
ServiceConnected(a, setup) ==
  /\ bt.hids[a] = "asked"
  /\ LET g == [g0 EXCEPT !.bt.hids[a] = "up"]
         i == Min(ByCid(g, a))
     IN  Becomes(IF ByCid(g, a) = {} THEN g
                 ELSE Resume(SetReady(Connect(g, i), i, setup)))

\* The same, with an error: it is only logged, and the client is gone.
ServiceFailed(a) ==
  /\ bt.hids[a] = "asked"
  /\ Becomes([g0 EXCEPT !.bt.hids[a] = None])

\* uni_bt_le_on_hci_event_encryption_change(), encryption off.
EncryptionOff(a) ==
  /\ Linked(bt, a)
  /\ ByHandle(g0, bt.link[a]) # {}
  /\ Becomes(HogDisconnect(g0, bt.link[a]))

\* device_connection_timeout(), 20 s after the advertisement
ConnectionTimeout(i) ==
  /\ dev[i].connTimer
  /\ Becomes(IF dev[i].state = "READY" THEN [g0 EXCEPT !.dev[i].connTimer = FALSE]
             ELSE Delete(g0, i))

\* The set-up of a parser ends with uni_hid_device_set_ready_complete().
ParserDone(i) ==
  /\ dev[i].setup
  /\ Becomes(SetReadyComplete([g0 EXCEPT !.dev[i].setup = FALSE], i))

\* The end of a link.  The security manager, the device information client and
\* the HID client tell first, then on_hci_disconnection_complete() deletes the
\* device.  btstack ignores that the link is to be taken down once more.
SmLost(g, a) ==
  IF g.bt.sm[a] = "encrypt" \/ (g.bt.sm[a] = "pair" /\ ByAddr(g, a) = {})
    THEN HogDisconnect(g, g.bt.link[a]) ELSE g

InfoLost(g, a) ==
  IF g.bt.info = a THEN HogDisconnect([g EXCEPT !.bt.info = None], g.bt.link[a]) ELSE g

OnDisconnectionComplete(g, a) ==
  LET S == ByHandle(g, g.bt.link[a])
  IN  IF S = {} THEN g ELSE Resume(Delete(g, Min(S)))

DisconnectionComplete(a) ==
  /\ Linked(bt, a)
  /\ LET g == InfoLost(SmLost(g0, a), a)
         h == OnDisconnectionComplete([g EXCEPT !.bt.hids[a] = None], a)
     IN  Becomes([h EXCEPT !.bt.link[a] = NoHandle, !.bt.leaving = @ \ {a},
                           !.bt.sm[a] = None])

\* start_scanning(), from the console or the sketch
StartScanning(enabled) ==
  /\ wanted # enabled
  /\ Becomes([g0 EXCEPT !.wanted = enabled, !.is_scanning = enabled, !.bt.scan = enabled])

\* cmd_callback(), CMD_DISCONNECT_DEVICE
DisconnectDevice(i) == dev[i].addr # None /\ Becomes(Delete(g0, i))

Statuses == {"success", "timeout", "key missing", "other"}

Next ==
  \/ \E a \in Addrs :
       \/ Advertise(a)
       \/ \E h \in Handles, bonded \in BOOLEAN : ConnectionComplete(a, h, bonded)
       \/ \E s \in Statuses : ReencryptionComplete(a, s)
       \/ \E s \in {"success", "other"} : PairingComplete(a, s)
       \/ \E ok \in BOOLEAN : InformationDone(a, ok)
       \/ \E setup \in BOOLEAN : ServiceConnected(a, setup)
       \/ ServiceFailed(a) \/ EncryptionOff(a) \/ DisconnectionComplete(a)
  \/ \E i \in Idx : ConnectionTimeout(i) \/ ParserDone(i) \/ DisconnectDevice(i)
  \/ \E enabled \in BOOLEAN : StartScanning(enabled)

Spec == Init /\ [][Next]_vars

\* A connection timer fires, and a link that is taken down ends: weak fairness
\* of ConnectionTimeout and DisconnectionComplete, each of which is possible as
\* long as the timer runs, or the link is there, and ends that.
FairSpec ==
  /\ Spec
  /\ \A i \in Idx : []<>(~dev[i].connTimer)
  /\ \A a \in Addrs : []<>(a \notin bt.leaving)

-----------------------------------------------------------------------------
(* Properties.                                                             *)

Device ==
  [addr : Addrs \cup {None}, state : States, handle : Handles \cup {0, NoHandle},
   cid : Addrs \cup {None}, connected : BOOLEAN, seat : {"zero", None, "seat"},
   connTimer : BOOLEAN, setup : BOOLEAN]

\* The types of the variables.
TypeOK ==
  /\ dev \in [Idx -> Device]
  /\ used \in 0 .. N
  /\ is_scanning \in BOOLEAN /\ wanted \in BOOLEAN
  /\ bt \in [scan : BOOLEAN, page : Addrs \cup {None},
             link : [Addrs -> Handles \cup {NoHandle}], leaving : SUBSET Addrs,
             sm : [Addrs -> {None, "encrypt", "pair"}], info : Addrs \cup {None},
             hids : [Addrs -> {None, "asked", "up"}]]

\* The handle of a place is the one of its own device's link.  The only other
\* one it may have is 0, until it is linked: a stale handle is never kept, or
\* the next device to get it would be taken for this one.
OwnHandle ==
  \A i \in Idx : dev[i].handle \in {0, NoHandle} \/ dev[i].handle = bt.link[dev[i].addr]

\* As in Devices, the seats are those of the devices that got ready.
SeatsMatch ==
  /\ used = Cardinality({i \in Idx : dev[i].seat = "seat"})
  /\ \A i \in Idx : dev[i].seat = "seat" => dev[i].connected

\* A device is watched by its connection timer, or it is ready, and its own
\* link and HID client serve it until the link is taken down.
ServedOrWatched ==
  \A i \in Idx : LET d == dev[i] IN
    IF d.addr = None THEN ~d.connTimer /\ ~d.connected /\ d.seat # "seat"
    ELSE \/ d.connTimer
         \/ /\ d.state = "READY" /\ d.seat = "seat" /\ bt.link[d.addr] = d.handle
            /\ d.addr \in bt.leaving \/ (d.cid = d.addr /\ bt.hids[d.addr] = "up")

\* The device information client is free, or serves a link that is there.
InfoServes == bt.info # None => Linked(bt, bt.info)

\* What holds of the table of BLE devices; the seats and the service only as
\* long as no link had the handle 0 of a place that is not its own.
BleInv == OwnHandle /\ InfoServes /\ (mixed \/ (SeatsMatch /\ ServedOrWatched))

\* The scan is paused only while a device is being connected.
Connecting == \E i \in Idx : dev[i].addr # None /\ dev[i].state # "READY"

ScanPaused == is_scanning /\ ~bt.scan => Connecting \/ abandoned \/ mixed

\* A scan that was stopped for a connection goes on, unless it is turned off,
\* a device was deleted while btstack was connecting to it since the scan was
\* last on, or a handle was ambiguous before.
ScanResumes ==
  is_scanning /\ ~bt.scan ~> bt.scan \/ ~is_scanning \/ abandoned \/ mixed

\* And with no exception, as hog_connect() and resume_scanning_hint() promise
\* (connecting has a timeout, and the scan is resumed if it was on before): the
\* scan is never off when no device, connection or link is left whose end would
\* resume it.  The timeout deletes the device and lets btstack go on connecting;
\* that connection ends too, and the scan stays off.
ScanNotForgotten ==
  is_scanning /\ ~bt.scan =>
    \/ bt.page # None
    \/ \E i \in Idx : dev[i].addr # None
    \/ \E a \in Addrs : bt.link[a] # NoHandle
=============================================================================
