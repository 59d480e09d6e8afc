------------------------------- MODULE Devices -------------------------------
(***************************************************************************)
(* The life of a BR/EDR device in g_devices[]: discovered or calling by    *)
(* itself, asked for its name, its channels opened, queried by SDP, ready, *)
(* lost.  uni_bt_bredr.c, uni_bt_sdp.c, uni_hid_device.c and the seats of  *)
(* the platform.                                                           *)
(*                                                                         *)
(* Every handler runs to its end on the btstack task.  A handler and the   *)
(* functions it calls map a record of the whole state, g, to another one.  *)
(* btstack is `bt': the links, the channels, the requests it works on and, *)
(* while it tells of the end of a link, what is still to be told.          *)
(*                                                                         *)
(* Left out: BLE, virtual devices, the allowlist, memory exhaustion, and   *)
(* what a device says while it is paged or its link is being taken down.   *)
(***************************************************************************)
EXTENDS Naturals, FiniteSets

CONSTANTS N,          \* CONFIG_BLUEPAD32_MAX_DEVICES
          Addrs,      \* the devices there are
          Ds4,        \* those named "Wireless Controller"
          ByName,     \* those whose controller type is known from the name
          Callers,    \* those that connect by themselves
          Eager       \* do they do so even after we have discovered them?

ASSUME NAssumption == N \in Nat \ {0}

ASSUME DevicesAssumption == Ds4 \cup ByName \cup Callers \subseteq Addrs /\ Eager \in BOOLEAN

Idx == 1 .. N

None == "none"

NoDevice == 0

NoQuery == [addr |-> None, kind |-> None]

ASSUME NoneAssumption == None \notin Addrs

Psms == {"control", "interrupt"}

\* uni_bt_conn_state_t, without its prefix; REMOTE_NAME_REQUEST is never used.
States ==
  {"NONE", "DISCOVERED", "NAME_INQUIRED", "NAME_FETCHED", "VENDOR_REQUESTED",
   "VENDOR_FETCHED", "HID_REQUESTED", "HID_FETCHED", "CONTROL_REQUESTED",
   "CONTROL_CONNECTED", "INTERRUPT_REQUESTED", "INTERRUPT_CONNECTED",
   "PENDING_READY", "READY"}

VARIABLES
  dev,        \* g_devices[]
  sdp,        \* sdp_device and whether sdp_query_timer runs
  used,       \* used_controllers_ of the platform
  asserted,   \* btstack_run_loop_base_add_timer: a timer was added twice
  bt          \* btstack

vars == <<dev, sdp, used, asserted, bt>>

\* A place of the table after a memset: controller_idx is 0, not -1.
Empty ==
  [addr |-> None, state |-> "NONE", incoming |-> FALSE, connected |-> FALSE,
   handle |-> FALSE, cid |-> {}, name |-> None, type |-> None, query |-> "after",
   setup |-> FALSE, seat |-> "zero", connTimer |-> FALSE, nameTimer |-> FALSE]

Init ==
  /\ dev = [i \in Idx |-> Empty]
  /\ sdp = [device |-> NoDevice, timer |-> FALSE]
  /\ used = 0
  /\ asserted = FALSE
  /\ bt = [link |-> [a \in Addrs |-> None],
           chan |-> [a \in Addrs |-> [k \in Psms |-> None]],
           twice |-> {}, names |-> {}, query |-> NoQuery, closing |-> None, left |-> {}]

-----------------------------------------------------------------------------
(* The state as a record, and btstack's part of a handler.                 *)

g0 == [dev |-> dev, sdp |-> sdp, used |-> used, asserted |-> asserted, bt |-> bt]

Becomes(g) ==
  /\ dev' = g.dev /\ sdp' = g.sdp /\ used' = g.used
  /\ asserted' = g.asserted /\ bt' = g.bt

Up == {"ours", "theirs"}

Quiet == bt.closing = None

\* The place of a device, if it has one.
Places(d, a) == {i \in Idx : d[i].addr = a}

Known(a) == Places(dev, a) # {}

PlaceOf(g, a) == CHOOSE i \in Places(g.dev, a) : TRUE

\* btstack pages a device it has no link to, to open a channel.
Page(b, a) ==
  IF a \in Addrs /\ b.link[a] = None THEN [b EXCEPT !.link[a] = "paging"] ELSE b

\* l2cap_create_channel().  A channel that is asked for twice is refused the
\* second time.
CreateChannel(g, i, k, s) ==
  LET a == g.dev[i].addr
      b == IF a \notin Addrs THEN g.bt
           ELSE IF g.bt.chan[a][k] = None THEN [g.bt EXCEPT !.chan[a][k] = "asked"]
           ELSE [g.bt EXCEPT !.twice = @ \cup {<<a, k>>}]
  IN  [g EXCEPT !.bt = Page(b, a), !.dev[i].cid = @ \cup {k}, !.dev[i].state = s]

-----------------------------------------------------------------------------
(* The device table and the platform.                                      *)

\* uni_hid_device_create(): the first free place.
Free(g) == {i \in Idx : g.dev[i].addr = None}

Create(g, a) ==
  LET i == CHOOSE i \in Free(g) : \A j \in Free(g) : i <= j
  IN  [g EXCEPT !.dev[i] = [Empty EXCEPT !.addr = a, !.connTimer = TRUE]]

\* uni_hid_device_connect() and arduino_on_device_connected()
Connect(g, i) == [g EXCEPT !.dev[i].connected = TRUE, !.dev[i].seat = None]

\* Mutant: the platform gives back a seat the device does not have.
DeleteUnseats(g, i) ==
  LET d == g.dev[i]
      down == d.handle /\ d.addr \in Addrs /\ g.bt.link[d.addr] \in Up
  IN  [g EXCEPT !.dev[i] = Empty,
                !.used = IF d.connected THEN @ - 1 ELSE @,
                !.bt = IF down THEN [@ EXCEPT !.link[d.addr] = "leaving"] ELSE @]

\* uni_hid_device_disconnect(), arduino_on_device_disconnected() and
\* uni_hid_device_delete(), which are always called together.
Delete(g, i) ==
  LET d == g.dev[i]
      seated == d.connected /\ d.seat # None
      down == d.handle /\ d.addr \in Addrs /\ g.bt.link[d.addr] \in Up
  IN  [g EXCEPT !.dev[i] = Empty,
                !.used = IF seated THEN @ - 1 ELSE @,
                !.bt = IF down THEN [@ EXCEPT !.link[d.addr] = "leaving"] ELSE @]

\* uni_hid_device_set_ready_complete() and arduino_on_device_ready()
SetReadyComplete(g, i) ==
  IF g.dev[i].state = "READY" THEN g
  ELSE IF g.used = N \/ g.dev[i].seat # None THEN Delete(g, i)
  ELSE [g EXCEPT !.dev[i].connTimer = FALSE, !.dev[i].seat = "seat",
                 !.dev[i].state = "READY", !.used = @ + 1]

\* Mutant: the connection timer stops when the set-up of the parser begins.
SetReadyUntimed(g, i) ==
  LET h == [g EXCEPT !.dev[i].state = "PENDING_READY", !.dev[i].connTimer = FALSE]
  IN  IF g.dev[i].state = "PENDING_READY" THEN g
      ELSE IF g.dev[i].type = "setup" THEN [h EXCEPT !.dev[i].setup = TRUE]
      ELSE SetReadyComplete(h, i)

\* uni_hid_device_set_ready(): a parser may have a set-up of its own.
SetReady(g, i) ==
  LET h == [g EXCEPT !.dev[i].state = "PENDING_READY"]
  IN  IF g.dev[i].state = "PENDING_READY" THEN g
      ELSE IF g.dev[i].type = "setup" THEN [h EXCEPT !.dev[i].setup = TRUE]
      ELSE SetReadyComplete(h, i)

-----------------------------------------------------------------------------
(* SDP and the state machine.                                              *)

\* sdp_client_query_uuid16(), if no query is on.
Query(g, i, kind) ==
  [g EXCEPT !.bt = Page([@ EXCEPT !.query = [addr |-> g.dev[i].addr, kind |-> kind]],
                        g.dev[i].addr)]

\* uni_bt_sdp_query_start() and uni_bt_sdp_query_start_vid_pid()
SdpStart(g, i) ==
  IF g.sdp.device # NoDevice THEN Delete(g, i)
  ELSE LET h == [g EXCEPT !.sdp = [device |-> i, timer |-> TRUE],
                          !.dev[i].state = "VENDOR_REQUESTED",
                          !.asserted = @ \/ g.sdp.timer]
       IN  IF g.bt.query # NoQuery THEN Delete(h, i) ELSE Query(h, i, "pid")

\* The state machine in state SDP_HID_DESCRIPTOR_FETCHED.
HidFetched(g, i) ==
  IF ~g.dev[i].incoming /\ g.dev[i].query = "before"
    THEN CreateChannel(g, i, "control", "CONTROL_REQUESTED")
    ELSE SetReady(g, i)

\* uni_bt_sdp_query_end()
SdpEnd(g, i) ==
  HidFetched([g EXCEPT !.dev[i].state = "HID_FETCHED",
                       !.sdp = [device |-> NoDevice, timer |-> FALSE]], i)

\* uni_bt_sdp_query_start_hid_descriptor()
SdpHid(g, i) ==
  IF g.dev[i].type # "descriptor" THEN SdpEnd(g, i)
  ELSE IF g.sdp.device = NoDevice THEN g
  ELSE IF g.bt.query # NoQuery THEN Delete([g EXCEPT !.sdp.timer = FALSE], i)
  ELSE Query([g EXCEPT !.dev[i].state = "HID_REQUESTED"], i, "hid")

\* The state machine in state REMOTE_NAME_FETCHED.
NameFetched(g, i) ==
  LET d == g.dev[i]
      guessed == d.name = "real" /\ d.addr \in ByName
      h == IF guessed
             THEN [g EXCEPT !.dev[i].query = "not needed", !.dev[i].state = "HID_FETCHED",
                            !.dev[i].type = IF @ = None THEN "setup" ELSE @]
             ELSE g
  IN  IF d.name = "real" /\ d.addr \in Ds4
        THEN SdpStart([g EXCEPT !.dev[i].query = "before"], i)
      ELSE IF ~d.incoming THEN CreateChannel(h, i, "control", "CONTROL_REQUESTED")
      ELSE IF h.dev[i].query = "not needed" THEN SetReady(h, i)
      ELSE SdpStart(h, i)

\* gap_remote_name_request(), which refuses a second request, and the timer.
RequestName(g, i) ==
  [g EXCEPT !.dev[i].state = "NAME_INQUIRED", !.dev[i].nameTimer = TRUE,
            !.asserted = @ \/ g.dev[i].nameTimer,
            !.bt.names = IF @ = {} THEN {g.dev[i].addr} \cap Addrs ELSE @]

\* uni_bt_bredr_process_fsm()
Fsm(g, i) ==
  LET d == g.dev[i] IN
  CASE d.name = None /\ d.state \in {"DISCOVERED", "INTERRUPT_CONNECTED"} -> RequestName(g, i)
    [] d.state = "NAME_FETCHED"   -> NameFetched(g, i)
    [] d.state = "VENDOR_FETCHED" -> SdpHid(g, i)
    [] d.state = "HID_FETCHED"    -> HidFetched(g, i)
    [] ~d.incoming /\ d.state = "CONTROL_CONNECTED"
         -> CreateChannel(g, i, "interrupt", "INTERRUPT_REQUESTED")
    [] ~d.incoming /\ d.name # None /\ d.state = "INTERRUPT_CONNECTED"
         -> IF d.query = "after" THEN SdpStart(g, i) ELSE SetReady(g, i)
    [] OTHER -> g

-----------------------------------------------------------------------------
(* The handlers of events.                                                 *)

\* Mutant: a device is created for every result.
InquiryAlwaysNew(a, name) ==
  /\ Quiet
  /\ bt.link[a] = None
  /\ Free(g0) # {}
  /\ LET g == Create(g0, a)
         i == CHOOSE i \in Idx : g.dev[i] # dev[i]
         s == IF name = None THEN "DISCOVERED" ELSE "NAME_FETCHED"
     IN  Becomes(Fsm([g EXCEPT !.dev[i].name = name, !.dev[i].state = s], i))

\* uni_bt_bredr_on_gap_inquiry_result()
Inquiry(a, name) ==
  /\ Quiet
  /\ bt.link[a] = None
  /\ IF Known(a)
       THEN LET i == PlaceOf(g0, a) IN
            dev[i].state # "READY" /\ Becomes(Fsm(g0, i))
       ELSE /\ Free(g0) # {}
            /\ LET g == Create(g0, a)
                   i == PlaceOf(g, a)
                   s == IF name = None THEN "DISCOVERED" ELSE "NAME_FETCHED"
               IN  Becomes(Fsm([g EXCEPT !.dev[i].name = name, !.dev[i].state = s], i))

\* uni_bt_bredr_on_hci_connection_request(); btstack accepts the connection.
ConnectionRequest(a) ==
  /\ Quiet
  /\ a \in Callers /\ bt.link[a] = None
  /\ Eager \/ ~Known(a)
  /\ LET g == IF Known(a) \/ Free(g0) = {} THEN g0 ELSE Create(g0, a)
         h == IF Places(g.dev, a) = {} THEN g
              ELSE [g EXCEPT !.dev[PlaceOf(g, a)].incoming = TRUE]
     IN  Becomes([h EXCEPT !.bt.link[a] = "paged"])

\* uni_bt_bredr_on_hci_connection_complete().  The controller asks for the name
\* before it pages the device.
ConnectionComplete(a) ==
  /\ Quiet
  /\ bt.link[a] \in {"paging", "paged"}
  /\ bt.link[a] = "paging" => a \notin bt.names
  /\ LET g == IF Known(a) THEN [g0 EXCEPT !.dev[PlaceOf(g0, a)].handle = TRUE] ELSE g0
     IN  Becomes([g EXCEPT !.bt.link[a] = IF @ = "paging" THEN "ours" ELSE "theirs"])

\* The device opens a channel of the link it asked for.
Calls(a, k) ==
  a \in Callers /\ bt.chan[a][k] = None /\ (Eager \/ bt.link[a] = "theirs")

\* Mutant: a device that is ready is not disconnected first.
IncomingControlReady(a) ==
  /\ Quiet
  /\ bt.link[a] \in Up
  /\ LET ready == Known(a) /\ dev[PlaceOf(g0, a)].state = "READY"
         h == IF Known(a) \/ Free(g0) = {} THEN g0 ELSE Create(g0, a)
         i == PlaceOf(h, a)
     IN  /\ Calls(a, "control") \/ ready
         /\ Places(h.dev, a) # {}
         /\ Becomes([h EXCEPT !.dev[i].handle = TRUE, !.dev[i].incoming = TRUE,
                              !.dev[i].cid = @ \cup {"control"},
                              !.bt.chan[a]["control"] = "coming",
                              !.bt.chan[a]["interrupt"] = IF ready THEN None ELSE @])

\* uni_bt_bredr_on_l2cap_incoming_connection(), control channel.  A device
\* that is ready may have lost its channels without a word, and open them again.
IncomingControl(a) ==
  /\ Quiet
  /\ bt.link[a] \in Up
  /\ LET ready == Known(a) /\ dev[PlaceOf(g0, a)].state = "READY"
         g == IF ready THEN Delete(g0, PlaceOf(g0, a)) ELSE g0
         h == IF Places(g.dev, a) = {} /\ Free(g) # {} THEN Create(g, a) ELSE g
         i == PlaceOf(h, a)
     IN  /\ Calls(a, "control") \/ ready
         /\ Places(h.dev, a) # {}
         /\ Becomes([h EXCEPT !.dev[i].handle = TRUE, !.dev[i].incoming = TRUE,
                              !.dev[i].cid = @ \cup {"control"},
                              !.bt.chan[a]["control"] = "coming",
                              !.bt.chan[a]["interrupt"] = IF ready THEN None ELSE @])

\* The same, interrupt channel.
IncomingInterrupt(a) ==
  /\ Quiet
  /\ bt.link[a] \in Up
  /\ Calls(a, "interrupt") /\ bt.chan[a]["control"] = "open"
  /\ Known(a)
  /\ LET i == PlaceOf(g0, a) IN
     Becomes(IF dev[i].state = "READY" THEN Delete(g0, i)
             ELSE [g0 EXCEPT !.dev[i].cid = @ \cup {"interrupt"},
                             !.bt.chan[a]["interrupt"] = "coming"])

\* uni_bt_bredr_on_l2cap_channel_opened(), success.
ChannelOpened(a, k) ==
  /\ Quiet
  /\ bt.link[a] \in Up
  /\ bt.chan[a][k] \in {"asked", "coming"}
  /\ LET g == [g0 EXCEPT !.bt.chan[a][k] = "open"]
         i == PlaceOf(g, a)
         s == IF k = "control" THEN "CONTROL_CONNECTED" ELSE "INTERRUPT_CONNECTED"
         h == [g EXCEPT !.dev[i].cid = @ \cup {k}, !.dev[i].state = s]
     IN  Becomes(IF ~Known(a) THEN g ELSE Fsm(IF k = "interrupt" THEN Connect(h, i) ELSE h, i))

\* The handler of a channel that could not be opened, or was closed.
Failed(g, a, k) ==
  LET h == [g EXCEPT !.bt.chan[a][k] = None]
      gone == {i \in Places(g.dev, a) :
                 \/ g.bt.chan[a][k] = "asked"
                 \/ k \in g.dev[i].cid /\ <<a, k>> \notin g.bt.twice}
  IN  IF gone = {} THEN h ELSE Delete(h, CHOOSE i \in gone : TRUE)

\* uni_bt_bredr_on_l2cap_channel_opened(), failure, and
\* uni_bt_bredr_on_l2cap_channel_closed()
ChannelClosed(a, k) ==
  /\ Quiet
  /\ bt.link[a] \in Up
  /\ bt.chan[a][k] # None
  /\ Becomes(Failed(g0, a, k))

\* The failure of a channel asked for twice.
Refused(g, a) == IF Places(g.dev, a) = {} THEN g ELSE Delete(g, PlaceOf(g, a))

ChannelRefused(a, k) ==
  /\ Quiet
  /\ bt.link[a] \in Up
  /\ <<a, k>> \in bt.twice
  /\ Becomes(Refused([g0 EXCEPT !.bt.twice = @ \ {<<a, k>>}], a))

\* uni_bt_bredr_on_hci_remote_name_request_complete()
NameComplete(a, name) ==
  /\ Quiet
  /\ a \in bt.names
  /\ LET g == [g0 EXCEPT !.bt.names = @ \ {a}]
         i == PlaceOf(g, a)
         h == [g EXCEPT !.dev[i].name = name]
         f == IF dev[i].state \in {"PENDING_READY", "READY"} THEN h
              ELSE Fsm([h EXCEPT !.dev[i].state = "NAME_FETCHED"], i)
     IN  Becomes(IF Known(a) THEN [f EXCEPT !.dev[i].nameTimer = FALSE] ELSE g)

\* inquiry_remote_name_timeout_callback()
NameTimeout(i) ==
  /\ Quiet
  /\ dev[i].nameTimer
  /\ Becomes(Fsm([g0 EXCEPT !.dev[i].name = "fake", !.dev[i].nameTimer = FALSE,
                            !.dev[i].state = "NAME_FETCHED"], i))

\* device_connection_timeout(), after 20 s; a page ends long before.
ConnectionTimeout(i) ==
  /\ Quiet
  /\ dev[i].connTimer
  /\ bt.link[dev[i].addr] # "paging"
  /\ Becomes(IF dev[i].state = "READY" THEN [g0 EXCEPT !.dev[i].connTimer = FALSE]
             ELSE Delete(g0, i))

\* The set-up of a parser ends with uni_hid_device_set_ready_complete().
ParserDone(i) ==
  /\ Quiet
  /\ dev[i].setup
  /\ Becomes(SetReadyComplete([g0 EXCEPT !.dev[i].setup = FALSE], i))

\* sdp_query_timeout()
SdpTimeout ==
  /\ Quiet
  /\ sdp.timer
  /\ sdp' = [device |-> NoDevice, timer |-> FALSE]
  /\ UNCHANGED <<dev, used, asserted, bt>>

\* SDP_EVENT_QUERY_COMPLETE, in uni_handle_sdp_pid_query_result() and
\* uni_handle_sdp_hid_query_result().  The vendor and product may tell the type.
QueryComplete(g, type) ==
  LET i == g.sdp.device
      h == [g EXCEPT !.bt.query = NoQuery]
      f == [h EXCEPT !.dev[i].state = "VENDOR_FETCHED",
                     !.dev[i].type = IF @ = None THEN type ELSE @]
  IN  IF i = NoDevice THEN h
      ELSE IF g.bt.query.kind = "pid" THEN Fsm(f, i)
      ELSE SdpEnd(h, i)

\* The query ends; one of the zero address fails.
SdpComplete(type) ==
  /\ Quiet
  /\ bt.query # NoQuery
  /\ IF bt.query.addr = None THEN type = "descriptor" ELSE bt.link[bt.query.addr] \in Up
  /\ Becomes(QueryComplete(g0, type))

-----------------------------------------------------------------------------
(* The end of a link: btstack tells of its channels, then of the link.     *)

\* The link is lost or taken down, or the page is not answered.
LinkLost(a) ==
  /\ Quiet
  /\ bt.link[a] # None
  /\ bt' = [bt EXCEPT !.closing = a,
                      !.left = {k \in Psms : bt.chan[a][k] # None}
                               \cup {"query" : q \in {bt.query} \cap {[addr |-> a, kind |-> k] : k \in {"pid", "hid"}}}
                               \cup {"again" : c \in bt.twice \cap ({a} \X Psms)},
                      !.link[a] = "closing"]
  /\ UNCHANGED <<dev, sdp, used, asserted>>

\* SDP's channel and the channels of the device, in any order.
CloseQuery ==
  /\ "query" \in bt.left
  /\ Becomes(QueryComplete([g0 EXCEPT !.bt.left = @ \ {"query"}], "descriptor"))

CloseChannel(k) ==
  /\ k \in bt.left
  /\ Becomes(Failed([g0 EXCEPT !.bt.left = @ \ {k}], bt.closing, k))

CloseAgain ==
  /\ "again" \in bt.left
  /\ Becomes(Refused([g0 EXCEPT !.bt.left = @ \ {"again"},
                               !.bt.twice = @ \ ({bt.closing} \X Psms)], bt.closing))

\* on_hci_disconnection_complete().  A channel that was asked for in the
\* meantime is not one of the link that ended: btstack pages the device again.
CloseLink ==
  /\ ~Quiet /\ bt.left = {}
  /\ LET a == bt.closing
         gone == {i \in Places(dev, a) : dev[i].handle}
         g == IF gone = {} THEN g0 ELSE Delete(g0, CHOOSE i \in gone : TRUE)
         asked == {k \in Psms : bt.chan[a][k] = "asked" \/ <<a, k>> \in bt.twice}
         again == asked # {} \/ (bt.query # NoQuery /\ bt.query.addr = a)
     IN  Becomes([g EXCEPT !.bt.link[a] = IF again THEN "paging" ELSE None,
                           !.bt.chan[a] = [k \in Psms |-> IF k \in asked THEN "asked" ELSE None],
                           !.bt.twice = @ \ ({a} \X Psms),
                           !.bt.closing = None])

Types == {"descriptor", "setup"}

Next ==
  \/ \E a \in Addrs :
       \/ \E name \in {None, "real"} : Inquiry(a, name)
       \/ ConnectionRequest(a) \/ ConnectionComplete(a)
       \/ IncomingControl(a) \/ IncomingInterrupt(a)
       \/ \E k \in Psms : ChannelOpened(a, k) \/ ChannelClosed(a, k) \/ ChannelRefused(a, k)
       \/ \E name \in {"real", "fake"} : NameComplete(a, name)
       \/ LinkLost(a)
  \/ \E i \in Idx : NameTimeout(i) \/ ConnectionTimeout(i) \/ ParserDone(i)
  \/ SdpTimeout
  \/ \E type \in Types : SdpComplete(type)
  \/ \E k \in Psms : CloseChannel(k)
  \/ CloseQuery \/ CloseAgain \/ CloseLink

Spec == Init /\ [][Next]_vars

-----------------------------------------------------------------------------
(* Properties.                                                             *)

Device ==
  [addr : Addrs \cup {None}, state : States, incoming : BOOLEAN, connected : BOOLEAN,
   handle : BOOLEAN, cid : SUBSET Psms, name : {None, "real", "fake"},
   type : Types \cup {None}, query : {"after", "before", "not needed"},
   setup : BOOLEAN, seat : {"zero", None, "seat"}, connTimer : BOOLEAN, nameTimer : BOOLEAN]

\* The types of the variables.
TypeOK ==
  /\ dev \in [Idx -> Device]
  /\ sdp \in [device : Idx \cup {NoDevice}, timer : BOOLEAN]
  /\ used \in 0 .. N
  /\ asserted \in BOOLEAN

\* A device has one place in the table, whichever way it came.
OnePlace == \A i, j \in Idx : dev[i].addr = dev[j].addr /\ dev[i].addr # None => i = j

\* No place is kept for ever: that of a device is watched by the connection
\* timer, or the device got its seat and has a link whose end frees the place,
\* and a late name or the end of a query, which go through addresses and
\* pointers that may be stale, neither undo that nor revive an empty place.
PlacesKept ==
  \A i \in Idx : LET d == dev[i] IN
    IF d.addr = None THEN ~d.connTimer /\ ~d.connected /\ d.seat # "seat"
    ELSE d.connTimer \/ (d.seat = "seat" /\ d.handle /\ bt.link[d.addr] # None)

\* The seats are those of the devices that are connected and got ready: the
\* platform hears of a device being ready after it was connected, and before it
\* is disconnected, once each.
SeatsMatch ==
  /\ used = Cardinality({i \in Idx : dev[i].seat = "seat"})
  /\ \A i \in Idx : dev[i].seat = "seat" => dev[i].connected

\* No timer is added while it runs (btstack_run_loop.c:112 asserts it).
TimersAddedOnce == ~asserted
=============================================================================
