------------------------------ MODULE Requests ------------------------------
(***************************************************************************)
(* What the sketch asks of a controller: lights, rumble, to be             *)
(* disconnected.  A request names a slot, waits in pending_queue_, and is  *)
(* taken out by process_pending_requests() with the next report of any     *)
(* controller.  A disconnection is then deferred: a safe call (SafeCalls)  *)
(* names the device by its place in g_devices[], and disconnects whatever  *)
(* is in that place when the run loop gets to it.                          *)
(*                                                                         *)
(* A controller is its number; only those that are ready are modelled, and *)
(* lights and rumble are one kind of request.                              *)
(***************************************************************************)
EXTENDS SafeCalls

CONSTANTS N,               \* CONFIG_BLUEPAD32_MAX_DEVICES
          Pending,         \* MAX_PENDING_REQUESTS
          Btstack,         \* the caller that is the btstack task
          MaxControllers,  \* bound: controllers that come
          MaxRequests      \* bound: requests that get into the queue

ASSUME NAssumption ==
  /\ N \in Nat \ {0} /\ Pending \in Nat \ {0}
  /\ MaxControllers \in Nat /\ MaxRequests \in Nat

ASSUME BtstackAssumption == Btstack \in Callers

Places == 1 .. N

Nobody == 0      \* an empty place, no slot, a call that is about no place

VARIABLES
  device,     \* the controller that is ready in each place of g_devices[]
  seat,       \* controller_idx of each place
  queue,      \* pending_queue_
  taking,     \* does process_pending_requests() run?
  target,     \* the place that each call is to disconnect
  meant,      \* the controller the sketch meant with each call (history)
  came,       \* number of the last controller that came (history)
  asked       \* number of the last request that got into the queue (history)

requestVars == <<device, seat, queue, taking, target, meant, came, asked>>

InitRequests ==
  /\ Init
  /\ device = [p \in Places |-> Nobody]
  /\ seat = [p \in Places |-> Nobody]
  /\ queue = <<>> /\ taking = FALSE
  /\ target = [n \in 1 .. MaxCalls |-> Nobody]
  /\ meant = [n \in 1 .. MaxCalls |-> Nobody]
  /\ came = 0 /\ asked = 0

\* uni_hid_device_get_instance_with_predicate(): the device that has a slot.
WithSlot(k) == {p \in Places : device[p] # Nobody /\ seat[p] = k}

\* The btstack task is between two handlers.
Quiet == ~taking /\ running = None

-----------------------------------------------------------------------------
(* Controllers come and go, on the btstack task.                           *)

\* arduino_on_device_ready(): the first free slot.  Other devices that are
\* being connected may have the places before.
Ready(p) ==
  /\ Quiet
  /\ device[p] = Nobody /\ came < MaxControllers
  /\ came' = came + 1
  /\ device' = [device EXCEPT ![p] = came + 1]
  /\ \E k \in Places :
       /\ WithSlot(k) = {} /\ \A j \in 1 .. k - 1 : WithSlot(j) # {}
       /\ seat' = [seat EXCEPT ![p] = k]
  /\ UNCHANGED <<vars, queue, taking, target, meant, asked>>

\* uni_hid_device_disconnect() and uni_hid_device_delete()
Left(p) ==
  /\ device' = [device EXCEPT ![p] = Nobody]
  /\ seat' = [seat EXCEPT ![p] = Nobody]

Leave(p) ==
  /\ Quiet
  /\ device[p] # Nobody
  /\ Left(p)
  /\ UNCHANGED <<vars, queue, taking, target, meant, came, asked>>

-----------------------------------------------------------------------------
(* The sketch.                                                             *)

\* arduino_set_player_leds(), arduino_set_lightbar_color(),
\* arduino_play_dual_rumble() and arduino_disconnect_controller(): a queue that
\* is full drops the request.
Request(k, cmd) ==
  /\ WithSlot(k) # {}
  /\ cmd = "disconnect" => made + Len(queue) < MaxCalls
  /\ Len(queue) < Pending /\ asked < MaxRequests
  /\ asked' = asked + 1
  /\ queue' = Append(queue, [slot |-> k, cmd |-> cmd, n |-> asked + 1,
                             who |-> device[CHOOSE p \in WithSlot(k) : TRUE]])
  /\ UNCHANGED <<vars, device, seat, taking, target, meant, came>>

\* Another safe call, of the sketch or the console.
OtherCall(c) ==
  /\ c # Btstack
  /\ \/ made + Len(queue) < MaxCalls /\ GetNext(c)
     \/ Advance(c) \/ Fill(c) \/ ExecuteOnMainThread(c)
  /\ UNCHANGED requestVars

-----------------------------------------------------------------------------
(* The btstack task.                                                       *)

\* arduino_on_controller_data(), which begins with process_pending_requests()
Report(p) ==
  /\ Quiet /\ device[p] # Nobody
  /\ queue # <<>>
  /\ taking' = TRUE
  /\ UNCHANGED <<vars, device, seat, queue, target, meant, came, asked>>

\* Mutant: the call names the slot instead of the place.
DisconnectSlot(r, p) ==
  /\ GetNext(Btstack)
  /\ target' = [target EXCEPT ![made + 1] = r.slot]
  /\ meant' = [meant EXCEPT ![made + 1] = r.who]

\* uni_bt_disconnect_device_safe() begins.
DisconnectDevice(r, p) ==
  /\ GetNext(Btstack)
  /\ target' = [target EXCEPT ![made + 1] = p]
  /\ meant' = [meant EXCEPT ![made + 1] = r.who]

\* Mutant: a request without a device is left in the queue.
TakeKeeps ==
  /\ taking /\ pc[Btstack] = "idle"
  /\ IF queue = <<>> \/ WithSlot(Head(queue).slot) = {}
       THEN taking' = FALSE /\ UNCHANGED <<vars, queue, target, meant>>
       ELSE LET r == Head(queue)
                p == CHOOSE q \in WithSlot(r.slot) : TRUE
            IN  /\ queue' = Tail(queue) /\ taking' = TRUE
                /\ IF r.cmd = "disconnect" THEN DisconnectDevice(r, p)
                   ELSE UNCHANGED <<vars, target, meant>>
  /\ UNCHANGED <<device, seat, came, asked>>

\* process_pending_requests(), one request.  It stops at the first one whose
\* controller is gone, and drops that one.
Take ==
  /\ taking /\ pc[Btstack] = "idle"
  /\ IF queue = <<>> THEN taking' = FALSE /\ UNCHANGED <<vars, queue, target, meant>>
     ELSE LET r == Head(queue) IN
          /\ queue' = Tail(queue)
          /\ taking' = (WithSlot(r.slot) # {})
          /\ IF taking' /\ r.cmd = "disconnect"
               THEN DisconnectDevice(r, CHOOSE p \in WithSlot(r.slot) : TRUE)
               ELSE UNCHANGED <<vars, target, meant>>
  /\ UNCHANGED <<device, seat, came, asked>>

\* The rest of uni_bt_disconnect_device_safe()
Call ==
  /\ Advance(Btstack) \/ Fill(Btstack) \/ ExecuteOnMainThread(Btstack)
  /\ UNCHANGED requestVars

\* The run loop makes the calls one after the other; cmd_callback() disconnects and deletes
\* the device of the place, also an empty one.
RunLoop ==
  /\ ~taking
  /\ \/ Pop /\ UNCHANGED <<device, seat>>
     \/ /\ Execute
        /\ LET p == target[context[running]] IN
           IF p = Nobody THEN UNCHANGED <<device, seat>> ELSE Left(p)
  /\ UNCHANGED <<queue, taking, target, meant, came, asked>>

\* All the controllers have come and gone, and all that was called is done.
DoneRequests ==
  /\ came = MaxControllers /\ \A p \in Places : device[p] = Nobody
  /\ Quiet /\ list = <<>> /\ \A c \in Callers : pc[c] = "idle"
  /\ UNCHANGED <<vars, requestVars>>

NextRequests ==
  \/ \E p \in Places : Ready(p) \/ Leave(p) \/ Report(p)
  \/ \E k \in Places, cmd \in {"disconnect", "other"} : Request(k, cmd)
  \/ \E c \in Callers : OtherCall(c)
  \/ Take \/ Call \/ RunLoop \/ DoneRequests

SpecRequests == InitRequests /\ [][NextRequests]_<<vars, requestVars>>

\* A handler runs to its end, the run loop looks at the calls after every round
\* of handlers, and every caller ends its call.
FairRequests ==
  /\ SpecRequests
  /\ WF_<<vars, requestVars>>(Take \/ Call)
  /\ SF_<<vars, requestVars>>(RunLoop)
  /\ \A c \in Callers :
       WF_<<vars, requestVars>>(OtherCall(c) /\ pc[c] # "idle")

-----------------------------------------------------------------------------
(* Properties.                                                             *)

\* A request for a slot, and a call for a place, is aimed at the controller the
\* sketch meant, or that one has left: another controller may be disconnected
\* after the one that was meant, never instead of it.
Aimed ==
  \A p \in Places :
    /\ \A i \in DOMAIN queue : device[p] = queue[i].who => seat[p] = queue[i].slot
    /\ \A n \in Outstanding :
         device[p] # Nobody /\ device[p] = meant[n] => p = target[n]

\* As long as there are controllers, one of them goes on sending reports: this
\* is up to the controllers.
ReportsCome == WF_<<vars, requestVars>>(\E p \in Places : Report(p))

Waits(n) == \E i \in DOMAIN queue : queue[i].n = n

\* If reports go on coming, of whichever controller, every request is taken out of
\* the queue as long as there are controllers, although a request whose
\* controller is gone ends the round.
RequestsTaken ==
  ReportsCome => \A n \in 1 .. MaxRequests :
                   Waits(n) ~> ~Waits(n) \/ \A p \in Places : device[p] = Nobody
=============================================================================
