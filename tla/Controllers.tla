---------------------------- MODULE Controllers ----------------------------
(***************************************************************************)
(* A controller of the Nintendo Switch from its set-up to its removal, and *)
(* its rumble (uni_hid_parser_switch.c).  The set-up sends one subcommand  *)
(* after the other; the reply to it, or once the time-out of 800 ms,       *)
(* takes it to the next one.  A reply is not matched with the subcommand   *)
(* it answers: the state alone says what it is taken for, so that a reply  *)
(* that comes after the time-out is taken for another one.                 *)
(*                                                                         *)
(* The timers of the parser lie in the memory of the device.  A            *)
(* calibration is the read it was taken from, a reply the size it reports, *)
(* which is that of a clone when it is more than was asked for.  The       *)
(* parsers of DualShock 4, DualSense, Xbox One and Stadia have the same    *)
(* rumble but for an assertion.                                            *)
(***************************************************************************)
EXTENDS Naturals, Sequences

CONSTANTS
  MaxRequests,   \* bound: subcommands that wait for a reply in READY
  Sizes          \* bound: the sizes that replies report

ASSUME SizesAssumption == Sizes \subseteq Nat

VARIABLES
  state,           \* switch_instance_t.state
  type,            \* controller_type that the parser knows
  actual,          \* what the controller is
  requests,        \* the subcommands the controller has not replied to
  calibration,     \* the read each calibration was taken from
  setupTimer,      \* is setup_timer in the list of timers?
  connectionTimer, \* is connection_timer in it?
  rumble,          \* rumble_state
  duration,        \* rumble_duration_ms is not 0, used by the delayed start
  delayTimer,      \* is rumble_timer_delayed_start in the list?
  durationTimer,   \* is rumble_timer_duration in it?
  late,            \* has setup_timer fired in this set-up? (history)
  given,           \* the reads the controller has answered in full (history)
  padded,          \* the reads it has answered with more (history)
  halted           \* why the program has come to its end

rumbleVars == <<rumble, duration, delayTimer, durationTimer>>

setupVars == <<state, type, actual, requests, calibration, setupTimer, connectionTimer,
               late, given, padded>>

vars == <<setupVars, rumbleVars, halted>>

Types == {"pro", "joycon"}

Reads == {"factory_stick", "user_stick", "factory_imu"}

\* The state that process_fsm() goes to.  STATE_SETUP and STATE_DUMP_FLASH are
\* left in the handler that enters them.
After == [req_dev_info |-> "factory_stick", factory_stick |-> "user_stick",
          user_stick |-> "factory_imu", factory_imu |-> "set_full_report",
          set_full_report |-> "enable_imu", enable_imu |-> "update_led",
          update_led |-> "ready"]

SetupStates == DOMAIN After

\* The bytes that a read asks for.
Size(s, t) == IF s = "factory_imu" THEN 24
              ELSE IF t = "pro" THEN (IF s = "user_stick" THEN 22 ELSE 18)
              ELSE (IF s = "user_stick" THEN 11 ELSE 9)

Request(s, t) == [cmd |-> s, size |-> IF s \in Reads THEN Size(s, t) ELSE 0]

Init ==
  /\ state = "uninit" /\ type = "pro" /\ actual = "pro" /\ requests = <<>>
  /\ calibration = [s \in Reads |-> "default"] /\ given = {} /\ padded = {}
  /\ setupTimer = FALSE /\ connectionTimer = FALSE /\ late = FALSE
  /\ rumble = "disabled" /\ duration = FALSE
  /\ delayTimer = FALSE /\ durationTimer = FALSE
  /\ halted = "no"

-----------------------------------------------------------------------------
(* The set-up.                                                             *)

\* Mutant: the connection is taken for established when the set-up begins.
SetUpUntimed ==
  /\ state = "uninit"
  /\ state' = "req_dev_info" /\ type' = "pro" /\ actual' \in Types
  /\ requests' = <<Request("req_dev_info", "pro")>>
  /\ calibration' = [s \in Reads |-> "default"]
  /\ setupTimer' = TRUE /\ connectionTimer' = FALSE
  /\ late' = FALSE /\ given' = {} /\ padded' = {}
  /\ UNCHANGED rumbleVars

\* uni_hid_parser_switch_setup(), 20 s at most after the connection has begun
SetUp ==
  /\ state = "uninit"
  /\ state' = "req_dev_info" /\ type' = "pro" /\ actual' \in Types
  /\ requests' = <<Request("req_dev_info", "pro")>>
  /\ calibration' = [s \in Reads |-> "default"]
  /\ setupTimer' = TRUE /\ connectionTimer' = TRUE
  /\ late' = FALSE /\ given' = {} /\ padded' = {}
  /\ UNCHANGED rumbleVars

\* process_fsm(): the next subcommand, or uni_hid_device_set_ready_complete();
\* rest are the subcommands sent before that still wait, timer tells whether
\* setup_timer runs.
ProcessFsm(rest, timer) ==
  IF state = "ready"
    THEN /\ requests' = rest /\ setupTimer' = FALSE
         /\ UNCHANGED <<state, connectionTimer>>
    ELSE /\ state' = After[state]
         /\ setupTimer' = (timer /\ state' \notin {"update_led", "ready"})
         /\ connectionTimer' = (connectionTimer /\ state' # "ready")
         /\ requests' = IF state' = "ready" THEN rest
                        ELSE Append(rest, Request(state', type'))

\* Mutant: the mark of the user's calibration is not looked for.
TakenUnmarked(r, size, marked) ==
  \/ state \in {"factory_stick", "user_stick"} /\ size >= Size("factory_stick", type)
  \/ state = "factory_imu" /\ size = Size("factory_imu", type)

\* process_reply_read_spi_..._calibration(): is the reply to r taken for the
\* calibration of this state?  Only the user's calibration has a mark, and only
\* when the user has made one.
Taken(r, size, marked) ==
  \/ state = "factory_stick" /\ size >= Size("factory_stick", type)
  \/ state = "user_stick" /\ size >= Size("factory_stick", type) /\ marked
  \/ state = "factory_imu" /\ size = Size("factory_imu", type)

\* The reply to r gives what was asked for; of the IMU's calibration no more, and
\* the user's only when there is one.
Full(r, size, marked) ==
  /\ size >= r.size
  /\ r.cmd = "factory_imu" => size = r.size
  /\ r.cmd = "user_stick" => marked

\* process_input_subcmd_reply(): the controller has received the first
\* subcommand and replies; to a read with the data asked for, with less, or, as
\* clones do, with more.
Reply(size, marked) ==
  /\ requests # <<>>
  /\ LET r == Head(requests)
     IN /\ marked => r.cmd = "user_stick"
        /\ type' = IF r.cmd = "req_dev_info" THEN actual ELSE type
        /\ calibration' = IF r.cmd \in Reads /\ state \in Reads /\ Taken(r, size, marked)
                            THEN [calibration EXCEPT ![state] = r.cmd] ELSE calibration
        /\ given' = IF r.cmd \in Reads /\ Full(r, size, marked)
                      THEN given \cup {r.cmd} ELSE given
        /\ padded' = IF r.cmd \in Reads /\ size > r.size THEN padded \cup {r.cmd} ELSE padded
        /\ ProcessFsm(Tail(requests), setupTimer)
  /\ UNCHANGED <<actual, late, rumbleVars>>

\* A controller, a clone at that, does not reply to a subcommand.
NoReply ==
  /\ requests # <<>>
  /\ requests' = Tail(requests)
  /\ UNCHANGED <<state, type, actual, calibration, setupTimer, connectionTimer, late,
                 given, padded, rumbleVars>>

\* switch_setup_timeout_callback()
SetupTimeout ==
  /\ setupTimer
  /\ late' = TRUE
  /\ type' = type
  /\ ProcessFsm(requests, FALSE)
  /\ UNCHANGED <<actual, calibration, given, padded, rumbleVars>>

\* uni_hid_parser_switch_set_player_leds(), on behalf of the sketch
SetPlayerLeds ==
  /\ state = "ready" /\ Len(requests) < MaxRequests
  /\ requests' = Append(requests, Request("update_led", type))
  /\ UNCHANGED <<state, type, actual, calibration, setupTimer, connectionTimer, late,
                 given, padded, rumbleVars>>

-----------------------------------------------------------------------------
(* The end of the connection.                                              *)

\* uni_hid_device_disconnect() and uni_hid_device_delete(): the timer of the
\* connection is removed, those of the parser are not; their memory is cleared
\* although the run loop has them in its list.
Delete ==
  /\ state # "uninit"
  /\ halted' = IF setupTimer \/ delayTimer \/ durationTimer THEN "cleared timer" ELSE "no"
  /\ state' = "uninit" /\ requests' = <<>> /\ type' = "pro" /\ actual' = "pro"
  /\ calibration' = [s \in Reads |-> "default"] /\ late' = FALSE /\ given' = {} /\ padded' = {}
  /\ connectionTimer' = FALSE /\ setupTimer' = FALSE
  /\ rumble' = "disabled" /\ duration' = FALSE
  /\ delayTimer' = FALSE /\ durationTimer' = FALSE

\* device_connection_timeout()
ConnectionTimeout == connectionTimer /\ Delete

-----------------------------------------------------------------------------
(* The rumble.                                                             *)

\* switch_stop_rumble_now(), with its assertion
StopRumbleNow ==
  IF rumble = "inProgress"
    THEN rumble' = "disabled" /\ durationTimer' = FALSE /\ halted' = "no"
    ELSE halted' = "assertion" /\ UNCHANGED <<rumble, durationTimer>>

\* switch_play_dual_rumble_now()
PlayDualRumbleNow(long) ==
  IF long THEN rumble' = "inProgress" /\ durationTimer' = TRUE /\ halted' = "no"
  ELSE IF rumble # "disabled" THEN StopRumbleNow
  ELSE halted' = "no" /\ UNCHANGED <<rumble, durationTimer>>

\* Mutant: the timer of a rumble in progress is not removed.
PlayDualRumbleKeeps(delayed, long) ==
  /\ state = "ready"
  /\ delayTimer' = (delayed \/ (delayTimer /\ rumble # "delayed"))
  /\ IF ~delayed THEN PlayDualRumbleNow(long) /\ UNCHANGED duration
     ELSE /\ rumble' = "delayed" /\ duration' = long
          /\ halted' = "no" /\ UNCHANGED durationTimer
  /\ UNCHANGED setupVars

\* uni_hid_parser_switch_play_dual_rumble(): the timer that rumble_state tells of
\* is removed; a delay and a duration are 0 or not.
PlayDualRumble(delayed, long) ==
  /\ state = "ready"
  /\ delayTimer' = (delayed \/ (delayTimer /\ rumble # "delayed"))
  /\ IF ~delayed THEN PlayDualRumbleNow(long) /\ UNCHANGED duration
     ELSE /\ rumble' = "delayed" /\ duration' = long
          /\ durationTimer' = (durationTimer /\ rumble # "inProgress")
          /\ halted' = "no"
  /\ UNCHANGED setupVars

\* on_switch_set_rumble_on()
SetRumbleOn ==
  /\ delayTimer /\ delayTimer' = FALSE
  /\ PlayDualRumbleNow(duration)
  /\ UNCHANGED <<duration, setupVars>>

\* on_switch_set_rumble_off()
SetRumbleOff ==
  /\ durationTimer
  /\ StopRumbleNow
  /\ UNCHANGED <<duration, delayTimer, setupVars>>

-----------------------------------------------------------------------------
Setup ==
  \/ SetUp \/ NoReply \/ SetupTimeout \/ SetPlayerLeds
  \/ \E size \in Sizes, marked \in BOOLEAN : Reply(size, marked)

Rumble ==
  \/ \E delayed, long \in BOOLEAN : PlayDualRumble(delayed, long)
  \/ SetRumbleOn \/ SetRumbleOff

\* After an assertion has failed, or the run loop calls the handler of a timer
\* that was cleared, the program is at its end.
Halt == halted # "no" /\ UNCHANGED vars

Next ==
  \/ halted = "no" /\ Setup /\ UNCHANGED halted
  \/ halted = "no" /\ (Delete \/ ConnectionTimeout \/ Rumble)
  \/ Halt

Spec == Init /\ [][Next]_vars

\* The run loop calls the handlers of the timers that have expired.
FairSpec == Spec /\ WF_vars(halted = "no" /\ ConnectionTimeout)

-----------------------------------------------------------------------------
(* Properties.                                                             *)

\* The sticks' calibrations are only taken from the replies to their own reads,
\* also when these come late and are taken for others.  So is the IMU's, except
\* after a time-out from a read of the sticks that a clone has answered with more
\* than it was asked for: only the size tells the reads apart there.  And a
\* controller that replies in time, a clone or not, gets ready as what it is, with
\* all that it has given.
CalibrationRight ==
  /\ \A s \in Reads :
       \/ calibration[s] \in {"default", s}
       \/ s = "factory_imu" /\ late /\ calibration[s] \in padded
  /\ state = "ready" /\ ~late =>
       type = actual /\ \A s \in given : calibration[s] = s

\* As long as the program runs, the timer of a delay runs for a rumble that is delayed
\* and the timer of a duration for one in progress, and no other: a rumble
\* ends, and none is cut off by the timer of the one before.
RumbleTimers ==
  halted = "no" =>
    /\ delayTimer <=> rumble = "delayed"
    /\ durationTimer <=> rumble = "inProgress"
    /\ rumble # "disabled" => state = "ready"

\* A set-up ends although replies are lost: the controller gets ready or its
\* place is free again.
SetupEnds == state \in SetupStates ~> state = "ready" \/ state = "uninit"

\* "assert(ins->rumble_state == SWITCH_STATE_RUMBLE_IN_PROGRESS)": only a rumble
\* in progress is stopped.
StopsInProgress == halted # "assertion"
=============================================================================
