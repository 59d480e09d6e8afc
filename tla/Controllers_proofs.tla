-------------------------- MODULE Controllers_proofs --------------------------
(***************************************************************************)
(* Proofs about Controllers, for any number of waiting subcommands and any *)
(* size of the replies: which reads the calibrations are taken from, and   *)
(* that the timers of the rumble are those of its state.                   *)
(***************************************************************************)
EXTENDS Controllers, TLAPS

-----------------------------------------------------------------------------
(* The inductive invariants.                                               *)

TypeOK ==
  /\ state \in SetupStates \cup {"uninit", "ready"}
  /\ type \in Types /\ actual \in Types
  /\ calibration \in [Reads -> Reads \cup {"default"}]
  /\ given \subseteq Reads /\ padded \subseteq Reads
  /\ setupTimer \in BOOLEAN /\ connectionTimer \in BOOLEAN /\ late \in BOOLEAN
  /\ rumble \in {"disabled", "delayed", "inProgress"} /\ duration \in BOOLEAN
  /\ delayTimer \in BOOLEAN /\ durationTimer \in BOOLEAN
  /\ halted \in {"no", "assertion", "cleared timer"}

\* The subcommands that may have been sent once the set-up is in state s.
SentBy(s) ==
  IF s = "uninit" THEN {}
  ELSE IF s = "req_dev_info" THEN {"req_dev_info"}
  ELSE IF s = "factory_stick" THEN {"req_dev_info", "factory_stick"}
  ELSE IF s = "user_stick" THEN {"req_dev_info", "factory_stick", "user_stick"}
  ELSE SetupStates

Cmds(s) == {Request(c, t) : c \in SentBy(s), t \in Types}

\* The subcommands that wait have been sent in this set-up, by the state it
\* has come to, and ask for the size that their own data has.
Waiting ==
  /\ requests \in Seq(Cmds(state))
  /\ state = "uninit" => ~setupTimer

LedRequests == {Request("update_led", t) : t \in Types}

\* Without a time-out, the controller has at most the subcommand of this state
\* to reply to, knows what it is after the first, and has all that it gave.
InTime ==
  ~late =>
    /\ state \in SetupStates => requests = <<>> \/ requests = <<Request(state, type)>>
    /\ state = "ready" => requests \in Seq(LedRequests)
    /\ state \notin {"uninit", "req_dev_info"} => type = actual
    /\ \A s \in given : calibration[s] = s

\* A calibration is that of its own read, or, for the IMU's after a time-out, of
\* one answered with more than was asked for.
OwnRead ==
  \A s \in Reads :
    \/ calibration[s] \in {"default", s}
    \/ s = "factory_imu" /\ late /\ calibration[s] \in padded

SetupInv == TypeOK /\ Waiting /\ InTime /\ OwnRead

-----------------------------------------------------------------------------
(* Lemmas about the subcommands.                                           *)

\* What may have been sent grows with the state of the set-up, the subcommand
\* of the next state included.
LEMMA SentGrows ==
  ASSUME NEW s \in SetupStates
  PROVE  /\ After[s] \in SetupStates \cup {"ready"}
         /\ SentBy(s) \subseteq SentBy(After[s])
         /\ After[s] # "ready" => After[s] \in SentBy(After[s])
         /\ SentBy(s) \subseteq SetupStates
         /\ s \notin {"uninit", "ready"} /\ After[s] \notin {"uninit", "req_dev_info"}
BY DEF After, SetupStates, SentBy

\* The first subcommand asks for no data, whatever the controller is taken for.
LEMMA FirstRequest ==
  \A t, u \in Types : Request("req_dev_info", t) = Request("req_dev_info", u)
BY DEF Request, Reads

\* A reply that is taken for the calibration of this state answers the read of
\* this state: the mark tells it from those of the reads before, or the size as
\* long as it is not more than was asked for.
LEMMA TakenIsOwn ==
  ASSUME state \in SetupStates, NEW c \in SentBy(state), NEW t \in Types,
         type \in Types, NEW size \in Nat, NEW marked \in BOOLEAN,
         c \in Reads, state \in Reads,
         marked => c = "user_stick",
         Taken(Request(c, t), size, marked)
  PROVE  c = state \/ (state = "factory_imu" /\ size > Request(c, t).size)
<1>1. Request(c, t).size = Size(c, t)
  BY DEF Request
<1>2. CASE state = "factory_stick"
  BY <1>2 DEF SentBy, Reads
<1>3. CASE state = "user_stick"
  BY <1>3 DEF Taken
<1>4. CASE state = "factory_imu"
  <2>1. size = 24
    BY <1>4 DEF Taken, Size
  <2>2. c # "factory_imu" => Size(c, t) \in {9, 11, 18, 22}
    BY DEF Size
  <2> QED
    BY <2>1, <2>2, <1>1, <1>4
<1> QED
  BY <1>2, <1>3, <1>4 DEF Reads

\* A controller that is what it is taken for and gives what is asked for is
\* believed.
LEMMA FullIsTaken ==
  ASSUME state \in Reads, type \in Types, NEW size \in Nat, NEW marked \in BOOLEAN,
         Full(Request(state, type), size, marked)
  PROVE  Taken(Request(state, type), size, marked)
<1>1. Request(state, type).size = Size(state, type) /\ Request(state, type).cmd = state
  BY DEF Request
<1> QED
  BY <1>1 DEF Full, Taken, Size, Reads, Types

-----------------------------------------------------------------------------
(* The set-up.                                                             *)

\* process_fsm() keeps the waiting subcommands among those sent.
LEMMA FsmWaiting ==
  ASSUME TypeOK, state # "uninit", type' \in Types,
         NEW rest \in Seq(Cmds(state)), NEW timer \in BOOLEAN, ProcessFsm(rest, timer)
  PROVE  /\ state' \in SetupStates \cup {"ready"}
         /\ setupTimer' \in BOOLEAN /\ connectionTimer' \in BOOLEAN
         /\ Waiting'
<1>1. CASE state = "ready"
  <2>1. state' = state /\ requests' = rest
    BY <1>1 DEF ProcessFsm
  <2> QED
    BY <1>1, <2>1 DEF ProcessFsm, Waiting, TypeOK
<1>2. CASE state # "ready"
  <2>1. state \in SetupStates /\ state' = After[state]
    BY <1>2 DEF ProcessFsm, TypeOK
  <2>2. Cmds(state) \subseteq Cmds(state')
    BY <2>1, SentGrows DEF Cmds
  <2>3. rest \in Seq(Cmds(state'))
    BY <2>2
  <2>4. state' # "ready" => Request(state', type') \in Cmds(state')
    BY <2>1, SentGrows DEF Cmds
  <2>5. requests' \in Seq(Cmds(state'))
    BY <1>2, <2>3, <2>4 DEF ProcessFsm
  <2>6. setupTimer' \in BOOLEAN /\ connectionTimer' \in BOOLEAN
    BY <1>2 DEF ProcessFsm, TypeOK
  <2> QED
    BY <2>1, <2>5, <2>6, SentGrows DEF Waiting
<1> QED
  BY <1>1, <1>2

\* The set-up of a controller begins with the first subcommand.
LEMMA SetUpStep ==
  ASSUME SetUp, halted' = "no", TypeOK
  PROVE  SetupInv'
<1>1. TypeOK'
  BY DEF SetUp, TypeOK, SetupStates, After, rumbleVars, Types
<1>2. Request("req_dev_info", "pro") \in {Request(s, t) : s \in SentBy("req_dev_info"), t \in Types}
  BY DEF SentBy, Types
<1>3. Waiting'
  BY <1>2 DEF SetUp, Waiting, Cmds
<1>4. InTime'
  BY DEF SetUp, InTime
<1>5. OwnRead'
  BY DEF SetUp, OwnRead
<1> QED
  BY <1>1, <1>3, <1>4, <1>5 DEF SetupInv

\* The state that a reply or a time-out leads to needs no reply before its own.
LEMMA FsmInTime ==
  ASSUME state \in SetupStates, ProcessFsm(<<>>, setupTimer)
  PROVE  /\ state' \in SetupStates => requests' = <<Request(state', type')>>
         /\ state' = "ready" => requests' = <<>>
         /\ state' = After[state]
BY DEF ProcessFsm, SetupStates, After

\* The replies and the missing ones, the time-out and the LEDs keep the types.
LEMMA ReplyTypes ==
  ASSUME SetupInv, NEW size \in Nat, NEW marked \in BOOLEAN,
         Reply(size, marked), halted' = halted
  PROVE  TypeOK' /\ Waiting' /\ OwnRead'
<1> DEFINE r == Head(requests)
<1>1. requests \in Seq(Cmds(state)) /\ requests # <<>>
  BY DEF SetupInv, Waiting, Reply
<1>2. r \in Cmds(state) /\ Tail(requests) \in Seq(Cmds(state))
  BY <1>1
<1>3. PICK c \in SentBy(state), t \in Types : r = Request(c, t)
  BY <1>2 DEF Cmds
<1>4. r.cmd = c /\ state # "uninit"
  BY <1>3 DEF Request, SentBy
<1>5. type' \in Types
  BY DEF Reply, SetupInv, TypeOK
<1>6. ProcessFsm(Tail(requests), setupTimer) /\ setupTimer \in BOOLEAN /\ TypeOK
  BY DEF Reply, SetupInv, TypeOK
<1>7. /\ state' \in SetupStates \cup {"ready"}
      /\ setupTimer' \in BOOLEAN /\ connectionTimer' \in BOOLEAN
      /\ Waiting'
  BY <1>2, <1>4, <1>5, <1>6, FsmWaiting
<1>8. padded' = (IF c \in Reads /\ size > r.size THEN padded \cup {c} ELSE padded)
      /\ late' = late
  BY <1>4 DEF Reply
<1>9. \/ calibration' = calibration
      \/ /\ state \in Reads /\ c \in Reads /\ calibration' = [calibration EXCEPT ![state] = c]
         /\ c = state \/ (state = "factory_imu" /\ c \in padded')
  <2>1. CASE c \in Reads /\ state \in Reads /\ Taken(r, size, marked)
    <3>1. c = state \/ (state = "factory_imu" /\ size > r.size)
      <4>1. state \in SetupStates
        BY <2>1 DEF Reads, SetupStates, After
      <4>2. marked => c = "user_stick"
        BY <1>4 DEF Reply
      <4>3. Taken(Request(c, t), size, marked)
        BY <1>3, <2>1
      <4>4. type \in Types
        BY <1>6 DEF TypeOK
      <4> HIDE DEF r
      <4> QED
        BY <1>3, <2>1, <4>1, <4>2, <4>3, <4>4, TakenIsOwn
    <3> QED
      BY <1>4, <1>8, <2>1, <3>1 DEF Reply
  <2>2. CASE ~(c \in Reads /\ state \in Reads /\ Taken(r, size, marked))
    BY <1>4, <2>2 DEF Reply
  <2> QED
    BY <2>1, <2>2
<1>10. calibration' \in [Reads -> Reads \cup {"default"}]
  BY <1>9 DEF SetupInv, TypeOK
<1>11. OwnRead'
  <2>1. state \in Reads => late \/ c = state
    <3>1. ~late /\ state \in Reads => requests = <<Request(state, type)>>
      BY <1>1 DEF SetupInv, InTime, Reads, SetupStates, After
    <3> QED
      BY <1>4, <3>1 DEF Request
  <2>2. padded \subseteq padded'
    BY <1>8
  <2>3. CASE calibration' = calibration
    BY <1>8, <2>2, <2>3 DEF SetupInv, OwnRead
  <2>4. CASE /\ state \in Reads /\ calibration' = [calibration EXCEPT ![state] = c]
             /\ c = state \/ (state = "factory_imu" /\ c \in padded')
    BY <1>8, <2>1, <2>2, <2>4 DEF SetupInv, OwnRead, TypeOK
  <2> QED
    BY <1>9, <2>3, <2>4
<1>12. given' \subseteq Reads /\ padded' \subseteq Reads
  BY DEF Reply, SetupInv, TypeOK
<1> QED
  BY <1>5, <1>7, <1>10, <1>11, <1>12 DEF Reply, SetupInv, TypeOK, rumbleVars

\* As long as nothing is late, a reply is the one to the subcommand of this
\* state, and what it gives is taken.
LEMMA ReplyInTime ==
  ASSUME SetupInv, NEW size \in Nat, NEW marked \in BOOLEAN,
         Reply(size, marked), ~late
  PROVE  InTime'
<1> DEFINE r == Head(requests)
<1>1. /\ requests # <<>> /\ late' = late /\ actual' = actual /\ TypeOK /\ InTime
      /\ ProcessFsm(Tail(requests), setupTimer)
  BY DEF Reply, SetupInv
<1>2. CASE state \in SetupStates
  <2>1. requests = <<Request(state, type)>>
    BY <1>1, <1>2 DEF InTime
  <2>2. r = Request(state, type) /\ Tail(requests) = <<>> /\ r.cmd = state
    BY <2>1 DEF Request
  <2>3. /\ state' \in SetupStates => requests' = <<Request(state', type')>>
        /\ state' = "ready" => requests' = <<>>
        /\ state' = After[state]
    BY <1>1, <1>2, <2>2, FsmInTime
  <2>4. type' = actual
    <3>1. type' = IF state = "req_dev_info" THEN actual ELSE type
      BY <2>2 DEF Reply
    <3> QED
      BY <1>1, <1>2, <3>1 DEF InTime, SetupStates, After
  <2>5. \A s \in given' : calibration'[s] = s
    <3>1. CASE state \in Reads /\ Full(r, size, marked)
      <4>1. Taken(r, size, marked)
        BY <1>1, <2>2, <3>1, FullIsTaken DEF TypeOK
      <4>2. calibration' = [calibration EXCEPT ![state] = state]
        BY <2>2, <3>1, <4>1 DEF Reply
      <4>3. given' = given \cup {state}
        BY <2>2, <3>1 DEF Reply
      <4> QED
        BY <1>1, <3>1, <4>2, <4>3 DEF InTime, TypeOK
    <3>2. CASE ~(state \in Reads /\ Full(r, size, marked))
      <4>1. given' = given
        BY <2>2, <3>2 DEF Reply
      <4>2. \/ calibration' = calibration
            \/ state \in Reads /\ calibration' = [calibration EXCEPT ![state] = state]
        BY <2>2 DEF Reply
      <4> QED
        BY <1>1, <4>1, <4>2 DEF InTime, TypeOK
    <3> QED
      BY <3>1, <3>2
  <2>6. state' = "ready" => requests' \in Seq(LedRequests)
    BY <2>3
  <2>7. (state \notin {"uninit", "req_dev_info"} => type = actual)'
    BY <1>1, <2>4
  <2> QED
    BY <2>3, <2>5, <2>6, <2>7 DEF InTime
<1>3. CASE state \notin SetupStates
  <2>1. state = "ready"
    <3>1. state \in {"uninit", "ready"}
      BY <1>1, <1>3 DEF TypeOK
    <3>2. Cmds("uninit") = {}
      BY DEF Cmds, SentBy
    <3>3. requests \in Seq(Cmds(state))
      BY DEF SetupInv, Waiting
    <3> QED
      BY <1>1, <3>1, <3>2, <3>3
  <2>2. state' = "ready" /\ requests' = Tail(requests)
    BY <1>1, <2>1 DEF ProcessFsm
  <2>3. requests \in Seq(LedRequests)
    BY <1>1, <2>1 DEF InTime
  <2>4. r \in LedRequests
        /\ Tail(requests) \in Seq(LedRequests)
    BY <1>1, <2>3
  <2>5. r.cmd = "update_led"
    BY <2>4 DEF Request, LedRequests
  <2>6. type' = type /\ calibration' = calibration /\ given' = given
    BY <2>5 DEF Reply, Reads
  <2> QED
    BY <1>1, <2>1, <2>2, <2>4, <2>6 DEF InTime, SetupStates, After
<1> QED
  BY <1>2, <1>3

\* A subcommand that is never replied to is one less to wait for.
LEMMA NoReplyStep ==
  ASSUME SetupInv, NoReply, halted' = halted
  PROVE  SetupInv'
<1>1. /\ requests \in Seq(Cmds(state)) /\ requests # <<>> /\ requests' = Tail(requests)
      /\ TypeOK /\ InTime /\ OwnRead
      /\ UNCHANGED <<state, type, actual, calibration, setupTimer, connectionTimer, late,
                     given, padded, rumbleVars>>
  BY DEF SetupInv, Waiting, NoReply
<1>2. TypeOK' /\ OwnRead'
  BY <1>1 DEF TypeOK, OwnRead, rumbleVars
<1>3. Waiting'
  <2>1. requests' \in Seq(Cmds(state))
    BY <1>1
  <2> QED
    BY <1>1, <2>1 DEF Waiting, SetupInv
<1>4. ASSUME ~late, state \in SetupStates
      PROVE  requests' = <<>>
  BY <1>1, <1>4 DEF InTime
<1>5. ASSUME ~late, state = "ready"
      PROVE  requests' \in Seq(LedRequests)
  <2>1. requests \in Seq(LedRequests)
    BY <1>1, <1>5 DEF InTime
  <2> QED
    BY <1>1, <2>1
<1>6. InTime'
  BY <1>1, <1>4, <1>5 DEF InTime
<1> QED
  BY <1>2, <1>3, <1>6 DEF SetupInv

\* After a time-out nothing is promised but the calibrations of their own reads.
LEMMA TimeoutStep ==
  ASSUME SetupInv, SetupTimeout, halted' = halted
  PROVE  SetupInv'
<1>1. /\ ProcessFsm(requests, FALSE) /\ requests \in Seq(Cmds(state)) /\ TypeOK /\ OwnRead
      /\ late' = TRUE /\ type' = type /\ state # "uninit"
      /\ UNCHANGED <<actual, calibration, given, padded, rumbleVars>>
  BY DEF SetupInv, Waiting, SetupTimeout
<1>2. /\ state' \in SetupStates \cup {"ready"}
      /\ setupTimer' \in BOOLEAN /\ connectionTimer' \in BOOLEAN
      /\ Waiting'
  BY <1>1, FsmWaiting DEF TypeOK
<1>3. TypeOK' /\ OwnRead' /\ InTime'
  BY <1>1, <1>2 DEF TypeOK, OwnRead, InTime, rumbleVars
<1> QED
  BY <1>2, <1>3 DEF SetupInv

\* The LEDs are set once the set-up is over.
LEMMA LedsStep ==
  ASSUME SetupInv, SetPlayerLeds, halted' = halted
  PROVE  SetupInv'
<1>1. /\ requests \in Seq(Cmds(state)) /\ state = "ready" /\ TypeOK /\ InTime /\ OwnRead
      /\ requests' = Append(requests, Request("update_led", type))
      /\ UNCHANGED <<state, type, actual, calibration, setupTimer, connectionTimer, late,
                     given, padded, rumbleVars>>
  BY DEF SetupInv, Waiting, SetPlayerLeds
<1>2. TypeOK' /\ OwnRead'
  BY <1>1 DEF TypeOK, OwnRead, rumbleVars
<1>3. Request("update_led", type) \in LedRequests /\ LedRequests \subseteq Cmds("ready")
  <2>1. "update_led" \in SentBy("ready")
    BY DEF SentBy, SetupStates, After
  <2>2. type \in Types
    BY <1>1 DEF TypeOK
  <2>3. Request("update_led", type) \in LedRequests
    BY <2>2 DEF LedRequests
  <2>4. ASSUME NEW r \in LedRequests PROVE r \in Cmds("ready")
    <3>1. PICK t \in Types : r = Request("update_led", t)
      BY <2>4 DEF LedRequests
    <3> QED
      BY <2>1, <3>1 DEF Cmds
  <2> QED
    BY <2>3, <2>4
<1>4. Waiting'
  <2>1. requests' \in Seq(Cmds("ready"))
    BY <1>1, <1>3
  <2> QED
    BY <1>1, <2>1 DEF Waiting
<1>5. ~late => requests \in Seq(LedRequests)
  BY <1>1 DEF InTime
<1>6. ~late => requests' \in Seq(LedRequests)
  BY <1>1, <1>3, <1>5
<1>7. InTime'
  BY <1>1, <1>6 DEF InTime, SetupStates, After
<1> QED
  BY <1>2, <1>4, <1>7 DEF SetupInv

\* A place that is free again holds no subcommand and no calibration.
LEMMA DeleteStep ==
  ASSUME SetupInv, Delete
  PROVE  SetupInv'
<1>1. TypeOK'
  BY DEF Delete, SetupInv, TypeOK, Types
<1>2. InTime' /\ OwnRead'
  BY DEF Delete, InTime, OwnRead, SetupStates, After
<1>3. Waiting'
  <2>1. <<>> \in Seq(Cmds("uninit"))
    OBVIOUS
  <2> QED
    BY <2>1 DEF Delete, Waiting
<1> QED
  BY <1>1, <1>2, <1>3 DEF SetupInv

\* The rumble has no part in the set-up.
LEMMA RumbleStep ==
  ASSUME SetupInv, Rumble
  PROVE  SetupInv' /\ UNCHANGED setupVars
<1>1. UNCHANGED setupVars
  BY DEF Rumble, PlayDualRumble, SetRumbleOn, SetRumbleOff
<1> DEFINE RumbleTypes ==
             /\ rumble \in {"disabled", "delayed", "inProgress"} /\ duration \in BOOLEAN
             /\ delayTimer \in BOOLEAN /\ durationTimer \in BOOLEAN
             /\ halted \in {"no", "assertion", "cleared timer"}
<1>2. RumbleTypes'
  <2> USE DEF SetupInv, TypeOK, PlayDualRumbleNow, StopRumbleNow
  <2>1. ASSUME NEW delayed \in BOOLEAN, NEW long \in BOOLEAN, PlayDualRumble(delayed, long)
        PROVE  RumbleTypes'
    BY <2>1 DEF PlayDualRumble
  <2>2. CASE SetRumbleOn
    BY <2>2 DEF SetRumbleOn
  <2>3. CASE SetRumbleOff
    BY <2>3 DEF SetRumbleOff
  <2> QED
    BY <2>1, <2>2, <2>3 DEF Rumble
<1>3. TypeOK'
  BY <1>1, <1>2 DEF SetupInv, TypeOK, setupVars
<1>4. Waiting' /\ InTime' /\ OwnRead'
  BY <1>1 DEF SetupInv, Waiting, InTime, OwnRead, setupVars
<1> QED
  BY <1>1, <1>3, <1>4 DEF SetupInv

\* A step that changes nothing.
LEMMA SetupStutter ==
  ASSUME SetupInv, UNCHANGED vars
  PROVE  SetupInv'
<1>1. TypeOK' /\ OwnRead'
  BY DEF SetupInv, TypeOK, OwnRead, vars, setupVars, rumbleVars
<1>2. Waiting' /\ InTime'
  BY DEF SetupInv, Waiting, InTime, vars, setupVars
<1> QED
  BY <1>1, <1>2 DEF SetupInv

-----------------------------------------------------------------------------
(* The rumble.                                                             *)

RumbleInv == TypeOK /\ RumbleTimers

\* The timers of the rumble change only with its state.
LEMMA RumbleKept ==
  ASSUME SetupInv, RumbleInv, [Next]_vars
  PROVE  RumbleTimers'
<1> USE DEF RumbleInv, TypeOK, RumbleTimers
<1>1. CASE halted = "no" /\ Setup /\ UNCHANGED halted
  <2>1. UNCHANGED rumbleVars
    BY <1>1 DEF Setup, SetUp, NoReply, SetupTimeout, SetPlayerLeds, Reply
  <2>2. state = "ready" => state' = "ready"
    BY <1>1 DEF Setup, SetUp, NoReply, SetupTimeout, SetPlayerLeds, Reply, ProcessFsm
  <2> QED
    BY <1>1, <2>1, <2>2 DEF rumbleVars
<1>2. CASE Delete
  BY <1>2 DEF Delete
<1>3. ASSUME halted = "no", NEW delayed \in BOOLEAN, NEW long \in BOOLEAN,
             PlayDualRumble(delayed, long)
      PROVE  RumbleTimers'
  BY <1>3 DEF PlayDualRumble, PlayDualRumbleNow, StopRumbleNow, setupVars
<1>4. CASE halted = "no" /\ SetRumbleOn
  BY <1>4 DEF SetRumbleOn, PlayDualRumbleNow, StopRumbleNow, setupVars
<1>5. CASE halted = "no" /\ SetRumbleOff
  BY <1>5 DEF SetRumbleOff, StopRumbleNow, setupVars
<1>6. CASE UNCHANGED vars
  BY <1>6 DEF vars, rumbleVars, setupVars
<1> QED
  BY <1>1, <1>2, <1>3, <1>4, <1>5, <1>6 DEF Next, ConnectionTimeout, Rumble, Halt

-----------------------------------------------------------------------------
(* The theorems.                                                           *)

\* The set-up's invariant holds at the start and every step of the controller,
\* the timers and the sketch keeps it.
THEOREM SetupInductive ==
  /\ Init => SetupInv
  /\ SetupInv /\ [Next]_vars => SetupInv'
<1>1. Init => SetupInv
  <2> SUFFICES ASSUME Init PROVE SetupInv
    OBVIOUS
  <2>1. TypeOK /\ OwnRead
    BY DEF Init, TypeOK, OwnRead, Types
  <2>2. Waiting /\ InTime
    BY DEF Init, Waiting, InTime, SetupStates, After
  <2> QED
    BY <2>1, <2>2 DEF SetupInv
<1>2. ASSUME SetupInv, [Next]_vars PROVE SetupInv'
  <2>1. CASE halted = "no" /\ Setup /\ UNCHANGED halted
    <3>1. ASSUME NEW size \in Sizes, NEW marked \in BOOLEAN, Reply(size, marked)
          PROVE  SetupInv'
      <4>0. size \in Nat
        BY SizesAssumption
      <4>1. TypeOK' /\ Waiting' /\ OwnRead'
        BY <1>2, <2>1, <3>1, <4>0, ReplyTypes
      <4>2. ~late => InTime'
        BY <1>2, <3>1, <4>0, ReplyInTime
      <4>3. late => InTime'
        BY <3>1 DEF Reply, InTime
      <4> QED
        BY <4>1, <4>2, <4>3 DEF SetupInv
    <3>2. CASE SetUp
      BY <1>2, <2>1, <3>2, SetUpStep DEF SetupInv
    <3> QED
      BY <1>2, <2>1, <3>1, <3>2, NoReplyStep, TimeoutStep, LedsStep DEF Setup
  <2>2. CASE Delete \/ ConnectionTimeout
    BY <1>2, <2>2, DeleteStep DEF ConnectionTimeout
  <2>3. CASE Rumble
    BY <1>2, <2>3, RumbleStep
  <2>4. CASE UNCHANGED vars
    BY <1>2, <2>4, SetupStutter
  <2> QED
    BY <1>2, <2>1, <2>2, <2>3, <2>4 DEF Next, Halt
<1> QED
  BY <1>1, <1>2

\* However late the replies are and whatever size they report, the sticks'
\* calibrations are only taken from the replies to their own reads, and the IMU's
\* but for a read that was answered, late, with more than was asked for; and a
\* controller that has always replied in time gets ready as what it is, with all
\* that it gave.
THEOREM CalibrationsAreOwn == Spec => []CalibrationRight
<1>1. SetupInv => CalibrationRight
  BY DEF SetupInv, InTime, OwnRead, CalibrationRight, SetupStates, After
<1> QED
  BY <1>1, SetupInductive, PTL DEF Spec

\* As long as the program runs, the timers of the rumble are those of its state.
THEOREM TimersMatchRumble == Spec => []RumbleTimers
<1>1. Init => RumbleInv
  BY SetupInductive DEF Init, RumbleInv, RumbleTimers, SetupInv
<1>2. SetupInv /\ RumbleInv /\ [Next]_vars => RumbleInv'
  BY SetupInductive, RumbleKept DEF RumbleInv, SetupInv
<1>3. RumbleInv => RumbleTimers
  BY DEF RumbleInv
<1> QED
  BY <1>1, <1>2, <1>3, SetupInductive, PTL DEF Spec
=============================================================================
