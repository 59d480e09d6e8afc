------------------------------- MODULE Sketch -------------------------------
(***************************************************************************)
(* The application, sketch.cpp: reports of gamepads and of Bluetooth       *)
(* keyboards become joystick lines and PS/2 make and break codes.  All     *)
(* gamepads share one set of "previous" flags, all keyboards another, and  *)
(* a selector pin decides which buttons are joystick and which keys.       *)
(*                                                                         *)
(* The codes go through the keyboard line (KeyLine), which refuses them    *)
(* when the host has disabled reporting or the queue is full.              *)
(***************************************************************************)
EXTENDS Naturals, Sequences, FiniteSets

CONSTANTS
    Pads,        \* the gamepads
    Keyboards,   \* the Bluetooth keyboards
    Pressable,   \* bound: the gamepad inputs that are ever pressed
    KeyboardKeys,\* bound: the keys that are ever pressed on a keyboard
    Capacity     \* PACKET_QUEUE_LENGTH and the packet of the send task

\* virtualKeys[], and the inputs virtualState[] holds in each layout: the right
\* one (GPIO15 HIGH) or the left one.
VirtualKeys == <<"Up", "Down", "Left", "Right", "Enter", "0">>
KeyInputs(right) ==
    IF right THEN <<"dpadUp", "dpadDown", "dpadLeft", "dpadRight", "r1", "throttle">>
             ELSE <<"y", "a", "x", "b", "l1", "brake">>

\* GPIO_UP, GPIO_DOWN, GPIO_LEFT, GPIO_RIGHT, GPIO_FOC
Lines == 1 .. 5
LineInputs(right) ==
    IF right THEN <<"y", "a", "x", "b", "l1">>
             ELSE <<"dpadUp", "dpadDown", "dpadLeft", "dpadRight", "r1">>

FixedKeys   == <<"F9", "F10">>
FixedInputs == <<"share", "options">>

Elements(s) == {s[i] : i \in DOMAIN s}
Inputs == UNION {Elements(KeyInputs(r)) : r \in BOOLEAN} \cup Elements(FixedInputs)
PadKeys == Elements(VirtualKeys) \cup Elements(FixedKeys)

ASSUME SketchAssumption ==
    /\ Pads \cap Keyboards = {}
    /\ Pressable \subseteq Inputs
    /\ IsFiniteSet(KeyboardKeys)
    /\ Capacity \in Nat \ {0}

\* The calls of keyHid_send() one report can lead to, in the order of the code:
\* the fixed keys, the releases of a change of layout, the virtual keys; the keys
\* of a keyboard come after them here, and never in the same report.
PadCalls == 14
KeyCalls == CHOOSE s \in [1 .. Cardinality(KeyboardKeys) -> KeyboardKeys] :
                \A i, j \in DOMAIN s : s[i] = s[j] => i = j
Calls == FixedKeys \o VirtualKeys \o VirtualKeys \o KeyCalls
Releases == 3 .. 8
Keys == PadKeys \cup KeyboardKeys
Controllers == Pads \cup Keyboards

VARIABLES
    right,       \* GPIO_LAYOUT_SELECT reads HIGH
    reporting,   \* data reporting is enabled by the host
    prevLayout,  \* static prevLayout, "none" before the first report
    padHeld,     \* prevVirtualState[], prevShare, prevOptions: the keys set
    keyHeld,     \* previousKeyboardState[]: the keys set
    gpio,        \* the joystick lines that are active (LOW)
    due,         \* the calls still to be made for the report, by place in Calls
    pending,     \* the keyboard line's codes
    down,        \* the keys whose last whole code was a make code
    lost,        \* history: keys whose latest code was lost and made a difference
    switched,    \* history: the latest gamepad report came after a layout change
    held,        \* history: the keys each controller's latest report holds
    taken        \* history: those of them that another's report has released since

line_vars == <<pending, down>>
prev_vars == <<prevLayout, padHeld, keyHeld, gpio, switched, held, taken>>
vars == <<right, reporting, prev_vars, due, line_vars, lost>>

Line == INSTANCE KeyLine

\* The types of the variables.
TypeOK ==
    /\ right \in BOOLEAN /\ reporting \in BOOLEAN
    /\ prevLayout \in {"none", "left", "right"}
    /\ padHeld \subseteq PadKeys
    /\ keyHeld \subseteq KeyboardKeys
    /\ gpio \subseteq Lines
    /\ due \subseteq DOMAIN Calls
    /\ Line!TypeOK
    /\ lost \subseteq Keys
    /\ switched \in BOOLEAN
    /\ held \in [Controllers -> SUBSET Keys]
    /\ taken \subseteq Keys

Init ==
    /\ right \in BOOLEAN /\ reporting = TRUE
    /\ prevLayout = "none" /\ padHeld = {} /\ keyHeld = {} /\ gpio = {}
    /\ due = {}
    /\ Line!Init
    /\ lost = {} /\ switched = FALSE
    /\ held = [c \in Controllers |-> {}] /\ taken = {}

-----------------------------------------------------------------------------
(* The user turns the selector, the host disables or enables reporting. *)

Turn ==
    /\ right' = ~right
    /\ UNCHANGED <<reporting, prev_vars, due, line_vars, lost>>

Report(on) ==
    /\ reporting' = on /\ reporting # on
    /\ UNCHANGED <<right, prev_vars, due, line_vars, lost>>

-----------------------------------------------------------------------------
(* processControllers(), one report at a time.  The flags are the task's   *)
(* own, so a report is compared with them at once; the calls it leads to   *)
(* follow one by one.                                                      *)

Layout == IF right THEN "right" ELSE "left"
Pressed(keys, inputs, report) == {keys[i] : i \in {j \in DOMAIN keys : inputs[j] \in report}}
Differ(keys, was, is, from) ==
    {from + i : i \in {j \in DOMAIN keys : (keys[j] \in was) # (keys[j] \in is)}}

\* The report of c holds the keys S.  If it leads to calls for a key that it does
\* not hold, it takes that key from those that hold it.
Holds(c, S) ==
    /\ held' = [held EXCEPT ![c] = S]
    /\ taken' = {k \in Keys :
                    /\ \E d \in Controllers : k \in held'[d]
                    /\ IF \E call \in due' : Calls[call] = k THEN k \notin S ELSE k \in taken}

\* Mutants: the flags survive a change of layout; the keys are not released.
ProcessGamepadForgets(p, report) ==
    /\ due = {}
    /\ LET changed == prevLayout # "none" /\ prevLayout # Layout
           fixed   == Pressed(FixedKeys, FixedInputs, report)
           virtual == Pressed(VirtualKeys, KeyInputs(right), report)
       IN  /\ padHeld' = fixed \cup virtual
           /\ due' = Differ(FixedKeys, padHeld, fixed, 0)
                     \cup Differ(VirtualKeys, IF changed THEN {} ELSE padHeld, virtual, 8)
           /\ switched' = changed
    /\ prevLayout' = Layout
    /\ Holds(p, padHeld')
    /\ gpio' = {l \in Lines : LineInputs(right)[l] \in report}
    /\ UNCHANGED <<right, reporting, keyHeld, line_vars, lost>>

ProcessGamepadKeepsFlags(p, report) ==
    /\ due = {}
    /\ LET changed == prevLayout # "none" /\ prevLayout # Layout
           fixed   == Pressed(FixedKeys, FixedInputs, report)
           virtual == Pressed(VirtualKeys, KeyInputs(right), report)
       IN  /\ padHeld' = fixed \cup virtual
           /\ due' = Differ(FixedKeys, padHeld, fixed, 0)
                     \cup (IF changed THEN Releases ELSE {})
                     \cup Differ(VirtualKeys, padHeld, virtual, 8)
           /\ switched' = changed
    /\ prevLayout' = Layout
    /\ Holds(p, padHeld')
    /\ gpio' = {l \in Lines : LineInputs(right)[l] \in report}
    /\ UNCHANGED <<right, reporting, keyHeld, line_vars, lost>>

\* processGamepad()
ProcessGamepad(p, report) ==
    /\ due = {}
    /\ LET changed == prevLayout # "none" /\ prevLayout # Layout
           fixed   == Pressed(FixedKeys, FixedInputs, report)
           virtual == Pressed(VirtualKeys, KeyInputs(right), report)
       IN  /\ padHeld' = fixed \cup virtual
           /\ due' = Differ(FixedKeys, padHeld, fixed, 0)
                     \cup (IF changed THEN Releases ELSE {})
                     \cup Differ(VirtualKeys, IF changed THEN {} ELSE padHeld, virtual, 8)
           /\ switched' = changed
    /\ prevLayout' = Layout
    /\ Holds(p, padHeld')
    /\ gpio' = {l \in Lines : LineInputs(right)[l] \in report}
    /\ UNCHANGED <<right, reporting, keyHeld, line_vars, lost>>

\* processKeyboard()
ProcessKeyboard(b, report) ==
    /\ due = {}
    /\ keyHeld' = report
    /\ due' = Differ(KeyCalls, keyHeld, report, PadCalls)
    /\ Holds(b, report)
    /\ UNCHANGED <<right, reporting, prevLayout, padHeld, gpio, switched, line_vars, lost>>

\* keyHid_send(): the code is of the flag's new value, but for a release.
Down(call) ==
    \/ call \in 1 .. PadCalls \ Releases /\ Calls[call] \in padHeld
    \/ call > PadCalls /\ Calls[call] \in keyHeld
Code(call) == [key |-> Calls[call], down |-> Down(call)]

NextCall == CHOOSE c \in due : \A d \in due : c <= d

Made == due' = due \ {NextCall}

\* What key k is once the codes on the line have gone out.
Waiting(k) == {i \in DOMAIN pending : pending[i].key = k}
Latest(S) == CHOOSE i \in S : \A j \in S : j <= i
Settled(k) == IF Waiting(k) # {} THEN pending[Latest(Waiting(k))].down ELSE k \in down

\* Mutant: the queue has no limit.
SendUnlimited ==
    /\ due # {} /\ Made
    /\ reporting
    /\ pending' = Append(pending, Code(NextCall))
    /\ lost' = lost \ {Calls[NextCall]}
    /\ UNCHANGED <<right, reporting, prev_vars, down>>

Send ==
    /\ due # {} /\ Made
    /\ reporting
    /\ Line!Accept(Code(NextCall))
    /\ lost' = lost \ {Calls[NextCall]}
    /\ UNCHANGED <<right, reporting, prev_vars>>

\* Reporting is disabled, or the queue is full (the send task has a packet of its
\* own, or has not yet).
SendLost ==
    /\ due # {} /\ Made
    /\ ~reporting \/ Len(pending) + 1 >= Capacity
    /\ LET e == Code(NextCall)
       IN  lost' = IF Settled(e.key) = e.down THEN lost \ {e.key} ELSE lost \cup {e.key}
    /\ UNCHANGED <<right, reporting, prev_vars, line_vars>>

-----------------------------------------------------------------------------
(* The device and the bus. *)

Deliver ==
    /\ Line!Deliver
    /\ UNCHANGED <<right, reporting, prev_vars, due, lost>>

\* A lost code counts if no later one of its key is on the line.
Lose ==
    /\ Line!Lose
    /\ LET e == Head(pending)
       IN  lost' = IF Waiting(e.key) = {1} /\ (e.key \in down) # e.down
                   THEN lost \cup {e.key} ELSE lost
    /\ UNCHANGED <<right, reporting, prev_vars, due>>

Next ==
    \/ Turn
    \/ \E on \in BOOLEAN : Report(on)
    \/ \E p \in Pads, report \in SUBSET Pressable : ProcessGamepad(p, report)
    \/ \E b \in Keyboards, report \in SUBSET KeyboardKeys : ProcessKeyboard(b, report)
    \/ Send
    \/ SendLost
    \/ Deliver
    \/ Lose

Spec == Init /\ [][Next]_vars

-----------------------------------------------------------------------------
(* Safety *)

\* What key k will be after all calls and codes on the way.
OfKey(k) == {c \in due : Calls[c] = k}
FinallyDown(k) == IF OfKey(k) # {} THEN Down(Latest(OfKey(k))) ELSE Settled(k)

\* No key is left pressed: once the codes on the way have gone out, a key is down
\* only if a gamepad or a keyboard holds it, in any order of reports
\* and changes of layout, unless the key's latest code was lost.
NoStuckKey ==
    \A k \in Keys \ lost : FinallyDown(k) => k \in padHeld \cup keyHeld

\* No key press is forgotten either: a key that a controller holds is down once
\* the codes on the way have gone out, unless its latest code was lost or a report
\* of another controller has released it since.  One controller alone is never
\* wronged.
NoMissedKey ==
    \A c \in Controllers : \A k \in held[c] \ lost : k \in taken \/ FinallyDown(k)

\* The comment on the keyboards' flags says that they are there to generate make
\* and break events only once: a key that a keyboard holds is not broken.  The
\* flags are those of all keyboards: the report of one that does not hold the key
\* breaks it, and the next one of the first makes it again.
OncePerPress ==
    \A b \in Keyboards : \A k \in held[b] \ (lost \cup PadKeys) : FinallyDown(k)

\* The comment on the layout change says that every virtual key that is still
\* pressed is released ("eliberam orice tasta virtuala ramasa apasata").
LayoutReleases ==
    switched /\ due = {} /\ pending = <<>> =>
        down \cap Elements(VirtualKeys) \subseteq padHeld \cup keyHeld
=============================================================================
