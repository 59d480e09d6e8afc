------------------------------ MODULE SafeCalls ------------------------------
(***************************************************************************)
(* Calls from other tasks to the btstack task: the functions uni_bt_..._safe *)
(* of uni_bt.c take the next of CMD_CALLBACK_MAX registrations, fill it in   *)
(* and add it to the list the run loop of btstack works off.  The callers  *)
(* are the Arduino loop task on CPU 1, the console task, and the btstack   *)
(* task itself for a requested disconnection.                              *)
(*                                                                         *)
(* Nothing guards the index of the registrations, which is read and        *)
(* written in two steps, and nothing tells whether a registration is in    *)
(* use.  A call is its number; what it does is left out.                   *)
(***************************************************************************)
EXTENDS Naturals, Sequences

CONSTANTS Callers,
          Max,        \* CMD_CALLBACK_MAX
          MaxCalls    \* bound: calls made

ASSUME MaxAssumption == Max \in Nat \ {0}

ASSUME CallsAssumption == MaxCalls \in Nat

Registrations == 0 .. Max - 1

None == Max      \* no registration

VARIABLES
  idx,        \* cmd_callback_idx
  context,    \* the context of each registration: the call to make
  list,       \* btstack_run_loop_base_callbacks
  pc,         \* where each caller is
  reg,        \* the registration each caller has got
  call,       \* the call each caller is making
  running,    \* the registration the run loop has popped
  made,       \* number of the last call made (history)
  executed,   \* the calls executed, in order (history)
  by,         \* the caller of each call (history)
  shared,     \* the calls that had a registration with another one (history)
  raced,      \* did a call read the index before another one wrote it? (history)
  crowded     \* did one begin while one Max calls ago waited? (history)

history == <<made, by, shared, raced, crowded>>

vars == <<idx, context, list, pc, reg, call, running, executed, history>>

Init ==
  /\ idx = 0
  /\ context = [r \in Registrations |-> 0]
  /\ list = <<>> /\ running = None
  /\ pc = [c \in Callers |-> "idle"]
  /\ reg = [c \in Callers |-> 0]
  /\ call = [c \in Callers |-> 0]
  /\ made = 0 /\ executed = <<>>
  /\ by = <<>> /\ shared = {} /\ raced = FALSE /\ crowded = FALSE

-----------------------------------------------------------------------------
(* The callers.                                                            *)

\* The calls made that are not executed yet.
Outstanding == {n \in 1 .. made : ~ \E i \in 1 .. Len(executed) : executed[i] = n}

InList(r) == \E i \in 1 .. Len(list) : list[i] = r

\* Mutant: the same registration every time.
FollowingSame(i) == i

\* (i + 1) % CMD_CALLBACK_MAX
Following(i) == IF i + 1 = Max THEN 0 ELSE i + 1

\* The calls that have this registration: it is being filled in for them, or
\* waits with them in the list or in the run loop.
Users(r) ==
  {call[c] : c \in {d \in Callers : pc[d] # "idle" /\ reg[d] = r}}
    \cup {context[q] : q \in {q \in Registrations : q = r /\ (running = r \/ InList(r))}}

\* A call begins: the index is read.
GetNext(c) ==
  /\ pc[c] = "idle"
  /\ made < MaxCalls
  /\ call' = [call EXCEPT ![c] = made + 1]
  /\ reg' = [reg EXCEPT ![c] = Following(idx)]
  /\ pc' = [pc EXCEPT ![c] = "got"]
  /\ made' = made + 1 /\ by' = Append(by, c)
  /\ shared' = LET U == Users(Following(idx))
               IN  shared \cup U \cup {n \in {made + 1} : U # {}}
  /\ raced' = (raced \/ \E d \in Callers : pc[d] = "got")
  /\ crowded' = (crowded \/ \E n \in Outstanding : made + 1 - n >= Max)
  /\ UNCHANGED <<idx, context, list, running, executed>>

\* The new index is written.
Advance(c) ==
  /\ pc[c] = "got"
  /\ idx' = reg[c]
  /\ pc' = [pc EXCEPT ![c] = "advanced"]
  /\ UNCHANGED <<context, list, reg, call, running, executed, history>>

\* Mutant: the context is written through the index, which may have moved on.
FillIndexed(c) ==
  /\ pc[c] = "advanced"
  /\ context' = [context EXCEPT ![idx] = call[c]]
  /\ pc' = [pc EXCEPT ![c] = "filled"]
  /\ UNCHANGED <<idx, list, reg, call, running, executed, history>>

\* The context is filled in.
Fill(c) ==
  /\ pc[c] = "advanced"
  /\ context' = [context EXCEPT ![reg[c]] = call[c]]
  /\ pc' = [pc EXCEPT ![c] = "filled"]
  /\ UNCHANGED <<idx, list, reg, call, running, executed, history>>

\* Mutant: nothing is added while another registration waits.
ExecuteOnMainThreadOnce(c) ==
  /\ pc[c] = "filled"
  /\ list' = IF list # <<>> THEN list ELSE <<reg[c]>>
  /\ pc' = [pc EXCEPT ![c] = "idle"]
  /\ UNCHANGED <<idx, context, reg, call, running, executed, history>>

\* btstack_run_loop_execute_on_main_thread(), under the mutex of the list.  A
\* registration that is in the list already is not added again.
ExecuteOnMainThread(c) ==
  /\ pc[c] = "filled"
  /\ list' = IF InList(reg[c]) THEN list ELSE Append(list, reg[c])
  /\ pc' = [pc EXCEPT ![c] = "idle"]
  /\ UNCHANGED <<idx, context, reg, call, running, executed, history>>

-----------------------------------------------------------------------------
(* The run loop.                                                           *)

\* The first registration is popped, under the mutex.
Pop ==
  /\ running = None /\ list # <<>>
  /\ running' = Head(list)
  /\ list' = Tail(list)
  /\ UNCHANGED <<idx, context, pc, reg, call, executed, history>>

\* Its context is read and the call made.
Execute ==
  /\ running # None
  /\ executed' = Append(executed, context[running])
  /\ running' = None
  /\ UNCHANGED <<idx, context, list, pc, reg, call, history>>

Caller(c) == GetNext(c) \/ Advance(c) \/ Fill(c) \/ ExecuteOnMainThread(c)

\* Only so many calls are made.
Done ==
  /\ made = MaxCalls /\ list = <<>> /\ running = None
  /\ \A c \in Callers : pc[c] = "idle"
  /\ UNCHANGED vars

Next == (\E c \in Callers : Caller(c)) \/ Pop \/ Execute \/ Done

Spec == Init /\ [][Next]_vars

-----------------------------------------------------------------------------
(* Properties.                                                             *)

\* The types of the variables.
TypeOK ==
  /\ idx \in Registrations
  /\ context \in [Registrations -> Nat]
  /\ list \in Seq(Registrations)
  /\ running \in Registrations \cup {None}
  /\ pc \in [Callers -> {"idle", "got", "advanced", "filled"}]
  /\ reg \in [Callers -> Registrations]
  /\ call \in [Callers -> Nat]
  /\ made \in Nat
  /\ executed \in Seq(Nat)
  /\ by \in Seq(Callers)
  /\ shared \subseteq Nat
  /\ raced \in BOOLEAN /\ crowded \in BOOLEAN

\* The call is on its way: its caller is still making it, or a registration
\* that the run loop has or will get holds it.
OnItsWay(n) ==
  \/ \E c \in Callers : call[c] = n /\ pc[c] # "idle"
  \/ running # None /\ context[running] = n
  \/ \E i \in 1 .. Len(list) : context[list[i]] = n

\* A call that had its registration to itself is not lost, whatever became of
\* the others.
NoneLost == \A n \in Outstanding \ shared : OnItsWay(n)

\* Such calls are executed once each, and those of one caller in the order they
\* were made.
InOrder ==
  \A i, j \in 1 .. Len(executed) :
    /\ i < j /\ executed[i] \notin shared /\ executed[j] \notin shared
    /\ by[executed[i]] = by[executed[j]]
    => executed[i] < executed[j]

\* Two calls have one registration only if one of them read the index before the
\* other wrote it, or a call had waited while CMD_CALLBACK_MAX others began:
\* without either, the ring gives every call a registration that is free.
OwnRegistration == shared # {} => raced \/ crowded

\* Every call that has a registration to itself is executed.
AllExecuted ==
  \A n \in 1 .. MaxCalls : (n <= made) ~> (n \in shared \/ (n <= made /\ n \notin Outstanding))

\* What uni_bt.h says of the functions (safe to call from another task or CPU)
\* and uni_bt.c of their number (up to "MAX" safe calls per loop): as long as
\* fewer calls wait, none is lost.  Two calls that read the index at the same
\* time get one registration, and one of them is lost.
UpToMax == ~crowded => \A n \in Outstanding : OnItsWay(n)
=============================================================================
