--------------------------- MODULE SafeCalls_proofs ---------------------------
(***************************************************************************)
(* Proofs about SafeCalls, for every number of registrations, callers and  *)
(* calls that wait, however the calls overlap: a call that had its         *)
(* registration to itself is not lost and executed in order, and two calls *)
(* share one only after a race for the index or a full ring.  And about    *)
(* Requests, which is built on it: its steps are calls of SafeCalls, and   *)
(* no request disconnects another controller instead of the one meant.     *)
(***************************************************************************)
EXTENDS Requests, TLAPS

-----------------------------------------------------------------------------
(* Lemmas about the ring of registrations.                                 *)

\* The registration n places before r in the ring.
Before(r, n) == IF n <= r THEN r - n ELSE r + Max - n

\* The next registration is a registration, and one before it is the old one.
LEMMA FollowingIsNext ==
  ASSUME NEW r \in Registrations
  PROVE  /\ Following(r) \in Registrations
         /\ (IF Following(r) = 0 THEN Max - 1 ELSE Following(r) - 1) = r
BY MaxAssumption DEF Registrations, Following

\* The next registration is none of the last CMD_CALLBACK_MAX - 1.
LEMMA FollowingIsFree ==
  ASSUME NEW r \in Registrations, NEW n \in Nat, n + 1 < Max
  PROVE  Before(r, n) # Following(r)
BY MaxAssumption DEF Registrations, Before, Following

\* Counted from the next registration, every distance is one more.
LEMMA BeforeFollowing ==
  ASSUME NEW r \in Registrations, NEW n \in Nat, n + 1 < Max
  PROVE  Before(Following(r), n + 1) = Before(r, n)
<1>1. CASE r + 1 = Max
  BY <1>1, MaxAssumption DEF Registrations, Before, Following
<1>2. CASE r + 1 # Max
  BY <1>2, MaxAssumption DEF Registrations, Before, Following
<1> QED
  BY <1>1, <1>2

-----------------------------------------------------------------------------
(* The inductive invariant.                                                *)

\* A caller is making a call; a registration waits, or the run loop has it; a
\* call has been executed.
Active(c) == pc[c] # "idle"

Queued(r) == r \in Registrations /\ (running = r \/ InList(r))

Executed(n) == \E i \in 1 .. Len(executed) : executed[i] = n

\* A call has one number and one caller, and is in at most one registration,
\* which is in the list at most once.
NumberInv ==
  /\ Len(by) = made
  /\ \A n \in 1 .. made : n <= call[by[n]]
  /\ \A c \in Callers : Active(c) => call[c] \in 1 .. made /\ by[call[c]] = c
  /\ \A r \in Registrations : context[r] \in 0 .. made /\ (Queued(r) => context[r] # 0)
  /\ \A r, s \in Registrations : context[r] = context[s] /\ context[r] # 0 => r = s
  /\ \A c \in Callers, r \in Registrations :
       Active(c) /\ context[r] = call[c] => r = reg[c] /\ pc[c] = "filled"
  /\ \A i \in 1 .. Len(executed) : executed[i] \in 1 .. made
  /\ \A i, j \in 1 .. Len(list) : list[i] = list[j] => i = j
  /\ shared \subseteq 1 .. made

\* A call that is being made and shares nothing has its registration to itself.
MakingInv ==
  \A c \in Callers : Active(c) =>
    /\ call[c] \notin shared =>
         /\ ~Queued(reg[c]) /\ ~Executed(call[c])
         /\ \A d \in Callers : Active(d) /\ reg[d] = reg[c] => d = c
    /\ pc[c] = "filled" => context[reg[c]] = call[c] \/
                           (context[reg[c]] \in shared /\ call[c] \in shared)

\* So has one that waits, and it is executed once.
WaitingInv ==
  \A r \in Registrations : Queued(r) /\ context[r] \notin shared =>
    /\ ~Executed(context[r])
    /\ ~(running = r /\ InList(r))
    /\ \A c \in Callers : Active(c) => reg[c] # r

\* No call that shares nothing is lost.
LossInv ==
  \A n \in 1 .. made : ~Executed(n) /\ n \notin shared =>
    \/ \E c \in Callers : Active(c) /\ call[c] = n
    \/ \E r \in Registrations : Queued(r) /\ context[r] = n

\* Two calls of one caller, each with a registration of its own: m goes first.
Goes(m, n) == m \notin shared /\ n \notin shared /\ by[m] = by[n] => m < n

\* The calls executed go before those that wait, the one that runs before those
\* in the list, and the list is in order.
ExecutedFirst ==
  \A i \in 1 .. Len(executed), r \in Registrations :
    Queued(r) => Goes(executed[i], context[r])

RunningFirst ==
  \A i \in 1 .. Len(list) : running # None => Goes(context[running], context[list[i]])

ListInOrder ==
  \A i, j \in 1 .. Len(list) : i < j => Goes(context[list[i]], context[list[j]])

OrderInv == InOrder /\ ExecutedFirst /\ RunningFirst /\ ListInOrder

\* The calls whose index has been written.
Advanced == IF \E c \in Callers : pc[c] = "got" THEN made - 1 ELSE made

\* Without races and crowds the calls take the registrations of the ring in
\* turn, and none is further back than the ring is long.
RingInv ==
  ~raced /\ ~crowded =>
    /\ shared = {}
    /\ \A n \in Outstanding : made - n < Max
    /\ \A c \in Callers : pc[c] = "got" =>
         /\ reg[c] = Following(idx) /\ call[c] = made
         /\ \A d \in Callers : pc[d] = "got" => d = c
    /\ \A c \in Callers : pc[c] \in {"advanced", "filled"} =>
         call[c] <= Advanced /\ reg[c] = Before(idx, Advanced - call[c])
    /\ \A r \in Registrations : Queued(r) =>
         context[r] <= Advanced /\ r = Before(idx, Advanced - context[r])

CallsInv ==
  /\ TypeOK /\ NumberInv /\ MakingInv /\ WaitingInv /\ LossInv /\ OrderInv /\ RingInv

-----------------------------------------------------------------------------
(* The types.                                                              *)

\* Those that have a registration are calls.
LEMMA UsersAre ==
  ASSUME TypeOK, NEW r \in Registrations
  PROVE  /\ Users(r) \subseteq Nat
         /\ \A c \in Callers : Active(c) /\ reg[c] = r => call[c] \in Users(r)
         /\ Queued(r) => context[r] \in Users(r)
         /\ \A n \in Users(r) : \/ \E c \in Callers : Active(c) /\ reg[c] = r /\ call[c] = n
                                \/ Queued(r) /\ context[r] = n
BY DEF Users, TypeOK, Active, Queued

\* The types are right at the start.
LEMMA InitTypes == Init => TypeOK
<1>1. SUFFICES ASSUME Init PROVE TypeOK
  OBVIOUS
<1>2. 0 \in Registrations /\ None \in Registrations \cup {None}
  BY MaxAssumption DEF Registrations
<1>3. context \in [Registrations -> Nat] /\ call \in [Callers -> Nat]
  BY <1>1 DEF Init
<1>4. reg \in [Callers -> Registrations] /\ pc \in [Callers -> {"idle", "got", "advanced", "filled"}]
  BY <1>1, <1>2 DEF Init
<1>5. list \in Seq(Registrations) /\ executed \in Seq(Nat) /\ by \in Seq(Callers)
  BY <1>1 DEF Init
<1> QED
  BY <1>1, <1>2, <1>3, <1>4, <1>5 DEF Init, TypeOK

\* Whatever overlaps, the variables keep their types.
LEMMA NextTypes ==
  ASSUME TypeOK, [Next]_vars
  PROVE  TypeOK'
<1> USE MaxAssumption DEF TypeOK, history
<1>1. ASSUME NEW c \in Callers, Caller(c) PROVE TypeOK'
  <2>1. CASE GetNext(c)
    <3>1. Following(idx) \in Registrations
      BY FollowingIsNext
    <3>2. Users(Following(idx)) \subseteq Nat
      BY <3>1, UsersAre
    <3>3. by' \in Seq(Callers)
      BY <2>1 DEF GetNext
    <3>4. shared' = shared \cup Users(Following(idx))
                      \cup {n \in {made + 1} : Users(Following(idx)) # {}}
      BY <2>1 DEF GetNext
    <3>5. made' = made + 1 /\ made' \in Nat
      BY <2>1 DEF GetNext
    <3>6. shared' \subseteq Nat
      BY ONLY TypeOK, <3>2, <3>4, <3>5 DEF TypeOK
    <3> QED
      BY <2>1, <3>1, <3>3, <3>5, <3>6 DEF GetNext
  <2>2. CASE Advance(c)
    BY <2>2 DEF Advance
  <2>3. CASE Fill(c)
    BY <2>3 DEF Fill
  <2>4. CASE ExecuteOnMainThread(c)
    <3>1. list' \in Seq(Registrations)
      BY <2>4 DEF ExecuteOnMainThread
    <3> QED
      BY <2>4, <3>1 DEF ExecuteOnMainThread
  <2> QED
    BY <1>1, <2>1, <2>2, <2>3, <2>4 DEF Caller
<1>2. CASE Pop
  <2>1. Head(list) \in Registrations /\ Tail(list) \in Seq(Registrations)
    BY <1>2 DEF Pop
  <2> QED
    BY <1>2, <2>1 DEF Pop
<1>3. CASE Execute
  <2>1. context[running] \in Nat
    BY <1>3 DEF Execute
  <2>2. Append(executed, context[running]) \in Seq(Nat)
    BY <2>1
  <2> QED
    BY <1>3, <2>2 DEF Execute
<1>4. CASE UNCHANGED vars
  BY <1>4 DEF vars
<1> QED
  BY <1>1, <1>2, <1>3, <1>4 DEF Next, Done

-----------------------------------------------------------------------------
(* What the steps do.                                                      *)

\* GetNext()
LEMMA GetNextIs ==
  ASSUME TypeOK, Len(by) = made, NEW c \in Callers, GetNext(c)
  PROVE  /\ UNCHANGED <<idx, context, list, running, executed>>
         /\ made \in Nat /\ made' = made + 1
         /\ Following(idx) \in Registrations
         /\ pc[c] = "idle" /\ pc'[c] = "got" /\ call'[c] = made + 1 /\ reg'[c] = Following(idx)
         /\ \A d \in Callers \ {c} : pc'[d] = pc[d] /\ call'[d] = call[d] /\ reg'[d] = reg[d]
         /\ Len(by') = made + 1 /\ by'[made + 1] = c /\ \A n \in 1 .. made : by'[n] = by[n]
         /\ shared \subseteq shared' /\ Users(Following(idx)) \subseteq shared'
         /\ made + 1 \notin shared' => Users(Following(idx)) = {}
         /\ Users(Following(idx)) = {} => shared' = shared
         /\ raced' = (raced \/ \E d \in Callers : pc[d] = "got")
         /\ crowded' = (crowded \/ \E n \in Outstanding : made + 1 - n >= Max)
         /\ \A r \in Registrations : Queued(r)' <=> Queued(r)
         /\ \A n \in Nat : Executed(n)' <=> Executed(n)
<1>1. /\ UNCHANGED <<idx, context, list, running, executed>>
      /\ pc[c] = "idle" /\ made' = made + 1 /\ by' = Append(by, c)
      /\ call' = [call EXCEPT ![c] = made + 1]
      /\ reg' = [reg EXCEPT ![c] = Following(idx)]
      /\ pc' = [pc EXCEPT ![c] = "got"]
      /\ raced' = (raced \/ \E d \in Callers : pc[d] = "got")
      /\ crowded' = (crowded \/ \E n \in Outstanding : made + 1 - n >= Max)
      /\ shared' = shared \cup Users(Following(idx))
                     \cup {n \in {made + 1} : Users(Following(idx)) # {}}
  BY DEF GetNext
<1>2. made \in Nat /\ by \in Seq(Callers) /\ Following(idx) \in Registrations
  BY FollowingIsNext DEF TypeOK
<1>3. Len(by') = made + 1 /\ by'[made + 1] = c /\ \A n \in 1 .. made : by'[n] = by[n]
  BY <1>1, <1>2
<1>4. /\ pc'[c] = "got" /\ call'[c] = made + 1 /\ reg'[c] = Following(idx)
      /\ \A d \in Callers \ {c} : pc'[d] = pc[d] /\ call'[d] = call[d] /\ reg'[d] = reg[d]
  BY <1>1 DEF TypeOK
<1>5. /\ \A r \in Registrations : Queued(r)' <=> Queued(r)
      /\ \A n \in Nat : Executed(n)' <=> Executed(n)
  BY <1>1 DEF Queued, InList, Executed
<1>6. /\ shared \subseteq shared' /\ Users(Following(idx)) \subseteq shared'
      /\ made + 1 \notin shared' => Users(Following(idx)) = {}
      /\ Users(Following(idx)) = {} => shared' = shared
  BY <1>1
<1> QED
  BY <1>1, <1>2, <1>3, <1>4, <1>5, <1>6

\* Advance()
LEMMA AdvanceIs ==
  ASSUME TypeOK, NEW c \in Callers, Advance(c)
  PROVE  /\ UNCHANGED <<context, list, reg, call, running, made, executed, by, shared,
                        raced, crowded>>
         /\ idx' = reg[c] /\ pc[c] = "got" /\ pc'[c] = "advanced"
         /\ \A d \in Callers \ {c} : pc'[d] = pc[d]
         /\ \A r \in Registrations : Queued(r)' <=> Queued(r)
         /\ \A n \in Nat : Executed(n)' <=> Executed(n)
BY DEF Advance, history, TypeOK, Queued, InList, Executed

\* Fill()
LEMMA FillIs ==
  ASSUME TypeOK, NEW c \in Callers, Fill(c)
  PROVE  /\ UNCHANGED <<idx, list, reg, call, running, made, executed, by, shared,
                        raced, crowded>>
         /\ pc[c] = "advanced" /\ pc'[c] = "filled"
         /\ \A d \in Callers \ {c} : pc'[d] = pc[d]
         /\ reg[c] \in Registrations /\ context'[reg[c]] = call[c]
         /\ \A r \in Registrations \ {reg[c]} : context'[r] = context[r]
         /\ \A r \in Registrations : Queued(r)' <=> Queued(r)
         /\ \A n \in Nat : Executed(n)' <=> Executed(n)
BY DEF Fill, history, TypeOK, Queued, InList, Executed

\* ExecuteOnMainThread()
LEMMA AddIs ==
  ASSUME TypeOK, NEW c \in Callers, ExecuteOnMainThread(c)
  PROVE  /\ UNCHANGED <<idx, context, reg, call, running, made, executed, by, shared,
                        raced, crowded>>
         /\ pc[c] = "filled" /\ pc'[c] = "idle" /\ reg[c] \in Registrations
         /\ \A d \in Callers \ {c} : pc'[d] = pc[d]
         /\ \/ InList(reg[c]) /\ list' = list
            \/ /\ ~InList(reg[c]) /\ Len(list') = Len(list) + 1
               /\ list'[Len(list) + 1] = reg[c]
               /\ \A i \in 1 .. Len(list) : list'[i] = list[i]
         /\ \A r \in Registrations : InList(r)' <=> InList(r) \/ r = reg[c]
         /\ \A r \in Registrations : Queued(r)' <=> Queued(r) \/ r = reg[c]
         /\ \A n \in Nat : Executed(n)' <=> Executed(n)
<1>1. /\ UNCHANGED <<idx, context, reg, call, running, made, executed, by, shared, raced, crowded>>
      /\ pc[c] = "filled" /\ pc' = [pc EXCEPT ![c] = "idle"]
      /\ list' = IF InList(reg[c]) THEN list ELSE Append(list, reg[c])
  BY DEF ExecuteOnMainThread, history
<1>2. list \in Seq(Registrations) /\ Len(list) \in Nat /\ reg[c] \in Registrations
      /\ pc \in [Callers -> {"idle", "got", "advanced", "filled"}]
  BY DEF TypeOK
<1>3. \/ InList(reg[c]) /\ list' = list
      \/ /\ ~InList(reg[c]) /\ Len(list') = Len(list) + 1
         /\ list'[Len(list) + 1] = reg[c]
         /\ \A i \in 1 .. Len(list) : list'[i] = list[i]
  BY <1>1, <1>2
<1>4. \A r \in Registrations : InList(r)' <=> InList(r) \/ r = reg[c]
  <2>1. CASE InList(reg[c]) /\ list' = list
    BY <2>1 DEF InList
  <2>2. CASE Len(list') = Len(list) + 1 /\ list'[Len(list) + 1] = reg[c]
             /\ \A i \in 1 .. Len(list) : list'[i] = list[i]
    <3>1. \A i : i \in 1 .. Len(list) + 1 <=> i \in 1 .. Len(list) \/ i = Len(list) + 1
      BY <1>2
    <3> QED
      BY <2>2, <3>1 DEF InList
  <2> QED
    BY <1>3, <2>1, <2>2
<1>5. /\ \A r \in Registrations : Queued(r)' <=> Queued(r) \/ r = reg[c]
      /\ \A n \in Nat : Executed(n)' <=> Executed(n)
  BY <1>1, <1>4 DEF Queued, Executed
<1>6. pc'[c] = "idle" /\ \A d \in Callers \ {c} : pc'[d] = pc[d]
  BY <1>1, <1>2
<1> QED
  BY <1>1, <1>2, <1>3, <1>4, <1>5, <1>6

\* Pop
LEMMA PopIs ==
  ASSUME TypeOK, NumberInv, Pop
  PROVE  /\ UNCHANGED <<idx, context, pc, reg, call, made, executed, by, shared, raced, crowded>>
         /\ running = None /\ running' = list[1] /\ list[1] \in Registrations
         /\ Len(list) \in Nat /\ Len(list) > 0 /\ Len(list') = Len(list) - 1
         /\ \A i \in 1 .. Len(list) - 1 : list'[i] = list[i + 1]
         /\ \A r \in Registrations : InList(r)' <=> InList(r) /\ r # list[1]
         /\ \A r \in Registrations : Queued(r)' <=> Queued(r)
         /\ \A n \in Nat : Executed(n)' <=> Executed(n)
<1>1. /\ UNCHANGED <<idx, context, pc, reg, call, made, executed, by, shared, raced, crowded>>
      /\ running = None /\ list # <<>> /\ running' = Head(list) /\ list' = Tail(list)
  BY DEF Pop, history
<1>2. list \in Seq(Registrations) /\ \A i, j \in 1 .. Len(list) : list[i] = list[j] => i = j
  BY DEF TypeOK, NumberInv
<1>3. /\ Len(list) \in Nat /\ Len(list) > 0 /\ Head(list) = list[1] /\ list[1] \in Registrations
      /\ Len(list') = Len(list) - 1 /\ \A i \in 1 .. Len(list) - 1 : list'[i] = list[i + 1]
  BY <1>1, <1>2
<1>4. \A r \in Registrations : InList(r)' <=> InList(r) /\ r # list[1]
  <2>1. ASSUME NEW r \in Registrations, NEW i \in 1 .. Len(list), list[i] = r, r # list[1]
        PROVE  InList(r)'
    <3>1. i - 1 \in 1 .. Len(list) - 1 /\ i - 1 + 1 = i
      BY <1>3, <2>1
    <3> QED
      BY <1>3, <2>1, <3>1 DEF InList
  <2>2. ASSUME NEW r \in Registrations, NEW i \in 1 .. Len(list'), list'[i] = r
        PROVE  InList(r) /\ r # list[1]
    <3>1. i + 1 \in 1 .. Len(list) /\ i + 1 # 1 /\ 1 \in 1 .. Len(list) /\ list[i + 1] = r
      BY <1>3, <2>2
    <3> QED
      BY <1>2, <3>1 DEF InList
  <2> QED
    BY <2>1, <2>2 DEF InList
<1>5. InList(list[1]) /\ None \notin Registrations
  BY <1>3, MaxAssumption DEF InList, None, Registrations
<1>6. /\ \A r \in Registrations : Queued(r)' <=> Queued(r)
      /\ \A n \in Nat : Executed(n)' <=> Executed(n)
  BY <1>1, <1>3, <1>4, <1>5 DEF Queued, Executed
<1> QED
  BY <1>1, <1>3, <1>4, <1>6

\* Execute
LEMMA ExecuteIs ==
  ASSUME TypeOK, Execute
  PROVE  /\ UNCHANGED <<idx, context, list, pc, reg, call, made, by, shared, raced, crowded>>
         /\ running \in Registrations /\ Queued(running) /\ running' = None
         /\ Len(executed) \in Nat /\ Len(executed') = Len(executed) + 1
         /\ executed'[Len(executed) + 1] = context[running]
         /\ \A i \in 1 .. Len(executed) : executed'[i] = executed[i]
         /\ \A r \in Registrations : Queued(r)' <=> InList(r)
         /\ \A n \in Nat : Executed(n)' <=> Executed(n) \/ n = context[running]
<1>1. /\ UNCHANGED <<idx, context, list, pc, reg, call, made, by, shared, raced, crowded>>
      /\ running # None /\ running' = None /\ executed' = Append(executed, context[running])
  BY DEF Execute, history
<1>2. /\ running \in Registrations /\ executed \in Seq(Nat) /\ context[running] \in Nat
      /\ None \notin Registrations
  BY <1>1, MaxAssumption DEF TypeOK, None, Registrations
<1>3. /\ Len(executed) \in Nat /\ Len(executed') = Len(executed) + 1
      /\ executed'[Len(executed) + 1] = context[running]
      /\ \A i \in 1 .. Len(executed) : executed'[i] = executed[i]
  BY <1>1, <1>2
<1>4. \A n \in Nat : Executed(n)' <=> Executed(n) \/ n = context[running]
  <2>1. \A i : i \in 1 .. Len(executed) + 1 <=> i \in 1 .. Len(executed) \/ i = Len(executed) + 1
    BY <1>3
  <2> QED
    BY <1>3, <2>1 DEF Executed
<1>5. Queued(running) /\ \A r \in Registrations : Queued(r)' <=> InList(r)
  BY <1>1, <1>2 DEF Queued, InList
<1> QED
  BY <1>1, <1>2, <1>3, <1>4, <1>5

-----------------------------------------------------------------------------
(* The invariant is kept.                                                  *)

\* Every step keeps the numbers of the calls apart.
LEMMA NumberKept ==
  ASSUME TypeOK, NumberInv, MakingInv, [Next]_vars
  PROVE  NumberInv'
<1>1. /\ made \in Nat /\ Len(by) = made
      /\ \A n \in 1 .. made : n <= call[by[n]] /\ by[n] \in Callers
      /\ \A c \in Callers : call[c] \in Nat /\ reg[c] \in Registrations
      /\ \A c \in Callers : Active(c) => call[c] \in 1 .. made /\ by[call[c]] = c
      /\ \A r \in Registrations : context[r] \in 0 .. made /\ (Queued(r) => context[r] # 0)
      /\ \A r, s \in Registrations : context[r] = context[s] /\ context[r] # 0 => r = s
      /\ \A c \in Callers, r \in Registrations :
           Active(c) /\ context[r] = call[c] => r = reg[c] /\ pc[c] = "filled"
      /\ \A i \in 1 .. Len(executed) : executed[i] \in 1 .. made
      /\ \A i, j \in 1 .. Len(list) : list[i] = list[j] => i = j
      /\ shared \subseteq 1 .. made
  BY DEF TypeOK, NumberInv
<1>2. ASSUME NEW c \in Callers, GetNext(c)
      PROVE  NumberInv'
  <2>1. /\ UNCHANGED <<context, list, executed>> /\ made' = made + 1
        /\ Active(c)' /\ call'[c] = made + 1
        /\ \A d \in Callers \ {c} :
             (Active(d)' <=> Active(d)) /\ pc'[d] = pc[d] /\ call'[d] = call[d] /\ reg'[d] = reg[d]
        /\ Len(by') = made + 1 /\ by'[made + 1] = c /\ \A n \in 1 .. made : by'[n] = by[n]
        /\ \A r \in Registrations : Queued(r)' <=> Queued(r)
    BY <1>1, <1>2, GetNextIs DEF Active
  <2>5. shared' \subseteq 1 .. made'
    <3>1. PICK r \in Registrations : r = Following(idx)
      BY <1>1, <1>2, GetNextIs
    <3>2. shared' \subseteq shared \cup Users(r) \cup {made + 1}
      BY <3>1, <1>2 DEF GetNext
    <3>3. Users(r) \subseteq 1 .. made
      BY <1>1, UsersAre
    <3> QED
      BY <1>1, <2>1, <3>2, <3>3
  <2>2. \A n \in 1 .. made' : n <= call'[by'[n]]
    <3>1. ASSUME NEW n \in 1 .. made PROVE n <= call'[by'[n]]
      BY <1>1, <2>1, <3>1
    <3> QED
      BY <1>1, <2>1, <3>1
  <2>3. \A d \in Callers : Active(d)' => call'[d] \in 1 .. made' /\ by'[call'[d]] = d
    BY <1>1, <2>1
  <2>4. \A d \in Callers, r \in Registrations :
          Active(d)' /\ context'[r] = call'[d] => r = reg'[d] /\ pc'[d] = "filled"
    BY <1>1, <2>1
  <2> QED
    BY <1>1, <2>1, <2>2, <2>3, <2>4, <2>5 DEF NumberInv
<1>3. ASSUME NEW c \in Callers, Advance(c)
      PROVE  NumberInv'
  <2>1. /\ UNCHANGED <<context, list, reg, call, made, executed, by, shared>>
        /\ pc[c] = "got" /\ \A d \in Callers \ {c} : pc'[d] = pc[d]
        /\ \A d \in Callers : Active(d)' <=> Active(d)
        /\ \A r \in Registrations : Queued(r)' <=> Queued(r)
    BY <1>3, AdvanceIs DEF Active
  <2> QED
    BY <1>1, <2>1 DEF NumberInv
<1>4. ASSUME NEW c \in Callers, Fill(c)
      PROVE  NumberInv'
  <2>1. /\ UNCHANGED <<list, reg, call, made, executed, by, shared>>
        /\ pc[c] = "advanced" /\ pc'[c] = "filled" /\ \A d \in Callers \ {c} : pc'[d] = pc[d]
        /\ Active(c) /\ \A d \in Callers : Active(d)' <=> Active(d)
        /\ reg[c] \in Registrations /\ context'[reg[c]] = call[c]
        /\ \A r \in Registrations \ {reg[c]} : context'[r] = context[r]
        /\ \A r \in Registrations : Queued(r)' <=> Queued(r)
    BY <1>4, FillIs DEF Active
  <2>2. \A r \in Registrations : context[r] # call[c]
    BY <1>1, <2>1
  <2>3. \A d \in Callers \ {c} : Active(d) => call[d] # call[c]
    BY <1>1, <2>1
  <2> QED
    BY <1>1, <2>1, <2>2, <2>3 DEF NumberInv
<1>5. ASSUME NEW c \in Callers, ExecuteOnMainThread(c)
      PROVE  NumberInv'
  <2>1. /\ UNCHANGED <<context, reg, call, made, executed, by, shared>> /\ reg[c] \in Registrations
        /\ pc[c] = "filled" /\ \A d \in Callers \ {c} : pc'[d] = pc[d]
        /\ \A d \in Callers : Active(d)' => Active(d) /\ d # c
        /\ \A r \in Registrations : Queued(r)' <=> Queued(r) \/ r = reg[c]
        /\ \/ list' = list
           \/ /\ ~InList(reg[c]) /\ Len(list') = Len(list) + 1
              /\ list'[Len(list) + 1] = reg[c]
              /\ \A i \in 1 .. Len(list) : list'[i] = list[i]
    BY <1>5, AddIs DEF Active
  <2>2. \A i, j \in 1 .. Len(list') : list'[i] = list'[j] => i = j
    <3>1. Len(list) \in Nat
      BY DEF TypeOK
    <3> QED
      BY <1>1, <2>1, <3>1 DEF InList
  <2>3. context[reg[c]] # 0
    BY <1>1, <2>1 DEF MakingInv, Active
  <2> QED
    BY <1>1, <2>1, <2>2, <2>3 DEF NumberInv
<1>6. CASE Pop
  <2>1. /\ UNCHANGED <<context, pc, reg, call, made, executed, by, shared>>
        /\ \A d \in Callers : Active(d)' <=> Active(d)
        /\ Len(list) \in Nat /\ Len(list') = Len(list) - 1
        /\ \A i \in 1 .. Len(list) - 1 : list'[i] = list[i + 1]
        /\ \A r \in Registrations : Queued(r)' <=> Queued(r)
    BY <1>6, PopIs DEF Active
  <2>2. \A i, j \in 1 .. Len(list') : list'[i] = list'[j] => i = j
    BY <1>1, <2>1
  <2> QED
    BY <1>1, <2>1, <2>2 DEF NumberInv
<1>7. CASE Execute
  <2>1. /\ UNCHANGED <<context, list, pc, reg, call, made, by, shared>>
        /\ running \in Registrations /\ Queued(running)
        /\ \A d \in Callers : Active(d)' <=> Active(d)
        /\ Len(executed) \in Nat /\ Len(executed') = Len(executed) + 1
        /\ executed'[Len(executed) + 1] = context[running]
        /\ \A i \in 1 .. Len(executed) : executed'[i] = executed[i]
        /\ \A r \in Registrations : Queued(r)' <=> InList(r)
    BY <1>7, ExecuteIs DEF Active
  <2>2. \A i \in 1 .. Len(executed') : executed'[i] \in 1 .. made
    BY <1>1, <2>1
  <2>3. \A r \in Registrations : InList(r) => Queued(r)
    BY DEF Queued
  <2> QED
    BY <1>1, <2>1, <2>2, <2>3 DEF NumberInv
<1>8. CASE UNCHANGED vars
  BY <1>8 DEF vars, history, NumberInv, Active, Queued, InList
<1> QED
  BY <1>2, <1>3, <1>4, <1>5, <1>6, <1>7, <1>8 DEF Next, Caller, Done

\* Every step keeps the calls being made apart from each other and from those
\* that wait, those that share a registration excepted.
LEMMA MakingKept ==
  ASSUME TypeOK, NumberInv, MakingInv, WaitingInv, [Next]_vars
  PROVE  MakingInv'
<1>1. /\ made \in Nat /\ Len(by) = made /\ shared \subseteq Nat
      /\ \A c \in Callers : call[c] \in Nat /\ reg[c] \in Registrations
      /\ \A c \in Callers : Active(c) => call[c] \in 1 .. made
      /\ \A c, d \in Callers : Active(c) /\ Active(d) /\ call[c] = call[d] => c = d
      /\ \A r \in Registrations : context[r] \in 0 .. made
      /\ \A c \in Callers, r \in Registrations :
           Active(c) /\ context[r] = call[c] => r = reg[c] /\ pc[c] = "filled"
      /\ \A n \in Nat : Executed(n) => n \in 1 .. made
  BY DEF TypeOK, NumberInv, Executed
<1>2. /\ \A c \in Callers : Active(c) /\ call[c] \notin shared =>
           /\ ~Queued(reg[c]) /\ ~Executed(call[c])
           /\ \A d \in Callers : Active(d) /\ reg[d] = reg[c] => d = c
      /\ \A c \in Callers : pc[c] = "filled" =>
           \/ context[reg[c]] = call[c]
           \/ context[reg[c]] \in shared /\ call[c] \in shared
  BY DEF MakingInv, Active
<1>3. ASSUME NEW c \in Callers, GetNext(c)
      PROVE  MakingInv'
  <2>1. PICK r \in Registrations : r = Following(idx)
    BY <1>1, <1>3, GetNextIs
  <2>2. /\ UNCHANGED context /\ Active(c)' /\ pc'[c] = "got" /\ ~Active(c)
        /\ call'[c] = made + 1 /\ reg'[c] = r
        /\ \A d \in Callers \ {c} :
             (Active(d)' <=> Active(d)) /\ pc'[d] = pc[d] /\ call'[d] = call[d] /\ reg'[d] = reg[d]
        /\ shared \subseteq shared' /\ Users(r) \subseteq shared'
        /\ made + 1 \notin shared' => Users(r) = {}
        /\ \A q \in Registrations : Queued(q)' <=> Queued(q)
        /\ \A n \in Nat : Executed(n)' <=> Executed(n)
    BY <1>1, <1>3, <2>1, GetNextIs DEF Active
  <2>3. /\ \A d \in Callers : Active(d) /\ reg[d] = r => call[d] \in Users(r)
        /\ Queued(r) => context[r] \in Users(r)
    BY UsersAre
  <2>4. ASSUME NEW d \in Callers, NEW q, NEW n, Active(d)', q = reg'[d], n = call'[d],
               n \notin shared'
        PROVE  /\ ~Queued(q)' /\ ~Executed(n)'
               /\ \A e \in Callers : Active(e)' /\ reg'[e] = q => e = d
    <3>1. CASE d = c
      <4>1. Users(r) = {} /\ q = r /\ n = made + 1 /\ n \notin 1 .. made
        BY <1>1, <2>2, <2>4, <3>1
      <4> QED
        BY <1>1, <2>2, <2>3, <3>1, <4>1
    <3>2. CASE d # c
      <4>1. Active(d) /\ q = reg[d] /\ n = call[d] /\ n \notin shared /\ n \in Nat
        BY <1>1, <2>2, <2>4, <3>2
      <4>2. q # r
        BY <2>2, <2>3, <2>4, <4>1
      <4> QED
        BY <1>1, <1>2, <2>2, <3>2, <4>1, <4>2
    <3> QED
      BY <3>1, <3>2
  <2>5. \A d \in Callers : pc'[d] = "filled" =>
           \/ context'[reg'[d]] = call'[d]
           \/ context'[reg'[d]] \in shared' /\ call'[d] \in shared'
    BY <1>2, <2>2
  <2> QED
    BY <2>4, <2>5 DEF MakingInv
<1>4. ASSUME NEW c \in Callers, Advance(c)
      PROVE  MakingInv'
  <2>1. /\ UNCHANGED <<context, reg, call, shared>>
        /\ pc'[c] = "advanced" /\ \A d \in Callers \ {c} : pc'[d] = pc[d]
        /\ \A d \in Callers : Active(d)' <=> Active(d)
        /\ \A r \in Registrations : Queued(r)' <=> Queued(r)
        /\ \A n \in Nat : Executed(n)' <=> Executed(n)
    BY <1>4, AdvanceIs DEF Active
  <2> QED
    BY <1>1, <1>2, <2>1 DEF MakingInv
<1>5. ASSUME NEW c \in Callers, Fill(c)
      PROVE  MakingInv'
  <2>1. /\ UNCHANGED <<reg, call, shared>> /\ Active(c)
        /\ pc'[c] = "filled" /\ \A d \in Callers \ {c} : pc'[d] = pc[d]
        /\ \A d \in Callers : Active(d)' <=> Active(d)
        /\ context'[reg[c]] = call[c]
        /\ \A r \in Registrations \ {reg[c]} : context'[r] = context[r]
        /\ \A r \in Registrations : Queued(r)' <=> Queued(r)
        /\ \A n \in Nat : Executed(n)' <=> Executed(n)
    BY <1>5, FillIs DEF Active
  <2>2. ASSUME NEW d \in Callers, pc'[d] = "filled"
        PROVE  \/ context'[reg[d]] = call[d]
               \/ context'[reg[d]] \in shared /\ call[d] \in shared
    <3>1. CASE d # c /\ reg[d] = reg[c]
      <4>1. Active(d)
        BY <2>1, <2>2, <3>1 DEF Active
      <4> QED
        BY <1>2, <2>1, <3>1, <4>1
    <3> QED
      BY <1>1, <1>2, <2>1, <2>2, <3>1
  <2> QED
    BY <1>1, <1>2, <2>1, <2>2 DEF MakingInv
<1>6. ASSUME NEW c \in Callers, ExecuteOnMainThread(c)
      PROVE  MakingInv'
  <2>1. /\ UNCHANGED <<context, reg, call, shared>> /\ Active(c) /\ ~Active(c)'
        /\ \A d \in Callers \ {c} : pc'[d] = pc[d] /\ (Active(d)' <=> Active(d))
        /\ \A r \in Registrations : Queued(r)' <=> Queued(r) \/ r = reg[c]
        /\ \A n \in Nat : Executed(n)' <=> Executed(n)
    BY <1>6, AddIs DEF Active
  <2>2. pc'[c] # "filled"
    BY <1>6, AddIs
  <2> QED
    BY <1>1, <1>2, <2>1, <2>2 DEF MakingInv
<1>7. CASE Pop
  <2>1. /\ UNCHANGED <<context, pc, reg, call, shared>>
        /\ \A d \in Callers : Active(d)' <=> Active(d)
        /\ \A r \in Registrations : Queued(r)' <=> Queued(r)
        /\ \A n \in Nat : Executed(n)' <=> Executed(n)
    BY <1>7, PopIs DEF Active
  <2> QED
    BY <1>1, <1>2, <2>1 DEF MakingInv
<1>8. CASE Execute
  <2>1. /\ UNCHANGED <<context, pc, reg, call, shared>>
        /\ running \in Registrations /\ Queued(running)
        /\ \A d \in Callers : Active(d)' <=> Active(d)
        /\ \A r \in Registrations : Queued(r)' => Queued(r)
        /\ \A n \in Nat : Executed(n)' <=> Executed(n) \/ n = context[running]
    BY <1>8, ExecuteIs DEF Active, Queued
  <2>2. \A d \in Callers : Active(d) /\ call[d] \notin shared => call[d] # context[running]
    BY <1>1, <1>2, <2>1
  <2> QED
    BY <1>1, <1>2, <2>1, <2>2 DEF MakingInv
<1>9. CASE UNCHANGED vars
  BY <1>9 DEF vars, history, MakingInv, Active, Queued, InList, Executed
<1> QED
  BY <1>3, <1>4, <1>5, <1>6, <1>7, <1>8, <1>9 DEF Next, Caller, Done

\* Every step keeps a call that waits alone in its registration.
LEMMA WaitingKept ==
  ASSUME TypeOK, NumberInv, MakingInv, WaitingInv, [Next]_vars
  PROVE  WaitingInv'
<1>1. /\ made \in Nat /\ Len(by) = made /\ shared \subseteq Nat
      /\ \A c \in Callers : call[c] \in Nat /\ reg[c] \in Registrations
      /\ \A r \in Registrations : context[r] \in Nat
      /\ \A r, s \in Registrations : context[r] = context[s] /\ context[r] # 0 => r = s
      /\ \A r \in Registrations : Queued(r) => context[r] # 0
  BY DEF TypeOK, NumberInv
<1>2. /\ \A c \in Callers : Active(c) /\ call[c] \notin shared =>
           /\ ~Queued(reg[c]) /\ ~Executed(call[c])
           /\ \A d \in Callers : Active(d) /\ reg[d] = reg[c] => d = c
      /\ \A c \in Callers : pc[c] = "filled" =>
           \/ context[reg[c]] = call[c]
           \/ context[reg[c]] \in shared /\ call[c] \in shared
  BY DEF MakingInv, Active
<1>3. \A r \in Registrations : Queued(r) /\ context[r] \notin shared =>
        /\ ~Executed(context[r])
        /\ ~(running = r /\ InList(r))
        /\ \A c \in Callers : Active(c) => reg[c] # r
  BY DEF WaitingInv
<1>4. ASSUME NEW c \in Callers, GetNext(c)
      PROVE  WaitingInv'
  <2>1. PICK r \in Registrations : r = Following(idx)
    BY <1>1, <1>4, GetNextIs
  <2>2. /\ UNCHANGED <<context, running, list>> /\ reg'[c] = r
        /\ \A d \in Callers \ {c} : (Active(d)' <=> Active(d)) /\ reg'[d] = reg[d]
        /\ shared \subseteq shared' /\ Users(r) \subseteq shared'
        /\ \A q \in Registrations : (Queued(q)' <=> Queued(q)) /\ (InList(q)' <=> InList(q))
        /\ \A n \in Nat : Executed(n)' <=> Executed(n)
    BY <1>1, <1>4, <2>1, GetNextIs DEF Active, InList
  <2>3. Queued(r) => context[r] \in Users(r)
    BY UsersAre
  <2> QED
    BY <1>1, <1>3, <2>2, <2>3 DEF WaitingInv
<1>5. ASSUME NEW c \in Callers, Advance(c)
      PROVE  WaitingInv'
  <2>1. /\ UNCHANGED <<context, list, running, reg, shared>>
        /\ \A d \in Callers : Active(d)' <=> Active(d)
        /\ \A q \in Registrations : (Queued(q)' <=> Queued(q)) /\ (InList(q)' <=> InList(q))
        /\ \A n \in Nat : Executed(n)' <=> Executed(n)
    BY <1>5, AdvanceIs DEF Active, InList
  <2> QED
    BY <1>1, <1>3, <2>1 DEF WaitingInv
<1>6. ASSUME NEW c \in Callers, Fill(c)
      PROVE  WaitingInv'
  <2>1. /\ UNCHANGED <<list, running, reg, shared>> /\ Active(c)
        /\ \A d \in Callers : Active(d)' <=> Active(d)
        /\ context'[reg[c]] = call[c]
        /\ \A q \in Registrations \ {reg[c]} : context'[q] = context[q]
        /\ \A q \in Registrations : (Queued(q)' <=> Queued(q)) /\ (InList(q)' <=> InList(q))
        /\ \A n \in Nat : Executed(n)' <=> Executed(n)
    BY <1>6, FillIs DEF Active, InList
  <2> QED
    BY <1>1, <1>2, <1>3, <2>1 DEF WaitingInv
<1>7. ASSUME NEW c \in Callers, ExecuteOnMainThread(c)
      PROVE  WaitingInv'
  <2>1. /\ UNCHANGED <<context, running, reg, shared>> /\ pc[c] = "filled"
        /\ Active(c) /\ ~Active(c)'
        /\ \A d \in Callers \ {c} : Active(d)' <=> Active(d)
        /\ \A q \in Registrations : Queued(q)' <=> Queued(q) \/ q = reg[c]
        /\ \A q \in Registrations : InList(q)' <=> InList(q) \/ q = reg[c]
        /\ \A n \in Nat : Executed(n)' <=> Executed(n)
    BY <1>7, AddIs DEF Active
  <2>2. ASSUME NEW q \in Registrations, Queued(q)', context[q] \notin shared
        PROVE  /\ ~Executed(context[q])' /\ ~(running = q /\ InList(q)')
               /\ \A d \in Callers : Active(d)' => reg[d] # q
    <3>1. CASE q = reg[c]
      <4>1. context[q] = call[c]
        BY <1>2, <2>1, <2>2, <3>1
      <4>2. running # q
        BY <1>2, <2>1, <2>2, <3>1, <4>1 DEF Queued
      <4> QED
        BY <1>1, <1>2, <2>1, <2>2, <3>1, <4>1, <4>2
    <3>2. CASE q # reg[c]
      BY <1>1, <1>3, <2>1, <2>2, <3>2
    <3> QED
      BY <3>1, <3>2
  <2> QED
    BY <2>1, <2>2 DEF WaitingInv
<1>8. CASE Pop
  <2>1. /\ UNCHANGED <<context, pc, reg, shared>> /\ running' = list[1]
        /\ \A d \in Callers : Active(d)' <=> Active(d)
        /\ \A q \in Registrations : Queued(q)' <=> Queued(q)
        /\ \A q \in Registrations : InList(q)' <=> InList(q) /\ q # list[1]
        /\ \A n \in Nat : Executed(n)' <=> Executed(n)
    BY <1>8, PopIs DEF Active
  <2> QED
    BY <1>1, <1>3, <2>1 DEF WaitingInv
<1>9. CASE Execute
  <2>1. /\ UNCHANGED <<context, list, reg, shared>> /\ running \in Registrations
        /\ Queued(running) /\ running' = None
        /\ \A d \in Callers : Active(d)' <=> Active(d)
        /\ \A q \in Registrations : (Queued(q)' <=> InList(q)) /\ (InList(q)' <=> InList(q))
        /\ \A n \in Nat : Executed(n)' <=> Executed(n) \/ n = context[running]
    BY <1>9, ExecuteIs DEF Active, InList
  <2>2. \A q \in Registrations : InList(q) => Queued(q)
    BY DEF Queued
  <2>3. None \notin Registrations
    BY MaxAssumption DEF None, Registrations
  <2>4. ASSUME NEW q \in Registrations, Queued(q)', context[q] \notin shared
        PROVE  ~Executed(context[q])'
    BY <1>1, <1>3, <2>1, <2>2, <2>4
  <2> QED
    BY <1>1, <1>3, <2>1, <2>2, <2>3, <2>4 DEF WaitingInv
<1>10. CASE UNCHANGED vars
  BY <1>10 DEF vars, history, WaitingInv, Active, Queued, InList, Executed
<1> QED
  BY <1>4, <1>5, <1>6, <1>7, <1>8, <1>9, <1>10 DEF Next, Caller, Done

\* Every step keeps a call that shares nothing on its way.
LEMMA LossKept ==
  ASSUME TypeOK, NumberInv, MakingInv, WaitingInv, LossInv, [Next]_vars
  PROVE  LossInv'
<1>1. /\ made \in Nat /\ Len(by) = made
      /\ \A c \in Callers : call[c] \in Nat /\ reg[c] \in Registrations
  BY DEF TypeOK, NumberInv
<1>2. \A n \in 1 .. made : ~Executed(n) /\ n \notin shared =>
        \/ \E c \in Callers : Active(c) /\ call[c] = n
        \/ \E r \in Registrations : Queued(r) /\ context[r] = n
  BY DEF LossInv
<1>3. ASSUME NEW c \in Callers, GetNext(c)
      PROVE  LossInv'
  <2>1. /\ UNCHANGED context /\ made' = made + 1
        /\ Active(c)' /\ ~Active(c) /\ call'[c] = made + 1
        /\ \A d \in Callers \ {c} : (Active(d)' <=> Active(d)) /\ call'[d] = call[d]
        /\ shared \subseteq shared'
        /\ \A r \in Registrations : Queued(r)' <=> Queued(r)
        /\ \A n \in Nat : Executed(n)' <=> Executed(n)
    BY <1>1, <1>3, GetNextIs DEF Active
  <2>2. \A n \in 1 .. made' : n \in 1 .. made \/ n = made + 1
    BY <1>1, <2>1
  <2> QED
    BY <1>2, <2>1, <2>2 DEF LossInv
<1>4. ASSUME NEW c \in Callers, Advance(c)
      PROVE  LossInv'
  <2>1. /\ UNCHANGED <<context, call, made, shared>>
        /\ \A d \in Callers : Active(d)' <=> Active(d)
        /\ \A r \in Registrations : Queued(r)' <=> Queued(r)
        /\ \A n \in Nat : Executed(n)' <=> Executed(n)
    BY <1>4, AdvanceIs DEF Active
  <2> QED
    BY <1>1, <1>2, <2>1 DEF LossInv
<1>5. ASSUME NEW c \in Callers, Fill(c)
      PROVE  LossInv'
  <2>1. /\ UNCHANGED <<reg, call, made, shared>> /\ Active(c)
        /\ \A d \in Callers : Active(d)' <=> Active(d)
        /\ \A r \in Registrations \ {reg[c]} : context'[r] = context[r]
        /\ \A r \in Registrations : Queued(r)' <=> Queued(r)
        /\ \A n \in Nat : Executed(n)' <=> Executed(n)
    BY <1>5, FillIs DEF Active
  <2>2. \A r \in Registrations : Queued(r) /\ context[r] \notin shared => r # reg[c]
    BY <2>1 DEF WaitingInv
  <2> QED
    BY <1>1, <1>2, <2>1, <2>2 DEF LossInv
<1>6. ASSUME NEW c \in Callers, ExecuteOnMainThread(c)
      PROVE  LossInv'
  <2>1. /\ UNCHANGED <<context, reg, call, made, shared>> /\ reg[c] \in Registrations
        /\ pc[c] = "filled" /\ Active(c)
        /\ \A d \in Callers \ {c} : Active(d)' <=> Active(d)
        /\ \A r \in Registrations : Queued(r)' <=> Queued(r) \/ r = reg[c]
        /\ \A n \in Nat : Executed(n)' <=> Executed(n)
    BY <1>6, AddIs DEF Active
  <2>2. call[c] \notin shared => context[reg[c]] = call[c]
    BY <2>1 DEF MakingInv
  <2> QED
    BY <1>1, <1>2, <2>1, <2>2 DEF LossInv
<1>7. CASE Pop
  <2>1. /\ UNCHANGED <<context, call, made, shared>>
        /\ \A d \in Callers : Active(d)' <=> Active(d)
        /\ \A r \in Registrations : Queued(r)' <=> Queued(r)
        /\ \A n \in Nat : Executed(n)' <=> Executed(n)
    BY <1>7, PopIs DEF Active
  <2> QED
    BY <1>1, <1>2, <2>1 DEF LossInv
<1>8. CASE Execute
  <2>1. /\ UNCHANGED <<context, call, made, shared>>
        /\ \A d \in Callers : Active(d)' <=> Active(d)
        /\ \A r \in Registrations : Queued(r)' <=> InList(r)
        /\ \A n \in Nat : Executed(n)' <=> Executed(n) \/ n = context[running]
    BY <1>8, ExecuteIs DEF Active
  <2>2. \A r \in Registrations : Queued(r) => InList(r) \/ context[r] = context[running]
    BY DEF Queued
  <2> QED
    BY <1>1, <1>2, <2>1, <2>2 DEF LossInv
<1>9. CASE UNCHANGED vars
  BY <1>9 DEF vars, history, LossInv, Active, Queued, InList, Executed
<1> QED
  BY <1>3, <1>4, <1>5, <1>6, <1>7, <1>8, <1>9 DEF Next, Caller, Done

\* A call that is on its way in this sense is so in that of NoneLost.
LEMMA LossIsLoss ==
  ASSUME TypeOK, LossInv
  PROVE  NoneLost
<1> SUFFICES ASSUME NEW n \in Outstanding \ shared PROVE OnItsWay(n)
  BY DEF NoneLost
<1>1. n \in 1 .. made /\ ~Executed(n)
  BY DEF Outstanding, Executed
<1>2. CASE \E c \in Callers : Active(c) /\ call[c] = n
  BY <1>2 DEF OnItsWay, Active
<1>3. ASSUME NEW r \in Registrations, Queued(r), context[r] = n
      PROVE  OnItsWay(n)
  <2>1. None \notin Registrations
    BY MaxAssumption DEF None, Registrations
  <2> QED
    BY <1>3, <2>1 DEF OnItsWay, Queued, InList
<1> QED
  BY <1>1, <1>2, <1>3 DEF LossInv

\* Every step keeps the calls of a caller in order.
LEMMA OrderKept ==
  ASSUME TypeOK, NumberInv, MakingInv, WaitingInv, OrderInv, [Next]_vars
  PROVE  OrderInv'
<1>1. /\ made \in Nat /\ Len(by) = made
      /\ Len(executed) \in Nat /\ Len(list) \in Nat
      /\ \A c \in Callers : call[c] \in Nat /\ reg[c] \in Registrations
      /\ \A n \in 1 .. made : n <= call[by[n]]
      /\ \A c \in Callers : Active(c) => call[c] \in 1 .. made /\ by[call[c]] = c
      /\ \A r \in Registrations : context[r] \in 0 .. made /\ (Queued(r) => context[r] # 0)
      /\ \A i \in 1 .. Len(executed) : executed[i] \in 1 .. made
      /\ \A i \in 1 .. Len(list) : list[i] \in Registrations /\ Queued(list[i])
      /\ running # None => running \in Registrations /\ Queued(running)
      /\ \A n \in Nat, i \in 1 .. Len(executed) : executed[i] = n => Executed(n)
  BY DEF TypeOK, NumberInv, Queued, InList, Executed
<1>2. /\ \A i, j \in 1 .. Len(executed) : i < j => Goes(executed[i], executed[j])
      /\ ExecutedFirst /\ RunningFirst /\ ListInOrder
  BY DEF OrderInv, InOrder, Goes
<1>3. (\A i, j \in 1 .. Len(executed) : i < j => Goes(executed[i], executed[j]))' => InOrder'
  BY DEF InOrder, Goes
<1>4. ASSUME NEW c \in Callers, GetNext(c)
      PROVE  OrderInv'
  <2>1. /\ UNCHANGED <<context, list, running, executed>>
        /\ \A n \in 1 .. made : by'[n] = by[n]
        /\ shared \subseteq shared'
        /\ \A r \in Registrations : Queued(r)' <=> Queued(r)
    BY <1>1, <1>4, GetNextIs
  <2>2. \A m, n \in 1 .. made : Goes(m, n) => Goes(m, n)'
    BY <2>1 DEF Goes
  <2>3. \A r \in Registrations : Queued(r) => context[r] \in 1 .. made
    BY <1>1
  <2>4. InOrder'
    BY <1>1, <1>2, <1>3, <2>1, <2>2
  <2>5. ExecutedFirst'
    BY <1>1, <1>2, <2>1, <2>2, <2>3 DEF ExecutedFirst
  <2>6. RunningFirst'
    BY <1>1, <1>2, <2>1, <2>2, <2>3 DEF RunningFirst
  <2>7. ListInOrder'
    BY <1>1, <1>2, <2>1, <2>2, <2>3 DEF ListInOrder
  <2> QED
    BY <2>4, <2>5, <2>6, <2>7 DEF OrderInv
<1>5. ASSUME UNCHANGED <<by, shared, executed, list, running>>,
             \A r \in Registrations : Queued(r)' <=> Queued(r),
             \A r \in Registrations : Queued(r) => \/ context'[r] = context[r]
                                                    \/ context'[r] \in shared
      PROVE  OrderInv'
  <2>1. \A m, n : Goes(m, n)' <=> Goes(m, n)
    BY <1>5 DEF Goes
  <2>2. \A m, n : m \in shared \/ n \in shared => Goes(m, n)
    BY DEF Goes
  <2>3. InOrder'
    BY <1>2, <1>3, <1>5, <2>1
  <2>4. ExecutedFirst'
    BY <1>2, <1>5, <2>1, <2>2 DEF ExecutedFirst
  <2>5. RunningFirst'
    BY <1>1, <1>2, <1>5, <2>1, <2>2 DEF RunningFirst
  <2>6. ListInOrder'
    BY <1>1, <1>2, <1>5, <2>1, <2>2 DEF ListInOrder
  <2> QED
    BY <2>3, <2>4, <2>5, <2>6 DEF OrderInv
<1>6. ASSUME NEW c \in Callers, Advance(c)
      PROVE  OrderInv'
  BY <1>5, <1>6, AdvanceIs
<1>7. ASSUME NEW c \in Callers, Fill(c)
      PROVE  OrderInv'
  <2>1. /\ UNCHANGED <<by, shared, executed, list, running>>
        /\ \A r \in Registrations : Queued(r)' <=> Queued(r)
        /\ Active(c) /\ context'[reg[c]] = call[c]
        /\ \A r \in Registrations \ {reg[c]} : context'[r] = context[r]
    BY <1>7, FillIs DEF Active
  <2>2. Queued(reg[c]) => call[c] \in shared
    BY <2>1 DEF MakingInv
  <2> QED
    BY <1>5, <2>1, <2>2
<1>8. ASSUME NEW c \in Callers, ExecuteOnMainThread(c)
      PROVE  OrderInv'
  <2>1. /\ UNCHANGED <<context, running, executed, by, shared>> /\ reg[c] \in Registrations
        /\ pc[c] = "filled" /\ Active(c)
        /\ \A r \in Registrations : Queued(r)' <=> Queued(r) \/ r = reg[c]
        /\ \/ InList(reg[c]) /\ list' = list
           \/ /\ Len(list') = Len(list) + 1 /\ list'[Len(list) + 1] = reg[c]
              /\ \A i \in 1 .. Len(list) : list'[i] = list[i]
    BY <1>8, AddIs DEF Active
  <2>2. \A m, n : Goes(m, n)' <=> Goes(m, n)
    BY <2>1 DEF Goes
  <2>3. context[reg[c]] \in shared \/ (call[c] = context[reg[c]] /\ call[c] \notin shared)
    BY <2>1 DEF MakingInv
  <2>4. ASSUME NEW m \in 1 .. made, m \notin shared => m # call[c]
        PROVE  Goes(m, context[reg[c]])
    <3>1. CASE context[reg[c]] \in shared
      BY <3>1 DEF Goes
    <3>2. CASE call[c] = context[reg[c]] /\ by[m] = c /\ m # call[c]
      <4>1. m \in Nat /\ call[c] \in Nat /\ m <= call[c]
        BY <1>1, <2>4, <3>2
      <4>2. m < call[c]
        BY <3>2, <4>1
      <4> QED
        BY <3>2, <4>2 DEF Goes
    <3>3. CASE call[c] = context[reg[c]] /\ by[m] # c
      BY <1>1, <2>1, <3>3 DEF Goes
    <3> QED
      BY <2>3, <2>4, <3>1, <3>2, <3>3 DEF Goes
  <2>5. \A i \in 1 .. Len(executed) : Goes(executed[i], context[reg[c]])
    <3>1. \A i \in 1 .. Len(executed) : call[c] \notin shared => executed[i] # call[c]
      BY <1>1, <2>1 DEF MakingInv
    <3>2. CASE call[c] \in shared
      BY <2>3, <3>2 DEF Goes
    <3> QED
      BY <1>1, <2>4, <3>1, <3>2
  <2>6. \A r \in Registrations : Queued(r) /\ ~Queued(reg[c]) => Goes(context[r], context[reg[c]])
    <3>1. \A r \in Registrations : context[r] = call[c] => r = reg[c]
      BY <2>1 DEF NumberInv
    <3> QED
      BY <1>1, <2>4, <3>1
  <2>7. call[c] \notin shared => ~Queued(reg[c])
    BY <2>1 DEF MakingInv
  <2>8. \A r \in Registrations : Queued(r) => Goes(context[r], context[reg[c]])
    BY <2>3, <2>6, <2>7 DEF Goes
  <2>9. InOrder'
    BY <1>2, <1>3, <2>1, <2>2
  <2>10. ExecutedFirst'
    BY <1>2, <2>1, <2>2, <2>5 DEF ExecutedFirst
  <2>11. RunningFirst'
    BY <1>1, <1>2, <2>1, <2>2, <2>8 DEF RunningFirst
  <2>12. ListInOrder'
    BY <1>1, <1>2, <2>1, <2>2, <2>8 DEF ListInOrder
  <2> QED
    BY <2>9, <2>10, <2>11, <2>12 DEF OrderInv
<1>9. CASE Pop
  <2>1. /\ UNCHANGED <<context, executed, by, shared>>
        /\ running' = list[1] /\ Len(list) > 0 /\ Len(list') = Len(list) - 1
        /\ \A i \in 1 .. Len(list) - 1 : list'[i] = list[i + 1]
        /\ \A r \in Registrations : Queued(r)' <=> Queued(r)
    BY <1>9, PopIs
  <2>2. \A m, n : Goes(m, n)' <=> Goes(m, n)
    BY <2>1 DEF Goes
  <2>3. InOrder' /\ ExecutedFirst'
    BY <1>2, <1>3, <2>1, <2>2 DEF ExecutedFirst
  <2>4. RunningFirst'
    <3>1. ASSUME NEW i \in 1 .. Len(list') PROVE Goes(context[list[1]], context[list'[i]])
      <4>1. /\ 1 \in 1 .. Len(list) /\ i + 1 \in 1 .. Len(list) /\ 1 < i + 1
            /\ list'[i] = list[i + 1]
        BY <1>1, <2>1
      <4> QED
        BY <1>2, <4>1 DEF ListInOrder
    <3> QED
      BY <2>1, <2>2, <3>1 DEF RunningFirst
  <2>5. ListInOrder'
    BY <1>1, <1>2, <2>1, <2>2 DEF ListInOrder
  <2> QED
    BY <2>3, <2>4, <2>5 DEF OrderInv
<1>10. CASE Execute
  <2>1. /\ UNCHANGED <<context, list, by, shared>> /\ running # None /\ running' = None
        /\ running \in Registrations /\ Queued(running)
        /\ Len(executed') = Len(executed) + 1
        /\ executed'[Len(executed) + 1] = context[running]
        /\ \A i \in 1 .. Len(executed) : executed'[i] = executed[i]
        /\ \A r \in Registrations : Queued(r)' <=> InList(r)
    BY <1>10, ExecuteIs DEF Execute
  <2>2. \A m, n : Goes(m, n)' <=> Goes(m, n)
    BY <2>1 DEF Goes
  <2>3. \A r \in Registrations : InList(r) => Queued(r) /\ Goes(context[running], context[r])
    BY <1>2, <2>1 DEF RunningFirst, InList, Queued
  <2>4. InOrder'
    BY <1>1, <1>2, <1>3, <2>1, <2>2 DEF ExecutedFirst
  <2>5. ExecutedFirst'
    BY <1>1, <1>2, <2>1, <2>2, <2>3 DEF ExecutedFirst
  <2>6. RunningFirst' /\ ListInOrder'
    BY <1>1, <1>2, <2>1, <2>2 DEF RunningFirst, ListInOrder
  <2> QED
    BY <2>4, <2>5, <2>6 DEF OrderInv
<1>11. CASE UNCHANGED vars
  BY <1>5, <1>11 DEF vars, history, Queued, InList
<1> QED
  BY <1>4, <1>6, <1>7, <1>8, <1>9, <1>10, <1>11 DEF Next, Caller, Done

\* Every step keeps the calls on the ring, unless it races or crowds.
LEMMA RingKept ==
  ASSUME TypeOK, NumberInv, MakingInv, WaitingInv, RingInv, [Next]_vars
  PROVE  RingInv'
<1>1. /\ made \in Nat /\ idx \in Registrations /\ Max \in Nat \ {0}
      /\ \A c \in Callers : call[c] \in Nat /\ reg[c] \in Registrations
      /\ \A c \in Callers : pc[c] \in {"idle", "got", "advanced", "filled"}
      /\ \A c \in Callers : Active(c) => call[c] \in 1 .. made
      /\ \A r \in Registrations : context[r] \in 0 .. made /\ (Queued(r) => context[r] # 0)
  BY MaxAssumption DEF TypeOK, NumberInv
<1>2. SUFFICES ASSUME ~raced', ~crowded' PROVE RingInv'
  BY DEF RingInv
<1>3. ASSUME ~raced, ~crowded
      PROVE  /\ shared = {}
             /\ \A n \in 1 .. made : ~Executed(n) => made - n < Max
             /\ \A c \in Callers : pc[c] = "got" =>
                  /\ reg[c] = Following(idx) /\ call[c] = made
                  /\ \A d \in Callers : pc[d] = "got" => d = c
             /\ \A c \in Callers : pc[c] \in {"advanced", "filled"} =>
                  call[c] <= Advanced /\ reg[c] = Before(idx, Advanced - call[c])
             /\ \A r \in Registrations : Queued(r) =>
                  context[r] <= Advanced /\ r = Before(idx, Advanced - context[r])
  BY <1>3 DEF RingInv, Outstanding, Executed
<1>4. ASSUME shared' = {},
             \A n \in 1 .. made' : ~Executed(n)' => made' - n < Max,
             \A c \in Callers : pc'[c] = "got" =>
               /\ reg'[c] = Following(idx') /\ call'[c] = made'
               /\ \A d \in Callers : pc'[d] = "got" => d = c,
             \A c \in Callers : pc'[c] \in {"advanced", "filled"} =>
               call'[c] <= Advanced' /\ reg'[c] = Before(idx', Advanced' - call'[c]),
             \A r \in Registrations : Queued(r)' =>
               context'[r] <= Advanced' /\ r = Before(idx', Advanced' - context'[r])
      PROVE  RingInv'
  BY <1>4 DEF RingInv, Outstanding, Executed
<1>5. ASSUME NEW c \in Callers, GetNext(c)
      PROVE  RingInv'
  <2>1. /\ UNCHANGED <<idx, context>> /\ made' = made + 1
        /\ Following(idx) \in Registrations
        /\ pc'[c] = "got" /\ call'[c] = made + 1 /\ reg'[c] = Following(idx)
        /\ \A d \in Callers \ {c} : pc'[d] = pc[d] /\ call'[d] = call[d] /\ reg'[d] = reg[d]
        /\ Users(Following(idx)) = {} => shared' = shared
        /\ raced' = (raced \/ \E d \in Callers : pc[d] = "got")
        /\ crowded' = (crowded \/ \E n \in Outstanding : made + 1 - n >= Max)
        /\ \A r \in Registrations : Queued(r)' <=> Queued(r)
        /\ \A n \in Nat : Executed(n)' <=> Executed(n)
    BY <1>1, <1>5, GetNextIs DEF NumberInv
  <2>2. ~raced /\ ~crowded /\ \A d \in Callers : pc[d] # "got"
    BY <1>2, <2>1
  <2>3. Advanced = made /\ Advanced' = made
    BY <1>1, <2>1, <2>2 DEF Advanced
  <2>4. ASSUME NEW n \in 1 .. made, ~Executed(n)
        PROVE  made + 1 - n < Max
    <3>1. n \in Outstanding
      BY <2>4 DEF Outstanding, Executed
    <3>2. ~(made + 1 - n >= Max)
      BY <1>2, <2>1, <3>1
    <3> QED
      BY <1>1, <3>2
  <2>5. Users(Following(idx)) = {}
    <3>1. ASSUME NEW n \in 1 .. made, ~Executed(n) PROVE Before(idx, made - n) # Following(idx)
      <4>1. made - n \in Nat /\ made - n + 1 < Max
        BY <1>1, <2>4, <3>1
      <4> QED
        BY <1>1, <4>1, FollowingIsFree
    <3>2. ASSUME NEW d \in Callers, Active(d), reg[d] = Following(idx) PROVE FALSE
      <4>1. pc[d] \in {"advanced", "filled"} /\ call[d] \in 1 .. made
        BY <1>1, <2>2, <3>2 DEF Active
      <4>2. ~Executed(call[d])
        BY <1>3, <2>2, <3>2 DEF MakingInv
      <4> QED
        BY <1>3, <2>2, <2>3, <3>1, <3>2, <4>1, <4>2
    <3>3. ASSUME Queued(Following(idx)) PROVE FALSE
      <4>1. context[Following(idx)] \in 1 .. made
        BY <1>1, <2>1, <3>3
      <4>2. ~Executed(context[Following(idx)])
        BY <1>3, <2>1, <2>2, <3>3 DEF WaitingInv
      <4> QED
        BY <1>3, <2>1, <2>2, <2>3, <3>1, <3>3, <4>1, <4>2
    <3> QED
      BY <2>1, <3>2, <3>3, UsersAre
  <2>6. \A n \in 1 .. made' : ~Executed(n)' => made' - n < Max
    BY <1>1, <2>1, <2>4
  <2> QED
    BY <1>3, <1>4, <2>1, <2>2, <2>3, <2>5, <2>6
<1>6. ASSUME NEW c \in Callers, Advance(c)
      PROVE  RingInv'
  <2>1. /\ UNCHANGED <<context, reg, call, made, shared, raced, crowded>>
        /\ idx' = reg[c] /\ pc[c] = "got" /\ pc'[c] = "advanced"
        /\ \A d \in Callers \ {c} : pc'[d] = pc[d]
        /\ \A r \in Registrations : Queued(r)' <=> Queued(r)
        /\ \A n \in Nat : Executed(n)' <=> Executed(n)
    BY <1>6, AdvanceIs
  <2>2. /\ ~raced /\ ~crowded /\ idx' = Following(idx) /\ call[c] = made
        /\ \A d \in Callers : pc[d] = "got" => d = c
    BY <1>2, <1>3, <2>1
  <2>3. Advanced = made - 1 /\ Advanced' = made /\ 1 <= made
    BY <1>1, <2>1, <2>2 DEF Advanced, Active
  <2>4. ASSUME NEW n \in 1 .. made, ~Executed(n), n <= made - 1
        PROVE  n <= made /\ Before(idx', made - n) = Before(idx, made - 1 - n)
    <3>1. made - 1 - n \in Nat /\ made - 1 - n + 1 = made - n /\ made - n < Max
      BY <1>1, <1>3, <2>2, <2>4
    <3> QED
      BY <1>1, <2>2, <3>1, BeforeFollowing
  <2>5. ASSUME NEW d \in Callers, pc'[d] \in {"advanced", "filled"}
        PROVE  call'[d] <= Advanced' /\ reg'[d] = Before(idx', Advanced' - call'[d])
    <3>1. CASE d = c
      <4>1. made - made = 0 /\ 0 <= idx' /\ idx' - 0 = idx' /\ made <= made
        BY <1>1, <2>1 DEF Registrations
      <4> QED
        BY <2>1, <2>2, <2>3, <3>1, <4>1 DEF Before
    <3>2. CASE d # c
      <4>1. pc[d] \in {"advanced", "filled"} /\ Active(d) /\ call[d] \in 1 .. made
        BY <1>1, <2>1, <2>5, <3>2 DEF Active
      <4>2. ~Executed(call[d])
        BY <1>3, <2>2, <4>1 DEF MakingInv
      <4> QED
        BY <1>3, <2>1, <2>2, <2>3, <2>4, <4>1, <4>2
    <3> QED
      BY <3>1, <3>2
  <2>6. ASSUME NEW r \in Registrations, Queued(r)'
        PROVE  context'[r] <= Advanced' /\ r = Before(idx', Advanced' - context'[r])
    <3>1. Queued(r) /\ context[r] \in 1 .. made
      BY <1>1, <2>1, <2>6
    <3>2. ~Executed(context[r])
      BY <1>3, <2>2, <3>1 DEF WaitingInv
    <3> QED
      BY <1>3, <2>1, <2>2, <2>3, <2>4, <3>1, <3>2
  <2>7. \A d \in Callers : pc'[d] # "got"
    BY <2>1, <2>2
  <2> QED
    BY <1>1, <1>3, <1>4, <2>1, <2>2, <2>5, <2>6, <2>7
<1>7. ASSUME UNCHANGED <<idx, reg, call, made, shared, raced, crowded>>,
             \A c \in Callers : pc'[c] = "got" <=> pc[c] = "got",
             \A c \in Callers : pc'[c] \in {"advanced", "filled"} =>
               pc[c] \in {"advanced", "filled"},
             \A n \in Nat : Executed(n) => Executed(n)',
             ~raced /\ ~crowded => \A r \in Registrations : Queued(r)' =>
               \/ Queued(r) /\ context'[r] = context[r]
               \/ \E c \in Callers : /\ pc[c] \in {"advanced", "filled"}
                                     /\ r = reg[c] /\ context'[r] = call[c]
      PROVE  RingInv'
  <2>1. ~raced /\ ~crowded
    BY <1>2, <1>7
  <2>2. Advanced' = Advanced
    BY <1>7 DEF Advanced
  <2> QED
    BY <1>1, <1>3, <1>4, <1>7, <2>1, <2>2
<1>8. ASSUME NEW c \in Callers, Fill(c)
      PROVE  RingInv'
  <2>1. /\ UNCHANGED <<idx, reg, call, made, shared, raced, crowded>>
        /\ pc[c] = "advanced" /\ pc'[c] = "filled" /\ Active(c)
        /\ \A d \in Callers \ {c} : pc'[d] = pc[d]
        /\ \A r \in Registrations \ {reg[c]} : context'[r] = context[r]
        /\ \A r \in Registrations : Queued(r)' <=> Queued(r)
        /\ \A n \in Nat : Executed(n)' <=> Executed(n)
    BY <1>8, FillIs DEF Active
  <2>2. ~raced /\ ~crowded => ~Queued(reg[c])
    BY <1>3, <2>1 DEF MakingInv
  <2> QED
    BY <1>7, <2>1, <2>2
<1>9. ASSUME NEW c \in Callers, ExecuteOnMainThread(c)
      PROVE  RingInv'
  <2>1. /\ UNCHANGED <<idx, context, reg, call, made, shared, raced, crowded>>
        /\ pc[c] = "filled" /\ pc'[c] = "idle" /\ Active(c)
        /\ \A d \in Callers \ {c} : pc'[d] = pc[d]
        /\ \A r \in Registrations : Queued(r)' <=> Queued(r) \/ r = reg[c]
        /\ \A n \in Nat : Executed(n)' <=> Executed(n)
    BY <1>9, AddIs DEF Active
  <2>2. ~raced /\ ~crowded => context[reg[c]] = call[c]
    BY <1>3, <2>1 DEF MakingInv
  <2> QED
    BY <1>7, <2>1, <2>2
<1>10. CASE Pop
  <2>1. /\ UNCHANGED <<idx, context, pc, reg, call, made, shared, raced, crowded>>
        /\ \A r \in Registrations : Queued(r)' <=> Queued(r)
        /\ \A n \in Nat : Executed(n)' <=> Executed(n)
    BY <1>10, PopIs
  <2> QED
    BY <1>7, <2>1
<1>11. CASE Execute
  <2>1. /\ UNCHANGED <<idx, context, pc, reg, call, made, shared, raced, crowded>>
        /\ \A r \in Registrations : Queued(r)' <=> InList(r)
        /\ \A n \in Nat : Executed(n)' <=> Executed(n) \/ n = context[running]
    BY <1>11, ExecuteIs
  <2>2. \A r \in Registrations : InList(r) => Queued(r)
    BY DEF Queued
  <2> QED
    BY <1>7, <2>1, <2>2
<1>12. CASE UNCHANGED vars
  BY <1>7, <1>12 DEF vars, history, Queued, InList, Executed
<1> QED
  BY <1>5, <1>6, <1>8, <1>9, <1>10, <1>11, <1>12 DEF Next, Caller, Done

\* At the start nothing is on its way.
LEMMA InitCalls == Init => CallsInv
<1> SUFFICES ASSUME Init PROVE CallsInv
  OBVIOUS
<1>1. /\ idx = 0 /\ list = <<>> /\ running = None /\ made = 0 /\ executed = <<>> /\ by = <<>>
      /\ shared = {} /\ Len(list) = 0 /\ Len(executed) = 0 /\ Len(by) = 0
      /\ \A r \in Registrations : context[r] = 0
      /\ \A c \in Callers : pc[c] = "idle" /\ ~Active(c)
  BY DEF Init, Active
<1>2. None \notin Registrations /\ \A n \in Nat : n \notin 1 .. 0
  BY MaxAssumption DEF None, Registrations
<1>3. /\ \A r \in Registrations : ~Queued(r)
      /\ \A n : ~Executed(n)
      /\ Outstanding = {}
  BY <1>1, <1>2 DEF Queued, InList, Executed, Outstanding
<1>4. NumberInv
  BY <1>1, <1>2, <1>3 DEF NumberInv
<1>5. MakingInv /\ WaitingInv /\ LossInv
  BY <1>1, <1>3 DEF MakingInv, WaitingInv, LossInv
<1>6. OrderInv
  BY <1>1, <1>3 DEF OrderInv, InOrder, ExecutedFirst, RunningFirst, ListInOrder
<1>7. RingInv
  BY <1>1, <1>3 DEF RingInv
<1> QED
  BY <1>4, <1>5, <1>6, <1>7, InitTypes DEF CallsInv

\* Every step keeps the invariant.
LEMMA NextCalls == CallsInv /\ [Next]_vars => CallsInv'
BY NextTypes, NumberKept, MakingKept, WaitingKept, LossKept, OrderKept, RingKept DEF CallsInv

\* The invariant, for any number of callers and registrations, whatever
\* overlaps and however many calls wait: what uni_bt.c makes of a call.
THEOREM Inductive == Spec => []CallsInv
<1>1. Init => CallsInv
  BY InitCalls
<1>2. CallsInv /\ [Next]_vars => CallsInv'
  BY NextCalls
<1> QED
  BY <1>1, <1>2, PTL DEF Spec

\* A call that had its registration to itself is executed or on its way,
\* whatever becomes of the calls that race for the others.
THEOREM NoCallIsLost == Spec => []NoneLost
<1>1. CallsInv => NoneLost
  BY LossIsLoss DEF CallsInv
<1> QED
  BY <1>1, Inductive, PTL

\* Such calls are executed once, those of one caller in the order it made them.
THEOREM CallsInOrder == Spec => []InOrder
<1>1. CallsInv => InOrder
  BY DEF CallsInv, OrderInv
<1> QED
  BY <1>1, Inductive, PTL

\* Two calls share a registration only after two of them read the index at the
\* same time, or one began while the one CMD_CALLBACK_MAX before it waited.
THEOREM OwnUnlessRacedOrCrowded == Spec => []OwnRegistration
<1>1. CallsInv => OwnRegistration
  BY DEF CallsInv, RingInv, OwnRegistration
<1> QED
  BY <1>1, Inductive, PTL

-----------------------------------------------------------------------------
(* The requests of the sketch.                                             *)

\* Every step of the sketch, the controllers and the btstack task is a step of
\* the calls, or none of them.
LEMMA RequestSteps ==
  ASSUME [NextRequests]_<<vars, requestVars>>
  PROVE  [Next]_vars
<1>1. CASE \E p \in Places : Ready(p) \/ Leave(p) \/ Report(p)
  BY <1>1 DEF Ready, Leave, Report
<1>2. CASE \E k \in Places, cmd \in {"disconnect", "other"} : Request(k, cmd)
  BY <1>2 DEF Request
<1>3. CASE \E c \in Callers : OtherCall(c)
  BY <1>3 DEF OtherCall, Next, Caller
<1>4. CASE Take
  BY <1>4, BtstackAssumption DEF Take, DisconnectDevice, Next, Caller
<1>5. CASE Call
  BY <1>5, BtstackAssumption DEF Call, Next, Caller
<1>6. CASE RunLoop
  BY <1>6 DEF RunLoop, Next
<1>7. CASE DoneRequests \/ UNCHANGED <<vars, requestVars>>
  BY <1>7 DEF DoneRequests
<1> QED
  BY <1>1, <1>2, <1>3, <1>4, <1>5, <1>6, <1>7 DEF NextRequests

\* The types of the requests' variables: a controller is known by its number,
\* which no one had before, and is nowhere else; so is its slot.
ControllerInv ==
  /\ came \in Nat
  /\ device \in [Places -> 0 .. came] /\ seat \in [Places -> Places \cup {Nobody}]
  /\ \A p, q \in Places : device[p] # Nobody /\ device[p] = device[q] => p = q
  /\ \A p, q \in Places :
       device[p] # Nobody /\ device[q] # Nobody /\ seat[p] = seat[q] => p = q

Requested(n) == [slot : Places, cmd : {"disconnect", "other"}, n : Nat, who : 1 .. n]

\* Requests and calls are about controllers that have come.
AboutInv ==
  /\ queue \in Seq(Requested(came))
  /\ meant \in [1 .. MaxCalls -> 0 .. came]
  /\ target \in [1 .. MaxCalls -> Places \cup {Nobody}]
  /\ \A n \in 1 .. MaxCalls : n > made => meant[n] = Nobody
  /\ made <= MaxCalls /\ asked \in Nat

RequestsInv == ControllerInv /\ AboutInv /\ Aimed

\* What is outstanding after a step was so before, but for a call that begins.
LEMMA OutstandingSteps ==
  ASSUME TypeOK, [Next]_vars
  PROVE  /\ Outstanding \subseteq 1 .. made
         /\ \/ made' = made /\ Outstanding' \subseteq Outstanding
            \/ /\ \E c \in Callers : GetNext(c)
               /\ made' = made + 1 /\ made < MaxCalls
               /\ Outstanding' \subseteq Outstanding \cup {made'}
<1>1. made \in Nat /\ executed \in Seq(Nat) /\ Len(executed) \in Nat
  BY DEF TypeOK
<1>2. Outstanding \subseteq 1 .. made
  BY DEF Outstanding
<1>3. ASSUME NEW c \in Callers, GetNext(c)
      PROVE  /\ made' = made + 1 /\ made < MaxCalls
             /\ Outstanding' \subseteq Outstanding \cup {made'}
  <2>1. made' = made + 1 /\ made < MaxCalls /\ executed' = executed
    BY <1>3 DEF GetNext
  <2>2. 1 .. made' \subseteq (1 .. made) \cup {made'}
    BY <1>1, <2>1
  <2> QED
    BY <2>1, <2>2 DEF Outstanding
<1>4. CASE Execute
  <2>1. made' = made /\ executed' = Append(executed, context[running])
    BY <1>4 DEF Execute, history
  <2>2. context[running] \in Nat
    BY <1>4 DEF Execute, TypeOK
  <2>3. Len(executed') = Len(executed) + 1 /\ \A i \in 1 .. Len(executed) : executed'[i] = executed[i]
    BY <1>1, <2>1, <2>2
  <2>4. 1 .. Len(executed) \subseteq 1 .. Len(executed')
    BY <1>1, <2>3
  <2> QED
    BY <2>1, <2>3, <2>4 DEF Outstanding
<1>5. CASE (\E c \in Callers : Advance(c) \/ Fill(c) \/ ExecuteOnMainThread(c)) \/ Pop
           \/ UNCHANGED vars
  <2>1. made' = made /\ executed' = executed
    BY <1>5 DEF Advance, Fill, ExecuteOnMainThread, Pop, vars, history
  <2> QED
    BY <2>1 DEF Outstanding
<1> QED
  BY <1>2, <1>3, <1>4, <1>5 DEF Next, Caller, Done

\* The requests that are in the queue, and what a request names.
LEMMA QueueTypes ==
  ASSUME AboutInv
  PROVE  /\ Len(queue) \in Nat /\ DOMAIN queue = 1 .. Len(queue)
         /\ \A i \in 1 .. Len(queue) :
              queue[i].slot \in Places /\ queue[i].who \in 1 .. came
<1>1. queue \in Seq(Requested(came))
  BY DEF AboutInv
<1>2. Len(queue) \in Nat /\ DOMAIN queue = 1 .. Len(queue)
  BY <1>1
<1>3. \A i \in 1 .. Len(queue) : queue[i] \in Requested(came)
  BY <1>1, <1>2
<1> QED
  BY <1>2, <1>3 DEF Requested

\* A controller that comes is a new one, so that no request is about it.
LEMMA ReadyStep ==
  ASSUME RequestsInv, TypeOK, NEW p \in Places, Ready(p)
  PROVE  RequestsInv'
<1>1. /\ device[p] = Nobody /\ came' = came + 1
      /\ device' = [device EXCEPT ![p] = came + 1]
      /\ UNCHANGED <<made, executed, queue, target, meant, asked>>
      /\ ControllerInv /\ AboutInv /\ Aimed
  BY DEF Ready, vars, history, RequestsInv
<1>2. PICK k \in Places : WithSlot(k) = {} /\ seat' = [seat EXCEPT ![p] = k]
  BY DEF Ready
<1>3. came \in Nat /\ \A q \in Places : device[q] \in 0 .. came
  BY <1>1 DEF ControllerInv
<1>4. device'[p] = came + 1 /\ \A q \in Places : q # p => device'[q] = device[q]
  BY <1>1 DEF ControllerInv
<1>5. seat'[p] = k /\ \A q \in Places : q # p => seat'[q] = seat[q]
  BY <1>1, <1>2 DEF ControllerInv
<1>6. \A q \in Places : device[q] # came + 1
  BY <1>3
<1>7. \A q \in Places : device[q] # Nobody => seat[q] # k
  BY <1>2 DEF WithSlot
<1>8. ControllerInv'
  <2>1. /\ came' \in Nat /\ device' \in [Places -> 0 .. came']
        /\ seat' \in [Places -> Places \cup {Nobody}]
    BY <1>1, <1>2, <1>3 DEF ControllerInv
  <2> QED
    BY <1>1, <1>4, <1>5, <1>6, <1>7, <2>1 DEF ControllerInv
<1>9. AboutInv'
  <2>1. Requested(came) \subseteq Requested(came')
    BY <1>1, <1>3 DEF Requested
  <2>2. queue \in Seq(Requested(came'))
    BY <1>1, <2>1 DEF AboutInv
  <2>3. meant \in [1 .. MaxCalls -> 0 .. came']
    BY <1>1, <1>3 DEF AboutInv
  <2> QED
    BY <1>1, <2>2, <2>3 DEF AboutInv
<1>10. Aimed'
  <2>1. \A i \in DOMAIN queue : queue[i].who # came + 1
    BY <1>1, <1>3, QueueTypes
  <2>2. \A n \in Outstanding : meant[n] # came + 1
    <3>1. \A n \in 1 .. MaxCalls : meant[n] \in 0 .. came
      BY <1>1 DEF AboutInv
    <3>2. \A n \in Outstanding : n \in 1 .. MaxCalls
      BY <1>1, CallsAssumption DEF Outstanding, AboutInv, TypeOK
    <3> QED
      BY <1>3, <3>1, <3>2
  <2>3. Outstanding' = Outstanding
    BY <1>1 DEF Outstanding
  <2> QED
    BY <1>1, <1>4, <1>5, <2>1, <2>2, <2>3 DEF Aimed
<1> QED
  BY <1>8, <1>9, <1>10 DEF RequestsInv

\* Fewer controllers and fewer requests are no harm, nor is a call that is not
\* about a controller.
LEMMA FewerStep ==
  ASSUME RequestsInv, TypeOK, [Next]_vars,
         UNCHANGED <<came, asked, target, meant>>,
         device' \in [Places -> 0 .. came], seat' \in [Places -> Places \cup {Nobody}],
         \A p \in Places : \/ device'[p] = device[p] /\ seat'[p] = seat[p]
                           \/ device'[p] = Nobody,
         queue' = queue \/ (queue # <<>> /\ queue' = Tail(queue))
  PROVE  RequestsInv'
<1>1. ControllerInv /\ AboutInv /\ Aimed
  BY DEF RequestsInv
<1>0. /\ Len(queue) \in Nat /\ DOMAIN queue = 1 .. Len(queue)
      /\ \A i \in 1 .. Len(queue) : queue[i].who \in 1 .. came
  BY <1>1, QueueTypes
<1>2. made \in Nat /\ made <= MaxCalls /\ MaxCalls \in Nat /\ made' \in Nat /\ made' <= MaxCalls
      /\ (made' = made \/ made' = made + 1)
      /\ Outstanding \subseteq 1 .. made
      /\ Outstanding' \subseteq Outstanding \cup {n \in 1 .. MaxCalls : n > made}
  <2>1. made \in Nat /\ made <= MaxCalls /\ MaxCalls \in Nat
    BY <1>1, CallsAssumption DEF TypeOK, AboutInv
  <2>2. CASE made' = made /\ Outstanding' \subseteq Outstanding
    BY <2>1, <2>2, OutstandingSteps
  <2>3. CASE made' = made + 1 /\ made < MaxCalls /\ Outstanding' \subseteq Outstanding \cup {made'}
    BY <2>1, <2>3, OutstandingSteps
  <2> QED
    BY <2>2, <2>3, OutstandingSteps
<1>3. ControllerInv'
  BY <1>1 DEF ControllerInv
<1>4. /\ queue' \in Seq(Requested(came)) /\ DOMAIN queue' = 1 .. Len(queue')
      /\ \A i \in 1 .. Len(queue') : \E j \in 1 .. Len(queue) : queue'[i] = queue[j]
  <2>1. queue \in Seq(Requested(came))
    BY <1>1 DEF AboutInv
  <2>2. CASE queue' = queue
    <3>1. DOMAIN queue = 1 .. Len(queue)
      BY <2>1
    <3> QED
      BY <2>1, <2>2, <3>1
  <2>3. CASE queue # <<>> /\ queue' = Tail(queue)
    <3>1. /\ Tail(queue) \in Seq(Requested(came)) /\ Len(Tail(queue)) = Len(queue) - 1
          /\ DOMAIN Tail(queue) = 1 .. Len(Tail(queue))
          /\ \A i \in 1 .. Len(Tail(queue)) : Tail(queue)[i] = queue[i + 1]
      BY <2>1, <2>3
    <3>2. \A i \in 1 .. Len(Tail(queue)) : i + 1 \in 1 .. Len(queue)
      BY <1>0, <3>1
    <3> QED
      BY <2>3, <3>1, <3>2
  <2> QED
    BY <2>2, <2>3
<1>5. AboutInv'
  <2>1. \A n \in 1 .. MaxCalls : n > made' => n > made
    BY <1>2
  <2> QED
    BY <1>1, <1>2, <1>4, <2>1 DEF AboutInv
<1>6. Aimed'
  <2>1. ASSUME NEW p \in Places, NEW i \in DOMAIN queue', device'[p] = queue'[i].who
        PROVE  seat'[p] = queue'[i].slot
    <3>1. PICK j \in 1 .. Len(queue) : queue'[i] = queue[j]
      BY <1>4, <2>1
    <3>2. queue[j].who \in 1 .. came /\ came \in Nat
      BY <1>0, <1>1 DEF ControllerInv
    <3>3. device'[p] = device[p] /\ seat'[p] = seat[p]
      BY <2>1, <3>1, <3>2 DEF Nobody
    <3> QED
      BY <1>0, <1>1, <2>1, <3>1, <3>3 DEF Aimed
  <2>2. ASSUME NEW p \in Places, NEW n \in Outstanding', device'[p] # Nobody,
               device'[p] = meant[n]
        PROVE  p = target[n]
    <3>1. device'[p] = device[p]
      BY <2>2
    <3>2. n \in Outstanding
      BY <1>1, <1>2, <2>2 DEF AboutInv
    <3> QED
      BY <1>1, <2>2, <3>1, <3>2 DEF Aimed
  <2> QED
    BY <2>1, <2>2 DEF Aimed
<1> QED
  BY <1>3, <1>5, <1>6 DEF RequestsInv

\* A controller that has left a place.
LEMMA LeftFewer ==
  ASSUME RequestsInv, NEW q, Left(q)
  PROVE  /\ device' \in [Places -> 0 .. came] /\ seat' \in [Places -> Places \cup {Nobody}]
         /\ \A p \in Places : \/ device'[p] = device[p] /\ seat'[p] = seat[p]
                              \/ device'[p] = Nobody
<1>1. /\ came \in Nat /\ device \in [Places -> 0 .. came]
      /\ seat \in [Places -> Places \cup {Nobody}]
  BY DEF RequestsInv, ControllerInv
<1>2. 0 \in 0 .. came /\ 0 \in Places \cup {0}
  BY <1>1
<1>3. device' = [device EXCEPT ![q] = 0] /\ seat' = [seat EXCEPT ![q] = 0]
  BY DEF Left, Nobody
<1>4. device' \in [Places -> 0 .. came]
  BY <1>1, <1>2, <1>3
<1>5. seat' \in [Places -> Places \cup {Nobody}]
  BY <1>1, <1>2, <1>3 DEF Nobody
<1>6. ASSUME NEW p \in Places
      PROVE  \/ device'[p] = device[p] /\ seat'[p] = seat[p]
             \/ device'[p] = Nobody
  <2>1. CASE p = q
    BY <1>1, <1>3, <2>1 DEF Nobody
  <2>2. CASE p # q
    BY <1>1, <1>3, <2>2
  <2> QED
    BY <2>1, <2>2
<1> QED
  BY <1>4, <1>5, <1>6

\* A request is about the controller that has the slot.
LEMMA RequestStep ==
  ASSUME RequestsInv, TypeOK, NEW k \in Places, NEW cmd \in {"disconnect", "other"},
         Request(k, cmd)
  PROVE  RequestsInv'
<1>1. ControllerInv /\ AboutInv /\ Aimed
  BY DEF RequestsInv
<1>0. /\ Len(queue) \in Nat /\ DOMAIN queue = 1 .. Len(queue)
      /\ \A i \in 1 .. Len(queue) : queue[i].slot \in Places /\ queue[i].who \in 1 .. came
  BY <1>1, QueueTypes
<1>2. PICK q \in WithSlot(k) :
        queue' = Append(queue, [slot |-> k, cmd |-> cmd, n |-> asked + 1, who |-> device[q]])
  BY DEF Request
<1>3. UNCHANGED <<made, executed, device, seat, target, meant, came>> /\ asked' = asked + 1
  BY DEF Request, vars, history
<1>4. q \in Places /\ device[q] # Nobody /\ seat[q] = k /\ device[q] \in 1 .. came
  BY <1>1, <1>2 DEF WithSlot, ControllerInv, Nobody
<1>5. PICK r \in Requested(came) :
        r.slot = k /\ r.who = device[q] /\ queue' = Append(queue, r)
  <2>1. PICK r : r = [slot |-> k, cmd |-> cmd, n |-> asked + 1, who |-> device[q]]
    OBVIOUS
  <2>2. asked + 1 \in Nat
    BY <1>1 DEF AboutInv
  <2>3. r \in Requested(came)
    BY <1>4, <2>1, <2>2 DEF Requested
  <2> QED
    BY <1>2, <2>1, <2>3
<1>6. /\ queue \in Seq(Requested(came)) /\ queue' \in Seq(Requested(came))
      /\ DOMAIN queue' = 1 .. Len(queue) + 1
      /\ queue'[Len(queue) + 1] = r
      /\ \A i \in 1 .. Len(queue) : queue'[i] = queue[i]
  BY <1>0, <1>1, <1>5 DEF AboutInv
<1>7. Outstanding' = Outstanding
  BY <1>3 DEF Outstanding
<1>8. ControllerInv' /\ AboutInv'
  BY <1>1, <1>3, <1>6 DEF ControllerInv, AboutInv
<1>9. Aimed'
  <2>1. ASSUME NEW p \in Places, NEW i \in DOMAIN queue', device[p] = queue'[i].who
        PROVE  seat[p] = queue'[i].slot
    <3>1. CASE i \in 1 .. Len(queue)
      BY <1>0, <1>1, <1>6, <2>1, <3>1 DEF Aimed
    <3>2. CASE i = Len(queue) + 1
      BY <1>0, <1>1, <1>4, <1>5, <1>6, <2>1, <3>2 DEF ControllerInv
    <3> QED
      BY <1>0, <1>1, <1>6, <2>1, <3>1, <3>2
  <2> QED
    BY <1>1, <1>3, <1>7, <2>1 DEF Aimed
<1> QED
  BY <1>8, <1>9 DEF RequestsInv

\* The call that a request for a disconnection becomes is for the place of the
\* controller, if that one is still there.
LEMMA TakeStep ==
  ASSUME RequestsInv, TypeOK, Take
  PROVE  RequestsInv'
<1>1. ControllerInv /\ AboutInv /\ Aimed
  BY DEF RequestsInv
<1>0. /\ Len(queue) \in Nat /\ DOMAIN queue = 1 .. Len(queue)
      /\ \A i \in 1 .. Len(queue) : queue[i].slot \in Places /\ queue[i].who \in 1 .. came
  BY <1>1, QueueTypes
<1>2. [Next]_vars /\ UNCHANGED <<device, seat, came, asked>>
  BY BtstackAssumption DEF Take, DisconnectDevice, Next, Caller
<1>3. /\ device \in [Places -> 0 .. came] /\ seat \in [Places -> Places \cup {Nobody}]
      /\ queue \in Seq(Requested(came)) /\ came \in Nat
  BY <1>1 DEF ControllerInv, AboutInv
<1>4. CASE UNCHANGED <<target, meant>> /\ (queue' = queue \/ (queue # <<>> /\ queue' = Tail(queue)))
  BY <1>2, <1>3, <1>4, FewerStep
<1>5. ASSUME NEW r, r = Head(queue), queue # <<>>, queue' = Tail(queue), WithSlot(r.slot) # {},
             NEW q \in WithSlot(r.slot), DisconnectDevice(r, q)
      PROVE  RequestsInv'
  <2>1. /\ made' = made + 1 /\ made < MaxCalls /\ executed' = executed
        /\ target' = [target EXCEPT ![made + 1] = q]
        /\ meant' = [meant EXCEPT ![made + 1] = r.who]
    BY <1>5 DEF DisconnectDevice, GetNext
  <2>2. made \in Nat /\ MaxCalls \in Nat /\ made + 1 \in 1 .. MaxCalls
    BY <2>1, CallsAssumption DEF TypeOK
  <2>3. /\ r = queue[1] /\ 1 \in 1 .. Len(queue)
        /\ r.slot \in Places /\ r.who \in 1 .. came
    BY <1>0, <1>3, <1>5
  <2>4. q \in Places /\ device[q] # Nobody /\ seat[q] = r.slot
    BY <1>5 DEF WithSlot
  <2>5. /\ target' \in [1 .. MaxCalls -> Places \cup {Nobody}]
        /\ meant' \in [1 .. MaxCalls -> 0 .. came]
        /\ target'[made + 1] = q /\ meant'[made + 1] = r.who
        /\ \A n \in 1 .. MaxCalls : n # made + 1 => target'[n] = target[n] /\ meant'[n] = meant[n]
    BY <1>1, <1>3, <2>1, <2>2, <2>3, <2>4 DEF AboutInv
  <2>6. /\ Tail(queue) \in Seq(Requested(came)) /\ Len(Tail(queue)) = Len(queue) - 1
        /\ DOMAIN Tail(queue) = 1 .. Len(queue) - 1
        /\ \A i \in 1 .. Len(queue) - 1 : Tail(queue)[i] = queue[i + 1]
    BY <1>0, <1>3, <1>5
  <2>7. ControllerInv'
    BY <1>1, <1>2 DEF ControllerInv
  <2>8. AboutInv'
    <3>1. \A n \in 1 .. MaxCalls : n > made' => n > made /\ n # made + 1
      BY <2>1, <2>2
    <3> QED
      BY <1>1, <1>2, <1>5, <2>1, <2>2, <2>5, <2>6, <3>1 DEF AboutInv
  <2>9. Outstanding \subseteq 1 .. made /\ Outstanding' \subseteq Outstanding \cup {made + 1}
    BY <1>2, <2>1, <2>2, OutstandingSteps
  <2>10. Aimed'
    <3>1. ASSUME NEW p \in Places, NEW i \in DOMAIN queue', device[p] = queue'[i].who
          PROVE  seat[p] = queue'[i].slot
      <4>1. i + 1 \in DOMAIN queue /\ queue'[i] = queue[i + 1]
        BY <1>0, <1>5, <2>6, <3>1
      <4> QED
        BY <1>1, <3>1, <4>1 DEF Aimed
    <3>2. ASSUME NEW p \in Places, NEW n \in Outstanding', device[p] # Nobody,
                 device[p] = meant'[n]
          PROVE  p = target'[n]
      <4>1. CASE n = made + 1
        <5>1. seat[p] = r.slot
          BY <1>1, <2>3, <2>5, <3>2, <4>1 DEF Aimed
        <5> QED
          BY <1>1, <2>4, <2>5, <3>2, <4>1, <5>1 DEF ControllerInv
      <4>2. CASE n \in Outstanding
        <5>1. n \in 1 .. MaxCalls /\ n # made + 1
          BY <2>2, <2>9, <4>2
        <5> QED
          BY <1>1, <2>5, <3>2, <4>2, <5>1 DEF Aimed
      <4> QED
        BY <2>9, <3>2, <4>1, <4>2
    <3> QED
      BY <1>2, <3>1, <3>2 DEF Aimed
  <2> QED
    BY <2>7, <2>8, <2>10 DEF RequestsInv
<1>6. CASE queue = <<>>
  BY <1>4, <1>6 DEF Take
<1>7. CASE queue # <<>> /\ ~ (WithSlot(Head(queue).slot) # {} /\ Head(queue).cmd = "disconnect")
  BY <1>4, <1>7 DEF Take
<1>8. CASE queue # <<>> /\ WithSlot(Head(queue).slot) # {} /\ Head(queue).cmd = "disconnect"
  <2>1. /\ queue' = Tail(queue)
        /\ \E q \in WithSlot(Head(queue).slot) : DisconnectDevice(Head(queue), q)
    BY <1>8 DEF Take
  <2> QED
    BY <1>5, <1>8, <2>1
<1> QED
  BY <1>6, <1>7, <1>8

\* Whatever happens, requests and calls stay aimed.
LEMMA RequestsKept ==
  ASSUME RequestsInv, TypeOK, [NextRequests]_<<vars, requestVars>>
  PROVE  RequestsInv'
<1>1. /\ device \in [Places -> 0 .. came] /\ seat \in [Places -> Places \cup {Nobody}]
  BY DEF RequestsInv, ControllerInv
<1>2. [Next]_vars
  BY RequestSteps
<1>3. ASSUME UNCHANGED <<device, seat, queue, came, asked, target, meant>>
      PROVE  RequestsInv'
  <2>1. /\ device' \in [Places -> 0 .. came] /\ seat' \in [Places -> Places \cup {Nobody}]
        /\ \A p \in Places : device'[p] = device[p] /\ seat'[p] = seat[p]
    BY <1>1, <1>3
  <2> QED
    BY <1>2, <1>3, <2>1, FewerStep
<1>4. ASSUME NEW p, Left(p), UNCHANGED <<queue, came, asked, target, meant>>
      PROVE  RequestsInv'
  <2>1. /\ device' \in [Places -> 0 .. came] /\ seat' \in [Places -> Places \cup {Nobody}]
        /\ \A q \in Places : \/ device'[q] = device[q] /\ seat'[q] = seat[q]
                             \/ device'[q] = Nobody
    BY <1>4, LeftFewer
  <2> QED
    BY <1>2, <1>4, <2>1, FewerStep
<1>5. ASSUME NEW p \in Places, Ready(p) \/ Leave(p) \/ Report(p)
      PROVE  RequestsInv'
  BY <1>3, <1>4, <1>5, ReadyStep DEF Leave, Report
<1>6. ASSUME NEW k \in Places, NEW cmd \in {"disconnect", "other"}, Request(k, cmd)
      PROVE  RequestsInv'
  BY <1>6, RequestStep
<1>7. CASE (\E c \in Callers : OtherCall(c)) \/ Call \/ DoneRequests
           \/ UNCHANGED <<vars, requestVars>>
  BY <1>3, <1>7 DEF OtherCall, Call, DoneRequests, requestVars
<1>8. CASE RunLoop
  BY <1>3, <1>4, <1>8 DEF RunLoop
<1> QED
  BY <1>5, <1>6, <1>7, <1>8, TakeStep DEF NextRequests

\* uni_bt.c: what the sketch asks for, deferred or not, goes to the controller it
\* meant or, when that one has left, to nobody or another, but never to another
\* while the one it meant is still there.  However the calls overlap.
THEOREM RequestsAimed == SpecRequests => []Aimed
<1>1. InitRequests => TypeOK /\ RequestsInv
  <2>1. SUFFICES ASSUME InitRequests PROVE TypeOK /\ RequestsInv
    OBVIOUS
  <2>2. TypeOK
    BY <2>1, InitTypes DEF InitRequests
  <2>3. /\ queue = <<>> /\ DOMAIN queue = {} /\ came = 0 /\ asked = 0 /\ made = 0
        /\ \A p \in Places : device[p] = Nobody /\ seat[p] = Nobody
    <3>1. /\ device = [p \in Places |-> Nobody] /\ seat = [p \in Places |-> Nobody]
          /\ queue = <<>> /\ came = 0 /\ asked = 0 /\ made = 0
      BY <2>1 DEF InitRequests, Init
    <3> QED
      BY <3>1
  <2>4. ControllerInv
    <3>1. device \in [Places -> 0 .. came] /\ seat \in [Places -> Places \cup {Nobody}]
      BY <2>1, <2>3 DEF InitRequests, Nobody
    <3> QED
      BY <2>3, <3>1 DEF ControllerInv
  <2>5. AboutInv
    <3>1. /\ meant = [n \in 1 .. MaxCalls |-> Nobody] /\ target = [n \in 1 .. MaxCalls |-> Nobody]
      BY <2>1 DEF InitRequests
    <3>2. meant \in [1 .. MaxCalls -> 0 .. came] /\ target \in [1 .. MaxCalls -> Places \cup {Nobody}]
      BY <2>3, <3>1 DEF Nobody
    <3>3. queue \in Seq(Requested(came))
      BY <2>3
    <3> QED
      BY <2>3, <3>1, <3>2, <3>3, CallsAssumption DEF AboutInv
  <2>6. Outstanding = {}
    BY <2>3 DEF Outstanding
  <2> QED
    BY <2>2, <2>3, <2>4, <2>5, <2>6 DEF RequestsInv, Aimed
<1>2. TypeOK /\ RequestsInv /\ [NextRequests]_<<vars, requestVars>> => TypeOK' /\ RequestsInv'
  BY RequestSteps, NextTypes, RequestsKept
<1>3. RequestsInv => Aimed
  BY DEF RequestsInv
<1> QED
  BY <1>1, <1>2, <1>3, PTL DEF SpecRequests

\* The requests are a use of the safe calls: their steps are steps of SafeCalls, so
\* that what is proved of the calls is true of the disconnections, too.
THEOREM RequestsAreCalls == SpecRequests => Spec
<1>1. InitRequests => Init
  BY DEF InitRequests
<1>2. [NextRequests]_<<vars, requestVars>> => [Next]_vars
  BY RequestSteps
<1> QED
  BY <1>1, <1>2, PTL DEF SpecRequests, Spec

\* Types are right however the calls overlap.
THEOREM TypesAlwaysRight == Spec => []TypeOK
<1>1. Init => TypeOK
  BY InitTypes
<1>2. TypeOK /\ [Next]_vars => TypeOK'
  BY NextTypes
<1> QED
  BY <1>1, <1>2, PTL DEF Spec
=============================================================================
