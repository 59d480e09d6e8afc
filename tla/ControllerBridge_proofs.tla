----------------------- MODULE ControllerBridge_proofs -----------------------
(***************************************************************************)
(* For any number of devices and controllers: slots and devices match, a   *)
(* controller always finds a seat, new data in a slot is its owner's, and  *)
(* the sketch has one entry for each connected controller.                 *)
(***************************************************************************)
EXTENDS ControllerBridge, FiniteSetTheorems, WellFoundedInduction, TLAPS

USE BridgeAssumption

\* The part of the type invariant the argument needs.
CoreTypes ==
    /\ dev \in [Slots -> {"free", "created", "connected", "ready"}]
    /\ ins \in [Slots -> Slots \cup {Invalid}]
    /\ idx \in [Slots -> Slots \cup {Invalid}]
    /\ session \in [Slots -> Int] /\ data \in [Slots -> Int]
    /\ updated \in [Slots -> BOOLEAN]
    /\ used \in Int /\ sessions \in Int
    /\ h0 \in {"none", "props", "ready", "clear", "drop"}
    /\ d0 \in Slots /\ i0 \in Slots

\* The slots are finitely many, and Invalid is none of them.
LEMMA SlotsFinite ==
    /\ IsFiniteSet(Slots) /\ Cardinality(Slots) = N
    /\ 0 \in Slots /\ Invalid \notin Slots
BY FS_Interval DEF Slots, Invalid

\* The first of some slots is one of them.
LEMMA FirstIn ==
    ASSUME NEW S, S \subseteq Slots, S # {}
    PROVE  First(S) \in S /\ First(S) \in Slots
<1>1. S \subseteq Nat
  BY DEF Slots
<1>2. \E x \in S : \A y \in S : <<y, x>> \notin OpToRel(<, Nat)
  BY <1>1, WFMin, NatLessThanWellFounded
<1>3. ASSUME NEW x \in S, NEW y \in S, <<y, x>> \notin OpToRel(<, Nat)
      PROVE  x <= y
  <2>1. ~(y < x)
    BY <1>1, <1>3 DEF OpToRel
  <2>. QED
    BY <1>1, <2>1
<1>4. \E x \in S : \A y \in S : x <= y
  BY <1>2, <1>3
<1>. QED
  BY <1>4 DEF First

\* So are the ready devices.
LEMMA ReadyFinite ==
    /\ IsFiniteSet(ReadyDevices) /\ Cardinality(ReadyDevices) \in Nat
    /\ Cardinality(ReadyDevices) <= N
    /\ Cardinality(ReadyDevices) = N => ReadyDevices = Slots
<1>1. ReadyDevices \in SUBSET Slots
  BY DEF ReadyDevices
<1>. QED
  BY <1>1, SlotsFinite, FS_Subset, FS_CardinalityType

\* When no handler runs and no slot is free, every device is ready: the owners
\* of the slots are as many as the slots.
LEMMA NoFreeSlot ==
    ASSUME CoreTypes, SeatsInv, IndexInv, h0 = "none", \A i \in Slots : idx[i] # Invalid
    PROVE  Cardinality(ReadyDevices) = N
<1>. DEFINE f == [d \in ReadyDevices |-> ins[d]]
<1>1. \A d \in ReadyDevices : f[d] \in Slots
  BY DEF SeatsInv, ReadyDevices
<1>2. \A i \in Slots : \E d \in ReadyDevices : f[d] = i
  BY DEF IndexInv, Owns, Assigning, ReadyDevices
<1>3. f \in Surjection(ReadyDevices, Slots)
  <2>1. f \in [ReadyDevices -> Slots]
    BY <1>1
  <2>. QED
    BY <1>2, <2>1 DEF Surjection, Range
<1>4. Cardinality(Slots) <= Cardinality(ReadyDevices)
  BY <1>3, ReadyFinite, FS_Surjection
<1>. QED
  BY <1>4, ReadyFinite, SlotsFinite

\* At first no device is ready and no slot is used.
LEMMA InitBridge == Init => CoreTypes /\ SlotInv
<1>. SUFFICES ASSUME Init PROVE CoreTypes /\ SlotInv
  OBVIOUS
<1>1. CoreTypes
  BY SlotsFinite DEF Init, CoreTypes, Zero
<1>2. SeatsInv /\ IndexInv /\ DataOfOwner
  BY DEF Init, SeatsInv, IndexInv, DataOfOwner, Assigning, Clearing, Owns
<1>3. CountInv
  <2>1. ReadyDevices = {}
    BY DEF Init, ReadyDevices
  <2>. QED
    BY <2>1, FS_EmptySet DEF Init, CountInv, Clearing
<1>. QED
  BY <1>1, <1>2, <1>3 DEF SlotInv

\* The types are kept by every step.
LEMMA StepTypes == CoreTypes /\ [Next]_vars => CoreTypes'
<1>. SUFFICES ASSUME CoreTypes, [Next]_vars PROVE CoreTypes'
  OBVIOUS
<1>. USE SlotsFinite DEF CoreTypes, Zero, Torn
<1>1. CASE Create
  BY <1>1 DEF Create, shared
<1>2. ASSUME NEW d \in Slots, Connect(d) PROVE CoreTypes'
  BY <1>2 DEF Connect, shared
<1>3. ASSUME NEW d \in Slots, Ready(d) PROVE CoreTypes'
  <2>. DEFINE free == {i \in Slots : idx[i] = Invalid}
  <2>1. free # {} => First(free) \in Slots
    BY FirstIn
  <2>. QED
    BY <1>3, <2>1 DEF Ready
<1>4. ASSUME NEW d \in Slots, ControllerData(d) PROVE CoreTypes'
  BY <1>4 DEF ControllerData, cpu0
<1>5. ASSUME NEW d \in Slots, Drop(d) PROVE CoreTypes'
  BY <1>5 DEF Drop
<1>6. CASE Handler
  <2>1. CASE ReadyProps
    BY <2>1 DEF ReadyProps
  <2>2. CASE ReadyDone
    BY <2>2 DEF ReadyDone
  <2>3. CASE DropClear
    BY <2>3 DEF DropClear
  <2>4. CASE DropDone
    BY <2>4 DEF DropDone
  <2>. QED
    BY <1>6, <2>1, <2>2, <2>3, <2>4 DEF Handler
<1>7. CASE Update
  <2>1. UNCHANGED <<dev, ins, session, used, sessions, h0, d0, i0, idx, data>>
    BY <1>7 DEF Update, PollIndex, PollTake, PollClear, PollEnd, Connected, ConnectedProps,
                Disconnected, Unchanged, ChangesEnd, Process, cpu0, shared
  <2>2. updated' \in [Slots -> BOOLEAN]
    BY <1>7 DEF Update, PollIndex, PollTake, PollClear, PollEnd, Connected, ConnectedProps,
                Disconnected, Unchanged, ChangesEnd, Process, shared
  <2>. QED
    BY <2>1, <2>2
<1>8. CASE UNCHANGED vars
  BY <1>8 DEF vars, cpu0, shared
<1>. QED
  BY <1>1, <1>2, <1>3, <1>4, <1>5, <1>6, <1>7, <1>8 DEF Next, BluetoothTask

\* CPU 1 changes nothing the invariant is about but the flags, which it clears.
LEMMA UpdateStep ==
    ASSUME CoreTypes, SlotInv, Update \/ UNCHANGED vars
    PROVE  SlotInv'
<1>1. UNCHANGED <<dev, ins, session, used, h0, d0, i0, idx, data>>
  BY DEF Update, PollIndex, PollTake, PollClear, PollEnd, Connected, ConnectedProps,
         Disconnected, Unchanged, ChangesEnd, Process, cpu0, shared, vars
<1>2. \A i \in Slots : updated'[i] => updated[i]
  BY DEF Update, PollIndex, PollTake, PollClear, PollEnd, Connected, ConnectedProps,
         Disconnected, Unchanged, ChangesEnd, Process, shared, vars, CoreTypes
<1>3. ReadyDevices' = ReadyDevices
  BY <1>1 DEF ReadyDevices
<1>4. SeatsInv' /\ IndexInv'
  BY <1>1 DEF SlotInv, SeatsInv, IndexInv, Assigning, Clearing, Owns
<1>5. CountInv'
  BY <1>1, <1>3 DEF SlotInv, CountInv, Clearing
<1>6. DataOfOwner'
  BY <1>1, <1>2, <1>3 DEF SlotInv, DataOfOwner
<1>. QED
  BY <1>4, <1>5, <1>6 DEF SlotInv

\* A device that is created, is connected or has its properties filled in does
\* not touch what is ready.
LEMMA QuietStep ==
    ASSUME CoreTypes, SlotInv,
           Create \/ (\E d \in Slots : Connect(d)) \/ ReadyProps
    PROVE  SlotInv'
<1>0. \A S : S \subseteq Slots /\ S # {} => First(S) \in S
  BY FirstIn
<1>1. UNCHANGED <<session, used, d0, i0, idx, data, updated>>
  BY DEF Create, Connect, ReadyProps, shared
<1>2. \A d \in Slots : /\ dev'[d] = "ready" <=> dev[d] = "ready"
                       /\ dev[d] = "ready" => ins'[d] = ins[d]
  BY <1>0 DEF Create, Connect, ReadyProps, CoreTypes
<1>3. Assigning' <=> Assigning
  BY DEF Create, Connect, ReadyProps, Assigning
<1>4. Clearing' <=> Clearing
  BY DEF Create, Connect, ReadyProps, Clearing
<1>5. \A d \in Slots : dev'[d] = "connected" => ins'[d] = Invalid
  BY <1>0 DEF Create, Connect, ReadyProps, CoreTypes, SlotInv, SeatsInv
<1>6. Assigning => dev'[d0] = "connected" /\ \A d \in Slots : ~Owns(d, i0)
  BY DEF Create, Connect, ReadyProps, Assigning, SlotInv, SeatsInv
<1>7. ReadyDevices' = ReadyDevices
  BY <1>2 DEF ReadyDevices
<1>8. SeatsInv'
  BY <1>1, <1>2, <1>3, <1>4, <1>5, <1>6 DEF SlotInv, SeatsInv, Owns, CoreTypes
<1>9. IndexInv'
  BY <1>1, <1>2, <1>3, <1>4 DEF SlotInv, IndexInv, Owns
<1>10. CountInv'
  BY <1>1, <1>4, <1>7 DEF SlotInv, CountInv
<1>11. DataOfOwner'
  <2>1. h0 = "clear" <=> h0' = "clear"
    BY DEF Create, Connect, ReadyProps
  <2>. QED
    BY <1>1, <1>2, <1>7, <2>1 DEF SlotInv, DataOfOwner, ReadyDevices
<1>. QED
  BY <1>8, <1>9, <1>10, <1>11 DEF SlotInv

\* A new session is the only thing a device gets before its seat: were no slot
\* free, every device would be ready, this one included.
LEMMA ReadyStep ==
    ASSUME CoreTypes, SlotInv, NEW d \in Slots, Ready(d)
    PROVE  SlotInv'
<1>. DEFINE free == {i \in Slots : idx[i] = Invalid}
<1>1. d \notin ReadyDevices
  BY DEF Ready, ReadyDevices
<1>2. Cardinality(ReadyDevices) # N
  BY <1>1, ReadyFinite
<1>3. used # N
  BY <1>2, ReadyFinite DEF SlotInv, CountInv, Clearing, Ready
<1>4. free # {}
  BY <1>2, NoFreeSlot DEF SlotInv, Ready
<1>5. First(free) \in free
  BY <1>4, FirstIn
<1>6. /\ UNCHANGED <<dev, ins, used, data, updated>>
      /\ h0 = "none" /\ h0' = "props" /\ d0' = d /\ dev[d] = "connected"
      /\ i0' = First(free) /\ idx' = [idx EXCEPT ![i0'] = i0']
  BY <1>3, <1>4 DEF Ready
<1>7. \A e \in Slots : e # d => session'[e] = session[e]
  BY DEF Ready, CoreTypes
<1>8. ReadyDevices' = ReadyDevices
  BY <1>6 DEF ReadyDevices
<1>13. \A e \in Slots : ~Owns(e, i0')
  BY <1>5, <1>6 DEF SlotInv, IndexInv
<1>9. SeatsInv'
  BY <1>6, <1>13 DEF SlotInv, SeatsInv, Assigning, Clearing, Owns
<1>10. IndexInv'
  <2>. HIDE DEF free
  <2>1. i0' \in Slots /\ idx[i0'] = Invalid
    BY <1>5, <1>6 DEF free
  <2>2. Assigning' /\ ~Assigning /\ ~Clearing /\ ~Clearing'
    BY <1>6 DEF Assigning, Clearing
  <2>3. \A i \in Slots, e \in Slots : Owns(e, i)' <=> Owns(e, i)
    BY <1>6 DEF Owns
  <2>4. \A i \in Slots : i # i0' => idx'[i] = idx[i]
    BY <1>6 DEF CoreTypes
  <2>5. idx'[i0'] = i0' /\ i0' # Invalid
    BY <1>6, <2>1, SlotsFinite DEF CoreTypes
  <2>. QED
    BY <2>1, <2>2, <2>3, <2>4, <2>5 DEF SlotInv, IndexInv
<1>11. CountInv'
  BY <1>6, <1>8 DEF SlotInv, CountInv, Clearing
<1>12. DataOfOwner'
  <2>1. \A e \in ReadyDevices : session'[e] = session[e] /\ e \in Slots
    BY <1>1, <1>7 DEF ReadyDevices
  <2>. QED
    BY <1>6, <1>8, <2>1 DEF SlotInv, DataOfOwner
<1>. QED
  BY <1>9, <1>10, <1>11, <1>12 DEF SlotInv

\* The device that was given a slot becomes its owner and is counted.
LEMMA ReadyDoneStep ==
    ASSUME CoreTypes, SlotInv, ReadyDone
    PROVE  SlotInv'
<1>1. /\ Assigning /\ ~Assigning' /\ ~Clearing /\ ~Clearing'
      /\ dev[d0] = "connected"
      /\ dev' = [dev EXCEPT ![d0] = "ready"] /\ ins' = [ins EXCEPT ![d0] = i0]
      /\ used' = used + 1 /\ UNCHANGED <<session, idx, data, updated>>
  BY DEF ReadyDone, Assigning, Clearing, SlotInv, SeatsInv
<1>2. d0 \in Slots /\ i0 \in Slots /\ d0 \notin ReadyDevices
  BY <1>1 DEF CoreTypes, ReadyDevices
<1>3. ReadyDevices' = ReadyDevices \cup {d0}
  BY <1>1, <1>2 DEF ReadyDevices, CoreTypes
<1>4. \A d \in Slots : ~Owns(d, i0)
  BY <1>1 DEF SlotInv, SeatsInv
<1>5. \A d, i \in Slots : Owns(d, i)' <=> Owns(d, i) \/ (d = d0 /\ i = i0)
  BY <1>1, <1>2 DEF Owns, CoreTypes
<1>6. SeatsInv'
  <2>1. \A d \in Slots : d # d0 => dev'[d] = dev[d] /\ ins'[d] = ins[d]
    BY <1>1, <1>2 DEF CoreTypes
  <2>2. dev'[d0] = "ready" /\ ins'[d0] = i0
    BY <1>1, <1>2 DEF CoreTypes
  <2>3. \A d \in Slots : dev[d] = "ready" => ins[d] # i0
    BY <1>4 DEF Owns
  <2>. QED
    BY <1>1, <1>2, <2>1, <2>2, <2>3 DEF SlotInv, SeatsInv
<1>7. IndexInv'
  <2>1. UNCHANGED <<idx>> /\ i0 \in Slots /\ d0 \in Slots
    BY <1>1, <1>2
  <2>. QED
    BY <1>1, <1>5, <2>1 DEF SlotInv, IndexInv
<1>8. CountInv'
  <2>1. Cardinality(ReadyDevices') = Cardinality(ReadyDevices) + 1
    BY <1>2, <1>3, ReadyFinite, FS_AddElement
  <2>2. used = Cardinality(ReadyDevices)
    BY <1>1, ReadyFinite DEF SlotInv, CountInv
  <2>. QED
    BY <1>1, <2>1, <2>2, ReadyFinite DEF CountInv
<1>9. DataOfOwner'
  <2>1. \A d \in ReadyDevices : d \in ReadyDevices' /\ ins'[d] = ins[d]
    BY <1>1, <1>2, <1>3 DEF CoreTypes, ReadyDevices
  <2>2. h0 # "clear" /\ h0' # "clear"
    BY DEF ReadyDone
  <2>. QED
    BY <1>1, <2>1, <2>2 DEF SlotInv, DataOfOwner
<1>. QED
  BY <1>6, <1>7, <1>8, <1>9 DEF SlotInv

\* The data of a slot is stored with its flag, by the slot's owner.
LEMMA DataStep ==
    ASSUME CoreTypes, SlotInv, NEW d \in Slots, ControllerData(d)
    PROVE  SlotInv'
<1>1. /\ UNCHANGED <<dev, ins, session, used, h0, d0, i0, idx>>
      /\ d \in ReadyDevices /\ ins[d] \in Slots /\ h0 = "none"
      /\ data' = [data EXCEPT ![ins[d]] = session[d]]
      /\ updated' = [updated EXCEPT ![ins[d]] = TRUE]
  BY DEF ControllerData, cpu0, ReadyDevices
<1>2. ReadyDevices' = ReadyDevices
  BY <1>1 DEF ReadyDevices
<1>3. SeatsInv' /\ IndexInv'
  BY <1>1 DEF SlotInv, SeatsInv, IndexInv, Assigning, Clearing, Owns
<1>4. CountInv'
  BY <1>1, <1>2 DEF SlotInv, CountInv, Clearing
<1>5. ASSUME NEW i \in Slots, updated'[i]
      PROVE  \E e \in ReadyDevices : ins[e] = i /\ data'[i] = session[e]
  <2>1. CASE i = ins[d]
    BY <1>1, <2>1 DEF CoreTypes
  <2>2. CASE i # ins[d]
    <3>1. updated[i] /\ data'[i] = data[i]
      BY <1>1, <1>5, <2>2 DEF CoreTypes
    <3>. QED
      BY <1>1, <3>1 DEF SlotInv, DataOfOwner
  <2>. QED
    BY <2>1, <2>2
<1>6. DataOfOwner'
  BY <1>1, <1>2, <1>5 DEF DataOfOwner
<1>. QED
  BY <1>3, <1>4, <1>6 DEF SlotInv

\* A device that is not ready leaves without a trace; one that is keeps its slot
\* until the slot is cleared.
LEMMA DropStep ==
    ASSUME CoreTypes, SlotInv, NEW d \in Slots, Drop(d)
    PROVE  SlotInv'
<1>. DEFINE seated == dev[d] # "created" /\ ins[d] # Invalid
<1>0. h0 = "none" /\ dev[d] # "free" /\ ~Assigning /\ ~Clearing /\ UNCHANGED updated
  BY DEF Drop, Assigning, Clearing
<1>1. seated <=> dev[d] = "ready"
  BY <1>0, SlotsFinite DEF SlotInv, SeatsInv, CoreTypes
<1>2. CASE ~seated
  <2>1. /\ UNCHANGED <<used, h0, d0, i0, idx, data>>
        /\ dev' = [dev EXCEPT ![d] = "free"] /\ ins' = [ins EXCEPT ![d] = 0]
        /\ session' = [session EXCEPT ![d] = Zero]
    BY <1>2 DEF Drop
  <2>2. \A e \in Slots : /\ dev'[e] = "ready" <=> dev[e] = "ready"
                         /\ dev'[e] = "connected" => dev[e] = "connected" /\ ins'[e] = ins[e]
                         /\ dev[e] = "ready" => ins'[e] = ins[e] /\ session'[e] = session[e]
    BY <1>1, <1>2, <2>1 DEF CoreTypes
  <2>3. ReadyDevices' = ReadyDevices
    BY <2>2 DEF ReadyDevices
  <2>4. SeatsInv'
    BY <1>0, <2>1, <2>2 DEF SlotInv, SeatsInv, Assigning, Clearing
  <2>5. IndexInv'
    BY <1>0, <2>1, <2>2 DEF SlotInv, IndexInv, Assigning, Clearing, Owns
  <2>6. CountInv'
    BY <2>1, <2>3 DEF SlotInv, CountInv, Clearing
  <2>7. DataOfOwner'
    BY <1>0, <2>1, <2>2, <2>3 DEF SlotInv, DataOfOwner, ReadyDevices
  <2>. QED
    BY <2>4, <2>5, <2>6, <2>7 DEF SlotInv
<1>3. CASE seated
  <2>1. /\ h0' = "clear" /\ d0' = d /\ i0' = ins[d] /\ used' = used - 1
        /\ idx' = [idx EXCEPT ![ins[d]] = 0] /\ data' = [data EXCEPT ![ins[d]] = Torn]
        /\ UNCHANGED <<dev, ins, session>>
    BY <1>3 DEF Drop
  <2>2. dev[d] = "ready" /\ ins[d] \in Slots
    BY <1>1, <1>3 DEF SlotInv, SeatsInv
  <2>3. ReadyDevices' = ReadyDevices
    BY <2>1 DEF ReadyDevices
  <2>4. ~Assigning' /\ Clearing'
    BY <2>1 DEF Assigning, Clearing
  <2>5. SeatsInv'
    BY <2>1, <2>2, <2>4 DEF SlotInv, SeatsInv, Owns
  <2>6. IndexInv'
    <3>1. \A i \in Slots : i # i0' => idx'[i] = idx[i]
      BY <2>1 DEF CoreTypes
    <3>0. i0' = ins[d] /\ ins[d] \in Slots /\ idx'[ins[d]] = 0
      BY <2>1, <2>2 DEF CoreTypes
    <3>2. idx'[ins[d]] # Invalid /\ Owns(d, ins[d])
      BY <2>2, <3>0, SlotsFinite DEF Owns
    <3>3. \A e, i \in Slots : Owns(e, i)' <=> Owns(e, i)
      BY <2>1 DEF Owns
    <3>4. \A i \in Slots : idx[i] # Invalid <=> \E e \in Slots : Owns(e, i)
      BY <1>0 DEF SlotInv, IndexInv
    <3>5. \A i \in Slots : idx[i] # Invalid => idx[i] = i
      BY <1>0 DEF SlotInv, IndexInv
    <3>6. ASSUME NEW i \in Slots
          PROVE  /\ idx'[i] # Invalid <=> \E e \in Slots : Owns(e, i)'
                 /\ idx'[i] # Invalid /\ i # i0' => idx'[i] = i
      <4>1. CASE i = i0'
        BY <3>0, <3>2, <3>3, <4>1
      <4>2. CASE i # i0'
        BY <3>1, <3>3, <3>4, <3>5, <4>2
      <4>. QED
        BY <4>1, <4>2
    <3>. QED
      BY <2>4, <3>6 DEF IndexInv
  <2>7. CountInv'
    BY <1>0, <2>1, <2>3, <2>4, ReadyFinite DEF SlotInv, CountInv
  <2>8. DataOfOwner'
    <3>1. \A i \in Slots : i # i0' => data'[i] = data[i]
      BY <2>1 DEF CoreTypes
    <3>. QED
      BY <1>0, <2>1, <2>3, <3>1 DEF SlotInv, DataOfOwner
  <2>. QED
    BY <2>5, <2>6, <2>7, <2>8 DEF SlotInv
<1>. QED
  BY <1>2, <1>3

\* The memset clears the flag with the data, so the owner may leave.
LEMMA DropClearStep ==
    ASSUME CoreTypes, SlotInv, DropClear
    PROVE  SlotInv'
<1>1. /\ h0 = "clear" /\ h0' = "drop" /\ UNCHANGED <<dev, ins, session, used, d0, i0, idx>>
      /\ data' = [data EXCEPT ![i0] = Zero] /\ updated' = [updated EXCEPT ![i0] = FALSE]
  BY DEF DropClear
<1>2. ReadyDevices' = ReadyDevices
  BY <1>1 DEF ReadyDevices
<1>3. SeatsInv' /\ IndexInv'
  BY <1>1 DEF SlotInv, SeatsInv, IndexInv, Assigning, Clearing, Owns
<1>4. CountInv'
  BY <1>1, <1>2 DEF SlotInv, CountInv, Clearing
<1>5. DataOfOwner'
  <2>1. \A i \in Slots : updated'[i] => i # i0 /\ updated[i] /\ data'[i] = data[i]
    BY <1>1 DEF CoreTypes
  <2>. QED
    BY <1>1, <1>2, <2>1 DEF SlotInv, DataOfOwner
<1>. QED
  BY <1>3, <1>4, <1>5 DEF SlotInv

\* The owner leaves as its slot gets free, and was no longer counted.
LEMMA DropDoneStep ==
    ASSUME CoreTypes, SlotInv, FlagInv, DropDone
    PROVE  SlotInv'
<1>1. /\ h0 = "drop" /\ h0' = "none" /\ UNCHANGED <<used, data, updated>>
      /\ idx' = [idx EXCEPT ![i0] = Invalid] /\ dev' = [dev EXCEPT ![d0] = "free"]
      /\ ins' = [ins EXCEPT ![d0] = 0] /\ session' = [session EXCEPT ![d0] = Zero]
  BY DEF DropDone
<1>2. Owns(d0, i0) /\ d0 \in Slots /\ i0 \in Slots
  BY <1>1 DEF SlotInv, SeatsInv, Clearing, CoreTypes
<1>3. ~Assigning /\ ~Assigning' /\ Clearing /\ ~Clearing'
  BY <1>1 DEF Assigning, Clearing
<1>4. \A d \in Slots : Owns(d, i0) => d = d0
  BY <1>2 DEF SlotInv, SeatsInv, Owns
<1>5. dev'[d0] = "free" /\ \A d \in Slots : d # d0 =>
          dev'[d] = dev[d] /\ ins'[d] = ins[d] /\ session'[d] = session[d]
  BY <1>1, <1>2 DEF CoreTypes
<1>6. ReadyDevices' = ReadyDevices \ {d0} /\ d0 \in ReadyDevices
  BY <1>2, <1>5 DEF ReadyDevices, Owns
<1>7. SeatsInv'
  BY <1>3, <1>5 DEF SlotInv, SeatsInv
<1>8. IndexInv'
  <2>1. \A d, i \in Slots : Owns(d, i)' <=> Owns(d, i) /\ d # d0
    BY <1>5 DEF Owns
  <2>2. \A i \in Slots : Owns(d0, i) => i = i0
    BY <1>2 DEF Owns
  <2>3. idx'[i0] = Invalid /\ \A i \in Slots : i # i0 => idx'[i] = idx[i]
    BY <1>1, <1>2 DEF CoreTypes
  <2>4. ASSUME NEW i \in Slots
        PROVE  /\ idx'[i] # Invalid <=> \E d \in Slots : Owns(d, i)'
               /\ idx'[i] # Invalid => idx'[i] = i
    <3>1. CASE i = i0
      BY <1>4, <2>1, <2>3, <3>1
    <3>2. CASE i # i0
      <4>1. idx'[i] = idx[i]
        BY <2>3, <3>2
      <4>2. (\E d \in Slots : Owns(d, i)') <=> \E d \in Slots : Owns(d, i)
        BY <2>1, <2>2, <3>2
      <4>3. idx[i] # Invalid <=> \E d \in Slots : Owns(d, i)
        BY <1>3 DEF SlotInv, IndexInv
      <4>4. idx[i] # Invalid => idx[i] = i
        BY <3>2 DEF SlotInv, IndexInv
      <4>. QED
        BY <4>1, <4>2, <4>3, <4>4
    <3>. QED
      BY <3>1, <3>2
  <2>. QED
    BY <1>3, <2>4 DEF IndexInv
<1>9. CountInv'
  <2>1. Cardinality(ReadyDevices') = Cardinality(ReadyDevices) - 1
    BY <1>6, ReadyFinite, FS_RemoveElement
  <2>2. used = Cardinality(ReadyDevices) - 1
    BY <1>3, ReadyFinite DEF SlotInv, CountInv
  <2>. QED
    BY <1>1, <1>3, <2>1, <2>2, ReadyFinite DEF CountInv
<1>10. DataOfOwner'
  <2>1. ASSUME NEW i \in Slots, updated'[i]
        PROVE  \E d \in ReadyDevices' : ins'[d] = i /\ data'[i] = session'[d]
    <3>1. PICK d \in ReadyDevices : ins[d] = i /\ data[i] = session[d]
      BY <1>1, <2>1 DEF SlotInv, DataOfOwner
    <3>2. d # d0
      BY <1>1, <1>2, <2>1, <3>1 DEF FlagInv, Owns
    <3>. QED
      BY <1>1, <1>5, <1>6, <3>1, <3>2 DEF ReadyDevices
  <2>. QED
    BY <2>1 DEF DataOfOwner
<1>. QED
  BY <1>7, <1>8, <1>9, <1>10 DEF SlotInv

\* Only the owner's data sets the flag, and no handler runs then.
LEMMA FlagStep == CoreTypes /\ FlagInv /\ [Next]_vars => FlagInv'
<1>. SUFFICES ASSUME CoreTypes, FlagInv, [Next]_vars PROVE FlagInv'
  OBVIOUS
<1>1. CASE BluetoothTask
  BY <1>1 DEF BluetoothTask, Create, Connect, Ready, ControllerData, Drop, Handler, ReadyProps,
              ReadyDone, DropClear, DropDone, FlagInv, CoreTypes, cpu0, shared
<1>2. CASE Update \/ UNCHANGED vars
  <2>1. UNCHANGED <<h0, i0>>
    BY <1>2 DEF Update, PollIndex, PollTake, PollClear, PollEnd, Connected, ConnectedProps,
                Disconnected, Unchanged, ChangesEnd, Process, cpu0, vars
  <2>2. \A i \in Slots : updated'[i] => updated[i]
    BY <1>2 DEF Update, PollIndex, PollTake, PollClear, PollEnd, Connected, ConnectedProps,
                Disconnected, Unchanged, ChangesEnd, Process, shared, vars, CoreTypes
  <2>. QED
    BY <2>1, <2>2 DEF FlagInv, CoreTypes
<1>. QED
  BY <1>1, <1>2 DEF Next

\* Every step keeps the whole invariant.
LEMMA StepBridge == CoreTypes /\ BridgeInv /\ [Next]_vars => BridgeInv'
<1>. SUFFICES ASSUME CoreTypes, BridgeInv, [Next]_vars PROVE SlotInv'
  BY FlagStep DEF BridgeInv
<1>. USE DEF BridgeInv
<1>1. CASE Create
  BY <1>1, QuietStep
<1>2. CASE \E d \in Slots : Connect(d)
  BY <1>2, QuietStep
<1>3. CASE \E d \in Slots : Ready(d)
  BY <1>3, ReadyStep
<1>4. CASE \E d \in Slots : ControllerData(d)
  BY <1>4, DataStep
<1>5. CASE \E d \in Slots : Drop(d)
  BY <1>5, DropStep
<1>6. CASE Handler
  BY <1>6, QuietStep, ReadyDoneStep, DropClearStep, DropDoneStep DEF Handler
<1>7. CASE Update \/ UNCHANGED vars
  BY <1>7, UpdateStep
<1>. QED
  BY <1>1, <1>2, <1>3, <1>4, <1>5, <1>6, <1>7 DEF Next, BluetoothTask

\* The slot invariant holds in every reachable state, for any number of devices.
THEOREM Inductive == Spec => [](CoreTypes /\ BridgeInv)
<1>1. Init => CoreTypes /\ BridgeInv
  BY InitBridge DEF Init, BridgeInv, FlagInv
<1>2. CoreTypes /\ BridgeInv /\ [Next]_vars => (CoreTypes /\ BridgeInv)'
  BY StepTypes, StepBridge
<1>. QED
  BY <1>1, <1>2, PTL DEF Spec

\* Connections and disconnections neither leak a slot of controllers_[] nor give
\* one to two devices, and used_controllers_ is right.
THEOREM SlotsAlwaysMatch == Spec => []SlotsMatch
<1>1. CoreTypes /\ BridgeInv => SlotsMatch
  <2>. SUFFICES ASSUME CoreTypes, BridgeInv, h0 = "none" PROVE SlotsMatch
    BY DEF SlotsMatch, Between
  <2>1. ~Assigning /\ ~Clearing
    BY DEF Assigning, Clearing
  <2>2. used = Cardinality(ReadyDevices)
    BY <2>1, ReadyFinite DEF BridgeInv, SlotInv, CountInv
  <2>3. \A d \in ReadyDevices : Owns(d, ins[d]) /\ ins[d] \in Slots
    BY DEF BridgeInv, SlotInv, SeatsInv, Owns, ReadyDevices
  <2>4. \A d \in ReadyDevices : idx[ins[d]] = ins[d]
    BY <2>1, <2>3 DEF BridgeInv, SlotInv, IndexInv, ReadyDevices
  <2>5. \A d, e \in ReadyDevices : ins[d] = ins[e] => d = e
    BY DEF BridgeInv, SlotInv, SeatsInv, ReadyDevices
  <2>6. \A i \in Slots : idx[i] # Invalid => \E d \in ReadyDevices : ins[d] = i
    BY <2>1 DEF BridgeInv, SlotInv, IndexInv, Owns, ReadyDevices
  <2>. QED
    BY <2>2, <2>3, <2>4, <2>5, <2>6 DEF SlotsMatch
<1>. QED
  BY <1>1, Inductive, PTL

\* on_device_ready() never refuses a controller for lack of a seat.
THEOREM AlwaysASeat == Spec => []SeatForAll
<1>1. CoreTypes /\ BridgeInv => SeatForAll
  <2>. SUFFICES ASSUME CoreTypes, BridgeInv, h0 = "none",
                       NEW d \in Slots, dev[d] = "connected"
                PROVE  used < N /\ \E i \in Slots : idx[i] = Invalid
    BY DEF SeatForAll, Between
  <2>1. ReadyDevices # Slots
    BY DEF ReadyDevices
  <2>2. Cardinality(ReadyDevices) < N
    BY <2>1, ReadyFinite
  <2>3. used < N
    BY <2>2, ReadyFinite DEF BridgeInv, SlotInv, CountInv, Clearing
  <2>4. \E i \in Slots : idx[i] = Invalid
    BY <2>2, NoFreeSlot DEF BridgeInv, SlotInv
  <2>. QED
    BY <2>3, <2>4
<1>. QED
  BY <1>1, Inductive, PTL

\* New data in a slot was sent by the controller that has the slot.
THEOREM DataIsOfOwner == Spec => []DataOfOwner
<1>1. BridgeInv => DataOfOwner
  BY DEF BridgeInv, SlotInv
<1>. QED
  BY <1>1, Inductive, PTL

-----------------------------------------------------------------------------
(* The types, and the callbacks.                                           *)

\* The loop index is a slot's while a slot is polled or announced, and a
\* controller that has a slot, is getting one or is losing it has a session.
RangeInv ==
    /\ at \in {"take", "clear", "props"} => i1 < N
    /\ \A d \in Slots : dev[d] = "ready" => session[d] \in Sessions
    /\ h0 # "none" => session[d0] \in Sessions

\* The controllers the sketch has been told of: during the second loop of
\* update(), those of this poll below the loop index, those of the last above.
Told == IF at \in {"changes", "props"}
        THEN {i \in Slots : IF i < i1 THEN i \in mask ELSE i \in prevMask}
        ELSE prevMask

\* myControllers has one entry for each of them and no other, and only the
\* controller that is being announced is connected already but not yet there.
EntriesInv ==
    /\ at = "props" => i1 \in mask \ prevMask
    /\ \A m \in Slots : mine[m] # Invalid => mine[m] \in Told
    /\ \A i \in Told : \E m \in Slots : mine[m] = i
    /\ \A m, n \in Slots : mine[m] = mine[n] /\ mine[m] # Invalid => m = n
    /\ \A i \in Slots : connected[i] <=> i \in Told \/ (at = "props" /\ i = i1)

\* The variables that hold sessions, or that CPU 1 writes.
SessionTypes ==
    /\ session \in [Slots -> Sessions \cup {Zero}]
    /\ props \in [Slots -> Content] /\ data \in [Slots -> Content]
    /\ sessions \in Sessions \cup {0}

PollTypes ==
    /\ mutex \in {"free", "app"}
    /\ at \in {"poll", "take", "clear", "changes", "props", "process"}
    /\ i1 \in 0 .. N
    /\ mask \subseteq Slots /\ prevMask \subseteq Slots
    /\ anyData \in BOOLEAN
    /\ hasData \in [Slots -> BOOLEAN] /\ connected \in [Slots -> BOOLEAN]
    /\ appData \in [Slots -> Content] /\ appProps \in [Slots -> Content]
    /\ mine \in [Slots -> Slots \cup {Invalid}]
    /\ announced \subseteq Sessions

\* used_controllers_ is in range: a seat that is given up was taken.
LEMMA UsedInRange ==
    ASSUME CoreTypes, BridgeInv
    PROVE  used \in 0 .. N
<1>1. Clearing => ReadyDevices # {}
  BY DEF BridgeInv, SlotInv, SeatsInv, Owns, ReadyDevices, CoreTypes
<1>2. Clearing => Cardinality(ReadyDevices) # 0
  BY <1>1, ReadyFinite, FS_EmptySet
<1>. QED
  BY <1>2, ReadyFinite DEF BridgeInv, SlotInv, CountInv

\* The type invariant is these parts.
LEMMA TypeParts ==
    /\ CoreTypes /\ BridgeInv /\ SessionTypes /\ PollTypes => TypeOK
    /\ TypeOK => SessionTypes /\ PollTypes
BY UsedInRange DEF CoreTypes, SessionTypes, PollTypes, TypeOK

\* CPU 0 writes sessions only: each controller that gets a slot has one.
LEMMA BluetoothTypes ==
    ASSUME CoreTypes, BridgeInv, SessionTypes, RangeInv, BluetoothTask
    PROVE  SessionTypes' /\ RangeInv'
<1>. USE SlotsFinite DEF CoreTypes, SessionTypes, RangeInv, Content, Sessions, Zero, Torn
<1>1. CASE Create
  <2>1. \A S : S \subseteq Slots /\ S # {} => First(S) \in Slots
    BY FirstIn
  <2>2. UNCHANGED <<at, i1, session, h0, d0, props, data, sessions>>
    BY <1>1 DEF Create, shared, cpu1
  <2>3. \A d \in Slots : dev'[d] = "ready" => dev[d] = "ready"
    BY <1>1, <2>1 DEF Create
  <2>. QED
    BY <2>2, <2>3
<1>2. ASSUME NEW d \in Slots, Connect(d) PROVE SessionTypes' /\ RangeInv'
  BY <1>2 DEF Connect, shared, cpu1
<1>3. ASSUME NEW d \in Slots, Ready(d) PROVE SessionTypes' /\ RangeInv'
  <2>. DEFINE free == {i \in Slots : idx[i] = Invalid}
  <2>1. d \notin ReadyDevices
    BY <1>3 DEF Ready, ReadyDevices
  <2>2. Cardinality(ReadyDevices) # N
    BY <2>1, ReadyFinite
  <2>3. used # N
    BY <1>3, <2>2, ReadyFinite DEF BridgeInv, SlotInv, CountInv, Clearing, Ready
  <2>4. free # {}
    BY <1>3, <2>2, NoFreeSlot DEF BridgeInv, SlotInv, Ready
  <2>5. /\ h0' = "props" /\ d0' = d /\ UNCHANGED <<dev, props, data, at, i1>>
        /\ sessions < MaxSessions /\ sessions' = sessions + 1
        /\ session' = [session EXCEPT ![d] = sessions']
        /\ dev[d] = "connected"
    BY <1>3, <2>3, <2>4 DEF Ready, cpu1
  <2>6. sessions' \in Sessions
    BY <2>5
  <2>7. session' \in [Slots -> Sessions \cup {Zero}] /\ session'[d] \in Sessions
    BY <2>5, <2>6
  <2>8. \A e \in Slots : dev'[e] = "ready" => session'[e] \in Sessions
    BY <2>5
  <2>. QED
    BY <2>5, <2>6, <2>7, <2>8
<1>4. ASSUME NEW d \in Slots, ControllerData(d) PROVE SessionTypes' /\ RangeInv'
  BY <1>4 DEF ControllerData, cpu0, cpu1
<1>5. ASSUME NEW d \in Slots, Drop(d) PROVE SessionTypes' /\ RangeInv'
  <2>1. CASE dev[d] # "created" /\ ins[d] # Invalid
    <3>1. dev[d] = "ready"
      BY <1>5, <2>1 DEF Drop, BridgeInv, SlotInv, SeatsInv
    <3>. QED
      BY <1>5, <2>1, <3>1 DEF Drop, cpu1
  <2>2. CASE ~(dev[d] # "created" /\ ins[d] # Invalid)
    BY <1>5, <2>2 DEF Drop, cpu1
  <2>. QED
    BY <2>1, <2>2
<1>6. CASE Handler
  <2>1. CASE ReadyProps
    BY <2>1 DEF ReadyProps, cpu1
  <2>2. CASE ReadyDone
    BY <2>2 DEF ReadyDone, cpu1
  <2>3. CASE DropClear
    BY <2>3 DEF DropClear, cpu1
  <2>4. CASE DropDone
    BY <2>4 DEF DropDone, shared, cpu1
  <2>. QED
    BY <1>6, <2>1, <2>2, <2>3, <2>4 DEF Handler
<1>. QED
  BY <1>1, <1>2, <1>3, <1>4, <1>5, <1>6 DEF BluetoothTask

\* The sketch is told of controllers, each with its session.
LEMMA AnnounceTypes ==
    ASSUME CoreTypes, SessionTypes, PollTypes, RangeInv, i1 < N, Announce(i1)
    PROVE  mine' \in [Slots -> Slots \cup {Invalid}] /\ announced' \subseteq Sessions
<1>. DEFINE empty == {m \in Slots : mine[m] = Invalid}
<1>1. empty # {} => First(empty) \in Slots
  BY FirstIn
<1>2. i1 \in Slots
  BY DEF PollTypes, Slots
<1>3. mine' \in [Slots -> Slots \cup {Invalid}]
  BY <1>1, <1>2 DEF Announce, PollTypes
<1>4. About(i1) \subseteq Sessions
  BY DEF About, RangeInv
<1>. QED
  BY <1>3, <1>4 DEF Announce, PollTypes

\* CPU 1 writes what it has read.
LEMMA UpdateTypes ==
    ASSUME CoreTypes, SessionTypes, PollTypes, RangeInv, Update \/ UNCHANGED vars
    PROVE  SessionTypes' /\ PollTypes' /\ RangeInv'
<1>1. UNCHANGED <<dev, session, sessions, h0, d0, props, data>>
  BY DEF Update, PollIndex, PollTake, PollClear, PollEnd, Connected, ConnectedProps,
         Disconnected, Unchanged, ChangesEnd, Process, cpu0, shared, vars
<1>2. at \in {"take", "clear", "props"} \/ i1 # N => i1 \in Slots /\ i1 + 1 \in 0 .. N
  BY DEF PollTypes, RangeInv, Slots
<1>. USE DEF PollTypes
<1>3. PollTypes' /\ (at \in {"take", "clear", "props"} => i1 < N)'
  <2>1. CASE PollIndex
    BY <1>2, <2>1 DEF PollIndex, polled, told
  <2>2. CASE PollTake
    BY <1>2, <2>2 DEF PollTake, polled, told, RangeInv, SessionTypes
  <2>3. CASE PollClear
    BY <1>2, <2>3 DEF PollClear, polled, told
  <2>4. CASE PollEnd
    BY <2>4 DEF PollEnd, polled, told
  <2>5. CASE Connected
    <3>1. CASE idx[i1] = Invalid
      <4>1. mine' \in [Slots -> Slots \cup {Invalid}] /\ announced' \subseteq Sessions
        BY <2>5, <3>1, AnnounceTypes DEF Connected
      <4>2. /\ UNCHANGED <<at, appProps, mutex, mask, anyData, hasData, appData, prevMask>>
            /\ at = "changes" /\ i1' = i1 + 1 /\ i1 < N
            /\ connected' = [connected EXCEPT ![i1] = TRUE]
        BY <2>5, <3>1 DEF Connected, polled
      <4>. QED
        BY <1>2, <4>1, <4>2
    <3>2. CASE idx[i1] # Invalid
      BY <1>2, <2>5, <3>2 DEF Connected, polled
    <3>. QED
      BY <3>1, <3>2
  <2>6. CASE ConnectedProps
    <3>1. mine' \in [Slots -> Slots \cup {Invalid}] /\ announced' \subseteq Sessions
      BY <2>6, AnnounceTypes DEF ConnectedProps, RangeInv
    <3>. QED
      BY <1>2, <2>6, <3>1 DEF ConnectedProps, polled, SessionTypes
  <2>7. CASE Disconnected
    <3>. DEFINE entries == {m \in Slots : mine[m] = i1}
    <3>1. entries # {} => First(entries) \in Slots
      BY FirstIn
    <3>2. mine' \in [Slots -> Slots \cup {Invalid}]
      BY <2>7, <3>1 DEF Disconnected
    <3>. QED
      BY <1>2, <2>7, <3>2 DEF Disconnected, polled
  <2>8. CASE Unchanged
    BY <1>2, <2>8 DEF Unchanged, polled, told
  <2>9. CASE ChangesEnd
    BY <2>9 DEF ChangesEnd, polled
  <2>10. CASE Process
    BY <2>10 DEF Process, told
  <2>11. CASE UNCHANGED vars
    BY <2>11 DEF vars, cpu1, polled, told, RangeInv
  <2>. QED
    BY <2>1, <2>2, <2>3, <2>4, <2>5, <2>6, <2>7, <2>8, <2>9, <2>10, <2>11 DEF Update
<1>. QED
  BY <1>1, <1>3 DEF SessionTypes, RangeInv

\* The types of both CPUs' variables hold in every reachable state.
LEMMA TypesInductive ==
    Spec => [](CoreTypes /\ BridgeInv /\ SessionTypes /\ PollTypes /\ RangeInv)
<1>1. Init => SessionTypes /\ PollTypes /\ RangeInv
  <2>. SUFFICES ASSUME Init PROVE SessionTypes /\ PollTypes /\ RangeInv
    OBVIOUS
  <2>1. SessionTypes
    BY DEF Init, SessionTypes, Content, Zero
  <2>2. 0 \in 0 .. N /\ Zero \in Content
    BY DEF Content
  <2>3. PollTypes
    BY <2>2 DEF Init, PollTypes
  <2>4. RangeInv
    BY DEF Init, RangeInv
  <2>. QED
    BY <2>1, <2>3, <2>4
<1>2. CoreTypes /\ BridgeInv /\ SessionTypes /\ PollTypes /\ RangeInv /\ [Next]_vars
        => SessionTypes' /\ PollTypes' /\ RangeInv'
  <2>. SUFFICES ASSUME CoreTypes, BridgeInv, SessionTypes, PollTypes, RangeInv, [Next]_vars
                PROVE  SessionTypes' /\ PollTypes' /\ RangeInv'
    OBVIOUS
  <2>1. CASE BluetoothTask
    <3>1. UNCHANGED cpu1
      BY <2>1 DEF BluetoothTask, Create, Connect, Ready, ControllerData, Drop, Handler,
                  ReadyProps, ReadyDone, DropClear, DropDone
    <3>. QED
      BY <2>1, <3>1, BluetoothTypes DEF PollTypes, cpu1, polled, told
  <2>2. CASE Update \/ UNCHANGED vars
    BY <2>2, UpdateTypes
  <2>. QED
    BY <2>1, <2>2 DEF Next
<1>. QED
  BY <1>1, <1>2, Inductive, PTL DEF Spec

\* Every variable of both CPUs keeps its type, for any number of devices and
\* sessions: no counter leaves its range and no index leaves its array.
THEOREM TypesAlwaysRight == Spec => []TypeOK
BY TypesInductive, TypeParts, PTL

-----------------------------------------------------------------------------
(* The callbacks.                                                          *)

\* A controller that the sketch was not told of yet finds an empty entry: with
\* none, there would be as many others as slots.
LEMMA RoomForOne ==
    ASSUME PollTypes, EntriesInv, NEW i \in Slots, i \notin Told
    PROVE  \E m \in Slots : mine[m] = Invalid
<1>. SUFFICES ASSUME \A m \in Slots : mine[m] # Invalid PROVE FALSE
  OBVIOUS
<1>. DEFINE others == Slots \ {i}
<1>1. mine \in [Slots -> others]
  BY DEF PollTypes, EntriesInv
<1>2. mine \in Injection(Slots, others)
  BY <1>1 DEF Injection, IsInjective, EntriesInv
<1>3. IsFiniteSet(others) /\ Cardinality(others) = N - 1
  BY SlotsFinite, FS_RemoveElement
<1>4. Cardinality(Slots) <= Cardinality(others)
  BY <1>2, <1>3, SlotsFinite, FS_Injection
<1>. QED
  BY <1>3, <1>4, SlotsFinite

\* onConnectedController() gives it that entry, and keeps the others.
LEMMA AnnounceAdds ==
    ASSUME PollTypes, EntriesInv, i1 \in Slots, i1 \notin Told, Announce(i1)
    PROVE  /\ \A m \in Slots : mine'[m] # Invalid => mine'[m] \in Told \cup {i1}
           /\ \A i \in Told \cup {i1} : \E m \in Slots : mine'[m] = i
           /\ \A m, n \in Slots : mine'[m] = mine'[n] /\ mine'[m] # Invalid => m = n
<1>. DEFINE empty == {m \in Slots : mine[m] = Invalid}
            e == First(empty)
<1>1. empty # {}
  BY RoomForOne
<1>2. e \in empty
  BY <1>1, FirstIn
<1>3. mine' = [mine EXCEPT ![e] = i1]
  BY <1>1 DEF Announce
<1>. HIDE DEF e
<1>4. /\ e \in Slots /\ mine[e] = Invalid /\ mine'[e] = i1
      /\ \A m \in Slots : m # e => mine'[m] = mine[m]
  BY <1>2, <1>3 DEF PollTypes
<1>5. \A m \in Slots : mine[m] # i1
  BY SlotsFinite DEF EntriesInv
<1>6. \A i \in Told \cup {i1} : \E m \in Slots : mine'[m] = i
  <2>1. \A i \in Told : i \in Slots
    BY DEF Told, PollTypes
  <2>2. \A i \in Told : \E m \in Slots : m # e /\ mine[m] = i
    BY <1>4, <2>1, SlotsFinite DEF EntriesInv
  <2>. QED
    BY <1>4, <2>2
<1>. QED
  BY <1>4, <1>5, <1>6 DEF EntriesInv

\* onDisconnectedController() empties the entry of the controller and no other.
LEMMA DisconnectedRemoves ==
    ASSUME PollTypes, EntriesInv, Disconnected
    PROVE  /\ \A m \in Slots : mine'[m] # Invalid => mine'[m] \in Told \ {i1}
           /\ \A i \in Told \ {i1} : \E m \in Slots : mine'[m] = i
           /\ \A m, n \in Slots : mine'[m] = mine'[n] /\ mine'[m] # Invalid => m = n
<1>. DEFINE entries == {m \in Slots : mine[m] = i1}
            e == First(entries)
<1>1. i1 \in Told /\ i1 \in Slots
  BY DEF Disconnected, Told, PollTypes, Slots
<1>2. entries # {}
  BY <1>1 DEF EntriesInv
<1>3. e \in entries
  BY <1>2, FirstIn
<1>4. mine' = [mine EXCEPT ![e] = Invalid]
  BY <1>2 DEF Disconnected
<1>. HIDE DEF e
<1>5. /\ e \in Slots /\ mine[e] = i1 /\ mine'[e] = Invalid
      /\ \A m \in Slots : m # e => mine'[m] = mine[m]
  BY <1>3, <1>4 DEF PollTypes
<1>6. \A m \in Slots : m # e => mine[m] # i1
  BY <1>1, <1>5, SlotsFinite DEF EntriesInv
<1>7. \A i \in Told \ {i1} : \E m \in Slots : m # e /\ mine[m] = i
  BY <1>5 DEF EntriesInv
<1>. QED
  BY <1>5, <1>6, <1>7 DEF EntriesInv

\* The loop index passes a slot whose bit has not changed, or that was handled.
LEMMA ToldMoves ==
    ASSUME PollTypes, at \in {"changes", "props"}, i1 < N, at' = "changes", i1' = i1 + 1,
           UNCHANGED <<mask, prevMask>>
    PROVE  /\ i1 \in mask => Told' = Told \cup {i1}
           /\ i1 \notin mask => Told' = Told \ {i1}
<1>1. \A i \in Slots : i < i1 + 1 <=> i < i1 \/ i = i1
  BY DEF PollTypes, Slots
<1>2. i1 \in Slots /\ ~(i1 < i1)
  BY DEF PollTypes, Slots
<1>3. Told = {i \in Slots : IF i < i1 THEN i \in mask ELSE i \in prevMask}
  BY DEF Told
<1>4. Told' = {i \in Slots : IF i < i1 \/ i = i1 THEN i \in mask ELSE i \in prevMask}
  BY <1>1 DEF Told
<1>. QED
  BY <1>2, <1>3, <1>4

\* Every step of update() keeps myControllers in line with what it has gone
\* through, and no step of the other CPU reads or writes any of it.
LEMMA EntriesStep ==
    ASSUME PollTypes, RangeInv, EntriesInv, [Next]_vars
    PROVE  EntriesInv'
<1>1. CASE BluetoothTask \/ UNCHANGED vars
  <2>1. UNCHANGED cpu1
    BY <1>1 DEF BluetoothTask, Create, Connect, Ready, ControllerData, Drop, Handler,
                ReadyProps, ReadyDone, DropClear, DropDone, vars
  <2>. QED
    BY <2>1 DEF EntriesInv, Told, cpu1, polled, told
<1>2. CASE PollIndex \/ PollTake \/ PollClear \/ Process
  <2>1. /\ UNCHANGED <<prevMask, mine, connected>>
        /\ at \notin {"changes", "props"} /\ at' \notin {"changes", "props"}
    BY <1>2 DEF PollIndex, PollTake, PollClear, Process, told
  <2>. QED
    BY <2>1 DEF EntriesInv, Told
<1>3. CASE PollEnd
  <2>1. /\ UNCHANGED <<prevMask, mine, connected, mask>> /\ i1' = 0
        /\ at = "poll" /\ at' \in {"process", "changes"}
    BY <1>3 DEF PollEnd, told, polled
  <2>2. Told' = Told
    <3>1. \A i \in Slots : ~(i < 0)
      BY DEF Slots
    <3>2. {i \in Slots : i \in prevMask} = prevMask
      BY DEF PollTypes
    <3>. QED
      BY <2>1, <3>1, <3>2 DEF Told
  <2>. QED
    BY <2>1, <2>2 DEF EntriesInv
<1>4. CASE Connected
  <2>1. /\ at = "changes" /\ i1 < N /\ i1 \in mask \ prevMask /\ i1 \in Slots /\ ~(i1 < i1)
        /\ connected' = [connected EXCEPT ![i1] = TRUE]
        /\ UNCHANGED <<mask, prevMask>>
    BY <1>4 DEF Connected, polled, PollTypes
  <2>2. i1 \notin Told
    BY <2>1 DEF Told
  <2>3. \A i \in Slots : connected'[i] <=> i \in Told \cup {i1}
    BY <2>1 DEF EntriesInv, PollTypes
  <2>4. CASE idx[i1] = Invalid
    <3>1. at' = "changes" /\ i1' = i1 + 1 /\ Announce(i1)
      BY <1>4, <2>1, <2>4 DEF Connected
    <3>2. Told' = Told \cup {i1}
      BY <2>1, <3>1, ToldMoves
    <3>. QED
      BY <2>1, <2>2, <2>3, <3>1, <3>2, AnnounceAdds DEF EntriesInv
  <2>5. CASE idx[i1] # Invalid
    <3>1. at' = "props" /\ UNCHANGED <<i1, mine>>
      BY <1>4, <2>5 DEF Connected
    <3>2. Told' = Told
      BY <2>1, <3>1 DEF Told
    <3>. QED
      BY <2>1, <2>3, <3>1, <3>2 DEF EntriesInv
  <2>. QED
    BY <2>4, <2>5
<1>5. CASE ConnectedProps
  <2>1. /\ at = "props" /\ at' = "changes" /\ i1' = i1 + 1 /\ i1 < N /\ Announce(i1)
        /\ i1 \in mask \ prevMask /\ i1 \in Slots /\ ~(i1 < i1)
        /\ UNCHANGED <<connected, mask, prevMask>>
    BY <1>5 DEF ConnectedProps, polled, PollTypes, RangeInv, EntriesInv
  <2>2. i1 \notin Told
    BY <2>1 DEF Told
  <2>3. Told' = Told \cup {i1}
    BY <2>1, ToldMoves
  <2>4. \A i \in Slots : connected'[i] <=> i \in Told'
    BY <2>1, <2>3 DEF EntriesInv
  <2>. QED
    BY <2>1, <2>2, <2>3, <2>4, AnnounceAdds DEF EntriesInv
<1>6. CASE Disconnected
  <2>1. /\ at = "changes" /\ at' = "changes" /\ i1' = i1 + 1 /\ i1 < N /\ i1 \notin mask
        /\ connected' = [connected EXCEPT ![i1] = FALSE] /\ i1 \in Slots
        /\ UNCHANGED <<mask, prevMask>>
    BY <1>6 DEF Disconnected, polled, PollTypes
  <2>2. Told' = Told \ {i1}
    BY <2>1, ToldMoves
  <2>3. \A i \in Slots : connected'[i] <=> i \in Told'
    BY <2>1, <2>2 DEF EntriesInv, PollTypes
  <2>. QED
    BY <1>6, <2>1, <2>2, <2>3, DisconnectedRemoves DEF EntriesInv
<1>7. CASE Unchanged
  <2>1. /\ at = "changes" /\ at' = "changes" /\ i1' = i1 + 1 /\ i1 < N /\ i1 \in Slots
        /\ i1 \in mask <=> i1 \in prevMask /\ ~(i1 < i1)
        /\ UNCHANGED <<mask, prevMask, mine, connected>>
    BY <1>7 DEF Unchanged, polled, told, PollTypes, Slots
  <2>2. i1 \in Told <=> i1 \in mask
    BY <2>1 DEF Told
  <2>3. Told' = Told
    BY <2>1, <2>2, ToldMoves
  <2>. QED
    BY <2>1, <2>3 DEF EntriesInv
<1>8. CASE ChangesEnd
  <2>1. /\ at = "changes" /\ at' = "process" /\ i1 = N /\ prevMask' = mask
        /\ UNCHANGED <<mask, mine, connected>>
    BY <1>8 DEF ChangesEnd, polled
  <2>2. \A i \in Slots : i < N
    BY DEF Slots
  <2>3. Told' = mask /\ Told = mask
    BY <2>1, <2>2 DEF Told, PollTypes
  <2>. QED
    BY <2>1, <2>3 DEF EntriesInv
<1>. QED
  BY <1>1, <1>2, <1>3, <1>4, <1>5, <1>6, <1>7, <1>8 DEF Next, Update

\* Whenever the sketch looks at myControllers, each connected controller is there
\* once and nothing else is, whatever the other CPU did to the slots meanwhile.
THEOREM EachHasOneEntry == Spec => []OneEntryEach
<1>1. Init => EntriesInv
  BY DEF Init, EntriesInv, Told
<1>2. PollTypes /\ RangeInv /\ EntriesInv /\ [Next]_vars => EntriesInv'
  BY EntriesStep
<1>3. PollTypes /\ EntriesInv => OneEntryEach
  <2>. SUFFICES ASSUME PollTypes, EntriesInv, at \in {"poll", "take", "clear", "process"}
                PROVE  /\ {i \in Slots : connected[i]} = prevMask
                       /\ prevMask = {mine[m] : m \in Slots} \ {Invalid}
                       /\ \A m, n \in Slots : mine[m] = mine[n] /\ mine[m] # Invalid => m = n
    BY DEF OneEntryEach
  <2>1. Told = prevMask /\ prevMask \subseteq Slots
    BY DEF Told, PollTypes
  <2>2. \A i \in prevMask : i # Invalid
    BY <2>1, SlotsFinite
  <2>. QED
    BY <2>1, <2>2 DEF EntriesInv
<1>. QED
  BY <1>1, <1>2, <1>3, TypesInductive, PTL DEF Spec
=============================================================================
