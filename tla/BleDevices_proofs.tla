--------------------------- MODULE BleDevices_proofs ---------------------------
(***************************************************************************)
(* Proofs about BleDevices: the table of BLE devices is right, and the     *)
(* scan is paused only while a device is being connected, for every number *)
(* of places, devices and handles.                                         *)
(*                                                                         *)
(* A handler maps a record g of the whole state to another one, so the     *)
(* invariant is stated of such a record, there is a lemma for each of the  *)
(* functions, and the invariant of the state is that of g0.                *)
(***************************************************************************)
EXTENDS BleDevices, FiniteSetTheorems, TLAPS

-----------------------------------------------------------------------------
(* The invariant.                                                          *)

Stack ==
  [scan : BOOLEAN, page : Addrs \cup {None},
   link : [Addrs -> Handles \cup {NoHandle}], leaving : SUBSET Addrs,
   sm : [Addrs -> {None, "encrypt", "pair"}], info : Addrs \cup {None},
   hids : [Addrs -> {None, "asked", "up"}]]

State ==
  [dev : [Idx -> Device], used : 0 .. N, is_scanning : BOOLEAN, wanted : BOOLEAN, bt : Stack]

Seats(g) == {i \in Idx : g.dev[i].seat = "seat"}

\* A free place is cleared, and a seat is given to a connected device only.
\* When a seat is taken from a device unseen, it is still counted.
TableInv(g) ==
  /\ \A i \in Idx :
       /\ g.dev[i].addr = None => g.dev[i] = Empty
       /\ g.dev[i].addr # None => g.dev[i].state # "NONE"
       /\ g.dev[i].connected <=> g.dev[i].seat # "zero"
  /\ \A i, j \in Idx : g.dev[i].addr = g.dev[j].addr /\ g.dev[i].addr # None => i = j
  /\ Cardinality(Seats(g)) <= g.used

\* Links have their own handles, and the place of a device has that of its link.
LinkInv(g) ==
  /\ \A a, b \in Addrs : Linked(g.bt, a) /\ g.bt.link[a] = g.bt.link[b] => a = b
  /\ \A i \in Idx : g.dev[i].addr # None =>
       IF Linked(g.bt, g.dev[i].addr) THEN g.dev[i].handle = g.bt.link[g.dev[i].addr]
       ELSE g.dev[i].handle \in {0, NoHandle}

\* What btstack does about a link, one thing after the other.
StageInv(g) ==
  /\ g.bt.page # None => ~Linked(g.bt, g.bt.page)
  /\ g.bt.info # None => Linked(g.bt, g.bt.info) /\ g.bt.hids[g.bt.info] = None
  /\ \A a \in Addrs :
       /\ g.bt.sm[a] # None => Linked(g.bt, a) /\ g.bt.info # a /\ g.bt.hids[a] = None
       /\ g.bt.hids[a] # None => Linked(g.bt, a)

Tidy(g) == g \in State /\ TableInv(g) /\ LinkInv(g) /\ StageInv(g)

\* The HID client of a place serves the link of its device.
ClientAt(g, i) ==
  g.dev[i].cid # None => g.dev[i].cid = g.dev[i].addr /\ Linked(g.bt, g.dev[i].addr)

\* A device that gets ready has a client, and nothing else is done about its link.
ReadyAt(g, i) ==
  /\ g.dev[i].setup => g.dev[i].state \in {"PENDING_READY", "READY"}
  /\ g.dev[i].state \in {"PENDING_READY", "READY"} =>
       /\ g.dev[i].cid # None
       /\ g.bt.sm[g.dev[i].addr] = None /\ g.bt.info # g.dev[i].addr
       /\ \/ g.bt.hids[g.dev[i].addr] = "up"
          \/ g.bt.hids[g.dev[i].addr] = None /\ g.dev[i].addr \in g.bt.leaving

\* Seats are given when a device is ready, and till then its timer runs.
SeatInv(g) ==
  /\ g.used = Cardinality(Seats(g))
  /\ \A i \in Idx : g.dev[i].addr # None =>
       /\ g.dev[i].seat = "seat" <=> g.dev[i].state = "READY"
       /\ g.dev[i].connTimer \/ g.dev[i].state = "READY"

\* This device is being connected, and when that ends the scan is resumed.
Resumes(g, i) ==
  /\ g.dev[i].addr # None /\ g.dev[i].state = "DISCOVERED"
  /\ g.bt.page = g.dev[i].addr \/ Linked(g.bt, g.dev[i].addr)

Paused(g) == g.is_scanning /\ ~g.bt.scan

Served(g) == (\A i \in Idx : ClientAt(g, i) /\ ReadyAt(g, i)) /\ SeatInv(g)

\* The pause has an end, or the connection is one that nobody waits for.
PauseOK(g) == Paused(g) => Forgotten(g) \/ \E i \in Idx : Resumes(g, i)

\* A step that disturbs nothing.
Keeps(g, r) ==
  /\ Tidy(r)
  /\ ~Ambiguous(g) => ~Ambiguous(r)
  /\ Served(g) => Served(r)
  /\ PauseOK(g) => PauseOK(r)

\* The inductive invariant.
TableOK == Tidy(g0)

ServedInv == mixed \/ (Served(g0) /\ ~Ambiguous(g0))

PauseInv == Paused(g0) => mixed \/ abandoned \/ \E i \in Idx : Resumes(g0, i)

ForgottenInv == Forgotten(g0) /\ ~bt.scan => abandoned

BleDevicesInv == TableOK /\ ServedInv /\ PauseInv /\ ForgottenInv

-----------------------------------------------------------------------------
(* Lemmas about places.                                                    *)

\* The first of some places is one of them.
LEMMA MinIsFirst ==
  ASSUME NEW S \in SUBSET Idx, S # {}
  PROVE  Min(S) \in S /\ Min(S) \in Idx
<1>1. S \subseteq Nat
  BY DEF Idx
<1>2. \E x \in S : \A y \in S : <<y, x>> \notin OpToRel(<, Nat)
  BY <1>1, WFMin, NatLessThanWellFounded
<1>3. ASSUME NEW x \in S, NEW y \in S, <<y, x>> \notin OpToRel(<, Nat)
      PROVE  x <= y
  <2>1. ~(y < x)
    BY <1>1, <1>3 DEF OpToRel
  <2> QED
    BY <1>1, <2>1
<1>4. \E x \in S : \A y \in S : x <= y
  BY <1>2, <1>3
<1>5. Min(S) \in S
  BY <1>4 DEF Min
<1> QED
  BY <1>5

\* The place that is found by a handle has that handle.
LEMMA ByHandleFits ==
  ASSUME NEW g, NEW h
  PROVE  /\ ByHandle(g, h) \subseteq {i \in Idx : g.dev[i].handle = h /\ h # NoHandle}
         /\ ByHandle(g, h) = {} <=> \A i \in Idx : ~(g.dev[i].handle = h /\ h # NoHandle)
         /\ ByHandle(g, h) # {} =>
              /\ Min(ByHandle(g, h)) \in Idx /\ h # NoHandle
              /\ g.dev[Min(ByHandle(g, h))].handle = h
<1> DEFINE S == {i \in Idx : g.dev[i].handle = h /\ h # NoHandle}
<1>1. CASE S = {}
  BY <1>1 DEF ByHandle, First
<1>2. CASE S # {}
  <2>1. ByHandle(g, h) = {Min(S)}
    BY <1>2 DEF ByHandle, First
  <2>2. Min(S) \in S
    BY <1>2, MinIsFirst
  <2>3. Min({Min(S)}) = Min(S)
    BY <2>2, MinIsFirst
  <2> QED
    BY <2>1, <2>2, <2>3
<1> QED
  BY <1>1, <1>2

\* So has the place that is found by the identifier of a client.
LEMMA ByCidFits ==
  ASSUME NEW g, NEW a
  PROVE  ByCid(g, a) # {} => Min(ByCid(g, a)) \in Idx /\ g.dev[Min(ByCid(g, a))].cid = a
<1> DEFINE S == {i \in Idx : g.dev[i].cid = a}
<1>1. CASE S = {}
  BY <1>1 DEF ByCid, First
<1>2. CASE S # {}
  <2>1. ByCid(g, a) = {Min(S)}
    BY <1>2 DEF ByCid, First
  <2>2. Min(S) \in S
    BY <1>2, MinIsFirst
  <2>3. Min({Min(S)}) = Min(S)
    BY <2>2, MinIsFirst
  <2> QED
    BY <2>1, <2>2, <2>3
<1> QED
  BY <1>1, <1>2

\* A cleared place is a place, and NoHandle is not the handle of a link.
LEMMA EmptyIsDevice ==
  /\ Empty \in Device /\ NoHandle \notin Handles /\ NoHandle # 0
  /\ Empty.addr = None /\ Empty.handle = NoHandle /\ Empty.seat = "zero" /\ Empty.cid = None
  /\ Empty.state = "NONE" /\ ~Empty.connected /\ ~Empty.setup /\ ~Empty.connTimer
BY HandlesAssumption DEF Empty, Device, States, NoHandle, None

\* The seats are as many as there are places at most.
LEMMA SeatsFinite ==
  ASSUME NEW g
  PROVE  /\ IsFiniteSet(Seats(g)) /\ Cardinality(Seats(g)) \in Nat
         /\ Cardinality(Seats(g)) <= N
<1>1. IsFiniteSet(Idx) /\ Cardinality(Idx) = N
  BY NAssumption, FS_Interval DEF Idx
<1>2. Seats(g) \in SUBSET Idx
  BY DEF Seats
<1> QED
  BY <1>1, <1>2, FS_Subset, FS_CardinalityType

\* What becomes of the seats when one place changes.
LEMMA SeatsChange ==
  ASSUME NEW g, NEW h, NEW i \in Idx,
         \A j \in Idx : j # i => h.dev[j].seat = g.dev[j].seat
  PROVE  Cardinality(Seats(h)) =
           IF g.dev[i].seat = "seat" /\ h.dev[i].seat # "seat" THEN Cardinality(Seats(g)) - 1
           ELSE IF g.dev[i].seat # "seat" /\ h.dev[i].seat = "seat"
             THEN Cardinality(Seats(g)) + 1
           ELSE Cardinality(Seats(g))
<1>1. IsFiniteSet(Seats(g))
  BY SeatsFinite
<1>2. CASE g.dev[i].seat = "seat" /\ h.dev[i].seat # "seat"
  <2>1. Seats(h) = Seats(g) \ {i} /\ i \in Seats(g)
    BY <1>2 DEF Seats
  <2> QED
    BY <1>1, <1>2, <2>1, FS_RemoveElement
<1>3. CASE g.dev[i].seat # "seat" /\ h.dev[i].seat = "seat"
  <2>1. Seats(h) = Seats(g) \cup {i} /\ i \notin Seats(g)
    BY <1>3 DEF Seats
  <2> QED
    BY <1>1, <1>3, <2>1, FS_AddElement
<1>4. CASE (g.dev[i].seat = "seat") = (h.dev[i].seat = "seat")
  <2>1. Seats(h) = Seats(g)
    BY <1>4 DEF Seats
  <2> QED
    BY <1>4, <2>1
<1> QED
  BY <1>2, <1>3, <1>4

-----------------------------------------------------------------------------
(* Lemmas about the functions: what they return.                           *)

\* The fields of a state.
LEMMA StateFields ==
  ASSUME NEW g \in State
  PROVE  /\ g = [dev |-> g.dev, used |-> g.used, is_scanning |-> g.is_scanning,
                 wanted |-> g.wanted, bt |-> g.bt]
         /\ g.dev \in [Idx -> Device] /\ g.used \in 0 .. N
         /\ g.is_scanning \in BOOLEAN /\ g.wanted \in BOOLEAN /\ g.bt \in Stack
         /\ g.bt.link \in [Addrs -> Handles \cup {NoHandle}]
         /\ g.bt.hids \in [Addrs -> {None, "asked", "up"}]
         /\ g.bt.sm \in [Addrs -> {None, "encrypt", "pair"}]
         /\ g.bt.leaving \subseteq Addrs /\ g.bt.scan \in BOOLEAN
         /\ g.bt.page \in Addrs \cup {None} /\ g.bt.info \in Addrs \cup {None}
BY DEF State, Stack

\* resume_scanning_hint()
LEMMA ResumeIs ==
  ASSUME NEW g \in State
  PROVE  /\ Resume(g) \in State
         /\ Resume(g).dev = g.dev /\ Resume(g).used = g.used
         /\ Resume(g).is_scanning = g.is_scanning
         /\ Resume(g).bt.link = g.bt.link /\ Resume(g).bt.page = g.bt.page
         /\ Resume(g).bt.sm = g.bt.sm /\ Resume(g).bt.info = g.bt.info
         /\ Resume(g).bt.leaving = g.bt.leaving /\ Resume(g).bt.hids = g.bt.hids
         /\ ~Paused(Resume(g))
<1>1. CASE g.is_scanning
  <2>1. Resume(g) = [g EXCEPT !.bt.scan = TRUE]
    BY <1>1 DEF Resume
  <2>2. Resume(g) \in State
    BY <2>1 DEF State, Stack
  <2> QED
    BY <2>1, <2>2 DEF Paused, State, Stack
<1>2. CASE ~g.is_scanning
  BY <1>2, StateFields DEF Resume, Paused, Stack
<1> QED
  BY <1>1, <1>2, StateFields

\* hog_disconnect()
LEMMA HogDisconnectIs ==
  ASSUME NEW g \in State, NEW h
  PROVE  /\ HogDisconnect(g, h) \in State
         /\ HogDisconnect(g, h).dev = g.dev /\ HogDisconnect(g, h).used = g.used
         /\ HogDisconnect(g, h).is_scanning = g.is_scanning
         /\ HogDisconnect(g, h).bt.link = g.bt.link /\ HogDisconnect(g, h).bt.page = g.bt.page
         /\ HogDisconnect(g, h).bt.sm = g.bt.sm /\ HogDisconnect(g, h).bt.info = g.bt.info
         /\ HogDisconnect(g, h).bt.leaving = g.bt.leaving \cup Owners(g.bt, h)
         /\ \A a \in Addrs : HogDisconnect(g, h).bt.hids[a] =
              IF \E i \in ByHandle(g, h) : g.dev[i].cid = a THEN None ELSE g.bt.hids[a]
         /\ ~Paused(HogDisconnect(g, h))
<1> DEFINE cids == {g.dev[i].cid : i \in ByHandle(g, h)}
           hids == [a \in Addrs |-> IF a \in cids THEN None ELSE g.bt.hids[a]]
           r == [g EXCEPT !.bt.hids = hids, !.bt.leaving = g.bt.leaving \cup Owners(g.bt, h)]
<1>1. HogDisconnect(g, h) = Resume(r)
  BY StateFields DEF HogDisconnect
<1>2. hids \in [Addrs -> {None, "asked", "up"}]
  BY StateFields
<1>3. \A a \in Addrs : hids[a] =
              IF \E i \in ByHandle(g, h) : g.dev[i].cid = a THEN None ELSE g.bt.hids[a]
  OBVIOUS
<1>4. Owners(g.bt, h) \subseteq Addrs
  BY DEF Owners
<1> HIDE DEF hids
<1>5. /\ r \in State
      /\ r.dev = g.dev /\ r.used = g.used /\ r.is_scanning = g.is_scanning
      /\ r.bt.link = g.bt.link /\ r.bt.page = g.bt.page /\ r.bt.sm = g.bt.sm
      /\ r.bt.info = g.bt.info /\ r.bt.leaving = g.bt.leaving \cup Owners(g.bt, h)
      /\ r.bt.hids = hids
  BY <1>2, <1>4, StateFields DEF State, Stack
<1> HIDE DEF r
<1>6. /\ Resume(r) \in State /\ ~Paused(Resume(r))
      /\ Resume(r).dev = r.dev /\ Resume(r).used = r.used
      /\ Resume(r).is_scanning = r.is_scanning
      /\ Resume(r).bt.link = r.bt.link /\ Resume(r).bt.page = r.bt.page
      /\ Resume(r).bt.sm = r.bt.sm /\ Resume(r).bt.info = r.bt.info
      /\ Resume(r).bt.leaving = r.bt.leaving /\ Resume(r).bt.hids = r.bt.hids
  BY <1>5, ResumeIs
<1> QED
  BY <1>1, <1>3, <1>5, <1>6

\* uni_hid_device_disconnect() and what comes with it.  A link whose place is
\* cleared is taken down.
LEMMA DeleteIs ==
  ASSUME NEW g \in State, TableInv(g), NEW i \in Idx
  PROVE  /\ Delete(g, i) \in State
         /\ Delete(g, i).dev = [g.dev EXCEPT ![i] = Empty]
         /\ Delete(g, i).used = IF g.dev[i].seat = "seat" THEN g.used - 1 ELSE g.used
         /\ Delete(g, i).is_scanning = g.is_scanning
         /\ Delete(g, i).bt.link = g.bt.link /\ Delete(g, i).bt.page = g.bt.page
         /\ Delete(g, i).bt.sm = g.bt.sm /\ Delete(g, i).bt.info = g.bt.info
         /\ Delete(g, i).bt.leaving = g.bt.leaving \cup Owners(g.bt, g.dev[i].handle)
         /\ IF Owners(g.bt, g.dev[i].handle) = {} THEN Delete(g, i).bt = g.bt
            ELSE /\ ~Paused(Delete(g, i))
                 /\ \A a \in Addrs : Delete(g, i).bt.hids[a] =
                      IF \E j \in ByHandle(g, g.dev[i].handle) : g.dev[j].cid = a
                        THEN None ELSE g.bt.hids[a]
<1>1. PICK h : h = IF Owners(g.bt, g.dev[i].handle) = {} THEN g
                   ELSE HogDisconnect(g, g.dev[i].handle)
  OBVIOUS
<1>2. /\ h \in State /\ h.dev = g.dev /\ h.used = g.used /\ h.is_scanning = g.is_scanning
      /\ h.bt.link = g.bt.link /\ h.bt.page = g.bt.page /\ h.bt.sm = g.bt.sm
      /\ h.bt.info = g.bt.info
      /\ h.bt.leaving = g.bt.leaving \cup Owners(g.bt, g.dev[i].handle)
      /\ IF Owners(g.bt, g.dev[i].handle) = {} THEN h.bt = g.bt
            ELSE /\ ~Paused(h)
                 /\ \A a \in Addrs : h.bt.hids[a] =
                      IF \E j \in ByHandle(g, g.dev[i].handle) : g.dev[j].cid = a
                        THEN None ELSE g.bt.hids[a]
  <2>1. CASE Owners(g.bt, g.dev[i].handle) = {}
    BY <1>1, <2>1
  <2>2. CASE Owners(g.bt, g.dev[i].handle) # {}
    BY <1>1, <2>2, HogDisconnectIs
  <2> QED
    BY <2>1, <2>2
<1>3. (g.dev[i].connected /\ g.dev[i].seat # None) = (g.dev[i].seat = "seat")
  BY StateFields DEF TableInv, Device, None
<1>4. g.dev[i].seat = "seat" => g.used - 1 \in 0 .. N
  <2>1. SUFFICES ASSUME g.dev[i].seat = "seat" PROVE g.used - 1 \in 0 .. N
    OBVIOUS
  <2>2. i \in Seats(g)
    BY <2>1 DEF Seats
  <2>3. Seats(g) # {} /\ Cardinality(Seats(g)) <= g.used
    BY <2>2 DEF TableInv
  <2>4. Cardinality(Seats(g)) # 0
    BY <2>3, SeatsFinite, FS_EmptySet
  <2> QED
    BY <2>3, <2>4, SeatsFinite, StateFields, NAssumption
<1>5. PICK u \in 0 .. N : u = IF g.dev[i].seat = "seat" THEN g.used - 1 ELSE g.used
  BY <1>4, StateFields
<1>6. Delete(g, i) = [h EXCEPT !.dev[i] = Empty, !.used = u]
  BY <1>1, <1>2, <1>3, <1>5 DEF Delete
<1>7. /\ [h EXCEPT !.dev[i] = Empty, !.used = u] \in State
      /\ [h EXCEPT !.dev[i] = Empty, !.used = u].dev = [g.dev EXCEPT ![i] = Empty]
      /\ [h EXCEPT !.dev[i] = Empty, !.used = u].used = u
      /\ [h EXCEPT !.dev[i] = Empty, !.used = u].is_scanning = h.is_scanning
      /\ [h EXCEPT !.dev[i] = Empty, !.used = u].bt = h.bt
  BY <1>2, <1>5, EmptyIsDevice DEF State
<1> QED
  BY <1>2, <1>5, <1>6, <1>7 DEF Paused

-----------------------------------------------------------------------------
(* Lemmas about the functions: what they keep.                             *)

\* A state stays tidy when places are cleared, or change what does not say whose
\* they are.
LEMMA TidyStep ==
  ASSUME NEW g, Tidy(g), NEW r \in State,
         \A j \in Idx : \/ r.dev[j] = Empty \/ r.dev[j] = g.dev[j]
                        \/ /\ g.dev[j].addr # None /\ r.dev[j].state # "NONE"
                           /\ r.dev[j].addr = g.dev[j].addr /\ r.dev[j].handle = g.dev[j].handle
                           /\ r.dev[j].connected <=> r.dev[j].seat # "zero",
         r.bt.link = g.bt.link, StageInv(r), Cardinality(Seats(r)) <= r.used
  PROVE  Tidy(r) /\ (~Ambiguous(g) => ~Ambiguous(r))
<1>1. TableInv(r)
  <2>1. ASSUME NEW j \in Idx
        PROVE  /\ r.dev[j].addr = None => r.dev[j] = Empty
               /\ r.dev[j].addr # None => r.dev[j].state # "NONE"
               /\ r.dev[j].connected <=> r.dev[j].seat # "zero"
               /\ r.dev[j].addr # None => r.dev[j].addr = g.dev[j].addr
    <3>1. CASE r.dev[j] = Empty
      BY <3>1, EmptyIsDevice
    <3>2. CASE r.dev[j] = g.dev[j]
      BY <3>2 DEF Tidy, TableInv
    <3>3. CASE r.dev[j] # Empty /\ r.dev[j] # g.dev[j]
      BY <3>3
    <3> QED
      BY <3>1, <3>2, <3>3
  <2>2. \A i, j \in Idx : r.dev[i].addr = r.dev[j].addr /\ r.dev[i].addr # None => i = j
    BY <2>1 DEF Tidy, TableInv
  <2> QED
    BY <2>1, <2>2 DEF TableInv
<1>2. \A a \in Addrs : Linked(r.bt, a) <=> Linked(g.bt, a)
  BY DEF Linked
<1>3. LinkInv(r)
  <2>1. \A a, b \in Addrs : Linked(r.bt, a) /\ r.bt.link[a] = r.bt.link[b] => a = b
    BY <1>2 DEF Tidy, LinkInv
  <2>2. ASSUME NEW j \in Idx, r.dev[j].addr # None
        PROVE  IF Linked(r.bt, r.dev[j].addr) THEN r.dev[j].handle = r.bt.link[r.dev[j].addr]
               ELSE r.dev[j].handle \in {0, NoHandle}
    <3>1. g.dev[j].addr = r.dev[j].addr /\ g.dev[j].handle = r.dev[j].handle
      BY <2>2, EmptyIsDevice
    <3> QED
      BY <2>2, <3>1 DEF Tidy, LinkInv, Linked
  <2> QED
    BY <2>1, <2>2 DEF LinkInv
<1>4. ASSUME Ambiguous(r)
      PROVE  Ambiguous(g)
  <2>1. PICK i \in Idx, a \in Addrs :
          r.bt.link[a] # NoHandle /\ r.dev[i].handle = r.bt.link[a] /\ r.dev[i].addr # a
    BY <1>4 DEF Ambiguous
  <2>2. r.dev[i] # Empty
    BY <2>1, EmptyIsDevice
  <2>3. g.dev[i].addr = r.dev[i].addr /\ g.dev[i].handle = r.dev[i].handle
    BY <2>2
  <2> QED
    BY <2>1, <2>3 DEF Ambiguous
<1> QED
  BY <1>1, <1>3, <1>4 DEF Tidy

\* What btstack does about the links is as before, or less.
LEMMA StageLess ==
  ASSUME NEW g, StageInv(g), NEW r,
         r.bt.link = g.bt.link, r.bt.page \in {None, g.bt.page},
         r.bt.info \in {None, g.bt.info},
         \A a \in Addrs : r.bt.sm[a] \in {None, g.bt.sm[a]} /\ r.bt.hids[a] \in {None, g.bt.hids[a]},
         g.bt.info \in Addrs \cup {None}
  PROVE  StageInv(r)
<1>1. \A a : Linked(r.bt, a) <=> Linked(g.bt, a)
  BY DEF Linked
<1>2. r.bt.page # None => ~Linked(r.bt, r.bt.page)
  BY <1>1 DEF StageInv
<1>3. r.bt.info # None => Linked(r.bt, r.bt.info) /\ r.bt.hids[r.bt.info] = None
  BY <1>1 DEF StageInv
<1>4. ASSUME NEW a \in Addrs
      PROVE  /\ r.bt.sm[a] # None => Linked(r.bt, a) /\ r.bt.info # a /\ r.bt.hids[a] = None
             /\ r.bt.hids[a] # None => Linked(r.bt, a)
  BY <1>1, NoneAssumption DEF StageInv
<1> QED
  BY <1>2, <1>3, <1>4 DEF StageInv

\* hog_disconnect(): clients go only with their links.
LEMMA HogDisconnectKeeps ==
  ASSUME NEW g, Tidy(g), NEW h
  PROVE  /\ Tidy(HogDisconnect(g, h))
         /\ ~Ambiguous(g) => ~Ambiguous(HogDisconnect(g, h))
         /\ Served(g) => Served(HogDisconnect(g, h))
<1>1. PICK r \in State : r = HogDisconnect(g, h)
  BY HogDisconnectIs DEF Tidy
<1>2. /\ r.dev = g.dev /\ r.used = g.used /\ r.bt.link = g.bt.link /\ r.bt.page = g.bt.page
      /\ r.bt.sm = g.bt.sm /\ r.bt.info = g.bt.info
      /\ r.bt.leaving = g.bt.leaving \cup Owners(g.bt, h)
      /\ \A a \in Addrs : r.bt.hids[a] =
              IF \E i \in ByHandle(g, h) : g.dev[i].cid = a THEN None ELSE g.bt.hids[a]
  BY <1>1, HogDisconnectIs DEF Tidy
<1>3. Seats(r) = Seats(g)
  BY <1>2 DEF Seats
<1>4. StageInv(r)
  BY <1>2, StageLess, StateFields DEF Tidy
<1>5. Tidy(r) /\ (~Ambiguous(g) => ~Ambiguous(r))
  BY <1>2, <1>3, <1>4, TidyStep DEF Tidy, TableInv
<1>6. ASSUME Served(g)
      PROVE  Served(r)
  <2>1. SeatInv(r)
    BY <1>2, <1>3, <1>6 DEF Served, SeatInv
  <2>2. ASSUME NEW i \in Idx
        PROVE  ClientAt(r, i)
    BY <1>2, <1>6 DEF Served, ClientAt, Linked
  <2>3. ASSUME NEW i \in ByHandle(g, h), NEW a \in Addrs, g.dev[i].cid = a
        PROVE  a \in Owners(g.bt, h)
    <3>1. i \in Idx /\ g.dev[i].handle = h /\ h # NoHandle
      BY ByHandleFits, <2>3
    <3>2. g.dev[i].addr = a /\ Linked(g.bt, a) /\ a # None
      BY <1>6, <2>3, <3>1, NoneAssumption DEF Served, ClientAt
    <3> QED
      BY <3>1, <3>2 DEF Tidy, LinkInv, Owners
  <2>4. ASSUME NEW i \in Idx
        PROVE  ReadyAt(r, i)
    <3>1. SUFFICES ASSUME r.dev[i].state \in {"PENDING_READY", "READY"}
                   PROVE  /\ r.dev[i].cid # None
                          /\ r.bt.sm[r.dev[i].addr] = None /\ r.bt.info # r.dev[i].addr
                          /\ \/ r.bt.hids[r.dev[i].addr] = "up"
                             \/ r.bt.hids[r.dev[i].addr] = None /\ r.dev[i].addr \in r.bt.leaving
      BY <1>2, <1>6 DEF ReadyAt, Served
    <3>2. ReadyAt(g, i) /\ ClientAt(g, i)
      BY <1>6 DEF Served
    <3>3. g.dev[i].cid \in Addrs \cup {None}
      BY StateFields DEF Tidy, Device
    <3>4. PICK a \in Addrs : a = g.dev[i].addr
      BY <1>2, <3>1, <3>2, <3>3 DEF ReadyAt, ClientAt
    <3>5. /\ g.dev[i].cid # None
          /\ g.bt.sm[a] = None /\ g.bt.info # a
          /\ \/ g.bt.hids[a] = "up"
             \/ g.bt.hids[a] = None /\ a \in g.bt.leaving
      BY <1>2, <3>1, <3>2, <3>4 DEF ReadyAt
    <3>6. r.bt.hids[a] = g.bt.hids[a] \/ (r.bt.hids[a] = None /\ a \in r.bt.leaving)
      BY <1>2, <2>3
    <3> QED
      BY <1>2, <3>4, <3>5, <3>6
  <2> QED
    BY <2>1, <2>2, <2>4 DEF Served
<1> QED
  BY <1>1, <1>5, <1>6

\* A device is ready as before when its client is untouched or its link leaves.
LEMMA ReadyKept ==
  ASSUME NEW g \in State, NEW r, NEW j \in Idx, ClientAt(g, j), ReadyAt(g, j),
         r.dev[j] = g.dev[j], r.bt.link = g.bt.link,
         g.bt.leaving \subseteq r.bt.leaving,
         r.bt.sm[g.dev[j].addr] \in {None, g.bt.sm[g.dev[j].addr]},
         r.bt.info \in {None, g.bt.info},
         g.dev[j].addr \in Addrs =>
           \/ r.bt.hids[g.dev[j].addr] = g.bt.hids[g.dev[j].addr]
           \/ r.bt.hids[g.dev[j].addr] = None /\ g.dev[j].addr \in r.bt.leaving
  PROVE  ClientAt(r, j) /\ ReadyAt(r, j)
<1>1. ClientAt(r, j)
  BY DEF ClientAt, Linked
<1>2. CASE r.dev[j].state \notin {"PENDING_READY", "READY"}
  BY <1>1, <1>2 DEF ReadyAt
<1>3. CASE r.dev[j].state \in {"PENDING_READY", "READY"}
  <2>1. g.dev[j].cid \in Addrs \cup {None}
    BY StateFields DEF Device
  <2>2. PICK a \in Addrs : a = g.dev[j].addr
    BY <1>3, <2>1 DEF ReadyAt, ClientAt
  <2>3. /\ g.dev[j].cid # None
        /\ g.bt.sm[a] = None /\ g.bt.info # a
        /\ \/ g.bt.hids[a] = "up"
           \/ g.bt.hids[a] = None /\ a \in g.bt.leaving
    BY <1>3, <2>2 DEF ReadyAt
  <2>4. a # None
    BY NoneAssumption
  <2> QED
    BY <1>1, <1>3, <2>2, <2>3, <2>4 DEF ReadyAt
<1> QED
  BY <1>1, <1>2, <1>3

\* A device is deleted, also one that its link has already left.
LEMMA DeleteKeeps ==
  ASSUME NEW g, Tidy(g), NEW i \in Idx
  PROVE  /\ Tidy(Delete(g, i))
         /\ ~Ambiguous(g) => ~Ambiguous(Delete(g, i))
         /\ /\ \A j \in Idx : ClientAt(g, j) /\ (j # i => ReadyAt(g, j))
            /\ SeatInv(g)
            => Served(Delete(g, i))
         /\ PauseOK(g) => PauseOK(Delete(g, i))
<1> DEFINE h == g.dev[i].handle
<1>0. g \in State /\ TableInv(g)
  BY DEF Tidy
<1>1. PICK r \in State : r = Delete(g, i)
  BY <1>0, DeleteIs
<1>2. /\ r.dev = [g.dev EXCEPT ![i] = Empty]
      /\ r.used = IF g.dev[i].seat = "seat" THEN g.used - 1 ELSE g.used
      /\ r.is_scanning = g.is_scanning
      /\ r.bt.link = g.bt.link /\ r.bt.page = g.bt.page
      /\ r.bt.sm = g.bt.sm /\ r.bt.info = g.bt.info
      /\ r.bt.leaving = g.bt.leaving \cup Owners(g.bt, h)
      /\ IF Owners(g.bt, h) = {} THEN r.bt = g.bt
         ELSE /\ ~Paused(r)
              /\ \A a \in Addrs : r.bt.hids[a] =
                   IF \E j \in ByHandle(g, h) : g.dev[j].cid = a THEN None ELSE g.bt.hids[a]
  BY <1>0, <1>1, DeleteIs
<1>3. r.dev[i] = Empty /\ \A j \in Idx : j # i => r.dev[j] = g.dev[j]
  BY <1>0, <1>2, StateFields
<1>4. Cardinality(Seats(r)) =
        IF g.dev[i].seat = "seat" THEN Cardinality(Seats(g)) - 1 ELSE Cardinality(Seats(g))
  <2>1. \A j \in Idx : j # i => r.dev[j].seat = g.dev[j].seat
    BY <1>3
  <2>2. r.dev[i].seat # "seat"
    BY <1>3, EmptyIsDevice
  <2>3. Cardinality(Seats(r)) =
          IF g.dev[i].seat = "seat" /\ r.dev[i].seat # "seat" THEN Cardinality(Seats(g)) - 1
          ELSE IF g.dev[i].seat # "seat" /\ r.dev[i].seat = "seat"
            THEN Cardinality(Seats(g)) + 1
          ELSE Cardinality(Seats(g))
    BY <2>1, SeatsChange, Zenon
  <2> QED
    BY <2>2, <2>3
<1>5. Cardinality(Seats(r)) <= r.used
  BY <1>0, <1>2, <1>4, SeatsFinite, StateFields DEF TableInv
<1>6. \A a \in Addrs : r.bt.hids[a] \in {None, g.bt.hids[a]}
  BY <1>2
<1>7. StageInv(r)
  BY <1>0, <1>2, <1>6, StageLess, StateFields DEF Tidy
<1>8. Tidy(r) /\ (~Ambiguous(g) => ~Ambiguous(r))
  BY <1>2, <1>3, <1>5, <1>7, TidyStep
<1>9. ASSUME \A j \in Idx : ClientAt(g, j) /\ (j # i => ReadyAt(g, j)), SeatInv(g)
      PROVE  Served(r)
  <2>1. ASSUME NEW k \in ByHandle(g, h), NEW a \in Addrs, g.dev[k].cid = a
        PROVE  a \in Owners(g.bt, h)
    <3>1. k \in Idx /\ g.dev[k].handle = h /\ h # NoHandle
      BY ByHandleFits, <2>1
    <3>2. g.dev[k].addr = a /\ Linked(g.bt, a) /\ a # None
      BY <1>9, <2>1, <3>1, NoneAssumption DEF ClientAt
    <3> QED
      BY <3>1, <3>2 DEF Tidy, LinkInv, Owners
  <2>2. ASSUME NEW j \in Idx
        PROVE  ClientAt(r, j) /\ ReadyAt(r, j)
    <3>1. CASE j = i
      BY <1>3, <3>1, EmptyIsDevice DEF ClientAt, ReadyAt
    <3>2. CASE j # i
      <4>1. \A a \in Addrs : \/ r.bt.hids[a] = g.bt.hids[a]
                             \/ r.bt.hids[a] = None /\ a \in r.bt.leaving
        BY <1>2, <2>1
      <4>2. ClientAt(g, j) /\ ReadyAt(g, j) /\ r.dev[j] = g.dev[j]
        BY <1>3, <1>9, <3>2
      <4> QED
        BY <1>0, <1>2, <4>1, <4>2, ReadyKept
    <3> QED
      BY <3>1, <3>2
  <2>3. r.used = Cardinality(Seats(r))
    BY <1>2, <1>4, <1>9 DEF SeatInv
  <2>4. ASSUME NEW j \in Idx, r.dev[j].addr # None
        PROVE  /\ r.dev[j].seat = "seat" <=> r.dev[j].state = "READY"
               /\ r.dev[j].connTimer \/ r.dev[j].state = "READY"
    <3>1. j # i
      BY <1>3, <2>4, EmptyIsDevice
    <3> QED
      BY <1>3, <1>9, <2>4, <3>1 DEF SeatInv
  <2> QED
    BY <2>2, <2>3, <2>4 DEF Served, SeatInv
<1>10. ASSUME PauseOK(g)
       PROVE  PauseOK(r)
  <2>1. CASE Owners(g.bt, h) # {}
    BY <1>2, <2>1 DEF PauseOK
  <2>2. CASE Owners(g.bt, h) = {} /\ Paused(r)
    <3>1. r.bt = g.bt /\ Paused(g)
      BY <1>2, <2>2 DEF Paused
    <3>2. CASE Forgotten(g)
      BY <1>3, <3>1, <3>2, EmptyIsDevice DEF Forgotten, PauseOK
    <3>3. ASSUME NEW j \in Idx, Resumes(g, j)
          PROVE  Forgotten(r) \/ \E k \in Idx : Resumes(r, k)
      <4>1. CASE j # i
        BY <1>3, <3>1, <3>3, <4>1 DEF Resumes
      <4>2. CASE j = i /\ g.bt.page = g.dev[i].addr
        <5>1. \A k \in Idx : r.dev[k].addr # g.dev[i].addr
          BY <1>3, <3>3, <4>2, EmptyIsDevice DEF Resumes, Tidy, TableInv
        <5> QED
          BY <3>1, <3>3, <4>2, <5>1 DEF Forgotten, Resumes
      <4>3. CASE j = i /\ Linked(g.bt, g.dev[i].addr)
        <5>1. g.dev[i].addr \in Addrs
          BY <1>0, <3>3, <4>3, StateFields DEF Resumes, Device
        <5>2. g.dev[i].addr \in Owners(g.bt, h)
          BY <3>3, <4>3, <5>1 DEF Resumes, Tidy, LinkInv, Owners, Linked
        <5> QED
          BY <2>2, <5>2
      <4> QED
        BY <3>3, <4>1, <4>2, <4>3 DEF Resumes
    <3> QED
      BY <1>10, <3>1, <3>2, <3>3 DEF PauseOK
  <2> QED
    BY <2>1, <2>2 DEF PauseOK
<1> QED
  BY <1>1, <1>8, <1>9, <1>10

\* A device that gets ready gets a seat, or it is deleted.
LEMMA SetReadyCompleteKeeps ==
  ASSUME NEW g, Tidy(g), NEW i \in Idx, g.dev[i].addr # None
  PROVE  /\ Tidy(SetReadyComplete(g, i))
         /\ ~Ambiguous(g) => ~Ambiguous(SetReadyComplete(g, i))
         /\ g.dev[i].state \in {"PENDING_READY", "READY"} =>
              /\ Served(g) => Served(SetReadyComplete(g, i))
              /\ PauseOK(g) => PauseOK(SetReadyComplete(g, i))
<1>1. CASE g.dev[i].state = "READY"
  BY <1>1 DEF SetReadyComplete
<1>2. CASE g.dev[i].state # "READY" /\ (g.used = N \/ g.dev[i].seat # None)
  <2>1. SetReadyComplete(g, i) = Delete(g, i)
    BY <1>2 DEF SetReadyComplete
  <2>2. Served(g) => Served(Delete(g, i))
    BY DeleteKeeps DEF Served
  <2> QED
    BY <2>1, <2>2, DeleteKeeps
<1>3. CASE g.dev[i].state # "READY" /\ g.used # N /\ g.dev[i].seat = None
  <2>0. g \in State /\ TableInv(g)
    BY DEF Tidy
  <2>1. g.dev[i] \in Device /\ g.used + 1 \in 0 .. N
    BY <1>3, <2>0, StateFields, NAssumption
  <2>2. PICK r : r = [g EXCEPT !.dev[i].connTimer = FALSE, !.dev[i].seat = "seat",
                               !.dev[i].state = "READY", !.used = g.used + 1]
    OBVIOUS
  <2>3. SetReadyComplete(g, i) = r
    BY <1>3, <2>0, <2>2 DEF SetReadyComplete, State
  <2>4. PICK d \in Device :
          /\ d = [g.dev[i] EXCEPT !.connTimer = FALSE, !.seat = "seat", !.state = "READY"]
          /\ r.dev = [g.dev EXCEPT ![i] = d]
    <3>1. [g.dev[i] EXCEPT !.connTimer = FALSE, !.seat = "seat", !.state = "READY"] \in Device
      BY <2>1 DEF Device, States
    <3>2. r.dev = [g.dev EXCEPT ![i] =
                     [g.dev[i] EXCEPT !.connTimer = FALSE, !.seat = "seat", !.state = "READY"]]
      BY <2>0, <2>2 DEF State, Device
    <3> QED
      BY <3>1, <3>2
  <2>5. /\ d.addr = g.dev[i].addr /\ d.handle = g.dev[i].handle
        /\ d.cid = g.dev[i].cid /\ d.connected = g.dev[i].connected /\ d.seat = "seat"
        /\ d.state = "READY" /\ d.setup = g.dev[i].setup
    BY <2>1, <2>4 DEF Device
  <2>6. /\ r \in State /\ r.used = g.used + 1
        /\ r.is_scanning = g.is_scanning /\ r.bt = g.bt
    <3>1. r.dev \in [Idx -> Device]
      BY <2>0, <2>4, StateFields
    <3>2. /\ r = [dev |-> r.dev, used |-> g.used + 1, is_scanning |-> g.is_scanning,
                  wanted |-> g.wanted, bt |-> g.bt]
      BY <2>0, <2>2 DEF State
    <3> QED
      BY <2>1, <3>1, <3>2, <2>0, StateFields DEF State
  <2>7. r.dev[i] = d /\ \A j \in Idx : j # i => r.dev[j] = g.dev[j]
    BY <2>0, <2>4, StateFields
  <2>8. Cardinality(Seats(r)) = Cardinality(Seats(g)) + 1
    <3>1. \A j \in Idx : j # i => r.dev[j].seat = g.dev[j].seat
      BY <2>7
    <3>2. r.dev[i].seat = "seat" /\ g.dev[i].seat # "seat"
      BY <1>3, <2>5, <2>7 DEF None
    <3>3. Cardinality(Seats(r)) =
            IF g.dev[i].seat = "seat" /\ r.dev[i].seat # "seat" THEN Cardinality(Seats(g)) - 1
            ELSE IF g.dev[i].seat # "seat" /\ r.dev[i].seat = "seat"
              THEN Cardinality(Seats(g)) + 1
            ELSE Cardinality(Seats(g))
      BY <3>1, SeatsChange, Zenon
    <3> QED
      BY <3>2, <3>3
  <2>9. Cardinality(Seats(r)) <= r.used
    BY <2>0, <2>6, <2>8, SeatsFinite, StateFields DEF TableInv
  <2>10. StageInv(r)
    BY <2>0, <2>6, StageLess, StateFields DEF Tidy
  <2>11. g.dev[i].connected /\ d.connected
    BY <1>3, <2>0, <2>5 DEF TableInv, None
  <2>12. Tidy(r) /\ (~Ambiguous(g) => ~Ambiguous(r))
    BY <2>5, <2>6, <2>7, <2>9, <2>10, <2>11, TidyStep
  <2>13. ASSUME g.dev[i].state \in {"PENDING_READY", "READY"}, Served(g)
         PROVE  Served(r)
    <3>1. ASSUME NEW j \in Idx
          PROVE  ClientAt(r, j) /\ ReadyAt(r, j)
      <4>1. CASE j # i
        BY <2>6, <2>7, <2>13, <4>1 DEF ClientAt, ReadyAt, Served
      <4>2. CASE j = i
        BY <2>5, <2>6, <2>7, <2>13, <4>2 DEF ClientAt, ReadyAt, Served
      <4> QED
        BY <4>1, <4>2
    <3>2. r.used = Cardinality(Seats(r))
      BY <2>6, <2>8, <2>13 DEF Served, SeatInv
    <3>3. ASSUME NEW j \in Idx, r.dev[j].addr # None
          PROVE  /\ r.dev[j].seat = "seat" <=> r.dev[j].state = "READY"
                 /\ r.dev[j].connTimer \/ r.dev[j].state = "READY"
      <4>1. CASE j # i
        BY <2>7, <2>13, <3>3, <4>1 DEF Served, SeatInv
      <4>2. CASE j = i
        BY <2>5, <2>7, <4>2
      <4> QED
        BY <4>1, <4>2
    <3> QED
      BY <3>1, <3>2, <3>3 DEF Served, SeatInv
  <2>14. ASSUME g.dev[i].state \in {"PENDING_READY", "READY"}, PauseOK(g)
         PROVE  PauseOK(r)
    <3>1. Paused(r) <=> Paused(g)
      BY <2>6 DEF Paused
    <3>2. Forgotten(g) => Forgotten(r)
      BY <2>5, <2>6, <2>7 DEF Forgotten
    <3>3. ASSUME NEW j \in Idx, Resumes(g, j)
          PROVE  Resumes(r, j)
      BY <2>6, <2>7, <2>14, <3>3 DEF Resumes
    <3> QED
      BY <2>14, <3>1, <3>2, <3>3 DEF PauseOK
  <2> QED
    BY <2>3, <2>12, <2>13, <2>14
<1> QED
  BY <1>1, <1>2, <1>3

\* A device whose service is up is connected, and gets ready or is set up.
LEMMA ConnectReadyKeeps ==
  ASSUME NEW g, Tidy(g), NEW i \in Idx, g.dev[i].addr # None, NEW setup \in BOOLEAN
  PROVE  /\ Tidy(SetReady(Connect(g, i), i, setup))
         /\ ~Ambiguous(g) => ~Ambiguous(SetReady(Connect(g, i), i, setup))
         /\ /\ Served(g) /\ g.dev[i].cid # None
            /\ g.dev[i].state \notin {"PENDING_READY", "READY"}
            /\ g.bt.sm[g.dev[i].addr] = None /\ g.bt.info # g.dev[i].addr
            /\ g.bt.hids[g.dev[i].addr] = "up"
            => Served(SetReady(Connect(g, i), i, setup))
<1>0. g \in State /\ TableInv(g)
  BY DEF Tidy
<1> DEFINE Ready == /\ Served(g) /\ g.dev[i].cid # None
                    /\ g.dev[i].state \notin {"PENDING_READY", "READY"}
                    /\ g.bt.sm[g.dev[i].addr] = None /\ g.bt.info # g.dev[i].addr
                    /\ g.bt.hids[g.dev[i].addr] = "up"
\* A place that is connected and in one of the states.
<1>1. ASSUME NEW s \in {g.dev[i].state, "PENDING_READY"}, NEW b \in BOOLEAN,
             NEW d, d.addr = g.dev[i].addr, d.handle = g.dev[i].handle, d.cid = g.dev[i].cid,
             d.connected, d.seat = None, d.state = s, d.setup = b,
             d.connTimer = g.dev[i].connTimer,
             NEW r \in State, r.dev = [g.dev EXCEPT ![i] = d], r.used = g.used, r.bt = g.bt,
             b => b = g.dev[i].setup \/ s = "PENDING_READY"
      PROVE  /\ Tidy(r) /\ (~Ambiguous(g) => ~Ambiguous(r)) /\ r.dev[i].addr # None
             /\ r.dev[i].state = s
             /\ Ready => Served(r)
  <2>1. g.dev[i] \in Device /\ r.dev[i] = d
    BY <1>0, <1>1, StateFields
  <2>2. /\ d.addr = g.dev[i].addr /\ d.handle = g.dev[i].handle
        /\ d.cid = g.dev[i].cid /\ d.connected /\ d.seat = None /\ d.state = s
        /\ d.setup = b /\ d.connTimer = g.dev[i].connTimer
    BY <1>1
  <2>3. r \in State /\ r.used = g.used /\ r.bt = g.bt
    BY <1>1
  <2>4. r.dev[i] = d /\ \A j \in Idx : j # i => r.dev[j] = g.dev[j]
    BY <1>0, <1>1, <2>1, StateFields
  <2>5. Seats(r) = Seats(g) \ {i}
    BY <2>2, <2>4 DEF Seats, None
  <2>6. Cardinality(Seats(r)) <= r.used
    <3>1. Seats(r) \in SUBSET Seats(g)
      BY <2>5
    <3> QED
      BY <1>0, <2>3, <3>1, SeatsFinite, FS_Subset, StateFields DEF TableInv
  <2>7. StageInv(r)
    BY <1>0, <2>3, StageLess, StateFields DEF Tidy
  <2>8. s # "NONE"
    BY <1>0 DEF TableInv
  <2>9. Tidy(r) /\ (~Ambiguous(g) => ~Ambiguous(r))
    BY <2>2, <2>3, <2>4, <2>6, <2>7, <2>8, TidyStep DEF None
  <2>10. ASSUME Ready
         PROVE  Served(r)
    <3>1. ASSUME NEW j \in Idx
          PROVE  ClientAt(r, j) /\ ReadyAt(r, j)
      <4>1. CASE j # i
        BY <2>3, <2>4, <2>10, <4>1 DEF ClientAt, ReadyAt, Served
      <4>2. CASE j = i
        BY <1>1, <2>2, <2>3, <2>4, <2>10, <4>2 DEF ClientAt, ReadyAt, Served
      <4> QED
        BY <4>1, <4>2
    <3>2. g.dev[i].seat # "seat"
      BY <2>10 DEF Served, SeatInv
    <3>3. r.used = Cardinality(Seats(r))
      <4>1. Seats(r) = Seats(g)
        BY <2>5, <3>2 DEF Seats
      <4> QED
        BY <2>3, <2>10, <4>1 DEF Served, SeatInv
    <3>4. ASSUME NEW j \in Idx, r.dev[j].addr # None
          PROVE  /\ r.dev[j].seat = "seat" <=> r.dev[j].state = "READY"
                 /\ r.dev[j].connTimer \/ r.dev[j].state = "READY"
      <4>1. CASE j # i
        BY <2>4, <2>10, <3>4, <4>1 DEF Served, SeatInv
      <4>2. CASE j = i
        BY <1>1, <2>2, <2>4, <2>10, <4>2 DEF Served, SeatInv, None
      <4> QED
        BY <4>1, <4>2
    <3> QED
      BY <3>1, <3>3, <3>4 DEF Served, SeatInv
  <2> QED
    BY <2>2, <2>4, <2>9, <2>10
<1> HIDE DEF Ready
\* The same of the three states the device may be in after uni_hid_device_connect().
<1>2. ASSUME NEW s \in {g.dev[i].state, "PENDING_READY"}, NEW b \in BOOLEAN, NEW r,
             \/ r = [g EXCEPT !.dev[i].connected = TRUE, !.dev[i].seat = None,
                              !.dev[i].state = s, !.dev[i].setup = b]
             \/ /\ r = [g EXCEPT !.dev[i].connected = TRUE, !.dev[i].seat = None,
                                 !.dev[i].state = s]
                /\ b = g.dev[i].setup
             \/ /\ r = [g EXCEPT !.dev[i].connected = TRUE, !.dev[i].seat = None]
                /\ b = g.dev[i].setup /\ s = g.dev[i].state,
             b => b = g.dev[i].setup \/ s = "PENDING_READY"
      PROVE  /\ Tidy(r) /\ (~Ambiguous(g) => ~Ambiguous(r)) /\ r.dev[i].addr # None
             /\ r.dev[i].state = s
             /\ Ready => Served(r)
  <2>1. g.dev[i] \in Device
    BY <1>0, StateFields
  <2>2. PICK d \in Device :
          d = [g.dev[i] EXCEPT !.connected = TRUE, !.seat = None, !.state = s, !.setup = b]
    BY <1>2, <2>1 DEF Device, States
  <2>3. r.dev = [g.dev EXCEPT ![i] = d]
    <3>1. CASE r = [g EXCEPT !.dev[i].connected = TRUE, !.dev[i].seat = None,
                             !.dev[i].state = s, !.dev[i].setup = b]
      BY <1>0, <2>1, <2>2, <3>1 DEF State, Device
    <3>2. CASE /\ r = [g EXCEPT !.dev[i].connected = TRUE, !.dev[i].seat = None,
                                !.dev[i].state = s]
               /\ b = g.dev[i].setup
      BY <1>0, <2>1, <2>2, <3>2 DEF State, Device
    <3>3. CASE /\ r = [g EXCEPT !.dev[i].connected = TRUE, !.dev[i].seat = None]
               /\ b = g.dev[i].setup /\ s = g.dev[i].state
      BY <1>0, <2>1, <2>2, <3>3 DEF State, Device
    <3> QED
      BY <1>2, <3>1, <3>2, <3>3
  <2>4. r = [dev |-> r.dev, used |-> g.used, is_scanning |-> g.is_scanning,
             wanted |-> g.wanted, bt |-> g.bt]
    BY <1>0, <1>2 DEF State
  <2>5. r \in State /\ r.used = g.used /\ r.bt = g.bt
    <3>1. r.dev \in [Idx -> Device]
      BY <1>0, <2>2, <2>3, StateFields
    <3> QED
      BY <1>0, <2>4, <3>1, StateFields DEF State
  <2>6. /\ d.addr = g.dev[i].addr /\ d.handle = g.dev[i].handle
        /\ d.cid = g.dev[i].cid /\ d.connected /\ d.seat = None /\ d.state = s
        /\ d.setup = b /\ d.connTimer = g.dev[i].connTimer
    BY <2>1, <2>2 DEF Device
  <2>7. b => b = g.dev[i].setup \/ s = "PENDING_READY"
    BY <1>2
  <2> QED
    BY <1>1, <2>3, <2>5, <2>6, <2>7, ZenonT(60)
<1>3. PICK c : c = Connect(g, i)
  OBVIOUS
<1>4. g.dev[i].setup \in BOOLEAN
  BY <1>0, StateFields DEF Device
<1>5. /\ Tidy(c) /\ (~Ambiguous(g) => ~Ambiguous(c)) /\ c.dev[i].addr # None
      /\ c.dev[i].state = g.dev[i].state
      /\ Ready => Served(c)
  BY <1>2, <1>3, <1>4 DEF Connect
<1>6. CASE c.dev[i].state = "PENDING_READY"
  <2>1. SetReady(c, i, setup) = c
    BY <1>6 DEF SetReady
  <2> QED
    BY <1>3, <1>5, <2>1 DEF Ready
<1>7. CASE c.dev[i].state # "PENDING_READY" /\ setup
  <2>1. SetReady(c, i, setup) =
          [g EXCEPT !.dev[i].connected = TRUE, !.dev[i].seat = None,
                    !.dev[i].state = "PENDING_READY", !.dev[i].setup = TRUE]
    BY <1>3, <1>7 DEF SetReady, Connect
  <2> QED
    BY <1>2, <1>3, <2>1 DEF Ready
<1>8. CASE c.dev[i].state # "PENDING_READY" /\ ~setup
  <2>1. PICK r : r = [g EXCEPT !.dev[i].connected = TRUE, !.dev[i].seat = None,
                               !.dev[i].state = "PENDING_READY"]
    OBVIOUS
  <2>2. SetReady(c, i, setup) = SetReadyComplete(r, i)
    BY <1>3, <1>8, <2>1 DEF SetReady, Connect
  <2>3. /\ Tidy(r) /\ (~Ambiguous(g) => ~Ambiguous(r)) /\ (Ready => Served(r))
        /\ r.dev[i].addr # None /\ r.dev[i].state = "PENDING_READY"
    BY <1>2, <1>4, <2>1
  <2> QED
    BY <1>3, <2>2, <2>3, SetReadyCompleteKeeps DEF Ready
<1> QED
  BY <1>6, <1>7, <1>8

\* What btstack does may change when the table does not.
LEMMA StackKeeps ==
  ASSUME NEW g, Tidy(g), NEW r \in State, r.dev = g.dev, r.used = g.used,
         r.is_scanning = g.is_scanning, r.bt.scan = g.bt.scan, r.bt.link = g.bt.link,
         r.bt.page = g.bt.page, StageInv(r)
  PROVE  /\ Tidy(r)
         /\ ~Ambiguous(g) => ~Ambiguous(r)
         /\ Served(g) /\ (\A i \in Idx : ReadyAt(r, i)) => Served(r)
         /\ PauseOK(g) => PauseOK(r)
<1>1. Seats(r) = Seats(g)
  BY DEF Seats
<1>2. Tidy(r) /\ (~Ambiguous(g) => ~Ambiguous(r))
  BY <1>1, TidyStep DEF Tidy, TableInv
<1>3. ASSUME Served(g), \A i \in Idx : ReadyAt(r, i)
      PROVE  Served(r)
  BY <1>1, <1>3 DEF Served, SeatInv, ClientAt, Linked
<1>4. PauseOK(g) => PauseOK(r)
  BY DEF PauseOK, Paused, Forgotten, Resumes, Linked
<1> QED
  BY <1>2, <1>3, <1>4

\* The security manager is done with a link.
LEMMA SmDoneKeeps ==
  ASSUME NEW g, Tidy(g), NEW a \in Addrs, NEW r, r = [g EXCEPT !.bt.sm[a] = None]
  PROVE  /\ Keeps(g, r)
         /\ r.bt.sm[a] = None /\ r.dev = g.dev /\ r.bt.link = g.bt.link
         /\ r.bt.hids = g.bt.hids /\ r.bt.info = g.bt.info
<1>1. g \in State /\ StageInv(g)
  BY DEF Tidy
<1>2. /\ r.dev = g.dev /\ r.used = g.used /\ r.is_scanning = g.is_scanning
      /\ r.wanted = g.wanted /\ r.bt = [g.bt EXCEPT !.sm[a] = None]
      /\ r = [dev |-> r.dev, used |-> r.used, is_scanning |-> r.is_scanning,
              wanted |-> r.wanted, bt |-> r.bt]
  BY <1>1 DEF State
<1>3. /\ r.bt \in Stack /\ r.bt.scan = g.bt.scan /\ r.bt.link = g.bt.link
      /\ r.bt.page = g.bt.page /\ r.bt.info = g.bt.info /\ r.bt.leaving = g.bt.leaving
      /\ r.bt.hids = g.bt.hids /\ r.bt.sm = [g.bt.sm EXCEPT ![a] = None]
  BY <1>1, <1>2, StateFields DEF Stack
<1>4. r \in State
  BY <1>1, <1>2, <1>3, StateFields DEF State
<1>5. r.bt.sm[a] = None /\ \A b \in Addrs : b # a => r.bt.sm[b] = g.bt.sm[b]
  BY <1>1, <1>3, StateFields
<1>6. StageInv(r)
  BY <1>1, <1>3, <1>5, StageLess, StateFields
<1>7. ASSUME Served(g), NEW i \in Idx
      PROVE  ReadyAt(r, i)
  <2>1. ClientAt(g, i) /\ ReadyAt(g, i)
    BY <1>7 DEF Served
  <2>2. CASE r.dev[i].state \notin {"PENDING_READY", "READY"}
    BY <1>2, <2>1, <2>2 DEF ReadyAt
  <2>3. CASE r.dev[i].state \in {"PENDING_READY", "READY"}
    <3>1. g.dev[i].cid \in Addrs \cup {None}
      BY <1>1, StateFields DEF Device
    <3>2. g.dev[i].addr \in Addrs
      BY <1>2, <2>1, <2>3, <3>1 DEF ReadyAt, ClientAt
    <3> QED
      BY <1>2, <1>3, <1>5, <2>1, <2>3, <3>2 DEF ReadyAt
  <2> QED
    BY <2>2, <2>3
<1> QED
  BY <1>2, <1>3, <1>4, <1>5, <1>6, <1>7, StackKeeps DEF Keeps

\* No device gets ready whose link is still asked about.
LEMMA NotReadyYet ==
  ASSUME NEW g, Tidy(g), Served(g), NEW a \in Addrs,
         g.bt.sm[a] # None \/ g.bt.info = a \/ g.bt.hids[a] = "asked", NEW i \in Idx,
         g.dev[i].addr = a
  PROVE  g.dev[i].state \notin {"PENDING_READY", "READY"}
BY DEF Served, ReadyAt, None

\* So the questions about it may change.
LEMMA ReadyUntouched ==
  ASSUME NEW g, Tidy(g), Served(g), NEW a \in Addrs, NEW r, r.dev = g.dev,
         \A i \in Idx : g.dev[i].addr = a => g.dev[i].state \notin {"PENDING_READY", "READY"},
         \A b \in Addrs : b # a => r.bt.sm[b] = g.bt.sm[b] /\ r.bt.hids[b] = g.bt.hids[b],
         r.bt.info \in {None, a, g.bt.info}, r.bt.leaving = g.bt.leaving,
         NEW i \in Idx
  PROVE  ReadyAt(r, i)
<1>1. ClientAt(g, i) /\ ReadyAt(g, i)
  BY DEF Served
<1>2. CASE r.dev[i].state \notin {"PENDING_READY", "READY"}
  BY <1>1, <1>2 DEF ReadyAt
<1>3. CASE r.dev[i].state \in {"PENDING_READY", "READY"}
  <2>1. g.dev[i].cid \in Addrs \cup {None}
    BY StateFields DEF Device, Tidy
  <2>2. g.dev[i].addr \in Addrs /\ g.dev[i].addr # a
    BY <1>1, <1>3, <2>1 DEF ReadyAt, ClientAt
  <2> QED
    BY <1>1, <1>3, <2>2, NoneAssumption DEF ReadyAt
<1> QED
  BY <1>2, <1>3

\* A device that failed to encrypt is to be paired.
LEMMA PairKeeps ==
  ASSUME NEW g, Tidy(g), NEW a \in Addrs, NEW r, r = [g EXCEPT !.bt.sm[a] = "pair"],
         Linked(g.bt, a), g.bt.info # a, g.bt.hids[a] = None
  PROVE  /\ Tidy(r)
         /\ ~Ambiguous(g) => ~Ambiguous(r)
         /\ /\ Served(g)
            /\ \A i \in Idx : g.dev[i].addr = a => g.dev[i].state \notin {"PENDING_READY", "READY"}
            => Served(r)
         /\ PauseOK(g) => PauseOK(r)
<1>1. g \in State /\ StageInv(g)
  BY DEF Tidy
<1>2. /\ r.dev = g.dev /\ r.used = g.used /\ r.is_scanning = g.is_scanning
      /\ r.wanted = g.wanted /\ r.bt = [g.bt EXCEPT !.sm[a] = "pair"]
      /\ r = [dev |-> r.dev, used |-> r.used, is_scanning |-> r.is_scanning,
              wanted |-> r.wanted, bt |-> r.bt]
  BY <1>1 DEF State
<1>3. /\ r.bt \in Stack /\ r.bt.scan = g.bt.scan /\ r.bt.link = g.bt.link
      /\ r.bt.page = g.bt.page /\ r.bt.info = g.bt.info /\ r.bt.leaving = g.bt.leaving
      /\ r.bt.hids = g.bt.hids /\ r.bt.sm = [g.bt.sm EXCEPT ![a] = "pair"]
  BY <1>1, <1>2, StateFields DEF Stack
<1>4. r \in State
  BY <1>1, <1>2, <1>3, StateFields DEF State
<1>5. \A b \in Addrs : b # a => r.bt.sm[b] = g.bt.sm[b]
  BY <1>1, <1>3, StateFields
<1>6. StageInv(r)
  BY <1>1, <1>3, <1>5 DEF StageInv, Linked
<1>7. ASSUME Served(g), NEW i \in Idx,
             \A j \in Idx : g.dev[j].addr = a => g.dev[j].state \notin {"PENDING_READY", "READY"}
      PROVE  ReadyAt(r, i)
  <2>1. \A b \in Addrs : b # a => r.bt.sm[b] = g.bt.sm[b] /\ r.bt.hids[b] = g.bt.hids[b]
    BY <1>3, <1>5
  <2>2. r.bt.info \in {None, a, g.bt.info} /\ r.bt.leaving = g.bt.leaving /\ r.dev = g.dev
    BY <1>2, <1>3
  <2> QED
    BY <1>7, <2>1, <2>2, ReadyUntouched, ZenonT(40)
<1> QED
  BY <1>2, <1>3, <1>4, <1>6, <1>7, StackKeeps

\* device_information_service_client_query()
LEMMA QueryInfoKeeps ==
  ASSUME NEW g, Tidy(g), NEW a \in Addrs, NEW r, r = QueryInfo(g, a),
         Linked(g.bt, a), g.bt.sm[a] = None, g.bt.hids[a] = None
  PROVE  /\ Tidy(r)
         /\ ~Ambiguous(g) => ~Ambiguous(r)
         /\ /\ Served(g)
            /\ \A i \in Idx : g.dev[i].addr = a => g.dev[i].state \notin {"PENDING_READY", "READY"}
            => Served(r)
         /\ PauseOK(g) => PauseOK(r)
<1>1. g \in State /\ StageInv(g)
  BY DEF Tidy
<1>2. CASE g.bt.info # None
  <2>1. [g.bt EXCEPT !.info = g.bt.info] = g.bt
    BY <1>1, StateFields DEF Stack
  <2>2. QueryInfo(g, a) = g
    BY <1>1, <1>2, <2>1 DEF QueryInfo, State
  <2> QED
    BY <2>2
<1>3. CASE g.bt.info = None
  <2>2. /\ r.dev = g.dev /\ r.used = g.used /\ r.is_scanning = g.is_scanning
        /\ r.wanted = g.wanted /\ r.bt = [g.bt EXCEPT !.info = a]
        /\ r = [dev |-> r.dev, used |-> r.used, is_scanning |-> r.is_scanning,
                wanted |-> r.wanted, bt |-> r.bt]
    BY <1>1, <1>3 DEF State, QueryInfo
  <2>3. /\ r.bt \in Stack /\ r.bt.scan = g.bt.scan /\ r.bt.link = g.bt.link
        /\ r.bt.page = g.bt.page /\ r.bt.info = a /\ r.bt.leaving = g.bt.leaving
        /\ r.bt.hids = g.bt.hids /\ r.bt.sm = g.bt.sm
    BY <1>1, <2>2, StateFields DEF Stack
  <2>4. r \in State
    BY <1>1, <2>2, <2>3, StateFields DEF State
  <2>6. StageInv(r)
    BY <1>1, <2>3 DEF StageInv, Linked
  <2> QED
    BY <2>2, <2>3, <2>4, <2>6, StackKeeps, ReadyUntouched
<1> QED
  BY <1>2, <1>3

\* The device information client is done.
LEMMA InfoDoneKeeps ==
  ASSUME NEW g, Tidy(g), NEW r, r = [g EXCEPT !.bt.info = None]
  PROVE  /\ Tidy(r)
         /\ ~Ambiguous(g) => ~Ambiguous(r)
         /\ Served(g) => Served(r)
         /\ PauseOK(g) => PauseOK(r)
         /\ r.bt.info = None /\ r.dev = g.dev /\ r.bt.link = g.bt.link
         /\ r.bt.hids = g.bt.hids /\ r.bt.sm = g.bt.sm
<1>1. g \in State /\ StageInv(g)
  BY DEF Tidy
<1>2. /\ r.dev = g.dev /\ r.used = g.used /\ r.is_scanning = g.is_scanning
      /\ r.wanted = g.wanted /\ r.bt = [g.bt EXCEPT !.info = None]
      /\ r = [dev |-> r.dev, used |-> r.used, is_scanning |-> r.is_scanning,
              wanted |-> r.wanted, bt |-> r.bt]
  BY <1>1 DEF State
<1>3. /\ r.bt \in Stack /\ r.bt.scan = g.bt.scan /\ r.bt.link = g.bt.link
      /\ r.bt.page = g.bt.page /\ r.bt.info = None /\ r.bt.leaving = g.bt.leaving
      /\ r.bt.hids = g.bt.hids /\ r.bt.sm = g.bt.sm
  BY <1>1, <1>2, StateFields DEF Stack
<1>4. r \in State
  BY <1>1, <1>2, <1>3, StateFields DEF State
<1>5. StageInv(r)
  BY <1>1, <1>3, NoneAssumption DEF StageInv, Linked
<1>6. ASSUME Served(g), NEW i \in Idx
      PROVE  ReadyAt(r, i)
  <2>1. ClientAt(g, i) /\ ReadyAt(g, i)
    BY <1>6 DEF Served
  <2>2. g.dev[i].cid \in Addrs \cup {None}
    BY <1>1, StateFields DEF Device
  <2> QED
    BY <1>2, <1>3, <2>1, <2>2, NoneAssumption DEF ReadyAt, ClientAt
<1> QED
  BY <1>2, <1>3, <1>4, <1>5, <1>6, StackKeeps

\* What is the same when only the HID client of a changes.
OthersKept(g, r, a) ==
  /\ ~Ambiguous(g) => ~Ambiguous(r)
  /\ Served(g) /\ g.bt.hids[a] = "asked" => Served(r)
  /\ PauseOK(g) => PauseOK(r)
  /\ \A i \in Idx : /\ ClientAt(g, i) => ClientAt(r, i)
                    /\ ReadyAt(g, i) /\ ClientAt(g, i) /\ g.dev[i].addr # a => ReadyAt(r, i)
  /\ r.dev = g.dev /\ r.bt.link = g.bt.link
  /\ r.bt.info = g.bt.info /\ r.bt.sm = g.bt.sm /\ r.used = g.used

\* The HID client of a link is in another state: it is up, or gone.
LEMMA ClientKeeps ==
  ASSUME NEW g, Tidy(g), NEW a \in Addrs, NEW x \in {None, "up"},
         NEW r, r = [g EXCEPT !.bt.hids[a] = x], g.bt.hids[a] # None \/ x = None
  PROVE  Tidy(r) /\ r.bt.hids[a] = x /\ OthersKept(g, r, a)
<1>1. g \in State /\ StageInv(g)
  BY DEF Tidy
<1>2. /\ r.dev = g.dev /\ r.used = g.used /\ r.is_scanning = g.is_scanning
      /\ r.wanted = g.wanted /\ r.bt = [g.bt EXCEPT !.hids[a] = x]
      /\ r = [dev |-> r.dev, used |-> r.used, is_scanning |-> r.is_scanning,
              wanted |-> r.wanted, bt |-> r.bt]
  BY <1>1 DEF State
<1>3. /\ r.bt \in Stack /\ r.bt.scan = g.bt.scan /\ r.bt.link = g.bt.link
      /\ r.bt.page = g.bt.page /\ r.bt.info = g.bt.info /\ r.bt.leaving = g.bt.leaving
      /\ r.bt.hids = [g.bt.hids EXCEPT ![a] = x] /\ r.bt.sm = g.bt.sm
  BY <1>1, <1>2, StateFields DEF Stack
<1>4. r \in State
  BY <1>1, <1>2, <1>3, StateFields DEF State
<1>5. r.bt.hids[a] = x /\ \A b \in Addrs : b # a => r.bt.hids[b] = g.bt.hids[b]
  BY <1>1, <1>3, StateFields
<1>6. StageInv(r)
  BY <1>1, <1>3, <1>5, NoneAssumption, StateFields DEF StageInv, Linked
<1>7. ASSUME NEW i \in Idx, ReadyAt(g, i), ClientAt(g, i), g.dev[i].addr # a
      PROVE  ReadyAt(r, i)
  <2>1. g.dev[i].cid \in Addrs \cup {None}
    BY <1>1, StateFields DEF Device
  <2>2. CASE g.dev[i].addr \in Addrs
    BY <1>2, <1>3, <1>5, <1>7, <2>2 DEF ReadyAt
  <2>3. CASE g.dev[i].addr \notin Addrs
    BY <1>2, <1>7, <2>1, <2>3 DEF ReadyAt, ClientAt
  <2> QED
    BY <2>2, <2>3
<1>8. ASSUME Served(g), g.bt.hids[a] = "asked", NEW i \in Idx
      PROVE  ReadyAt(r, i)
  <2>1. CASE g.dev[i].addr # a
    BY <1>7, <1>8, <2>1 DEF Served
  <2>2. CASE g.dev[i].addr = a
    <3>1. r.dev[i].state \notin {"PENDING_READY", "READY"}
      BY <1>2, <1>8, <2>2, NotReadyYet
    <3> QED
      BY <1>2, <1>8, <3>1 DEF ReadyAt, Served
  <2> QED
    BY <2>1, <2>2
<1>9. \A i \in Idx : ClientAt(g, i) => ClientAt(r, i)
  BY <1>2, <1>3 DEF ClientAt, Linked
<1>10. /\ Tidy(r)
       /\ ~Ambiguous(g) => ~Ambiguous(r)
       /\ Served(g) /\ g.bt.hids[a] = "asked" => Served(r)
       /\ PauseOK(g) => PauseOK(r)
  BY <1>2, <1>3, <1>4, <1>5, <1>6, <1>7, <1>8, <1>9, StackKeeps
<1> QED
  BY <1>2, <1>3, <1>5, <1>7, <1>9, <1>10 DEF OthersKept

\* hids_client_connect(), for the place that was found by the handle of the link.
LEMMA HidsConnectKeeps ==
  ASSUME NEW g, Tidy(g), NEW a \in Addrs, NEW i \in Idx, NEW r, r = HidsConnect(g, a, i),
         Linked(g.bt, a), g.bt.sm[a] = None, g.bt.info = None, g.dev[i].handle = g.bt.link[a],
         g.bt.hids[a] = None
  PROVE  /\ Tidy(r)
         /\ ~Ambiguous(g) => ~Ambiguous(r)
         /\ /\ Served(g) /\ ~Ambiguous(g)
            /\ \A j \in Idx : g.dev[j].addr = a => g.dev[j].state \notin {"PENDING_READY", "READY"}
            => Served(r)
         /\ PauseOK(g) => PauseOK(r)
<1>1. g \in State /\ StageInv(g) /\ TableInv(g)
  BY DEF Tidy
<1> DEFINE C(j) == IF j = i THEN a ELSE IF g.dev[j].cid = a THEN None ELSE g.dev[j].cid
<1>2. /\ r.dev = [j \in Idx |-> [g.dev[j] EXCEPT !.cid = C(j)]]
      /\ r.used = g.used /\ r.is_scanning = g.is_scanning
      /\ r.wanted = g.wanted /\ r.bt = [g.bt EXCEPT !.hids[a] = "asked"]
      /\ r = [dev |-> r.dev, used |-> r.used, is_scanning |-> r.is_scanning,
              wanted |-> r.wanted, bt |-> r.bt]
  <2>1. \A j \in Idx : g.dev[j] = [g.dev[j] EXCEPT !.cid = g.dev[j].cid]
    BY <1>1, StateFields DEF Device
  <2>2. r.dev = [j \in Idx |-> IF j = i THEN [g.dev[j] EXCEPT !.cid = a]
                              ELSE IF g.dev[j].cid = a THEN [g.dev[j] EXCEPT !.cid = None]
                              ELSE g.dev[j]]
    BY <1>1 DEF State, HidsConnect
  <2>3. r.dev = [j \in Idx |-> [g.dev[j] EXCEPT !.cid = C(j)]]
    BY <2>1, <2>2
  <2> QED
    BY <1>1, <2>3 DEF State, HidsConnect
<1>3. /\ r.bt \in Stack /\ r.bt.scan = g.bt.scan /\ r.bt.link = g.bt.link
      /\ r.bt.page = g.bt.page /\ r.bt.info = g.bt.info /\ r.bt.leaving = g.bt.leaving
      /\ r.bt.hids = [g.bt.hids EXCEPT ![a] = "asked"] /\ r.bt.sm = g.bt.sm
  BY <1>1, <1>2, StateFields DEF Stack
<1>4. \A j \in Idx : C(j) \in Addrs \cup {None}
  BY <1>1, StateFields DEF Device
<1>5. ASSUME NEW j \in Idx
      PROVE  /\ r.dev[j] \in Device /\ r.dev[j].cid = C(j)
             /\ r.dev[j].addr = g.dev[j].addr /\ r.dev[j].handle = g.dev[j].handle
             /\ r.dev[j].state = g.dev[j].state /\ r.dev[j].seat = g.dev[j].seat
             /\ r.dev[j].connected = g.dev[j].connected /\ r.dev[j].setup = g.dev[j].setup
             /\ r.dev[j].connTimer = g.dev[j].connTimer
             /\ C(j) = g.dev[j].cid => r.dev[j] = g.dev[j]
  <2>1. r.dev[j] = [g.dev[j] EXCEPT !.cid = C(j)]
    BY <1>2
  <2>2. g.dev[j] \in Device /\ C(j) \in Addrs \cup {None}
    BY <1>1, <1>4, StateFields
  <2> HIDE DEF C
  <2> QED
    BY <2>1, <2>2 DEF Device
<1>6. r \in State
  <2>1. r.dev \in [Idx -> Device]
    BY <1>2, <1>5
  <2> QED
    BY <1>1, <1>2, <1>3, <2>1, StateFields DEF State
<1>7. r.bt.hids[a] = "asked" /\ \A b \in Addrs : b # a => r.bt.hids[b] = g.bt.hids[b]
  BY <1>1, <1>3, StateFields
<1>8. StageInv(r)
  BY <1>1, <1>3, <1>7, NoneAssumption DEF StageInv, Linked
<1>9. Seats(r) = Seats(g)
  BY <1>5 DEF Seats
<1>10. g.dev[i] # Empty /\ g.bt.link[a] # NoHandle
  BY EmptyIsDevice DEF Linked
<1>11. Tidy(r) /\ (~Ambiguous(g) => ~Ambiguous(r))
  <2>1. ASSUME NEW j \in Idx
        PROVE  \/ r.dev[j] = g.dev[j]
               \/ /\ g.dev[j].addr # None /\ r.dev[j].state # "NONE"
                  /\ r.dev[j].addr = g.dev[j].addr /\ r.dev[j].handle = g.dev[j].handle
                  /\ r.dev[j].connected <=> r.dev[j].seat # "zero"
    <3>1. CASE g.dev[j].addr = None
      <4>1. g.dev[j] = Empty
        BY <1>1, <3>1 DEF TableInv
      <4>2. j # i /\ C(j) = g.dev[j].cid
        BY <1>10, <4>1, EmptyIsDevice, NoneAssumption
      <4> QED
        BY <1>5, <4>2
    <3>2. CASE g.dev[j].addr # None
      BY <1>1, <1>5, <3>2 DEF TableInv
    <3> QED
      BY <3>1, <3>2
  <2>2. Cardinality(Seats(r)) <= r.used
    BY <1>1, <1>2, <1>9 DEF TableInv
  <2> QED
    BY <1>3, <1>6, <1>8, <2>1, <2>2, TidyStep
<1>12. ASSUME Served(g), ~Ambiguous(g),
              \A j \in Idx : g.dev[j].addr = a => g.dev[j].state \notin {"PENDING_READY", "READY"}
       PROVE  Served(r)
  <2>1. g.dev[i].addr = a
    BY <1>10, <1>12 DEF Ambiguous
  <2>2. ASSUME NEW j \in Idx
        PROVE  ClientAt(r, j)
    BY <1>3, <1>5, <1>12, <2>1 DEF Served, ClientAt, Linked
  <2>3. ASSUME NEW j \in Idx
        PROVE  ReadyAt(r, j)
    <3>1. ClientAt(g, j) /\ ReadyAt(g, j)
      BY <1>12 DEF Served
    <3>2. CASE r.dev[j].state \notin {"PENDING_READY", "READY"}
      BY <1>5, <3>1, <3>2 DEF ReadyAt
    <3>3. CASE r.dev[j].state \in {"PENDING_READY", "READY"}
      <4>1. g.dev[j].addr # a
        BY <1>5, <1>12, <3>3
      <4>2. g.dev[j].cid \in Addrs \cup {None}
        BY <1>1, StateFields DEF Device
      <4>3. g.dev[j].addr \in Addrs /\ g.dev[j].cid # a /\ j # i
        BY <1>5, <2>1, <3>1, <3>3, <4>1, <4>2 DEF ReadyAt, ClientAt
      <4> QED
        BY <1>3, <1>5, <1>7, <3>1, <3>3, <4>1, <4>3 DEF ReadyAt
    <3> QED
      BY <3>2, <3>3
  <2>4. SeatInv(r)
    BY <1>2, <1>5, <1>9, <1>12 DEF Served, SeatInv
  <2> QED
    BY <2>2, <2>3, <2>4 DEF Served
<1>13. PauseOK(g) => PauseOK(r)
  <2>1. Paused(r) = Paused(g) /\ (Forgotten(g) => Forgotten(r))
    BY <1>2, <1>3, <1>5 DEF Paused, Forgotten
  <2>2. \A j \in Idx : Resumes(g, j) => Resumes(r, j)
    BY <1>3, <1>5 DEF Resumes, Linked
  <2> QED
    BY <2>1, <2>2 DEF PauseOK
<1> QED
  BY <1>11, <1>12, <1>13

\* uni_bt_le_on_gap_event_advertising_report(): the connection that is being made,
\* this one or another, resumes the scan.
LEMMA AdvertiseKeeps ==
  ASSUME NEW g, Tidy(g), NEW a \in Addrs, NEW r, r = HogConnect(Create(g, a), a),
         ~Linked(g.bt, a), ByAddr(g, a) = {}, Free(g) # {}
  PROVE  /\ Tidy(r)
         /\ Served(g) => Served(r)
         /\ Served(g) => PauseOK(r)
<1>1. g \in State /\ StageInv(g) /\ TableInv(g) /\ LinkInv(g)
  BY DEF Tidy
<1>2. PICK k \in Idx : k = Min(Free(g)) /\ g.dev[k].addr = None
  <2>1. Min(Free(g)) \in Free(g)
    BY MinIsFirst DEF Free
  <2> QED
    BY <2>1 DEF Free
<1>3. PICK d : d = [Empty EXCEPT !.addr = a, !.state = "DISCOVERED", !.connTimer = TRUE,
                                 !.handle = 0]
  OBVIOUS
<1>4. /\ d \in Device /\ d.addr = a /\ d.handle = 0 /\ d.state = "DISCOVERED" /\ d.connTimer
      /\ d.cid = None /\ d.seat = "zero" /\ ~d.connected /\ ~d.setup
  BY <1>3 DEF Empty, Device, States
<1>5. Create(g, a) = [g EXCEPT !.dev[k] = d]
  BY <1>2, <1>3 DEF Create
<1>6. /\ r.dev = [g.dev EXCEPT ![k] = d] /\ r.used = g.used /\ r.is_scanning = g.is_scanning
      /\ r.wanted = g.wanted
      /\ r.bt = [g.bt EXCEPT !.scan = FALSE, !.page = IF g.bt.page = None THEN a ELSE g.bt.page]
      /\ r = [dev |-> r.dev, used |-> r.used, is_scanning |-> r.is_scanning,
              wanted |-> r.wanted, bt |-> r.bt]
  BY <1>1, <1>5 DEF State, Stack, HogConnect
<1>7. /\ r.bt \in Stack /\ r.bt.link = g.bt.link /\ r.bt.info = g.bt.info
      /\ r.bt.page = IF g.bt.page = None THEN a ELSE g.bt.page
      /\ r.bt.leaving = g.bt.leaving /\ r.bt.hids = g.bt.hids /\ r.bt.sm = g.bt.sm
  BY <1>1, <1>6, StateFields DEF Stack
<1>8. r.dev[k] = d /\ \A j \in Idx : j # k => r.dev[j] = g.dev[j]
  BY <1>1, <1>6, StateFields
<1>9. r \in State
  <2>1. r.dev \in [Idx -> Device]
    BY <1>1, <1>4, <1>6, StateFields
  <2> QED
    BY <1>1, <1>6, <1>7, <2>1, StateFields DEF State
<1>10. \A j \in Idx : g.dev[j].addr # a
  BY DEF ByAddr
<1>11. g.dev[k] = Empty
  BY <1>1, <1>2 DEF TableInv
<1>12. Seats(r) = Seats(g)
  BY <1>4, <1>8, <1>11, EmptyIsDevice DEF Seats
<1>13. Tidy(r)
  <2>1. TableInv(r)
    BY <1>1, <1>4, <1>6, <1>8, <1>10, <1>12, NoneAssumption DEF TableInv
  <2>2. LinkInv(r)
    BY <1>1, <1>4, <1>7, <1>8 DEF LinkInv, Linked
  <2>3. StageInv(r)
    BY <1>1, <1>7 DEF StageInv, Linked
  <2> QED
    BY <1>9, <2>1, <2>2, <2>3 DEF Tidy
<1>14. ASSUME Served(g)
       PROVE  Served(r)
  <2>1. ASSUME NEW j \in Idx
        PROVE  ClientAt(r, j) /\ ReadyAt(r, j)
    <3>1. CASE j = k
      BY <1>4, <1>8, <3>1 DEF ClientAt, ReadyAt
    <3>2. CASE j # k
      BY <1>7, <1>8, <1>14, <3>2 DEF Served, ClientAt, ReadyAt, Linked
    <3> QED
      BY <3>1, <3>2
  <2>2. SeatInv(r)
    BY <1>4, <1>6, <1>8, <1>12, <1>14 DEF Served, SeatInv
  <2> QED
    BY <2>1, <2>2 DEF Served
<1>15. ASSUME Served(g)
       PROVE  PauseOK(r)
  <2>1. CASE g.bt.page = None
    <3>1. Resumes(r, k)
      BY <1>4, <1>7, <1>8, <2>1, NoneAssumption DEF Resumes
    <3> QED
      BY <3>1 DEF PauseOK
  <2>2. CASE g.bt.page = a
    <3>1. Resumes(r, k)
      BY <1>4, <1>7, <1>8, <2>2, NoneAssumption DEF Resumes
    <3> QED
      BY <3>1 DEF PauseOK
  <2>3. CASE Forgotten(g) /\ g.bt.page # a
    <3>1. r.bt.page = g.bt.page
      BY <1>7, <2>3 DEF Forgotten
    <3>2. Forgotten(r)
      BY <1>4, <1>8, <2>3, <3>1 DEF Forgotten
    <3> QED
      BY <3>2 DEF PauseOK
  <2>4. CASE g.bt.page # None /\ ~Forgotten(g)
    <3>1. PICK j \in Idx : g.dev[j].addr = g.bt.page
      BY <2>4 DEF Forgotten
    <3>2. ClientAt(g, j) /\ ReadyAt(g, j) /\ ~Linked(g.bt, g.dev[j].addr)
      BY <1>1, <1>15, <2>4, <3>1 DEF Served, StageInv
    <3>3. g.dev[j].state = "DISCOVERED"
      <4>1. g.dev[j].state \in States /\ g.dev[j].state # "NONE"
        BY <1>1, <2>4, <3>1, StateFields DEF TableInv, Device
      <4>2. g.dev[j].state \notin {"PENDING_READY", "READY"}
        BY <3>2 DEF ClientAt, ReadyAt
      <4> QED
        BY <4>1, <4>2 DEF States
    <3>4. j # k
      BY <1>2, <2>4, <3>1
    <3>5. Resumes(r, j)
      BY <1>7, <1>8, <2>4, <3>1, <3>3, <3>4 DEF Resumes
    <3> QED
      BY <3>5 DEF PauseOK
  <2> QED
    BY <2>1, <2>2, <2>3, <2>4
<1> QED
  BY <1>13, <1>14, <1>15

\* What every handler does: the table stays right, and as long as no handle was
\* ambiguous every device is served and a pause has an end.
Good(g, r) ==
  /\ Tidy(r)
  /\ Served(g) /\ ~Ambiguous(g) => Ambiguous(r) \/ Served(r)
  /\ Served(g) /\ ~Ambiguous(g) /\ PauseOK(g) /\ (g.bt.scan \/ ~Forgotten(g)) =>
       Ambiguous(r) \/ PauseOK(r)

\* uni_bt_le_on_hci_event_le_meta(), for a link somebody waits for ...
LEMMA CompleteKeeps ==
  ASSUME NEW g, Tidy(g), NEW a \in Addrs, NEW h \in Handles, NEW s \in {"encrypt", "pair"},
         g.bt.page = a, Owners(g.bt, h) = {}, NEW i \in Idx, g.dev[i].addr = a,
         NEW r, r = [g EXCEPT !.bt.page = None, !.bt.link[a] = h, !.dev[i].handle = h,
                              !.bt.sm[a] = s]
  PROVE  Good(g, r)
<1>1. g \in State /\ StageInv(g) /\ TableInv(g) /\ LinkInv(g) /\ g.dev[i] \in Device
  BY StateFields DEF Tidy
<1>2. PICK d : d = [g.dev[i] EXCEPT !.handle = h]
  OBVIOUS
<1>3. /\ d \in Device /\ d.addr = a /\ d.handle = h /\ d.state = g.dev[i].state
      /\ d.connTimer = g.dev[i].connTimer /\ d.cid = g.dev[i].cid /\ d.seat = g.dev[i].seat
      /\ d.connected = g.dev[i].connected /\ d.setup = g.dev[i].setup
  BY <1>1, <1>2 DEF Device
<1>4. /\ r.dev = [g.dev EXCEPT ![i] = d] /\ r.used = g.used /\ r.is_scanning = g.is_scanning
      /\ r.wanted = g.wanted
      /\ r.bt = [g.bt EXCEPT !.page = None, !.link = [g.bt.link EXCEPT ![a] = h],
                             !.sm = [g.bt.sm EXCEPT ![a] = s]]
      /\ r = [dev |-> r.dev, used |-> r.used, is_scanning |-> r.is_scanning,
              wanted |-> r.wanted, bt |-> r.bt]
  BY <1>1, <1>2 DEF State, Stack
<1>5. /\ r.bt \in Stack /\ r.bt.link = [g.bt.link EXCEPT ![a] = h] /\ r.bt.info = g.bt.info
      /\ r.bt.page = None /\ r.bt.scan = g.bt.scan
      /\ r.bt.leaving = g.bt.leaving /\ r.bt.hids = g.bt.hids
      /\ r.bt.sm = [g.bt.sm EXCEPT ![a] = s]
  <2>1. PICK link \in [Addrs -> Handles \cup {NoHandle}] : link = [g.bt.link EXCEPT ![a] = h]
    BY <1>1, StateFields
  <2>2. PICK sm \in [Addrs -> {None, "encrypt", "pair"}] : sm = [g.bt.sm EXCEPT ![a] = s]
    BY <1>1, StateFields
  <2>3. r.bt = [g.bt EXCEPT !.page = None, !.link = link, !.sm = sm]
    BY <1>4, <2>1, <2>2
  <2>4. g.bt \in Stack
    BY <1>1, StateFields
  <2>5. /\ r.bt \in Stack
        /\ r.bt.link = link /\ r.bt.page = None /\ r.bt.sm = sm /\ r.bt.info = g.bt.info
        /\ r.bt.scan = g.bt.scan /\ r.bt.leaving = g.bt.leaving /\ r.bt.hids = g.bt.hids
    <3>1. PICK b \in Stack : b = g.bt
      BY <1>1, StateFields
    <3>2. PICK q : q = r.bt
      OBVIOUS
    <3>3. PICK m \in [Addrs -> {None, "encrypt", "pair"}] : m = sm
      BY <2>2, <2>4
    <3>4. q = [b EXCEPT !.page = None, !.link = link, !.sm = m]
      BY <2>3, <3>1, <3>2, <3>3
    <3>5. /\ q \in Stack
          /\ q.link = link /\ q.page = None /\ q.sm = m /\ q.info = b.info /\ q.scan = b.scan
          /\ q.leaving = b.leaving /\ q.hids = b.hids
      BY <2>1, <3>1, <3>3, <3>4 DEF Stack
    <3> QED
      BY <3>1, <3>2, <3>3, <3>5
  <2> QED
    BY <2>1, <2>2, <2>5
<1>6. r.dev[i] = d /\ \A j \in Idx : j # i => r.dev[j] = g.dev[j]
  BY <1>1, <1>4, StateFields
<1>7. r \in State
  <2>1. r.dev \in [Idx -> Device]
    BY <1>1, <1>3, <1>4, StateFields
  <2> QED
    BY <1>1, <1>4, <1>5, <2>1, StateFields DEF State
<1>8. /\ r.bt.link[a] = h /\ \A b \in Addrs : b # a => r.bt.link[b] = g.bt.link[b]
      /\ r.bt.sm[a] = s /\ \A b \in Addrs : b # a => r.bt.sm[b] = g.bt.sm[b]
  BY <1>1, <1>5, StateFields
<1>9. ~Linked(g.bt, a) /\ h # NoHandle /\ \A b \in Addrs : g.bt.link[b] # h
  BY <1>1, EmptyIsDevice, NoneAssumption DEF StageInv, Owners
<1>10. Seats(r) = Seats(g)
  BY <1>3, <1>6 DEF Seats
<1>11. /\ \A b \in Addrs : Linked(r.bt, b) <=> Linked(g.bt, b) \/ b = a
       /\ \A j \in Idx : r.dev[j].addr = g.dev[j].addr /\ (j # i => r.dev[j].addr # a)
  BY <1>1, <1>3, <1>6, <1>8, <1>9, NoneAssumption DEF Linked, TableInv
<1>12. \A j \in Idx : r.dev[j].addr \in Addrs \cup {None}
  BY <1>7, StateFields DEF Device
<1>13. Tidy(r)
  <2>1. TableInv(r)
    <3>1. \A j \in Idx : /\ r.dev[j].addr = None => r.dev[j] = Empty
                         /\ r.dev[j].addr # None => r.dev[j].state # "NONE"
                         /\ r.dev[j].connected <=> r.dev[j].seat # "zero"
      BY <1>1, <1>3, <1>6, NoneAssumption DEF TableInv
    <3>2. \A j, k \in Idx : r.dev[j].addr = r.dev[k].addr /\ r.dev[j].addr # None => j = k
      BY <1>1, <1>11 DEF TableInv
    <3> QED
      BY <1>1, <1>4, <1>10, <3>1, <3>2 DEF TableInv
  <2>2. LinkInv(r)
    <3>1. \A b, c \in Addrs : Linked(r.bt, b) /\ r.bt.link[b] = r.bt.link[c] => b = c
      BY <1>1, <1>8, <1>9, <1>11 DEF LinkInv, Linked
    <3>2. ASSUME NEW j \in Idx, r.dev[j].addr # None
          PROVE  IF Linked(r.bt, r.dev[j].addr) THEN r.dev[j].handle = r.bt.link[r.dev[j].addr]
                 ELSE r.dev[j].handle \in {0, NoHandle}
      <4>1. CASE j = i
        BY <1>3, <1>6, <1>8, <1>9, <4>1 DEF Linked
      <4>2. CASE j # i
        <5>1. PICK b \in Addrs : b = r.dev[j].addr /\ b # a
          BY <1>11, <1>12, <3>2, <4>2
        <5> QED
          BY <1>1, <1>6, <1>8, <3>2, <4>2, <5>1 DEF LinkInv, Linked
      <4> QED
        BY <4>1, <4>2
    <3> QED
      BY <3>1, <3>2 DEF LinkInv
  <2>3. StageInv(r)
    <3>1. g.bt.info # a /\ g.bt.hids[a] = None /\ g.bt.info \in Addrs \cup {None}
      BY <1>1, <1>9, NoneAssumption, StateFields DEF StageInv
    <3>2. r.bt.info # None => Linked(r.bt, r.bt.info) /\ r.bt.hids[r.bt.info] = None
      BY ONLY <1>1, <1>5, <1>11, <3>1 DEF StageInv
    <3>3. ASSUME NEW b \in Addrs
          PROVE  /\ r.bt.sm[b] # None => Linked(r.bt, b) /\ r.bt.info # b /\ r.bt.hids[b] = None
                 /\ r.bt.hids[b] # None => Linked(r.bt, b)
      <4>1. CASE b = a
        BY ONLY <1>5, <1>11, <3>1, <4>1, a \in Addrs
      <4>2. CASE b # a
        BY ONLY <1>1, <1>5, <1>8, <1>11, <4>2, b \in Addrs DEF StageInv
      <4> QED
        BY ONLY <4>1, <4>2
    <3> QED
      BY ONLY <1>5, <3>2, <3>3 DEF StageInv
  <2> QED
    BY <1>7, <2>1, <2>2, <2>3 DEF Tidy
<1>14. ASSUME Served(g)
       PROVE  Served(r)
  <2>1. ASSUME NEW j \in Idx
        PROVE  ClientAt(r, j) /\ ReadyAt(r, j)
    <3>0. ClientAt(g, j) /\ ReadyAt(g, j) /\ g.dev[j].cid \in Addrs \cup {None}
      BY <1>1, <1>14, StateFields DEF Served, Device
    <3>1. CASE j = i
      <4>1. g.dev[i].cid = None
        BY <1>9, <3>0, <3>1 DEF ClientAt
      <4> QED
        BY <1>3, <1>6, <3>0, <3>1, <4>1 DEF ClientAt, ReadyAt
    <3>2. CASE j # i
      <4>1. CASE g.dev[j].cid = None
        BY <1>6, <3>0, <3>2, <4>1 DEF ClientAt, ReadyAt
      <4>2. CASE g.dev[j].cid # None
        <5>1. PICK b \in Addrs : b = g.dev[j].addr /\ b # a
          BY <1>11, <3>0, <3>2, <4>2 DEF ClientAt
        <5> QED
          BY <1>5, <1>6, <1>8, <1>11, <3>0, <3>2, <4>2, <5>1 DEF ClientAt, ReadyAt
      <4> QED
        BY <4>1, <4>2
    <3> QED
      BY <3>1, <3>2
  <2>2. SeatInv(r)
    BY <1>3, <1>4, <1>6, <1>10, <1>14 DEF Served, SeatInv
  <2> QED
    BY <2>1, <2>2 DEF Served
<1>15. ASSUME PauseOK(g)
       PROVE  PauseOK(r)
  <2>1. Paused(r) = Paused(g) /\ ~Forgotten(g)
    BY <1>4, <1>5 DEF Paused, Forgotten
  <2>2. ASSUME NEW j \in Idx, Resumes(g, j)
        PROVE  Resumes(r, j)
    <3>1. r.dev[j].addr = g.dev[j].addr /\ r.dev[j].state = g.dev[j].state
      BY <1>3, <1>6
    <3>2. r.dev[j].addr \in Addrs
      BY <1>12, <2>2, <3>1 DEF Resumes
    <3> QED
      BY <1>11, <2>2, <3>1, <3>2 DEF Resumes
  <2> QED
    BY <1>15, <2>1, <2>2 DEF PauseOK
<1> QED
  BY ONLY <1>13, <1>14, <1>15 DEF Good

\* ... and for one that nobody waits for any more.
LEMMA CompleteForgottenKeeps ==
  ASSUME NEW g, Tidy(g), NEW a \in Addrs, NEW h \in Handles,
         g.bt.page = a, Owners(g.bt, h) = {}, \A i \in Idx : g.dev[i].addr # a,
         NEW r, r = [g EXCEPT !.bt.page = None, !.bt.link[a] = h]
  PROVE  Good(g, r)
<1>1. g \in State /\ StageInv(g) /\ TableInv(g) /\ LinkInv(g)
  BY StateFields DEF Tidy
<1>2. /\ r.dev = g.dev /\ r.used = g.used /\ r.is_scanning = g.is_scanning
      /\ r.wanted = g.wanted
      /\ r.bt = [g.bt EXCEPT !.page = None, !.link = [g.bt.link EXCEPT ![a] = h]]
      /\ r = [dev |-> r.dev, used |-> r.used, is_scanning |-> r.is_scanning,
              wanted |-> r.wanted, bt |-> r.bt]
  BY <1>1 DEF State, Stack
<1>3. /\ r.bt \in Stack /\ r.bt.link = [g.bt.link EXCEPT ![a] = h] /\ r.bt.info = g.bt.info
      /\ r.bt.page = None /\ r.bt.scan = g.bt.scan
      /\ r.bt.leaving = g.bt.leaving /\ r.bt.hids = g.bt.hids /\ r.bt.sm = g.bt.sm
  <2>1. PICK link \in [Addrs -> Handles \cup {NoHandle}] : link = [g.bt.link EXCEPT ![a] = h]
    BY <1>1, StateFields
  <2>2. r.bt = [g.bt EXCEPT !.page = None, !.link = link] /\ g.bt \in Stack
    BY <1>1, <1>2, <2>1, StateFields
  <2>3. r.bt = [g.bt EXCEPT !.page = None, !.link = link, !.sm = g.bt.sm]
    BY <2>2 DEF Stack
  <2>4. g.bt.sm \in [Addrs -> {None, "encrypt", "pair"}]
    BY <1>1, StateFields
  <2>5. /\ r.bt \in Stack
        /\ r.bt.link = link /\ r.bt.page = None /\ r.bt.sm = g.bt.sm /\ r.bt.info = g.bt.info
        /\ r.bt.scan = g.bt.scan /\ r.bt.leaving = g.bt.leaving /\ r.bt.hids = g.bt.hids
    <3>1. PICK b \in Stack : b = g.bt
      BY <1>1, StateFields
    <3>2. PICK q : q = r.bt
      OBVIOUS
    <3>3. PICK m \in [Addrs -> {None, "encrypt", "pair"}] : m = g.bt.sm
      BY <2>2, <2>4
    <3>4. q = [b EXCEPT !.page = None, !.link = link, !.sm = m]
      BY <2>3, <3>1, <3>2, <3>3
    <3>5. /\ q \in Stack
          /\ q.link = link /\ q.page = None /\ q.sm = m /\ q.info = b.info /\ q.scan = b.scan
          /\ q.leaving = b.leaving /\ q.hids = b.hids
      BY <2>1, <3>1, <3>3, <3>4 DEF Stack
    <3> QED
      BY <3>1, <3>2, <3>3, <3>5
  <2> QED
    BY <2>1, <2>5
<1>4. r \in State
  BY <1>1, <1>2, <1>3, StateFields DEF State
<1>5. r.bt.link[a] = h /\ \A b \in Addrs : b # a => r.bt.link[b] = g.bt.link[b]
  BY <1>1, <1>3, StateFields
<1>6. ~Linked(g.bt, a) /\ h # NoHandle /\ \A b \in Addrs : g.bt.link[b] # h
  BY <1>1, EmptyIsDevice, NoneAssumption DEF StageInv, Owners
<1>7. \A b \in Addrs : Linked(r.bt, b) <=> Linked(g.bt, b) \/ b = a
  BY <1>5, <1>6 DEF Linked
<1>8. Seats(r) = Seats(g)
  BY <1>2 DEF Seats
<1>9. TableInv(r)
  BY <1>1, <1>2, <1>8 DEF TableInv
<1>10. LinkInv(r)
  <2>1. \A b, c \in Addrs : Linked(r.bt, b) /\ r.bt.link[b] = r.bt.link[c] => b = c
    BY <1>1, <1>5, <1>6, <1>7 DEF LinkInv, Linked
  <2>2. ASSUME NEW j \in Idx, r.dev[j].addr # None
        PROVE  IF Linked(r.bt, r.dev[j].addr) THEN r.dev[j].handle = r.bt.link[r.dev[j].addr]
               ELSE r.dev[j].handle \in {0, NoHandle}
    <3>1. PICK b \in Addrs : b = g.dev[j].addr /\ b # a
      BY <1>1, <1>2, <2>2, StateFields DEF Device
    <3> QED
      BY <1>1, <1>2, <1>5, <2>2, <3>1 DEF LinkInv, Linked
  <2> QED
    BY <2>1, <2>2 DEF LinkInv
<1>11. StageInv(r)
  <2>1. g.bt.info \in Addrs \cup {None}
    BY <1>1, StateFields
  <2> QED
    BY <1>1, <1>3, <1>7, <2>1 DEF StageInv
<1>12. ASSUME Served(g)
       PROVE  Served(r)
  <2>1. ASSUME NEW j \in Idx
        PROVE  ClientAt(r, j) /\ ReadyAt(r, j)
    <3>1. ClientAt(g, j) /\ ReadyAt(g, j) /\ g.dev[j].cid \in Addrs \cup {None}
      BY <1>1, <1>12, StateFields DEF Served, Device
    <3> QED
      BY <1>2, <1>3, <1>7, <3>1 DEF ClientAt, ReadyAt
  <2>2. SeatInv(r)
    BY <1>2, <1>8, <1>12 DEF Served, SeatInv
  <2> QED
    BY <2>1, <2>2 DEF Served
<1>13. Tidy(r)
  BY <1>4, <1>9, <1>10, <1>11 DEF Tidy
<1>14. Forgotten(g)
  BY NoneAssumption DEF Forgotten
<1>15. g.bt.scan => PauseOK(r)
  BY <1>3 DEF PauseOK, Paused
<1> QED
  BY ONLY <1>12, <1>13, <1>14, <1>15 DEF Good

\* resume_scanning_hint() ends a pause and changes nothing else.
LEMMA ResumeKeeps ==
  ASSUME NEW g, Tidy(g)
  PROVE  /\ Tidy(Resume(g)) /\ ~Paused(Resume(g))
         /\ ~Ambiguous(g) => ~Ambiguous(Resume(g))
         /\ Served(g) => Served(Resume(g))
<1>1. g \in State /\ StageInv(g) /\ TableInv(g)
  BY DEF Tidy
<1>2. PICK r : r = Resume(g)
  OBVIOUS
<1>3. /\ r \in State /\ r.dev = g.dev /\ r.used = g.used
      /\ r.bt.link = g.bt.link /\ r.bt.page = g.bt.page
      /\ r.bt.sm = g.bt.sm /\ r.bt.info = g.bt.info
      /\ r.bt.leaving = g.bt.leaving /\ r.bt.hids = g.bt.hids
      /\ ~Paused(r)
  BY <1>1, <1>2, ResumeIs
<1>4. StageInv(r)
  BY <1>1, <1>3 DEF StageInv, Linked
<1>5. Seats(r) = Seats(g)
  BY <1>3 DEF Seats
<1>6. Cardinality(Seats(r)) <= r.used
  BY <1>1, <1>3, <1>5 DEF TableInv
<1>7. \A j \in Idx : r.dev[j] = g.dev[j]
  BY <1>3
<1>8. Tidy(r) /\ (~Ambiguous(g) => ~Ambiguous(r))
  BY <1>3, <1>4, <1>6, <1>7, TidyStep
<1>9. ASSUME Served(g)
      PROVE  Served(r)
  BY <1>3, <1>5, <1>9 DEF Served, ClientAt, ReadyAt, SeatInv, Linked
<1> QED
  BY <1>2, <1>3, <1>8, <1>9

\* The place is the same but that a timer or a set-up may have ended.
TimersEnd(c, d) ==
  /\ d.addr = c.addr /\ d.handle = c.handle /\ d.state = c.state /\ d.cid = c.cid
  /\ d.connected = c.connected /\ d.seat = c.seat
  /\ d.setup => c.setup
  /\ d.connTimer = c.connTimer \/ d.state = "READY"

\* A timer or a set-up of a device ends.
LEMMA PlaceKeeps ==
  ASSUME NEW g, Tidy(g), NEW i \in Idx, g.dev[i].addr # None, NEW d \in Device,
         TimersEnd(g.dev[i], d),
         NEW r \in State, r.dev = [g.dev EXCEPT ![i] = d], r.used = g.used,
         r.is_scanning = g.is_scanning, r.bt = g.bt
  PROVE  Keeps(g, r)
<1>1. g \in State /\ StageInv(g) /\ TableInv(g)
  BY DEF Tidy
<1>2. r.dev[i] = d /\ \A j \in Idx : j # i => r.dev[j] = g.dev[j]
  BY <1>1, StateFields
<1>3. StageInv(r)
  BY <1>1 DEF StageInv
<1>4. Seats(r) = Seats(g)
  BY <1>2 DEF Seats, TimersEnd
<1>5. Cardinality(Seats(r)) <= r.used
  BY <1>1, <1>4 DEF TableInv
<1>6. \A j \in Idx : /\ r.dev[j].addr = g.dev[j].addr /\ r.dev[j].handle = g.dev[j].handle
                     /\ r.dev[j].state = g.dev[j].state /\ r.dev[j].cid = g.dev[j].cid
                     /\ r.dev[j].seat = g.dev[j].seat
                     /\ r.dev[j].setup => g.dev[j].setup
                     /\ r.dev[j].connTimer = g.dev[j].connTimer \/ r.dev[j].state = "READY"
  BY <1>2 DEF TimersEnd
<1>7. \A j \in Idx : \/ r.dev[j] = g.dev[j]
                     \/ /\ g.dev[j].addr # None /\ r.dev[j].state # "NONE"
                        /\ r.dev[j].addr = g.dev[j].addr /\ r.dev[j].handle = g.dev[j].handle
                        /\ r.dev[j].connected <=> r.dev[j].seat # "zero"
  BY <1>1, <1>2 DEF TableInv, TimersEnd
<1>8. Tidy(r) /\ (~Ambiguous(g) => ~Ambiguous(r))
  BY <1>3, <1>5, <1>7, TidyStep
<1>9. ASSUME Served(g)
      PROVE  Served(r)
  <2>1. \A j \in Idx : ClientAt(r, j) /\ ReadyAt(r, j)
    BY <1>6, <1>9 DEF Served, ClientAt, ReadyAt
  <2>2. SeatInv(r)
    BY <1>4, <1>6, <1>9 DEF Served, SeatInv
  <2> QED
    BY <2>1, <2>2 DEF Served
<1>10. ASSUME PauseOK(g)
       PROVE  PauseOK(r)
  <2>1. Forgotten(r) = Forgotten(g) /\ Paused(r) = Paused(g)
    BY <1>6 DEF Forgotten, Paused
  <2>2. \A j \in Idx : Resumes(g, j) => Resumes(r, j)
    BY <1>6 DEF Resumes
  <2> QED
    BY <1>10, <2>1, <2>2 DEF PauseOK
<1> QED
  BY <1>8, <1>9, <1>10 DEF Keeps

\* The connection timer of a device that is ready just ends.
LEMMA TimerKeeps ==
  ASSUME NEW g, Tidy(g), NEW i \in Idx, g.dev[i].state = "READY",
         NEW r, r = [g EXCEPT !.dev[i].connTimer = FALSE]
  PROVE  /\ Tidy(r)
         /\ ~Ambiguous(g) => ~Ambiguous(r)
         /\ Served(g) => Served(r)
         /\ PauseOK(g) => PauseOK(r)
<1>1. g \in State /\ TableInv(g) /\ g.dev[i] \in Device
  BY StateFields DEF Tidy
<1>2. g.dev[i].addr # None
  BY <1>1, EmptyIsDevice DEF TableInv
<1>3. PICK d : d = [g.dev[i] EXCEPT !.connTimer = FALSE]
  OBVIOUS
<1>4. /\ d \in Device /\ d.addr = g.dev[i].addr /\ d.handle = g.dev[i].handle
      /\ d.state = g.dev[i].state /\ d.cid = g.dev[i].cid /\ d.connected = g.dev[i].connected
      /\ d.seat = g.dev[i].seat /\ d.setup = g.dev[i].setup
  BY <1>1, <1>3 DEF Device
<1>5. /\ r.dev = [g.dev EXCEPT ![i] = d] /\ r.used = g.used /\ r.is_scanning = g.is_scanning
      /\ r.wanted = g.wanted /\ r.bt = g.bt
      /\ r = [dev |-> r.dev, used |-> r.used, is_scanning |-> r.is_scanning,
              wanted |-> r.wanted, bt |-> r.bt]
  BY <1>1, <1>3 DEF State
<1>6. r \in State
  <2>1. r.dev \in [Idx -> Device]
    BY <1>1, <1>4, <1>5, StateFields
  <2> QED
    BY <1>1, <1>5, <2>1, StateFields DEF State
<1>7. TimersEnd(g.dev[i], d)
  BY <1>4 DEF TimersEnd
<1>8. d \in Device /\ r.dev = [g.dev EXCEPT ![i] = d] /\ r.used = g.used
  BY <1>4, <1>5
<1>9. Keeps(g, r)
  BY ONLY <1>2, <1>5, <1>6, <1>7, <1>8, Tidy(g), i \in Idx, PlaceKeeps
<1> QED
  BY <1>9 DEF Keeps

\* The set-up of a parser was begun for a device that gets ready.
LEMMA SetupKeeps ==
  ASSUME NEW g, Tidy(g), NEW i \in Idx, g.dev[i].setup,
         NEW r, r = [g EXCEPT !.dev[i].setup = FALSE]
  PROVE  /\ Keeps(g, r) /\ r.dev[i].addr # None
         /\ Served(g) => r.dev[i].state \in {"PENDING_READY", "READY"}
<1>1. g \in State /\ TableInv(g) /\ g.dev[i] \in Device
  BY StateFields DEF Tidy
<1>2. g.dev[i].addr # None
  BY <1>1, EmptyIsDevice DEF TableInv
<1>3. PICK d : d = [g.dev[i] EXCEPT !.setup = FALSE]
  OBVIOUS
<1>4. /\ d \in Device /\ d.addr = g.dev[i].addr /\ d.handle = g.dev[i].handle
      /\ d.state = g.dev[i].state /\ d.cid = g.dev[i].cid /\ d.connected = g.dev[i].connected
      /\ d.seat = g.dev[i].seat /\ d.connTimer = g.dev[i].connTimer /\ ~d.setup
  BY <1>1, <1>3 DEF Device
<1>5. /\ r.dev = [g.dev EXCEPT ![i] = d] /\ r.used = g.used /\ r.is_scanning = g.is_scanning
      /\ r.wanted = g.wanted /\ r.bt = g.bt
      /\ r = [dev |-> r.dev, used |-> r.used, is_scanning |-> r.is_scanning,
              wanted |-> r.wanted, bt |-> r.bt]
  BY <1>1, <1>3 DEF State
<1>6. r \in State
  <2>1. r.dev \in [Idx -> Device]
    <3>1. d \in Device /\ g.dev \in [Idx -> Device]
      BY <1>1, <1>4, StateFields
    <3> QED
      BY <1>5, <3>1
  <2> QED
    BY <1>1, <1>5, <2>1, StateFields DEF State
<1>7. Keeps(g, r)
  <2>1. TimersEnd(g.dev[i], d)
    BY <1>4 DEF TimersEnd
  <2>2. d \in Device /\ r.dev = [g.dev EXCEPT ![i] = d] /\ r.used = g.used
    BY <1>4, <1>5
  <2> QED
    BY ONLY <1>2, <1>5, <1>6, <2>1, <2>2, Tidy(g), i \in Idx, PlaceKeeps, Zenon
<1>8. r.dev[i] = d
  BY <1>1, <1>5, StateFields
<1>9. Served(g) => g.dev[i].state \in {"PENDING_READY", "READY"}
  BY DEF Served, ReadyAt
<1> QED
  BY <1>2, <1>4, <1>7, <1>8, <1>9

\* hog_disconnect() disturbs nothing, whatever link it takes down.
LEMMA HogKeeps ==
  ASSUME NEW g, Tidy(g), NEW h
  PROVE  /\ Keeps(g, HogDisconnect(g, h))
         /\ HogDisconnect(g, h).dev = g.dev /\ HogDisconnect(g, h).bt.link = g.bt.link
         /\ HogDisconnect(g, h).used = g.used /\ HogDisconnect(g, h).bt.info = g.bt.info
<1>1. g \in State
  BY DEF Tidy
<1>2. ~Paused(HogDisconnect(g, h))
  BY <1>1, HogDisconnectIs
<1>3. /\ HogDisconnect(g, h).dev = g.dev /\ HogDisconnect(g, h).bt.link = g.bt.link
      /\ HogDisconnect(g, h).used = g.used /\ HogDisconnect(g, h).bt.info = g.bt.info
  BY <1>1, HogDisconnectIs
<1>4. PauseOK(HogDisconnect(g, h))
  BY <1>2 DEF PauseOK
<1> QED
  BY <1>3, <1>4, HogDisconnectKeeps DEF Keeps

\* The security manager and the device information client tell that a link is
\* lost, before it is.
LEMMA LostKeeps ==
  ASSUME NEW g, Tidy(g), NEW a \in Addrs, NEW r, r = InfoLost(SmLost(g, a), a)
  PROVE  /\ Keeps(g, r)
         /\ r.dev = g.dev /\ r.bt.link = g.bt.link /\ r.used = g.used /\ r.bt.info # a
<1>1. PICK p : p = SmLost(g, a)
  OBVIOUS
<1>2. Keeps(g, p) /\ p.dev = g.dev /\ p.bt.link = g.bt.link /\ p.used = g.used
  <2>1. CASE p = g
    BY <2>1 DEF Keeps
  <2>2. CASE p = HogDisconnect(g, g.bt.link[a])
    BY <2>2, HogKeeps
  <2> QED
    BY <1>1, <2>1, <2>2 DEF SmLost
<1>3. Tidy(p) /\ a # None
  BY <1>2, NoneAssumption DEF Keeps
<1>4. CASE p.bt.info # a
  <2>1. r = p
    BY <1>1, <1>4 DEF InfoLost
  <2> QED
    BY <1>2, <1>4, <2>1
<1>5. CASE p.bt.info = a
  <2>1. PICK q : q = [p EXCEPT !.bt.info = None]
    OBVIOUS
  <2>2. /\ Tidy(q) /\ q.bt.info = None /\ q.dev = p.dev /\ q.bt.link = p.bt.link
        /\ Keeps(p, q)
    BY <1>3, <2>1, InfoDoneKeeps DEF Keeps
  <2>3. q.used = p.used
    BY <1>3, <2>1 DEF Tidy, State
  <2>4. r = HogDisconnect(q, p.bt.link[a])
    BY <1>1, <1>5, <2>1 DEF InfoLost
  <2>5. /\ Keeps(q, r) /\ r.dev = q.dev /\ r.bt.link = q.bt.link /\ r.used = q.used
        /\ r.bt.info = None
    BY <2>2, <2>4, HogKeeps
  <2> QED
    BY <1>2, <1>3, <2>2, <2>3, <2>5 DEF Keeps
<1> QED
  BY <1>4, <1>5

\* When the last is told of a lost link, its device is deleted.
LEMMA LostDeleted ==
  ASSUME NEW g, Tidy(g), NEW a \in Addrs, Linked(g.bt, a), g.bt.hids[a] = None,
         g.bt.info # a, NEW r, r = OnDisconnectionComplete(g, a)
  PROVE  /\ Tidy(r) /\ r.bt.link = g.bt.link /\ r.bt.hids[a] = None /\ r.bt.info # a
         /\ \A i \in Idx : r.dev[i].addr = a => r.dev[i].handle \in {0, NoHandle}
         /\ /\ ~Ambiguous(g) /\ SeatInv(g)
            /\ \A i \in Idx : ClientAt(g, i) /\ (g.dev[i].addr # a => ReadyAt(g, i))
            => Served(r) /\ \A i \in Idx : r.dev[i].addr # a
         /\ PauseOK(g) => PauseOK(r)
<1>1. g \in State /\ TableInv(g) /\ LinkInv(g) /\ a # None
  BY NoneAssumption DEF Tidy
<1>2. PICK h : h = g.bt.link[a] /\ h # NoHandle
  BY DEF Linked
<1>3. \A i \in Idx : g.dev[i].addr = a => g.dev[i].handle = h
  BY <1>1, <1>2 DEF LinkInv, Linked
<1>4. CASE ByHandle(g, h) = {}
  <2>1. r = g
    BY <1>2, <1>4 DEF OnDisconnectionComplete
  <2>2. \A i \in Idx : g.dev[i].addr # a
    BY <1>2, <1>3, <1>4, ByHandleFits
  <2> QED
    BY <2>1, <2>2 DEF Served
<1>5. CASE ByHandle(g, h) # {}
  <2>1. PICK i \in Idx : i = Min(ByHandle(g, h)) /\ g.dev[i].handle = h
    BY <1>5, ByHandleFits
  <2>2. PICK p : p = Delete(g, i)
    OBVIOUS
  <2>3. r = Resume(p)
    BY <1>2, <1>5, <2>1, <2>2 DEF OnDisconnectionComplete
  <2>4. /\ Tidy(p) /\ (~Ambiguous(g) => ~Ambiguous(p))
        /\ (\A j \in Idx : ClientAt(g, j) /\ (j # i => ReadyAt(g, j))) /\ SeatInv(g) => Served(p)
    BY <2>2, DeleteKeeps
  <2>5. /\ p \in State /\ p.dev = [g.dev EXCEPT ![i] = Empty] /\ p.bt.link = g.bt.link
        /\ p.bt.info = g.bt.info
    BY <1>1, <2>2, DeleteIs
  <2>6. p.bt.hids[a] = None
    BY <1>1, <2>2, DeleteIs
  <2>7. /\ Tidy(r) /\ ~Paused(r) /\ (Served(p) => Served(r))
    BY <2>3, <2>4, ResumeKeeps
  <2>8. r.dev = p.dev /\ r.bt.link = p.bt.link /\ r.bt.info = p.bt.info /\ r.bt.hids = p.bt.hids
    BY <2>3, <2>5, ResumeIs
  <2>9. r.dev[i] = Empty /\ \A j \in Idx : j # i => r.dev[j] = g.dev[j]
    BY <1>1, <2>5, <2>8, StateFields
  <2>10. ASSUME NEW j \in Idx, r.dev[j].addr = a
         PROVE  r.dev[j].handle \in {0, NoHandle}
    <3>1. j # i /\ g.dev[j].addr = a /\ r.dev[j].handle = h
      BY <1>1, <1>3, <2>9, <2>10, EmptyIsDevice
    <3>2. CASE h = 0
      BY <3>1, <3>2
    <3>3. CASE h # 0
      <4>1. g.dev[i].addr # None
        BY <1>1, <1>2, <2>1, EmptyIsDevice DEF TableInv
      <4>2. g.dev[i].addr \in Addrs
        BY <1>1, <4>1, StateFields DEF Device
      <4>3. Linked(g.bt, g.dev[i].addr) /\ g.bt.link[g.dev[i].addr] = h
        BY <1>1, <1>2, <2>1, <3>3, <4>1 DEF LinkInv
      <4>4. g.dev[i].addr = a
        BY <1>1, <1>2, <4>2, <4>3 DEF LinkInv
      <4> QED
        BY <1>1, <3>1, <4>4 DEF TableInv
    <3> QED
      BY <3>2, <3>3
  <2>11. ASSUME ~Ambiguous(g), SeatInv(g),
                \A j \in Idx : ClientAt(g, j) /\ (g.dev[j].addr # a => ReadyAt(g, j))
         PROVE  Served(r) /\ \A j \in Idx : r.dev[j].addr # a
    <3>1. g.dev[i].addr = a
      BY <1>2, <2>1, <2>11 DEF Ambiguous
    <3>2. \A j \in Idx : j # i => g.dev[j].addr # a
      BY <1>1, <3>1 DEF TableInv
    <3>3. Served(p)
      BY <2>4, <2>11, <3>2
    <3> QED
      BY <1>1, <2>7, <2>9, <3>2, <3>3, EmptyIsDevice
  <2> QED
    BY <2>5, <2>6, <2>7, <2>8, <2>10, <2>11 DEF PauseOK
<1> QED
  BY <1>4, <1>5

\* A handle that is no link's any more.
LEMMA UnlinkKeeps ==
  ASSUME NEW g, Tidy(g), NEW a \in Addrs, g.bt.hids[a] = None, g.bt.info # a,
         \A i \in Idx : g.dev[i].addr = a => g.dev[i].handle \in {0, NoHandle},
         NEW r, r = [g EXCEPT !.bt.link[a] = NoHandle, !.bt.leaving = @ \ {a}, !.bt.sm[a] = None]
  PROVE  /\ Tidy(r)
         /\ (\A i \in Idx : g.dev[i].addr # a) /\ Served(g) => Served(r)
         /\ (\A i \in Idx : g.dev[i].addr # a) /\ PauseOK(g) => PauseOK(r)
<1>1. g \in State /\ StageInv(g) /\ TableInv(g) /\ LinkInv(g)
  BY DEF Tidy
<1>2. PICK link : link = [g.bt.link EXCEPT ![a] = NoHandle]
  OBVIOUS
<1>3. PICK sm : sm = [g.bt.sm EXCEPT ![a] = None]
  OBVIOUS
<1>4. PICK leaving : leaving = g.bt.leaving \ {a}
  OBVIOUS
<1>5. /\ link \in [Addrs -> Handles \cup {NoHandle}] /\ link[a] = NoHandle
      /\ \A b \in Addrs : b # a => link[b] = g.bt.link[b]
  BY <1>1, <1>2, StateFields
<1>6. /\ sm \in [Addrs -> {None, "encrypt", "pair"}] /\ sm[a] = None
      /\ \A b \in Addrs : b # a => sm[b] = g.bt.sm[b]
  BY <1>1, <1>3, StateFields
<1>7. /\ leaving \in SUBSET Addrs
      /\ \A b \in Addrs : b # a /\ b \in g.bt.leaving => b \in leaving
  BY <1>1, <1>4, StateFields
<1>8. /\ r.dev = g.dev /\ r.used = g.used /\ r.is_scanning = g.is_scanning
      /\ r.wanted = g.wanted
      /\ r.bt = [g.bt EXCEPT !.link = link, !.leaving = leaving, !.sm = sm]
      /\ r = [dev |-> r.dev, used |-> r.used, is_scanning |-> r.is_scanning,
              wanted |-> r.wanted, bt |-> r.bt]
  BY <1>1, <1>2, <1>3, <1>4 DEF State, Stack
<1>9. g.bt \in Stack
  BY <1>1, StateFields
<1>10. /\ r.bt.link = link /\ r.bt.sm = sm /\ r.bt.leaving = leaving /\ r.bt.info = g.bt.info
       /\ r.bt.page = g.bt.page /\ r.bt.scan = g.bt.scan /\ r.bt.hids = g.bt.hids
  BY ONLY <1>8, <1>9 DEF Stack
<1>11. r.bt \in Stack
  BY ONLY <1>5, <1>6, <1>7, <1>8, <1>9 DEF Stack
<1>12. r \in State
  BY ONLY <1>1, <1>8, <1>11, StateFields DEF State
<1>13. \A b \in Addrs : Linked(r.bt, b) <=> Linked(g.bt, b) /\ b # a
  BY <1>5, <1>10 DEF Linked
<1>14. Seats(r) = Seats(g)
  BY <1>8 DEF Seats
<1>15. TableInv(r)
  BY <1>1, <1>8, <1>14 DEF TableInv
<1>16. LinkInv(r)
  <2>1. ASSUME NEW b \in Addrs, NEW c \in Addrs, Linked(r.bt, b), r.bt.link[b] = r.bt.link[c]
        PROVE  b = c
    <3>1. b # a /\ c # a /\ Linked(g.bt, b)
      BY ONLY <1>5, <1>10, <1>13, <2>1 DEF Linked
    <3>2. g.bt.link[b] = g.bt.link[c]
      BY ONLY <1>5, <1>10, <2>1, <3>1
    <3> QED
      BY ONLY <1>1, <2>1, <3>1, <3>2 DEF LinkInv
  <2>2. ASSUME NEW j \in Idx, r.dev[j].addr # None
        PROVE  IF Linked(r.bt, r.dev[j].addr) THEN r.dev[j].handle = r.bt.link[r.dev[j].addr]
               ELSE r.dev[j].handle \in {0, NoHandle}
    <3>1. PICK b \in Addrs : b = g.dev[j].addr
      BY <1>1, <1>8, <2>2, StateFields DEF Device
    <3>2. CASE b = a
      <4>1. g.dev[j].addr = a => g.dev[j].handle \in {0, NoHandle}
        BY <2>2
      <4> QED
        BY ONLY <1>8, <1>13, <3>1, <3>2, <4>1, j \in Idx
    <3>3. CASE b # a
      BY <1>1, <1>5, <1>8, <1>10, <1>13, <2>2, <3>1, <3>3 DEF LinkInv
    <3> QED
      BY <3>2, <3>3
  <2> QED
    BY <2>1, <2>2 DEF LinkInv
<1>17. StageInv(r)
  <2>1. g.bt.info \in Addrs \cup {None} /\ g.bt.page \in Addrs \cup {None}
    BY <1>1, StateFields
  <2> QED
    BY <1>1, <1>6, <1>10, <1>13, <2>1 DEF StageInv
<1>18. ASSUME \A i \in Idx : g.dev[i].addr # a, Served(g)
       PROVE  Served(r)
  <2>1. ASSUME NEW j \in Idx
        PROVE  ClientAt(r, j) /\ ReadyAt(r, j)
    <3>1. ClientAt(g, j) /\ ReadyAt(g, j) /\ g.dev[j].cid \in Addrs \cup {None}
      BY <1>1, <1>18, StateFields DEF Served, Device
    <3>2. CASE g.dev[j].cid = None
      BY <1>8, <3>1, <3>2 DEF ClientAt, ReadyAt
    <3>3. CASE g.dev[j].cid # None
      <4>1. PICK b \in Addrs : b = g.dev[j].addr /\ b # a
        BY <1>18, <3>1, <3>3 DEF ClientAt
      <4> QED
        BY <1>6, <1>7, <1>8, <1>10, <1>13, <3>1, <4>1 DEF ClientAt, ReadyAt
    <3> QED
      BY <3>2, <3>3
  <2>2. SeatInv(r)
    BY <1>8, <1>14, <1>18 DEF Served, SeatInv
  <2> QED
    BY <2>1, <2>2 DEF Served
<1>19. ASSUME \A i \in Idx : g.dev[i].addr # a, PauseOK(g)
       PROVE  PauseOK(r)
  <2>1. Paused(r) = Paused(g) /\ Forgotten(r) = Forgotten(g)
    BY <1>8, <1>10 DEF Paused, Forgotten
  <2>2. ASSUME NEW j \in Idx, Resumes(g, j)
        PROVE  Resumes(r, j)
    <3>1. g.dev[j].addr \in Addrs /\ g.dev[j].addr # a
      BY <1>1, <1>19, <2>2, StateFields DEF Device, Resumes
    <3> QED
      BY <1>8, <1>10, <1>13, <2>2, <3>1 DEF Resumes
  <2> QED
    BY <1>19, <2>1, <2>2 DEF PauseOK
<1> QED
  BY <1>12, <1>15, <1>16, <1>17, <1>18, <1>19 DEF Tidy

\* DisconnectionComplete()
LEMMA DisconnectionKeeps ==
  ASSUME NEW g, Tidy(g), NEW a \in Addrs, Linked(g.bt, a),
         NEW p, p = InfoLost(SmLost(g, a), a),
         NEW q, q = OnDisconnectionComplete([p EXCEPT !.bt.hids[a] = None], a),
         NEW r, r = [q EXCEPT !.bt.link[a] = NoHandle, !.bt.leaving = @ \ {a},
                              !.bt.sm[a] = None]
  PROVE  Good(g, r)
<1>1. Keeps(g, p) /\ p.dev = g.dev /\ p.bt.link = g.bt.link /\ p.used = g.used /\ p.bt.info # a
  BY LostKeeps
<1>2. PICK o : o = [p EXCEPT !.bt.hids[a] = None]
  OBVIOUS
<1>3. Tidy(p)
  BY <1>1 DEF Keeps
<1>4. /\ Tidy(o)
      /\ ~Ambiguous(p) => ~Ambiguous(o)
      /\ PauseOK(p) => PauseOK(o)
      /\ \A i \in Idx : /\ ClientAt(p, i) => ClientAt(o, i)
                        /\ ReadyAt(p, i) /\ ClientAt(p, i) /\ p.dev[i].addr # a => ReadyAt(o, i)
      /\ o.bt.hids[a] = None /\ o.dev = p.dev /\ o.bt.link = p.bt.link
      /\ o.bt.info = p.bt.info /\ o.used = p.used
  <2>1. PICK x \in {None, "up"} : x = None
    OBVIOUS
  <2>2. o = [p EXCEPT !.bt.hids[a] = x] /\ (p.bt.hids[a] # None \/ x = None)
    BY ONLY <1>2, <2>1
  <2>3. Tidy(o) /\ o.bt.hids[a] = x /\ OthersKept(p, o, a)
    BY ONLY <1>3, <2>1, <2>2, a \in Addrs, ClientKeeps
  <2> QED
    BY <2>1, <2>3 DEF OthersKept
<1>5. q = OnDisconnectionComplete(o, a) /\ Linked(o.bt, a) /\ o.bt.info # a
  BY <1>1, <1>2, <1>4 DEF Linked
<1>6. /\ Tidy(q) /\ q.bt.link = o.bt.link /\ q.bt.hids[a] = None /\ q.bt.info # a
      /\ \A i \in Idx : q.dev[i].addr = a => q.dev[i].handle \in {0, NoHandle}
      /\ /\ ~Ambiguous(o) /\ SeatInv(o)
         /\ \A i \in Idx : ClientAt(o, i) /\ (o.dev[i].addr # a => ReadyAt(o, i))
         => Served(q) /\ \A i \in Idx : q.dev[i].addr # a
      /\ PauseOK(o) => PauseOK(q)
  BY ONLY <1>4, <1>5, a \in Addrs, LostDeleted
<1>7. /\ Tidy(r)
      /\ (\A i \in Idx : q.dev[i].addr # a) /\ Served(q) => Served(r)
      /\ (\A i \in Idx : q.dev[i].addr # a) /\ PauseOK(q) => PauseOK(r)
  <2>1. r = [q EXCEPT !.bt.link[a] = NoHandle, !.bt.leaving = @ \ {a}, !.bt.sm[a] = None]
    OBVIOUS
  <2> QED
    BY ONLY <1>6, <2>1, a \in Addrs, UnlinkKeeps
<1>8. ASSUME Served(g), ~Ambiguous(g)
      PROVE  Served(q) /\ \A i \in Idx : q.dev[i].addr # a
  <2>1. Served(p) /\ ~Ambiguous(o)
    BY <1>1, <1>4, <1>8 DEF Keeps
  <2>2. Seats(o) = Seats(p)
    BY <1>4 DEF Seats
  <2>3. SeatInv(o)
    BY <1>4, <2>1, <2>2 DEF Served, SeatInv
  <2>4. \A i \in Idx : ClientAt(o, i) /\ (o.dev[i].addr # a => ReadyAt(o, i))
    BY <1>4, <2>1 DEF Served
  <2> QED
    BY <1>6, <2>1, <2>3, <2>4
<1>9. PauseOK(g) => PauseOK(q)
  BY <1>1, <1>4, <1>6 DEF Keeps
<1> QED
  BY <1>7, <1>8, <1>9 DEF Good

-----------------------------------------------------------------------------
(* The other handlers.                                                     *)

\* A handler that disturbs nothing is a good one.
LEMMA KeepsIsGood ==
  ASSUME NEW g, NEW r, Keeps(g, r)
  PROVE  Good(g, r)
BY DEF Keeps, Good

\* Advertise()
LEMMA AdvertiseGood ==
  ASSUME NEW g, Tidy(g), NEW a \in Addrs, NEW r, r = HogConnect(Create(g, a), a),
         ~Linked(g.bt, a), ByAddr(g, a) = {}, Free(g) # {}
  PROVE  Good(g, r)
BY AdvertiseKeeps DEF Good

\* ReencryptionComplete()
LEMMA ReencryptionGood ==
  ASSUME NEW g, Tidy(g), NEW a \in Addrs, g.bt.sm[a] = "encrypt", NEW status \in Statuses,
         NEW p, p = [g EXCEPT !.bt.sm[a] = None],
         NEW r, r = CASE status = "success"     -> QueryInfo(p, a)
                      [] status = "timeout"     -> HogDisconnect(p, g.bt.link[a])
                      [] status = "key missing" -> [p EXCEPT !.bt.sm[a] = "pair"]
                      [] OTHER -> p
  PROVE  Good(g, r)
<1>1. /\ Keeps(g, p) /\ p.bt.sm[a] = None /\ p.dev = g.dev /\ p.bt.link = g.bt.link
      /\ p.bt.hids = g.bt.hids /\ p.bt.info = g.bt.info
  <2>1. p = [g EXCEPT !.bt.sm[a] = None]
    OBVIOUS
  <2> QED
    BY ONLY <2>1, Tidy(g), a \in Addrs, SmDoneKeeps
<1>2. g.bt.sm[a] # None /\ Tidy(p)
  BY <1>1 DEF None, Keeps
<1>3. Linked(g.bt, a) /\ g.bt.info # a /\ g.bt.hids[a] = None
  BY <1>2 DEF Tidy, StageInv
<1>4. Linked(p.bt, a) /\ p.bt.info # a /\ p.bt.hids[a] = None
  BY <1>1, <1>3 DEF Linked
<1>5. ASSUME Served(g)
      PROVE  \A i \in Idx : p.dev[i].addr = a => p.dev[i].state \notin {"PENDING_READY", "READY"}
  BY <1>1, <1>2, <1>5, NotReadyYet
<1>6. CASE r = QueryInfo(p, a)
  <2>1. /\ Tidy(r)
        /\ ~Ambiguous(p) => ~Ambiguous(r)
        /\ /\ Served(p)
           /\ \A i \in Idx : p.dev[i].addr = a => p.dev[i].state \notin {"PENDING_READY", "READY"}
           => Served(r)
        /\ PauseOK(p) => PauseOK(r)
    BY ONLY <1>1, <1>4, <1>6, <1>2, a \in Addrs, QueryInfoKeeps
  <2> QED
    BY ONLY <1>1, <1>2, <1>5, <2>1 DEF Keeps, Good
<1>7. CASE r = HogDisconnect(p, g.bt.link[a])
  <2>1. Keeps(p, r)
    BY ONLY <1>1, <1>2, <1>7, HogKeeps
  <2> QED
    BY ONLY <1>1, <2>1 DEF Keeps, Good
<1>8. CASE r = [p EXCEPT !.bt.sm[a] = "pair"]
  <2>1. /\ Tidy(r)
        /\ ~Ambiguous(p) => ~Ambiguous(r)
        /\ /\ Served(p)
           /\ \A i \in Idx : p.dev[i].addr = a => p.dev[i].state \notin {"PENDING_READY", "READY"}
           => Served(r)
        /\ PauseOK(p) => PauseOK(r)
    BY ONLY <1>1, <1>4, <1>8, <1>2, a \in Addrs, PairKeeps
  <2> QED
    BY ONLY <1>1, <1>2, <1>5, <2>1 DEF Keeps, Good
<1>9. CASE r = p
  BY ONLY <1>1, <1>9, KeepsIsGood
<1>10. \/ r = QueryInfo(p, a) \/ r = HogDisconnect(p, g.bt.link[a])
       \/ r = [p EXCEPT !.bt.sm[a] = "pair"] \/ r = p
  OBVIOUS
<1> QED
  BY ONLY <1>6, <1>7, <1>8, <1>9, <1>10

\* PairingComplete()
LEMMA PairingGood ==
  ASSUME NEW g, Tidy(g), NEW a \in Addrs, g.bt.sm[a] = "pair", NEW status,
         NEW p, p = [g EXCEPT !.bt.sm[a] = None],
         NEW r, r = IF ByAddr(p, a) = {} THEN HogDisconnect(p, g.bt.link[a])
                    ELSE IF status = "success" THEN QueryInfo(p, a)
                    ELSE p
  PROVE  Good(g, r)
<1>1. /\ Keeps(g, p) /\ p.bt.sm[a] = None /\ p.dev = g.dev /\ p.bt.link = g.bt.link
      /\ p.bt.hids = g.bt.hids /\ p.bt.info = g.bt.info
  <2>1. p = [g EXCEPT !.bt.sm[a] = None]
    OBVIOUS
  <2> QED
    BY ONLY <2>1, Tidy(g), a \in Addrs, SmDoneKeeps
<1>2. g.bt.sm[a] # None /\ Tidy(p)
  BY <1>1 DEF None, Keeps
<1>3. Linked(g.bt, a) /\ g.bt.info # a /\ g.bt.hids[a] = None
  BY <1>2 DEF Tidy, StageInv
<1>4. Linked(p.bt, a) /\ p.bt.info # a /\ p.bt.hids[a] = None
  BY <1>1, <1>3 DEF Linked
<1>5. ASSUME Served(g)
      PROVE  \A i \in Idx : p.dev[i].addr = a => p.dev[i].state \notin {"PENDING_READY", "READY"}
  BY <1>1, <1>2, <1>5, NotReadyYet
<1>6. CASE r = QueryInfo(p, a)
  <2>1. /\ Tidy(r)
        /\ ~Ambiguous(p) => ~Ambiguous(r)
        /\ /\ Served(p)
           /\ \A i \in Idx : p.dev[i].addr = a => p.dev[i].state \notin {"PENDING_READY", "READY"}
           => Served(r)
        /\ PauseOK(p) => PauseOK(r)
    BY ONLY <1>1, <1>4, <1>6, <1>2, a \in Addrs, QueryInfoKeeps
  <2> QED
    BY ONLY <1>1, <1>2, <1>5, <2>1 DEF Keeps, Good
<1>7. CASE r = HogDisconnect(p, g.bt.link[a])
  <2>1. Keeps(p, r)
    BY ONLY <1>1, <1>2, <1>7, HogKeeps
  <2> QED
    BY ONLY <1>1, <2>1 DEF Keeps, Good
<1>8. CASE r = p
  BY ONLY <1>1, <1>8, KeepsIsGood
<1>9. r = QueryInfo(p, a) \/ r = HogDisconnect(p, g.bt.link[a]) \/ r = p
  OBVIOUS
<1> QED
  BY ONLY <1>6, <1>7, <1>8, <1>9

\* InformationDone()
LEMMA InformationGood ==
  ASSUME NEW g, Tidy(g), NEW a \in Addrs, g.bt.info = a, NEW ok,
         NEW p, p = [g EXCEPT !.bt.info = None],
         NEW h, h = g.bt.link[a],
         NEW r, r = IF ~ok THEN HogDisconnect(p, h)
                    ELSE IF ByHandle(p, h) = {} THEN p
                    ELSE IF g.bt.hids[a] # None THEN HogDisconnect(p, h)
                    ELSE HidsConnect(p, a, Min(ByHandle(p, h)))
  PROVE  Good(g, r)
<1>1. /\ Keeps(g, p) /\ Tidy(p) /\ p.bt.info = None /\ p.dev = g.dev /\ p.bt.link = g.bt.link
      /\ p.bt.hids = g.bt.hids /\ p.bt.sm = g.bt.sm
  BY InfoDoneKeeps DEF Keeps
<1>2. Linked(p.bt, a) /\ p.bt.hids[a] = None /\ p.bt.sm[a] = None
  BY <1>1, NoneAssumption DEF Tidy, StageInv, Linked
<1>3. ASSUME Served(g)
      PROVE  \A i \in Idx : p.dev[i].addr = a => p.dev[i].state \notin {"PENDING_READY", "READY"}
  BY <1>1, <1>3, NotReadyYet
<1>4. CASE r = HogDisconnect(p, h)
  <2>1. Keeps(p, r)
    BY ONLY <1>1, <1>4, HogKeeps
  <2> QED
    BY ONLY <1>1, <2>1 DEF Keeps, Good
<1>5. CASE r = p
  BY ONLY <1>1, <1>5, KeepsIsGood
<1>6. CASE ByHandle(p, h) # {} /\ r = HidsConnect(p, a, Min(ByHandle(p, h)))
  <2>0. Min(ByHandle(p, h)) \in Idx /\ p.dev[Min(ByHandle(p, h))].handle = h
    BY ONLY <1>6, ByHandleFits
  <2>1. PICK i \in Idx : i = Min(ByHandle(p, h)) /\ p.dev[i].handle = h
    BY ONLY <2>0
  <2>2. r = HidsConnect(p, a, i) /\ p.dev[i].handle = p.bt.link[a]
    BY <1>1, <1>6, <2>1
  <2>3. /\ Tidy(r)
        /\ ~Ambiguous(p) => ~Ambiguous(r)
        /\ /\ Served(p) /\ ~Ambiguous(p)
           /\ \A j \in Idx : p.dev[j].addr = a => p.dev[j].state \notin {"PENDING_READY", "READY"}
           => Served(r)
        /\ PauseOK(p) => PauseOK(r)
    BY ONLY <1>1, <1>2, <2>1, <2>2, a \in Addrs, HidsConnectKeeps
  <2> QED
    BY ONLY <1>1, <1>3, <2>3 DEF Keeps, Good
<1>7. \/ r = HogDisconnect(p, h) \/ r = p
      \/ ByHandle(p, h) # {} /\ r = HidsConnect(p, a, Min(ByHandle(p, h)))
  OBVIOUS
<1> QED
  BY ONLY <1>4, <1>5, <1>6, <1>7

\* ServiceConnected()
LEMMA ServiceGood ==
  ASSUME NEW g, Tidy(g), NEW a \in Addrs, g.bt.hids[a] = "asked", NEW setup \in BOOLEAN,
         NEW p, p = [g EXCEPT !.bt.hids[a] = "up"],
         NEW i, i = Min(ByCid(p, a)),
         NEW r, r = IF ByCid(p, a) = {} THEN p ELSE Resume(SetReady(Connect(p, i), i, setup))
  PROVE  Good(g, r)
<1>1. Tidy(p) /\ p.bt.hids[a] = "up" /\ OthersKept(g, p, a)
  <2>1. PICK x \in {None, "up"} : x = "up"
    OBVIOUS
  <2>2. p = [g EXCEPT !.bt.hids[a] = x] /\ (g.bt.hids[a] # None \/ x = None)
    BY <2>1 DEF None
  <2>3. Tidy(p) /\ p.bt.hids[a] = x /\ OthersKept(g, p, a)
    BY ONLY <2>1, <2>2, Tidy(g), a \in Addrs, ClientKeeps
  <2> QED
    BY <2>1, <2>3
<1>2. /\ ~Ambiguous(g) => ~Ambiguous(p)
      /\ Served(g) => Served(p)
      /\ PauseOK(g) => PauseOK(p)
      /\ p.dev = g.dev /\ p.bt.link = g.bt.link /\ p.bt.info = g.bt.info /\ p.bt.sm = g.bt.sm
  BY <1>1 DEF OthersKept
<1>3. g.bt.hids[a] # None
  BY DEF None
<1>4. CASE ByCid(p, a) = {}
  <2>1. r = p
    BY <1>4
  <2> QED
    BY ONLY <1>1, <1>2, <2>1 DEF Good
<1>5. CASE ByCid(p, a) # {}
  <2>1. i \in Idx /\ p.dev[i].cid = a
    BY <1>5, ByCidFits
  <2>2. p.dev[i].addr # None
    BY <1>1, <2>1, EmptyIsDevice, NoneAssumption DEF Tidy, TableInv
  <2>3. PICK q : q = SetReady(Connect(p, i), i, setup)
    OBVIOUS
  <2>4. r = Resume(q)
    BY <1>5, <2>3
  <2>5. /\ Tidy(q)
        /\ ~Ambiguous(p) => ~Ambiguous(q)
        /\ /\ Served(p) /\ p.dev[i].cid # None
           /\ p.dev[i].state \notin {"PENDING_READY", "READY"}
           /\ p.bt.sm[p.dev[i].addr] = None /\ p.bt.info # p.dev[i].addr
           /\ p.bt.hids[p.dev[i].addr] = "up"
           => Served(q)
    BY ONLY <1>1, <2>1, <2>2, <2>3, setup \in BOOLEAN, ConnectReadyKeeps
  <2>6. /\ Tidy(r) /\ ~Paused(r)
        /\ Served(q) => Served(r)
    BY ONLY <2>4, <2>5, ResumeKeeps
  <2>7. ASSUME Served(g)
        PROVE  Served(q)
    <3>1. p.dev[i].addr = a /\ Served(p)
      BY <1>2, <2>1, <2>7, NoneAssumption DEF Served, ClientAt
    <3>2. p.dev[i].state \notin {"PENDING_READY", "READY"}
      BY <1>2, <2>1, <2>7, <3>1, NotReadyYet
    <3>3. p.bt.sm[a] = None /\ p.bt.info # a
      <4>1. g.bt.sm[a] = None /\ g.bt.info # a
        BY <1>3, NoneAssumption DEF Tidy, StageInv
      <4> QED
        BY <1>2, <4>1
    <3> QED
      BY ONLY <1>1, <2>1, <2>2, <2>5, <3>1, <3>2, <3>3
  <2> QED
    BY ONLY <2>6, <2>7 DEF Good, PauseOK
<1> QED
  BY ONLY <1>4, <1>5

\* ServiceFailed()
LEMMA FailedGood ==
  ASSUME NEW g, Tidy(g), NEW a \in Addrs, g.bt.hids[a] = "asked",
         NEW r, r = [g EXCEPT !.bt.hids[a] = None]
  PROVE  Good(g, r)
<1>1. PICK x \in {None, "up"} : x = None
  OBVIOUS
<1>2. r = [g EXCEPT !.bt.hids[a] = x] /\ (g.bt.hids[a] # None \/ x = None)
  BY <1>1
<1>3. Tidy(r) /\ OthersKept(g, r, a)
  BY ONLY <1>1, <1>2, Tidy(g), a \in Addrs, ClientKeeps
<1> QED
  BY <1>3 DEF OthersKept, Good

\* A device is deleted: ConnectionTimeout() and DisconnectDevice().
LEMMA DeleteGood ==
  ASSUME NEW g, Tidy(g), NEW i \in Idx
  PROVE  Good(g, Delete(g, i))
<1>1. /\ Tidy(Delete(g, i))
      /\ /\ \A j \in Idx : ClientAt(g, j) /\ (j # i => ReadyAt(g, j))
         /\ SeatInv(g)
         => Served(Delete(g, i))
      /\ PauseOK(g) => PauseOK(Delete(g, i))
  BY DeleteKeeps
<1>2. Served(g) => Served(Delete(g, i))
  BY <1>1 DEF Served
<1> QED
  BY ONLY <1>1, <1>2 DEF Good

\* ConnectionTimeout() when the device is ready
LEMMA TimerGood ==
  ASSUME NEW g, Tidy(g), NEW i \in Idx, g.dev[i].state = "READY",
         NEW r, r = [g EXCEPT !.dev[i].connTimer = FALSE]
  PROVE  Good(g, r)
BY TimerKeeps DEF Good

\* ParserDone()
LEMMA ParserGood ==
  ASSUME NEW g, Tidy(g), NEW i \in Idx, g.dev[i].setup,
         NEW p, p = [g EXCEPT !.dev[i].setup = FALSE],
         NEW r, r = SetReadyComplete(p, i)
  PROVE  Good(g, r)
<1>1. /\ Keeps(g, p) /\ p.dev[i].addr # None
      /\ Served(g) => p.dev[i].state \in {"PENDING_READY", "READY"}
  <2>1. p = [g EXCEPT !.dev[i].setup = FALSE]
    OBVIOUS
  <2> QED
    BY ONLY <2>1, Tidy(g), i \in Idx, g.dev[i].setup, SetupKeeps
<1>2. /\ Tidy(r)
      /\ p.dev[i].state \in {"PENDING_READY", "READY"} =>
           /\ Served(p) => Served(r)
           /\ PauseOK(p) => PauseOK(r)
  BY <1>1, SetReadyCompleteKeeps DEF Keeps
<1> QED
  BY ONLY <1>1, <1>2 DEF Good, Keeps

\* StartScanning()
LEMMA ScanningGood ==
  ASSUME NEW g, Tidy(g), NEW enabled \in BOOLEAN,
         NEW r, r = [g EXCEPT !.wanted = enabled, !.is_scanning = enabled, !.bt.scan = enabled]
  PROVE  Good(g, r)
<1>1. g \in State /\ StageInv(g) /\ TableInv(g)
  BY DEF Tidy
<1>2. /\ r.dev = g.dev /\ r.used = g.used /\ r.is_scanning = enabled
      /\ r.wanted = enabled /\ r.bt = [g.bt EXCEPT !.scan = enabled]
      /\ r = [dev |-> r.dev, used |-> r.used, is_scanning |-> r.is_scanning,
              wanted |-> r.wanted, bt |-> r.bt]
  BY <1>1 DEF State
<1>3. g.bt \in Stack
  BY <1>1, StateFields
<1>4. /\ r.bt \in Stack /\ r.bt.scan = enabled /\ r.bt.link = g.bt.link
      /\ r.bt.page = g.bt.page /\ r.bt.info = g.bt.info /\ r.bt.leaving = g.bt.leaving
      /\ r.bt.hids = g.bt.hids /\ r.bt.sm = g.bt.sm
  BY ONLY <1>2, <1>3, enabled \in BOOLEAN DEF Stack
<1>5. r \in State
  BY ONLY <1>1, <1>2, <1>4, StateFields, enabled \in BOOLEAN DEF State
<1>6. StageInv(r)
  BY <1>1, <1>4 DEF StageInv, Linked
<1>7. Seats(r) = Seats(g)
  BY <1>2 DEF Seats
<1>8. Cardinality(Seats(r)) <= r.used
  BY <1>1, <1>2, <1>7 DEF TableInv
<1>9. \A j \in Idx : r.dev[j] = g.dev[j]
  BY <1>2
<1>10. Tidy(r)
  BY <1>4, <1>5, <1>6, <1>8, <1>9, TidyStep
<1>11. ASSUME Served(g)
       PROVE  Served(r)
  BY <1>2, <1>4, <1>7, <1>11 DEF Served, ClientAt, ReadyAt, SeatInv, Linked
<1>12. PauseOK(r)
  BY <1>2, <1>4 DEF PauseOK, Paused
<1> QED
  BY ONLY <1>10, <1>11, <1>12 DEF Good

-----------------------------------------------------------------------------
(* The steps of the specification.                                         *)

\* The invariant of the state, of a record g that is the state.
LEMMA InvOfState ==
  ASSUME NEW g, g = g0
  PROVE  /\ TableOK <=> Tidy(g)
         /\ ServedInv <=> mixed \/ (Served(g) /\ ~Ambiguous(g))
         /\ PauseInv <=> (Paused(g) => mixed \/ abandoned \/ \E i \in Idx : Resumes(g, i))
         /\ ForgottenInv <=> (Forgotten(g) /\ ~g.bt.scan => abandoned)
<1>1. g.bt = bt
  BY DEF g0
<1> QED
  BY <1>1 DEF TableOK, ServedInv, PauseInv, ForgottenInv

\* A good step to another state keeps the invariant.
LEMMA BecomesKeeps ==
  ASSUME BleDevicesInv, NEW g, g = g0, NEW r, Becomes(r), Good(g, r)
  PROVE  BleDevicesInv'
<1>1. /\ Tidy(g)
      /\ mixed \/ (Served(g) /\ ~Ambiguous(g))
      /\ Paused(g) => mixed \/ abandoned \/ \E i \in Idx : Resumes(g, i)
      /\ Forgotten(g) /\ ~g.bt.scan => abandoned
  BY InvOfState DEF BleDevicesInv
<1>2. Tidy(r) /\ r \in State
  BY DEF Good, Tidy
<1>3. r = [dev |-> r.dev, used |-> r.used, is_scanning |-> r.is_scanning,
           wanted |-> r.wanted, bt |-> r.bt]
  BY <1>2, StateFields
<1>4. /\ dev' = r.dev /\ used' = r.used /\ is_scanning' = r.is_scanning
      /\ wanted' = r.wanted /\ bt' = r.bt
      /\ mixed' = (mixed \/ Ambiguous(r)) 
      /\ abandoned' = (~r.bt.scan /\ (abandoned \/ Forgotten(r)))
  BY DEF Becomes
<1>5. r = g0'
  BY ONLY <1>3, <1>4 DEF g0
<1>6. mixed' \/ (Served(r) /\ ~Ambiguous(r))
  BY ONLY <1>1, <1>4, Good(g, r) DEF Good
<1>7. Paused(r) => mixed' \/ abandoned' \/ \E i \in Idx : Resumes(r, i)
  <2>1. mixed \/ abandoned \/ (PauseOK(g) /\ (g.bt.scan \/ ~Forgotten(g)))
    BY ONLY <1>1 DEF PauseOK
  <2>2. mixed' \/ abandoned \/ PauseOK(r)
    BY ONLY <1>1, <1>4, <2>1, Good(g, r) DEF Good
  <2> QED
    BY ONLY <1>4, <2>2 DEF PauseOK, Paused
<1>8. Forgotten(r) /\ ~r.bt.scan => abandoned'
  BY ONLY <1>4
<1>9. TableOK'
  BY <1>2, <1>5 DEF TableOK
<1>10. ServedInv'
  BY <1>5, <1>6 DEF ServedInv
<1>11. PauseInv'
  BY <1>5, <1>7 DEF PauseInv
<1>12. ForgottenInv'
  <2>1. r.bt = bt'
    BY ONLY <1>4
  <2> QED
    BY <1>5, <1>8, <2>1 DEF ForgottenInv
<1> QED
  BY ONLY <1>9, <1>10, <1>11, <1>12 DEF BleDevicesInv

\* The initial state.
LEMMA InitHolds == Init => BleDevicesInv
<1> SUFFICES ASSUME Init
             PROVE  BleDevicesInv
  OBVIOUS
<1>1. PICK g : g = g0
  OBVIOUS
<1>2. /\ g.dev = [i \in Idx |-> Empty] /\ g.used = 0 /\ g.is_scanning = TRUE /\ g.wanted = TRUE
      /\ g.bt = bt
      /\ g = [dev |-> g.dev, used |-> g.used, is_scanning |-> g.is_scanning,
              wanted |-> g.wanted, bt |-> g.bt]
  BY <1>1 DEF Init, g0
<1>3. /\ g.bt.scan = TRUE /\ g.bt.page = None /\ g.bt.link = [a \in Addrs |-> NoHandle]
      /\ g.bt.leaving = {} /\ g.bt.sm = [a \in Addrs |-> None] /\ g.bt.info = None
      /\ g.bt.hids = [a \in Addrs |-> None]
      /\ g.bt \in Stack
  BY <1>2 DEF Init, Stack
<1>4. g \in State
  <2>1. g.dev \in [Idx -> Device] /\ g.used \in 0 .. N
    BY <1>2, EmptyIsDevice, NAssumption
  <2> QED
    BY <1>2, <1>3, <2>1 DEF State
<1>5. \A i \in Idx : g.dev[i] = Empty
  BY <1>2
<1>6. Seats(g) = {}
  BY <1>5, EmptyIsDevice DEF Seats
<1>7. Cardinality(Seats(g)) = 0
  BY <1>6, FS_EmptySet
<1>8. \A a \in Addrs : ~Linked(g.bt, a) /\ g.bt.hids[a] = None /\ g.bt.sm[a] = None
  BY <1>3 DEF Linked
<1>9. TableInv(g) /\ LinkInv(g) /\ StageInv(g)
  BY <1>2, <1>3, <1>5, <1>7, <1>8, EmptyIsDevice DEF TableInv, LinkInv, StageInv
<1>10. Served(g)
  BY <1>2, <1>5, <1>7, EmptyIsDevice DEF Served, ClientAt, ReadyAt, SeatInv
<1>11. ~Ambiguous(g) /\ ~Paused(g) /\ ~Forgotten(g)
  BY <1>3, <1>8 DEF Ambiguous, Linked, Paused, Forgotten
<1> QED
  BY <1>1, <1>4, <1>9, <1>10, <1>11, InvOfState DEF BleDevicesInv, Tidy

\* A step of the next-state relation keeps the invariant.
LEMMA NextKeeps == BleDevicesInv /\ [Next]_vars => BleDevicesInv'
<1> SUFFICES ASSUME BleDevicesInv, [Next]_vars
             PROVE  BleDevicesInv'
  OBVIOUS
<1>1. PICK g : g = g0
  OBVIOUS
<1>2. Tidy(g)
  BY <1>1, InvOfState DEF BleDevicesInv
<1>3. g.dev = dev /\ g.wanted = wanted /\ g.bt = bt
  BY <1>1 DEF g0
<1>4. ASSUME NEW r, Becomes(r), Good(g, r)
      PROVE  BleDevicesInv'
  BY ONLY <1>1, <1>4, BleDevicesInv, BecomesKeeps
<1>5. ASSUME NEW a \in Addrs, Advertise(a)
      PROVE  BleDevicesInv'
  <2>1. PICK r : r = HogConnect(Create(g, a), a)
    OBVIOUS
  <2>2. /\ Becomes(r)
        /\ ~Linked(g.bt, a) /\ ByAddr(g, a) = {} /\ Free(g) # {}
    BY ONLY <1>1, <1>3, <1>5, <2>1 DEF Advertise
  <2>3. Good(g, r)
    BY ONLY <1>2, <2>1, <2>2, a \in Addrs, AdvertiseGood
  <2> QED
    BY ONLY <1>4, <2>2, <2>3
<1>6. ASSUME NEW a \in Addrs, NEW h \in Handles, NEW bonded \in BOOLEAN,
             ConnectionComplete(a, h, bonded)
      PROVE  BleDevicesInv'
  <2>1. PICK p : p = [g EXCEPT !.bt.page = None, !.bt.link[a] = h]
    OBVIOUS
  <2>2. PICK i : i = CHOOSE j \in ByAddr(p, a) : TRUE
    OBVIOUS
  <2>3. PICK s \in {"encrypt", "pair"} : s = IF bonded THEN "encrypt" ELSE "pair"
    OBVIOUS
  <2>4. PICK r : r = IF ByAddr(p, a) = {} THEN p
                     ELSE [p EXCEPT !.dev[i].handle = h, !.bt.sm[a] = s]
    OBVIOUS
  <2>5. Becomes(r) /\ g.bt.page = a /\ Owners(g.bt, h) = {}
    BY ONLY <1>1, <1>3, <1>6, <2>1, <2>2, <2>3, <2>4 DEF ConnectionComplete
  <2>6. p.dev = g.dev
    BY <1>2, <2>1 DEF Tidy, State
  <2>7. CASE ByAddr(p, a) = {}
    <3>1. r = [g EXCEPT !.bt.page = None, !.bt.link[a] = h]
      BY ONLY <2>1, <2>4, <2>7
    <3>2. \A j \in Idx : g.dev[j].addr # a
      BY ONLY <2>6, <2>7 DEF ByAddr
    <3>3. Good(g, r)
      BY ONLY <1>2, <2>5, <3>1, <3>2, a \in Addrs, h \in Handles, CompleteForgottenKeeps
    <3> QED
      BY ONLY <1>4, <2>5, <3>3
  <2>8. CASE ByAddr(p, a) # {}
    <3>1. i \in Idx /\ g.dev[i].addr = a
      BY ONLY <2>2, <2>6, <2>8 DEF ByAddr
    <3>2. r = [p EXCEPT !.dev[i].handle = h, !.bt.sm[a] = s]
      BY ONLY <2>4, <2>8
    <3>3. r = [g EXCEPT !.bt.page = None, !.bt.link[a] = h, !.dev[i].handle = h, !.bt.sm[a] = s]
      BY ONLY <2>1, <3>2
    <3>4. Good(g, r)
      BY ONLY <1>2, <2>3, <2>5, <3>1, <3>3, a \in Addrs, h \in Handles, CompleteKeeps
    <3> QED
      BY ONLY <1>4, <2>5, <3>4
  <2> QED
    BY ONLY <2>7, <2>8
<1>7. ASSUME NEW a \in Addrs, NEW s \in Statuses, ReencryptionComplete(a, s)
      PROVE  BleDevicesInv'
  <2>1. PICK p : p = [g EXCEPT !.bt.sm[a] = None]
    OBVIOUS
  <2>2. PICK r : r = CASE s = "success"     -> QueryInfo(p, a)
                       [] s = "timeout"     -> HogDisconnect(p, g.bt.link[a])
                       [] s = "key missing" -> [p EXCEPT !.bt.sm[a] = "pair"]
                       [] OTHER -> p
    OBVIOUS
  <2>3. Becomes(r) /\ g.bt.sm[a] = "encrypt"
    BY ONLY <1>1, <1>3, <1>7, <2>1, <2>2 DEF ReencryptionComplete
  <2>4. Good(g, r)
    BY ONLY <1>2, <2>1, <2>2, <2>3, a \in Addrs, s \in Statuses, ReencryptionGood
  <2> QED
    BY ONLY <1>4, <2>3, <2>4
<1>8. ASSUME NEW a \in Addrs, NEW s \in {"success", "other"}, PairingComplete(a, s)
      PROVE  BleDevicesInv'
  <2>1. PICK p : p = [g EXCEPT !.bt.sm[a] = None]
    OBVIOUS
  <2>2. PICK r : r = IF ByAddr(p, a) = {} THEN HogDisconnect(p, g.bt.link[a])
                     ELSE IF s = "success" THEN QueryInfo(p, a)
                     ELSE p
    OBVIOUS
  <2>3. Becomes(r) /\ g.bt.sm[a] = "pair"
    BY ONLY <1>1, <1>3, <1>8, <2>1, <2>2 DEF PairingComplete
  <2>4. Good(g, r)
    BY ONLY <1>2, <2>1, <2>2, <2>3, a \in Addrs, PairingGood
  <2> QED
    BY ONLY <1>4, <2>3, <2>4
<1>9. ASSUME NEW a \in Addrs, NEW ok \in BOOLEAN, InformationDone(a, ok)
      PROVE  BleDevicesInv'
  <2>1. PICK p : p = [g EXCEPT !.bt.info = None]
    OBVIOUS
  <2>2. PICK h : h = g.bt.link[a]
    OBVIOUS
  <2>3. PICK r : r = IF ~ok THEN HogDisconnect(p, h)
                     ELSE IF ByHandle(p, h) = {} THEN p
                     ELSE IF g.bt.hids[a] # None THEN HogDisconnect(p, h)
                     ELSE HidsConnect(p, a, Min(ByHandle(p, h)))
    OBVIOUS
  <2>4. Becomes(r) /\ g.bt.info = a
    BY ONLY <1>1, <1>3, <1>9, <2>1, <2>2, <2>3 DEF InformationDone
  <2>5. Good(g, r)
    BY ONLY <1>2, <2>1, <2>2, <2>3, <2>4, a \in Addrs, InformationGood
  <2> QED
    BY ONLY <1>4, <2>4, <2>5
<1>10. ASSUME NEW a \in Addrs, NEW setup \in BOOLEAN, ServiceConnected(a, setup)
       PROVE  BleDevicesInv'
  <2>1. PICK p : p = [g EXCEPT !.bt.hids[a] = "up"]
    OBVIOUS
  <2>2. PICK i : i = Min(ByCid(p, a))
    OBVIOUS
  <2>3. PICK r : r = IF ByCid(p, a) = {} THEN p
                     ELSE Resume(SetReady(Connect(p, i), i, setup))
    OBVIOUS
  <2>4. Becomes(r) /\ g.bt.hids[a] = "asked"
    BY ONLY <1>1, <1>3, <1>10, <2>1, <2>2, <2>3 DEF ServiceConnected
  <2>5. Good(g, r)
    BY ONLY <1>2, <2>1, <2>2, <2>3, <2>4, a \in Addrs, setup \in BOOLEAN, ServiceGood
  <2> QED
    BY ONLY <1>4, <2>4, <2>5
<1>11. ASSUME NEW a \in Addrs, ServiceFailed(a)
       PROVE  BleDevicesInv'
  <2>1. PICK r : r = [g EXCEPT !.bt.hids[a] = None]
    OBVIOUS
  <2>2. Becomes(r) /\ g.bt.hids[a] = "asked"
    BY ONLY <1>1, <1>3, <1>11, <2>1 DEF ServiceFailed
  <2>3. Good(g, r)
    BY ONLY <1>2, <2>1, <2>2, a \in Addrs, FailedGood
  <2> QED
    BY ONLY <1>4, <2>2, <2>3
<1>12. ASSUME NEW a \in Addrs, EncryptionOff(a)
       PROVE  BleDevicesInv'
  <2>1. PICK r : r = HogDisconnect(g, g.bt.link[a])
    OBVIOUS
  <2>2. Becomes(r)
    BY ONLY <1>1, <1>3, <1>12, <2>1 DEF EncryptionOff
  <2>3. Good(g, r)
    BY ONLY <1>2, <2>1, HogKeeps, KeepsIsGood
  <2> QED
    BY ONLY <1>4, <2>2, <2>3
<1>13. ASSUME NEW a \in Addrs, DisconnectionComplete(a)
       PROVE  BleDevicesInv'
  <2>1. PICK p : p = InfoLost(SmLost(g, a), a)
    OBVIOUS
  <2>2. PICK q : q = OnDisconnectionComplete([p EXCEPT !.bt.hids[a] = None], a)
    OBVIOUS
  <2>3. PICK r : r = [q EXCEPT !.bt.link[a] = NoHandle, !.bt.leaving = @ \ {a},
                               !.bt.sm[a] = None]
    OBVIOUS
  <2>4. Becomes(r) /\ Linked(g.bt, a)
    BY ONLY <1>1, <1>3, <1>13, <2>1, <2>2, <2>3 DEF DisconnectionComplete
  <2>5. Good(g, r)
    BY ONLY <1>2, <2>1, <2>2, <2>3, <2>4, a \in Addrs, DisconnectionKeeps
  <2> QED
    BY ONLY <1>4, <2>4, <2>5
<1>14. ASSUME NEW i \in Idx, ConnectionTimeout(i)
       PROVE  BleDevicesInv'
  <2>1. CASE g.dev[i].state = "READY"
    <3>1. PICK r : r = [g EXCEPT !.dev[i].connTimer = FALSE]
      OBVIOUS
    <3>2. Becomes(r)
      BY ONLY <1>1, <1>3, <1>14, <2>1, <3>1 DEF ConnectionTimeout
    <3>3. Good(g, r)
      BY ONLY <1>2, <2>1, <3>1, i \in Idx, TimerGood
    <3> QED
      BY ONLY <1>4, <3>2, <3>3
  <2>2. CASE g.dev[i].state # "READY"
    <3>1. PICK r : r = Delete(g, i)
      OBVIOUS
    <3>2. Becomes(r)
      BY ONLY <1>1, <1>3, <1>14, <2>2, <3>1 DEF ConnectionTimeout
    <3>3. Good(g, r)
      BY ONLY <1>2, <3>1, i \in Idx, DeleteGood
    <3> QED
      BY ONLY <1>4, <3>2, <3>3
  <2> QED
    BY ONLY <2>1, <2>2
<1>15. ASSUME NEW i \in Idx, ParserDone(i)
       PROVE  BleDevicesInv'
  <2>1. PICK p : p = [g EXCEPT !.dev[i].setup = FALSE]
    OBVIOUS
  <2>2. PICK r : r = SetReadyComplete(p, i)
    OBVIOUS
  <2>3. Becomes(r) /\ g.dev[i].setup
    BY ONLY <1>1, <1>3, <1>15, <2>1, <2>2 DEF ParserDone
  <2>4. Good(g, r)
    BY ONLY <1>2, <2>1, <2>2, <2>3, i \in Idx, ParserGood
  <2> QED
    BY ONLY <1>4, <2>3, <2>4
<1>16. ASSUME NEW i \in Idx, DisconnectDevice(i)
       PROVE  BleDevicesInv'
  <2>1. PICK r : r = Delete(g, i)
    OBVIOUS
  <2>2. Becomes(r)
    BY ONLY <1>1, <1>16, <2>1 DEF DisconnectDevice
  <2>3. Good(g, r)
    BY ONLY <1>2, <2>1, i \in Idx, DeleteGood
  <2> QED
    BY ONLY <1>4, <2>2, <2>3
<1>17. ASSUME NEW enabled \in BOOLEAN, StartScanning(enabled)
       PROVE  BleDevicesInv'
  <2>1. PICK r : r = [g EXCEPT !.wanted = enabled, !.is_scanning = enabled,
                               !.bt.scan = enabled]
    OBVIOUS
  <2>2. Becomes(r)
    BY ONLY <1>1, <1>17, <2>1 DEF StartScanning
  <2>3. Good(g, r)
    BY ONLY <1>2, <2>1, enabled \in BOOLEAN, ScanningGood
  <2> QED
    BY ONLY <1>4, <2>2, <2>3
<1>18. ASSUME UNCHANGED vars
       PROVE  BleDevicesInv'
  <2>1. g0' = g0 /\ bt' = bt /\ mixed' = mixed /\ abandoned' = abandoned
    BY <1>18 DEF vars, g0
  <2> QED
    BY <2>1 DEF BleDevicesInv, TableOK, ServedInv, PauseInv, ForgottenInv
<1> QED
  BY <1>5, <1>6, <1>7, <1>8, <1>9, <1>10, <1>11, <1>12, <1>13, <1>14, <1>15, <1>16, <1>17,
     <1>18 DEF Next

-----------------------------------------------------------------------------
(* The theorems.                                                           *)

\* The inductive invariant: the table and btstack agree on who is linked, a
\* device is served by its own link and client unless a handle was ambiguous,
\* and a paused scan has a connection that resumes it.
THEOREM Inductive == Spec => []BleDevicesInv
<1>1. Init => BleDevicesInv
  BY InitHolds
<1>2. BleDevicesInv /\ [Next]_vars => BleDevicesInv'
  BY NextKeeps
<1> QED
  BY <1>1, <1>2, PTL DEF Spec

\* The places, the count of the seats and what btstack does have their types,
\* used_controllers_ among them: it is never below zero or above the number of
\* places, whatever was deleted unseen.
THEOREM TypesAlwaysRight == Spec => []TypeOK
<1>1. BleDevicesInv => TypeOK
  <2> SUFFICES ASSUME BleDevicesInv
               PROVE  TypeOK
    OBVIOUS
  <2>1. PICK g : g = g0
    OBVIOUS
  <2>2. g \in State
    BY <2>1, InvOfState DEF BleDevicesInv, Tidy
  <2>3. /\ g.dev = dev /\ g.used = used /\ g.is_scanning = is_scanning /\ g.wanted = wanted
        /\ g.bt = bt
    BY <2>1 DEF g0
  <2>4. /\ dev \in [Idx -> Device] /\ used \in 0 .. N /\ is_scanning \in BOOLEAN
        /\ wanted \in BOOLEAN /\ bt \in Stack
    BY <2>2, <2>3, StateFields
  <2> QED
    BY <2>4 DEF TypeOK, Stack
<1> QED
  BY <1>1, Inductive, PTL

\* A place never keeps the handle of a link that is not its device's, the
\* device information client serves a link that is there, and unless a link had
\* the handle 0 of another device's place, the seats are those of the devices
\* that got ready and every device is served or watched by its timer: what
\* uni_bt_le.c keeps right however the events come.
THEOREM TableAlwaysRight == Spec => []BleInv
<1>1. BleDevicesInv => BleInv
  <2> SUFFICES ASSUME BleDevicesInv
               PROVE  BleInv
    OBVIOUS
  <2>1. PICK g : g = g0
    OBVIOUS
  <2>2. Tidy(g) /\ (mixed \/ Served(g))
    BY <2>1, InvOfState DEF BleDevicesInv
  <2>3. g.dev = dev /\ g.used = used /\ g.bt = bt
    BY <2>1 DEF g0
  <2>4. g \in State /\ TableInv(g) /\ LinkInv(g) /\ StageInv(g)
    BY <2>2 DEF Tidy
  <2>5. \A i \in Idx : dev[i] \in Device
    BY <2>3, <2>4, StateFields
  <2>6. OwnHandle
    <3>1. ASSUME NEW i \in Idx
          PROVE  dev[i].handle \in {0, NoHandle} \/ dev[i].handle = bt.link[dev[i].addr]
      <4>1. CASE dev[i].addr = None
        BY <2>3, <2>4, <4>1, EmptyIsDevice DEF TableInv
      <4>2. CASE dev[i].addr # None
        BY <2>3, <2>4, <4>2 DEF LinkInv
      <4> QED
        BY <4>1, <4>2
    <3> QED
      BY <3>1 DEF OwnHandle
  <2>7. InfoServes
    BY <2>3, <2>4 DEF InfoServes, StageInv
  <2>8. ASSUME Served(g)
        PROVE  SeatsMatch
    <3>1. used = Cardinality({i \in Idx : dev[i].seat = "seat"})
      BY <2>3, <2>8 DEF Served, SeatInv, Seats
    <3>2. \A i \in Idx : dev[i].seat = "seat" => dev[i].connected
      BY <2>3, <2>4 DEF TableInv
    <3> QED
      BY <3>1, <3>2 DEF SeatsMatch
  <2>9. ASSUME Served(g), NEW i \in Idx
        PROVE  IF dev[i].addr = None
                 THEN ~dev[i].connTimer /\ ~dev[i].connected /\ dev[i].seat # "seat"
               ELSE \/ dev[i].connTimer
                    \/ /\ dev[i].state = "READY" /\ dev[i].seat = "seat"
                       /\ bt.link[dev[i].addr] = dev[i].handle
                       /\ \/ dev[i].addr \in bt.leaving
                          \/ dev[i].cid = dev[i].addr /\ bt.hids[dev[i].addr] = "up"
    <3>1. CASE dev[i].addr = None
      BY <2>3, <2>4, <3>1, EmptyIsDevice DEF TableInv
    <3>2. CASE dev[i].addr # None /\ ~dev[i].connTimer
      <4>1. dev[i].state = "READY" /\ dev[i].seat = "seat"
        BY <2>3, <2>9, <3>2 DEF Served, SeatInv
      <4>2. ClientAt(g, i) /\ ReadyAt(g, i)
        BY <2>9 DEF Served
      <4>3. dev[i].cid = dev[i].addr /\ Linked(bt, dev[i].addr)
        BY <2>3, <4>1, <4>2 DEF ClientAt, ReadyAt
      <4>4. bt.link[dev[i].addr] = dev[i].handle
        BY <2>3, <2>4, <3>2, <4>3 DEF LinkInv
      <4> QED
        BY <2>3, <3>2, <4>1, <4>2, <4>3, <4>4 DEF ReadyAt
    <3> QED
      BY <3>1, <3>2
  <2>10. Served(g) => ServedOrWatched
    BY <2>9 DEF ServedOrWatched
  <2> QED
    BY <2>2, <2>6, <2>7, <2>8, <2>10 DEF BleInv
<1> QED
  BY <1>1, Inductive, PTL

\* The scan that hog_connect() stops is paused only while a device is being
\* connected, unless a device was deleted while btstack was connecting to it,
\* since the scan was last on, or a handle was ambiguous.
THEOREM PausedToConnect == Spec => []ScanPaused
<1>1. BleDevicesInv => ScanPaused
  <2> SUFFICES ASSUME BleDevicesInv
               PROVE  ScanPaused
    OBVIOUS
  <2>1. PICK g : g = g0
    OBVIOUS
  <2>2. Paused(g) => mixed \/ abandoned \/ \E i \in Idx : Resumes(g, i)
    BY <2>1, InvOfState DEF BleDevicesInv
  <2>3. g.dev = dev /\ g.is_scanning = is_scanning /\ g.bt = bt
    BY <2>1 DEF g0
  <2> QED
    BY <2>2, <2>3 DEF ScanPaused, Paused, Resumes, Connecting
<1> QED
  BY <1>1, Inductive, PTL
=============================================================================
