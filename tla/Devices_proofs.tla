---------------------------- MODULE Devices_proofs ----------------------------
(***************************************************************************)
(* Proofs about Devices: a device is in the table once, the seats are      *)
(* those of the devices that got ready, and no place is kept for ever, for *)
(* every number of places and devices.                                     *)
(*                                                                         *)
(* A handler maps a record g of the whole state to another one, so the     *)
(* invariant is stated of such a record, there is a lemma for each of the  *)
(* functions, and the invariant of the state is that of g0.                *)
(***************************************************************************)
EXTENDS Devices, FiniteSetTheorems, TLAPS

-----------------------------------------------------------------------------
(* The invariant.                                                          *)

Links == {None, "ours", "theirs", "paging", "paged", "leaving", "closing"}

Channels == {None, "asked", "coming", "open"}

Queries == [addr : Addrs \cup {None}, kind : {None, "pid", "hid"}]

Stack ==
  [link : [Addrs -> Links], chan : [Addrs -> [Psms -> Channels]],
   twice : SUBSET (Addrs \X Psms), names : SUBSET Addrs, query : Queries,
   closing : Addrs \cup {None}, left : SUBSET (Psms \cup {"query", "again"})]

Sdp == [device : Idx \cup {NoDevice}, timer : BOOLEAN]

State ==
  [dev : [Idx -> Device], sdp : Sdp, used : 0 .. N, asserted : BOOLEAN, bt : Stack]

Seats(g) == {i \in Idx : g.dev[i].seat = "seat"}

\* A place is free when it has no timer and no connection, though a late query
\* may have left something else in it, and the platform has heard of a device
\* exactly when it is connected.
PlaceInv(d) ==
  /\ d.addr = None => ~d.connTimer /\ ~d.connected
  /\ d.connected <=> d.seat # "zero"

TableInv(g) ==
  /\ \A i \in Idx : PlaceInv(g.dev[i])
  /\ \A i, j \in Idx : g.dev[i].addr = g.dev[j].addr /\ g.dev[i].addr # None => i = j
  /\ g.used = Cardinality(Seats(g))

Tidy(g) == g \in State /\ TableInv(g)

\* A link that is not there has no channels, the interrupt channel is not asked
\* for twice, and while a link closes its channels are among what is left.
AddrInv(b, a) ==
  /\ b.link[a] = None => \A k \in Psms : b.chan[a][k] = None /\ <<a, k>> \notin b.twice
  /\ <<a, "interrupt">> \notin b.twice
  /\ b.link[a] = "closing" <=> b.closing = a
  /\ b.closing = a =>
       /\ b.chan[a]["interrupt"] # None => "interrupt" \in b.left
       /\ b.chan[a]["control"] \in {"open", "coming"} => "control" \in b.left

\* How often the control channel has been asked for, and may yet be: once for
\* the timer of the name, for the answer to the request and for the query that
\* goes before the channel.
Asked(b, a) ==
  IF <<a, "control">> \in b.twice THEN 2 ELSE IF b.chan[a]["control"] # None THEN 1 ELSE 0

Uses(d, b, s, i) ==
  Asked(b, d.addr) + (IF d.nameTimer THEN 1 ELSE 0) + (IF d.addr \in b.names THEN 1 ELSE 0)
    + (IF s.device = i /\ d.query = "before" THEN 1 ELSE 0)

Budget(d, b, s, i, n) == ~d.incoming => Uses(d, b, s, i) <= n

\* The place of a device: it is connected while its interrupt channel is open,
\* its handle is that of the link, it has a timer or a seat, and one that we
\* connect to has asked for the control channel before the interrupt channel.
LifeAt(d, b) ==
  /\ d.connected => d.handle /\ b.chan[d.addr]["interrupt"] = "open" /\ "interrupt" \in d.cid
  /\ b.link[d.addr] \in Up => d.handle
  /\ d.state = "READY" => d.seat = "seat"
  /\ d.connTimer \/ d.seat = "seat"
  /\ d.query = "before" => d.name # None
  /\ ~d.incoming =>
       /\ b.chan[d.addr]["control"] # "coming"
       /\ Asked(b, d.addr) # 0 => "control" \in d.cid /\ d.name # None
       /\ Asked(b, d.addr) = 0 \/ b.chan[d.addr]["control"] = "asked"
            => b.chan[d.addr]["interrupt"] = None

\* A handler leaves no device in a state the state machine would act on.
SettledAt(d) ==
  /\ d.state \notin {"DISCOVERED", "NAME_FETCHED", "VENDOR_FETCHED", "HID_FETCHED"}
  /\ d.state = "CONTROL_CONNECTED" => d.incoming
  /\ d.state = "INTERRUPT_CONNECTED" => d.connected

At(g, i) ==
  g.dev[i].addr # None =>
    /\ LifeAt(g.dev[i], g.bt) /\ SettledAt(g.dev[i])
    /\ Budget(g.dev[i], g.bt, g.sdp, i, 2)

\* A state that is right but for one place, which a handler works on.
But(g, i) ==
  /\ Tidy(g)
  /\ \A a \in Addrs : AddrInv(g.bt, a)
  /\ \A j \in Idx : j # i => At(g, j)

Sound(g) ==
  /\ Tidy(g)
  /\ \A a \in Addrs : AddrInv(g.bt, a)
  /\ \A i \in Idx : At(g, i)

\* The inductive invariant.
DevicesInv == Sound(g0)

\* What btstack does about a device is as before, or less is asked of it.
Same(b, c, a) ==
  /\ c.link[a] = b.link[a] /\ c.chan[a] = b.chan[a]
  /\ \A k \in Psms : <<a, k>> \in c.twice <=> <<a, k>> \in b.twice
  /\ a \in c.names => a \in b.names
  /\ c.closing = a <=> b.closing = a
  /\ b.closing = a => \A k \in Psms : k \in c.left <=> k \in b.left

Elsewhere(b, c, a) == \A x \in Addrs : x # a => Same(b, c, x)

-----------------------------------------------------------------------------
(* Lemmas about places.                                                    *)

\* A cleared place is a place, and it is free.
LEMMA EmptyIsDevice ==
  Empty \in Device /\ PlaceInv(Empty) /\ Empty.addr = None /\ Empty.seat = "zero"
BY DEF Empty, Device, States, PlaceInv

\* The seats are as many as there are places at most.
LEMMA SeatsFinite ==
  ASSUME NEW g
  PROVE  /\ IsFiniteSet(Seats(g)) /\ Cardinality(Seats(g)) \in Nat
         /\ Cardinality(Seats(g)) <= N
<1>1. IsFiniteSet(Idx) /\ Cardinality(Idx) = N
  BY NAssumption, FS_Interval DEF Idx
<1>2. Seats(g) \in SUBSET Idx
  BY DEF Seats
<1> QED
  BY <1>1, <1>2, FS_Subset, FS_CardinalityType

\* What becomes of the seats when one place changes.
LEMMA SeatsChange ==
  ASSUME NEW g, NEW h, NEW i \in Idx,
         \A j \in Idx : j # i => h.dev[j].seat = g.dev[j].seat
  PROVE  Cardinality(Seats(h)) =
           IF g.dev[i].seat = "seat" /\ h.dev[i].seat # "seat" THEN Cardinality(Seats(g)) - 1
           ELSE IF g.dev[i].seat # "seat" /\ h.dev[i].seat = "seat"
             THEN Cardinality(Seats(g)) + 1
           ELSE Cardinality(Seats(g))
<1>1. IsFiniteSet(Seats(g))
  BY SeatsFinite
<1>2. CASE g.dev[i].seat = "seat" /\ h.dev[i].seat # "seat"
  <2>1. Seats(h) = Seats(g) \ {i} /\ i \in Seats(g)
    BY <1>2 DEF Seats
  <2> QED
    BY <1>1, <1>2, <2>1, FS_RemoveElement
<1>3. CASE g.dev[i].seat # "seat" /\ h.dev[i].seat = "seat"
  <2>1. Seats(h) = Seats(g) \cup {i} /\ i \notin Seats(g)
    BY <1>3 DEF Seats
  <2> QED
    BY <1>1, <1>3, <2>1, FS_AddElement
<1>4. CASE (g.dev[i].seat = "seat") = (h.dev[i].seat = "seat")
  <2>1. Seats(h) = Seats(g)
    BY <1>4 DEF Seats
  <2> QED
    BY <1>4, <2>1
<1> QED
  BY <1>2, <1>3, <1>4

\* The fields of a state.
LEMMA StateFields ==
  ASSUME NEW g \in State
  PROVE  /\ g = [dev |-> g.dev, sdp |-> g.sdp, used |-> g.used, asserted |-> g.asserted,
                 bt |-> g.bt]
         /\ g.dev \in [Idx -> Device] /\ g.sdp \in Sdp /\ g.used \in 0 .. N
         /\ g.asserted \in BOOLEAN /\ g.bt \in Stack
BY DEF State

\* A state stays tidy when one place changes, and keeps its device or is cleared:
\* a seat is counted when it is given and when it is taken.
LEMMA Altered ==
  ASSUME NEW g, Tidy(g), NEW r \in State, NEW i \in Idx,
         \A j \in Idx : j # i => r.dev[j] = g.dev[j],
         PlaceInv(r.dev[i]), r.dev[i].addr \in {None, g.dev[i].addr},
         \/ r.used = g.used /\ (r.dev[i].seat = "seat" <=> g.dev[i].seat = "seat")
         \/ r.used = g.used + 1 /\ g.dev[i].seat # "seat" /\ r.dev[i].seat = "seat"
         \/ r.used = g.used - 1 /\ g.dev[i].seat = "seat" /\ r.dev[i].seat # "seat"
  PROVE  Tidy(r)
<1>1. g \in State /\ TableInv(g) /\ g.dev \in [Idx -> Device]
  BY StateFields DEF Tidy
<1>2. \A j \in Idx : j # i => r.dev[j] = g.dev[j]
  OBVIOUS
<1>3. \A j \in Idx : PlaceInv(r.dev[j])
  BY <1>1, <1>2 DEF TableInv
<1>4. \A j, k \in Idx : r.dev[j].addr = r.dev[k].addr /\ r.dev[j].addr # None => j = k
  <2>1. \A j \in Idx : r.dev[j].addr # None => r.dev[j].addr = g.dev[j].addr
    BY <1>2
  <2> QED
    BY <1>1, <2>1 DEF TableInv
<1>5. r.used = Cardinality(Seats(r))
  <2>1. Cardinality(Seats(g)) \in Nat /\ g.used = Cardinality(Seats(g))
    BY <1>1, SeatsFinite DEF TableInv
  <2>2. Cardinality(Seats(r)) =
           IF g.dev[i].seat = "seat" /\ r.dev[i].seat # "seat" THEN Cardinality(Seats(g)) - 1
           ELSE IF g.dev[i].seat # "seat" /\ r.dev[i].seat = "seat"
             THEN Cardinality(Seats(g)) + 1
           ELSE Cardinality(Seats(g))
    <3>1. \A j \in Idx : j # i => r.dev[j].seat = g.dev[j].seat
      BY <1>2
    <3> QED
      BY ONLY <3>1, i \in Idx, SeatsChange
  <2> QED
    BY <2>1, <2>2
<1> QED
  BY <1>3, <1>4, <1>5 DEF Tidy, TableInv

\* The same when no place changes.
LEMMA TableKept ==
  ASSUME NEW g, Tidy(g), NEW r \in State, r.dev = g.dev, r.used = g.used
  PROVE  Tidy(r)
<1>1. Seats(r) = Seats(g)
  BY DEF Seats
<1> QED
  BY <1>1 DEF Tidy, TableInv

\* The place of a device.
LEMMA PlaceOfFits ==
  ASSUME NEW g, NEW a, Places(g.dev, a) # {}
  PROVE  PlaceOf(g, a) \in Idx /\ g.dev[PlaceOf(g, a)].addr = a
BY DEF PlaceOf, Places

-----------------------------------------------------------------------------
(* Lemmas about the functions.                                             *)

\* A channel's state, or that of a link, changes.
LEMMA StackIs ==
  ASSUME NEW b \in Stack
  PROVE  /\ b.link \in [Addrs -> Links] /\ b.chan \in [Addrs -> [Psms -> Channels]]
         /\ b.twice \in SUBSET (Addrs \X Psms) /\ b.names \in SUBSET Addrs
         /\ b.query \in Queries /\ b.closing \in Addrs \cup {None}
         /\ b.left \in SUBSET (Psms \cup {"query", "again"})
         /\ \A a \in Addrs, l \in Links : [b EXCEPT !.link[a] = l] \in Stack
         /\ \A a \in Addrs, k \in Psms, c \in Channels : [b EXCEPT !.chan[a][k] = c] \in Stack
         /\ \A t \in SUBSET (Addrs \X Psms) : [b EXCEPT !.twice = t] \in Stack
         /\ \A s \in SUBSET Addrs : [b EXCEPT !.names = s] \in Stack
         /\ \A q \in Queries : [b EXCEPT !.query = q] \in Stack
<1>1. /\ b.link \in [Addrs -> Links] /\ b.chan \in [Addrs -> [Psms -> Channels]]
      /\ b.twice \in SUBSET (Addrs \X Psms) /\ b.names \in SUBSET Addrs
      /\ b.query \in Queries /\ b.closing \in Addrs \cup {None}
      /\ b.left \in SUBSET (Psms \cup {"query", "again"})
  BY DEF Stack
<1>2. \A a \in Addrs, l \in Links : [b EXCEPT !.link[a] = l] \in Stack
  BY DEF Stack
<1>3. \A a \in Addrs, k \in Psms, c \in Channels : [b EXCEPT !.chan[a][k] = c] \in Stack
  BY DEF Stack
<1>4. \A t \in SUBSET (Addrs \X Psms) : [b EXCEPT !.twice = t] \in Stack
  BY DEF Stack
<1>5. \A s \in SUBSET Addrs : [b EXCEPT !.names = s] \in Stack
  BY DEF Stack
<1>6. \A q \in Queries : [b EXCEPT !.query = q] \in Stack
  BY DEF Stack
<1> QED
  BY <1>1, <1>2, <1>3, <1>4, <1>5, <1>6

\* A step of a handler that leaves the seats alone: it changes the place of a
\* device, which keeps its device, and what btstack and the query do.
LEMMA StepKeeps ==
  ASSUME NEW g, Tidy(g), NEW r \in State, NEW i \in Idx,
         \A j \in Idx : j # i => r.dev[j] = g.dev[j],
         r.dev[i].addr = g.dev[i].addr, r.dev[i].connected = g.dev[i].connected,
         r.dev[i].seat = g.dev[i].seat, r.dev[i].connTimer => g.dev[i].connTimer,
         r.used = g.used
  PROVE  Tidy(r)
<1>1. PlaceInv(g.dev[i])
  BY DEF Tidy, TableInv
<1>2. PlaceInv(r.dev[i])
  BY <1>1 DEF PlaceInv
<1> QED
  BY <1>2, Altered

-----------------------------------------------------------------------------
(* Lemmas about a handler that works on one place.                         *)

\* A right state is right but for a place, and the place makes it right.
LEMMA SoundBut ==
  ASSUME NEW g, NEW i \in Idx
  PROVE  /\ Sound(g) => But(g, i) /\ At(g, i)
         /\ But(g, i) /\ At(g, i) => Sound(g)
BY DEF Sound, But

\* What holds of a link holds when btstack does the same about it.
LEMMA SameAddr ==
  ASSUME NEW b, NEW c, NEW a \in Addrs, AddrInv(b, a), Same(b, c, a)
  PROVE  AddrInv(c, a)
BY DEF AddrInv, Same, Psms

\* And so does what holds of the place of a device.
LEMMA SameLife ==
  ASSUME NEW b, NEW c, NEW d, d.addr \in Addrs, Same(b, c, d.addr), LifeAt(d, b)
  PROVE  LifeAt(d, c)
<1>1. Asked(c, d.addr) = Asked(b, d.addr)
  BY DEF Asked, Same, Psms
<1> QED
  BY <1>1 DEF LifeAt, Same

\* And what may still be asked for it.
LEMMA SameBudget ==
  ASSUME NEW b, NEW c, NEW d, d.addr \in Addrs, Same(b, c, d.addr),
         NEW s, NEW t, NEW j, t.device = j => s.device = j, NEW n \in Nat,
         Budget(d, b, s, j, n)
  PROVE  Budget(d, c, t, j, n)
<1>1. Asked(c, d.addr) = Asked(b, d.addr) /\ Asked(b, d.addr) \in Nat
  BY DEF Asked, Same, Psms
<1>2. d.addr \in c.names => d.addr \in b.names
  BY DEF Same
<1> QED
  BY <1>1, <1>2 DEF Budget, Uses

\* The state stays right but for a place while a handler works on that place,
\* on its device and on the query.
LEMMA ButKept ==
  ASSUME NEW g, NEW i \in Idx, But(g, i), NEW r, Tidy(r),
         \A j \in Idx : j # i => r.dev[j] = g.dev[j],
         Elsewhere(g.bt, r.bt, g.dev[i].addr),
         r.sdp.device \in {g.sdp.device, i, NoDevice},
         g.dev[i].addr \in Addrs => AddrInv(r.bt, g.dev[i].addr)
  PROVE  But(r, i)
<1>1. ASSUME NEW a \in Addrs
      PROVE  AddrInv(r.bt, a)
  <2>1. CASE a = g.dev[i].addr
    BY <2>1
  <2>2. CASE a # g.dev[i].addr
    <3>1. AddrInv(g.bt, a) /\ Same(g.bt, r.bt, a)
      BY <2>2 DEF But, Elsewhere
    <3> QED
      BY ONLY <3>1, a \in Addrs, SameAddr
  <2> QED
    BY <2>1, <2>2
<1>2. ASSUME NEW j \in Idx, j # i, r.dev[j].addr # None
      PROVE  /\ LifeAt(r.dev[j], r.bt) /\ SettledAt(r.dev[j])
             /\ Budget(r.dev[j], r.bt, r.sdp, j, 2)
  <2>1. PICK d : d = g.dev[j]
    OBVIOUS
  <2>2. r.dev[j] = d /\ d.addr # g.dev[i].addr /\ At(g, j)
    BY <1>2, <2>1 DEF But, Tidy, TableInv
  <2>3. d.addr \in Addrs
    <3>1. d \in Device
      BY <2>1, StateFields DEF But, Tidy
    <3> QED
      BY ONLY <1>2, <2>2, <3>1 DEF Device
  <2>4. Same(g.bt, r.bt, d.addr)
    BY <2>2, <2>3 DEF Elsewhere
  <2>5. LifeAt(d, g.bt) /\ SettledAt(d) /\ Budget(d, g.bt, g.sdp, j, 2)
    BY <1>2, <2>1, <2>2 DEF At
  <2>6. r.sdp.device = j => g.sdp.device = j
    BY <1>2 DEF Idx, NoDevice
  <2>7. LifeAt(d, r.bt)
    BY ONLY <2>3, <2>4, <2>5, SameLife
  <2>8. Budget(d, r.bt, r.sdp, j, 2)
    BY ONLY <2>3, <2>4, <2>5, <2>6, SameBudget
  <2> QED
    BY <2>2, <2>5, <2>7, <2>8
<1> QED
  BY <1>1, <1>2 DEF But, At

\* Nothing changes elsewhere when btstack does the same.
LEMMA SameIsElsewhere ==
  ASSUME NEW b, NEW a
  PROVE  Elsewhere(b, b, a)
BY DEF Elsewhere, Same

\* Fields of the place change that say nothing of whose it is.
LEMMA ButPlace ==
  ASSUME NEW g, NEW i \in Idx, But(g, i), NEW e \in [Idx -> Device],
         \A j \in Idx : j # i => e[j] = g.dev[j],
         e[i].addr = g.dev[i].addr, e[i].connected = g.dev[i].connected,
         e[i].seat = g.dev[i].seat, e[i].connTimer => g.dev[i].connTimer,
         NEW h, h = [g EXCEPT !.dev = e]
  PROVE  /\ But(h, i) /\ h \in State /\ h.dev = e /\ h.bt = g.bt
         /\ h.sdp = g.sdp /\ h.used = g.used /\ h.asserted = g.asserted
<1>1. g \in State /\ Tidy(g)
  BY DEF But, Tidy
<1>2. /\ h \in State /\ h.dev = e /\ h.bt = g.bt /\ h.sdp = g.sdp
      /\ h.used = g.used /\ h.asserted = g.asserted
  BY <1>1 DEF State
<1>3. /\ \A j \in Idx : j # i => h.dev[j] = g.dev[j]
      /\ h.dev[i].addr = g.dev[i].addr /\ h.dev[i].connected = g.dev[i].connected
      /\ h.dev[i].seat = g.dev[i].seat /\ (h.dev[i].connTimer => g.dev[i].connTimer)
  BY <1>2
<1>4. Tidy(h)
  BY ONLY <1>1, <1>2, <1>3, i \in Idx, StepKeeps
<1>5. /\ Elsewhere(g.bt, h.bt, g.dev[i].addr) /\ h.sdp.device = g.sdp.device
      /\ (g.dev[i].addr \in Addrs => AddrInv(h.bt, g.dev[i].addr))
  BY <1>2, SameIsElsewhere DEF But
<1>6. But(h, i)
  BY ONLY <1>3, <1>4, <1>5, But(g, i), i \in Idx, ButKept
<1> QED
  BY <1>2, <1>6

\* What btstack does about the device of the place changes.
LEMMA ButStack ==
  ASSUME NEW g, NEW i \in Idx, But(g, i), NEW b \in Stack,
         Elsewhere(g.bt, b, g.dev[i].addr),
         g.dev[i].addr \in Addrs => AddrInv(b, g.dev[i].addr),
         NEW h, h = [g EXCEPT !.bt = b]
  PROVE  /\ But(h, i) /\ h \in State /\ h.bt = b
         /\ h.dev = g.dev /\ h.sdp = g.sdp /\ h.used = g.used /\ h.asserted = g.asserted
<1>1. g \in State /\ Tidy(g)
  BY DEF But, Tidy
<1>2. /\ h \in State /\ h.bt = b /\ h.dev = g.dev /\ h.sdp = g.sdp /\ h.used = g.used
      /\ h.asserted = g.asserted
  BY <1>1 DEF State
<1>3. Tidy(h)
  BY ONLY <1>1, <1>2, TableKept
<1>4. But(h, i)
  BY <1>2, <1>3, ButKept
<1> QED
  BY <1>2, <1>4

\* The query changes.
LEMMA ButSdp ==
  ASSUME NEW g, NEW i \in Idx, But(g, i), NEW s \in Sdp,
         s.device \in {g.sdp.device, i, NoDevice}, NEW h, h = [g EXCEPT !.sdp = s]
  PROVE  /\ But(h, i) /\ h \in State /\ h.sdp = s
         /\ h.dev = g.dev /\ h.bt = g.bt /\ h.used = g.used /\ h.asserted = g.asserted
<1>1. g \in State /\ Tidy(g)
  BY DEF But, Tidy
<1>2. /\ h \in State /\ h.bt = g.bt /\ h.dev = g.dev /\ h.sdp = s /\ h.used = g.used
      /\ h.asserted = g.asserted
  BY <1>1 DEF State
<1>3. Tidy(h)
  BY ONLY <1>1, <1>2, TableKept
<1>4. /\ Elsewhere(g.bt, h.bt, g.dev[i].addr)
      /\ (g.dev[i].addr \in Addrs => AddrInv(h.bt, g.dev[i].addr))
  BY <1>2, SameIsElsewhere DEF But
<1>5. But(h, i)
  BY <1>2, <1>3, <1>4, ButKept
<1> QED
  BY <1>2, <1>5

\* The assertion changes.
LEMMA ButAsserted ==
  ASSUME NEW g, NEW i \in Idx, But(g, i), NEW t \in BOOLEAN,
         NEW h, h = [g EXCEPT !.asserted = t]
  PROVE  /\ But(h, i) /\ h \in State /\ h.sdp = g.sdp
         /\ h.dev = g.dev /\ h.bt = g.bt /\ h.used = g.used
<1>1. g \in State /\ Tidy(g)
  BY DEF But, Tidy
<1>2. /\ h \in State /\ h.bt = g.bt /\ h.dev = g.dev /\ h.sdp = g.sdp /\ h.used = g.used
  BY <1>1 DEF State
<1>3. Tidy(h)
  BY ONLY <1>1, <1>2, TableKept
<1>4. /\ Elsewhere(g.bt, h.bt, g.dev[i].addr)
      /\ (g.dev[i].addr \in Addrs => AddrInv(h.bt, g.dev[i].addr))
  BY <1>2, SameIsElsewhere DEF But
<1>5. But(h, i)
  BY <1>2, <1>3, <1>4, ButKept
<1> QED
  BY <1>2, <1>5

-----------------------------------------------------------------------------
(* Lemmas about the functions.                                             *)

\* Paging a device changes nothing but its link, which was not there.
LEMMA PageKeeps ==
  ASSUME NEW b \in Stack, NEW a, NEW p, p = Page(b, a)
  PROVE  /\ p \in Stack /\ Elsewhere(b, p, a)
         /\ p.chan = b.chan /\ p.twice = b.twice /\ p.names = b.names
         /\ a \in Addrs => p.link[a] # None
         /\ a \in Addrs /\ AddrInv(b, a) => AddrInv(p, a)
         /\ a \in Addrs => (p.link[a] \in Up => p.link[a] = b.link[a])
<1>1. CASE a \in Addrs /\ b.link[a] = None
  <2>1. p = [b EXCEPT !.link[a] = "paging"]
    BY <1>1 DEF Page
  <2>2. p \in Stack
    <3>1. "paging" \in Links
      BY DEF Links
    <3> QED
      BY ONLY <1>1, <2>1, <3>1, b \in Stack, StackIs
  <2>3. /\ p.chan = b.chan /\ p.twice = b.twice /\ p.names = b.names
        /\ p.closing = b.closing /\ p.left = b.left
        /\ p.link[a] = "paging" /\ \A x \in Addrs : x # a => p.link[x] = b.link[x]
    BY <1>1, <2>1 DEF Stack
  <2>4. Elsewhere(b, p, a)
    BY <2>3 DEF Elsewhere, Same
  <2>5. AddrInv(b, a) => AddrInv(p, a)
    BY <1>1, <2>3 DEF AddrInv, None
  <2> QED
    BY <1>1, <2>2, <2>3, <2>4, <2>5 DEF Up, None
<1>2. CASE ~(a \in Addrs /\ b.link[a] = None)
  <2>1. p = b
    BY <1>2 DEF Page
  <2> QED
    BY <1>2, <2>1, SameIsElsewhere
<1> QED
  BY <1>1, <1>2

\* The place of a device, and what may still be asked, when nothing has been
\* done about its channels.
LEMMA SameAsked ==
  ASSUME NEW b, NEW c, NEW d, c.chan = b.chan, c.twice = b.twice,
         c.link[d.addr] \in Up => c.link[d.addr] = b.link[d.addr], LifeAt(d, b)
  PROVE  LifeAt(d, c)
BY DEF LifeAt, Asked

\* Clearing a place takes its seat and its link away.
LEMMA DeleteSound ==
  ASSUME NEW g, NEW i \in Idx, But(g, i)
  PROVE  Sound(Delete(g, i))
<1>1. g \in State /\ TableInv(g) /\ Tidy(g) /\ g.dev[i] \in Device /\ g.bt \in Stack
  BY StateFields DEF But, Tidy
<1>2. PICK a : a = g.dev[i].addr
  OBVIOUS
<1>3. PICK b : b = IF g.dev[i].handle /\ a \in Addrs /\ g.bt.link[a] \in Up
                     THEN [g.bt EXCEPT !.link[a] = "leaving"] ELSE g.bt
  OBVIOUS
<1>4. b \in Stack /\ Elsewhere(g.bt, b, a) /\ (a \in Addrs => AddrInv(b, a))
  <2>1. a \in Addrs => AddrInv(g.bt, a)
    BY DEF But
  <2>2. CASE g.dev[i].handle /\ a \in Addrs /\ g.bt.link[a] \in Up
    <3>1. b = [g.bt EXCEPT !.link[a] = "leaving"]
      BY <1>3, <2>2
    <3>2. b \in Stack
      BY <1>1, <2>2, <3>1, StackIs DEF Links
    <3>3. /\ b.chan = g.bt.chan /\ b.twice = g.bt.twice /\ b.names = g.bt.names
          /\ b.closing = g.bt.closing /\ b.left = g.bt.left
          /\ b.link[a] = "leaving" /\ \A x \in Addrs : x # a => b.link[x] = g.bt.link[x]
      BY <1>1, <2>2, <3>1 DEF Stack
    <3>4. Elsewhere(g.bt, b, a)
      BY <3>3 DEF Elsewhere, Same
    <3>5. AddrInv(b, a)
      BY <2>1, <2>2, <3>3 DEF AddrInv, None, Up
    <3> QED
      BY <3>2, <3>4, <3>5
  <2>3. CASE ~(g.dev[i].handle /\ a \in Addrs /\ g.bt.link[a] \in Up)
    BY <1>1, <1>3, <2>1, <2>3, SameIsElsewhere
  <2> QED
    BY <2>2, <2>3
<1>5. (g.dev[i].connected /\ g.dev[i].seat # None) = (g.dev[i].seat = "seat")
  BY <1>1, Zenon DEF TableInv, PlaceInv, Device, None
<1>6. g.dev[i].seat = "seat" => g.used - 1 \in 0 .. N
  <2>1. SUFFICES ASSUME g.dev[i].seat = "seat" PROVE g.used - 1 \in 0 .. N
    OBVIOUS
  <2>2. i \in Seats(g)
    BY <2>1 DEF Seats
  <2>3. Seats(g) # {} /\ Cardinality(Seats(g)) = g.used
    BY <1>1, <2>2 DEF TableInv
  <2>4. Cardinality(Seats(g)) # 0
    BY <2>3, SeatsFinite, FS_EmptySet
  <2> QED
    BY <1>1, <2>3, <2>4, SeatsFinite, StateFields, NAssumption
<1>7. PICK u \in 0 .. N : u = IF g.dev[i].seat = "seat" THEN g.used - 1 ELSE g.used
  BY <1>1, <1>6, StateFields
<1>8. PICK r : r = [g EXCEPT !.dev[i] = Empty, !.used = u, !.bt = b]
  OBVIOUS
<1>9. r = Delete(g, i)
  BY <1>1, <1>2, <1>3, <1>5, <1>7, <1>8, Zenon DEF Delete
<1>10. /\ r \in State /\ r.dev[i] = Empty /\ r.used = u /\ r.bt = b /\ r.sdp = g.sdp
       /\ \A j \in Idx : j # i => r.dev[j] = g.dev[j]
  BY <1>1, <1>4, <1>8, EmptyIsDevice DEF State
<1>11. Tidy(r)
  BY <1>1, <1>7, <1>10, EmptyIsDevice, Altered
<1>12. But(r, i)
  BY <1>2, <1>4, <1>10, <1>11, ButKept
<1>13. At(r, i)
  BY <1>10, EmptyIsDevice DEF At
<1> QED
  BY <1>9, <1>12, <1>13, SoundBut

\* l2cap_create_channel(), as to btstack.
Ask(b, a, k) ==
  IF a \notin Addrs THEN b
  ELSE IF b.chan[a][k] = None THEN [b EXCEPT !.chan[a][k] = "asked"]
  ELSE [b EXCEPT !.twice = @ \cup {<<a, k>>}]

\* The interrupt channel is asked for once, and not while the link closes.
Askable(b, a, k) == k = "interrupt" => b.chan[a][k] = None /\ b.closing # a

\* The device is asked for a channel, once or for the second time, and is paged.
AsksFor(b, p, a, k) ==
  /\ p \in Stack /\ Elsewhere(b, p, a) /\ AddrInv(p, a) /\ p.names = b.names
  /\ p.link[a] # None /\ (p.link[a] \in Up => p.link[a] = b.link[a])
  /\ \A m \in Psms : m # k => p.chan[a][m] = b.chan[a][m] /\ (<<a, m>> \in p.twice <=> <<a, m>> \in b.twice)
  /\ b.chan[a][k] = None => p.chan[a][k] = "asked" /\ p.twice = b.twice
  /\ b.chan[a][k] # None => p.chan[a][k] = b.chan[a][k] /\ <<a, k>> \in p.twice

\* A channel that may be asked for.
LEMMA AskKeeps ==
  ASSUME NEW b \in Stack, NEW a \in Addrs, NEW k \in Psms, AddrInv(b, a),
         Askable(b, a, k), NEW p, p = Page(Ask(b, a, k), a)
  PROVE  AsksFor(b, p, a, k)
<1>1. PICK c : c = Ask(b, a, k)
  OBVIOUS
<1>2. /\ p \in Stack /\ Elsewhere(c, p, a)
      /\ p.chan = c.chan /\ p.twice = c.twice /\ p.names = c.names
      /\ p.link[a] # None /\ (p.link[a] \in Up => p.link[a] = c.link[a])
      /\ (AddrInv(c, a) => AddrInv(p, a))
      /\ c \in Stack /\ Elsewhere(b, c, a) /\ c.names = b.names /\ c.link = b.link
      /\ c.closing = b.closing /\ c.left = b.left
      /\ \A m \in Psms : m # k => c.chan[a][m] = b.chan[a][m] /\ (<<a, m>> \in c.twice <=> <<a, m>> \in b.twice)
      /\ b.chan[a][k] = None => c.chan[a][k] = "asked" /\ c.twice = b.twice
      /\ b.chan[a][k] # None => c.chan[a][k] = b.chan[a][k] /\ c.twice = b.twice \cup {<<a, k>>}
  <2>1. c \in Stack =>
          /\ p \in Stack /\ Elsewhere(c, p, a)
          /\ p.chan = c.chan /\ p.twice = c.twice /\ p.names = c.names
          /\ p.link[a] # None /\ (p.link[a] \in Up => p.link[a] = c.link[a])
          /\ (AddrInv(c, a) => AddrInv(p, a))
    BY ONLY <1>1, p = Page(Ask(b, a, k), a), a \in Addrs, PageKeeps
  <2>2. CASE b.chan[a][k] = None
    <3>1. c = [b EXCEPT !.chan[a][k] = "asked"]
      BY <1>1, <2>2 DEF Ask
    <3>2. c \in Stack
      <4>1. "asked" \in Channels
        BY DEF Channels
      <4> QED
        BY ONLY <3>1, <4>1, b \in Stack, a \in Addrs, k \in Psms, StackIs
    <3>3. /\ c.twice = b.twice /\ c.link = b.link /\ c.names = b.names
          /\ c.closing = b.closing /\ c.left = b.left
          /\ c.chan[a][k] = "asked" /\ \A m \in Psms : m # k => c.chan[a][m] = b.chan[a][m]
          /\ \A x \in Addrs : x # a => c.chan[x] = b.chan[x]
      BY <3>1 DEF Stack
    <3>4. Elsewhere(b, c, a)
      BY <3>3 DEF Elsewhere, Same
    <3> QED
      BY <2>1, <2>2, <3>2, <3>3, <3>4
  <2>3. CASE b.chan[a][k] # None
    <3>1. PICK t : t = b.twice \cup {<<a, k>>}
      OBVIOUS
    <3>2. t \in SUBSET (Addrs \X Psms)
      BY <3>1, StackIs
    <3>3. c = [b EXCEPT !.twice = t]
      BY <1>1, <2>3, <3>1 DEF Ask
    <3>4. c \in Stack
      BY <3>2, <3>3, StackIs
    <3>5. /\ c.twice = t /\ c.link = b.link /\ c.names = b.names
          /\ c.closing = b.closing /\ c.left = b.left /\ c.chan = b.chan
      BY <3>3 DEF Stack
    <3>6. Elsewhere(b, c, a)
      BY <3>1, <3>5 DEF Elsewhere, Same
    <3> QED
      BY <2>1, <2>3, <3>1, <3>4, <3>5, <3>6
  <2> QED
    BY <2>2, <2>3
<1>3. Elsewhere(b, p, a)
  BY <1>2 DEF Elsewhere, Same
<1>4. AddrInv(p, a)
  <2>1. /\ p.closing = c.closing /\ p.left = c.left
        /\ p.link[a] = "closing" <=> c.link[a] = "closing"
    <3>1. p = c \/ (c.link[a] = None /\ p = [c EXCEPT !.link[a] = "paging"])
      BY <1>1 DEF Page
    <3> QED
      BY <1>2, <3>1 DEF Stack, None
  <2>2. CASE k = "interrupt"
    BY <1>2, <2>1, <2>2 DEF AddrInv, Psms, Askable
  <2>3. CASE k = "control"
    <3>1. <<a, "interrupt">> \notin p.twice /\ p.chan[a]["interrupt"] = b.chan[a]["interrupt"]
      BY <1>2, <2>3 DEF AddrInv, Psms
    <3>2. p.chan[a]["control"] \in {"open", "coming"} => b.chan[a]["control"] \in {"open", "coming"}
      BY <1>2, <2>3 DEF Psms
    <3>3. p.closing = b.closing /\ p.left = b.left /\ (p.link[a] = "closing" <=> b.link[a] = "closing")
      BY <1>2, <2>1
    <3> QED
      BY ONLY AddrInv(b, a), <1>2, <3>1, <3>2, <3>3 DEF AddrInv
  <2> QED
    BY <2>2, <2>3 DEF Psms
<1> QED
  BY <1>2, <1>3, <1>4 DEF AsksFor

\* l2cap_create_channel(), as to the place.
LEMMA CreateChannelIs ==
  ASSUME NEW g, NEW i \in Idx, But(g, i), NEW k \in Psms, NEW s \in States,
         NEW p \in Stack, p = Page(Ask(g.bt, g.dev[i].addr, k), g.dev[i].addr),
         Elsewhere(g.bt, p, g.dev[i].addr),
         g.dev[i].addr \in Addrs => AddrInv(p, g.dev[i].addr),
         NEW r, r = CreateChannel(g, i, k, s)
  PROVE  /\ But(r, i) /\ r.bt = p /\ r.sdp = g.sdp
         /\ r.dev[i].addr = g.dev[i].addr /\ r.dev[i].connected = g.dev[i].connected
         /\ r.dev[i].seat = g.dev[i].seat /\ r.dev[i].connTimer = g.dev[i].connTimer
         /\ r.dev[i].handle = g.dev[i].handle /\ r.dev[i].query = g.dev[i].query
         /\ r.dev[i].name = g.dev[i].name /\ r.dev[i].incoming = g.dev[i].incoming
         /\ r.dev[i].nameTimer = g.dev[i].nameTimer
         /\ r.dev[i].cid = g.dev[i].cid \cup {k} /\ r.dev[i].state = s
<1>1. g \in State /\ g.dev \in [Idx -> Device] /\ g.dev[i] \in Device /\ g.bt \in Stack
  BY StateFields DEF But, Tidy
<1>2. PICK c \in SUBSET Psms : c = g.dev[i].cid \cup {k}
  BY <1>1, ZenonT(40) DEF Device
<1>3. PICK e : e = [g.dev EXCEPT ![i].cid = c, ![i].state = s]
  OBVIOUS
<1>4. /\ e \in [Idx -> Device] /\ \A j \in Idx : j # i => e[j] = g.dev[j]
      /\ e[i].addr = g.dev[i].addr /\ e[i].connected = g.dev[i].connected
      /\ e[i].seat = g.dev[i].seat /\ e[i].connTimer = g.dev[i].connTimer
      /\ e[i].handle = g.dev[i].handle /\ e[i].query = g.dev[i].query
      /\ e[i].name = g.dev[i].name /\ e[i].incoming = g.dev[i].incoming
      /\ e[i].nameTimer = g.dev[i].nameTimer /\ e[i].cid = c /\ e[i].state = s
  BY <1>1, <1>2, <1>3, Zenon DEF Device
<1>5. PICK h : h = [g EXCEPT !.dev = e]
  OBVIOUS
<1>6. /\ But(h, i) /\ h \in State /\ h.dev = e /\ h.bt = g.bt /\ h.sdp = g.sdp
  BY ONLY <1>4, <1>5, But(g, i), i \in Idx, ButPlace
<1>7. PICK f : f = [h EXCEPT !.bt = p]
  OBVIOUS
<1>8. But(f, i) /\ f.bt = p /\ f.dev = e /\ f.sdp = g.sdp
  <2>1. /\ Elsewhere(h.bt, p, h.dev[i].addr)
        /\ (h.dev[i].addr \in Addrs => AddrInv(p, h.dev[i].addr))
    BY <1>4, <1>6
  <2> QED
    BY ONLY <1>6, <1>7, <2>1, i \in Idx, p \in Stack, ButStack
<1>9. f = r
  <2>1. r = [g EXCEPT !.bt = p, !.dev[i].cid = @ \cup {k}, !.dev[i].state = s]
    <3>1. p = Page(Ask(g.bt, g.dev[i].addr, k), g.dev[i].addr) /\ r = CreateChannel(g, i, k, s)
      OBVIOUS
    <3> QED
      BY ONLY <3>1, Zenon DEF CreateChannel, Ask
  <2>2. f = [g EXCEPT !.bt = p, !.dev = e]
    BY <1>1, <1>5, <1>7, StateFields
  <2> QED
    BY <1>1, <1>2, <1>3, <2>1, <2>2, StateFields, ZenonT(40)
<1> QED
  BY <1>2, <1>4, <1>8, <1>9

\* l2cap_create_channel() for the control channel, when it may be asked for.
LEMMA CreateControlSound ==
  ASSUME NEW g, NEW i \in Idx, But(g, i),
         g.dev[i].addr # None =>
           /\ LifeAt(g.dev[i], g.bt) /\ Budget(g.dev[i], g.bt, g.sdp, i, 1)
           /\ ~g.dev[i].incoming /\ g.dev[i].name # None
  PROVE  Sound(CreateChannel(g, i, "control", "CONTROL_REQUESTED"))
<1>1. g \in State /\ g.dev[i] \in Device /\ g.bt \in Stack
  BY StateFields DEF But, Tidy
<1>2. PICK a : a = g.dev[i].addr
  OBVIOUS
<1>3. PICK p : p = Page(Ask(g.bt, a, "control"), a)
  OBVIOUS
<1>4. PICK r : r = CreateChannel(g, i, "control", "CONTROL_REQUESTED")
  OBVIOUS
<1>5. "control" \in Psms /\ "CONTROL_REQUESTED" \in States
  BY DEF Psms, States
<1>6. CASE a \notin Addrs
  <2>1. p = g.bt
    BY <1>3, <1>6 DEF Page, Ask
  <2>2. But(r, i) /\ r.dev[i].addr = a
    <3>1. p \in Stack /\ Elsewhere(g.bt, p, a) /\ (a \in Addrs => AddrInv(p, a))
      BY <1>1, <1>6, <2>1, SameIsElsewhere
    <3> QED
      BY ONLY <1>2, <1>3, <1>4, <1>5, <3>1, But(g, i), i \in Idx, CreateChannelIs
  <2>3. At(r, i)
    BY <1>1, <1>2, <1>6, <2>2, Zenon DEF At, Device
  <2> QED
    BY <1>4, <2>2, <2>3, SoundBut
<1>7. CASE a \in Addrs
  <2>1. a # None
    BY <1>7, NoneAssumption
  <2>2. /\ LifeAt(g.dev[i], g.bt) /\ Budget(g.dev[i], g.bt, g.sdp, i, 1)
        /\ ~g.dev[i].incoming /\ g.dev[i].name # None
    BY <1>2, <2>1
  <2>3. AddrInv(g.bt, a)
    BY <1>7 DEF But
  <2>4. Asked(g.bt, a) \in {0, 1}
    BY <1>2, <2>2 DEF Budget, Uses, Asked
  <2>5. AsksFor(g.bt, p, a, "control")
    <3>1. Askable(g.bt, a, "control")
      BY DEF Askable
    <3> QED
      BY ONLY <1>1, <1>3, <1>5, <1>7, <2>3, <3>1, AskKeeps
  <2>6. /\ But(r, i) /\ r.bt = p /\ r.sdp = g.sdp
        /\ r.dev[i].addr = g.dev[i].addr /\ r.dev[i].connected = g.dev[i].connected
        /\ r.dev[i].seat = g.dev[i].seat /\ r.dev[i].connTimer = g.dev[i].connTimer
        /\ r.dev[i].handle = g.dev[i].handle /\ r.dev[i].query = g.dev[i].query
        /\ r.dev[i].name = g.dev[i].name /\ r.dev[i].incoming = g.dev[i].incoming
        /\ r.dev[i].nameTimer = g.dev[i].nameTimer
        /\ r.dev[i].cid = g.dev[i].cid \cup {"control"} /\ r.dev[i].state = "CONTROL_REQUESTED"
    <3>1. /\ p \in Stack /\ Elsewhere(g.bt, p, g.dev[i].addr)
          /\ (g.dev[i].addr \in Addrs => AddrInv(p, g.dev[i].addr))
          /\ p = Page(Ask(g.bt, g.dev[i].addr, "control"), g.dev[i].addr)
      BY ONLY <1>2, <1>3, <2>5, Zenon DEF AsksFor
    <3> QED
      BY ONLY <1>4, <1>5, <3>1, But(g, i), i \in Idx, CreateChannelIs
  <2>7. PICK e : e = r.dev[i]
    OBVIOUS
  <2>8. /\ Asked(p, a) = Asked(g.bt, a) + 1 /\ p.chan[a]["interrupt"] = g.bt.chan[a]["interrupt"]
        /\ p.chan[a]["control"] \in {"asked", g.bt.chan[a]["control"]}
        /\ p.chan[a]["control"] = "asked" => Asked(g.bt, a) = 0 \/ g.bt.chan[a]["control"] = "asked"
    BY <2>4, <2>5 DEF Asked, Psms, None, AsksFor
  <2>9. LifeAt(e, p)
    <3>1. /\ e.connected => e.handle /\ p.chan[a]["interrupt"] = "open" /\ "interrupt" \in e.cid
          /\ p.link[a] \in Up => e.handle
      BY <1>2, <2>2, <2>5, <2>6, <2>7, <2>8, ZenonT(40) DEF LifeAt, AsksFor
    <3>2. /\ e.state # "READY" /\ (e.connTimer \/ e.seat = "seat")
          /\ e.query = "before" => e.name # None
      BY <2>2, <2>6, <2>7 DEF LifeAt
    <3>3. /\ p.chan[a]["control"] # "coming"
          /\ "control" \in e.cid /\ e.name # None
      BY <1>2, <2>2, <2>6, <2>7, <2>8 DEF LifeAt
    <3>4. Asked(p, a) = 0 \/ p.chan[a]["control"] = "asked" => p.chan[a]["interrupt"] = None
      <4>1. Asked(g.bt, a) = 0 \/ g.bt.chan[a]["control"] = "asked" => g.bt.chan[a]["interrupt"] = None
        BY <1>2, <2>2 DEF LifeAt
      <4> QED
        BY ONLY <2>4, <2>8, <4>1
    <3> QED
      BY <1>2, <2>6, <2>7, <3>1, <3>2, <3>3, <3>4 DEF LifeAt
  <2>10. Budget(e, p, r.sdp, i, 2)
    <3>1. Uses(g.dev[i], g.bt, g.sdp, i) <= 1
      BY <2>2 DEF Budget
    <3>2. /\ e.addr = a /\ e.nameTimer = g.dev[i].nameTimer /\ e.query = g.dev[i].query
          /\ r.sdp = g.sdp /\ p.names = g.bt.names
      BY <1>2, <2>5, <2>6, <2>7 DEF AsksFor
    <3> QED
      BY <1>2, <2>4, <2>8, <3>1, <3>2 DEF Budget, Uses
  <2>11. SettledAt(e)
    BY <2>6, <2>7 DEF SettledAt
  <2>12. At(r, i)
    BY <2>6, <2>7, <2>9, <2>10, <2>11 DEF At
  <2> QED
    BY <1>4, <2>6, <2>12, SoundBut
<1> QED
  BY <1>6, <1>7

\* The same for the interrupt channel, which is asked for once the control
\* channel is open.
LEMMA CreateInterruptSound ==
  ASSUME NEW g, NEW i \in Idx, But(g, i), g.dev[i].addr # None,
         LifeAt(g.dev[i], g.bt), Budget(g.dev[i], g.bt, g.sdp, i, 2),
         g.bt.closing # g.dev[i].addr,
         g.bt.chan[g.dev[i].addr]["control"] = "open",
         g.bt.chan[g.dev[i].addr]["interrupt"] = None
  PROVE  Sound(CreateChannel(g, i, "interrupt", "INTERRUPT_REQUESTED"))
<1>1. g \in State /\ g.dev[i] \in Device /\ g.bt \in Stack
  BY StateFields DEF But, Tidy
<1>2. PICK a : a = g.dev[i].addr
  OBVIOUS
<1>3. PICK p : p = Page(Ask(g.bt, a, "interrupt"), a)
  OBVIOUS
<1>4. PICK r : r = CreateChannel(g, i, "interrupt", "INTERRUPT_REQUESTED")
  OBVIOUS
<1>5. "interrupt" \in Psms /\ "INTERRUPT_REQUESTED" \in States
  BY DEF Psms, States
<1>6. a \in Addrs /\ AddrInv(g.bt, a)
  BY <1>1, <1>2, Zenon DEF Device, But
<1>7. AsksFor(g.bt, p, a, "interrupt")
  <2>1. Askable(g.bt, a, "interrupt")
    BY <1>2 DEF Askable
  <2> QED
    BY ONLY <1>1, <1>3, <1>5, <1>6, <2>1, AskKeeps
<1>8. /\ But(r, i) /\ r.bt = p /\ r.sdp = g.sdp
      /\ r.dev[i].addr = g.dev[i].addr /\ r.dev[i].connected = g.dev[i].connected
      /\ r.dev[i].seat = g.dev[i].seat /\ r.dev[i].connTimer = g.dev[i].connTimer
      /\ r.dev[i].handle = g.dev[i].handle /\ r.dev[i].query = g.dev[i].query
      /\ r.dev[i].name = g.dev[i].name /\ r.dev[i].incoming = g.dev[i].incoming
      /\ r.dev[i].nameTimer = g.dev[i].nameTimer
      /\ r.dev[i].cid = g.dev[i].cid \cup {"interrupt"} /\ r.dev[i].state = "INTERRUPT_REQUESTED"
  <2>1. /\ p \in Stack /\ Elsewhere(g.bt, p, g.dev[i].addr)
        /\ (g.dev[i].addr \in Addrs => AddrInv(p, g.dev[i].addr))
        /\ p = Page(Ask(g.bt, g.dev[i].addr, "interrupt"), g.dev[i].addr)
    BY ONLY <1>2, <1>3, <1>7, ZenonT(40) DEF AsksFor
  <2> QED
    BY ONLY <1>4, <1>5, <2>1, But(g, i), i \in Idx, CreateChannelIs
<1>9. PICK e : e = r.dev[i]
  OBVIOUS
<1>10. Asked(p, a) = Asked(g.bt, a) /\ p.chan[a]["control"] = "open" /\ Asked(p, a) # 0
  BY <1>2, <1>7 DEF Asked, Psms, None, AsksFor
<1>11. LifeAt(e, p)
  <2>1. ~g.dev[i].connected
    BY DEF LifeAt, None
  <2>2. /\ e.addr = a /\ ~e.connected /\ e.state = "INTERRUPT_REQUESTED"
        /\ e.connTimer \/ e.seat = "seat"
        /\ e.query = "before" => e.name # None
        /\ p.link[a] \in Up => e.handle
    BY <1>2, <1>7, <1>8, <1>9, <2>1 DEF LifeAt, AsksFor
  <2>3. ~e.incoming => "control" \in e.cid /\ e.name # None
    BY <1>2, <1>8, <1>9, <1>10 DEF LifeAt, None
  <2> QED
    BY <1>10, <2>2, <2>3 DEF LifeAt
<1>12. Budget(e, p, r.sdp, i, 2)
  BY <1>2, <1>7, <1>8, <1>9, <1>10 DEF Budget, Uses, AsksFor
<1>13. SettledAt(e)
  BY <1>8, <1>9 DEF SettledAt
<1>14. At(r, i)
  BY <1>8, <1>9, <1>11, <1>12, <1>13 DEF At
<1> QED
  BY <1>4, <1>8, <1>14, SoundBut

\* What a handler may assume of the place it works on: that of a device is as
\* between handlers, or its control channel may be asked for once more.
Live(g, i) ==
  g.dev[i].addr # None =>
    LifeAt(g.dev[i], g.bt) /\ Budget(g.dev[i], g.bt, g.sdp, i, 2)

Spare(g, i) ==
  g.dev[i].addr # None =>
    LifeAt(g.dev[i], g.bt) /\ Budget(g.dev[i], g.bt, g.sdp, i, 1)

\* A place like another: its device has not become ready, and no more is to be
\* asked of it.
Alike(d, e) ==
  /\ e.addr = d.addr /\ e.connected = d.connected /\ e.seat = d.seat
  /\ e.connTimer = d.connTimer /\ e.handle = d.handle /\ e.cid = d.cid
  /\ e.name = d.name /\ e.incoming = d.incoming /\ e.nameTimer = d.nameTimer
  /\ e.query \in {d.query, "not needed"} /\ (e.state = "READY" => d.state = "READY")

\* The state has only the place changed, and it is as right as it was.
Turned(g, h, i, e) ==
  /\ But(h, i) /\ h \in State /\ h.dev = e /\ h.bt = g.bt
  /\ h.sdp = g.sdp /\ h.used = g.used /\ h.asserted = g.asserted
  /\ Live(g, i) => Live(h, i)
  /\ Spare(g, i) => Spare(h, i)

\* A place like another is as right as that.
LEMMA AlikeLife ==
  ASSUME NEW d, NEW e, Alike(d, e), NEW b, NEW s, NEW i
  PROVE  /\ LifeAt(d, b) => LifeAt(e, b)
         /\ Budget(d, b, s, i, 1) => Budget(e, b, s, i, 1)
         /\ Budget(d, b, s, i, 2) => Budget(e, b, s, i, 2)
<1>1. LifeAt(d, b) => LifeAt(e, b)
  BY Zenon DEF Alike, LifeAt
<1>2. Uses(e, b, s, i) <= Uses(d, b, s, i)
  <2>1. e.addr = d.addr /\ e.nameTimer = d.nameTimer /\ (e.query = "before" => d.query = "before")
    BY Zenon DEF Alike
  <2>2. PICK n \in {0, 1} : n = IF d.nameTimer THEN 1 ELSE 0
    OBVIOUS
  <2>3. PICK m \in {0, 1} : m = IF d.addr \in b.names THEN 1 ELSE 0
    OBVIOUS
  <2>4. PICK k \in {0, 1} : k = IF s.device = i /\ d.query = "before" THEN 1 ELSE 0
    OBVIOUS
  <2>5. PICK l \in {0, 1} : l = IF s.device = i /\ e.query = "before" THEN 1 ELSE 0
    OBVIOUS
  <2>6. PICK c \in Nat : c = Asked(b, d.addr)
    BY DEF Asked
  <2>7. Uses(d, b, s, i) = c + n + m + k
    BY ONLY <2>2, <2>3, <2>4, <2>6 DEF Uses
  <2>8. Uses(e, b, s, i) = c + n + m + l
    BY ONLY <2>1, <2>2, <2>3, <2>5, <2>6 DEF Uses
  <2>9. l <= k
    BY <2>1, <2>4, <2>5
  <2> QED
    BY ONLY <2>7, <2>8, <2>9, c \in Nat, n \in {0, 1}, m \in {0, 1}, k \in {0, 1}, l \in {0, 1}
<1>3. Uses(d, b, s, i) \in Nat /\ Uses(e, b, s, i) \in Nat
  <2>1. Asked(b, d.addr) \in Nat /\ Asked(b, e.addr) \in Nat
    BY DEF Asked
  <2> QED
    BY <2>1 DEF Uses
<1>4. e.incoming = d.incoming
  BY Zenon DEF Alike
<1> QED
  BY <1>1, <1>2, <1>3, <1>4 DEF Budget

\* A handler changes the place of a device in ways that do not matter for long.
LEMMA AlikeTurned ==
  ASSUME NEW g, NEW i \in Idx, But(g, i), NEW e \in [Idx -> Device],
         \A j \in Idx : j # i => e[j] = g.dev[j], Alike(g.dev[i], e[i]),
         NEW h, h = [g EXCEPT !.dev = e]
  PROVE  Turned(g, h, i, e)
<1>1. /\ e[i].addr = g.dev[i].addr /\ e[i].connected = g.dev[i].connected
      /\ e[i].seat = g.dev[i].seat /\ (e[i].connTimer => g.dev[i].connTimer)
  BY Zenon DEF Alike
<1>2. /\ But(h, i) /\ h \in State /\ h.dev = e /\ h.bt = g.bt
      /\ h.sdp = g.sdp /\ h.used = g.used /\ h.asserted = g.asserted
  <2>1. \A j \in Idx : j # i => e[j] = g.dev[j]
    OBVIOUS
  <2>2. h = [g EXCEPT !.dev = e]
    OBVIOUS
  <2> QED
    BY ONLY <1>1, <2>1, <2>2, But(g, i), i \in Idx, e \in [Idx -> Device], ButPlace
<1>3. PICK d : d = g.dev[i]
  OBVIOUS
<1>4. PICK f : f = h.dev[i]
  OBVIOUS
<1>5. Alike(d, f) /\ f.addr = d.addr
  BY <1>1, <1>2, <1>3, <1>4
<1>6. /\ LifeAt(d, g.bt) => LifeAt(f, g.bt)
      /\ Budget(d, g.bt, g.sdp, i, 1) => Budget(f, g.bt, g.sdp, i, 1)
      /\ Budget(d, g.bt, g.sdp, i, 2) => Budget(f, g.bt, g.sdp, i, 2)
  BY ONLY <1>5, AlikeLife
<1> QED
  BY <1>2, <1>3, <1>4, <1>5, <1>6 DEF Turned, Live, Spare

\* The state machine's state of the device changes.
LEMMA StateTurned ==
  ASSUME NEW g, NEW i \in Idx, But(g, i), NEW s \in States, s # "READY",
         NEW h, h = [g EXCEPT !.dev[i].state = s]
  PROVE  Turned(g, h, i, [g.dev EXCEPT ![i].state = s]) /\ Alike(g.dev[i], h.dev[i])
<1>1. g \in State /\ g.dev \in [Idx -> Device]
  BY StateFields DEF But, Tidy
<1>2. PICK e : e = [g.dev EXCEPT ![i].state = s]
  OBVIOUS
<1>3. /\ e \in [Idx -> Device] /\ \A j \in Idx : j # i => e[j] = g.dev[j]
      /\ Alike(g.dev[i], e[i])
  <2>1. PICK d : d = [g.dev[i] EXCEPT !.state = s]
    OBVIOUS
  <2>2. g.dev[i] \in Device
    BY <1>1
  <2>3. d \in Device
    BY ONLY <2>1, <2>2, s \in States, Zenon DEF Device
  <2>4. e = [g.dev EXCEPT ![i] = d]
    BY ONLY <1>1, <1>2, <2>1, i \in Idx
  <2>5. e \in [Idx -> Device] /\ (\A j \in Idx : j # i => e[j] = g.dev[j]) /\ e[i] = d
    BY ONLY <1>1, <2>3, <2>4, i \in Idx
  <2>6. Alike(g.dev[i], d)
    BY ONLY <2>1, <2>2, <2>3, s # "READY", Zenon DEF Device, Alike
  <2> QED
    BY <2>5, <2>6
<1>4. h = [g EXCEPT !.dev = e]
  BY <1>1, <1>2, StateFields
<1>5. Turned(g, h, i, e)
  BY ONLY <1>3, <1>4, But(g, i), i \in Idx, AlikeTurned
<1> QED
  BY <1>2, <1>3, <1>5 DEF Turned

\* A handler ends: the place is as between handlers.
LEMMA EndsSound ==
  ASSUME NEW g, NEW i \in Idx, But(g, i), Live(g, i),
         g.dev[i].addr # None => SettledAt(g.dev[i])
  PROVE  Sound(g)
<1>1. At(g, i)
  BY DEF At, Live
<1> QED
  BY <1>1, SoundBut

\* uni_hid_device_set_ready_complete(): a seat is given and counted.
LEMMA SetReadyCompleteSound ==
  ASSUME NEW g, NEW i \in Idx, But(g, i), Live(g, i)
  PROVE  Sound(SetReadyComplete(g, i))
<1>1. g \in State /\ TableInv(g) /\ Tidy(g) /\ g.dev \in [Idx -> Device] /\ g.dev[i] \in Device
      /\ g.used \in 0 .. N
  BY StateFields DEF But, Tidy
<1>2. CASE g.dev[i].state = "READY"
  <2>1. SettledAt(g.dev[i])
    BY <1>2 DEF SettledAt
  <2> QED
    BY <1>2, <2>1, EndsSound DEF SetReadyComplete
<1>3. CASE g.dev[i].state # "READY" /\ (g.used = N \/ g.dev[i].seat # None)
  BY <1>3, DeleteSound DEF SetReadyComplete
<1>4. CASE g.dev[i].state # "READY" /\ g.used # N /\ g.dev[i].seat = None
  <2>1. PICK e : e = [g.dev EXCEPT ![i].connTimer = FALSE, ![i].seat = "seat",
                                   ![i].state = "READY"]
    OBVIOUS
  <2>2. /\ e \in [Idx -> Device] /\ \A j \in Idx : j # i => e[j] = g.dev[j]
        /\ e[i].addr = g.dev[i].addr /\ e[i].connected = g.dev[i].connected
        /\ e[i].seat = "seat" /\ e[i].connTimer = FALSE /\ e[i].state = "READY"
        /\ e[i].handle = g.dev[i].handle /\ e[i].cid = g.dev[i].cid
        /\ e[i].name = g.dev[i].name /\ e[i].incoming = g.dev[i].incoming
        /\ e[i].nameTimer = g.dev[i].nameTimer /\ e[i].query = g.dev[i].query
    BY <1>1, <2>1, ZenonT(40) DEF Device, States
  <2>3. PICK u \in 0 .. N : u = g.used + 1
    BY <1>1, <1>4, NAssumption
  <2>4. PICK r : r = [g EXCEPT !.dev = e, !.used = u]
    OBVIOUS
  <2>5. r = SetReadyComplete(g, i)
    <3>1. SetReadyComplete(g, i) =
            [g EXCEPT !.dev[i].connTimer = FALSE, !.dev[i].seat = "seat",
                      !.dev[i].state = "READY", !.used = @ + 1]
      BY <1>4 DEF SetReadyComplete
    <3> QED
      BY <1>1, <2>1, <2>3, <2>4, <3>1, StateFields, ZenonT(40)
  <2>6. /\ r \in State /\ r.used = g.used + 1 /\ r.dev = e /\ r.bt = g.bt /\ r.sdp = g.sdp
    BY <1>1, <2>2, <2>3, <2>4 DEF State
  <2>7. g.dev[i].connected /\ g.dev[i].addr # None
    BY <1>1, <1>4 DEF TableInv, PlaceInv, None
  <2>8. PlaceInv(r.dev[i])
    BY <2>2, <2>6, <2>7 DEF PlaceInv
  <2>9. Tidy(r)
    <3>1. /\ \A j \in Idx : j # i => r.dev[j] = g.dev[j]
          /\ r.dev[i].addr \in {None, g.dev[i].addr}
          /\ r.used = g.used + 1 /\ g.dev[i].seat # "seat" /\ r.dev[i].seat = "seat"
      BY <1>4, <2>2, <2>6 DEF None
    <3> QED
      BY ONLY <1>1, <2>6, <2>8, <3>1, i \in Idx, Altered
  <2>10. But(r, i)
    <3>1. /\ Elsewhere(g.bt, r.bt, g.dev[i].addr) /\ r.sdp.device = g.sdp.device
          /\ (g.dev[i].addr \in Addrs => AddrInv(r.bt, g.dev[i].addr))
      BY <2>6, SameIsElsewhere DEF But
    <3>2. \A j \in Idx : j # i => r.dev[j] = g.dev[j]
      BY <2>2, <2>6
    <3> QED
      BY ONLY <2>9, <3>1, <3>2, But(g, i), i \in Idx, ButKept
  <2>11. PICK d : d = g.dev[i]
    OBVIOUS
  <2>12. PICK f : f = r.dev[i]
    OBVIOUS
  <2>13. LifeAt(d, g.bt) /\ Budget(d, g.bt, g.sdp, i, 2)
    BY <2>7, <2>11 DEF Live
  <2>14. /\ f.addr = d.addr /\ f.connected = d.connected /\ f.seat = "seat"
         /\ f.handle = d.handle /\ f.cid = d.cid /\ f.name = d.name
         /\ f.incoming = d.incoming /\ f.nameTimer = d.nameTimer /\ f.query = d.query
         /\ f.state = "READY"
    BY <2>2, <2>6, <2>11, <2>12
  <2>15. LifeAt(f, r.bt)
    BY <2>6, <2>13, <2>14 DEF LifeAt
  <2>16. Budget(f, r.bt, r.sdp, i, 2)
    BY <2>6, <2>13, <2>14 DEF Budget, Uses
  <2>17. Live(r, i) /\ SettledAt(r.dev[i])
    BY <2>12, <2>14, <2>15, <2>16 DEF Live, SettledAt
  <2> QED
    BY <2>5, <2>10, <2>17, EndsSound
<1> QED
  BY <1>2, <1>3, <1>4

\* uni_hid_device_set_ready()
LEMMA SetReadySound ==
  ASSUME NEW g, NEW i \in Idx, But(g, i), Live(g, i)
  PROVE  Sound(SetReady(g, i))
<1>1. PICK h : h = [g EXCEPT !.dev[i].state = "PENDING_READY"]
  OBVIOUS
<1>2. g \in State /\ g.dev \in [Idx -> Device]
  BY StateFields DEF But, Tidy
<1>3. Turned(g, h, i, [g.dev EXCEPT ![i].state = "PENDING_READY"])
  <2>1. "PENDING_READY" \in States /\ "PENDING_READY" # "READY"
    BY DEF States
  <2> QED
    BY ONLY <1>1, <2>1, But(g, i), i \in Idx, StateTurned
<1>4. But(h, i) /\ Live(h, i) /\ h \in State /\ h.dev[i].state = "PENDING_READY"
  BY <1>2, <1>3 DEF Turned
<1>5. CASE g.dev[i].state = "PENDING_READY"
  <2>1. SettledAt(g.dev[i])
    BY <1>5 DEF SettledAt
  <2> QED
    BY <1>5, <2>1, EndsSound DEF SetReady
<1>6. CASE g.dev[i].state # "PENDING_READY" /\ g.dev[i].type = "setup"
  <2>1. PICK e : e = [h.dev EXCEPT ![i].setup = TRUE]
    OBVIOUS
  <2>2. h.dev \in [Idx -> Device]
    BY <1>4, StateFields
  <2>3. /\ e \in [Idx -> Device] /\ \A j \in Idx : j # i => e[j] = h.dev[j]
        /\ Alike(h.dev[i], e[i]) /\ e[i].state = "PENDING_READY"
    <3>1. PICK d : d = [h.dev[i] EXCEPT !.setup = TRUE]
      OBVIOUS
    <3>2. h.dev[i] \in Device /\ h.dev[i].state = "PENDING_READY"
      BY <1>4, <2>2
    <3>3. d \in Device /\ Alike(h.dev[i], d) /\ d.state = "PENDING_READY"
      BY ONLY <3>1, <3>2, Zenon DEF Device, Alike
    <3>4. e = [h.dev EXCEPT ![i] = d]
      BY ONLY <2>1, <3>1
    <3> QED
      BY ONLY <2>2, <3>3, <3>4, i \in Idx
  <2>4. PICK r : r = [h EXCEPT !.dev = e]
    OBVIOUS
  <2>5. r = SetReady(g, i)
    <3>1. SetReady(g, i) = [h EXCEPT !.dev[i].setup = TRUE]
      BY <1>1, <1>6 DEF SetReady
    <3> QED
      BY <1>4, <2>1, <2>4, <3>1, StateFields
  <2>6. Turned(h, r, i, e)
    BY ONLY <1>4, <2>3, <2>4, i \in Idx, AlikeTurned
  <2>7. But(r, i) /\ Live(r, i) /\ SettledAt(r.dev[i])
    BY <1>4, <2>3, <2>6 DEF Turned, SettledAt
  <2> QED
    BY <2>5, <2>7, EndsSound
<1>7. CASE g.dev[i].state # "PENDING_READY" /\ g.dev[i].type # "setup"
  <2>1. SetReady(g, i) = SetReadyComplete(h, i)
    BY <1>1, <1>7 DEF SetReady
  <2> QED
    BY <1>4, <2>1, SetReadyCompleteSound
<1> QED
  BY <1>5, <1>6, <1>7

\* sdp_client_query_uuid16()
LEMMA QuerySound ==
  ASSUME NEW g, NEW i \in Idx, But(g, i), Live(g, i), NEW kind \in {"pid", "hid"},
         g.dev[i].addr # None => SettledAt(g.dev[i])
  PROVE  Sound(Query(g, i, kind))
<1>1. g \in State /\ g.dev[i] \in Device /\ g.bt \in Stack
  BY StateFields DEF But, Tidy
<1>2. PICK a : a = g.dev[i].addr
  OBVIOUS
<1>3. PICK q : q = [addr |-> a, kind |-> kind]
  OBVIOUS
<1>4. q \in Queries
  BY <1>1, <1>2, <1>3, Zenon DEF Queries, Device
<1>5. PICK b : b = [g.bt EXCEPT !.query = q]
  OBVIOUS
<1>6. /\ b \in Stack /\ b.link = g.bt.link /\ b.chan = g.bt.chan /\ b.twice = g.bt.twice
      /\ b.names = g.bt.names /\ b.closing = g.bt.closing /\ b.left = g.bt.left
  <2>1. b \in Stack
    BY <1>1, <1>4, <1>5, StackIs
  <2> QED
    BY <1>1, <1>5, <2>1 DEF Stack
<1>7. Elsewhere(g.bt, b, a) /\ (a \in Addrs => AddrInv(b, a))
  <2>1. a \in Addrs => AddrInv(g.bt, a)
    BY DEF But
  <2> QED
    BY <1>6, <2>1 DEF Elsewhere, Same, AddrInv
<1>8. PICK p : p = Page(b, a)
  OBVIOUS
<1>9. /\ p \in Stack /\ Elsewhere(b, p, a)
      /\ p.chan = b.chan /\ p.twice = b.twice /\ p.names = b.names
      /\ a \in Addrs => p.link[a] # None
      /\ a \in Addrs /\ AddrInv(b, a) => AddrInv(p, a)
      /\ a \in Addrs => (p.link[a] \in Up => p.link[a] = b.link[a])
  BY ONLY <1>6, <1>8, PageKeeps
<1>10. Elsewhere(g.bt, p, a) /\ (a \in Addrs => AddrInv(p, a))
  BY ONLY <1>7, <1>9 DEF Elsewhere, Same
<1>11. PICK r : r = [g EXCEPT !.bt = p]
  OBVIOUS
<1>12. r = Query(g, i, kind)
  BY <1>1, <1>2, <1>3, <1>5, <1>8, <1>11, StateFields DEF Query
<1>13. But(r, i) /\ r.bt = p /\ r.dev = g.dev /\ r.sdp = g.sdp
  BY ONLY <1>2, <1>9, <1>10, <1>11, But(g, i), i \in Idx, ButStack
<1>14. Live(r, i)
  <2>1. SUFFICES ASSUME a # None
                 PROVE  LifeAt(g.dev[i], p) /\ Budget(g.dev[i], p, g.sdp, i, 2)
    BY <1>2, <1>13 DEF Live
  <2>2. PICK d : d = g.dev[i]
    OBVIOUS
  <2>3. LifeAt(d, g.bt) /\ Budget(d, g.bt, g.sdp, i, 2) /\ d.addr = a
    BY <1>2, <2>1, <2>2 DEF Live
  <2>4. p.chan = g.bt.chan /\ p.twice = g.bt.twice /\ p.names = g.bt.names
        /\ (p.link[a] \in Up => p.link[a] = g.bt.link[a])
    BY <1>1, <1>2, <1>6, <1>9, <2>1, Zenon DEF Device
  <2>5. LifeAt(d, p)
    BY ONLY <2>3, <2>4, SameAsked
  <2>6. Budget(d, p, g.sdp, i, 2)
    BY ONLY <2>3, <2>4 DEF Budget, Uses, Asked
  <2> QED
    BY <2>2, <2>5, <2>6
<1> QED
  BY <1>2, <1>12, <1>13, <1>14, EndsSound

\* uni_bt_sdp_query_start(): a query before the control channel costs one of
\* what may be asked for.
LEMMA SdpStartSound ==
  ASSUME NEW g, NEW i \in Idx, But(g, i),
         g.sdp.device = NoDevice =>
           Live(g, i) /\ (g.dev[i].query = "before" => Spare(g, i))
  PROVE  Sound(SdpStart(g, i))
<1>1. g \in State /\ g.dev \in [Idx -> Device] /\ g.sdp \in Sdp /\ g.asserted \in BOOLEAN
  BY StateFields DEF But, Tidy
<1>2. CASE g.sdp.device # NoDevice
  BY <1>2, DeleteSound DEF SdpStart
<1>3. CASE g.sdp.device = NoDevice
  <2>1. PICK s : s = [device |-> i, timer |-> TRUE]
    OBVIOUS
  <2>2. PICK t : t = (g.asserted \/ g.sdp.timer)
    OBVIOUS
  <2>3. s \in Sdp /\ t \in BOOLEAN /\ s.device = i
    BY <1>1, <2>1, <2>2 DEF Sdp
  <2>4. PICK f : f = [g EXCEPT !.sdp = s]
    OBVIOUS
  <2>5. PICK h : h = [f EXCEPT !.dev[i].state = "VENDOR_REQUESTED"]
    OBVIOUS
  <2>6. PICK r : r = [h EXCEPT !.asserted = t]
    OBVIOUS
  <2>7. /\ But(f, i) /\ f \in State /\ f.sdp = s
        /\ f.dev = g.dev /\ f.bt = g.bt /\ f.used = g.used
    BY ONLY <2>3, <2>4, But(g, i), i \in Idx, ButSdp
  <2>8. Live(f, i)
    <3>1. SUFFICES ASSUME g.dev[i].addr # None
                   PROVE  LifeAt(g.dev[i], g.bt) /\ Budget(g.dev[i], g.bt, s, i, 2)
      BY <2>7 DEF Live
    <3>2. PICK d : d = g.dev[i]
      OBVIOUS
    <3>3. LifeAt(d, g.bt) /\ Budget(d, g.bt, g.sdp, i, 2)
      BY <1>3, <3>1, <3>2 DEF Live
    <3>4. d.query = "before" => Budget(d, g.bt, g.sdp, i, 1)
      BY <1>3, <3>1, <3>2 DEF Spare
    <3>5. g.sdp.device # i
      BY <1>3 DEF NoDevice, Idx
    <3>6. PICK c \in Nat : c = Asked(g.bt, d.addr) + (IF d.nameTimer THEN 1 ELSE 0)
                                 + (IF d.addr \in g.bt.names THEN 1 ELSE 0)
      BY DEF Asked
    <3>7. Uses(d, g.bt, g.sdp, i) = c
      BY ONLY <3>5, <3>6 DEF Uses
    <3>8. Uses(d, g.bt, s, i) = IF d.query = "before" THEN c + 1 ELSE c
      BY ONLY <2>3, <3>6 DEF Uses
    <3>9. Budget(d, g.bt, s, i, 2)
      BY ONLY <3>3, <3>4, <3>7, <3>8, c \in Nat DEF Budget
    <3> QED
      BY <3>2, <3>3, <3>9
  <2>9. Turned(f, h, i, [f.dev EXCEPT ![i].state = "VENDOR_REQUESTED"])
    <3>1. "VENDOR_REQUESTED" \in States /\ "VENDOR_REQUESTED" # "READY"
      BY DEF States
    <3> QED
      BY ONLY <2>5, <2>7, <3>1, i \in Idx, StateTurned
  <2>10. But(h, i) /\ Live(h, i) /\ h.dev[i].state = "VENDOR_REQUESTED"
    BY <1>1, <2>7, <2>8, <2>9 DEF Turned
  <2>11. /\ But(r, i) /\ r.sdp = h.sdp /\ r.dev = h.dev /\ r.bt = h.bt
    BY ONLY <2>3, <2>6, <2>10, i \in Idx, ButAsserted
  <2>12. But(r, i) /\ Live(r, i) /\ SettledAt(r.dev[i])
    BY <2>10, <2>11 DEF Live, SettledAt
  <2>13. Sound(Query(r, i, "pid")) /\ Sound(Delete(r, i))
    BY <2>12, DeleteSound, QuerySound
  <2>14. r = [g EXCEPT !.sdp = [device |-> i, timer |-> TRUE],
                       !.dev[i].state = "VENDOR_REQUESTED",
                       !.asserted = @ \/ g.sdp.timer]
    BY <2>1, <2>2, <2>4, <2>5, <2>6
  <2>15. SdpStart(g, i) = IF r.bt.query # NoQuery THEN Delete(r, i) ELSE Query(r, i, "pid")
    <3>1. SdpStart(g, i) = IF g.bt.query # NoQuery THEN Delete(r, i) ELSE Query(r, i, "pid")
      BY <1>3, <2>14 DEF SdpStart
    <3>2. r.bt = g.bt
      BY <2>7, <2>9, <2>11 DEF Turned
    <3> QED
      BY <3>1, <3>2
  <2> QED
    BY <2>13, <2>15
<1> QED
  BY <1>2, <1>3

\* The state machine in state SDP_HID_DESCRIPTOR_FETCHED.
LEMMA HidFetchedSound ==
  ASSUME NEW g, NEW i \in Idx, But(g, i), Live(g, i),
         g.dev[i].query = "before" => Spare(g, i)
  PROVE  Sound(HidFetched(g, i))
<1>1. CASE ~g.dev[i].incoming /\ g.dev[i].query = "before"
  <2>1. g.dev[i].addr # None =>
          /\ LifeAt(g.dev[i], g.bt) /\ Budget(g.dev[i], g.bt, g.sdp, i, 1)
          /\ ~g.dev[i].incoming /\ g.dev[i].name # None
    BY <1>1 DEF Spare, LifeAt
  <2>2. Sound(CreateChannel(g, i, "control", "CONTROL_REQUESTED"))
    BY ONLY <2>1, But(g, i), i \in Idx, CreateControlSound
  <2> QED
    BY <1>1, <2>2 DEF HidFetched
<1>2. CASE ~(~g.dev[i].incoming /\ g.dev[i].query = "before")
  BY <1>2, SetReadySound DEF HidFetched
<1> QED
  BY <1>1, <1>2

\* uni_bt_sdp_query_end(): what the query cost may be spent.
LEMMA SdpEndSound ==
  ASSUME NEW g, NEW i \in Idx, But(g, i), Live(g, i), g.sdp.device = i
  PROVE  Sound(SdpEnd(g, i))
<1>1. g \in State /\ g.dev \in [Idx -> Device]
  BY StateFields DEF But, Tidy
<1>2. PICK h : h = [g EXCEPT !.dev[i].state = "HID_FETCHED"]
  OBVIOUS
<1>3. PICK s : s = [device |-> NoDevice, timer |-> FALSE]
  OBVIOUS
<1>4. s \in Sdp /\ s.device = NoDevice /\ s.device # i
  BY <1>3 DEF Sdp, NoDevice, Idx
<1>5. PICK r : r = [h EXCEPT !.sdp = s]
  OBVIOUS
<1>6. Turned(g, h, i, [g.dev EXCEPT ![i].state = "HID_FETCHED"])
  <2>1. "HID_FETCHED" \in States /\ "HID_FETCHED" # "READY"
    BY DEF States
  <2> QED
    BY ONLY <1>2, <2>1, But(g, i), i \in Idx, StateTurned
<1>7. But(h, i) /\ Live(h, i) /\ h.sdp.device = i
  BY <1>6 DEF Turned
<1>8. But(r, i) /\ r.sdp = s /\ r.dev = h.dev /\ r.bt = h.bt
  BY ONLY <1>4, <1>5, <1>7, i \in Idx, ButSdp
<1>9. Live(r, i) /\ (r.dev[i].query = "before" => Spare(r, i))
  <2>1. SUFFICES ASSUME h.dev[i].addr # None
                 PROVE  /\ LifeAt(h.dev[i], h.bt) /\ Budget(h.dev[i], h.bt, s, i, 2)
                        /\ h.dev[i].query = "before" => Budget(h.dev[i], h.bt, s, i, 1)
    BY <1>8 DEF Live, Spare
  <2>2. PICK d : d = h.dev[i]
    OBVIOUS
  <2>3. LifeAt(d, h.bt) /\ Budget(d, h.bt, h.sdp, i, 2)
    BY <1>7, <2>1, <2>2 DEF Live
  <2>4. PICK c \in Nat : c = Asked(h.bt, d.addr) + (IF d.nameTimer THEN 1 ELSE 0)
                               + (IF d.addr \in h.bt.names THEN 1 ELSE 0)
    BY DEF Asked
  <2>5. Uses(d, h.bt, s, i) = c
    BY ONLY <1>4, <2>4 DEF Uses
  <2>6. Uses(d, h.bt, h.sdp, i) = IF d.query = "before" THEN c + 1 ELSE c
    BY ONLY <1>7, <2>4 DEF Uses
  <2>7. Budget(d, h.bt, s, i, 2) /\ (d.query = "before" => Budget(d, h.bt, s, i, 1))
    BY ONLY <2>3, <2>5, <2>6, c \in Nat DEF Budget
  <2> QED
    BY <2>2, <2>3, <2>7
<1>10. SdpEnd(g, i) = HidFetched(r, i)
  BY <1>2, <1>3, <1>5 DEF SdpEnd
<1>11. Sound(HidFetched(r, i))
  BY ONLY <1>8, <1>9, i \in Idx, HidFetchedSound
<1> QED
  BY <1>10, <1>11

\* uni_bt_sdp_query_start_hid_descriptor()
LEMMA SdpHidSound ==
  ASSUME NEW g, NEW i \in Idx, But(g, i), Live(g, i), g.sdp.device = i
  PROVE  Sound(SdpHid(g, i))
<1>1. g \in State /\ g.dev \in [Idx -> Device] /\ g.sdp \in Sdp
  BY StateFields DEF But, Tidy
<1>2. Sound(SdpEnd(g, i))
  BY SdpEndSound
<1>3. PICK s : s = [g.sdp EXCEPT !.timer = FALSE]
  OBVIOUS
<1>4. s \in Sdp /\ s.device = g.sdp.device
  BY <1>1, <1>3 DEF Sdp
<1>5. PICK h : h = [g EXCEPT !.sdp = s]
  OBVIOUS
<1>6. But(h, i)
  BY ONLY <1>4, <1>5, But(g, i), i \in Idx, ButSdp
<1>7. h = [g EXCEPT !.sdp.timer = FALSE]
  BY <1>1, <1>3, <1>5, StateFields
<1>8. Sound(Delete(h, i))
  BY <1>6, DeleteSound
<1>9. PICK f : f = [g EXCEPT !.dev[i].state = "HID_REQUESTED"]
  OBVIOUS
<1>10. Turned(g, f, i, [g.dev EXCEPT ![i].state = "HID_REQUESTED"])
  <2>1. "HID_REQUESTED" \in States /\ "HID_REQUESTED" # "READY"
    BY DEF States
  <2> QED
    BY ONLY <1>9, <2>1, But(g, i), i \in Idx, StateTurned
<1>11. But(f, i) /\ Live(f, i) /\ SettledAt(f.dev[i])
  BY <1>1, <1>10 DEF Turned, SettledAt
<1>12. Sound(Query(f, i, "hid"))
  BY <1>11, QuerySound
<1>13. g.sdp.device # NoDevice
  BY DEF Idx, NoDevice
<1> QED
  BY <1>2, <1>7, <1>8, <1>9, <1>12, <1>13 DEF SdpHid

\* Who has one to spare has not asked too often.
LEMMA SpareIsLive ==
  ASSUME NEW g, NEW i, Spare(g, i)
  PROVE  Live(g, i)
<1>1. PICK d : d = g.dev[i]
  OBVIOUS
<1>2. Uses(d, g.bt, g.sdp, i) \in Nat
  <2>1. Asked(g.bt, d.addr) \in Nat
    BY DEF Asked
  <2> QED
    BY <2>1 DEF Uses
<1>3. Budget(d, g.bt, g.sdp, i, 1) => Budget(d, g.bt, g.sdp, i, 2)
  BY <1>2 DEF Budget
<1> QED
  BY <1>1, <1>3 DEF Spare, Live

\* The state machine in state REMOTE_NAME_FETCHED.
LEMMA NameFetchedSound ==
  ASSUME NEW g, NEW i \in Idx, But(g, i), Spare(g, i),
         g.dev[i].addr # None => g.dev[i].name # None
  PROVE  Sound(NameFetched(g, i))
<1>1. g \in State /\ g.dev \in [Idx -> Device] /\ g.dev[i] \in Device
  BY StateFields DEF But, Tidy
<1>2. PICK d : d = g.dev[i]
  OBVIOUS
<1>3. Live(g, i)
  BY SpareIsLive
<1>4. CASE d.name = "real" /\ d.addr \in Ds4
  <2>1. PICK e : e = [g.dev EXCEPT ![i].query = "before"]
    OBVIOUS
  <2>2. /\ e \in [Idx -> Device] /\ \A j \in Idx : j # i => e[j] = g.dev[j]
        /\ e[i].addr = g.dev[i].addr /\ e[i].connected = g.dev[i].connected
        /\ e[i].seat = g.dev[i].seat /\ e[i].connTimer = g.dev[i].connTimer
        /\ e[i].handle = g.dev[i].handle /\ e[i].cid = g.dev[i].cid
        /\ e[i].name = g.dev[i].name /\ e[i].incoming = g.dev[i].incoming
        /\ e[i].nameTimer = g.dev[i].nameTimer /\ e[i].state = g.dev[i].state
    BY <1>1, <2>1, Zenon DEF Device
  <2>3. PICK h : h = [g EXCEPT !.dev = e]
    OBVIOUS
  <2>4. h = [g EXCEPT !.dev[i].query = "before"]
    BY <1>1, <2>1, <2>3, StateFields
  <2>5. But(h, i) /\ h.dev = e /\ h.bt = g.bt /\ h.sdp = g.sdp
    <3>1. e[i].connTimer => g.dev[i].connTimer
      BY <2>2
    <3> QED
      BY ONLY <2>2, <2>3, <3>1, But(g, i), i \in Idx, ButPlace
  <2>6. PICK f : f = h.dev[i]
    OBVIOUS
  <2>7. /\ f.addr = d.addr /\ f.connected = d.connected /\ f.seat = d.seat
        /\ f.connTimer = d.connTimer /\ f.handle = d.handle /\ f.cid = d.cid
        /\ f.name = d.name /\ f.incoming = d.incoming
        /\ f.nameTimer = d.nameTimer /\ f.state = d.state
    BY <1>2, <2>2, <2>5, <2>6
  <2>8. f.addr # None => LifeAt(f, g.bt)
    <3>1. SUFFICES ASSUME d.addr # None PROVE LifeAt(f, g.bt)
      BY <2>7
    <3>2. LifeAt(d, g.bt)
      BY <1>2, <3>1 DEF Spare
    <3>3. f.name # None
      BY <1>4, <2>7 DEF None
    <3> QED
      BY ONLY <2>7, <3>2, <3>3 DEF LifeAt
  <2>9. h.sdp.device = NoDevice /\ f.addr # None => Budget(f, g.bt, g.sdp, i, 1)
    <3>1. SUFFICES ASSUME h.sdp.device = NoDevice, d.addr # None
                   PROVE  Budget(f, g.bt, g.sdp, i, 1)
      BY <2>7
    <3>2. g.sdp.device # i
      BY <2>5, <3>1 DEF NoDevice, Idx
    <3>3. Budget(d, g.bt, g.sdp, i, 1)
      BY <1>2, <3>1 DEF Spare
    <3> QED
      BY ONLY <2>7, <3>2, <3>3 DEF Budget, Uses
  <2>10. h.sdp.device = NoDevice => Spare(h, i)
    BY <2>5, <2>6, <2>8, <2>9 DEF Spare
  <2>11. Sound(SdpStart(h, i))
    BY <2>5, <2>10, SdpStartSound, SpareIsLive
  <2>12. NameFetched(g, i) = SdpStart(h, i)
    BY ONLY <1>2, <1>4, <2>4 DEF NameFetched
  <2> QED
    BY <2>11, <2>12
<1>5. CASE ~(d.name = "real" /\ d.addr \in Ds4)
  <2>1. PICK t : t = IF g.dev[i].type = None THEN "setup" ELSE g.dev[i].type
    OBVIOUS
  <2>2. t \in Types \cup {None}
    BY <1>1, <2>1, ZenonT(40) DEF Device, Types
  <2>3. PICK e : e = [g.dev EXCEPT ![i].query = "not needed", ![i].state = "HID_FETCHED",
                                   ![i].type = t]
    BY ZenonT(40)
  <2>4. /\ e \in [Idx -> Device] /\ \A j \in Idx : j # i => e[j] = g.dev[j]
        /\ Alike(g.dev[i], e[i]) /\ e[i].query = "not needed" /\ e[i].incoming = g.dev[i].incoming
        /\ e[i].name = g.dev[i].name /\ e[i].addr = g.dev[i].addr
    <3>1. PICK x : x = [g.dev[i] EXCEPT !.query = "not needed", !.state = "HID_FETCHED",
                                        !.type = t]
      OBVIOUS
    <3>2. g.dev[i] \in Device /\ "HID_FETCHED" \in States /\ "HID_FETCHED" # "READY"
      BY <1>1 DEF States
    <3>3. /\ x \in Device /\ x.state = "HID_FETCHED" /\ x.query = "not needed"
          /\ x.addr = g.dev[i].addr /\ x.connected = g.dev[i].connected
          /\ x.seat = g.dev[i].seat /\ x.connTimer = g.dev[i].connTimer
          /\ x.handle = g.dev[i].handle /\ x.cid = g.dev[i].cid /\ x.name = g.dev[i].name
          /\ x.incoming = g.dev[i].incoming /\ x.nameTimer = g.dev[i].nameTimer
      BY ONLY <2>2, <3>1, <3>2 DEF Device
    <3>4. Alike(g.dev[i], x)
      BY ONLY <3>2, <3>3 DEF Alike
    <3>5. e = [g.dev EXCEPT ![i] = x]
      BY ONLY <1>1, <2>3, <3>1, i \in Idx
    <3> QED
      BY ONLY <1>1, <3>3, <3>4, <3>5, i \in Idx
  <2>5. PICK f : f = [g EXCEPT !.dev = e]
    OBVIOUS
  <2>6. Turned(g, f, i, e)
    BY ONLY <2>4, <2>5, But(g, i), i \in Idx, AlikeTurned, Zenon
  <2>7. /\ But(f, i) /\ Spare(f, i) /\ f.dev[i].query = "not needed"
        /\ f.dev[i].incoming = g.dev[i].incoming
        /\ f.dev[i].addr # None => f.dev[i].name # None
    BY <2>4, <2>6, ZenonT(40) DEF Turned
  <2>8. f = [g EXCEPT !.dev[i].query = "not needed", !.dev[i].state = "HID_FETCHED",
                      !.dev[i].type = IF @ = None THEN "setup" ELSE @]
    BY <1>1, <2>1, <2>3, <2>5, StateFields, Zenon
  <2>9. PICK h : h = IF d.name = "real" /\ d.addr \in ByName THEN f ELSE g
    OBVIOUS
  <2>10. /\ But(h, i) /\ Spare(h, i) /\ h.dev[i].incoming = d.incoming
         /\ h.dev[i].addr # None => h.dev[i].name # None
    <3>1. /\ But(g, i) /\ Spare(g, i) /\ g.dev[i].incoming = d.incoming
          /\ g.dev[i].addr # None => g.dev[i].name # None
      BY <1>2
    <3>2. CASE d.name = "real" /\ d.addr \in ByName
      BY <1>2, <2>7, <2>9, <3>2, Zenon
    <3>3. CASE ~(d.name = "real" /\ d.addr \in ByName)
      BY ONLY <2>9, <3>1, <3>3
    <3> QED
      BY <3>2, <3>3
  <2>11. NameFetched(g, i) =
           IF ~d.incoming THEN CreateChannel(h, i, "control", "CONTROL_REQUESTED")
           ELSE IF h.dev[i].query = "not needed" THEN SetReady(h, i)
           ELSE SdpStart(h, i)
    <3> DEFINE H == IF g.dev[i].name = "real" /\ g.dev[i].addr \in ByName
                      THEN [g EXCEPT !.dev[i].query = "not needed",
                                     !.dev[i].state = "HID_FETCHED",
                                     !.dev[i].type = IF @ = None THEN "setup" ELSE @]
                      ELSE g
    <3>1. NameFetched(g, i) =
            IF ~g.dev[i].incoming THEN CreateChannel(H, i, "control", "CONTROL_REQUESTED")
            ELSE IF H.dev[i].query = "not needed" THEN SetReady(H, i)
            ELSE SdpStart(H, i)
      <4>1. ~(g.dev[i].name = "real" /\ g.dev[i].addr \in Ds4)
        BY <1>2, <1>5
      <4> QED
        BY ONLY <4>1, Zenon DEF NameFetched
    <3>2. H = h
      BY ONLY <1>2, <2>8, <2>9
    <3> HIDE DEF H
    <3> QED
      BY ONLY <1>2, <3>1, <3>2, Zenon
  <2>12. CASE ~d.incoming
    <3>1. h.dev[i].addr # None =>
            /\ LifeAt(h.dev[i], h.bt) /\ Budget(h.dev[i], h.bt, h.sdp, i, 1)
            /\ ~h.dev[i].incoming /\ h.dev[i].name # None
      BY <2>10, <2>12 DEF Spare
    <3>2. Sound(CreateChannel(h, i, "control", "CONTROL_REQUESTED"))
      BY ONLY <2>10, <3>1, i \in Idx, CreateControlSound
    <3> QED
      BY <2>11, <2>12, <3>2
  <2>13. CASE d.incoming
    <3>1. Live(h, i)
      BY <2>10, SpareIsLive
    <3>2. Sound(SetReady(h, i)) /\ Sound(SdpStart(h, i))
      BY <2>10, <3>1, SetReadySound, SdpStartSound
    <3> QED
      BY <2>11, <2>13, <3>2, Zenon
  <2> QED
    BY <2>12, <2>13
<1> QED
  BY <1>4, <1>5

\* gap_remote_name_request() and its timer: nothing has been asked for yet, so
\* the answer and the timer may both ask for the control channel.
LEMMA RequestNameSound ==
  ASSUME NEW g, NEW i \in Idx, But(g, i),
         g.dev[i].addr # None => LifeAt(g.dev[i], g.bt) /\ g.dev[i].name = None
  PROVE  Sound(RequestName(g, i))
<1>1. g \in State /\ g.dev \in [Idx -> Device] /\ g.dev[i] \in Device /\ g.bt \in Stack
      /\ g.asserted \in BOOLEAN
  BY StateFields DEF But, Tidy
<1>2. PICK a : a = g.dev[i].addr
  OBVIOUS
<1>3. PICK n : n = IF g.bt.names = {} THEN {a} \cap Addrs ELSE g.bt.names
  OBVIOUS
<1>4. n \in SUBSET Addrs
  BY <1>1, <1>3, StackIs
<1>5. PICK b : b = [g.bt EXCEPT !.names = n]
  OBVIOUS
<1>6. /\ b \in Stack /\ b.link = g.bt.link /\ b.chan = g.bt.chan /\ b.twice = g.bt.twice
      /\ b.names = n /\ b.closing = g.bt.closing /\ b.left = g.bt.left
  <2>1. b \in Stack
    BY <1>1, <1>4, <1>5, StackIs
  <2> QED
    BY <1>1, <1>5, <2>1 DEF Stack
<1>7. Elsewhere(g.bt, b, a) /\ (a \in Addrs => AddrInv(b, a))
  <2>1. a \in Addrs => AddrInv(g.bt, a)
    BY <1>2 DEF But
  <2>2. \A x \in Addrs : x # a => (x \in b.names => x \in g.bt.names)
    BY <1>3, <1>6
  <2> QED
    BY <1>6, <2>1, <2>2 DEF Elsewhere, Same, AddrInv
<1>8. PICK e : e = [g.dev EXCEPT ![i].state = "NAME_INQUIRED", ![i].nameTimer = TRUE]
  OBVIOUS
<1>9. /\ e \in [Idx -> Device] /\ \A j \in Idx : j # i => e[j] = g.dev[j]
      /\ e[i].addr = g.dev[i].addr /\ e[i].connected = g.dev[i].connected
      /\ e[i].seat = g.dev[i].seat /\ e[i].connTimer = g.dev[i].connTimer
      /\ e[i].handle = g.dev[i].handle /\ e[i].cid = g.dev[i].cid
      /\ e[i].name = g.dev[i].name /\ e[i].incoming = g.dev[i].incoming
      /\ e[i].query = g.dev[i].query /\ e[i].state = "NAME_INQUIRED"
  BY <1>1, <1>8, Zenon DEF Device, States
<1>10. PICK h1 : h1 = [g EXCEPT !.dev = e]
  OBVIOUS
<1>11. But(h1, i) /\ h1 \in State /\ h1.dev = e /\ h1.bt = g.bt
  <2>1. e[i].connTimer => g.dev[i].connTimer
    BY <1>9
  <2> QED
    BY ONLY <1>9, <1>10, <2>1, But(g, i), i \in Idx, ButPlace
<1>12. PICK t : t = (g.asserted \/ g.dev[i].nameTimer)
  OBVIOUS
<1>13. t \in BOOLEAN
  BY <1>1, <1>12, Zenon DEF Device
<1>14. PICK h2 : h2 = [h1 EXCEPT !.asserted = t]
  OBVIOUS
<1>15. But(h2, i) /\ h2 \in State /\ h2.dev = e /\ h2.bt = g.bt
  <2>1. But(h2, i) /\ h2 \in State /\ h2.dev = h1.dev /\ h2.bt = h1.bt
    BY ONLY <1>11, <1>13, <1>14, i \in Idx, ButAsserted
  <2> QED
    BY <1>11, <2>1
<1>16. PICK r : r = [h2 EXCEPT !.bt = b]
  OBVIOUS
<1>17. But(r, i) /\ r.dev = e /\ r.bt = b
  <2>1. /\ Elsewhere(h2.bt, b, h2.dev[i].addr)
        /\ (h2.dev[i].addr \in Addrs => AddrInv(b, h2.dev[i].addr))
    BY <1>2, <1>7, <1>9, <1>15
  <2>2. But(r, i) /\ r.dev = h2.dev /\ r.bt = b
    BY ONLY <1>6, <1>15, <1>16, <2>1, i \in Idx, ButStack
  <2> QED
    BY <1>15, <2>2
<1>18. r = RequestName(g, i)
  <2>1. r = [g EXCEPT !.dev = e, !.asserted = t, !.bt = b]
    BY <1>10, <1>14, <1>16
  <2>2. RequestName(g, i) =
          [g EXCEPT !.dev[i].state = "NAME_INQUIRED", !.dev[i].nameTimer = TRUE,
                    !.asserted = t, !.bt.names = n]
    BY ONLY <1>2, <1>3, <1>12 DEF RequestName
  <2> QED
    BY <1>1, <1>5, <1>8, <2>1, <2>2, StateFields, ZenonT(40)
<1>19. Live(r, i) /\ SettledAt(r.dev[i])
  <2>1. PICK f : f = r.dev[i]
    OBVIOUS
  <2>2. PICK d : d = g.dev[i]
    OBVIOUS
  <2>3. /\ f.addr = d.addr /\ f.connected = d.connected /\ f.seat = d.seat
        /\ f.connTimer = d.connTimer /\ f.handle = d.handle /\ f.cid = d.cid
        /\ f.name = d.name /\ f.incoming = d.incoming /\ f.query = d.query
        /\ f.state = "NAME_INQUIRED"
    BY <1>9, <1>17, <2>1, <2>2
  <2>4. SettledAt(f)
    BY <2>3 DEF SettledAt
  <2>5. ASSUME f.addr # None
        PROVE  LifeAt(f, b) /\ Budget(f, b, r.sdp, i, 2)
    <3>1. LifeAt(d, g.bt) /\ d.name = None
      BY <2>2, <2>3, <2>5
    <3>2. Asked(b, f.addr) = Asked(g.bt, d.addr)
      BY <1>6, <2>3 DEF Asked
    <3>3. LifeAt(f, b)
      BY ONLY <1>6, <2>3, <3>1, <3>2 DEF LifeAt
    <3>4. ~f.incoming => Asked(b, f.addr) = 0
      BY ONLY <2>3, <3>1, <3>2 DEF LifeAt
    <3>5. f.query # "before"
      BY ONLY <2>3, <3>1 DEF LifeAt
    <3>6. Budget(f, b, r.sdp, i, 2)
      BY ONLY <3>4, <3>5 DEF Budget, Uses
    <3> QED
      BY <3>3, <3>6
  <2> QED
    BY <1>17, <2>1, <2>4, <2>5 DEF Live
<1> QED
  BY <1>17, <1>18, <1>19, EndsSound

\* What the state machine may assume of the place it works on.
Ripe(g, i) ==
  LET d == g.dev[i] IN
  /\ Live(g, i)
  /\ d.state = "DISCOVERED" => d.name = None
  /\ d.state = "NAME_FETCHED" => Spare(g, i) /\ (d.addr # None => d.name # None)
  /\ d.state = "VENDOR_FETCHED" => g.sdp.device = i
  /\ d.state # "HID_FETCHED"
  /\ d.state = "CONTROL_CONNECTED" /\ ~d.incoming =>
       /\ d.addr # None /\ g.bt.closing # d.addr
       /\ g.bt.chan[d.addr]["control"] = "open" /\ g.bt.chan[d.addr]["interrupt"] = None
  /\ d.state = "INTERRUPT_CONNECTED" => d.connected

\* uni_bt_bredr_process_fsm()
LEMMA FsmSound ==
  ASSUME NEW g, NEW i \in Idx, But(g, i), Ripe(g, i)
  PROVE  Sound(Fsm(g, i))
<1>1. PICK d : d = g.dev[i]
  OBVIOUS
<1>2. Live(g, i)
  BY DEF Ripe
<1>3. Fsm(g, i) =
        CASE d.name = None /\ d.state \in {"DISCOVERED", "INTERRUPT_CONNECTED"} -> RequestName(g, i)
          [] d.state = "NAME_FETCHED"   -> NameFetched(g, i)
          [] d.state = "VENDOR_FETCHED" -> SdpHid(g, i)
          [] d.state = "HID_FETCHED"    -> HidFetched(g, i)
          [] ~d.incoming /\ d.state = "CONTROL_CONNECTED"
               -> CreateChannel(g, i, "interrupt", "INTERRUPT_REQUESTED")
          [] ~d.incoming /\ d.name # None /\ d.state = "INTERRUPT_CONNECTED"
               -> IF d.query = "after" THEN SdpStart(g, i) ELSE SetReady(g, i)
          [] OTHER -> g
  BY <1>1 DEF Fsm
<1>4. CASE d.name = None /\ d.state \in {"DISCOVERED", "INTERRUPT_CONNECTED"}
  <2>1. Fsm(g, i) = RequestName(g, i)
    BY ONLY <1>3, <1>4
  <2>2. g.dev[i].addr # None => LifeAt(g.dev[i], g.bt) /\ g.dev[i].name = None
    BY <1>1, <1>2, <1>4 DEF Live
  <2>3. Sound(RequestName(g, i))
    BY ONLY <2>2, But(g, i), i \in Idx, RequestNameSound
  <2> QED
    BY <2>1, <2>3
<1>5. CASE d.state = "NAME_FETCHED"
  <2>1. Fsm(g, i) = NameFetched(g, i)
    BY ONLY <1>3, <1>5
  <2>2. Spare(g, i) /\ (g.dev[i].addr # None => g.dev[i].name # None)
    BY <1>1, <1>5 DEF Ripe
  <2>3. Sound(NameFetched(g, i))
    BY ONLY <2>2, But(g, i), i \in Idx, NameFetchedSound
  <2> QED
    BY <2>1, <2>3
<1>6. CASE d.state = "VENDOR_FETCHED"
  <2>1. Fsm(g, i) = SdpHid(g, i)
    BY ONLY <1>3, <1>6
  <2>2. g.sdp.device = i
    BY <1>1, <1>6 DEF Ripe
  <2> QED
    BY <1>2, <2>1, <2>2, SdpHidSound
<1>7. CASE ~d.incoming /\ d.state = "CONTROL_CONNECTED"
  <2>1. Fsm(g, i) = CreateChannel(g, i, "interrupt", "INTERRUPT_REQUESTED")
    BY ONLY <1>3, <1>7
  <2>2. /\ g.dev[i].addr # None /\ g.bt.closing # g.dev[i].addr
        /\ g.bt.chan[g.dev[i].addr]["control"] = "open"
        /\ g.bt.chan[g.dev[i].addr]["interrupt"] = None
    BY <1>1, <1>7 DEF Ripe
  <2>3. LifeAt(g.dev[i], g.bt) /\ Budget(g.dev[i], g.bt, g.sdp, i, 2)
    BY <1>2, <2>2 DEF Live
  <2>4. Sound(CreateChannel(g, i, "interrupt", "INTERRUPT_REQUESTED"))
    BY ONLY <2>2, <2>3, But(g, i), i \in Idx, CreateInterruptSound
  <2> QED
    BY <2>1, <2>4
<1>8. CASE ~d.incoming /\ d.name # None /\ d.state = "INTERRUPT_CONNECTED"
  <2>1. Fsm(g, i) = IF d.query = "after" THEN SdpStart(g, i) ELSE SetReady(g, i)
    BY ONLY <1>3, <1>8
  <2>2. Sound(SetReady(g, i))
    BY <1>2, SetReadySound
  <2>3. d.query = "after" => Sound(SdpStart(g, i))
    BY <1>1, <1>2, SdpStartSound
  <2> QED
    BY <2>1, <2>2, <2>3
<1>9. CASE /\ ~(d.name = None /\ d.state \in {"DISCOVERED", "INTERRUPT_CONNECTED"})
           /\ d.state # "NAME_FETCHED" /\ d.state # "VENDOR_FETCHED"
           /\ ~(~d.incoming /\ d.state = "CONTROL_CONNECTED")
           /\ ~(~d.incoming /\ d.name # None /\ d.state = "INTERRUPT_CONNECTED")
  <2>1. d.state # "HID_FETCHED" /\ (d.state = "DISCOVERED" => d.name = None)
        /\ (d.state = "INTERRUPT_CONNECTED" => d.connected)
    BY <1>1 DEF Ripe
  <2>2. Fsm(g, i) = g
    BY ONLY <1>3, <1>9, <2>1
  <2>3. SettledAt(d)
    BY ONLY <1>9, <2>1 DEF SettledAt
  <2> QED
    BY <1>1, <1>2, <2>2, <2>3, EndsSound
<1> QED
  BY ONLY <1>4, <1>5, <1>6, <1>7, <1>8, <1>9

\* btstack has done something about a device that has no place, or whose place
\* is as right as before.
LEMMA StackSound ==
  ASSUME NEW g, Tidy(g), \A i \in Idx : At(g, i), NEW a \in Addrs, NEW b \in Stack,
         Elsewhere(g.bt, b, a), \A x \in Addrs : AddrInv(b, x),
         NEW h, h = [g EXCEPT !.bt = b]
  PROVE  /\ Tidy(h) /\ h \in State /\ h.bt = b /\ h.dev = g.dev /\ h.sdp = g.sdp
         /\ h.used = g.used /\ h.asserted = g.asserted
         /\ \A i \in Idx : g.dev[i].addr # a => At(h, i)
         /\ \A i \in Idx : g.dev[i].addr = a => But(h, i)
         /\ (\A i \in Idx : g.dev[i].addr = a => At(h, i)) => Sound(h)
<1>1. g \in State
  BY DEF Tidy
<1>2. /\ h \in State /\ h.bt = b /\ h.dev = g.dev /\ h.sdp = g.sdp /\ h.used = g.used
      /\ h.asserted = g.asserted
  BY <1>1 DEF State
<1>3. Tidy(h)
  BY ONLY <1>2, Tidy(g), TableKept
<1>4. ASSUME NEW i \in Idx, g.dev[i].addr # a
      PROVE  At(h, i)
  <2>1. SUFFICES ASSUME g.dev[i].addr # None
                 PROVE  /\ LifeAt(g.dev[i], b) /\ SettledAt(g.dev[i])
                        /\ Budget(g.dev[i], b, g.sdp, i, 2)
    BY <1>2 DEF At
  <2>2. PICK d : d = g.dev[i]
    OBVIOUS
  <2>3. LifeAt(d, g.bt) /\ SettledAt(d) /\ Budget(d, g.bt, g.sdp, i, 2)
    BY <2>1, <2>2 DEF At
  <2>4. d.addr \in Addrs /\ d.addr # a
    BY <1>1, <1>4, <2>1, <2>2, StateFields, Zenon DEF Device
  <2>5. Same(g.bt, b, d.addr)
    BY <2>4 DEF Elsewhere
  <2>6. LifeAt(d, b)
    BY ONLY <2>3, <2>4, <2>5, SameLife
  <2>7. g.sdp.device = i => g.sdp.device = i
    OBVIOUS
  <2>8. Budget(d, b, g.sdp, i, 2)
    BY ONLY <2>3, <2>4, <2>5, <2>7, SameBudget
  <2> QED
    BY <2>2, <2>3, <2>6, <2>8
<1>5. ASSUME NEW i \in Idx, g.dev[i].addr = a
      PROVE  But(h, i)
  <2>1. \A j \in Idx : j # i => g.dev[j].addr # a
    <3>1. a # None
      BY NoneAssumption
    <3> QED
      BY <1>5, <3>1 DEF Tidy, TableInv
  <2> QED
    BY <1>2, <1>3, <1>4, <2>1 DEF But
<1>6. (\A i \in Idx : g.dev[i].addr = a => At(h, i)) => Sound(h)
  BY <1>2, <1>3, <1>4 DEF Sound
<1> QED
  BY <1>2, <1>3, <1>4, <1>5, <1>6

\* A channel could not be opened, or was closed: the place is cleared, or it
\* has nothing to do with the channel.
LEMMA FailedSound ==
  ASSUME NEW g, Tidy(g), \A i \in Idx : At(g, i), NEW a \in Addrs, NEW k \in Psms,
         NEW b, b = [g.bt EXCEPT !.chan[a][k] = None], \A x \in Addrs : AddrInv(b, x)
  PROVE  Sound(Failed(g, a, k))
<1>1. g \in State /\ g.bt \in Stack /\ g.dev \in [Idx -> Device]
  BY StateFields DEF Tidy
<1>2. b \in Stack
  <2>1. None \in Channels
    BY DEF Channels
  <2> QED
    BY ONLY <1>1, <2>1, b = [g.bt EXCEPT !.chan[a][k] = None], a \in Addrs, k \in Psms, StackIs
<1>3. /\ b.link = g.bt.link /\ b.twice = g.bt.twice /\ b.names = g.bt.names
      /\ b.closing = g.bt.closing /\ b.left = g.bt.left
      /\ b.chan[a][k] = None /\ \A m \in Psms : m # k => b.chan[a][m] = g.bt.chan[a][m]
      /\ \A x \in Addrs : x # a => b.chan[x] = g.bt.chan[x]
  BY <1>1 DEF Stack
<1>4. Elsewhere(g.bt, b, a)
  BY <1>3 DEF Elsewhere, Same
<1>5. PICK h : h = [g EXCEPT !.bt = b]
  OBVIOUS
<1>6. /\ h.bt = b /\ h.dev = g.dev /\ h.sdp = g.sdp
      /\ \A i \in Idx : g.dev[i].addr = a => But(h, i)
      /\ (\A i \in Idx : g.dev[i].addr = a => At(h, i)) => Sound(h)
  <2>1. \A i \in Idx : At(g, i)
    OBVIOUS
  <2>2. \A x \in Addrs : AddrInv(b, x)
    OBVIOUS
  <2> QED
    BY ONLY <1>2, <1>4, <1>5, <2>1, <2>2, Tidy(g), a \in Addrs, StackSound
<1>7. h = [g EXCEPT !.bt.chan[a][k] = None]
  BY <1>1, <1>5, StateFields
<1>8. PICK gone : gone = {i \in Places(g.dev, a) :
                            \/ g.bt.chan[a][k] = "asked"
                            \/ k \in g.dev[i].cid /\ <<a, k>> \notin g.bt.twice}
  OBVIOUS
<1>9. Failed(g, a, k) = IF gone = {} THEN h ELSE Delete(h, CHOOSE i \in gone : TRUE)
  BY ONLY <1>7, <1>8 DEF Failed
<1>10. CASE gone # {}
  <2>1. PICK i : i = CHOOSE q \in gone : TRUE
    OBVIOUS
  <2>2. i \in gone
    BY <1>10, <2>1
  <2>3. i \in Idx /\ g.dev[i].addr = a
    BY <1>8, <2>2 DEF Places
  <2>4. Sound(Delete(h, i))
    BY <1>6, <2>3, DeleteSound
  <2> QED
    BY <1>9, <1>10, <2>1, <2>4
<1>11. CASE gone = {}
  <2>1. ASSUME NEW i \in Idx, g.dev[i].addr = a
        PROVE  At(h, i)
    <3>1. PICK d : d = g.dev[i]
      OBVIOUS
    <3>2. d.addr = a /\ a # None /\ d.cid \in SUBSET Psms
      BY <1>1, <2>1, <3>1, NoneAssumption, Zenon DEF Device
    <3>3. LifeAt(d, g.bt) /\ SettledAt(d) /\ Budget(d, g.bt, g.sdp, i, 2)
      BY <3>1, <3>2 DEF At
    <3>4. g.bt.chan[a][k] # "asked" /\ (k \in d.cid => <<a, k>> \in g.bt.twice)
      BY <1>8, <1>11, <2>1, <3>1 DEF Places
    <3>5. <<a, "interrupt">> \notin g.bt.twice
      BY <1>3 DEF AddrInv
    <3>6. Asked(b, a) <= Asked(g.bt, a) /\ Asked(b, a) \in Nat /\ Asked(g.bt, a) \in Nat
      BY <1>3 DEF Asked, Psms
    <3>7. LifeAt(d, b)
      <4>1. CASE k = "interrupt"
        <5>1. ~d.connected
          BY <3>2, <3>3, <3>4, <3>5, <4>1 DEF LifeAt
        <5>2. b.chan[a]["control"] = g.bt.chan[a]["control"] /\ b.chan[a]["interrupt"] = None
          BY <1>3, <4>1 DEF Psms
        <5>3. Asked(b, a) = Asked(g.bt, a)
          BY <1>3, <5>2 DEF Asked
        <5> QED
          BY ONLY <1>3, <3>2, <3>3, <5>1, <5>2, <5>3 DEF LifeAt
      <4>2. CASE k = "control"
        <5>1. b.chan[a]["interrupt"] = g.bt.chan[a]["interrupt"] /\ b.chan[a]["control"] = None
          BY <1>3, <4>2 DEF Psms
        <5>2. /\ d.connected => d.handle /\ b.chan[a]["interrupt"] = "open" /\ "interrupt" \in d.cid
              /\ b.link[a] \in Up => d.handle
              /\ d.state = "READY" => d.seat = "seat"
              /\ d.connTimer \/ d.seat = "seat"
              /\ d.query = "before" => d.name # None
          BY ONLY <1>3, <3>2, <3>3, <5>1 DEF LifeAt
        <5>3. ASSUME ~d.incoming
              PROVE  /\ b.chan[a]["control"] # "coming"
                     /\ Asked(b, a) # 0 => "control" \in d.cid /\ d.name # None
                     /\ Asked(b, a) = 0 \/ b.chan[a]["control"] = "asked"
                          => b.chan[a]["interrupt"] = None
          <6>1. /\ Asked(g.bt, a) # 0 => "control" \in d.cid /\ d.name # None
                /\ Asked(g.bt, a) = 0 \/ g.bt.chan[a]["control"] = "asked"
                     => g.bt.chan[a]["interrupt"] = None
            BY ONLY <3>2, <3>3, <5>3 DEF LifeAt
          <6>2. Asked(b, a) # 0 => "control" \in d.cid /\ d.name # None
            BY <3>6, <6>1
          <6>3. Asked(b, a) = 0 => Asked(g.bt, a) = 0
            <7>1. CASE Asked(g.bt, a) = 0
              BY <7>1
            <7>2. CASE Asked(g.bt, a) # 0
              <8>1. <<a, "control">> \in b.twice
                BY <1>3, <3>4, <4>2, <6>1, <7>2
              <8> QED
                BY <8>1 DEF Asked
            <7> QED
              BY <7>1, <7>2
          <6> QED
            BY ONLY <5>1, <6>1, <6>2, <6>3 DEF None
        <5> QED
          BY ONLY <3>2, <5>2, <5>3 DEF LifeAt
      <4> QED
        BY <4>1, <4>2 DEF Psms
    <3>8. Budget(d, b, g.sdp, i, 2)
      <4>1. PICK m \in Nat : m = (IF d.nameTimer THEN 1 ELSE 0) + (IF d.addr \in g.bt.names THEN 1 ELSE 0)
                                 + (IF g.sdp.device = i /\ d.query = "before" THEN 1 ELSE 0)
        OBVIOUS
      <4>2. Uses(d, g.bt, g.sdp, i) = Asked(g.bt, a) + m /\ Uses(d, b, g.sdp, i) = Asked(b, a) + m
        BY ONLY <1>3, <3>2, <3>6, <4>1 DEF Uses
      <4> QED
        BY ONLY <3>3, <3>6, <4>2, m \in Nat DEF Budget
    <3> QED
      BY <1>6, <3>1, <3>3, <3>7, <3>8 DEF At
  <2> QED
    BY <1>6, <1>9, <1>11, <2>1
<1> QED
  BY <1>10, <1>11

\* The failure of a channel asked for twice: the place is cleared.
LEMMA RefusedSound ==
  ASSUME NEW g, Tidy(g), NEW a \in Addrs, \A x \in Addrs : AddrInv(g.bt, x),
         \A i \in Idx : g.dev[i].addr # a => At(g, i)
  PROVE  Sound(Refused(g, a))
<1>1. CASE Places(g.dev, a) = {}
  <2>1. \A i \in Idx : At(g, i)
    BY <1>1 DEF Places
  <2> QED
    BY <1>1, <2>1 DEF Refused, Sound
<1>2. CASE Places(g.dev, a) # {}
  <2>1. PICK i : i = PlaceOf(g, a)
    OBVIOUS
  <2>2. i \in Idx /\ g.dev[i].addr = a
    BY <1>2, <2>1, PlaceOfFits
  <2>3. \A j \in Idx : j # i => g.dev[j].addr # a
    <3>1. a # None
      BY NoneAssumption
    <3> QED
      BY <2>2, <3>1 DEF Tidy, TableInv
  <2>4. But(g, i)
    BY <2>3 DEF But
  <2> QED
    BY <1>2, <2>1, <2>2, <2>4, DeleteSound DEF Refused
<1> QED
  BY <1>1, <1>2

\* SDP_EVENT_QUERY_COMPLETE
LEMMA QueryCompleteSound ==
  ASSUME NEW g, Sound(g), NEW type \in Types
  PROVE  Sound(QueryComplete(g, type))
<1>1. g \in State /\ g.sdp \in Sdp /\ g.bt \in Stack /\ Tidy(g) /\ g.dev \in [Idx -> Device]
  BY StateFields DEF Sound, Tidy
<1>2. PICK i : i = g.sdp.device
  OBVIOUS
<1>3. PICK b : b = [g.bt EXCEPT !.query = NoQuery]
  OBVIOUS
<1>4. /\ b \in Stack /\ b.link = g.bt.link /\ b.chan = g.bt.chan /\ b.twice = g.bt.twice
      /\ b.names = g.bt.names /\ b.closing = g.bt.closing /\ b.left = g.bt.left
  <2>1. NoQuery \in Queries
    BY DEF Queries, NoQuery
  <2>2. b \in Stack
    BY ONLY <1>1, <1>3, <2>1, StackIs
  <2> QED
    BY <1>1, <1>3, <2>2 DEF Stack
<1>5. PICK h : h = [g EXCEPT !.bt = b]
  OBVIOUS
<1>6. /\ h \in State /\ h.bt = b /\ h.dev = g.dev /\ h.sdp = g.sdp /\ h.used = g.used
      /\ Tidy(h)
  <2>1. /\ h \in State /\ h.bt = b /\ h.dev = g.dev /\ h.sdp = g.sdp /\ h.used = g.used
    BY <1>1, <1>4, <1>5 DEF State
  <2> QED
    BY <1>1, <2>1, TableKept
<1>7. Sound(h)
  <2>1. \A a \in Addrs : AddrInv(h.bt, a)
    BY <1>4, <1>6, ZenonT(40) DEF Sound, AddrInv
  <2>2. ASSUME NEW j \in Idx
        PROVE  At(h, j)
    <3>1. PICK d : d = g.dev[j]
      OBVIOUS
    <3>2. LifeAt(d, g.bt) => LifeAt(d, b)
      BY <1>4 DEF LifeAt, Asked
    <3>3. Budget(d, g.bt, g.sdp, j, 2) => Budget(d, b, g.sdp, j, 2)
      BY <1>4 DEF Budget, Uses, Asked
    <3> QED
      BY <1>6, <3>1, <3>2, <3>3 DEF Sound, At
  <2> QED
    BY <1>6, <2>1, <2>2 DEF Sound
<1>8. h = [g EXCEPT !.bt.query = NoQuery]
  BY <1>1, <1>3, <1>5, StateFields
<1>9. CASE i = NoDevice
  BY <1>2, <1>7, <1>8, <1>9 DEF QueryComplete
<1>10. CASE i # NoDevice
  <2>1. i \in Idx
    BY <1>1, <1>2, <1>10 DEF Sdp
  <2>2. h.dev \in [Idx -> Device] /\ h.dev[i] \in Device /\ h.sdp.device = i
    BY <1>1, <1>2, <1>6, <2>1
  <2>3. But(h, i) /\ Live(h, i)
    BY <1>7, <2>1, SoundBut DEF At, Live
  <2>4. PICK t : t = IF h.dev[i].type = None THEN type ELSE h.dev[i].type
    OBVIOUS
  <2>5. t \in Types \cup {None}
    BY <2>2, <2>4, Zenon DEF Device
  <2>6. PICK e : e = [h.dev EXCEPT ![i].state = "VENDOR_FETCHED", ![i].type = t]
    OBVIOUS
  <2>7. /\ e \in [Idx -> Device] /\ \A j \in Idx : j # i => e[j] = h.dev[j]
        /\ Alike(h.dev[i], e[i]) /\ e[i].state = "VENDOR_FETCHED"
    <3>1. e \in [Idx -> Device] /\ \A j \in Idx : j # i => e[j] = h.dev[j]
      <4>1. PICK x : x = [h.dev[i] EXCEPT !.state = "VENDOR_FETCHED", !.type = t]
        OBVIOUS
      <4>2. x \in Device
        <5>1. h.dev[i] \in Device /\ "VENDOR_FETCHED" \in States
          BY ONLY <2>2 DEF States
        <5> QED
          BY ONLY <2>5, <4>1, <5>1, Zenon DEF Device
      <4>3. e = [h.dev EXCEPT ![i] = x]
        BY ONLY <2>1, <2>2, <2>6, <4>1
      <4> QED
        BY ONLY <2>1, <2>2, <4>2, <4>3
    <3>2. Alike(h.dev[i], e[i]) /\ e[i].state = "VENDOR_FETCHED"
      BY ONLY <2>1, <2>2, <2>6, Zenon DEF Device, Alike
    <3> QED
      BY <3>1, <3>2
  <2>8. PICK f : f = [h EXCEPT !.dev = e]
    OBVIOUS
  <2>9. Turned(h, f, i, e)
    BY ONLY <2>1, <2>3, <2>7, <2>8, AlikeTurned
  <2>10. But(f, i) /\ Live(f, i) /\ f.dev[i].state = "VENDOR_FETCHED" /\ f.sdp.device = i
    BY <2>2, <2>3, <2>7, <2>9 DEF Turned
  <2>11. Ripe(f, i)
    BY <2>10 DEF Ripe
  <2>12. f = [h EXCEPT !.dev[i].state = "VENDOR_FETCHED",
                       !.dev[i].type = IF @ = None THEN type ELSE @]
    BY <1>6, <2>1, <2>2, <2>4, <2>6, <2>8, StateFields
  <2>13. Sound(Fsm(f, i)) /\ Sound(SdpEnd(h, i))
    BY <2>1, <2>2, <2>3, <2>10, <2>11, FsmSound, SdpEndSound
  <2>14. QueryComplete(g, type) = IF g.bt.query.kind = "pid" THEN Fsm(f, i) ELSE SdpEnd(h, i)
    BY ONLY <1>2, <1>8, <1>10, <2>12 DEF QueryComplete
  <2> QED
    BY <2>13, <2>14
<1> QED
  BY <1>9, <1>10

\* The device a has got a new place of the table, and nothing else has changed.
Created(g, r, a) ==
  LET i == PlaceOf(r, a) IN
  /\ i \in Idx /\ But(r, i) /\ r \in State
  /\ r.dev[i] = [Empty EXCEPT !.addr = a, !.connTimer = TRUE]
  /\ \A j \in Idx : j # i => r.dev[j] = g.dev[j]
  /\ Places(r.dev, a) # {}
  /\ r.bt = g.bt /\ r.sdp = g.sdp /\ r.used = g.used /\ r.asserted = g.asserted

\* uni_hid_device_create(): the place is free, and the device is not in the table.
LEMMA CreateIs ==
  ASSUME NEW g, Sound(g), NEW a \in Addrs, Free(g) # {}, Places(g.dev, a) = {},
         NEW r, r = Create(g, a)
  PROVE  Created(g, r, a)
<1>1. g \in State /\ TableInv(g) /\ g.dev \in [Idx -> Device] /\ Tidy(g)
  BY StateFields DEF Sound, Tidy
<1>2. PICK i : i = CHOOSE q \in Free(g) : \A j \in Free(g) : q <= j
  OBVIOUS
<1>3. i \in Free(g)
  <2>1. Free(g) \subseteq Nat
    BY DEF Free, Idx
  <2>2. \E x \in Free(g) : \A y \in Free(g) : <<y, x>> \notin OpToRel(<, Nat)
    BY <2>1, WFMin, NatLessThanWellFounded, Zenon
  <2>3. ASSUME NEW x \in Free(g), NEW y \in Free(g), <<y, x>> \notin OpToRel(<, Nat)
        PROVE  x <= y
    BY <2>1, <2>3 DEF OpToRel
  <2>4. \E x \in Free(g) : \A y \in Free(g) : x <= y
    BY <2>2, <2>3, Zenon
  <2> QED
    BY <1>2, <2>4
<1>4. i \in Idx /\ g.dev[i].addr = None
  BY <1>3 DEF Free
<1>5. PICK d : d = [Empty EXCEPT !.addr = a, !.connTimer = TRUE]
  OBVIOUS
<1>6. d \in Device /\ d.addr = a /\ d.seat = "zero" /\ ~d.connected
  BY <1>5, Zenon DEF Empty, Device, States
<1>7. r = [g EXCEPT !.dev[i] = d]
  BY <1>2, <1>5 DEF Create
<1>8. /\ r \in State /\ r.dev = [g.dev EXCEPT ![i] = d] /\ r.used = g.used
      /\ r.bt = g.bt /\ r.sdp = g.sdp /\ r.asserted = g.asserted
  BY <1>1, <1>4, <1>6, <1>7 DEF State
<1>9. r.dev[i] = d /\ \A j \in Idx : j # i => r.dev[j] = g.dev[j]
  BY <1>1, <1>4, <1>8
<1>10. \A j \in Idx : PlaceInv(r.dev[j])
  BY <1>1, <1>6, <1>9, NoneAssumption DEF TableInv, PlaceInv
<1>11. \A j, k \in Idx : r.dev[j].addr = r.dev[k].addr /\ r.dev[j].addr # None => j = k
  <2>1. \A j \in Idx : j # i => r.dev[j].addr # a
    BY <1>9 DEF Places
  <2> QED
    BY <1>1, <1>6, <1>9, <2>1 DEF TableInv
<1>12. g.dev[i].seat # "seat"
  BY <1>1, <1>4 DEF TableInv, PlaceInv
<1>13. Seats(r) = Seats(g)
  BY <1>6, <1>9, <1>12 DEF Seats
<1>14. Tidy(r)
  BY <1>1, <1>8, <1>10, <1>11, <1>13 DEF Tidy, TableInv
<1>15. But(r, i)
  <2>1. But(g, i)
    BY <1>4, SoundBut
  <2>2. /\ Elsewhere(g.bt, r.bt, g.dev[i].addr) /\ r.sdp.device = g.sdp.device
        /\ (g.dev[i].addr \in Addrs => AddrInv(r.bt, g.dev[i].addr))
    BY <1>8, <2>1, SameIsElsewhere DEF But
  <2> QED
    BY ONLY <1>4, <1>9, <1>14, <2>1, <2>2, ButKept
<1>16. Places(r.dev, a) = {i}
  BY <1>4, <1>6, <1>9 DEF Places
<1>17. PlaceOf(r, a) = i
  BY <1>16 DEF PlaceOf
<1> QED
  BY <1>4, <1>5, <1>8, <1>9, <1>15, <1>16, <1>17 DEF Created

\* The new place may be worked on while the device has no link.
LEMMA CreatedIs ==
  ASSUME NEW a \in Addrs, NEW d, d = [Empty EXCEPT !.addr = a, !.connTimer = TRUE]
  PROVE  /\ d \in Device /\ d.addr = a /\ d.connTimer /\ ~d.connected /\ ~d.handle
         /\ d.state = "NONE" /\ d.name = None /\ d.query = "after" /\ ~d.incoming
         /\ ~d.nameTimer /\ d.cid = {} /\ d.seat = "zero"
BY Zenon DEF Empty, Device, States

\* uni_hid_device_connect(), for a device that has no seat yet.
LEMMA ConnectIs ==
  ASSUME NEW g, NEW i \in Idx, But(g, i), g.dev[i].addr # None, g.dev[i].seat # "seat",
         NEW r, r = Connect(g, i)
  PROVE  But(r, i) /\ r.bt = g.bt /\ r.sdp = g.sdp
<1>1. g \in State /\ g.dev \in [Idx -> Device] /\ g.dev[i] \in Device /\ Tidy(g)
  BY StateFields DEF But, Tidy
<1>2. PICK e : e = [g.dev EXCEPT ![i].connected = TRUE, ![i].seat = None]
  OBVIOUS
<1>3. /\ e \in [Idx -> Device] /\ \A j \in Idx : j # i => e[j] = g.dev[j]
      /\ e[i].addr = g.dev[i].addr /\ e[i].connected /\ e[i].seat = None
  BY <1>1, <1>2, Zenon DEF Device
<1>4. r = [g EXCEPT !.dev = e]
  BY <1>1, <1>2, StateFields, Zenon DEF Connect
<1>5. r \in State /\ r.used = g.used /\ r.dev = e /\ r.bt = g.bt /\ r.sdp = g.sdp
  BY <1>1, <1>3, <1>4 DEF State
<1>6. PlaceInv(r.dev[i]) /\ r.dev[i].seat # "seat"
  BY <1>3, <1>5 DEF PlaceInv, None
<1>7. Tidy(r)
  <2>1. /\ \A j \in Idx : j # i => r.dev[j] = g.dev[j]
        /\ r.dev[i].addr \in {None, g.dev[i].addr}
        /\ r.used = g.used /\ (r.dev[i].seat = "seat" <=> g.dev[i].seat = "seat")
    BY <1>3, <1>5, <1>6
  <2> QED
    BY ONLY <1>1, <1>5, <1>6, <2>1, i \in Idx, Altered
<1>8. But(r, i)
  <2>1. /\ Elsewhere(g.bt, r.bt, g.dev[i].addr) /\ r.sdp.device = g.sdp.device
        /\ (g.dev[i].addr \in Addrs => AddrInv(r.bt, g.dev[i].addr))
        /\ \A j \in Idx : j # i => r.dev[j] = g.dev[j]
    BY <1>3, <1>5, SameIsElsewhere DEF But
  <2> QED
    BY ONLY <1>7, <2>1, But(g, i), i \in Idx, ButKept
<1> QED
  BY <1>5, <1>8

-----------------------------------------------------------------------------
(* The steps.                                                              *)

\* The next state is right when the record it becomes is.
LEMMA BecomesSound ==
  ASSUME NEW r, Becomes(r), Sound(r)
  PROVE  DevicesInv'
<1>1. r = [dev |-> r.dev, sdp |-> r.sdp, used |-> r.used, asserted |-> r.asserted, bt |-> r.bt]
  BY StateFields DEF Sound, Tidy
<1>2. r = g0'
  BY <1>1 DEF Becomes, g0
<1> QED
  BY <1>2 DEF DevicesInv

\* The parts of the state.
LEMMA Parts ==
  ASSUME DevicesInv
  PROVE  /\ Sound(g0) /\ Tidy(g0) /\ g0 \in State
         /\ g0.dev = dev /\ g0.sdp = sdp /\ g0.used = used
         /\ g0.asserted = asserted /\ g0.bt = bt
         /\ dev \in [Idx -> Device] /\ sdp \in Sdp /\ bt \in Stack
         /\ asserted \in BOOLEAN
<1>1. Sound(g0) /\ g0 \in State
  BY DEF DevicesInv, Sound, Tidy
<1> QED
  BY <1>1, StateFields DEF Sound, g0

\* A place as between handlers is one the state machine may work on.
LEMMA SettledRipe ==
  ASSUME NEW g, NEW i, At(g, i), g.dev[i].addr # None
  PROVE  Ripe(g, i)
BY DEF At, Ripe, Live, SettledAt

\* The place of a device that has no link, and that nothing was done about.
LEMMA FreshLife ==
  ASSUME NEW a \in Addrs, NEW b \in Stack, AddrInv(b, a), b.link[a] = None,
         NEW d, d.addr = a, ~d.connected, d.state # "READY", d.connTimer, d.query = "after",
         ~d.nameTimer, NEW s, NEW i
  PROVE  LifeAt(d, b) /\ Budget(d, b, s, i, 1) /\ Budget(d, b, s, i, 2)
<1>1. \A k \in Psms : b.chan[a][k] = None /\ <<a, k>> \notin b.twice
  BY DEF AddrInv
<1>2. b.chan[a]["control"] = None /\ b.chan[a]["interrupt"] = None /\ Asked(b, a) = 0
  BY <1>1 DEF Psms, Asked
<1>3. LifeAt(d, b)
  BY <1>2 DEF LifeAt, Up, None
<1>4. PICK n \in {0, 1} : n = IF d.addr \in b.names THEN 1 ELSE 0
  OBVIOUS
<1>5. Uses(d, b, s, i) = n
  BY <1>2, <1>4 DEF Uses
<1> QED
  BY <1>3, <1>5 DEF Budget

\* btstack does the same about every device.
LEMMA SameSound ==
  ASSUME NEW g, Sound(g), NEW b \in Stack, \A x \in Addrs : Same(g.bt, b, x),
         NEW h, h = [g EXCEPT !.bt = b]
  PROVE  /\ Sound(h) /\ h \in State /\ h.bt = b /\ h.dev = g.dev /\ h.sdp = g.sdp
         /\ h.used = g.used /\ h.asserted = g.asserted
<1>1. g \in State /\ Tidy(g) /\ g.dev \in [Idx -> Device]
  BY StateFields DEF Sound, Tidy
<1>2. /\ h \in State /\ h.bt = b /\ h.dev = g.dev /\ h.sdp = g.sdp
      /\ h.used = g.used /\ h.asserted = g.asserted
  BY <1>1 DEF State
<1>3. Tidy(h)
  BY <1>1, <1>2, TableKept
<1>4. \A x \in Addrs : AddrInv(b, x)
  <2>1. ASSUME NEW x \in Addrs
        PROVE  AddrInv(b, x)
    <3>1. AddrInv(g.bt, x) /\ Same(g.bt, b, x)
      BY DEF Sound
    <3> QED
      BY ONLY <3>1, x \in Addrs, SameAddr
  <2> QED
    BY <2>1
<1>5. ASSUME NEW i \in Idx
      PROVE  At(h, i)
  <2>1. PICK d : d = g.dev[i]
    OBVIOUS
  <2>2. CASE d.addr = None
    BY <1>2, <2>1, <2>2 DEF At
  <2>3. CASE d.addr # None
    <3>1. d.addr \in Addrs
      BY <1>1, <2>1, <2>3, Zenon DEF Device
    <3>2. Same(g.bt, b, d.addr)
      BY <3>1
    <3>3. LifeAt(d, g.bt) /\ SettledAt(d) /\ Budget(d, g.bt, g.sdp, i, 2)
      BY <2>1, <2>3 DEF Sound, At
    <3>4. LifeAt(d, b)
      BY ONLY <3>1, <3>2, <3>3, SameLife
    <3>5. Budget(d, b, g.sdp, i, 2)
      <4>1. 2 \in Nat /\ (g.sdp.device = i => g.sdp.device = i)
        OBVIOUS
      <4> QED
        BY ONLY <3>1, <3>2, <3>3, <4>1, SameBudget
    <3> QED
      BY <1>2, <2>1, <3>3, <3>4, <3>5 DEF At
  <2> QED
    BY <2>2, <2>3
<1> QED
  BY <1>2, <1>3, <1>4, <1>5 DEF Sound

\* The timer of the name stops.
LEMMA NameTimerOff ==
  ASSUME NEW g, Sound(g), NEW i \in Idx, NEW h, h = [g EXCEPT !.dev[i].nameTimer = FALSE]
  PROVE  Sound(h)
<1>1. g \in State /\ g.dev \in [Idx -> Device] /\ g.dev[i] \in Device
  BY StateFields DEF Sound, Tidy
<1>2. But(g, i) /\ At(g, i)
  BY SoundBut
<1>3. PICK d : d = [g.dev[i] EXCEPT !.nameTimer = FALSE]
  OBVIOUS
<1>4. /\ d \in Device /\ d.addr = g.dev[i].addr /\ d.connected = g.dev[i].connected
      /\ d.seat = g.dev[i].seat /\ d.connTimer = g.dev[i].connTimer
      /\ d.handle = g.dev[i].handle /\ d.cid = g.dev[i].cid /\ d.state = g.dev[i].state
      /\ d.query = g.dev[i].query /\ d.name = g.dev[i].name
      /\ d.incoming = g.dev[i].incoming /\ d.nameTimer = FALSE
  BY ONLY <1>1, <1>3, Zenon DEF Device
<1>5. PICK e : e = [g.dev EXCEPT ![i] = d]
  OBVIOUS
<1>6. e \in [Idx -> Device] /\ (\A j \in Idx : j # i => e[j] = g.dev[j]) /\ e[i] = d
  BY ONLY <1>1, <1>4, <1>5, i \in Idx
<1>7. h = [g EXCEPT !.dev = e]
  BY <1>1, <1>3, <1>5, StateFields
<1>8. But(h, i) /\ h.dev = e /\ h.bt = g.bt /\ h.sdp = g.sdp
  <2>1. /\ e[i].addr = g.dev[i].addr /\ e[i].connected = g.dev[i].connected
        /\ e[i].seat = g.dev[i].seat /\ (e[i].connTimer => g.dev[i].connTimer)
    BY <1>4, <1>6
  <2> QED
    BY ONLY <1>2, <1>6, <1>7, <2>1, i \in Idx, ButPlace
<1>9. ASSUME g.dev[i].addr # None
      PROVE  LifeAt(d, g.bt) /\ SettledAt(d) /\ Budget(d, g.bt, g.sdp, i, 2)
  <2>1. PICK c : c = g.dev[i]
    OBVIOUS
  <2>2. LifeAt(c, g.bt) /\ SettledAt(c) /\ Budget(c, g.bt, g.sdp, i, 2)
    BY <1>2, <1>9, <2>1 DEF At
  <2>3. LifeAt(d, g.bt) /\ SettledAt(d)
    BY ONLY <1>4, <2>1, <2>2 DEF LifeAt, SettledAt
  <2>4. Budget(d, g.bt, g.sdp, i, 2)
    <3>1. PICK n \in {0, 1} : n = IF c.nameTimer THEN 1 ELSE 0
      OBVIOUS
    <3>2. PICK m \in {0, 1} : m = IF c.addr \in g.bt.names THEN 1 ELSE 0
      OBVIOUS
    <3>3. PICK k \in {0, 1} : k = IF g.sdp.device = i /\ c.query = "before" THEN 1 ELSE 0
      OBVIOUS
    <3>4. PICK q \in Nat : q = Asked(g.bt, c.addr)
      BY DEF Asked
    <3>5. Uses(c, g.bt, g.sdp, i) = q + n + m + k /\ Uses(d, g.bt, g.sdp, i) = q + 0 + m + k
      BY ONLY <1>4, <2>1, <3>1, <3>2, <3>3, <3>4 DEF Uses
    <3>6. Uses(d, g.bt, g.sdp, i) <= Uses(c, g.bt, g.sdp, i)
      BY ONLY <3>5, q \in Nat, n \in {0, 1}, m \in {0, 1}, k \in {0, 1}
    <3>7. Uses(d, g.bt, g.sdp, i) \in Nat /\ Uses(c, g.bt, g.sdp, i) \in Nat
      BY ONLY <3>5, q \in Nat, n \in {0, 1}, m \in {0, 1}, k \in {0, 1}
    <3> QED
      BY ONLY <1>4, <2>1, <2>2, <3>6, <3>7 DEF Budget
  <2> QED
    BY <2>3, <2>4
<1>10. At(h, i)
  BY <1>4, <1>6, <1>8, <1>9 DEF At
<1> QED
  BY <1>8, <1>10, SoundBut

\* A state with other places and another state of btstack.
With(g, e, b) ==
  [dev |-> e, sdp |-> g.sdp, used |-> g.used, asserted |-> g.asserted, bt |-> b]

\* A handler changes the place of a device and what btstack does about it.
LEMMA ButWith ==
  ASSUME NEW g, NEW i \in Idx, But(g, i), NEW e \in [Idx -> Device], NEW b \in Stack,
         \A j \in Idx : j # i => e[j] = g.dev[j],
         e[i].addr = g.dev[i].addr, e[i].connected = g.dev[i].connected,
         e[i].seat = g.dev[i].seat, e[i].connTimer => g.dev[i].connTimer,
         Elsewhere(g.bt, b, g.dev[i].addr),
         g.dev[i].addr \in Addrs => AddrInv(b, g.dev[i].addr),
         NEW h, h = With(g, e, b)
  PROVE  But(h, i) /\ h \in State /\ h.dev = e /\ h.bt = b /\ h.sdp = g.sdp
<1>1. Tidy(g) /\ g \in State
  BY DEF But, Tidy
<1>2. h \in State /\ h.dev = e /\ h.bt = b /\ h.sdp = g.sdp /\ h.used = g.used
  BY <1>1 DEF With, State
<1>3. /\ \A j \in Idx : j # i => h.dev[j] = g.dev[j]
      /\ h.dev[i].addr = g.dev[i].addr /\ h.dev[i].connected = g.dev[i].connected
      /\ h.dev[i].seat = g.dev[i].seat /\ (h.dev[i].connTimer => g.dev[i].connTimer)
  BY <1>2
<1>4. Tidy(h)
  BY ONLY <1>1, <1>2, <1>3, i \in Idx, StepKeeps
<1>5. /\ Elsewhere(g.bt, h.bt, g.dev[i].addr) /\ h.sdp.device \in {g.sdp.device, i, NoDevice}
      /\ (g.dev[i].addr \in Addrs => AddrInv(h.bt, g.dev[i].addr))
  BY <1>2
<1>6. But(h, i)
  BY ONLY <1>3, <1>4, <1>5, But(g, i), i \in Idx, ButKept
<1> QED
  BY <1>2, <1>6

\* uni_bt_bredr_on_gap_inquiry_result(): a device that is known gets no second
\* place, and nothing has been asked of one that is not.
LEMMA InquiryKeeps ==
  ASSUME DevicesInv, NEW a \in Addrs, NEW name \in {None, "real"}, Inquiry(a, name)
  PROVE  DevicesInv'
<1>1. PICK g : g = g0
  OBVIOUS
<1>2. Sound(g) /\ g.dev = dev /\ g.bt = bt /\ bt \in Stack
  BY <1>1, Parts
<1>3. CASE Known(a)
  <2>1. PICK i : i = PlaceOf(g, a)
    OBVIOUS
  <2>2. i \in Idx /\ g.dev[i].addr = a
    BY <1>2, <1>3, <2>1, PlaceOfFits DEF Known
  <2>3. Becomes(Fsm(g, i))
    BY ONLY <1>1, <1>3, <2>1, Inquiry(a, name) DEF Inquiry
  <2>4. But(g, i) /\ Ripe(g, i)
    BY <1>2, <2>2, NoneAssumption, SoundBut, SettledRipe
  <2> QED
    BY <2>2, <2>3, <2>4, FsmSound, BecomesSound
<1>4. CASE ~Known(a)
  <2>17. PICK b : b = bt
    OBVIOUS
  <2>1. Free(g) # {} /\ b.link[a] = None /\ b \in Stack /\ g.bt = b
    BY <1>1, <1>2, <1>4, <2>17 DEF Inquiry
  <2>2. PICK c : c = Create(g, a)
    OBVIOUS
  <2>3. Created(g, c, a)
    BY <1>2, <1>4, <2>1, <2>2, CreateIs DEF Known
  <2>4. PICK i : i = PlaceOf(c, a)
    OBVIOUS
  <2>5. /\ i \in Idx /\ But(c, i) /\ c \in State /\ c.bt = b
        /\ c.dev[i] = [Empty EXCEPT !.addr = a, !.connTimer = TRUE]
    BY <2>1, <2>3, <2>4 DEF Created
  <2>6. PICK s : s = IF name = None THEN "DISCOVERED" ELSE "NAME_FETCHED"
    OBVIOUS
  <2>7. PICK d : d = [c.dev[i] EXCEPT !.name = name, !.state = s]
    OBVIOUS
  <2>8. /\ c.dev[i] \in Device /\ c.dev[i].addr = a /\ c.dev[i].connTimer
        /\ ~c.dev[i].connected /\ c.dev[i].query = "after" /\ ~c.dev[i].nameTimer
    BY ONLY <2>5, a \in Addrs, CreatedIs, ZenonT(40)
  <2>9. /\ d \in Device /\ d.addr = c.dev[i].addr /\ d.connTimer = c.dev[i].connTimer
        /\ d.connected = c.dev[i].connected /\ d.query = c.dev[i].query
        /\ d.nameTimer = c.dev[i].nameTimer /\ d.seat = c.dev[i].seat
        /\ d.name = name /\ d.state = s
    BY ONLY <2>6, <2>7, <2>8, name \in {None, "real"}, ZenonT(40) DEF Device, States
  <2>15. PICK e : e = [c.dev EXCEPT ![i] = d]
    OBVIOUS
  <2>10. PICK h : h = With(c, e, b)
    OBVIOUS
  <2>11. But(h, i) /\ h \in State /\ h.dev[i] = d /\ h.bt = b
    <3>1. Elsewhere(c.bt, b, c.dev[i].addr) /\ (c.dev[i].addr \in Addrs => AddrInv(b, c.dev[i].addr))
      BY <2>5, SameIsElsewhere DEF But
    <3>2. e \in [Idx -> Device] /\ (\A j \in Idx : j # i => e[j] = c.dev[j]) /\ e[i] = d
      <4>1. c.dev \in [Idx -> Device] /\ i \in Idx
        BY <2>5, StateFields
      <4> QED
        BY ONLY <2>9, <2>15, <4>1
    <3>3. /\ e[i].addr = c.dev[i].addr /\ e[i].connected = c.dev[i].connected
          /\ e[i].seat = c.dev[i].seat /\ (e[i].connTimer => c.dev[i].connTimer)
      BY <2>9, <3>2
    <3>4. i \in Idx /\ But(c, i) /\ b \in Stack
      BY <2>1, <2>5
    <3>5. But(h, i) /\ h \in State /\ h.dev = e /\ h.bt = b
      BY ONLY <2>10, <3>1, <3>2, <3>3, <3>4, ButWith
    <3> QED
      BY <3>2, <3>5
  <2>12. Ripe(h, i)
    <3>1. AddrInv(b, a)
      BY <1>2, <2>1 DEF Sound
    <3>2. d.state # "READY"
      BY <2>6, <2>9
    <3>3. d.addr = a /\ ~d.connected /\ d.connTimer /\ d.query = "after" /\ ~d.nameTimer
      BY <2>8, <2>9
    <3>4. LifeAt(d, h.bt) /\ Budget(d, h.bt, h.sdp, i, 1) /\ Budget(d, h.bt, h.sdp, i, 2)
      BY ONLY <2>1, <2>11, <3>1, <3>2, <3>3, a \in Addrs, FreshLife
    <3>5. Live(h, i) /\ Spare(h, i)
      BY <2>11, <3>4 DEF Live, Spare
    <3> QED
      BY ONLY <2>6, <2>9, <2>11, <3>5 DEF Ripe
  <2>13. h = [c EXCEPT !.dev[i].name = name, !.dev[i].state = s]
    <3>1. c \in State /\ i \in Idx /\ c.bt = b
      BY <2>5
    <3>2. PICK f : f = [c EXCEPT !.dev = e]
      OBVIOUS
    <3>3. f = [c EXCEPT !.dev[i].name = name, !.dev[i].state = s]
      BY ONLY <2>7, <2>15, <3>1, <3>2, StateFields
    <3>4. f = With(c, e, c.bt)
      BY ONLY <3>1, <3>2, StateFields DEF With
    <3> QED
      BY <2>10, <3>1, <3>3, <3>4
  <2>14. Becomes(Fsm(h, i))
    BY ONLY <1>1, <1>4, <2>2, <2>4, <2>6, <2>13, Inquiry(a, name) DEF Inquiry
  <2> QED
    BY <2>5, <2>11, <2>12, <2>14, FsmSound, BecomesSound
<1> QED
  BY <1>3, <1>4

\* Nothing but the state of a link changes.
Relinked(b, c, a, l) ==
  /\ c \in Stack /\ c.link[a] = l /\ c.chan = b.chan /\ c.twice = b.twice
  /\ c.names = b.names /\ c.closing = b.closing /\ c.left = b.left
  /\ \A x \in Addrs : x # a => c.link[x] = b.link[x]

\* A link comes about that is not one that closes.
LEMMA LinkSet ==
  ASSUME NEW b, \A x \in Addrs : AddrInv(b, x), NEW a \in Addrs, b.closing # a,
         NEW l, l # None, l # "closing", NEW c, Relinked(b, c, a, l)
  PROVE  Elsewhere(b, c, a) /\ \A x \in Addrs : AddrInv(c, x)
<1>2. /\ c.link[a] = l /\ c.chan = b.chan /\ c.twice = b.twice /\ c.names = b.names
      /\ c.closing = b.closing /\ c.left = b.left
      /\ \A x \in Addrs : x # a => c.link[x] = b.link[x]
  BY DEF Relinked
<1>3. Elsewhere(b, c, a)
  BY <1>2 DEF Elsewhere, Same
<1>4. AddrInv(c, a)
  <2>1. AddrInv(b, a)
    OBVIOUS
  <2>2. l # None /\ l # "closing"
    OBVIOUS
  <2> QED
    BY ONLY <1>2, <2>1, <2>2, b.closing # a DEF AddrInv
<1>5. ASSUME NEW x \in Addrs
      PROVE  AddrInv(c, x)
  <2>1. CASE x = a
    BY <1>4, <2>1
  <2>2. CASE x # a
    <3>1. AddrInv(b, x) /\ Same(b, c, x)
      BY <1>3, <2>2 DEF Elsewhere
    <3> QED
      BY ONLY <3>1, x \in Addrs, SameAddr
  <2> QED
    BY <2>1, <2>2
<1> QED
  BY <1>3, <1>5

\* uni_bt_bredr_on_hci_connection_request(): a device that calls has not asked
\* for anything, and is asked for nothing.
LEMMA ConnectionRequestKeeps ==
  ASSUME DevicesInv, NEW a \in Addrs, ConnectionRequest(a)
  PROVE  DevicesInv'
<1>1. PICK g : g = g0
  OBVIOUS
<1>2. Sound(g) /\ g.dev = dev /\ g.bt = bt /\ bt \in Stack
  BY <1>1, Parts
<1>3. PICK p : p = IF Known(a) \/ Free(g) = {} THEN g ELSE Create(g, a)
  OBVIOUS
<1>4. PICK i : i = PlaceOf(p, a)
  OBVIOUS
<1>5. PICK h : h = IF Places(p.dev, a) = {} THEN p ELSE [p EXCEPT !.dev[i].incoming = TRUE]
  OBVIOUS
<1>6. PICK r : r = [h EXCEPT !.bt.link[a] = "paged"]
  OBVIOUS
<1>7. Becomes(r)
  BY ONLY <1>1, <1>3, <1>4, <1>5, <1>6, ConnectionRequest(a) DEF ConnectionRequest
<1>8. PICK b : b = [g.bt EXCEPT !.link[a] = "paged"]
  OBVIOUS
<1>9. g.bt.link[a] = None /\ g.bt.closing # a /\ g.bt \in Stack /\ \A x \in Addrs : AddrInv(g.bt, x)
  BY <1>2, NoneAssumption DEF ConnectionRequest, Quiet, Sound
<1>10. /\ b \in Stack /\ Elsewhere(g.bt, b, a) /\ \A x \in Addrs : AddrInv(b, x)
       /\ b.link[a] = "paged" /\ b.chan = g.bt.chan /\ b.twice = g.bt.twice
       /\ b.names = g.bt.names
  <2>1. "paged" \in Links /\ "paged" # None /\ "paged" # "closing"
    BY DEF Links, None
  <2>2. b \in Stack
    BY ONLY <1>8, <1>9, <2>1, a \in Addrs, StackIs
  <2>3. Relinked(g.bt, b, a, "paged")
    BY ONLY <1>8, <1>9, <2>2, a \in Addrs DEF Stack, Relinked
  <2> QED
    BY ONLY <1>9, <2>1, <2>2, <2>3, a \in Addrs, LinkSet DEF Relinked
<1>11. CASE Places(p.dev, a) = {}
  <2>1. p = g
    <3>1. CASE Known(a) \/ Free(g) = {}
      BY <1>3, <3>1
    <3>2. CASE ~Known(a) /\ Free(g) # {}
      <4>1. Created(g, p, a)
        BY <1>2, <1>3, <3>2, CreateIs DEF Known
      <4> QED
        BY <1>11, <4>1 DEF Created
    <3> QED
      BY <3>1, <3>2
  <2>2. r = [g EXCEPT !.bt = b]
    <3>1. g \in State /\ h = g
      BY <1>2, <1>5, <1>11, <2>1 DEF Sound, Tidy
    <3> QED
      BY ONLY <1>6, <1>8, <3>1, StateFields
  <2>3. Tidy(g) /\ (\A j \in Idx : At(g, j)) /\ \A x \in Addrs : AddrInv(b, x)
    BY <1>2, <1>10 DEF Sound
  <2>4. (\A j \in Idx : g.dev[j].addr = a => At(r, j)) => Sound(r)
    BY ONLY <1>10, <2>2, <2>3, a \in Addrs, StackSound
  <2>5. \A j \in Idx : g.dev[j].addr # a
    BY <1>11, <2>1 DEF Places
  <2> QED
    BY <1>7, <2>4, <2>5, BecomesSound
<1>12. CASE Places(p.dev, a) # {}
  <2>1. /\ i \in Idx /\ But(p, i) /\ p \in State /\ p.bt = g.bt /\ p.dev[i].addr = a
        /\ LifeAt(p.dev[i], g.bt) /\ SettledAt(p.dev[i])
    <3>1. i \in Idx /\ p.dev[i].addr = a /\ a # None
      BY <1>4, <1>12, PlaceOfFits, NoneAssumption
    <3>2. CASE p = g
      BY <1>2, <3>1, <3>2, SoundBut DEF At, Sound, Tidy
    <3>3. CASE ~Known(a) /\ Free(g) # {}
      <4>1. Created(g, p, a)
        BY <1>2, <1>3, <3>3, CreateIs DEF Known
      <4>2. PICK d : d = p.dev[i]
        OBVIOUS
      <4>3. d = [Empty EXCEPT !.addr = a, !.connTimer = TRUE]
        BY <1>4, <4>1, <4>2 DEF Created
      <4>4. /\ d.addr = a /\ d.connTimer /\ ~d.connected /\ d.state = "NONE"
            /\ d.query = "after" /\ ~d.nameTimer
        BY ONLY <4>3, a \in Addrs, CreatedIs, Zenon
      <4>5. d.state # "READY" /\ AddrInv(g.bt, a)
        BY <1>9, <4>4
      <4>6. LifeAt(d, g.bt)
        BY ONLY <1>9, <4>4, <4>5, a \in Addrs, FreshLife
      <4>7. SettledAt(d)
        BY ONLY <4>4 DEF SettledAt
      <4> QED
        BY <1>4, <3>1, <4>1, <4>2, <4>6, <4>7 DEF Created
    <3> QED
      BY <1>3, <3>2, <3>3
  <2>2. p.dev \in [Idx -> Device] /\ p.dev[i] \in Device
    BY <2>1, StateFields
  <2>3. PICK d : d = [p.dev[i] EXCEPT !.incoming = TRUE]
    OBVIOUS
  <2>4. /\ d \in Device /\ d.addr = a /\ d.connected = p.dev[i].connected
        /\ d.seat = p.dev[i].seat /\ d.connTimer = p.dev[i].connTimer
        /\ d.handle = p.dev[i].handle /\ d.cid = p.dev[i].cid /\ d.state = p.dev[i].state
        /\ d.query = p.dev[i].query /\ d.name = p.dev[i].name /\ d.incoming
    BY ONLY <2>1, <2>2, <2>3, Zenon DEF Device
  <2>5. PICK e : e = [p.dev EXCEPT ![i] = d]
    OBVIOUS
  <2>6. e \in [Idx -> Device] /\ (\A j \in Idx : j # i => e[j] = p.dev[j]) /\ e[i] = d
    BY ONLY <2>1, <2>2, <2>4, <2>5
  <2>7. PICK f : f = With(p, e, b)
    OBVIOUS
  <2>8. But(f, i) /\ f.dev = e /\ f.bt = b
    <3>1. /\ Elsewhere(p.bt, b, p.dev[i].addr) /\ (p.dev[i].addr \in Addrs => AddrInv(b, p.dev[i].addr))
          /\ e[i].addr = p.dev[i].addr /\ e[i].connected = p.dev[i].connected
          /\ e[i].seat = p.dev[i].seat /\ (e[i].connTimer => p.dev[i].connTimer)
      BY <1>10, <2>1, <2>4, <2>6
    <3>2. i \in Idx /\ But(p, i) /\ b \in Stack
      BY <1>10, <2>1
    <3> QED
      BY ONLY <2>6, <2>7, <3>1, <3>2, ButWith
  <2>9. At(f, i)
    <3>1. PICK c : c = p.dev[i]
      OBVIOUS
    <3>2. LifeAt(c, g.bt) /\ SettledAt(c) /\ c.addr = a
      BY <2>1, <3>1
    <3>3. b.link[a] \notin Up
      BY <1>10 DEF Up
    <3>4. LifeAt(d, b)
      BY ONLY <1>10, <2>4, <3>1, <3>2, <3>3 DEF LifeAt
    <3>5. SettledAt(d)
      BY ONLY <2>4, <3>1, <3>2 DEF SettledAt
    <3>6. Budget(d, b, f.sdp, i, 2)
      BY <2>4 DEF Budget
    <3> QED
      BY <2>6, <2>8, <3>4, <3>5, <3>6 DEF At
  <2>10. r = f
    <3>1. h = [p EXCEPT !.dev = e] /\ p \in State /\ p.bt = g.bt
      BY ONLY <1>5, <1>12, <2>1, <2>2, <2>3, <2>5, StateFields
    <3>2. h = With(p, e, p.bt)
      BY ONLY <3>1, StateFields DEF With
    <3>3. h.bt = g.bt
      BY ONLY <3>1, <3>2 DEF With
    <3>4. r = [h EXCEPT !.bt = b]
      BY ONLY <1>6, <1>8, <3>3
    <3> QED
      BY ONLY <2>7, <3>2, <3>4 DEF With
  <2> QED
    BY <1>7, <2>1, <2>8, <2>9, <2>10, SoundBut, BecomesSound
<1> QED
  BY <1>11, <1>12

\* uni_bt_bredr_on_hci_connection_complete()
LEMMA ConnectionCompleteKeeps ==
  ASSUME DevicesInv, NEW a \in Addrs, ConnectionComplete(a)
  PROVE  DevicesInv'
<1>1. PICK g : g = g0
  OBVIOUS
<1>2. Sound(g) /\ g \in State /\ g.dev = dev /\ g.bt = bt /\ bt \in Stack
  BY <1>1, Parts
<1>3. PICK i : i = PlaceOf(g, a)
  OBVIOUS
<1>4. PICK h : h = IF Known(a) THEN [g EXCEPT !.dev[i].handle = TRUE] ELSE g
  OBVIOUS
<1>5. PICK l : l = IF h.bt.link[a] = "paging" THEN "ours" ELSE "theirs"
  OBVIOUS
<1>6. PICK r : r = [h EXCEPT !.bt.link[a] = l]
  OBVIOUS
<1>7. Becomes(r)
  BY ONLY <1>1, <1>3, <1>4, <1>5, <1>6, ConnectionComplete(a) DEF ConnectionComplete
<1>8. PICK b : b = [g.bt EXCEPT !.link[a] = l]
  OBVIOUS
<1>9. g.bt.closing # a /\ g.bt \in Stack /\ \A x \in Addrs : AddrInv(g.bt, x)
  BY <1>2, NoneAssumption DEF ConnectionComplete, Quiet, Sound
<1>10. /\ b \in Stack /\ Elsewhere(g.bt, b, a) /\ \A x \in Addrs : AddrInv(b, x)
       /\ b.chan = g.bt.chan /\ b.twice = g.bt.twice /\ b.names = g.bt.names
  <2>1. l \in Links /\ l # None /\ l # "closing"
    BY <1>5 DEF Links, None
  <2>2. b \in Stack
    BY ONLY <1>8, <1>9, <2>1, a \in Addrs, StackIs
  <2>3. Relinked(g.bt, b, a, l)
    BY ONLY <1>8, <1>9, <2>2, a \in Addrs DEF Stack, Relinked
  <2> QED
    BY ONLY <1>9, <2>1, <2>2, <2>3, a \in Addrs, LinkSet DEF Relinked
<1>11. CASE ~Known(a)
  <2>1. r = [g EXCEPT !.bt = b]
    <3>1. h = g
      BY <1>4, <1>11
    <3> QED
      BY ONLY <1>2, <1>6, <1>8, <3>1, StateFields
  <2>2. Tidy(g) /\ (\A j \in Idx : At(g, j)) /\ \A x \in Addrs : AddrInv(b, x)
    BY <1>2, <1>10 DEF Sound
  <2>3. (\A j \in Idx : g.dev[j].addr = a => At(r, j)) => Sound(r)
    BY ONLY <1>10, <2>1, <2>2, a \in Addrs, StackSound
  <2>4. \A j \in Idx : g.dev[j].addr # a
    BY <1>2, <1>11 DEF Known, Places
  <2> QED
    BY <1>7, <2>3, <2>4, BecomesSound
<1>12. CASE Known(a)
  <2>1. i \in Idx /\ g.dev[i].addr = a /\ a # None /\ But(g, i) /\ At(g, i)
    BY <1>2, <1>3, <1>12, PlaceOfFits, NoneAssumption, SoundBut DEF Known
  <2>2. g.dev \in [Idx -> Device] /\ g.dev[i] \in Device
    BY <1>2, <2>1, StateFields
  <2>3. PICK d : d = [g.dev[i] EXCEPT !.handle = TRUE]
    OBVIOUS
  <2>4. /\ d \in Device /\ d.addr = a /\ d.connected = g.dev[i].connected
        /\ d.seat = g.dev[i].seat /\ d.connTimer = g.dev[i].connTimer
        /\ d.handle /\ d.cid = g.dev[i].cid /\ d.state = g.dev[i].state
        /\ d.query = g.dev[i].query /\ d.name = g.dev[i].name
        /\ d.incoming = g.dev[i].incoming /\ d.nameTimer = g.dev[i].nameTimer
    BY ONLY <2>1, <2>2, <2>3, Zenon DEF Device
  <2>5. PICK e : e = [g.dev EXCEPT ![i] = d]
    OBVIOUS
  <2>6. e \in [Idx -> Device] /\ (\A j \in Idx : j # i => e[j] = g.dev[j]) /\ e[i] = d
    BY ONLY <2>1, <2>2, <2>4, <2>5
  <2>7. PICK f : f = With(g, e, b)
    OBVIOUS
  <2>8. But(f, i) /\ f.dev = e /\ f.bt = b /\ f.sdp = g.sdp
    <3>1. /\ Elsewhere(g.bt, b, g.dev[i].addr) /\ (g.dev[i].addr \in Addrs => AddrInv(b, g.dev[i].addr))
          /\ e[i].addr = g.dev[i].addr /\ e[i].connected = g.dev[i].connected
          /\ e[i].seat = g.dev[i].seat /\ (e[i].connTimer => g.dev[i].connTimer)
      BY <1>10, <2>1, <2>4, <2>6
    <3>2. i \in Idx /\ But(g, i) /\ b \in Stack
      BY <1>10, <2>1
    <3> QED
      BY ONLY <2>6, <2>7, <3>1, <3>2, ButWith
  <2>9. At(f, i)
    <3>1. PICK c : c = g.dev[i]
      OBVIOUS
    <3>2. LifeAt(c, g.bt) /\ SettledAt(c) /\ Budget(c, g.bt, g.sdp, i, 2) /\ c.addr = a
      BY <2>1, <3>1 DEF At
    <3>3. Asked(b, a) = Asked(g.bt, a)
      BY <1>10 DEF Asked
    <3>4. LifeAt(d, b)
      BY ONLY <1>10, <2>4, <3>1, <3>2, <3>3 DEF LifeAt
    <3>5. SettledAt(d)
      BY ONLY <2>4, <3>1, <3>2 DEF SettledAt
    <3>6. Budget(d, b, f.sdp, i, 2)
      <4>1. Uses(d, b, f.sdp, i) = Uses(c, g.bt, g.sdp, i)
        BY ONLY <1>10, <2>4, <2>8, <3>1, <3>2, <3>3 DEF Uses
      <4> QED
        BY ONLY <2>4, <3>1, <3>2, <4>1 DEF Budget
    <3> QED
      BY <2>6, <2>8, <3>4, <3>5, <3>6 DEF At
  <2>10. r = f
    <3>1. h = [g EXCEPT !.dev = e]
      BY ONLY <1>2, <1>4, <1>12, <2>1, <2>2, <2>3, <2>5, StateFields
    <3>2. h = With(g, e, g.bt)
      BY ONLY <1>2, <3>1, StateFields DEF With
    <3>3. h.bt = g.bt
      BY ONLY <3>2 DEF With
    <3>4. r = [h EXCEPT !.bt = b]
      BY ONLY <1>6, <1>8, <3>3
    <3> QED
      BY ONLY <2>7, <3>2, <3>4 DEF With
  <2> QED
    BY <1>7, <2>1, <2>8, <2>9, <2>10, SoundBut, BecomesSound
<1> QED
  BY <1>11, <1>12

\* Nothing but the channels of a device changes.
Rechanneled(b, c, a) ==
  /\ c \in Stack /\ c.link = b.link /\ c.twice = b.twice
  /\ c.names = b.names /\ c.closing = b.closing /\ c.left = b.left
  /\ \A x \in Addrs : x # a => c.chan[x] = b.chan[x]

\* The channels of a link that does not close change.
LEMMA ChannelsSet ==
  ASSUME NEW b, \A x \in Addrs : AddrInv(b, x), NEW a \in Addrs, b.closing # a,
         b.link[a] # None, NEW c, Rechanneled(b, c, a)
  PROVE  Elsewhere(b, c, a) /\ \A x \in Addrs : AddrInv(c, x)
<1>1. /\ c.link = b.link /\ c.twice = b.twice
      /\ c.names = b.names /\ c.closing = b.closing /\ c.left = b.left
      /\ \A x \in Addrs : x # a => c.chan[x] = b.chan[x]
  BY DEF Rechanneled
<1>2. Elsewhere(b, c, a)
  BY <1>1 DEF Elsewhere, Same
<1>3. AddrInv(c, a)
  <2>1. AddrInv(b, a)
    OBVIOUS
  <2> QED
    BY ONLY <1>1, <2>1, b.closing # a, b.link[a] # None DEF AddrInv
<1>4. ASSUME NEW x \in Addrs
      PROVE  AddrInv(c, x)
  <2>1. CASE x = a
    BY <1>3, <2>1
  <2>2. CASE x # a
    <3>1. AddrInv(b, x) /\ Same(b, c, x)
      BY <1>2, <2>2 DEF Elsewhere
    <3> QED
      BY ONLY <3>1, x \in Addrs, SameAddr
  <2> QED
    BY <2>1, <2>2
<1> QED
  BY <1>2, <1>4

\* A place has been cleared, and the link of its device may be taken down.
Cleared(g, r, i) ==
  /\ r.dev[i] = Empty /\ r.sdp = g.sdp
  /\ \A j \in Idx : j # i => r.dev[j] = g.dev[j]
  /\ r.bt.chan = g.bt.chan /\ r.bt.twice = g.bt.twice /\ r.bt.names = g.bt.names
  /\ r.bt.closing = g.bt.closing /\ r.bt.left = g.bt.left
  /\ \A x \in Addrs : r.bt.link[x] \in {g.bt.link[x], "leaving"}

\* What uni_hid_device_delete() does.
LEMMA DeleteIs ==
  ASSUME NEW g \in State, NEW i \in Idx, NEW r, r = Delete(g, i)
  PROVE  Cleared(g, r, i)
<1>1. g.dev \in [Idx -> Device] /\ g.bt \in Stack
  BY StateFields
<1>2. PICK a : a = g.dev[i].addr
  OBVIOUS
<1>3. PICK b : b = IF g.dev[i].handle /\ a \in Addrs /\ g.bt.link[a] \in Up
                     THEN [g.bt EXCEPT !.link[a] = "leaving"] ELSE g.bt
  OBVIOUS
<1>4. PICK u : u = IF g.dev[i].connected /\ g.dev[i].seat # None THEN g.used - 1 ELSE g.used
  OBVIOUS
<1>5. PICK e : e = [g.dev EXCEPT ![i] = Empty]
  OBVIOUS
<1>6. r = [g EXCEPT !.dev[i] = Empty, !.used = u, !.bt = b]
  BY <1>2, <1>3, <1>4 DEF Delete
<1>7. r.dev = e /\ r.bt = b /\ r.sdp = g.sdp
  BY ONLY g \in State, <1>5, <1>6 DEF State
<1>8. e[i] = Empty /\ \A j \in Idx : j # i => e[j] = g.dev[j]
  BY ONLY <1>1, <1>5, i \in Idx
<1>9. /\ b.chan = g.bt.chan /\ b.twice = g.bt.twice /\ b.names = g.bt.names
      /\ b.closing = g.bt.closing /\ b.left = g.bt.left
      /\ \A x \in Addrs : b.link[x] \in {g.bt.link[x], "leaving"}
  <2>1. CASE g.dev[i].handle /\ a \in Addrs /\ g.bt.link[a] \in Up
    <3>1. b = [g.bt EXCEPT !.link[a] = "leaving"]
      BY <1>3, <2>1
    <3> QED
      BY ONLY <1>1, <2>1, <3>1 DEF Stack
  <2>2. CASE ~(g.dev[i].handle /\ a \in Addrs /\ g.bt.link[a] \in Up)
    BY <1>3, <2>2
  <2> QED
    BY <2>1, <2>2
<1> QED
  BY <1>7, <1>8, <1>9 DEF Cleared

\* uni_bt_bredr_on_l2cap_incoming_connection(), interrupt channel: a device whose
\* interrupt channel is not open is not connected.
LEMMA IncomingInterruptKeeps ==
  ASSUME DevicesInv, NEW a \in Addrs, IncomingInterrupt(a)
  PROVE  DevicesInv'
<1>1. PICK g : g = g0
  OBVIOUS
<1>2. Sound(g) /\ g \in State /\ g.dev = dev /\ g.bt = bt /\ bt \in Stack
  BY <1>1, Parts
<1>3. PICK i : i = PlaceOf(g, a)
  OBVIOUS
<1>4. PICK r : r = [g EXCEPT !.dev[i].cid = @ \cup {"interrupt"}, !.bt.chan[a]["interrupt"] = "coming"]
  OBVIOUS
<1>5. Becomes(IF g.dev[i].state = "READY" THEN Delete(g, i) ELSE r)
  BY ONLY <1>1, <1>2, <1>3, <1>4, IncomingInterrupt(a) DEF IncomingInterrupt
<1>6. /\ Known(a) /\ g.bt.link[a] \in Up /\ g.bt.closing = None
      /\ g.bt.chan[a]["interrupt"] = None /\ g.bt.chan[a]["control"] = "open"
  BY ONLY <1>2, IncomingInterrupt(a) DEF IncomingInterrupt, Calls, Quiet
<1>7. i \in Idx /\ g.dev[i].addr = a /\ a # None /\ But(g, i) /\ At(g, i)
  BY <1>2, <1>3, <1>6, PlaceOfFits, NoneAssumption, SoundBut DEF Known
<1>8. CASE g.dev[i].state = "READY"
  BY <1>5, <1>7, <1>8, DeleteSound, BecomesSound
<1>9. CASE g.dev[i].state # "READY"
  <2>1. g.dev \in [Idx -> Device] /\ g.dev[i] \in Device /\ g.bt \in Stack
    BY <1>2, <1>7, StateFields
  <2>2. PICK b : b = [g.bt EXCEPT !.chan[a]["interrupt"] = "coming"]
    OBVIOUS
  <2>3. /\ b \in Stack /\ Elsewhere(g.bt, b, a) /\ \A x \in Addrs : AddrInv(b, x)
        /\ b.chan[a]["control"] = "open" /\ b.chan[a]["interrupt"] = "coming"
        /\ b.link = g.bt.link /\ b.twice = g.bt.twice /\ b.names = g.bt.names
    <3>1. "coming" \in Channels /\ "interrupt" \in Psms /\ "control" \in Psms
      BY DEF Channels, Psms
    <3>2. b \in Stack
      BY ONLY <2>1, <2>2, <3>1, a \in Addrs, StackIs
    <3>3. /\ Rechanneled(g.bt, b, a)
          /\ b.chan[a]["control"] = g.bt.chan[a]["control"] /\ b.chan[a]["interrupt"] = "coming"
      BY ONLY <2>1, <2>2, <3>1, <3>2, a \in Addrs, ZenonT(40) DEF Stack, Rechanneled
    <3>4. g.bt.closing # a /\ g.bt.link[a] # None /\ \A x \in Addrs : AddrInv(g.bt, x)
      BY <1>2, <1>6, NoneAssumption DEF Sound, Up, None
    <3>5. Elsewhere(g.bt, b, a) /\ \A x \in Addrs : AddrInv(b, x)
      BY ONLY <3>3, <3>4, a \in Addrs, ChannelsSet
    <3> QED
      BY <1>6, <3>2, <3>3, <3>5 DEF Rechanneled
  <2>4. PICK d : d = [g.dev[i] EXCEPT !.cid = @ \cup {"interrupt"}]
    OBVIOUS
  <2>5. /\ d \in Device /\ d.addr = a /\ d.connected = g.dev[i].connected
        /\ d.seat = g.dev[i].seat /\ d.connTimer = g.dev[i].connTimer
        /\ d.handle = g.dev[i].handle /\ d.state = g.dev[i].state
        /\ d.query = g.dev[i].query /\ d.name = g.dev[i].name
        /\ d.incoming = g.dev[i].incoming /\ d.nameTimer = g.dev[i].nameTimer
        /\ d.cid = g.dev[i].cid \cup {"interrupt"}
    BY ONLY <1>7, <2>1, <2>4, Zenon DEF Device, Psms
  <2>6. PICK e : e = [g.dev EXCEPT ![i] = d]
    OBVIOUS
  <2>7. e \in [Idx -> Device] /\ (\A j \in Idx : j # i => e[j] = g.dev[j]) /\ e[i] = d
    BY ONLY <1>7, <2>1, <2>5, <2>6
  <2>8. PICK f : f = With(g, e, b)
    OBVIOUS
  <2>9. But(f, i) /\ f.dev = e /\ f.bt = b /\ f.sdp = g.sdp
    <3>1. /\ Elsewhere(g.bt, b, g.dev[i].addr) /\ (g.dev[i].addr \in Addrs => AddrInv(b, g.dev[i].addr))
          /\ e[i].addr = g.dev[i].addr /\ e[i].connected = g.dev[i].connected
          /\ e[i].seat = g.dev[i].seat /\ (e[i].connTimer => g.dev[i].connTimer)
      BY <1>7, <2>3, <2>5, <2>7
    <3>2. i \in Idx /\ But(g, i) /\ b \in Stack
      BY <1>7, <2>3
    <3> QED
      BY ONLY <2>7, <2>8, <3>1, <3>2, ButWith
  <2>10. At(f, i)
    <3>1. PICK c : c = g.dev[i]
      OBVIOUS
    <3>2. LifeAt(c, g.bt) /\ SettledAt(c) /\ Budget(c, g.bt, g.sdp, i, 2) /\ c.addr = a
      BY <1>7, <3>1 DEF At
    <3>3. Asked(b, a) = Asked(g.bt, a) /\ Asked(b, a) # 0
      BY <1>6, <2>3 DEF Asked, None
    <3>4. ~c.connected
      BY ONLY <1>6, <3>2 DEF LifeAt, None
    <3>5. LifeAt(d, b)
      BY ONLY <1>6, <2>3, <2>5, <3>1, <3>2, <3>3, <3>4 DEF LifeAt
    <3>6. SettledAt(d)
      BY ONLY <2>5, <3>1, <3>2 DEF SettledAt
    <3>7. Budget(d, b, f.sdp, i, 2)
      <4>1. Uses(d, b, f.sdp, i) = Uses(c, g.bt, g.sdp, i)
        BY ONLY <2>3, <2>5, <2>9, <3>1, <3>2, <3>3 DEF Uses
      <4> QED
        BY ONLY <2>5, <3>1, <3>2, <4>1 DEF Budget
    <3> QED
      BY <2>7, <2>9, <3>5, <3>6, <3>7 DEF At
  <2>11. r = f
    <3>1. PICK h : h = [g EXCEPT !.dev[i].cid = @ \cup {"interrupt"}]
      OBVIOUS
    <3>2. h = [g EXCEPT !.dev = e]
      BY ONLY <1>2, <1>7, <2>1, <2>4, <2>6, <3>1, StateFields
    <3>3. h = With(g, e, g.bt)
      BY ONLY <1>2, <3>2, StateFields DEF With
    <3>4. h.bt = g.bt
      BY ONLY <3>3 DEF With
    <3>5. r = [h EXCEPT !.bt.chan[a]["interrupt"] = "coming"]
      BY ONLY <1>4, <3>1
    <3>6. r = [h EXCEPT !.bt = b]
      BY ONLY <2>2, <3>4, <3>5
    <3> QED
      BY ONLY <2>8, <3>3, <3>6 DEF With
  <2> QED
    BY <1>5, <1>7, <1>9, <2>9, <2>10, <2>11, SoundBut, BecomesSound
<1> QED
  BY <1>8, <1>9

\* uni_bt_bredr_on_l2cap_incoming_connection(), control channel: a device that
\* was ready gets a new place, and one that was not keeps its interrupt channel.
LEMMA IncomingControlKeeps ==
  ASSUME DevicesInv, NEW a \in Addrs, IncomingControl(a)
  PROVE  DevicesInv'
<1> DEFINE ready == Known(a) /\ dev[PlaceOf(g0, a)].state = "READY"
<1>1. PICK p : p = g0
  OBVIOUS
<1>2. Sound(p) /\ p \in State /\ p.dev = dev /\ p.bt = bt /\ bt \in Stack
  BY <1>1, Parts
<1>3. PICK g : g = IF ready THEN Delete(p, PlaceOf(p, a)) ELSE p
  OBVIOUS
<1>4. PICK h : h = IF Places(g.dev, a) = {} /\ Free(g) # {} THEN Create(g, a) ELSE g
  OBVIOUS
<1>5. PICK i : i = PlaceOf(h, a)
  OBVIOUS
<1>6. PICK r : r = [h EXCEPT !.dev[i].handle = TRUE, !.dev[i].incoming = TRUE,
                             !.dev[i].cid = @ \cup {"control"},
                             !.bt.chan[a]["control"] = "coming",
                             !.bt.chan[a]["interrupt"] = IF ready THEN None ELSE @]
  OBVIOUS
<1>7. Places(h.dev, a) # {} /\ Becomes(r)
  <2> DEFINE g1 == IF ready THEN Delete(g0, PlaceOf(g0, a)) ELSE g0
             h1 == IF Places(g1.dev, a) = {} /\ Free(g1) # {} THEN Create(g1, a) ELSE g1
             i1 == PlaceOf(h1, a)
             r1 == [h1 EXCEPT !.dev[i1].handle = TRUE, !.dev[i1].incoming = TRUE,
                              !.dev[i1].cid = @ \cup {"control"},
                              !.bt.chan[a]["control"] = "coming",
                              !.bt.chan[a]["interrupt"] = IF ready THEN None ELSE @]
  <2>1. Places(h1.dev, a) # {} /\ Becomes(r1)
    BY ONLY IncomingControl(a), Zenon DEF IncomingControl
  <2>2. g1 = g
    BY <1>1, <1>3
  <2> HIDE DEF g1
  <2>3. h1 = h
    BY <1>4, <2>2
  <2> HIDE DEF h1
  <2>4. i1 = i
    BY <1>5, <2>3
  <2> HIDE DEF i1
  <2>5. r1 = r
    BY <1>6, <2>3, <2>4
  <2> HIDE DEF r1
  <2> QED
    BY <2>1, <2>3, <2>5
<1>8. p.bt.link[a] \in Up /\ p.bt.closing # a /\ a # None
  BY <1>2, NoneAssumption, Zenon DEF IncomingControl, Quiet
<1>9. ready => PlaceOf(p, a) \in Idx /\ p.dev[PlaceOf(p, a)].addr = a
  BY <1>1, <1>2, PlaceOfFits DEF Known
<1>10. /\ Sound(g) /\ g.bt.link[a] # None /\ g.bt.closing # a
       /\ ready => Places(g.dev, a) = {}
  <2>1. CASE ~ready
    BY <1>2, <1>3, <1>8, <2>1 DEF Up, None
  <2>2. CASE ready
    <3>1. PICK j : j = PlaceOf(p, a)
      OBVIOUS
    <3>2. j \in Idx /\ p.dev[j].addr = a /\ g = Delete(p, j) /\ But(p, j)
      BY <1>2, <1>3, <1>9, <2>2, <3>1, SoundBut
    <3>3. Sound(g) /\ Cleared(p, g, j)
      BY <1>2, <3>2, DeleteSound, DeleteIs
    <3>4. \A x \in Idx : x # j => p.dev[x].addr # a
      BY <1>2, <1>8, <3>2 DEF Sound, Tidy, TableInv
    <3>5. Places(g.dev, a) = {}
      BY <1>8, <3>3, <3>4, EmptyIsDevice DEF Cleared, Places
    <3>6. g.bt.link[a] \in {p.bt.link[a], "leaving"} /\ g.bt.closing = p.bt.closing
      BY <3>3 DEF Cleared
    <3> QED
      BY <1>8, <3>3, <3>5, <3>6 DEF Up, None
  <2> QED
    BY <2>1, <2>2
<1>11. g \in State /\ g.bt \in Stack /\ \A x \in Addrs : AddrInv(g.bt, x)
  BY <1>10, StateFields DEF Sound, Tidy
<1>12. i \in Idx /\ h.dev[i].addr = a
  BY <1>5, <1>7, PlaceOfFits
<1>13. /\ But(h, i) /\ h \in State /\ h.bt = g.bt
       /\ h.dev[i].connected =>
            ~ready /\ g.bt.chan[a]["interrupt"] = "open" /\ "interrupt" \in h.dev[i].cid
       /\ h.dev[i].state = "READY" => h.dev[i].seat = "seat"
       /\ h.dev[i].connTimer \/ h.dev[i].seat = "seat"
       /\ h.dev[i].query = "before" => h.dev[i].name # None
       /\ SettledAt(h.dev[i])
  <2>1. CASE Places(g.dev, a) = {} /\ Free(g) # {}
    <3>1. Created(g, h, a)
      BY <1>4, <1>10, <2>1, CreateIs
    <3>2. PICK d : d = h.dev[i]
      OBVIOUS
    <3>3. d = [Empty EXCEPT !.addr = a, !.connTimer = TRUE]
      BY <1>5, <3>1, <3>2 DEF Created
    <3>4. d.connTimer /\ ~d.connected /\ d.state = "NONE" /\ d.query = "after"
      BY ONLY <3>3, a \in Addrs, CreatedIs, Zenon
    <3>5. SettledAt(d)
      BY ONLY <3>4 DEF SettledAt
    <3>6. But(h, i) /\ h \in State /\ h.bt = g.bt
      BY <1>5, <3>1 DEF Created
    <3> QED
      BY ONLY <3>2, <3>4, <3>5, <3>6
  <2>2. CASE ~(Places(g.dev, a) = {} /\ Free(g) # {})
    <3>1. h = g /\ ~ready
      BY <1>4, <1>7, <1>10, <2>2
    <3>2. But(g, i) /\ At(g, i)
      BY <1>10, <1>12, SoundBut
    <3>3. PICK d : d = g.dev[i]
      OBVIOUS
    <3>4. LifeAt(d, g.bt) /\ SettledAt(d) /\ d.addr = a
      BY <1>8, <1>12, <3>1, <3>2, <3>3 DEF At
    <3> QED
      BY ONLY <1>11, <3>1, <3>2, <3>3, <3>4 DEF LifeAt
  <2> QED
    BY <2>1, <2>2
<1>14. h.dev \in [Idx -> Device] /\ h.dev[i] \in Device
  BY <1>12, <1>13, StateFields
<1>15. PICK k : k = IF ready THEN None ELSE g.bt.chan[a]["interrupt"]
  OBVIOUS
<1>16. PICK c : c = [g.bt EXCEPT !.chan[a]["control"] = "coming"]
  OBVIOUS
<1>17. PICK b : b = [c EXCEPT !.chan[a]["interrupt"] = k]
  OBVIOUS
<1>18. /\ b \in Stack /\ Elsewhere(g.bt, b, a) /\ \A x \in Addrs : AddrInv(b, x)
       /\ b.chan[a]["interrupt"] = k
       /\ c.chan[a]["interrupt"] = g.bt.chan[a]["interrupt"]
  <2>1. "coming" \in Channels /\ "interrupt" \in Psms /\ "control" \in Psms /\ "control" # "interrupt"
    BY DEF Channels, Psms
  <2>2. k \in Channels
    BY <1>11, <1>15, <2>1, StackIs DEF Channels
  <2>3. c \in Stack
    BY ONLY <1>11, <1>16, <2>1, a \in Addrs, StackIs
  <2>4. b \in Stack
    BY ONLY <1>17, <2>1, <2>2, <2>3, a \in Addrs, StackIs
  <2>5. /\ c.link = g.bt.link /\ c.twice = g.bt.twice /\ c.names = g.bt.names
        /\ c.closing = g.bt.closing /\ c.left = g.bt.left
        /\ \A x \in Addrs : x # a => c.chan[x] = g.bt.chan[x]
        /\ c.chan[a]["interrupt"] = g.bt.chan[a]["interrupt"]
    BY ONLY <1>11, <1>16, <2>1, a \in Addrs DEF Stack
  <2>6. /\ b.link = c.link /\ b.twice = c.twice /\ b.names = c.names
        /\ b.closing = c.closing /\ b.left = c.left
        /\ \A x \in Addrs : x # a => b.chan[x] = c.chan[x]
        /\ b.chan[a]["interrupt"] = k
    BY ONLY <1>17, <2>1, <2>3, a \in Addrs DEF Stack
  <2>7. Rechanneled(g.bt, b, a)
    BY ONLY <2>4, <2>5, <2>6 DEF Rechanneled
  <2>8. Elsewhere(g.bt, b, a) /\ \A x \in Addrs : AddrInv(b, x)
    <3>1. \A x \in Addrs : AddrInv(g.bt, x)
      BY <1>11
    <3>2. g.bt.closing # a /\ g.bt.link[a] # None
      BY <1>10
    <3> QED
      BY ONLY <2>7, <3>1, <3>2, a \in Addrs, ChannelsSet
  <2> QED
    BY <2>4, <2>5, <2>6, <2>8
<1>19. PICK d : d = [h.dev[i] EXCEPT !.handle = TRUE, !.incoming = TRUE, !.cid = @ \cup {"control"}]
  OBVIOUS
<1>20. /\ d \in Device /\ d.addr = a /\ d.connected = h.dev[i].connected
       /\ d.seat = h.dev[i].seat /\ d.connTimer = h.dev[i].connTimer
       /\ d.handle /\ d.state = h.dev[i].state
       /\ d.query = h.dev[i].query /\ d.name = h.dev[i].name
       /\ d.incoming /\ d.cid = h.dev[i].cid \cup {"control"}
  BY ONLY <1>12, <1>14, <1>19, Zenon DEF Device, Psms
<1>21. PICK e : e = [h.dev EXCEPT ![i] = d]
  OBVIOUS
<1>22. e \in [Idx -> Device] /\ (\A j \in Idx : j # i => e[j] = h.dev[j]) /\ e[i] = d
  BY ONLY <1>12, <1>14, <1>20, <1>21
<1>23. PICK f : f = With(h, e, b)
  OBVIOUS
<1>24. But(f, i) /\ f.dev = e /\ f.bt = b
  <2>1. /\ Elsewhere(h.bt, b, h.dev[i].addr) /\ (h.dev[i].addr \in Addrs => AddrInv(b, h.dev[i].addr))
        /\ e[i].addr = h.dev[i].addr /\ e[i].connected = h.dev[i].connected
        /\ e[i].seat = h.dev[i].seat /\ (e[i].connTimer => h.dev[i].connTimer)
    BY ONLY <1>12, <1>13, <1>18, <1>20, <1>22, a \in Addrs
  <2>2. i \in Idx /\ But(h, i) /\ b \in Stack
    BY <1>12, <1>13, <1>18
  <2> QED
    BY ONLY <1>22, <1>23, <2>1, <2>2, ButWith
<1>25. At(f, i)
  <2>1. LifeAt(d, b)
    BY ONLY <1>13, <1>15, <1>18, <1>20 DEF LifeAt
  <2>2. SettledAt(d)
    BY ONLY <1>13, <1>20 DEF SettledAt
  <2>3. Budget(d, b, f.sdp, i, 2)
    BY ONLY <1>20 DEF Budget
  <2> QED
    BY ONLY <1>22, <1>24, <2>1, <2>2, <2>3 DEF At
<1>26. r = f
  <2>1. PICK h1 : h1 = [h EXCEPT !.dev[i].handle = TRUE, !.dev[i].incoming = TRUE,
                                 !.dev[i].cid = @ \cup {"control"}]
    OBVIOUS
  <2>2. h1 = [h EXCEPT !.dev = e]
    BY ONLY <1>12, <1>13, <1>14, <1>19, <1>21, <2>1, StateFields
  <2>3. h1 = With(h, e, g.bt)
    BY ONLY <1>13, <2>2, StateFields DEF With
  <2>4. h1.bt = g.bt
    BY ONLY <2>3 DEF With
  <2>5. r = [h1 EXCEPT !.bt.chan[a]["control"] = "coming",
                       !.bt.chan[a]["interrupt"] = IF ready THEN None ELSE @]
    BY ONLY <1>6, <2>1
  <2>6. PICK h2 : h2 = [h1 EXCEPT !.bt.chan[a]["control"] = "coming"]
    OBVIOUS
  <2>7. h2 = [h1 EXCEPT !.bt = c]
    BY ONLY <1>16, <2>4, <2>6
  <2>8. h2 = With(h, e, c) /\ h2.bt = c
    BY ONLY <2>3, <2>7 DEF With
  <2>9. r = [h2 EXCEPT !.bt.chan[a]["interrupt"] = k]
    <3> HIDE DEF ready
    <3>1. k = IF ready THEN None ELSE h2.bt.chan[a]["interrupt"]
      BY ONLY <1>15, <1>18, <2>8
    <3>2. r = [h2 EXCEPT !.bt.chan[a]["interrupt"] = IF ready THEN None ELSE @]
      BY ONLY <2>5, <2>6, ZenonT(40)
    <3> QED
      BY ONLY <3>1, <3>2
  <2>10. r = [h2 EXCEPT !.bt = b]
    BY ONLY <1>17, <2>8, <2>9
  <2> QED
    BY ONLY <1>23, <2>8, <2>10 DEF With
<1> QED
  BY <1>7, <1>12, <1>24, <1>25, <1>26, SoundBut, BecomesSound

\* uni_bt_bredr_on_l2cap_channel_opened(), success: we ask for the interrupt
\* channel when it has not been, and a device is connected by its interrupt
\* channel before it has a seat.
LEMMA ChannelOpenedKeeps ==
  ASSUME DevicesInv, NEW a \in Addrs, NEW k \in Psms, ChannelOpened(a, k)
  PROVE  DevicesInv'
<1>1. PICK p : p = g0
  OBVIOUS
<1>2. Sound(p) /\ p \in State /\ p.dev = dev /\ p.bt = bt /\ bt \in Stack
  BY <1>1, Parts
<1>3. PICK g : g = [p EXCEPT !.bt.chan[a][k] = "open"]
  OBVIOUS
<1>4. PICK i : i = PlaceOf(g, a)
  OBVIOUS
<1>5. PICK s : s = IF k = "control" THEN "CONTROL_CONNECTED" ELSE "INTERRUPT_CONNECTED"
  OBVIOUS
<1>6. PICK h : h = [g EXCEPT !.dev[i].cid = @ \cup {k}, !.dev[i].state = s]
  OBVIOUS
<1>7. Becomes(IF ~Known(a) THEN g ELSE Fsm(IF k = "interrupt" THEN Connect(h, i) ELSE h, i))
  BY ONLY <1>1, <1>3, <1>4, <1>5, <1>6, ChannelOpened(a, k), ZenonT(40) DEF ChannelOpened
<1>8. PICK b : b = [p.bt EXCEPT !.chan[a][k] = "open"]
  OBVIOUS
<1>9. /\ p.bt.link[a] \in Up /\ p.bt.closing # a /\ a # None
      /\ p.bt.chan[a][k] \in {"asked", "coming"}
  BY <1>2, NoneAssumption DEF ChannelOpened, Quiet
<1>10. /\ b \in Stack /\ Elsewhere(p.bt, b, a) /\ \A x \in Addrs : AddrInv(b, x)
       /\ b.chan[a][k] = "open" /\ \A m \in Psms : m # k => b.chan[a][m] = p.bt.chan[a][m]
       /\ b.link = p.bt.link /\ b.twice = p.bt.twice /\ b.names = p.bt.names
       /\ b.closing = p.bt.closing
  <2>1. "open" \in Channels /\ p.bt \in Stack /\ (\A x \in Addrs : AddrInv(p.bt, x))
    BY <1>2 DEF Channels, Sound
  <2>2. p.bt.closing # a /\ p.bt.link[a] # None
    BY <1>9 DEF Up, None
  <2>3. b \in Stack
    BY ONLY <1>8, <2>1, a \in Addrs, k \in Psms, StackIs
  <2>4. Rechanneled(p.bt, b, a)
    BY ONLY <1>8, <2>1, <2>3, a \in Addrs, k \in Psms DEF Stack, Rechanneled
  <2>5. b.chan[a][k] = "open" /\ \A m \in Psms : m # k => b.chan[a][m] = p.bt.chan[a][m]
    BY ONLY <1>8, <2>1, a \in Addrs, k \in Psms DEF Stack
  <2> QED
    BY ONLY <2>1, <2>2, <2>3, <2>4, <2>5, a \in Addrs, ChannelsSet DEF Rechanneled
<1>11. g = [p EXCEPT !.bt = b]
  BY ONLY <1>2, <1>3, <1>8, StateFields
<1>12. CASE ~Known(a)
  <2>1. Tidy(p) /\ (\A j \in Idx : At(p, j)) /\ \A x \in Addrs : AddrInv(b, x)
    BY <1>2, <1>10 DEF Sound
  <2>2. (\A j \in Idx : p.dev[j].addr = a => At(g, j)) => Sound(g)
    BY ONLY <1>10, <1>11, <2>1, a \in Addrs, StackSound
  <2>3. \A j \in Idx : p.dev[j].addr # a
    BY <1>2, <1>12 DEF Known, Places
  <2> QED
    BY <1>7, <1>12, <2>2, <2>3, BecomesSound
<1>13. CASE Known(a)
  <2>1. g.dev = p.dev /\ g.bt = b
    BY ONLY <1>2, <1>10, <1>11 DEF State
  <2>2. i \in Idx /\ p.dev[i].addr = a /\ But(p, i) /\ At(p, i)
    BY <1>2, <1>4, <1>13, <2>1, PlaceOfFits, SoundBut DEF Known
  <2>3. p.dev \in [Idx -> Device] /\ p.dev[i] \in Device
    BY <1>2, <2>2, StateFields
  <2>4. PICK c : c = p.dev[i]
    OBVIOUS
  <2>5. LifeAt(c, p.bt) /\ Budget(c, p.bt, p.sdp, i, 2) /\ c.addr = a
    BY <1>9, <2>2, <2>4 DEF At
  <2>6. PICK d : d = [c EXCEPT !.cid = @ \cup {k}, !.state = s]
    OBVIOUS
  <2>7. /\ d \in Device /\ d.addr = a /\ d.connected = c.connected
        /\ d.seat = c.seat /\ d.connTimer = c.connTimer
        /\ d.handle = c.handle /\ d.state = s /\ d.query = c.query /\ d.name = c.name
        /\ d.incoming = c.incoming /\ d.nameTimer = c.nameTimer /\ d.cid = c.cid \cup {k}
    BY ONLY <1>5, <2>3, <2>4, <2>5, <2>6, k \in Psms, ZenonT(40) DEF Device, States
  <2>8. PICK e : e = [p.dev EXCEPT ![i] = d]
    OBVIOUS
  <2>9. e \in [Idx -> Device] /\ (\A j \in Idx : j # i => e[j] = p.dev[j]) /\ e[i] = d
    BY ONLY <2>2, <2>3, <2>7, <2>8
  <2>10. PICK f : f = With(p, e, b)
    OBVIOUS
  <2>11. But(f, i) /\ f.dev = e /\ f.bt = b /\ f.sdp = p.sdp
    <3>1. /\ Elsewhere(p.bt, b, p.dev[i].addr) /\ (p.dev[i].addr \in Addrs => AddrInv(b, p.dev[i].addr))
          /\ e[i].addr = p.dev[i].addr /\ e[i].connected = p.dev[i].connected
          /\ e[i].seat = p.dev[i].seat /\ (e[i].connTimer => p.dev[i].connTimer)
      BY <1>10, <2>2, <2>4, <2>5, <2>7, <2>9
    <3>2. i \in Idx /\ But(p, i) /\ b \in Stack
      BY <1>10, <2>2
    <3> QED
      BY ONLY <2>9, <2>10, <3>1, <3>2, ButWith
  <2>12. h = f
    <3>1. h = [g EXCEPT !.dev = e] /\ g \in State
      <4>1. g \in State
        BY ONLY <1>2, <1>10, <1>11 DEF State
      <4> QED
        BY ONLY <1>6, <2>1, <2>2, <2>3, <2>4, <2>6, <2>8, <4>1, StateFields
    <3>2. h = With(g, e, b)
      BY ONLY <2>1, <3>1, StateFields DEF With
    <3>3. g = With(p, p.dev, b)
      BY ONLY <1>2, <1>11, StateFields DEF With
    <3> QED
      BY ONLY <2>10, <3>2, <3>3 DEF With
  <2>13. Asked(b, a) = Asked(p.bt, a)
    BY ONLY <1>9, <1>10, k \in Psms DEF Asked, Psms, None
  <2>14. Uses(d, b, p.sdp, i) = Uses(c, p.bt, p.sdp, i)
    BY ONLY <1>10, <2>5, <2>7, <2>13 DEF Uses
  <2>15. Budget(d, b, p.sdp, i, 2)
    BY ONLY <2>5, <2>7, <2>14 DEF Budget
  <2>16. CASE k = "control"
    <3>1. /\ b.chan[a]["control"] = "open" /\ b.chan[a]["interrupt"] = p.bt.chan[a]["interrupt"]
          /\ p.bt.chan[a]["control"] \in {"asked", "coming"} /\ Asked(p.bt, a) # 0
      BY ONLY <1>9, <1>10, <2>16 DEF Psms, Asked, None
    <3>2. d.state = "CONTROL_CONNECTED"
      BY <1>5, <2>7, <2>16
    <3>3. LifeAt(d, b)
      BY ONLY <1>10, <2>5, <2>7, <2>13, <2>16, <3>1, <3>2 DEF LifeAt
    <3>4. ~d.incoming => b.chan[a]["interrupt"] = None
      BY ONLY <2>5, <2>7, <3>1 DEF LifeAt
    <3>5. Live(f, i)
      BY ONLY <2>9, <2>11, <2>15, <3>3 DEF Live
    <3>6. Ripe(f, i)
      BY ONLY <1>9, <1>10, <2>7, <2>9, <2>11, <3>1, <3>2, <3>4, <3>5 DEF Ripe
    <3>7. Becomes(Fsm(f, i))
      BY <1>7, <1>13, <2>12, <2>16
    <3> QED
      BY <2>2, <2>11, <3>6, <3>7, FsmSound, BecomesSound
  <2>17. CASE k = "interrupt"
    <3>1. /\ b.chan[a]["interrupt"] = "open" /\ b.chan[a]["control"] = p.bt.chan[a]["control"]
          /\ p.bt.chan[a]["interrupt"] # None /\ p.bt.chan[a]["interrupt"] # "open"
      BY ONLY <1>9, <1>10, <2>17 DEF Psms, None
    <3>2. ~c.connected
      BY ONLY <2>5, <3>1 DEF LifeAt
    <3>3. c.seat # "seat"
      BY <1>2, <2>2, <2>4, <3>2 DEF Sound, Tidy, TableInv, PlaceInv
    <3>4. PICK r : r = Connect(f, i)
      OBVIOUS
    <3>5. /\ But(r, i) /\ r.bt = b /\ r.sdp = p.sdp
          /\ r.dev = [f.dev EXCEPT ![i].connected = TRUE, ![i].seat = None]
      <4>1. f.dev[i].addr # None /\ f.dev[i].seat # "seat"
        BY <1>9, <2>7, <2>9, <2>11, <3>3
      <4> QED
        <5>1. i \in Idx /\ But(f, i)
          BY <2>2, <2>11
        <5>2. But(r, i) /\ r.bt = f.bt /\ r.sdp = f.sdp
          BY ONLY <3>4, <4>1, <5>1, ConnectIs
        <5>3. f \in State
          BY <2>11 DEF But, Tidy
        <5>4. r.dev = [f.dev EXCEPT ![i].connected = TRUE, ![i].seat = None]
          BY ONLY <3>4, <5>3 DEF Connect, State
        <5> QED
          BY <2>11, <5>2, <5>4
    <3>6. PICK t : t = r.dev[i]
      OBVIOUS
    <3>7. /\ t.addr = a /\ t.connected /\ t.seat = None /\ t.connTimer = d.connTimer
          /\ t.handle = d.handle /\ t.state = d.state /\ t.query = d.query /\ t.name = d.name
          /\ t.incoming = d.incoming /\ t.nameTimer = d.nameTimer /\ t.cid = d.cid
      <4>1. f.dev[i] = d /\ f.dev \in [Idx -> Device] /\ i \in Idx /\ d \in Device
        BY <2>2, <2>7, <2>9, <2>11
      <4>2. t = [d EXCEPT !.connected = TRUE, !.seat = None]
        BY ONLY <3>5, <3>6, <4>1
      <4> QED
        BY ONLY <2>7, <4>1, <4>2, Zenon DEF Device
    <3>8. t.state = "INTERRUPT_CONNECTED"
      BY <1>5, <2>7, <2>17, <3>7
    <3>9. LifeAt(t, b)
      <4>1. c.handle /\ c.connTimer /\ (c.query = "before" => c.name # None)
        BY ONLY <1>9, <2>5, <3>3 DEF LifeAt
      <4>2. ~c.incoming =>
              /\ p.bt.chan[a]["control"] # "coming" /\ p.bt.chan[a]["control"] # "asked"
              /\ "control" \in c.cid /\ c.name # None /\ Asked(p.bt, a) # 0
        BY ONLY <2>5, <3>1 DEF LifeAt
      <4> QED
        BY ONLY <2>7, <2>13, <2>17, <3>1, <3>7, <3>8, <4>1, <4>2 DEF LifeAt
    <3>10. Budget(t, b, p.sdp, i, 2)
      <4>1. Uses(t, b, p.sdp, i) = Uses(d, b, p.sdp, i)
        BY ONLY <2>7, <3>7 DEF Uses
      <4> QED
        BY ONLY <2>15, <3>7, <4>1 DEF Budget
    <3>11. Live(r, i)
      BY ONLY <3>5, <3>6, <3>9, <3>10 DEF Live
    <3>12. Ripe(r, i)
      BY ONLY <3>5, <3>6, <3>7, <3>8, <3>11 DEF Ripe
    <3>13. Becomes(Fsm(r, i))
      BY <1>7, <1>13, <2>12, <2>17, <3>4
    <3> QED
      BY <2>2, <3>5, <3>12, <3>13, FsmSound, BecomesSound
  <2> QED
    BY <2>16, <2>17 DEF Psms
<1> QED
  BY <1>12, <1>13

\* uni_bt_bredr_on_l2cap_channel_closed()
LEMMA ChannelClosedKeeps ==
  ASSUME DevicesInv, NEW a \in Addrs, NEW k \in Psms, ChannelClosed(a, k)
  PROVE  DevicesInv'
<1>1. PICK g : g = g0
  OBVIOUS
<1>2. Sound(g) /\ g \in State /\ g.dev = dev /\ g.bt = bt /\ bt \in Stack
  BY <1>1, Parts
<1>3. PICK b : b = [g.bt EXCEPT !.chan[a][k] = None]
  OBVIOUS
<1>4. g.bt \in Stack /\ (\A x \in Addrs : AddrInv(g.bt, x)) /\ g.bt.closing # a /\ g.bt.link[a] # None
  BY <1>2, NoneAssumption DEF ChannelClosed, Quiet, Sound, Up, None
<1>5. \A x \in Addrs : AddrInv(b, x)
  <2>1. None \in Channels
    BY DEF Channels
  <2>2. b \in Stack
    BY ONLY <1>3, <1>4, <2>1, a \in Addrs, k \in Psms, StackIs
  <2>3. Rechanneled(g.bt, b, a)
    BY ONLY <1>3, <1>4, <2>2, a \in Addrs, k \in Psms DEF Stack, Rechanneled
  <2> QED
    BY ONLY <1>4, <2>3, a \in Addrs, ChannelsSet
<1>6. Tidy(g) /\ \A j \in Idx : At(g, j)
  BY <1>2 DEF Sound
<1>7. Sound(Failed(g, a, k))
  BY ONLY <1>3, <1>5, <1>6, a \in Addrs, k \in Psms, FailedSound
<1>8. Becomes(Failed(g, a, k))
  BY <1>1 DEF ChannelClosed
<1> QED
  BY <1>7, <1>8, BecomesSound

\* The failure of a channel asked for twice.
LEMMA ChannelRefusedKeeps ==
  ASSUME DevicesInv, NEW a \in Addrs, NEW k \in Psms, ChannelRefused(a, k)
  PROVE  DevicesInv'
<1>1. PICK g : g = g0
  OBVIOUS
<1>2. Sound(g) /\ g \in State /\ g.dev = dev /\ g.bt = bt /\ bt \in Stack
  BY <1>1, Parts
<1>3. PICK t : t = g.bt.twice \ {<<a, k>>}
  OBVIOUS
<1>4. t \in SUBSET (Addrs \X Psms) /\ g.bt \in Stack
  BY <1>2, <1>3, StackIs
<1>5. PICK b : b = [g.bt EXCEPT !.twice = t]
  OBVIOUS
<1>6. PICK h : h = [g EXCEPT !.bt = b]
  OBVIOUS
<1>7. h = [g EXCEPT !.bt.twice = @ \ {<<a, k>>}]
  BY ONLY <1>2, <1>3, <1>5, <1>6, StateFields
<1>8. Becomes(Refused(h, a))
  BY ONLY <1>1, <1>7, ChannelRefused(a, k) DEF ChannelRefused
<1>9. b \in Stack
  BY ONLY <1>4, <1>5, StackIs
<1>10. /\ b.link = g.bt.link /\ b.chan = g.bt.chan /\ b.names = g.bt.names
       /\ b.closing = g.bt.closing /\ b.left = g.bt.left /\ b.twice = t
  BY ONLY <1>4, <1>5 DEF Stack
<1>11. Elsewhere(g.bt, b, a)
  BY <1>3, <1>10 DEF Elsewhere, Same
<1>12. \A x \in Addrs : AddrInv(b, x)
  <2>1. ASSUME NEW x \in Addrs
        PROVE  AddrInv(b, x)
    <3>1. AddrInv(g.bt, x)
      BY <1>2 DEF Sound
    <3>2. \A m \in Psms : <<x, m>> \notin g.bt.twice => <<x, m>> \notin b.twice
      BY <1>3, <1>10
    <3> QED
      BY ONLY <1>10, <3>1, <3>2 DEF AddrInv, Psms
  <2> QED
    BY <2>1
<1>13. /\ Tidy(h) /\ h.bt = b /\ h.dev = g.dev
       /\ \A i \in Idx : g.dev[i].addr # a => At(h, i)
  <2>1. Tidy(g) /\ \A j \in Idx : At(g, j)
    BY <1>2 DEF Sound
  <2> QED
    BY ONLY <1>6, <1>9, <1>11, <1>12, <2>1, a \in Addrs, StackSound
<1>14. Sound(Refused(h, a))
  <2>1. (\A x \in Addrs : AddrInv(h.bt, x)) /\ \A i \in Idx : h.dev[i].addr # a => At(h, i)
    BY <1>12, <1>13
  <2> QED
    BY ONLY <1>13, <2>1, a \in Addrs, RefusedSound
<1> QED
  BY <1>8, <1>14, BecomesSound

\* The answer to the request of the name has come: the control channel may be
\* asked for once less, by the answer.
LEMMA Answered ==
  ASSUME NEW c, NEW b, LifeAt(c, b), NEW s, NEW i, Budget(c, b, s, i, 2), c.addr \in b.names,
         NEW d, d.addr = c.addr, d.connected = c.connected, d.seat = c.seat,
         d.connTimer = c.connTimer, d.handle = c.handle, d.cid = c.cid, d.query = c.query,
         d.incoming = c.incoming, d.nameTimer = c.nameTimer, d.name # None,
         d.state = "READY" => c.state = "READY",
         NEW f, f.link = b.link, f.chan = b.chan, f.twice = b.twice, c.addr \notin f.names
  PROVE  LifeAt(d, f) /\ Budget(d, f, s, i, 1)
<1>1. Asked(f, c.addr) = Asked(b, c.addr)
  BY DEF Asked
<1>2. LifeAt(d, f)
  BY <1>1 DEF LifeAt
<1>3. PICK n \in {0, 1} : n = IF c.nameTimer THEN 1 ELSE 0
  OBVIOUS
<1>4. PICK k \in {0, 1} : k = IF s.device = i /\ c.query = "before" THEN 1 ELSE 0
  OBVIOUS
<1>5. PICK q \in Nat : q = Asked(b, c.addr)
  BY DEF Asked
<1>6. Uses(c, b, s, i) = q + n + 1 + k
  BY ONLY <1>3, <1>4, <1>5, c.addr \in b.names DEF Uses
<1>7. Uses(d, f, s, i) = q + n + 0 + k
  BY ONLY <1>1, <1>3, <1>4, <1>5, d.addr = c.addr, d.query = c.query, d.nameTimer = c.nameTimer,
     c.addr \notin f.names DEF Uses
<1>8. Budget(d, f, s, i, 1)
  BY ONLY <1>6, <1>7, q \in Nat, n \in {0, 1}, k \in {0, 1}, Budget(c, b, s, i, 2),
     d.incoming = c.incoming DEF Budget
<1> QED
  BY <1>2, <1>8

\* uni_bt_bredr_on_hci_remote_name_request_complete()
LEMMA NameCompleteKeeps ==
  ASSUME DevicesInv, NEW a \in Addrs, NEW name \in {"real", "fake"}, NameComplete(a, name)
  PROVE  DevicesInv'
<1>1. PICK p : p = g0
  OBVIOUS
<1>2. Sound(p) /\ p \in State /\ p.dev = dev /\ p.bt = bt /\ p.bt \in Stack
  BY <1>1, Parts
<1>3. PICK s : s = p.bt.names \ {a}
  BY Zenon
<1>4. s \in SUBSET Addrs /\ a \in p.bt.names /\ a # None
  BY <1>2, <1>3, StackIs, NoneAssumption, Zenon DEF NameComplete
<1>5. PICK b : b = [p.bt EXCEPT !.names = s]
  OBVIOUS
<1>6. PICK g : g = [p EXCEPT !.bt = b]
  OBVIOUS
<1>7. g = [p EXCEPT !.bt.names = @ \ {a}]
  BY ONLY <1>2, <1>3, <1>5, <1>6, StateFields
<1>8. PICK i : i = PlaceOf(g, a)
  OBVIOUS
<1>9. PICK h : h = [g EXCEPT !.dev[i].name = name]
  OBVIOUS
<1>10. PICK n : n = [h EXCEPT !.dev[i].state = "NAME_FETCHED"]
  OBVIOUS
<1>11. PICK f : f = IF dev[i].state \in {"PENDING_READY", "READY"} THEN h ELSE Fsm(n, i)
  OBVIOUS
<1>12. Becomes(IF Known(a) THEN [f EXCEPT !.dev[i].nameTimer = FALSE] ELSE g)
  <2>1. CASE dev[i].state \in {"PENDING_READY", "READY"}
    <3>1. f = h
      BY <1>11, <2>1
    <3> QED
      BY ONLY <1>1, <1>7, <1>8, <1>9, <2>1, <3>1, NameComplete(a, name) DEF NameComplete
  <2>2. CASE dev[i].state \notin {"PENDING_READY", "READY"}
    <3>1. f = Fsm([h EXCEPT !.dev[i].state = "NAME_FETCHED"], i)
      BY <1>10, <1>11, <2>2
    <3> QED
      BY ONLY <1>1, <1>7, <1>8, <1>9, <2>2, <3>1, NameComplete(a, name), Zenon DEF NameComplete
  <2> QED
    BY <2>1, <2>2
<1>13. b \in Stack
  BY ONLY <1>2, <1>4, <1>5, StackIs
<1>14. /\ b.link = p.bt.link /\ b.chan = p.bt.chan /\ b.twice = p.bt.twice
       /\ b.closing = p.bt.closing /\ b.left = p.bt.left /\ b.names = s
  BY ONLY <1>2, <1>5 DEF Stack
<1>15. Elsewhere(p.bt, b, a)
  BY <1>3, <1>14 DEF Elsewhere, Same
<1>16. ASSUME NEW x \in Addrs
       PROVE  AddrInv(b, x)
  <2>1. AddrInv(p.bt, x)
    BY <1>2 DEF Sound
  <2> QED
    BY ONLY <1>14, <2>1 DEF AddrInv
<1>17. CASE ~Known(a)
  <2>1. Tidy(p) /\ (\A j \in Idx : At(p, j)) /\ \A x \in Addrs : AddrInv(b, x)
    BY <1>2, <1>16 DEF Sound
  <2>2. (\A j \in Idx : p.dev[j].addr = a => At(g, j)) => Sound(g)
    BY ONLY <1>6, <1>13, <1>15, <2>1, a \in Addrs, StackSound
  <2>3. \A j \in Idx : p.dev[j].addr # a
    BY <1>2, <1>17 DEF Known, Places
  <2> QED
    BY <1>12, <1>17, <2>2, <2>3, BecomesSound
<1>18. CASE Known(a)
  <2>1. g.dev = p.dev /\ g.bt = b /\ g \in State
    BY ONLY <1>2, <1>6, <1>13 DEF State
  <2>2. i \in Idx /\ p.dev[i].addr = a /\ But(p, i) /\ At(p, i)
    BY <1>2, <1>8, <1>18, <2>1, PlaceOfFits, SoundBut DEF Known
  <2>3. p.dev \in [Idx -> Device] /\ p.dev[i] \in Device
    BY <1>2, <2>2, StateFields
  <2>4. PICK c : c = p.dev[i]
    OBVIOUS
  <2>5. LifeAt(c, p.bt) /\ SettledAt(c) /\ Budget(c, p.bt, p.sdp, i, 2) /\ c.addr = a
    BY <1>4, <2>2, <2>4 DEF At
  <2>6. name # None /\ a \notin b.names
    BY <1>3, <1>14 DEF None
  <2>7. Sound(f)
    <3>1. CASE dev[i].state \in {"PENDING_READY", "READY"}
      <4>1. PICK d : d = [c EXCEPT !.name = name]
        OBVIOUS
      <4>2. /\ d \in Device /\ d.addr = c.addr /\ d.connected = c.connected /\ d.seat = c.seat
            /\ d.connTimer = c.connTimer /\ d.handle = c.handle /\ d.cid = c.cid
            /\ d.query = c.query /\ d.incoming = c.incoming /\ d.nameTimer = c.nameTimer
            /\ d.name = name /\ d.state = c.state
        BY ONLY <2>3, <2>4, <4>1, name \in {"real", "fake"}, Zenon DEF Device
      <4>3. PICK e : e = [p.dev EXCEPT ![i] = d]
        OBVIOUS
      <4>4. e \in [Idx -> Device] /\ (\A j \in Idx : j # i => e[j] = p.dev[j]) /\ e[i] = d
        BY ONLY <2>2, <2>3, <4>2, <4>3
      <4>5. PICK r : r = With(p, e, b)
        OBVIOUS
      <4>6. But(r, i) /\ r.dev = e /\ r.bt = b /\ r.sdp = p.sdp
        <5>1. /\ Elsewhere(p.bt, b, p.dev[i].addr) /\ (p.dev[i].addr \in Addrs => AddrInv(b, p.dev[i].addr))
              /\ e[i].addr = p.dev[i].addr /\ e[i].connected = p.dev[i].connected
              /\ e[i].seat = p.dev[i].seat /\ (e[i].connTimer => p.dev[i].connTimer)
          BY <1>15, <1>16, <2>2, <2>4, <4>2, <4>4
        <5>2. i \in Idx /\ But(p, i) /\ b \in Stack
          BY <1>13, <2>2
        <5> QED
          BY ONLY <4>4, <4>5, <5>1, <5>2, ButWith
      <4>7. LifeAt(d, b) /\ Budget(d, b, p.sdp, i, 1)
        <5>1. d.name # None /\ (d.state = "READY" => c.state = "READY") /\ c.addr \notin b.names
          BY <2>5, <2>6, <4>2
        <5>2. c.addr \in p.bt.names
          BY <1>4, <2>5
        <5> QED
          BY ONLY <1>14, <2>5, <4>2, <5>1, <5>2, Answered
      <4>8. SettledAt(d)
        BY ONLY <2>5, <4>2 DEF SettledAt
      <4>9. At(r, i)
        <5>1. Spare(r, i)
          BY ONLY <4>4, <4>6, <4>7 DEF Spare
        <5>2. Live(r, i)
          BY <5>1, SpareIsLive
        <5> QED
          BY ONLY <4>4, <4>6, <4>8, <5>2 DEF At, Live
      <4>10. h = r
        <5>1. h = [g EXCEPT !.dev = e]
          BY ONLY <1>9, <2>1, <2>2, <2>3, <2>4, <4>1, <4>3, StateFields
        <5>2. h = With(g, e, b)
          BY ONLY <2>1, <5>1, StateFields DEF With
        <5>3. g = With(p, p.dev, b)
          BY ONLY <1>2, <1>6, StateFields DEF With
        <5> QED
          BY ONLY <4>5, <5>2, <5>3 DEF With
      <4> QED
        BY <1>11, <2>2, <3>1, <4>6, <4>9, <4>10, SoundBut
    <3>2. CASE dev[i].state \notin {"PENDING_READY", "READY"}
      <4>1. PICK d : d = [c EXCEPT !.name = name, !.state = "NAME_FETCHED"]
        OBVIOUS
      <4>2. /\ d \in Device /\ d.addr = c.addr /\ d.connected = c.connected /\ d.seat = c.seat
            /\ d.connTimer = c.connTimer /\ d.handle = c.handle /\ d.cid = c.cid
            /\ d.query = c.query /\ d.incoming = c.incoming /\ d.nameTimer = c.nameTimer
            /\ d.name = name /\ d.state = "NAME_FETCHED"
        BY ONLY <2>3, <2>4, <4>1, name \in {"real", "fake"}, ZenonT(40) DEF Device, States
      <4>3. PICK e : e = [p.dev EXCEPT ![i] = d]
        OBVIOUS
      <4>4. e \in [Idx -> Device] /\ (\A j \in Idx : j # i => e[j] = p.dev[j]) /\ e[i] = d
        BY ONLY <2>2, <2>3, <4>2, <4>3
      <4>5. PICK r : r = With(p, e, b)
        OBVIOUS
      <4>6. But(r, i) /\ r.dev = e /\ r.bt = b /\ r.sdp = p.sdp
        <5>1. /\ Elsewhere(p.bt, b, p.dev[i].addr) /\ (p.dev[i].addr \in Addrs => AddrInv(b, p.dev[i].addr))
              /\ e[i].addr = p.dev[i].addr /\ e[i].connected = p.dev[i].connected
              /\ e[i].seat = p.dev[i].seat /\ (e[i].connTimer => p.dev[i].connTimer)
          BY <1>15, <1>16, <2>2, <2>4, <4>2, <4>4
        <5>2. i \in Idx /\ But(p, i) /\ b \in Stack
          BY <1>13, <2>2
        <5> QED
          BY ONLY <4>4, <4>5, <5>1, <5>2, ButWith
      <4>7. LifeAt(d, b) /\ Budget(d, b, p.sdp, i, 1)
        <5>1. d.name # None /\ (d.state = "READY" => c.state = "READY") /\ c.addr \notin b.names
          BY <2>5, <2>6, <4>2
        <5>2. c.addr \in p.bt.names
          BY <1>4, <2>5
        <5> QED
          BY ONLY <1>14, <2>5, <4>2, <5>1, <5>2, Answered
      <4>8. Ripe(r, i)
        <5>1. Spare(r, i)
          BY ONLY <4>4, <4>6, <4>7 DEF Spare
        <5>2. Live(r, i)
          BY <5>1, SpareIsLive
        <5> QED
          BY ONLY <2>6, <4>2, <4>4, <4>6, <5>1, <5>2 DEF Ripe
      <4>9. n = r
        <5>1. PICK e1 : e1 = [p.dev EXCEPT ![i].name = name]
          OBVIOUS
        <5>2. h = [g EXCEPT !.dev = e1]
          BY ONLY <1>9, <2>1, <5>1, StateFields
        <5>3. h = With(g, e1, b)
          BY ONLY <2>1, <5>2, StateFields DEF With
        <5>4. e = [e1 EXCEPT ![i].state = "NAME_FETCHED"]
          BY ONLY <2>2, <2>3, <2>4, <4>1, <4>3, <5>1
        <5>5. h.dev = e1
          BY ONLY <5>3 DEF With
        <5>6. n = [h EXCEPT !.dev = e]
          BY ONLY <1>10, <5>4, <5>5
        <5>7. n = With(g, e, b)
          BY ONLY <5>3, <5>6 DEF With
        <5>8. g = With(p, p.dev, b)
          BY ONLY <1>2, <1>6, StateFields DEF With
        <5> QED
          BY ONLY <4>5, <5>7, <5>8 DEF With
      <4> QED
        BY <1>11, <2>2, <3>2, <4>6, <4>8, <4>9, FsmSound
    <3> QED
      BY <3>1, <3>2
  <2>8. PICK r : r = [f EXCEPT !.dev[i].nameTimer = FALSE]
    OBVIOUS
  <2>9. Sound(r)
    BY ONLY <2>2, <2>7, <2>8, NameTimerOff
  <2> QED
    BY <1>12, <1>18, <2>8, <2>9, BecomesSound
<1> QED
  BY <1>17, <1>18

\* inquiry_remote_name_timeout_callback(): the control channel may be asked for
\* once less, by the timer.
LEMMA NameTimeoutKeeps ==
  ASSUME DevicesInv, NEW i \in Idx, NameTimeout(i)
  PROVE  DevicesInv'
<1>1. PICK g : g = g0
  OBVIOUS
<1>2. Sound(g) /\ g \in State /\ g.dev = dev /\ g.bt \in Stack /\ But(g, i) /\ At(g, i)
  BY <1>1, Parts, SoundBut
<1>3. g.dev \in [Idx -> Device] /\ g.dev[i] \in Device
  BY <1>2, StateFields
<1>4. PICK c : c = g.dev[i]
  OBVIOUS
<1>5. c.nameTimer
  BY <1>2, <1>4 DEF NameTimeout
<1>6. PICK d : d = [c EXCEPT !.name = "fake", !.nameTimer = FALSE, !.state = "NAME_FETCHED"]
  OBVIOUS
<1>7. /\ d \in Device /\ d.addr = c.addr /\ d.connected = c.connected /\ d.seat = c.seat
      /\ d.connTimer = c.connTimer /\ d.handle = c.handle /\ d.cid = c.cid
      /\ d.query = c.query /\ d.incoming = c.incoming /\ d.nameTimer = FALSE
      /\ d.name = "fake" /\ d.state = "NAME_FETCHED"
  BY ONLY <1>3, <1>4, <1>6, Zenon DEF Device, States
<1>8. PICK e : e = [g.dev EXCEPT ![i] = d]
  OBVIOUS
<1>9. e \in [Idx -> Device] /\ (\A j \in Idx : j # i => e[j] = g.dev[j]) /\ e[i] = d
  BY ONLY <1>3, <1>7, <1>8, i \in Idx
<1>10. PICK h : h = [g EXCEPT !.dev = e]
  OBVIOUS
<1>11. But(h, i) /\ h.dev = e /\ h.bt = g.bt /\ h.sdp = g.sdp
  <2>1. /\ e[i].addr = g.dev[i].addr /\ e[i].connected = g.dev[i].connected
        /\ e[i].seat = g.dev[i].seat /\ (e[i].connTimer => g.dev[i].connTimer)
    BY <1>4, <1>7, <1>9
  <2>2. But(g, i)
    BY <1>2
  <2> QED
    BY ONLY <1>9, <1>10, <2>1, <2>2, i \in Idx, ButPlace
<1>12. ASSUME d.addr # None
       PROVE  LifeAt(d, g.bt) /\ Budget(d, g.bt, g.sdp, i, 1)
  <2>1. LifeAt(c, g.bt) /\ Budget(c, g.bt, g.sdp, i, 2)
    BY <1>2, <1>4, <1>7, <1>12 DEF At
  <2>2. "fake" # None
    BY DEF None
  <2>3. LifeAt(d, g.bt)
    BY ONLY <1>7, <2>1, <2>2 DEF LifeAt
  <2>4. PICK m \in {0, 1} : m = IF c.addr \in g.bt.names THEN 1 ELSE 0
    OBVIOUS
  <2>5. PICK k \in {0, 1} : k = IF g.sdp.device = i /\ c.query = "before" THEN 1 ELSE 0
    OBVIOUS
  <2>6. PICK q \in Nat : q = Asked(g.bt, c.addr)
    BY DEF Asked
  <2>7. Uses(c, g.bt, g.sdp, i) = q + 1 + m + k
    BY ONLY <1>5, <2>4, <2>5, <2>6 DEF Uses
  <2>8. Uses(d, g.bt, g.sdp, i) = q + 0 + m + k
    BY ONLY <1>7, <2>4, <2>5, <2>6 DEF Uses
  <2>9. Budget(d, g.bt, g.sdp, i, 1)
    BY ONLY <1>7, <2>1, <2>7, <2>8, q \in Nat, m \in {0, 1}, k \in {0, 1} DEF Budget
  <2> QED
    BY <2>3, <2>9
<1>13. Ripe(h, i)
  <2>1. Spare(h, i)
    BY ONLY <1>9, <1>11, <1>12 DEF Spare
  <2>2. Live(h, i)
    BY <2>1, SpareIsLive
  <2>3. "fake" # None
    BY DEF None
  <2> QED
    BY ONLY <1>7, <1>9, <1>11, <2>1, <2>2, <2>3 DEF Ripe
<1>14. h = [g EXCEPT !.dev[i].name = "fake", !.dev[i].nameTimer = FALSE,
                     !.dev[i].state = "NAME_FETCHED"]
  BY ONLY <1>2, <1>3, <1>4, <1>6, <1>8, <1>10, i \in Idx, StateFields
<1>15. Becomes(Fsm(h, i))
  BY ONLY <1>1, <1>14, NameTimeout(i) DEF NameTimeout
<1> QED
  BY <1>11, <1>13, <1>15, FsmSound, BecomesSound

\* device_connection_timeout(): the timer of a device that has a seat stops.
LEMMA ConnectionTimeoutKeeps ==
  ASSUME DevicesInv, NEW i \in Idx, ConnectionTimeout(i)
  PROVE  DevicesInv'
<1>1. PICK g : g = g0
  OBVIOUS
<1>2. Sound(g) /\ g \in State /\ g.dev = dev /\ But(g, i) /\ At(g, i)
  BY <1>1, Parts, SoundBut
<1>3. PICK h : h = [g EXCEPT !.dev[i].connTimer = FALSE]
  OBVIOUS
<1>4. Becomes(IF g.dev[i].state = "READY" THEN h ELSE Delete(g, i))
  BY ONLY <1>1, <1>2, <1>3, ConnectionTimeout(i) DEF ConnectionTimeout
<1>5. CASE g.dev[i].state # "READY"
  BY <1>2, <1>4, <1>5, DeleteSound, BecomesSound
<1>6. CASE g.dev[i].state = "READY"
  <2>1. g.dev \in [Idx -> Device] /\ g.dev[i] \in Device
    BY <1>2, StateFields
  <2>2. PICK c : c = g.dev[i]
    OBVIOUS
  <2>3. PICK d : d = [c EXCEPT !.connTimer = FALSE]
    OBVIOUS
  <2>4. /\ d \in Device /\ d.addr = c.addr /\ d.connected = c.connected /\ d.seat = c.seat
        /\ d.connTimer = FALSE /\ d.handle = c.handle /\ d.cid = c.cid
        /\ d.query = c.query /\ d.incoming = c.incoming /\ d.nameTimer = c.nameTimer
        /\ d.name = c.name /\ d.state = c.state
    BY ONLY <2>1, <2>2, <2>3, Zenon DEF Device
  <2>5. PICK e : e = [g.dev EXCEPT ![i] = d]
    OBVIOUS
  <2>6. e \in [Idx -> Device] /\ (\A j \in Idx : j # i => e[j] = g.dev[j]) /\ e[i] = d
    BY ONLY <2>1, <2>4, <2>5, i \in Idx
  <2>7. h = [g EXCEPT !.dev = e]
    BY ONLY <1>2, <1>3, <2>1, <2>2, <2>3, <2>5, i \in Idx, StateFields
  <2>8. But(h, i) /\ h.dev = e /\ h.bt = g.bt /\ h.sdp = g.sdp
    <3>1. /\ e[i].addr = g.dev[i].addr /\ e[i].connected = g.dev[i].connected
          /\ e[i].seat = g.dev[i].seat /\ (e[i].connTimer => g.dev[i].connTimer)
      BY <2>2, <2>4, <2>6
    <3>2. But(g, i)
      BY <1>2
    <3> QED
      BY ONLY <2>6, <2>7, <3>1, <3>2, i \in Idx, ButPlace
  <2>9. ASSUME d.addr # None
        PROVE  LifeAt(d, g.bt) /\ SettledAt(d) /\ Budget(d, g.bt, g.sdp, i, 2)
    <3>1. LifeAt(c, g.bt) /\ SettledAt(c) /\ Budget(c, g.bt, g.sdp, i, 2)
      BY <1>2, <2>2, <2>4, <2>9 DEF At
    <3>2. c.state = "READY"
      BY <1>6, <2>2
    <3>3. LifeAt(d, g.bt)
      BY ONLY <2>4, <3>1, <3>2 DEF LifeAt
    <3>4. SettledAt(d)
      BY ONLY <2>4, <3>1 DEF SettledAt
    <3>5. Uses(d, g.bt, g.sdp, i) = Uses(c, g.bt, g.sdp, i)
      BY ONLY <2>4 DEF Uses
    <3>6. Budget(d, g.bt, g.sdp, i, 2)
      BY ONLY <2>4, <3>1, <3>5 DEF Budget
    <3> QED
      BY <3>3, <3>4, <3>6
  <2>10. At(h, i)
    BY ONLY <2>6, <2>8, <2>9 DEF At
  <2> QED
    BY <1>4, <1>6, <2>8, <2>10, SoundBut, BecomesSound
<1> QED
  BY <1>5, <1>6

\* The set-up of a parser ends.
LEMMA ParserDoneKeeps ==
  ASSUME DevicesInv, NEW i \in Idx, ParserDone(i)
  PROVE  DevicesInv'
<1>1. PICK g : g = g0
  OBVIOUS
<1>2. Sound(g) /\ g \in State /\ g.dev = dev /\ But(g, i) /\ At(g, i)
  BY <1>1, Parts, SoundBut
<1>3. g.dev \in [Idx -> Device] /\ g.dev[i] \in Device
  BY <1>2, StateFields
<1>4. PICK d : d = [g.dev[i] EXCEPT !.setup = FALSE]
  OBVIOUS
<1>5. d \in Device /\ Alike(g.dev[i], d)
  BY ONLY <1>3, <1>4, Zenon DEF Device, Alike
<1>6. PICK e : e = [g.dev EXCEPT ![i] = d]
  OBVIOUS
<1>7. e \in [Idx -> Device] /\ (\A j \in Idx : j # i => e[j] = g.dev[j]) /\ e[i] = d
  BY ONLY <1>3, <1>5, <1>6, i \in Idx
<1>8. PICK h : h = [g EXCEPT !.dev = e]
  OBVIOUS
<1>9. Turned(g, h, i, e)
  <2>1. Alike(g.dev[i], e[i]) /\ But(g, i)
    BY <1>2, <1>5, <1>7
  <2> QED
    BY ONLY <1>7, <1>8, <2>1, i \in Idx, AlikeTurned
<1>10. But(h, i) /\ Live(h, i)
  <2>1. Live(g, i)
    BY <1>2 DEF At, Live
  <2> QED
    BY <1>9, <2>1 DEF Turned
<1>11. h = [g EXCEPT !.dev[i].setup = FALSE]
  BY ONLY <1>2, <1>3, <1>4, <1>6, <1>8, i \in Idx, StateFields
<1>12. Becomes(SetReadyComplete(h, i))
  BY ONLY <1>1, <1>11, ParserDone(i) DEF ParserDone
<1> QED
  BY <1>10, <1>12, SetReadyCompleteSound, BecomesSound

\* sdp_query_timeout(): what the query might have asked for is not asked for.
LEMMA SdpTimeoutKeeps ==
  ASSUME DevicesInv, SdpTimeout
  PROVE  DevicesInv'
<1>1. PICK g : g = g0
  OBVIOUS
<1>2. Sound(g) /\ g \in State /\ Tidy(g)
  BY <1>1, Parts
<1>3. PICK s : s = [device |-> NoDevice, timer |-> FALSE]
  OBVIOUS
<1>4. s \in Sdp /\ s.device = NoDevice
  BY <1>3 DEF Sdp
<1>5. PICK r : r = [g EXCEPT !.sdp = s]
  OBVIOUS
<1>6. r \in State /\ r.dev = g.dev /\ r.used = g.used /\ r.bt = g.bt /\ r.sdp = s
  BY ONLY <1>2, <1>4, <1>5 DEF State
<1>7. Tidy(r)
  BY <1>2, <1>6, TableKept
<1>8. ASSUME NEW i \in Idx
      PROVE  At(r, i)
  <2>1. PICK d : d = g.dev[i]
    OBVIOUS
  <2>2. ASSUME d.addr # None
        PROVE  LifeAt(d, g.bt) /\ SettledAt(d) /\ Budget(d, g.bt, s, i, 2)
    <3>1. LifeAt(d, g.bt) /\ SettledAt(d) /\ Budget(d, g.bt, g.sdp, i, 2)
      BY <1>2, <2>1, <2>2 DEF Sound, At
    <3>2. d.addr \in Addrs
      BY <1>2, <2>1, <2>2, StateFields, Zenon DEF Device
    <3>3. Same(g.bt, g.bt, d.addr)
      BY DEF Same
    <3>4. s.device = i => g.sdp.device = i
      BY <1>4 DEF Idx, NoDevice
    <3>5. 2 \in Nat
      OBVIOUS
    <3> QED
      BY ONLY <3>1, <3>2, <3>3, <3>4, <3>5, SameBudget
  <2> QED
    BY ONLY <1>6, <2>1, <2>2 DEF At
<1>9. Sound(r)
  BY <1>2, <1>6, <1>7, <1>8 DEF Sound
<1>10. Becomes(r)
  BY <1>1, <1>3, <1>5 DEF SdpTimeout, Becomes, g0
<1> QED
  BY <1>9, <1>10, BecomesSound

\* The query ends.
LEMMA SdpCompleteKeeps ==
  ASSUME DevicesInv, NEW type \in Types, SdpComplete(type)
  PROVE  DevicesInv'
<1>1. Sound(QueryComplete(g0, type))
  BY Parts, QueryCompleteSound
<1> QED
  BY <1>1, BecomesSound DEF SdpComplete

\* What holds of the place of a device holds while nothing changes about its
\* link, its channels and the request of its name.
LEMMA StackAt ==
  ASSUME NEW g, NEW h, NEW i, h.dev = g.dev, h.sdp = g.sdp,
         h.bt.link = g.bt.link \/ h.bt.link[g.dev[i].addr] \notin Up,
         h.bt.chan = g.bt.chan, h.bt.twice = g.bt.twice, h.bt.names = g.bt.names, At(g, i)
  PROVE  At(h, i)
<1>1. PICK d : d = g.dev[i]
  OBVIOUS
<1>2. ASSUME d.addr # None
      PROVE  LifeAt(d, h.bt) /\ SettledAt(d) /\ Budget(d, h.bt, g.sdp, i, 2)
  <2>1. LifeAt(d, g.bt) /\ SettledAt(d) /\ Budget(d, g.bt, g.sdp, i, 2)
    BY <1>1, <1>2 DEF At
  <2>2. h.bt.link[d.addr] \in Up => h.bt.link[d.addr] = g.bt.link[d.addr]
    BY <1>1
  <2>3. LifeAt(d, h.bt)
    BY ONLY <2>1, <2>2, h.bt.chan = g.bt.chan, h.bt.twice = g.bt.twice, SameAsked
  <2>4. Uses(d, h.bt, g.sdp, i) = Uses(d, g.bt, g.sdp, i)
    BY DEF Uses, Asked
  <2> QED
    BY ONLY <2>1, <2>3, <2>4 DEF Budget
<1> QED
  BY <1>1, <1>2 DEF At

\* A link ends: what is to be told of it is all of its channels.
LEMMA LinkLostKeeps ==
  ASSUME DevicesInv, NEW a \in Addrs, LinkLost(a)
  PROVE  DevicesInv'
<1>1. PICK g : g = g0
  OBVIOUS
<1>2. Sound(g) /\ g \in State /\ g.bt = bt /\ g.bt \in Stack
  BY <1>1, Parts
<1>3. PICK l : l = {k \in Psms : bt.chan[a][k] # None}
                   \cup {"query" : q \in {bt.query} \cap {[addr |-> a, kind |-> k] : k \in {"pid", "hid"}}}
                   \cup {"again" : c \in bt.twice \cap ({a} \X Psms)}
  OBVIOUS
<1>4. l \in SUBSET (Psms \cup {"query", "again"}) /\ \A k \in Psms : bt.chan[a][k] # None => k \in l
  BY <1>3
<1>5. PICK b : b = [bt EXCEPT !.closing = a, !.left = l, !.link[a] = "closing"]
  OBVIOUS
<1>6. b \in Stack
  <2>1. PICK c : c = [bt EXCEPT !.closing = a]
    OBVIOUS
  <2>2. c \in Stack
    BY <1>2, <2>1 DEF Stack
  <2>3. PICK d : d = [c EXCEPT !.left = l]
    OBVIOUS
  <2>4. d \in Stack
    BY <1>4, <2>2, <2>3 DEF Stack
  <2>5. b = [d EXCEPT !.link[a] = "closing"]
    BY <1>5, <2>1, <2>3
  <2> QED
    BY <2>4, <2>5, StackIs DEF Links
<1>7. /\ b.chan = g.bt.chan /\ b.twice = g.bt.twice /\ b.names = g.bt.names
      /\ b.closing = a /\ b.left = l /\ b.link[a] = "closing"
      /\ \A x \in Addrs : x # a => b.link[x] = g.bt.link[x]
  BY <1>2, <1>5 DEF Stack
<1>8. g.bt.closing = None /\ a # None
  BY <1>2, NoneAssumption DEF LinkLost, Quiet
<1>9. Elsewhere(g.bt, b, a)
  BY <1>7, <1>8, NoneAssumption DEF Elsewhere, Same
<1>10. ASSUME NEW x \in Addrs
       PROVE  AddrInv(b, x)
  <2>1. AddrInv(g.bt, x)
    BY <1>2 DEF Sound
  <2>2. CASE x # a
    <3>1. Same(g.bt, b, x)
      BY <1>9, <2>2 DEF Elsewhere
    <3> QED
      BY ONLY <2>1, <3>1, x \in Addrs, SameAddr
  <2>3. CASE x = a
    <3>1. "interrupt" \in Psms /\ "control" \in Psms
      BY DEF Psms
    <3>2. /\ g.bt.chan[a]["interrupt"] # None => "interrupt" \in l
          /\ g.bt.chan[a]["control"] # None => "control" \in l
      BY <1>2, <1>4, <3>1
    <3>3. <<a, "interrupt">> \notin g.bt.twice
      BY <2>1, <2>3 DEF AddrInv
    <3> QED
      BY ONLY <1>7, <2>3, <3>2, <3>3 DEF AddrInv, None
  <2> QED
    BY <2>2, <2>3
<1>11. PICK h : h = [g EXCEPT !.bt = b]
  OBVIOUS
<1>12. Sound(h)
  <2>1. Tidy(g) /\ (\A j \in Idx : At(g, j)) /\ \A x \in Addrs : AddrInv(b, x)
    BY <1>2, <1>10 DEF Sound
  <2>2. /\ h.bt = b /\ h.dev = g.dev /\ h.sdp = g.sdp
        /\ (\A j \in Idx : g.dev[j].addr = a => At(h, j)) => Sound(h)
    BY ONLY <1>6, <1>9, <1>11, <2>1, a \in Addrs, StackSound
  <2>3. ASSUME NEW j \in Idx, g.dev[j].addr = a
        PROVE  At(h, j)
    <3>1. /\ h.dev = g.dev /\ h.sdp = g.sdp /\ h.bt.link[g.dev[j].addr] \notin Up
          /\ h.bt.chan = g.bt.chan /\ h.bt.twice = g.bt.twice /\ h.bt.names = g.bt.names
          /\ At(g, j)
      BY <1>7, <2>1, <2>2, <2>3 DEF Up
    <3> QED
      BY ONLY <3>1, StackAt
  <2> QED
    BY <2>2, <2>3
<1>13. bt' = b
  BY <1>3, <1>5 DEF LinkLost
<1>14. Becomes(h)
  BY <1>1, <1>11, <1>13 DEF LinkLost, Becomes, g0
<1> QED
  BY <1>12, <1>14, BecomesSound


\* SDP's channel closes.
LEMMA CloseQueryKeeps ==
  ASSUME DevicesInv, CloseQuery
  PROVE  DevicesInv'
<1>1. PICK g : g = g0
  OBVIOUS
<1>2. Sound(g) /\ g \in State /\ g.bt \in Stack
  BY <1>1, Parts
<1>3. PICK l : l = g.bt.left \ {"query"}
  BY Zenon
<1>4. PICK b : b = [g.bt EXCEPT !.left = l]
  OBVIOUS
<1>5. PICK h : h = [g EXCEPT !.bt = b]
  OBVIOUS
<1>6. /\ b \in Stack /\ b.left = l /\ b.link = g.bt.link /\ b.chan = g.bt.chan
      /\ b.twice = g.bt.twice /\ b.names = g.bt.names /\ b.closing = g.bt.closing
  BY ONLY <1>2, <1>3, <1>4 DEF Stack
<1>7. \A x \in Addrs : Same(g.bt, b, x)
  <2>1. "query" \notin Psms
    BY DEF Psms
  <2> QED
    BY <1>3, <1>6, <2>1 DEF Same
<1>8. Sound(h)
  BY ONLY <1>2, <1>5, <1>6, <1>7, SameSound
<1>9. h = [g EXCEPT !.bt.left = @ \ {"query"}]
  BY ONLY <1>2, <1>3, <1>4, <1>5, StateFields
<1>10. Becomes(QueryComplete(h, "descriptor"))
  BY ONLY <1>1, <1>9, CloseQuery DEF CloseQuery
<1>11. Sound(QueryComplete(h, "descriptor"))
  BY <1>8, QueryCompleteSound DEF Types
<1> QED
  BY <1>10, <1>11, BecomesSound

\* A channel of the device closes.
LEMMA CloseChannelKeeps ==
  ASSUME DevicesInv, NEW k \in Psms, CloseChannel(k)
  PROVE  DevicesInv'
<1>1. PICK g : g = g0
  OBVIOUS
<1>2. Sound(g) /\ g \in State /\ g.bt \in Stack /\ g.bt = bt
  BY <1>1, Parts
<1>3. PICK l : l = g.bt.left \ {k}
  OBVIOUS
<1>4. PICK b : b = [g.bt EXCEPT !.left = l]
  OBVIOUS
<1>5. PICK h : h = [g EXCEPT !.bt = b]
  OBVIOUS
<1>6. /\ b \in Stack /\ b.left = l /\ b.link = g.bt.link /\ b.chan = g.bt.chan
      /\ b.twice = g.bt.twice /\ b.names = g.bt.names /\ b.closing = g.bt.closing
  BY ONLY <1>2, <1>3, <1>4 DEF Stack
<1>7. h \in State /\ h.dev = g.dev /\ h.sdp = g.sdp /\ h.used = g.used /\ h.bt = b
  BY ONLY <1>2, <1>5, <1>6 DEF State
<1>8. h = [g EXCEPT !.bt.left = @ \ {k}]
  BY ONLY <1>2, <1>3, <1>4, <1>5, StateFields
<1>9. PICK a : a = bt.closing
  OBVIOUS
<1>10. Becomes(Failed(h, a, k))
  BY ONLY <1>1, <1>8, <1>9, CloseChannel(k) DEF CloseChannel
<1>11. a \in Addrs \cup {None} /\ g.bt.closing = a
  BY <1>2, <1>9, StackIs
<1>12. Tidy(h) /\ \A i \in Idx : At(h, i)
  <2>1. Tidy(h)
    BY <1>2, <1>7, TableKept DEF Sound
  <2>2. ASSUME NEW i \in Idx
        PROVE  At(h, i)
    <3>1. /\ h.dev = g.dev /\ h.sdp = g.sdp /\ h.bt.link = g.bt.link
          /\ h.bt.chan = g.bt.chan /\ h.bt.twice = g.bt.twice /\ h.bt.names = g.bt.names
          /\ At(g, i)
      BY <1>2, <1>6, <1>7 DEF Sound
    <3> QED
      BY ONLY <3>1, StackAt
  <2> QED
    BY <2>1, <2>2
<1>13. CASE a \in Addrs
  <2>1. PICK c : c = [h.bt EXCEPT !.chan[a][k] = None]
    OBVIOUS
  <2>2. /\ c.link = b.link /\ c.twice = b.twice /\ c.names = b.names
        /\ c.closing = b.closing /\ c.left = b.left
        /\ c.chan[a][k] = None /\ (\A m \in Psms : m # k => c.chan[a][m] = b.chan[a][m])
        /\ \A x \in Addrs : x # a => c.chan[x] = b.chan[x]
    BY ONLY <1>6, <1>7, <1>13, <2>1, k \in Psms DEF Stack
  <2>3. ASSUME NEW x \in Addrs
        PROVE  AddrInv(c, x)
    <3>1. AddrInv(g.bt, x)
      BY <1>2 DEF Sound
    <3>2. CASE x # a
      <4>1. c.closing # x /\ g.bt.closing # x /\ c.chan[x] = g.bt.chan[x]
        BY <1>6, <1>11, <2>2, <3>2
      <4> QED
        BY ONLY <1>6, <2>2, <3>1, <4>1 DEF AddrInv
    <3>3. CASE x = a
      <4>1. \A m \in Psms : m # k => (m \in c.left <=> m \in g.bt.left)
        BY <1>3, <1>6, <2>2
      <4>2. \A m \in Psms : c.chan[a][m] \in {None, g.bt.chan[a][m]} /\ (c.chan[a][m] # None => m # k)
        BY <1>6, <2>2
      <4>3. /\ "interrupt" \in Psms /\ "control" \in Psms
            /\ None \notin {"open", "coming"}
        BY DEF Psms, None
      <4>4. c.chan[a]["interrupt"] # None /\ c.closing = a => "interrupt" \in c.left
        BY ONLY <1>6, <2>2, <3>1, <3>3, <4>1, <4>2, <4>3 DEF AddrInv
      <4>5. c.chan[a]["control"] \in {"open", "coming"} /\ c.closing = a => "control" \in c.left
        BY ONLY <1>6, <2>2, <3>1, <3>3, <4>1, <4>2, <4>3 DEF AddrInv
      <4>6. c.link[a] = None => \A m \in Psms : c.chan[a][m] = None /\ <<a, m>> \notin c.twice
        BY ONLY <1>6, <2>2, <3>1, <3>3, <4>2 DEF AddrInv
      <4> QED
        BY ONLY <1>6, <2>2, <3>1, <3>3, <4>4, <4>5, <4>6 DEF AddrInv
    <3> QED
      BY <3>2, <3>3
  <2>4. Sound(Failed(h, a, k))
    BY ONLY <1>12, <1>13, <2>1, <2>3, k \in Psms, FailedSound
  <2> QED
    BY <1>10, <2>4, BecomesSound
<1>14. CASE a = None
  <2>1. \A x \in Addrs : Same(g.bt, b, x)
    BY <1>6, <1>11, <1>14, NoneAssumption DEF Same
  <2>2. Sound(h)
    BY ONLY <1>2, <1>5, <1>6, <2>1, SameSound
  <2>3. h = [h EXCEPT !.bt.chan[a][k] = None]
    <3>1. b.chan \in [Addrs -> [Psms -> Channels]] /\ a \notin Addrs
      BY <1>6, <1>14, StackIs, NoneAssumption
    <3>2. b.chan = [b.chan EXCEPT ![a][k] = None]
      BY ONLY <3>1
    <3>3. b = [b EXCEPT !.chan[a][k] = None]
      BY ONLY <1>6, <3>2 DEF Stack
    <3> QED
      BY ONLY <1>7, <3>3 DEF State
  <2>4. PICK gone : gone = {i \in Places(h.dev, a) :
                              \/ h.bt.chan[a][k] = "asked"
                              \/ k \in h.dev[i].cid /\ <<a, k>> \notin h.bt.twice}
    OBVIOUS
  <2>5. Failed(h, a, k) = IF gone = {} THEN h ELSE Delete(h, CHOOSE i \in gone : TRUE)
    BY ONLY <2>3, <2>4 DEF Failed
  <2>6. gone # {} => (CHOOSE i \in gone : TRUE) \in Idx
    BY <2>4 DEF Places
  <2>7. Sound(Failed(h, a, k))
    BY <2>2, <2>5, <2>6, SoundBut, DeleteSound
  <2> QED
    BY <1>10, <2>7, BecomesSound
<1> QED
  BY <1>11, <1>13, <1>14

\* The second request of a channel is refused: the place is cleared.
LEMMA CloseAgainKeeps ==
  ASSUME DevicesInv, CloseAgain
  PROVE  DevicesInv'
<1>1. PICK g : g = g0
  OBVIOUS
<1>2. Sound(g) /\ g \in State /\ g.bt \in Stack /\ g.bt = bt
  BY <1>1, Parts
<1>3. PICK a : a = bt.closing
  OBVIOUS
<1>4. a \in Addrs \cup {None} /\ g.bt.closing = a
  BY <1>2, <1>3, StackIs
<1>5. PICK l : l = g.bt.left \ {"again"}
  OBVIOUS
<1>6. PICK t : t = g.bt.twice \ ({a} \X Psms)
  OBVIOUS
<1>7. PICK b : b = [g.bt EXCEPT !.left = l, !.twice = t]
  OBVIOUS
<1>8. /\ b \in Stack /\ b.left = l /\ b.twice = t /\ b.link = g.bt.link /\ b.chan = g.bt.chan
      /\ b.names = g.bt.names /\ b.closing = g.bt.closing
  BY ONLY <1>2, <1>5, <1>6, <1>7 DEF Stack
<1>9. PICK h : h = [g EXCEPT !.bt = b]
  OBVIOUS
<1>10. h = [g EXCEPT !.bt.left = @ \ {"again"}, !.bt.twice = @ \ ({a} \X Psms)]
  BY ONLY <1>2, <1>5, <1>6, <1>7, <1>9, StateFields
<1>11. Becomes(Refused(h, a))
  BY ONLY <1>1, <1>3, <1>10, CloseAgain DEF CloseAgain
<1>12. \A k \in Psms : k \in l <=> k \in g.bt.left
  BY <1>5 DEF Psms
<1>13. \A x \in Addrs, k \in Psms : x # a => (<<x, k>> \in t <=> <<x, k>> \in g.bt.twice)
  BY <1>6
<1>14. CASE a \in Addrs
  <2>1. Elsewhere(g.bt, b, a)
    BY <1>8, <1>12, <1>13 DEF Elsewhere, Same
  <2>2. ASSUME NEW x \in Addrs
        PROVE  AddrInv(b, x)
    <3>1. AddrInv(g.bt, x)
      BY <1>2 DEF Sound
    <3>2. "interrupt" \in Psms /\ "control" \in Psms
      BY DEF Psms
    <3>3. \A k \in Psms : <<x, k>> \in t => <<x, k>> \in g.bt.twice
      BY <1>6
    <3> QED
      BY ONLY <1>8, <1>12, <3>1, <3>2, <3>3 DEF AddrInv
  <2>3. /\ Tidy(h) /\ h.bt = b /\ h.dev = g.dev
        /\ \A i \in Idx : g.dev[i].addr # a => At(h, i)
    <3>1. Tidy(g) /\ (\A j \in Idx : At(g, j)) /\ \A x \in Addrs : AddrInv(b, x)
      BY <1>2, <2>2 DEF Sound
    <3> QED
      BY ONLY <1>8, <1>9, <1>14, <2>1, <3>1, StackSound
  <2>4. Sound(Refused(h, a))
    BY ONLY <1>14, <2>2, <2>3, RefusedSound
  <2> QED
    BY <1>11, <2>4, BecomesSound
<1>15. CASE a = None
  <2>1. \A x \in Addrs : Same(g.bt, b, x)
    BY <1>8, <1>12, <1>13, <1>15, NoneAssumption DEF Same
  <2>2. Sound(h)
    BY ONLY <1>2, <1>8, <1>9, <2>1, SameSound
  <2>3. Sound(Refused(h, a))
    BY <2>2, PlaceOfFits, SoundBut, DeleteSound DEF Refused
  <2> QED
    BY <1>11, <2>3, BecomesSound
<1> QED
  BY <1>4, <1>14, <1>15

\* The link has ended: a device that had a handle loses its place, and so did
\* one that was connected.  One that has none may have asked for a channel, and
\* is paged again.
LEMMA CloseLinkKeeps ==
  ASSUME DevicesInv, CloseLink
  PROVE  DevicesInv'
<1>1. PICK g : g = g0
  OBVIOUS
<1>2. Sound(g) /\ g \in State /\ g.bt \in Stack /\ g.bt = bt /\ g.dev = dev
  BY <1>1, Parts
<1>3. PICK a : a = bt.closing
  OBVIOUS
<1>4. a \in Addrs /\ g.bt.closing = a /\ g.bt.left = {} /\ a # None
  BY <1>2, <1>3, StackIs, Zenon DEF CloseLink, Quiet
<1>5. /\ AddrInv(g.bt, a) /\ g.bt.chan[a]["interrupt"] = None
      /\ g.bt.chan[a]["control"] \in {None, "asked"} /\ <<a, "interrupt">> \notin g.bt.twice
      /\ g.bt.chan[a] \in [Psms -> Channels]
  <2>1. AddrInv(g.bt, a) /\ g.bt.chan[a] \in [Psms -> Channels] /\ "control" \in Psms
    BY <1>2, <1>4, StackIs DEF Sound, Psms
  <2>2. g.bt.chan[a]["control"] \in Channels
    BY <2>1
  <2> QED
    BY <1>4, <2>1, <2>2 DEF AddrInv, Channels
<1>6. PICK gone : gone = {i \in Places(dev, a) : dev[i].handle}
  OBVIOUS
<1>7. PICK p : p = IF gone = {} THEN g ELSE Delete(g, CHOOSE i \in gone : TRUE)
  OBVIOUS
<1>8. PICK asked : asked = {k \in Psms : g.bt.chan[a][k] = "asked" \/ <<a, k>> \in g.bt.twice}
  OBVIOUS
<1>9. PICK l : l = IF asked # {} \/ (bt.query # NoQuery /\ bt.query.addr = a) THEN "paging" ELSE None
  OBVIOUS
<1>10. PICK c : c = [k \in Psms |-> IF k \in asked THEN "asked" ELSE None]
  OBVIOUS
<1>11. PICK t : t = p.bt.twice \ ({a} \X Psms)
  OBVIOUS
<1>12. PICK r : r = [p EXCEPT !.bt.link[a] = l, !.bt.chan[a] = c, !.bt.twice = t, !.bt.closing = None]
  OBVIOUS
\* What a cleared place leaves.
<1>14. /\ Sound(p) /\ p \in State /\ p.bt \in Stack
       /\ p.bt.chan = g.bt.chan /\ p.bt.twice = g.bt.twice /\ p.bt.closing = a /\ p.bt.left = {}
       /\ p.bt.names = g.bt.names
       /\ \A i \in Idx : p.dev[i].addr = a => ~p.dev[i].handle
  <2>1. CASE gone = {}
    BY <1>2, <1>4, <1>6, <1>7, <2>1 DEF Places
  <2>2. CASE gone # {}
    <3>1. PICK i : i = CHOOSE q \in gone : TRUE
      OBVIOUS
    <3>2. i \in gone
      BY <2>2, <3>1
    <3>3. i \in Idx /\ g.dev[i].addr = a
      BY <1>2, <1>6, <3>2 DEF Places
    <3>4. p = Delete(g, i)
      BY <1>7, <2>2, <3>1
    <3>5. Sound(p) /\ Cleared(g, p, i)
      BY <1>2, <3>3, <3>4, SoundBut, DeleteSound, DeleteIs
    <3>6. p \in State /\ p.bt \in Stack
      BY <3>5, StateFields DEF Sound, Tidy
    <3>7. \A j \in Idx : p.dev[j].addr # a
      <4>1. \A j \in Idx : j # i => g.dev[j].addr # a
        BY <1>2, <1>4, <3>3 DEF Sound, Tidy, TableInv
      <4> QED
        BY <1>4, <3>5, <4>1, EmptyIsDevice DEF Cleared
    <3> QED
      BY <1>4, <3>5, <3>6, <3>7 DEF Cleared
  <2> QED
    BY <2>1, <2>2
<1>15. asked \in SUBSET {"control"} /\ (asked # {} => c["control"] = "asked")
       /\ c \in [Psms -> Channels] /\ c["interrupt"] = None
       /\ c["control"] \in {None, "asked"}
       /\ (c["control"] = "asked" <=> g.bt.chan[a]["control"] = "asked" \/ <<a, "control">> \in g.bt.twice)
       /\ l \in {None, "paging"} /\ (l = None => \A k \in Psms : c[k] = None)
  <2>1. asked \in SUBSET {"control"}
    BY <1>5, <1>8 DEF Psms, None
  <2>2. \A k \in Psms : c[k] = IF k \in asked THEN "asked" ELSE None
    BY <1>10
  <2>3. "control" \in Psms /\ "interrupt" \in Psms /\ "interrupt" \notin {"control"}
    BY DEF Psms
  <2>4. c \in [Psms -> Channels]
    BY <1>10 DEF Channels
  <2>5. "control" \in asked <=> g.bt.chan[a]["control"] = "asked" \/ <<a, "control">> \in g.bt.twice
    BY <1>8, <2>3
  <2> QED
    BY <1>9, <2>1, <2>2, <2>3, <2>4, <2>5 DEF None
<1>16. PICK b : b = [p.bt EXCEPT !.link[a] = l, !.chan[a] = c, !.twice = t, !.closing = None]
  OBVIOUS
<1>17. /\ b \in Stack /\ b.link[a] = l /\ b.chan[a] = c /\ b.twice = t /\ b.closing = None
       /\ b.names = p.bt.names /\ b.left = {}
       /\ \A x \in Addrs : x # a => b.link[x] = p.bt.link[x] /\ b.chan[x] = p.bt.chan[x]
  <2>1. l \in Links /\ t \in SUBSET (Addrs \X Psms)
    BY <1>11, <1>14, <1>15, StackIs DEF Links
  <2>2. PICK u : u = [p.bt.link EXCEPT ![a] = l]
    OBVIOUS
  <2>3. PICK v : v = [p.bt.chan EXCEPT ![a] = c]
    OBVIOUS
  <2>4. /\ u \in [Addrs -> Links] /\ u[a] = l /\ \A x \in Addrs : x # a => u[x] = p.bt.link[x]
    BY ONLY <1>4, <1>14, <2>1, <2>2, StackIs
  <2>5. /\ v \in [Addrs -> [Psms -> Channels]] /\ v[a] = c
        /\ \A x \in Addrs : x # a => v[x] = p.bt.chan[x]
    BY ONLY <1>4, <1>14, <1>15, <2>3, StackIs
  <2>6. b = [p.bt EXCEPT !.link = u, !.chan = v, !.twice = t, !.closing = None]
    BY ONLY <1>14, <1>16, <2>2, <2>3 DEF Stack
  <2>7. /\ b \in Stack /\ b.link = u /\ b.chan = v /\ b.twice = t /\ b.closing = None
        /\ b.names = p.bt.names /\ b.left = p.bt.left
    BY ONLY <1>14, <2>1, <2>4, <2>5, <2>6 DEF Stack
  <2> QED
    BY <1>14, <2>4, <2>5, <2>7
<1>18. \A x \in Addrs, k \in Psms : <<x, k>> \in t <=> x # a /\ <<x, k>> \in p.bt.twice
  BY <1>11
<1>19. Elsewhere(p.bt, b, a)
  <2>1. \A x \in Addrs : x # None
    BY NoneAssumption
  <2> QED
    BY <1>14, <1>17, <1>18, <2>1 DEF Elsewhere, Same
<1>20. ASSUME NEW x \in Addrs
       PROVE  AddrInv(b, x)
  <2>1. CASE x # a
    <3>1. AddrInv(p.bt, x) /\ Same(p.bt, b, x)
      BY <1>14, <1>19, <2>1 DEF Sound, Elsewhere
    <3> QED
      BY ONLY <3>1, x \in Addrs, SameAddr
  <2>2. CASE x = a
    <3>1. \A k \in Psms : <<a, k>> \notin b.twice
      BY <1>4, <1>17, <1>18
    <3>2. "interrupt" \in Psms
      BY DEF Psms
    <3> QED
      BY ONLY <1>4, <1>15, <1>17, <2>2, <3>1, <3>2 DEF AddrInv, None
  <2> QED
    BY <2>1, <2>2
<1>21. r = [p EXCEPT !.bt = b]
  BY ONLY <1>12, <1>14, <1>16, StateFields, ZenonT(40)
<1>22. /\ r.bt = b /\ r.dev = p.dev /\ r.sdp = p.sdp
       /\ (\A i \in Idx : p.dev[i].addr = a => At(r, i)) => Sound(r)
  <2>1. Tidy(p) /\ (\A j \in Idx : At(p, j)) /\ \A x \in Addrs : AddrInv(b, x)
    BY <1>14, <1>20 DEF Sound
  <2> QED
    BY ONLY <1>4, <1>17, <1>19, <1>21, <2>1, StackSound
<1>23. ASSUME NEW i \in Idx, p.dev[i].addr = a
       PROVE  At(r, i)
  <2>1. PICK d : d = p.dev[i]
    OBVIOUS
  <2>2. d.addr = a /\ ~d.handle
    BY <1>14, <1>23, <2>1
  <2>3. LifeAt(d, p.bt) /\ SettledAt(d) /\ Budget(d, p.bt, p.sdp, i, 2)
    BY <1>4, <1>14, <1>23, <2>1 DEF Sound, At
  <2>4. PICK n \in {0, 1} : n = IF c["control"] = "asked" THEN 1 ELSE 0
    OBVIOUS
  <2>5. Asked(b, a) = n
    <3>1. <<a, "control">> \notin b.twice
      BY <1>4, <1>17, <1>18 DEF Psms
    <3> QED
      BY ONLY <1>15, <1>17, <2>4, <3>1 DEF Asked, None
  <2>6. PICK m \in Nat : m = Asked(p.bt, a)
    BY DEF Asked
  <2>7. n <= m
    <3>1. c["control"] = "asked" => m # 0
      BY <1>14, <1>15, <2>6 DEF Asked, None
    <3> QED
      BY <2>4, <3>1
  <2>8. LifeAt(d, b)
    <3>1. b.link[a] \notin Up
      BY <1>15, <1>17 DEF Up, None
    <3>2. /\ ~d.connected /\ (d.state = "READY" => d.seat = "seat")
          /\ d.connTimer \/ d.seat = "seat"
          /\ d.query = "before" => d.name # None
          /\ ~d.incoming /\ m # 0 => "control" \in d.cid /\ d.name # None
      BY ONLY <2>2, <2>3, <2>6 DEF LifeAt
    <3>3. n # 0 => m # 0
      BY <2>7
    <3>4. b.chan[a]["control"] # "coming" /\ b.chan[a]["interrupt"] = None
      BY <1>15, <1>17 DEF None
    <3> QED
      BY ONLY <2>2, <2>5, <3>1, <3>2, <3>3, <3>4 DEF LifeAt
  <2>9. Budget(d, b, p.sdp, i, 2)
    <3>1. PICK k \in Nat : k = (IF d.nameTimer THEN 1 ELSE 0) + (IF d.addr \in p.bt.names THEN 1 ELSE 0)
                               + (IF p.sdp.device = i /\ d.query = "before" THEN 1 ELSE 0)
      OBVIOUS
    <3>2. Uses(d, p.bt, p.sdp, i) = m + k /\ Uses(d, b, p.sdp, i) = n + k
      BY ONLY <1>17, <2>2, <2>5, <2>6, <3>1, n \in {0, 1}, m \in Nat DEF Uses
    <3> QED
      BY ONLY <2>3, <2>7, <3>2, k \in Nat, m \in Nat, n \in {0, 1} DEF Budget
  <2> QED
    BY <1>22, <2>1, <2>3, <2>8, <2>9 DEF At
<1>24. Becomes(r)
  <2>1. PICK f : f = [p EXCEPT !.bt.link[a] = l, !.bt.chan[a] = c,
                              !.bt.twice = @ \ ({a} \X Psms), !.bt.closing = None]
    OBVIOUS
  <2>2. f = r
    BY ONLY <1>11, <1>12, <1>14, <2>1, StateFields DEF Stack
  <2>3. asked = {k \in Psms : bt.chan[a][k] = "asked" \/ <<a, k>> \in bt.twice}
    BY ONLY <1>2, <1>8
  <2>4. p = IF gone = {} THEN g0 ELSE Delete(g0, CHOOSE i \in gone : TRUE)
    BY ONLY <1>1, <1>7
  <2>6. c = [k \in Psms |-> IF k \in {m \in Psms : bt.chan[a][m] = "asked" \/ <<a, m>> \in bt.twice}
                              THEN "asked" ELSE None]
    BY ONLY <1>10, <2>3
  <2>5. Becomes(f)
    BY ONLY <1>3, <1>6, <1>9, <2>1, <2>3, <2>4, <2>6, CloseLink, ZenonT(40) DEF CloseLink
  <2> QED
    BY ONLY <2>2, <2>5
<1> QED
  BY <1>22, <1>23, <1>24, BecomesSound

\* The initial state.
LEMMA InitHolds == Init => DevicesInv
<1> SUFFICES ASSUME Init
             PROVE  DevicesInv
  OBVIOUS
<1>1. PICK g : g = g0
  OBVIOUS
<1>2. /\ g.dev = [i \in Idx |-> Empty] /\ g.used = 0 /\ g.asserted = FALSE
      /\ g.sdp = [device |-> NoDevice, timer |-> FALSE] /\ g.bt = bt
      /\ g = [dev |-> g.dev, sdp |-> g.sdp, used |-> g.used, asserted |-> g.asserted,
              bt |-> g.bt]
  BY <1>1 DEF Init, g0
<1>3. bt \in Stack
  BY DEF Init, Stack, Links, Channels, Queries, NoQuery
<1>4. g \in State
  <2>1. g.dev \in [Idx -> Device] /\ g.used \in 0 .. N /\ g.sdp \in Sdp
    BY <1>2, EmptyIsDevice, NAssumption DEF Sdp
  <2> QED
    BY <1>2, <1>3, <2>1 DEF State
<1>5. \A i \in Idx : g.dev[i] = Empty
  BY <1>2
<1>6. Seats(g) = {}
  BY <1>5, EmptyIsDevice DEF Seats
<1>7. TableInv(g)
  BY <1>2, <1>5, <1>6, EmptyIsDevice, FS_EmptySet DEF TableInv
<1>8. ASSUME NEW a \in Addrs
      PROVE  AddrInv(g.bt, a)
  <2>1. /\ g.bt.link[a] = None /\ (\A k \in Psms : g.bt.chan[a][k] = None)
        /\ g.bt.twice = {} /\ g.bt.closing = None /\ a # None
    BY <1>2, NoneAssumption DEF Init
  <2> QED
    BY <2>1 DEF AddrInv, None
<1>9. \A i \in Idx : At(g, i)
  BY <1>5, EmptyIsDevice DEF At
<1> QED
  BY <1>1, <1>4, <1>7, <1>8, <1>9 DEF DevicesInv, Sound, Tidy

\* A step of the next-state relation keeps the invariant.
LEMMA NextKeeps == DevicesInv /\ [Next]_vars => DevicesInv'
<1> SUFFICES ASSUME DevicesInv, [Next]_vars
             PROVE  DevicesInv'
  OBVIOUS
<1>1. CASE UNCHANGED vars
  <2>1. g0' = g0
    BY <1>1 DEF vars, g0
  <2> QED
    BY <2>1 DEF DevicesInv
<1>2. CASE Next
  <2>1. ASSUME NEW a \in Addrs, NEW name \in {None, "real"}, Inquiry(a, name)
        PROVE  DevicesInv'
    BY <2>1, InquiryKeeps
  <2>2. ASSUME NEW a \in Addrs, ConnectionRequest(a) \/ ConnectionComplete(a)
        PROVE  DevicesInv'
    BY <2>2, ConnectionRequestKeeps, ConnectionCompleteKeeps
  <2>3. ASSUME NEW a \in Addrs, IncomingControl(a) \/ IncomingInterrupt(a)
        PROVE  DevicesInv'
    BY <2>3, IncomingControlKeeps, IncomingInterruptKeeps
  <2>4. ASSUME NEW a \in Addrs, NEW k \in Psms,
               ChannelOpened(a, k) \/ ChannelClosed(a, k) \/ ChannelRefused(a, k)
        PROVE  DevicesInv'
    BY <2>4, ChannelOpenedKeeps, ChannelClosedKeeps, ChannelRefusedKeeps
  <2>5. ASSUME NEW a \in Addrs, NEW name \in {"real", "fake"}, NameComplete(a, name)
        PROVE  DevicesInv'
    BY <2>5, NameCompleteKeeps
  <2>6. ASSUME NEW a \in Addrs, LinkLost(a)
        PROVE  DevicesInv'
    BY <2>6, LinkLostKeeps
  <2>7. ASSUME NEW i \in Idx, NameTimeout(i) \/ ConnectionTimeout(i) \/ ParserDone(i)
        PROVE  DevicesInv'
    BY <2>7, NameTimeoutKeeps, ConnectionTimeoutKeeps, ParserDoneKeeps
  <2>8. CASE SdpTimeout
    BY <2>8, SdpTimeoutKeeps
  <2>9. ASSUME NEW type \in Types, SdpComplete(type)
        PROVE  DevicesInv'
    BY <2>9, SdpCompleteKeeps
  <2>10. ASSUME NEW k \in Psms, CloseChannel(k)
         PROVE  DevicesInv'
    BY <2>10, CloseChannelKeeps
  <2>11. CASE CloseQuery \/ CloseAgain \/ CloseLink
    BY <2>11, CloseQueryKeeps, CloseAgainKeeps, CloseLinkKeeps
  <2> QED
    BY <1>2, <2>1, <2>2, <2>3, <2>4, <2>5, <2>6, <2>7, <2>8, <2>9, <2>10, <2>11 DEF Next
<1> QED
  BY <1>1, <1>2

-----------------------------------------------------------------------------
(* The theorems.                                                           *)

\* The inductive invariant: a device is in the table once, a free place has no
\* timer and no connection whatever a late query has left in it, the seats are
\* counted, a place has a timer or a seat, one that is connected has its
\* interrupt channel open, and what may still ask for a control channel is
\* bounded, so that no channel closes behind a place's back.
THEOREM Inductive == Spec => []DevicesInv
<1>1. Init => DevicesInv
  BY InitHolds
<1>2. DevicesInv /\ [Next]_vars => DevicesInv'
  BY NextKeeps
<1> QED
  BY <1>1, <1>2, PTL DEF Spec

\* The places, the query and the count of the seats have their types:
\* used_controllers_ is never below zero or above the number of places, though
\* the place of a query that ends late may be another device's or nobody's.
THEOREM TypesAlwaysRight == Spec => []TypeOK
<1>1. DevicesInv => TypeOK
  <2> SUFFICES ASSUME DevicesInv
               PROVE  TypeOK
    OBVIOUS
  <2>1. g0 \in State /\ g0.dev = dev /\ g0.sdp = sdp /\ g0.used = used /\ g0.asserted = asserted
    BY Parts
  <2> QED
    BY <2>1, StateFields DEF TypeOK, Sdp
<1> QED
  BY <1>1, Inductive, PTL

\* A device has one place, whether it was discovered, called by itself or
\* opened its channels again: uni_hid_device_create() is never reached for an
\* address that is in the table.
THEOREM OnceInTheTable == Spec => []OnePlace
<1>1. DevicesInv => OnePlace
  <2> SUFFICES ASSUME DevicesInv
               PROVE  OnePlace
    OBVIOUS
  <2>1. g0.dev = dev /\ TableInv(g0)
    BY Parts DEF Tidy
  <2> QED
    BY <2>1 DEF TableInv, OnePlace
<1> QED
  BY <1>1, Inductive, PTL

\* The seats are those of the devices that are connected and got ready:
\* arduino_on_device_ready() and arduino_on_device_disconnected() come in turns,
\* whatever ends the device, so that no seat is given twice or lost.
THEOREM SeatsAlwaysMatch == Spec => []SeatsMatch
<1>1. DevicesInv => SeatsMatch
  <2> SUFFICES ASSUME DevicesInv
               PROVE  SeatsMatch
    OBVIOUS
  <2>1. g0.dev = dev /\ g0.used = used /\ TableInv(g0)
    BY Parts DEF Tidy
  <2>2. used = Cardinality({i \in Idx : dev[i].seat = "seat"})
    BY <2>1 DEF TableInv, Seats
  <2>3. ASSUME NEW i \in Idx, dev[i].seat = "seat"
        PROVE  dev[i].connected
    BY <2>1, <2>3 DEF TableInv, PlaceInv
  <2> QED
    BY <2>2, <2>3 DEF SeatsMatch
<1> QED
  BY <1>1, Inductive, PTL

\* No place is kept for ever: the 20 s timer of uni_hid_device_create() watches
\* it, or its device has a seat, a handle and a link whose end frees the place.
THEOREM NoPlaceKept == Spec => []PlacesKept
<1>1. DevicesInv => PlacesKept
  <2> SUFFICES ASSUME DevicesInv
               PROVE  PlacesKept
    OBVIOUS
  <2>1. Sound(g0) /\ g0.dev = dev /\ g0.bt = bt /\ TableInv(g0) /\ dev \in [Idx -> Device]
    BY Parts DEF Tidy
  <2>2. ASSUME NEW i \in Idx, dev[i].addr = None
        PROVE  ~dev[i].connTimer /\ ~dev[i].connected /\ dev[i].seat # "seat"
    BY <2>1, <2>2 DEF TableInv, PlaceInv
  <2>3. ASSUME NEW i \in Idx, dev[i].addr # None
        PROVE  dev[i].connTimer \/ (dev[i].seat = "seat" /\ dev[i].handle /\ bt.link[dev[i].addr] # None)
    <3>1. LifeAt(dev[i], bt) /\ dev[i].addr \in Addrs
      BY <2>1, <2>3, Zenon DEF Sound, At, Device
    <3>2. AddrInv(bt, dev[i].addr)
      BY <2>1, <3>1 DEF Sound
    <3>3. CASE dev[i].connTimer
      BY <3>3
    <3>4. CASE ~dev[i].connTimer
      <4>1. dev[i].seat = "seat"
        BY <3>1, <3>4 DEF LifeAt
      <4>2. dev[i].connected
        BY <2>1, <4>1 DEF TableInv, PlaceInv
      <4>3. dev[i].handle /\ bt.chan[dev[i].addr]["interrupt"] = "open"
        BY <3>1, <4>2 DEF LifeAt
      <4>4. bt.link[dev[i].addr] # None
        BY <3>2, <4>3 DEF AddrInv, Psms, None
      <4> QED
        BY <4>1, <4>3, <4>4
    <3> QED
      BY <3>3, <3>4
  <2> QED
    BY <2>2, <2>3 DEF PlacesKept
<1> QED
  BY <1>1, Inductive, PTL
=============================================================================
