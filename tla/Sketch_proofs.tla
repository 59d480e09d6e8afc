---------------------------- MODULE Sketch_proofs ----------------------------
(***************************************************************************)
(* Proofs about Sketch, for any inputs that are pressed, any keys of the   *)
(* keyboards, any length of the queue and any gamepads and keyboards: no   *)
(* key is left pressed, and none that is held is missed, but for the codes *)
(* that are lost and the keys that one controller takes from another.      *)
(***************************************************************************)
EXTENDS Sketch, SequenceTheorems, FiniteSetTheorems, TLAPS

USE SketchAssumption

\* A release of a key that stays pressed is made before the key is pressed in
\* the new layout.
ReleasesFirst ==
    \A c \in Releases \cap due : c + 6 \in due \/ Calls[c] \notin padHeld

\* A controller holds the key, and no other one has taken it.
Kept(k) == (\E d \in Controllers : k \in held[d]) /\ k \notin taken

\* The flags are what a gamepad holds, and what a keyboard holds.
FlagsHeld ==
    /\ \A k \in padHeld : \E p \in Pads : k \in held[p]
    /\ \A k \in keyHeld : \E b \in Keyboards : k \in held[b]

\* A call that is due for a key that is held makes it so.
DueHeld ==
    \A c \in due : Kept(Calls[c]) =>
        Calls[c] \in IF c <= PadCalls THEN padHeld ELSE keyHeld

\* A key none of whose calls is due and whose latest code was not lost: it is
\* down, or the codes on the line make it so, only when a flag says that it is
\* held, and when a controller holds it that no other has taken it from.
QuietRight ==
    \A k \in Keys \ lost : OfKey(k) = {} =>
        /\ Settled(k) => k \in padHeld \cup keyHeld
        /\ Kept(k) => Settled(k)

SketchInv == TypeOK /\ ReleasesFirst /\ FlagsHeld /\ DueHeld /\ QuietRight

-----------------------------------------------------------------------------
(* Lemmas about the latest of some places, and the calls.                  *)

\* Of places in 1 .. n, one comes last.
LEMMA LatestIn ==
    ASSUME NEW n \in Nat, NEW S, S \subseteq 1 .. n, S # {}
    PROVE  Latest(S) \in S /\ \A j \in S : j <= Latest(S)
<1>. DEFINE T == {m \in 0 .. n : n - m \in S}
<1>0. \A j \in S : n - j \in 0 .. n /\ n - (n - j) = j
  OBVIOUS
<1>1. PICK i \in S : TRUE
  OBVIOUS
<1>2. n - i \in T
  BY <1>0, <1>1
<1>3. T \subseteq Nat /\ T # {}
  <2>1. T \subseteq Nat
    OBVIOUS
  <2>. QED
    BY <1>2, <2>1
<1>4. \E x \in T : \A y \in T : <<y, x>> \notin OpToRel(<, Nat)
  BY <1>3, WFMin, NatLessThanWellFounded
<1>5. PICK x \in T : \A y \in T : ~(y < x)
  BY <1>3, <1>4 DEF OpToRel
<1>6. n - x \in S /\ x \in 0 .. n
  BY <1>5
<1>7. ASSUME NEW j \in S PROVE j <= n - x
  <2>1. n - j \in T
    BY <1>0
  <2>2. ~(n - j < x)
    BY <1>5, <2>1
  <2>. QED
    BY <1>0, <1>6, <2>2
<1>. QED
  BY <1>6, <1>7 DEF Latest

\* The one that is last is the latest.
LEMMA LatestIs ==
    ASSUME NEW n \in Nat, NEW S, S \subseteq 1 .. n, NEW i \in S, \A j \in S : j <= i
    PROVE  Latest(S) = i
<1>1. Latest(S) \in S /\ \A j \in S : j <= Latest(S)
  BY LatestIn
<1>2. Latest(S) <= i /\ i <= Latest(S) /\ i \in 1 .. n /\ Latest(S) \in 1 .. n
  BY <1>1
<1>. QED
  BY <1>2

\* The next call is one of those that are due, and the first.
LEMMA NextCallIn ==
    ASSUME NEW n \in Nat, due \subseteq 1 .. n, due # {}
    PROVE  NextCall \in due /\ \A c \in due : NextCall <= c
<1>0. due \subseteq Nat
  OBVIOUS
<1>1. \E x \in due : \A y \in due : <<y, x>> \notin OpToRel(<, Nat)
  BY <1>0, WFMin, NatLessThanWellFounded
<1>2. ASSUME NEW x \in due, NEW y \in due, <<y, x>> \notin OpToRel(<, Nat)
      PROVE  x <= y
  <2>1. ~(y < x)
    BY <1>0, <1>2 DEF OpToRel
  <2>. QED
    BY <1>0, <2>1
<1>3. \E x \in due : \A y \in due : x <= y
  BY <1>1, <1>2
<1>. QED
  BY <1>3 DEF NextCall

\* The keys of the keyboards are called in some order, each of them.
LEMMA KeyCallsAll ==
    /\ Cardinality(KeyboardKeys) \in Nat
    /\ KeyCalls \in Seq(KeyboardKeys) /\ Len(KeyCalls) = Cardinality(KeyboardKeys)
    /\ \A k \in KeyboardKeys : \E i \in 1 .. Len(KeyCalls) : KeyCalls[i] = k
<1>. DEFINE n == Cardinality(KeyboardKeys)
<1>1. n \in Nat /\ ExistsBijection(1 .. n, KeyboardKeys)
  BY FS_CardinalityType
<1>2. PICK f \in Bijection(1 .. n, KeyboardKeys) : TRUE
  BY <1>1 DEF ExistsBijection
<1>. HIDE DEF n
<1>3. f \in [1 .. n -> KeyboardKeys] /\ \A i, j \in 1 .. n : f[i] = f[j] => i = j
  BY <1>2 DEF Bijection, Injection, IsInjective
<1>4. DOMAIN f = 1 .. n
  BY <1>3
<1>5. /\ KeyCalls \in [1 .. n -> KeyboardKeys]
      /\ \A i, j \in DOMAIN KeyCalls : KeyCalls[i] = KeyCalls[j] => i = j
  <2>1. \E g \in [1 .. n -> KeyboardKeys] : \A i, j \in DOMAIN g : g[i] = g[j] => i = j
    BY <1>3, <1>4
  <2>. QED
    BY <2>1, Zenon DEF KeyCalls, n
<1>6. KeyCalls \in Injection(1 .. n, KeyboardKeys)
  BY <1>5 DEF Injection, IsInjective
<1>7. Cardinality(1 .. n) = n
  BY <1>1, FS_Interval
<1>8. KeyCalls \in Surjection(1 .. n, KeyboardKeys)
  BY <1>6, <1>7, FS_Injection DEF n
<1>9. \A k \in KeyboardKeys : \E i \in 1 .. n : KeyCalls[i] = k
  BY <1>8 DEF Surjection, Range
<1>10. KeyCalls \in Seq(KeyboardKeys) /\ Len(KeyCalls) = n
  BY <1>1, <1>5, IsASeq
<1>. QED
  BY <1>1, <1>9, <1>10 DEF n

\* The keys of the gamepads, and which call is for which.
LEMMA CallFacts ==
    /\ PadCalls + Cardinality(KeyboardKeys) \in Nat
    /\ DOMAIN Calls = 1 .. PadCalls + Cardinality(KeyboardKeys)
    /\ \A i \in 1 .. 2 : Calls[i] = FixedKeys[i]
    /\ \A i \in 1 .. 6 : Calls[2 + i] = VirtualKeys[i] /\ Calls[8 + i] = VirtualKeys[i]
    /\ \A i \in 1 .. Cardinality(KeyboardKeys) : Calls[PadCalls + i] = KeyCalls[i]
<1>. DEFINE n == Cardinality(KeyboardKeys)
            A == FixedKeys \o VirtualKeys
            B == A \o VirtualKeys
<1>1. FixedKeys \in Seq(Keys) /\ VirtualKeys \in Seq(Keys)
      /\ Len(FixedKeys) = 2 /\ Len(VirtualKeys) = 6
  BY DEF Keys, PadKeys, Elements, FixedKeys, VirtualKeys
<1>2. KeyCalls \in Seq(Keys) /\ Len(KeyCalls) = n /\ n \in Nat
  BY KeyCallsAll, SeqMonotonic DEF Keys
<1>3. /\ A \in Seq(Keys) /\ Len(A) = 8
      /\ \A i \in 1 .. 8 : A[i] = IF i <= 2 THEN FixedKeys[i] ELSE VirtualKeys[i - 2]
  <2>1. /\ A \in Seq(Keys) /\ Len(A) = Len(FixedKeys) + Len(VirtualKeys)
        /\ \A i \in 1 .. Len(FixedKeys) + Len(VirtualKeys) :
              A[i] = IF i <= Len(FixedKeys) THEN FixedKeys[i]
                     ELSE VirtualKeys[i - Len(FixedKeys)]
    BY <1>1, ConcatProperties, Zenon
  <2>. QED
    BY <1>1, <2>1
<1>. HIDE DEF A, n
<1>4. /\ B \in Seq(Keys) /\ Len(B) = 14
      /\ \A i \in 1 .. 14 : B[i] = IF i <= 8 THEN A[i] ELSE VirtualKeys[i - 8]
  <2>1. /\ B \in Seq(Keys) /\ Len(B) = Len(A) + Len(VirtualKeys)
        /\ \A i \in 1 .. Len(A) + Len(VirtualKeys) :
              B[i] = IF i <= Len(A) THEN A[i] ELSE VirtualKeys[i - Len(A)]
    BY <1>1, <1>3, ConcatProperties, Zenon
  <2>2. Len(A) = 8 /\ Len(VirtualKeys) = 6
    BY <1>1, <1>3
  <2>. HIDE DEF B
  <2>. QED
    BY <2>1, <2>2
<1>. HIDE DEF B
<1>5. Calls = B \o KeyCalls
  BY DEF Calls, A, B
<1>6. /\ Calls \in Seq(Keys) /\ Len(Calls) = 14 + n
      /\ \A i \in 1 .. 14 + n : Calls[i] = IF i <= 14 THEN B[i] ELSE KeyCalls[i - 14]
  <2>1. /\ Calls \in Seq(Keys) /\ Len(Calls) = Len(B) + Len(KeyCalls)
        /\ \A i \in 1 .. Len(B) + Len(KeyCalls) :
              Calls[i] = IF i <= Len(B) THEN B[i] ELSE KeyCalls[i - Len(B)]
    BY <1>2, <1>4, <1>5, ConcatProperties, Zenon
  <2>. QED
    BY <1>2, <1>4, <2>1
<1>7. 14 + n \in Nat /\ DOMAIN Calls = 1 .. 14 + n
  BY <1>2, <1>6
<1>8. \A i \in 1 .. 14 : Calls[i] = B[i]
  BY <1>2, <1>6
<1>9. \A i \in 1 .. n : Calls[14 + i] = KeyCalls[i]
  <2>. SUFFICES ASSUME NEW i \in 1 .. n PROVE Calls[14 + i] = KeyCalls[i]
    OBVIOUS
  <2>1. 14 + i \in 1 .. 14 + n /\ ~(14 + i <= 14) /\ (14 + i) - 14 = i
    BY <1>2
  <2>. QED
    BY <1>6, <2>1
<1>10. \A i \in 1 .. 2 : Calls[i] = FixedKeys[i]
  BY <1>3, <1>4, <1>8
<1>11. ASSUME NEW i \in 1 .. 6
       PROVE  Calls[2 + i] = VirtualKeys[i] /\ Calls[8 + i] = VirtualKeys[i]
  <2>1. /\ 2 + i \in 1 .. 8 /\ ~(2 + i <= 2) /\ (2 + i) - 2 = i
        /\ 2 + i \in 1 .. 14 /\ 8 + i \in 1 .. 14 /\ 2 + i <= 8
        /\ ~(8 + i <= 8) /\ (8 + i) - 8 = i
    OBVIOUS
  <2>2. Calls[2 + i] = A[2 + i] /\ Calls[8 + i] = VirtualKeys[i]
    BY <1>4, <1>8, <2>1
  <2>. QED
    BY <1>3, <2>1, <2>2
<1>. QED
  BY <1>7, <1>9, <1>10, <1>11 DEF PadCalls, n

\* The first calls are for keys of the gamepads, the others of the keyboards; the
\* releases are for the keys that are called six places later.
LEMMA CallKeys ==
    /\ \A c \in DOMAIN Calls : /\ c \in Nat /\ Calls[c] \in Keys
                               /\ c <= PadCalls => Calls[c] \in PadKeys
                               /\ c > PadCalls => Calls[c] \in KeyboardKeys
    /\ 1 .. PadCalls \subseteq DOMAIN Calls
    /\ \A c \in Releases : Calls[c + 6] = Calls[c] /\ c + 6 \in 1 .. PadCalls
<1>. DEFINE n == Cardinality(KeyboardKeys)
<1>1. n \in Nat /\ DOMAIN Calls = 1 .. 14 + n
  BY CallFacts, KeyCallsAll DEF PadCalls
<1>2. \A i \in 1 .. n : KeyCalls[i] \in KeyboardKeys
  BY KeyCallsAll, ElementOfSeq
<1>3. /\ \A i \in 1 .. 2 : Calls[i] \in PadKeys
      /\ \A i \in 1 .. 6 : Calls[2 + i] \in PadKeys /\ Calls[8 + i] = Calls[2 + i]
  BY CallFacts DEF PadKeys, Elements, FixedKeys, VirtualKeys
<1>. HIDE DEF n
<1>4. ASSUME NEW c \in 1 .. 14 PROVE Calls[c] \in PadKeys
  <2>1. CASE c <= 2
    BY <1>3, <2>1
  <2>2. CASE c > 2 /\ c <= 8
    <3>1. c - 2 \in 1 .. 6 /\ 2 + (c - 2) = c
      BY <2>2
    <3>. QED
      BY <1>3, <3>1
  <2>3. CASE c > 8
    <3>1. c - 8 \in 1 .. 6 /\ 8 + (c - 8) = c
      BY <2>3
    <3>. QED
      BY <1>3, <3>1
  <2>. QED
    BY <2>1, <2>2, <2>3
<1>5. ASSUME NEW c \in 1 .. 14 + n, c > 14 PROVE Calls[c] \in KeyboardKeys
  <2>1. c - 14 \in 1 .. n /\ 14 + (c - 14) = c
    BY <1>1, <1>5
  <2>2. Calls[14 + (c - 14)] = KeyCalls[c - 14]
    BY <2>1, CallFacts DEF PadCalls, n
  <2>. QED
    BY <1>2, <2>1, <2>2
<1>6. ASSUME NEW c \in Releases PROVE Calls[c + 6] = Calls[c] /\ c + 6 \in 1 .. 14
  <2>1. c - 2 \in 1 .. 6 /\ 2 + (c - 2) = c /\ 8 + (c - 2) = c + 6 /\ c + 6 \in 1 .. 14
    BY DEF Releases
  <2>. QED
    BY <1>3, <2>1
<1>7. ASSUME NEW c \in DOMAIN Calls
      PROVE  /\ c \in Nat /\ Calls[c] \in Keys
             /\ c <= 14 => Calls[c] \in PadKeys
             /\ c > 14 => Calls[c] \in KeyboardKeys
  <2>1. c \in 1 .. 14 + n
    BY <1>1
  <2>2. CASE c <= 14
    BY <1>4, <2>1, <2>2 DEF Keys
  <2>3. CASE c > 14
    BY <1>5, <2>1, <2>3 DEF Keys
  <2>. QED
    BY <2>1, <2>2, <2>3
<1>. QED
  BY <1>1, <1>6, <1>7 DEF PadCalls

\* The calls of a key that are due, if any, make it what is held.
LEMMA LatestCall ==
    ASSUME TypeOK, ReleasesFirst, DueHeld, NEW k \in Keys, OfKey(k) # {}
    PROVE  LET c == Latest(OfKey(k))
           IN  /\ c \in OfKey(k) /\ \A d \in OfKey(k) : d <= c
               /\ Down(c) => k \in padHeld \cup keyHeld
               /\ Kept(k) => Down(c)
<1>. DEFINE c == Latest(OfKey(k))
<1>1. OfKey(k) \subseteq 1 .. PadCalls + Cardinality(KeyboardKeys)
  BY CallFacts DEF TypeOK, OfKey
<1>2. c \in OfKey(k) /\ \A d \in OfKey(k) : d <= c
  BY <1>1, LatestIn, CallFacts
<1>. HIDE DEF c
<1>3. c \in due /\ Calls[c] = k /\ c \in DOMAIN Calls
  BY <1>2 DEF OfKey, TypeOK
<1>4. Down(c) => k \in padHeld \cup keyHeld
  BY <1>3 DEF Down
<1>5. ASSUME Kept(k)
      PROVE  Down(c)
  <2>1. CASE c > PadCalls
    <3>1. c \in Nat /\ ~(c <= PadCalls)
      BY <1>3, <2>1, CallKeys DEF PadCalls
    <3>2. k \in keyHeld
      BY <1>3, <1>5, <3>1 DEF DueHeld
    <3>. QED
      BY <1>3, <2>1, <3>2 DEF Down
  <2>2. CASE ~(c > PadCalls)
    <3>1. c \in Nat /\ c <= PadCalls /\ c \in 1 .. PadCalls
      BY <1>1, <1>2, <2>2 DEF PadCalls
    <3>3. k \in padHeld
      BY <1>3, <1>5, <3>1 DEF DueHeld
    <3>4. c \notin Releases
      <4>. SUFFICES ASSUME c \in Releases PROVE FALSE
        OBVIOUS
      <4>1. c + 6 \in due
        BY <1>3, <3>3 DEF ReleasesFirst
      <4>2. c + 6 \in OfKey(k)
        BY <1>3, <4>1, CallKeys DEF OfKey
      <4>. QED
        BY <1>2, <3>1, <4>2
    <3>. QED
      BY <1>3, <3>1, <3>3, <3>4 DEF Down
  <2>. QED
    BY <2>1, <2>2
<1>. QED
  BY <1>2, <1>4, <1>5 DEF c

\* The invariant says what the two properties do.
LEMMA InvariantIsEnough ==
    ASSUME SketchInv
    PROVE  NoStuckKey /\ NoMissedKey
<1>1. /\ TypeOK /\ ReleasesFirst /\ DueHeld /\ QuietRight
      /\ \A c \in Controllers : held[c] \subseteq Keys
  BY DEF SketchInv, TypeOK
<1>2. ASSUME NEW k \in Keys \ lost
      PROVE  /\ FinallyDown(k) => k \in padHeld \cup keyHeld
             /\ Kept(k) => FinallyDown(k)
  <2>1. CASE OfKey(k) # {}
    BY <1>1, <2>1, LatestCall DEF FinallyDown
  <2>2. CASE OfKey(k) = {}
    BY <1>1, <2>2 DEF FinallyDown, QuietRight
  <2>. QED
    BY <2>1, <2>2
<1>. QED
  BY <1>1, <1>2 DEF NoStuckKey, NoMissedKey, Kept

-----------------------------------------------------------------------------
(* Lemmas about the line.                                                  *)

\* The codes of a key that wait are some of those that wait.
LEMMA LineTypes ==
    ASSUME TypeOK
    PROVE  /\ pending \in Seq(Line!Events) /\ Len(pending) \in Nat
           /\ \A i \in DOMAIN pending : pending[i].key \in Keys /\ pending[i].down \in BOOLEAN
           /\ DOMAIN pending = 1 .. Len(pending)
           /\ \A k : Waiting(k) \subseteq 1 .. Len(pending)
<1>1. pending \in Seq(Line!Events)
  BY DEF TypeOK, Line!TypeOK
<1>2. Len(pending) \in Nat /\ DOMAIN pending = 1 .. Len(pending)
  BY <1>1
<1>3. \A i \in DOMAIN pending : pending[i] \in Line!Events
  BY <1>1, <1>2
<1>. QED
  BY <1>1, <1>2, <1>3 DEF Line!Events, Waiting

\* A code that waits behind the others decides about its key and no other.
LEMMA SettledAppend ==
    ASSUME TypeOK, NEW e \in Line!Events, pending' = Append(pending, e), down' = down,
           NEW k \in Keys
    PROVE  Settled(k)' = IF k = e.key THEN e.down ELSE Settled(k)
<1>. DEFINE n == Len(pending)
<1>1. /\ n \in Nat /\ Len(pending') = n + 1 /\ pending'[n + 1] = e
      /\ DOMAIN pending' = 1 .. n + 1
      /\ \A i \in 1 .. n : pending'[i] = pending[i]
  BY LineTypes
<1>2. Waiting(k) \subseteq 1 .. n /\ DOMAIN pending = 1 .. n
  BY LineTypes
<1>. HIDE DEF n
<1>3. CASE k = e.key
  <2>1. n + 1 \in Waiting(k)' /\ \A i \in Waiting(k)' : i <= n + 1
    BY <1>1, <1>3 DEF Waiting
  <2>2. Waiting(k)' \subseteq 1 .. n + 1
    BY <1>1 DEF Waiting
  <2>3. Latest(Waiting(k)') = n + 1
    BY <1>1, <2>1, <2>2, LatestIs
  <2>. QED
    BY <1>1, <1>3, <2>1, <2>3 DEF Settled
<1>4. CASE k # e.key
  <2>1. Waiting(k)' = Waiting(k)
    BY <1>1, <1>2, <1>4 DEF Waiting
  <2>2. Waiting(k) # {} => Latest(Waiting(k)) \in 1 .. n
    BY <1>1, <1>2, LatestIn
  <2>3. Latest(Waiting(k)') = Latest(Waiting(k))
    BY <2>1
  <2>. QED
    BY <1>1, <1>4, <2>1, <2>2, <2>3 DEF Settled
<1>. QED
  BY <1>3, <1>4

\* When the first code is gone, the later ones of a key still decide.
LEMMA SettledTail ==
    ASSUME TypeOK, pending # <<>>, pending' = Tail(pending), NEW k \in Keys
    PROVE  /\ Waiting(k) = {1} => /\ Settled(k)' = (k \in down')
                                  /\ Settled(k) = Head(pending).down
                                  /\ Head(pending).key = k
           /\ Waiting(k) = {} => /\ Settled(k)' = (k \in down')
                                 /\ Settled(k) = (k \in down)
                                 /\ Head(pending).key # k
           /\ Waiting(k) # {} /\ Waiting(k) # {1} => Settled(k)' = Settled(k)
<1>. DEFINE n == Len(pending)
<1>1. /\ n \in Nat /\ n >= 1 /\ Head(pending) = pending[1] /\ DOMAIN pending = 1 .. n
      /\ DOMAIN pending' = 1 .. n - 1
      /\ \A i \in 1 .. n - 1 : pending'[i] = pending[i + 1]
  BY LineTypes
<1>2. Waiting(k) \subseteq 1 .. n
  BY LineTypes
<1>. HIDE DEF n
<1>3. 1 \in Waiting(k) <=> Head(pending).key = k
  BY <1>1 DEF Waiting
<1>4. \A i \in 1 .. n - 1 : i \in Waiting(k)' <=> i + 1 \in Waiting(k)
  BY <1>1 DEF Waiting
<1>5. Waiting(k)' \subseteq 1 .. n - 1
  BY <1>1 DEF Waiting
<1>6. \A i \in Waiting(k) : i # 1 => i - 1 \in Waiting(k)'
  <2>. SUFFICES ASSUME NEW i \in Waiting(k), i # 1 PROVE i - 1 \in Waiting(k)'
    OBVIOUS
  <2>1. i - 1 \in 1 .. n - 1 /\ (i - 1) + 1 = i
    BY <1>1, <1>2
  <2>. QED
    BY <1>4, <2>1
<1>7. CASE Waiting(k) = {1}
  <2>1. Waiting(k)' = {}
    <3>1. \A i \in 1 .. n - 1 : i + 1 # 1
      BY <1>1
    <3>. QED
      BY <1>4, <1>5, <1>7, <3>1
  <2>2. Latest(Waiting(k)) = 1
    BY <1>7, LatestIs
  <2>. QED
    BY <1>1, <1>3, <1>7, <2>1, <2>2 DEF Settled
<1>8. CASE Waiting(k) = {}
  <2>1. Waiting(k)' = {}
    BY <1>4, <1>5, <1>8
  <2>. QED
    BY <1>3, <1>8, <2>1 DEF Settled
<1>9. CASE Waiting(k) # {} /\ Waiting(k) # {1}
  <2>. DEFINE m == Latest(Waiting(k))
  <2>1. m \in Waiting(k) /\ m \in 1 .. n /\ \A i \in Waiting(k) : i <= m
    BY <1>1, <1>2, <1>9, LatestIn
  <2>. HIDE DEF m
  <2>2. m # 1
    <3>. SUFFICES ASSUME m = 1 PROVE FALSE
      OBVIOUS
    <3>1. \A i \in Waiting(k) : i = 1
      BY <1>2, <2>1
    <3>. QED
      BY <1>9, <3>1
  <2>3. m - 1 \in Waiting(k)'
    BY <1>6, <2>1, <2>2
  <2>4. \A i \in Waiting(k)' : i <= m - 1
    <3>. SUFFICES ASSUME NEW i \in Waiting(k)' PROVE i <= m - 1
      OBVIOUS
    <3>1. i \in 1 .. n - 1 /\ i + 1 \in Waiting(k)
      BY <1>4, <1>5
    <3>. QED
      BY <1>1, <2>1, <3>1
  <2>5. Latest(Waiting(k)') = m - 1
    <3>1. n - 1 \in Nat
      BY <1>1
    <3>. QED
      BY <1>5, <2>3, <2>4, <3>1, LatestIs
  <2>6. pending'[m - 1] = pending[m]
    <3>1. m - 1 \in 1 .. n - 1 /\ (m - 1) + 1 = m
      BY <1>1, <2>1, <2>2
    <3>. QED
      BY <1>1, <3>1
  <2>7. Settled(k) = pending[m].down
    BY <1>9 DEF Settled, m
  <2>8. Settled(k)' = pending'[m - 1].down
    BY <2>3, <2>5 DEF Settled
  <2>. QED
    BY <1>9, <2>6, <2>7, <2>8
<1>. QED
  BY <1>7, <1>8, <1>9

-----------------------------------------------------------------------------
(* The steps.                                                              *)

\* A report that leads to no call for a key leaves the key as it was held.
LEMMA GamepadCalls ==
    ASSUME TypeOK, NEW p, NEW report, ProcessGamepad(p, report)
    PROVE  /\ padHeld' \subseteq PadKeys /\ due' \subseteq 1 .. PadCalls
           /\ ReleasesFirst'
           /\ \A k \in Keys : OfKey(k)' = {} => (k \in padHeld' <=> k \in padHeld)
<1>. DEFINE changed == prevLayout # "none" /\ prevLayout # Layout
            fixed   == Pressed(FixedKeys, FixedInputs, report)
            virtual == Pressed(VirtualKeys, KeyInputs(right), report)
            first   == Differ(FixedKeys, padHeld, fixed, 0)
            last    == Differ(VirtualKeys, IF changed THEN {} ELSE padHeld, virtual, 8)
<1>1. /\ padHeld' = fixed \cup virtual
      /\ due' = first \cup (IF changed THEN Releases ELSE {}) \cup last
  BY DEF ProcessGamepad
<1>2. DOMAIN FixedKeys = 1 .. 2 /\ DOMAIN VirtualKeys = 1 .. 6
  BY DEF FixedKeys, VirtualKeys
<1>3. fixed \subseteq Elements(FixedKeys) /\ virtual \subseteq Elements(VirtualKeys)
  BY DEF Pressed, Elements
<1>4. Elements(FixedKeys) \cap Elements(VirtualKeys) = {}
  BY DEF Elements, FixedKeys, VirtualKeys
<1>5. \A i \in 1 .. 2 : i \in first <=> (FixedKeys[i] \in padHeld) # (FixedKeys[i] \in fixed)
  BY <1>2 DEF Differ
<1>6. \A i \in 1 .. 6 : 8 + i \in last <=>
        (VirtualKeys[i] \in IF changed THEN {} ELSE padHeld) # (VirtualKeys[i] \in virtual)
  BY <1>2 DEF Differ
<1>7. first \subseteq 1 .. 2 /\ last \subseteq 9 .. 14
  BY <1>2 DEF Differ
<1>. HIDE DEF fixed, virtual, first, last
<1>8. due' \subseteq 1 .. 14
  BY <1>1, <1>7 DEF Releases
<1>9. padHeld' \subseteq PadKeys
  BY <1>1, <1>3 DEF PadKeys
<1>10. ReleasesFirst'
  <2>. SUFFICES ASSUME NEW c \in Releases, c \in due', c + 6 \notin due'
                PROVE  Calls[c] \notin padHeld'
    BY DEF ReleasesFirst
  <2>1. /\ c - 2 \in 1 .. 6 /\ 8 + (c - 2) = c + 6 /\ 2 + (c - 2) = c
        /\ c \notin 1 .. 2 /\ c \notin 9 .. 14
    BY DEF Releases
  <2>2. changed
    BY <1>1, <1>7, <2>1
  <2>3. VirtualKeys[c - 2] \notin virtual
    BY <1>1, <1>6, <2>1, <2>2
  <2>4. VirtualKeys[c - 2] \in Elements(VirtualKeys)
    BY <1>2, <2>1 DEF Elements
  <2>5. Calls[c] = VirtualKeys[c - 2]
    BY <2>1, CallFacts
  <2>. QED
    BY <1>1, <1>3, <1>4, <2>3, <2>4, <2>5
<1>11. ASSUME NEW k \in Keys, OfKey(k)' = {} PROVE k \in padHeld' <=> k \in padHeld
  <2>1. \A c \in due' : Calls[c] # k
    BY <1>11 DEF OfKey
  <2>2. CASE k \in Elements(FixedKeys)
    <3>1. PICK i \in 1 .. 2 : FixedKeys[i] = k
      BY <1>2, <2>2 DEF Elements
    <3>2. i \notin due'
      BY <2>1, <3>1, CallFacts
    <3>. QED
      BY <1>1, <1>3, <1>4, <1>5, <2>2, <3>1, <3>2
  <2>3. CASE k \in Elements(VirtualKeys)
    <3>1. PICK i \in 1 .. 6 : VirtualKeys[i] = k
      BY <1>2, <2>3 DEF Elements
    <3>2. 2 + i \notin due' /\ 8 + i \notin due'
      BY <2>1, <3>1, CallFacts
    <3>3. 2 + i \in Releases
      BY DEF Releases
    <3>. QED
      BY <1>1, <1>3, <1>4, <1>6, <2>3, <3>1, <3>2, <3>3
  <2>4. CASE k \notin PadKeys
    BY <1>9, <2>4 DEF TypeOK
  <2>. QED
    BY <2>2, <2>3, <2>4 DEF PadKeys
<1>. QED
  BY <1>8, <1>9, <1>10, <1>11 DEF PadCalls

\* So does a report of a keyboard.
LEMMA KeyboardCalls ==
    ASSUME TypeOK, NEW b, NEW report \in SUBSET KeyboardKeys, ProcessKeyboard(b, report)
    PROVE  /\ due' \subseteq DOMAIN Calls /\ \A c \in due' : ~(c <= PadCalls)
           /\ ReleasesFirst'
           /\ \A k \in Keys : OfKey(k)' = {} => (k \in keyHeld' <=> k \in keyHeld)
<1>. DEFINE n == Cardinality(KeyboardKeys)
<1>1. keyHeld' = report /\ due' = Differ(KeyCalls, keyHeld, report, PadCalls)
  BY DEF ProcessKeyboard
<1>2. n \in Nat /\ DOMAIN KeyCalls = 1 .. n /\ DOMAIN Calls = 1 .. 14 + n
  BY KeyCallsAll, CallFacts DEF PadCalls
<1>3. \A i \in 1 .. n : Calls[14 + i] = KeyCalls[i]
  BY CallFacts DEF PadCalls
<1>. HIDE DEF n
<1>4. /\ \A c \in due' : c \in 15 .. 14 + n
      /\ \A i \in 1 .. n : 14 + i \in due' <=> (KeyCalls[i] \in keyHeld) # (KeyCalls[i] \in report)
  BY <1>1, <1>2 DEF Differ, PadCalls
<1>5. ReleasesFirst'
  BY <1>4 DEF ReleasesFirst, Releases
<1>6. ASSUME NEW k \in Keys, OfKey(k)' = {} PROVE k \in keyHeld' <=> k \in keyHeld
  <2>1. CASE k \in KeyboardKeys
    <3>1. PICK i \in 1 .. n : KeyCalls[i] = k
      BY <1>2, <2>1, KeyCallsAll DEF n
    <3>2. 14 + i \notin due'
      BY <1>3, <1>6, <3>1 DEF OfKey
    <3>. QED
      BY <1>1, <1>4, <3>1, <3>2
  <2>2. CASE k \notin KeyboardKeys
    BY <1>1, <2>2 DEF TypeOK
  <2>. QED
    BY <2>1, <2>2
<1>7. \A c \in due' : ~(c <= PadCalls)
  BY <1>4 DEF PadCalls
<1>. QED
  BY <1>2, <1>4, <1>5, <1>6, <1>7

\* A report of c that leads to no call for a key leaves it to those that had it.
LEMMA HoldsKept ==
    ASSUME TypeOK, NEW c \in Controllers, NEW S, S \subseteq Keys,
           due' \subseteq DOMAIN Calls, Holds(c, S)
    PROVE  /\ held' \in [Controllers -> SUBSET Keys] /\ taken' \subseteq Keys
           /\ held'[c] = S /\ \A d \in Controllers \ {c} : held'[d] = held[d]
           /\ \A k \in Keys : Kept(k)' =>
                IF OfKey(k)' = {} THEN k \in S \/ Kept(k) ELSE k \in S
           /\ \A k \in Keys : Kept(k)' /\ OfKey(k)' = {} => k \notin taken
<1>1. /\ held' = [held EXCEPT ![c] = S]
      /\ taken' = {k \in Keys :
                      /\ \E d \in Controllers : k \in held'[d]
                      /\ IF \E call \in due' : Calls[call] = k THEN k \notin S ELSE k \in taken}
  BY DEF Holds
<1>2. held \in [Controllers -> SUBSET Keys]
  BY DEF TypeOK
<1>3. /\ held' \in [Controllers -> SUBSET Keys]
      /\ held'[c] = S /\ \A d \in Controllers \ {c} : held'[d] = held[d]
  BY <1>1, <1>2
<1>4. taken' \subseteq Keys
  BY <1>1
<1>5. \A k \in Keys : OfKey(k)' = {} <=> ~ \E call \in due' : Calls[call] = k
  BY DEF OfKey
<1>6. ASSUME NEW k \in Keys, Kept(k)'
      PROVE  /\ IF OfKey(k)' = {} THEN k \in S \/ Kept(k) ELSE k \in S
             /\ OfKey(k)' = {} => k \notin taken
  <2>1. (\E d \in Controllers : k \in held'[d]) /\ k \notin taken'
    BY <1>6 DEF Kept
  <2>2. IF OfKey(k)' = {} THEN k \notin taken ELSE k \in S
    BY <1>1, <1>5, <2>1
  <2>. QED
    BY <1>3, <2>1, <2>2 DEF Kept
<1>. QED
  BY <1>3, <1>4, <1>6

\* Between two reports nothing is due, so that a report decides for the keys
\* whose calls it leads to, and leaves the others.
LEMMA ReportStep ==
    ASSUME SketchInv,
           \/ \E p \in Pads, report \in SUBSET Pressable : ProcessGamepad(p, report)
           \/ \E b \in Keyboards, report \in SUBSET KeyboardKeys : ProcessKeyboard(b, report)
    PROVE  SketchInv'
<1>1. /\ TypeOK /\ QuietRight /\ FlagsHeld /\ due = {}
      /\ UNCHANGED <<pending, down, lost, right, reporting>>
  BY DEF SketchInv, ProcessGamepad, ProcessKeyboard, line_vars
<1>2. \A k : OfKey(k) = {}
  BY <1>1 DEF OfKey
<1>3. /\ due' \subseteq DOMAIN Calls /\ padHeld' \subseteq PadKeys /\ keyHeld' \subseteq KeyboardKeys
      /\ ReleasesFirst'
      /\ \A k \in Keys : OfKey(k)' = {} =>
            /\ k \in padHeld' <=> k \in padHeld
            /\ k \in keyHeld' <=> k \in keyHeld
      /\ \E c \in Controllers :
            \/ /\ c \in Pads /\ Holds(c, padHeld') /\ keyHeld' = keyHeld
               /\ \A call \in due' : call <= PadCalls
            \/ /\ c \in Keyboards /\ Holds(c, keyHeld') /\ padHeld' = padHeld
               /\ \A call \in due' : ~(call <= PadCalls)
  <2>1. ASSUME NEW p \in Pads, NEW report \in SUBSET Pressable, ProcessGamepad(p, report)
        PROVE  <1>3
    <3>1. /\ padHeld' \subseteq PadKeys /\ due' \subseteq 1 .. PadCalls /\ ReleasesFirst'
          /\ \A k \in Keys : OfKey(k)' = {} => (k \in padHeld' <=> k \in padHeld)
      BY <1>1, <2>1, GamepadCalls
    <3>2. Holds(p, padHeld') /\ keyHeld' = keyHeld /\ keyHeld \subseteq KeyboardKeys
      BY <1>1, <2>1 DEF ProcessGamepad, TypeOK
    <3>3. \A call \in due' : call <= PadCalls
      BY <3>1
    <3>. QED
      BY <3>1, <3>2, <3>3, CallKeys DEF Controllers
  <2>2. ASSUME NEW b \in Keyboards, NEW report \in SUBSET KeyboardKeys, ProcessKeyboard(b, report)
        PROVE  <1>3
    <3>1. /\ due' \subseteq DOMAIN Calls /\ ReleasesFirst' /\ \A c \in due' : ~(c <= PadCalls)
          /\ \A k \in Keys : OfKey(k)' = {} => (k \in keyHeld' <=> k \in keyHeld)
      BY <1>1, <2>2, KeyboardCalls
    <3>2. /\ Holds(b, keyHeld') /\ padHeld' = padHeld /\ padHeld \subseteq PadKeys
          /\ keyHeld' \subseteq KeyboardKeys
      BY <1>1, <2>2 DEF ProcessKeyboard, TypeOK
    <3>. QED
      BY <3>1, <3>2 DEF Controllers
  <2>. QED
    BY <2>1, <2>2
<1>. PICK c \in Controllers :
        \/ /\ c \in Pads /\ Holds(c, padHeld') /\ keyHeld' = keyHeld
           /\ \A call \in due' : call <= PadCalls
        \/ /\ c \in Keyboards /\ Holds(c, keyHeld') /\ padHeld' = padHeld
           /\ \A call \in due' : ~(call <= PadCalls)
  BY <1>3
<1>. PICK S : S = IF c \in Pads THEN padHeld' ELSE keyHeld'
  OBVIOUS
<1>4. /\ S \subseteq Keys /\ Holds(c, S) /\ c \in Controllers
      /\ c \in Pads => S = padHeld' /\ keyHeld' = keyHeld /\ \A call \in due' : call <= PadCalls
      /\ c \notin Pads => /\ c \in Keyboards /\ S = keyHeld' /\ padHeld' = padHeld
                         /\ \A call \in due' : ~(call <= PadCalls)
  BY <1>3, SketchAssumption DEF Keys
<1>5. /\ held' \in [Controllers -> SUBSET Keys] /\ taken' \subseteq Keys
      /\ held'[c] = S /\ \A d \in Controllers \ {c} : held'[d] = held[d]
      /\ \A k \in Keys : Kept(k)' =>
           IF OfKey(k)' = {} THEN k \in S \/ Kept(k) ELSE k \in S
      /\ \A k \in Keys : Kept(k)' /\ OfKey(k)' = {} => k \notin taken
  BY <1>1, <1>3, <1>4, HoldsKept
<1>6. TypeOK'
  <2>1. /\ prevLayout' \in {"none", "left", "right"} /\ gpio' \subseteq Lines
        /\ switched' \in BOOLEAN
    BY <1>1 DEF ProcessGamepad, ProcessKeyboard, TypeOK, Layout
  <2>. QED
    BY <1>1, <1>3, <1>5, <2>1 DEF TypeOK, Line!TypeOK
<1>7. \A k : Settled(k)' = Settled(k)
  BY <1>1 DEF Settled, Waiting
<1>8. FlagsHeld'
  <2>1. CASE c \in Pads
    BY <1>1, <1>4, <1>5, <2>1, SketchAssumption DEF FlagsHeld, Controllers
  <2>2. CASE c \notin Pads
    BY <1>1, <1>4, <1>5, <2>2 DEF FlagsHeld, Controllers
  <2>. QED
    BY <2>1, <2>2
<1>9. DueHeld'
  <2>. SUFFICES ASSUME NEW call \in due', Kept(Calls[call])'
                PROVE  Calls[call] \in IF call <= PadCalls THEN padHeld' ELSE keyHeld'
    BY DEF DueHeld
  <2>1. Calls[call] \in Keys /\ OfKey(Calls[call])' # {}
    BY <1>3, CallKeys DEF OfKey
  <2>2. Calls[call] \in S
    BY <1>5, <2>1
  <2>. QED
    BY <1>4, <2>2
<1>10. QuietRight'
  <2>. SUFFICES ASSUME NEW k \in Keys \ lost, OfKey(k)' = {}
                PROVE  /\ Settled(k) => k \in padHeld' \cup keyHeld'
                       /\ Kept(k)' => Settled(k)
    BY <1>1, <1>7 DEF QuietRight
  <2>1. /\ Settled(k) => k \in padHeld \cup keyHeld
        /\ Kept(k) => Settled(k)
    BY <1>1, <1>2 DEF QuietRight
  <2>2. k \in padHeld' \cup keyHeld' <=> k \in padHeld \cup keyHeld
    BY <1>3
  <2>3. k \in S => k \in padHeld \cup keyHeld
    BY <1>4, <2>2
  <2>4. k \in padHeld \cup keyHeld /\ k \notin taken => Kept(k)
    BY <1>1 DEF FlagsHeld, Kept, Controllers
  <2>5. Kept(k)' => Kept(k)
    BY <1>5, <2>3, <2>4
  <2>. QED
    BY <2>1, <2>2, <2>5
<1>. QED
  BY <1>3, <1>6, <1>8, <1>9, <1>10 DEF SketchInv

\* The first call is taken from those that are due: the last one of each key
\* stays the last, as long as there is one.
LEMMA CallMade ==
    ASSUME SketchInv, due # {}, Made, UNCHANGED <<padHeld, keyHeld, held, taken>>,
           NEW e, e = Code(NextCall)
    PROVE  /\ e \in Line!Events /\ e.key = Calls[NextCall]
           /\ due' \subseteq DOMAIN Calls /\ ReleasesFirst' /\ FlagsHeld' /\ DueHeld'
           /\ \A k \in Keys : k # e.key => OfKey(k)' = OfKey(k)
           /\ OfKey(e.key)' = {} =>
                /\ e.down => e.key \in padHeld \cup keyHeld
                /\ Kept(e.key) => e.down
<1>1. TypeOK /\ ReleasesFirst /\ DueHeld /\ due \subseteq DOMAIN Calls
  BY DEF SketchInv, TypeOK
<1>. PICK c : c = NextCall
  OBVIOUS
<1>2. c \in due /\ \A d \in due : c <= d
  BY <1>1, CallFacts, NextCallIn
<1>3. due' = due \ {c} /\ c \in DOMAIN Calls /\ Calls[c] \in Keys
  BY <1>1, <1>2, CallKeys DEF Made
<1>4. e \in Line!Events /\ e.key = Calls[c] /\ e.down = Down(c)
  BY <1>3 DEF Code, Line!Events, Down
<1>5. ReleasesFirst'
  <2>. SUFFICES ASSUME NEW d \in Releases, d \in due', Calls[d] \in padHeld
                PROVE  d + 6 \in due'
    BY DEF ReleasesFirst
  <2>1. d + 6 \in due
    BY <1>1, <1>3 DEF ReleasesFirst
  <2>2. c <= d /\ d \in 3 .. 8 /\ c \in Nat
    BY <1>2, <1>3, CallKeys DEF Releases
  <2>. QED
    BY <1>3, <2>1, <2>2
<1>6. \A k \in Keys : k # e.key => OfKey(k)' = OfKey(k)
  BY <1>3, <1>4 DEF OfKey
<1>7. ASSUME OfKey(e.key)' = {}
      PROVE  /\ e.down => e.key \in padHeld \cup keyHeld
             /\ Kept(e.key) => e.down
  <2>1. OfKey(e.key) = {c}
    BY <1>2, <1>3, <1>4, <1>7 DEF OfKey
  <2>2. Latest(OfKey(e.key)) = c
    BY <1>1, <1>3, <1>4, <2>1, LatestCall
  <2>. QED
    BY <1>1, <1>3, <1>4, <2>1, <2>2, LatestCall
<1>8. FlagsHeld' /\ DueHeld'
  BY <1>3 DEF SketchInv, FlagsHeld, DueHeld, Kept
<1>. QED
  BY <1>1, <1>3, <1>4, <1>5, <1>6, <1>7, <1>8

\* A code that is accepted decides about its key ...
LEMMA SendStep ==
    ASSUME SketchInv, Send
    PROVE  SketchInv'
<1>. PICK e : e = Code(NextCall)
  OBVIOUS
<1>1. /\ due # {} /\ Made /\ UNCHANGED <<right, reporting, prevLayout, padHeld, keyHeld, gpio, switched, held, taken>>
      /\ Len(pending) < Capacity /\ pending' = Append(pending, e) /\ down' = down
      /\ lost' = lost \ {Calls[NextCall]}
  BY DEF Send, prev_vars, Line!Accept
<1>2. TypeOK /\ QuietRight
  BY DEF SketchInv
<1>3. /\ e \in Line!Events /\ e.key = Calls[NextCall]
      /\ due' \subseteq DOMAIN Calls /\ ReleasesFirst' /\ FlagsHeld' /\ DueHeld'
      /\ \A k \in Keys : k # e.key => OfKey(k)' = OfKey(k)
      /\ OfKey(e.key)' = {} =>
            /\ e.down => e.key \in padHeld \cup keyHeld
            /\ Kept(e.key) => e.down
  BY <1>1, CallMade
<1>4. \A k \in Keys : Settled(k)' = IF k = e.key THEN e.down ELSE Settled(k)
  BY <1>1, <1>2, <1>3, SettledAppend
<1>5. pending' \in Seq(Line!Events) /\ Len(pending') <= Capacity
  <2>1. pending \in Seq(Line!Events) /\ Len(pending) \in Nat
    BY <1>2, LineTypes
  <2>. QED
    BY <1>1, <1>3, <2>1
<1>6. TypeOK'
  BY <1>1, <1>2, <1>3, <1>5 DEF TypeOK, Line!TypeOK
<1>7. QuietRight'
  BY <1>1, <1>2, <1>3, <1>4 DEF QuietRight, Kept
<1>. QED
  BY <1>3, <1>6, <1>7 DEF SketchInv

\* ... and one that is refused makes no difference, or its key is lost.
LEMMA SendLostStep ==
    ASSUME SketchInv, SendLost
    PROVE  SketchInv'
<1>. PICK e : e = Code(NextCall)
  OBVIOUS
<1>1. /\ due # {} /\ Made /\ UNCHANGED <<right, reporting, prevLayout, padHeld, keyHeld, gpio, switched, held, taken>>
      /\ UNCHANGED <<pending, down>>
      /\ lost' = IF Settled(e.key) = e.down THEN lost \ {e.key} ELSE lost \cup {e.key}
  BY DEF SendLost, prev_vars, line_vars
<1>2. TypeOK /\ QuietRight
  BY DEF SketchInv
<1>3. /\ e \in Line!Events /\ e.key = Calls[NextCall]
      /\ due' \subseteq DOMAIN Calls /\ ReleasesFirst' /\ FlagsHeld' /\ DueHeld'
      /\ \A k \in Keys : k # e.key => OfKey(k)' = OfKey(k)
      /\ OfKey(e.key)' = {} =>
            /\ e.down => e.key \in padHeld \cup keyHeld
            /\ Kept(e.key) => e.down
  BY <1>1, CallMade
<1>4. \A k : Settled(k)' = Settled(k)
  BY <1>1 DEF Settled, Waiting
<1>5. lost' \subseteq Keys
  BY <1>1, <1>2, <1>3 DEF TypeOK, Line!Events
<1>6. TypeOK'
  BY <1>1, <1>2, <1>3, <1>5 DEF TypeOK, Line!TypeOK
<1>7. QuietRight'
  <2>. SUFFICES ASSUME NEW k \in Keys \ lost', OfKey(k)' = {}
                PROVE  /\ Settled(k) => k \in padHeld \cup keyHeld
                       /\ Kept(k) => Settled(k)
    BY <1>1, <1>4 DEF QuietRight, Kept
  <2>1. CASE k = e.key
    <3>1. Settled(k) = e.down
      BY <1>1, <2>1
    <3>. QED
      BY <1>3, <2>1, <3>1
  <2>2. CASE k # e.key
    <3>1. k \notin lost /\ OfKey(k) = {}
      BY <1>1, <1>3, <2>2
    <3>. QED
      BY <1>2, <3>1 DEF QuietRight
  <2>. QED
    BY <2>1, <2>2
<1>. QED
  BY <1>3, <1>6, <1>7 DEF SketchInv

\* A code that goes out makes its key what it was to become; one that the bus
\* loses does so only when a later one of the key is behind it.
LEMMA LineStep ==
    ASSUME SketchInv, Deliver \/ Lose
    PROVE  SketchInv'
<1>. PICK e : e = Head(pending)
  OBVIOUS
<1>1. /\ pending # <<>> /\ pending' = Tail(pending)
      /\ UNCHANGED <<right, reporting, prevLayout, padHeld, keyHeld, gpio, switched, held, taken, due>>
  BY DEF Deliver, Lose, Line!Deliver, Line!Lose, prev_vars
<1>2. TypeOK /\ ReleasesFirst /\ FlagsHeld /\ DueHeld /\ QuietRight
  BY DEF SketchInv
<1>3. /\ e \in Line!Events /\ pending' \in Seq(Line!Events) /\ Len(pending') <= Capacity
  <2>1. pending \in Seq(Line!Events) /\ Len(pending) \in Nat /\ Len(pending) <= Capacity
    BY <1>2, LineTypes DEF TypeOK, Line!TypeOK
  <2>2. Tail(pending) \in Seq(Line!Events) /\ Len(Tail(pending)) = Len(pending) - 1
        /\ e \in Line!Events
    BY <1>1, <2>1
  <2>. QED
    BY <1>1, <2>1, <2>2
<1>4. \A k \in Keys :
         /\ Waiting(k) = {1} => /\ Settled(k)' = (k \in down')
                                /\ Settled(k) = e.down
                                /\ e.key = k
         /\ Waiting(k) = {} => /\ Settled(k)' = (k \in down')
                               /\ Settled(k) = (k \in down)
                               /\ e.key # k
         /\ Waiting(k) # {} /\ Waiting(k) # {1} => Settled(k)' = Settled(k)
  BY <1>1, <1>2, SettledTail
<1>5. \A k : OfKey(k)' = OfKey(k)
  BY <1>1 DEF OfKey
<1>6. /\ lost \subseteq lost' /\ lost' \subseteq Keys /\ down' \subseteq Keys
      /\ \A k \in Keys \ lost' : Settled(k)' = Settled(k)
  <2>1. CASE Deliver
    <3>1. lost' = lost /\ down' = IF e.down THEN down \cup {e.key} ELSE down \ {e.key}
      BY <2>1 DEF Deliver, Line!Deliver
    <3>2. \A k \in Keys : Waiting(k) = {1} => (k \in down') = e.down
      BY <1>3, <1>4, <3>1 DEF Line!Events
    <3>3. \A k \in Keys : Waiting(k) = {} => (k \in down') = (k \in down)
      BY <1>4, <3>1
    <3>4. \A k \in Keys : Settled(k)' = Settled(k)
      BY <1>4, <3>2, <3>3
    <3>5. down' \subseteq Keys
      BY <1>2, <1>3, <3>1 DEF TypeOK, Line!TypeOK, Line!Events
    <3>. QED
      BY <1>2, <3>1, <3>4, <3>5 DEF TypeOK
  <2>2. CASE Lose
    <3>1. /\ down' = down
          /\ lost' = IF Waiting(e.key) = {1} /\ (e.key \in down) # e.down
                     THEN lost \cup {e.key} ELSE lost
      BY <2>2 DEF Lose, Line!Lose
    <3>2. \A k \in Keys \ lost' : Waiting(k) = {1} => (k \in down) = e.down
      BY <1>4, <3>1
    <3>3. \A k \in Keys \ lost' : Settled(k)' = Settled(k)
      BY <1>4, <3>1, <3>2
    <3>. QED
      BY <1>2, <1>3, <3>1, <3>3 DEF TypeOK, Line!TypeOK, Line!Events
  <2>. QED
    BY <2>1, <2>2
<1>7. TypeOK'
  BY <1>1, <1>2, <1>3, <1>6 DEF TypeOK, Line!TypeOK
<1>8. ReleasesFirst' /\ FlagsHeld' /\ DueHeld'
  BY <1>1, <1>2 DEF ReleasesFirst, FlagsHeld, DueHeld, Kept
<1>9. QuietRight'
  BY <1>1, <1>2, <1>5, <1>6 DEF QuietRight, Kept
<1>. QED
  BY <1>7, <1>8, <1>9 DEF SketchInv

\* The selector, the host and a step of neither change nothing of this.
LEMMA OtherStep ==
    ASSUME SketchInv, Turn \/ (\E on \in BOOLEAN : Report(on)) \/ UNCHANGED vars
    PROVE  SketchInv'
<1>1. /\ UNCHANGED <<prevLayout, padHeld, keyHeld, gpio, switched, held, taken, due,
                  pending, down, lost>>
      /\ right' \in BOOLEAN /\ reporting' \in BOOLEAN
  BY DEF SketchInv, TypeOK, Turn, Report, vars, prev_vars, line_vars
<1>2. TypeOK'
  BY <1>1 DEF SketchInv, TypeOK, Line!TypeOK
<1>3. ReleasesFirst' /\ FlagsHeld' /\ DueHeld' /\ QuietRight'
  BY <1>1 DEF SketchInv, ReleasesFirst, FlagsHeld, DueHeld, QuietRight, Kept, OfKey, Settled, Waiting
<1>. QED
  BY <1>2, <1>3 DEF SketchInv

-----------------------------------------------------------------------------
(* The theorems.                                                           *)

\* The invariant of the sketch holds in every reachable state.
THEOREM Inductive == Spec => []SketchInv
<1>1. Init => SketchInv
  <2>. SUFFICES ASSUME Init PROVE SketchInv
    OBVIOUS
  <2>1. pending = <<>> /\ down = {} /\ padHeld = {} /\ keyHeld = {} /\ due = {} /\ lost = {}
        /\ held = [c \in Controllers |-> {}] /\ taken = {}
    BY DEF Init, Line!Init
  <2>2. TypeOK
    <3>1. pending \in Seq(Line!Events) /\ Len(pending) = 0
      BY <2>1
    <3>2. Line!TypeOK
      BY <2>1, <3>1 DEF Line!TypeOK
    <3>. QED
      BY <2>1, <3>2 DEF Init, TypeOK
  <2>3. ReleasesFirst /\ FlagsHeld /\ DueHeld
    BY <2>1 DEF ReleasesFirst, FlagsHeld, DueHeld
  <2>4. \A k : Waiting(k) = {}
    BY <2>1 DEF Waiting
  <2>5. QuietRight
    BY <2>1, <2>4 DEF QuietRight, Settled, Kept
  <2>. QED
    BY <2>2, <2>3, <2>5 DEF SketchInv
<1>2. SketchInv /\ [Next]_vars => SketchInv'
  BY ReportStep, SendStep, SendLostStep, LineStep, OtherStep DEF Next
<1>. QED
  BY <1>1, <1>2, PTL DEF Spec

\* Every variable keeps its type; the codes that wait are never more than the
\* queue and the send task hold.
THEOREM TypesAlwaysRight == Spec => []TypeOK
<1>1. SketchInv => TypeOK
  BY DEF SketchInv
<1>. QED
  BY <1>1, Inductive, PTL

\* No key is left pressed: in any order of reports, changes of layout, refused
\* and torn codes, a key whose latest code was not lost ends up pressed only if
\* a gamepad or a keyboard holds it.
THEOREM NeverAStuckKey == Spec => []NoStuckKey
<1>1. SketchInv => NoStuckKey
  BY InvariantIsEnough
<1>. QED
  BY <1>1, Inductive, PTL

\* And none is missed: a key that one of any number of gamepads and keyboards
\* holds ends up pressed, unless its latest code was lost or another controller's
\* report has released it since.
THEOREM NeverAMissedKey == Spec => []NoMissedKey
<1>1. SketchInv => NoMissedKey
  BY InvariantIsEnough
<1>. QED
  BY <1>1, Inductive, PTL
=============================================================================
