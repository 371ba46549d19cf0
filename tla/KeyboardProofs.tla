--------------------------- MODULE KeyboardProofs ---------------------------
(***************************************************************************)
(* The keyboard service reports what was pressed, for every matrix and     *)
(* every capacity of the ring.  First the scans: what a poll compares in   *)
(* the end are the keys that really were held, because a switch that was   *)
(* closed during a scan is met by the check after it.  Then the ring: its  *)
(* events, oldest first, lead from what the reader knows to what the       *)
(* service debounced.                                                      *)
(***************************************************************************)
EXTENDS Keyboard, FiniteSetTheorems, TLAPS

USE KeyboardAssumption

(* The keys of an order are those that changed, of which there are         *)
(* finitely many.                                                          *)
LEMMA ChangesAreCounted ==
    /\ Cardinality(Changed) \in Nat
    /\ Changed \subseteq Keys
<1>1. IsFiniteSet(Keys)
  BY FS_Product DEF Keys
<1>2. IsFiniteSet(Changed)
  BY <1>1, FS_Subset DEF Changed
<1> QED BY <1>2, FS_CardinalityType DEF Changed

LEMMA DebouncedAreKeys == Debounced \subseteq Keys
BY DEF Debounced

-----------------------------------------------------------------------------
(* The scans.                                                              *)

MatrixTypes ==
    /\ keys \subseteq Keys /\ matrix \subseteq Keys /\ candidate \subseteq Keys
    /\ previous \subseteq Keys
    /\ held \in [{1, 2} -> SUBSET Keys]
    /\ pc \in {"idle", "scan1", "check1", "scan2", "check2"}
    /\ switch \in {"open", "closed", "seen"}

(* While a poll is under way no check has met a closed switch; a scan with *)
(* all switches open reads the keys as they are.                           *)
ScansAreHonest ==
    /\ pc # "idle" => switch # "seen"
    /\ pc = "check1" /\ switch = "open" => matrix = held[1]
    /\ pc \in {"scan2", "check2"} => candidate = held[1]
    /\ pc = "check2" /\ switch = "open" => matrix = held[2]

ScanInv == MatrixTypes /\ ScansAreHonest

LEMMA InitIsHonest == Init => ScanInv
<1> SUFFICES ASSUME Init PROVE ScanInv
  OBVIOUS
<1>1. held \in [{1, 2} -> SUBSET Keys]
  <2>1. DOMAIN <<{}, {}>> = {1, 2}
    OBVIOUS
  <2> QED BY <2>1 DEF Init
<1> QED BY <1>1 DEF Init, ScanInv, MatrixTypes, ScansAreHonest

LEMMA StepStaysHonest == ScanInv /\ [Next]_vars => ScanInv'
<1> SUFFICES ASSUME ScanInv, [Next]_vars PROVE ScanInv'
  OBVIOUS
<1> USE DEF ScanInv, MatrixTypes, ScansAreHonest
<1>0. <<{}, {}>> \in [{1, 2} -> SUBSET Keys]
  OBVIOUS
<1>1. CASE Touch
  BY <1>1 DEF Touch, queue, history
<1>2. CASE Click
  BY <1>2 DEF Click
<1>3. CASE Raster
  BY <1>3 DEF Raster
<1>4. CASE Begin
  BY <1>4 DEF Begin, Allowed, Probe
<1>5. ASSUME NEW from \in {"idle", "check1", "check2"}, Abandon(from) PROVE ScanInv'
  BY <1>0, <1>5 DEF Abandon, Allowed, Probe, Forget
<1>6. CASE Scan("scan1", 1, "check1")
  BY <1>6 DEF Scan
<1>7. CASE Compare
  BY <1>7 DEF Compare, Allowed, Probe
<1>8. CASE Scan("scan2", 2, "check2")
  BY <1>8 DEF Scan
<1>9. CASE Qualify
  BY <1>0, <1>9, DebouncedAreKeys DEF Qualify, Allowed, Probe, Forget
<1>10. CASE EventGet
  BY <1>10 DEF EventGet
<1>11. CASE UNCHANGED vars
  BY <1>11 DEF vars
<1> QED BY <1>1, <1>2, <1>3, <1>4, <1>5, <1>6, <1>7, <1>8, <1>9, <1>10, <1>11
        DEF Next, Poll

(* Both scans of a poll that ends well tell the keys as they were held     *)
(* (udeks_keyboard_poll, _udeks_pointer_keyboard_allowed).                 *)
THEOREM ScansStayHonest == Spec => []ScanInv
BY InitIsHonest, StepStaysHonest, PTL DEF Spec

(* A key changes its debounced state only to what it was in both scans,    *)
(* for every matrix.                                                       *)
THEOREM OnlyRealTransitions == Spec => TransitionsAreReal
<1> DEFINE Real == \A k \in Keys :
              (k \in previous') # (k \in previous) =>
                  \A i \in {1, 2} : k \in previous' <=> k \in held[i]
<1>1. ScanInv /\ [Next]_vars => [Real]_vars
  <2> SUFFICES ASSUME ScanInv, [Next]_vars PROVE previous' = previous \/ Real
    BY DEF vars
  <2>1. CASE Qualify
    <3>1. candidate = held[1] /\ matrix = held[2] /\ previous' = Debounced
      BY <2>1 DEF ScanInv, ScansAreHonest, Qualify, Allowed
    <3> SUFFICES ASSUME NEW k \in Keys, (k \in Debounced) # (k \in previous)
                 PROVE  \A i \in {1, 2} : k \in Debounced <=> k \in held[i]
      BY <3>1
    <3>2. k[1] \in StableLines /\ (k \in Debounced <=> k \in matrix)
      BY DEF Debounced
    <3>3. Line(matrix, k[1]) = Line(candidate, k[1])
      BY <3>2 DEF StableLines
    <3>4. k \in matrix <=> k \in candidate
      BY <3>3 DEF Line
    <3> QED BY <3>1, <3>2, <3>4
  <2>2. CASE ~Qualify
    BY <2>2 DEF Next, Poll, Touch, Click, Raster, Begin, Abandon, Scan, Compare, EventGet,
                vars
  <2> QED BY <2>1, <2>2
<1> QED BY <1>1, ScansStayHonest, PTL DEF Spec, TransitionsAreReal

-----------------------------------------------------------------------------
(* The ring.                                                               *)

(* An index wraps once at most.                                            *)
LEMMA WrapOnce ==
    ASSUME NEW n \in Nat, n < 2 * Capacity
    PROVE  n % Capacity = IF n < Capacity THEN n ELSE n - Capacity
<1>1. CASE n < Capacity
  BY <1>1
<1>2. CASE n >= Capacity
  BY <1>2
<1> QED BY <1>1, <1>2

(* The place of the i-th event of the ring, from 0, the oldest.            *)
Place(i) == (tail + i) % Capacity

(* The ring holds count events, and the next goes behind them.             *)
RingInv ==
    /\ previous \subseteq Keys /\ known \subseteq Keys
    /\ count \in 0 .. Capacity /\ tail \in Places
    /\ head = Place(count)
    /\ DOMAIN ring = Places
    /\ \A i \in 0 .. count - 1 : ring[Place(i)] \in Events

NoneOf(k) == \A i \in 0 .. count - 1 : ring[Place(i)].key # k

LastOf(k, i) ==
    /\ i \in 0 .. count - 1
    /\ ring[Place(i)].key = k
    /\ \A j \in i + 1 .. count - 1 : ring[Place(j)].key # k

(* Of a key that is not missed, the last event tells the debounced state;  *)
(* without one, the reader knows it.                                       *)
Told(k) ==
    \/ NoneOf(k) /\ (k \in known <=> k \in previous)
    \/ \E i \in 0 .. count - 1 :
          LastOf(k, i) /\ (ring[Place(i)].pressed <=> k \in previous)

AllAreTold == \A k \in Keys \ missed : Told(k)

QueueInv == RingInv /\ AllAreTold

LEMMA PlaceWraps ==
    ASSUME tail \in Places, NEW i \in 0 .. Capacity
    PROVE  Place(i) = IF tail + i < Capacity THEN tail + i ELSE tail + i - Capacity
<1> DEFINE n == tail + i
<1>1. n \in Nat /\ n < 2 * Capacity
  BY DEF Places
<1>2. Place(i) = n % Capacity
  BY DEF Place
<1> HIDE DEF n
<1>3. Place(i) = IF n < Capacity THEN n ELSE n - Capacity
  BY <1>1, <1>2, WrapOnce
<1> QED BY <1>1, <1>3 DEF n, Places

LEMMA PlacesAreDistinct ==
    ASSUME tail \in Places
    PROVE  /\ \A i \in 0 .. Capacity : Place(i) \in Places
           /\ Place(0) = tail
           /\ \A i, j \in 0 .. Capacity - 1 : Place(i) = Place(j) => i = j
BY PlaceWraps DEF Places

(* Advance(head, i) is i places behind the last event.                     *)
LEMMA AdvanceIsBehind ==
    ASSUME RingInv, NEW i \in 0 .. Capacity - count
    PROVE  Advance(head, i) = Place(count + i)
<1>1. tail \in Places /\ count \in 0 .. Capacity /\ head = Place(count)
  BY DEF RingInv
<1>2. count + i \in 0 .. Capacity /\ i \in 0 .. Capacity
  BY <1>1
<1>3. head = IF tail + count < Capacity THEN tail + count ELSE tail + count - Capacity
  BY <1>1, PlaceWraps
<1>4. Place(count + i) = IF tail + (count + i) < Capacity THEN tail + (count + i)
                         ELSE tail + (count + i) - Capacity
  BY <1>1, <1>2, PlaceWraps
<1> DEFINE n == head + i
<1>5. n \in Nat /\ n < 2 * Capacity
  BY <1>1, <1>2, <1>3 DEF Places
<1>6. Advance(head, i) = n % Capacity
  BY DEF Advance
<1> HIDE DEF n
<1>7. Advance(head, i) = IF n < Capacity THEN n ELSE n - Capacity
  BY <1>5, <1>6, WrapOnce
<1> QED BY <1>1, <1>2, <1>3, <1>4, <1>7 DEF Places, n

(* enqueue_event keeps the events of the ring in their places and puts     *)
(* those that fit behind them.                                             *)
LEMMA EnqueueAppends ==
    ASSUME RingInv, NEW n \in Nat, NEW events \in [1 .. n -> Events], Enqueue(events)
    PROVE  LET fitting == IF n <= Room THEN n ELSE Room
           IN  /\ fitting \in 0 .. n /\ count' = count + fitting
               /\ count' \in 0 .. Capacity
               /\ head' = Place(count')
               /\ DOMAIN ring' = Places
               /\ \A i \in 0 .. count - 1 : ring'[Place(i)] = ring[Place(i)]
               /\ \A i \in 1 .. fitting : ring'[Place(count + i - 1)] = events[i]
               /\ missed' = (missed \ {events[i].key : i \in 1 .. fitting})
                               \cup {events[i].key : i \in fitting + 1 .. n}
<1> DEFINE fitting == IF n <= Room THEN n ELSE Room
           At(p) == {i \in 1 .. fitting : Advance(head, i - 1) = p}
<1>1. Len(events) = n
  OBVIOUS
<1>2. /\ ring' = [p \in Places |-> IF At(p) = {} THEN ring[p]
                                   ELSE events[CHOOSE i \in At(p) : TRUE]]
      /\ head' = Advance(head, fitting)
      /\ count' = count + fitting
      /\ missed' = (missed \ {events[i].key : i \in 1 .. fitting})
                      \cup {events[i].key : i \in fitting + 1 .. n}
  BY <1>1 DEF Enqueue
<1>3. fitting \in 0 .. n /\ fitting \in 0 .. Capacity - count
  BY DEF Room, RingInv
<1> HIDE DEF fitting
<1>0. count \in 0 .. Capacity /\ tail \in Places
  BY DEF RingInv
<1>4. count' \in 0 .. Capacity /\ head' = Place(count')
  <2>1. count' \in 0 .. Capacity
    BY <1>2, <1>3, <1>0
  <2>2. head' = Place(count + fitting)
    BY <1>2, <1>3, AdvanceIsBehind
  <2> QED BY <1>2, <2>1, <2>2
<1>5. \A i \in 1 .. fitting : Advance(head, i - 1) = Place(count + i - 1)
  <2> TAKE i \in 1 .. fitting
  <2>1. i - 1 \in 0 .. Capacity - count
    BY <1>3, <1>0
  <2>2. Advance(head, i - 1) = Place(count + (i - 1))
    BY <2>1, AdvanceIsBehind
  <2> QED BY <2>2, <1>0
<1>6. ASSUME NEW i \in 0 .. count - 1 PROVE ring'[Place(i)] = ring[Place(i)]
  <2>1. i \in 0 .. Capacity - 1 /\ Place(i) \in Places
    BY PlacesAreDistinct, <1>0
  <2>2. ASSUME NEW j \in 1 .. fitting PROVE Advance(head, j - 1) # Place(i)
    <3>1. count + j - 1 \in 0 .. Capacity - 1 /\ count + j - 1 # i
      BY <1>3, <1>0
    <3> QED BY <1>5, <2>1, <3>1, PlacesAreDistinct, <1>0
  <2>3. At(Place(i)) = {}
    BY <2>2
  <2> QED BY <1>2, <2>1, <2>3
<1>7. ASSUME NEW i \in 1 .. fitting PROVE ring'[Place(count + i - 1)] = events[i]
  <2>1. count + i - 1 \in 0 .. Capacity - 1
    BY <1>3, <1>0
  <2>2. Place(count + i - 1) \in Places
    BY <1>0, <2>1, PlacesAreDistinct
  <2>3. At(Place(count + i - 1)) = {i}
    <3>1. i \in At(Place(count + i - 1))
      BY <1>5
    <3>2. ASSUME NEW j \in At(Place(count + i - 1)) PROVE j = i
      <4>1. j \in 1 .. fitting /\ Place(count + j - 1) = Place(count + i - 1)
        BY <1>5
      <4>2. count + j - 1 \in 0 .. Capacity - 1
        BY <1>3, <4>1, <1>0
      <4>3. count + j - 1 = count + i - 1
        BY <2>1, <4>1, <4>2, PlacesAreDistinct, <1>0
      <4> QED BY <4>1, <4>3, <1>0
    <3> QED BY <3>1, <3>2
  <2>4. (CHOOSE j \in {i} : TRUE) = i
    OBVIOUS
  <2> QED BY <1>2, <2>2, <2>3, <2>4
<1>8. DOMAIN ring' = Places
  BY <1>2
<1> QED BY <1>2, <1>3, <1>4, <1>6, <1>7, <1>8 DEF fitting

LEMMA InitIsTold == Init => QueueInv
<1> SUFFICES ASSUME Init PROVE QueueInv
  OBVIOUS
<1>1. count = 0 /\ head = 0 /\ tail = 0 /\ known = previous /\ previous \subseteq Keys
  BY DEF Init
<1>2. tail \in Places /\ count \in 0 .. Capacity
  BY <1>1 DEF Places
<1>3. head = Place(count)
  BY <1>1, <1>2, PlacesAreDistinct
<1>4. DOMAIN ring = Places
  BY DEF Init
<1>5. RingInv
  BY <1>1, <1>2, <1>3, <1>4 DEF RingInv
<1>6. AllAreTold
  BY <1>1 DEF AllAreTold, Told, NoneOf
<1> QED BY <1>5, <1>6 DEF QueueInv

(* An entry of the ring that is followed by no other of its key stays so   *)
(* under a step that leaves the ring and the debounced keys alone.         *)
LEMMA OtherStepsKeepTold ==
    ASSUME QueueInv, UNCHANGED <<previous, queue, history>>
    PROVE  QueueInv'
BY DEF QueueInv, RingInv, AllAreTold, Told, NoneOf, LastOf, Place, queue, history

(* The ring after a poll: the events of a key that changed end in what it  *)
(* changed to, unless that one was dropped; those of another are as before.*)
LEMMA QualifyKeepsTold ==
    ASSUME QueueInv, Qualify
    PROVE  QueueInv'
<1> DEFINE n == Cardinality(Changed)
<1>1. n \in Nat /\ Changed \subseteq Keys
  BY ChangesAreCounted
<1> HIDE DEF n
<1>2. PICK order \in [1 .. n -> Changed] :
         InScanOrder(order) /\ Enqueue(Transitions(order))
  BY DEF Qualify, n
<1> DEFINE events == Transitions(order)
           fitting == IF n <= Room THEN n ELSE Room
<1>3. events \in [1 .. n -> Events]
  BY <1>1, <1>2 DEF Transitions, Events, Pressed
<1>4. \A i \in 1 .. n : events[i].key = order[i] /\ (events[i].pressed <=> order[i] \in Debounced)
  BY <1>2 DEF Transitions, Pressed
<1> HIDE DEF events, fitting
<1>5. /\ fitting \in 0 .. n /\ count' = count + fitting
      /\ count' \in 0 .. Capacity
      /\ head' = Place(count')
      /\ DOMAIN ring' = Places
      /\ \A i \in 0 .. count - 1 : ring'[Place(i)] = ring[Place(i)]
      /\ \A i \in 1 .. fitting : ring'[Place(count + i - 1)] = events[i]
      /\ missed' = (missed \ {events[i].key : i \in 1 .. fitting})
                      \cup {events[i].key : i \in fitting + 1 .. n}
  BY <1>1, <1>2, <1>3, EnqueueAppends DEF QueueInv, events, fitting
<1>6. tail' = tail /\ known' = known /\ previous' = Debounced
  BY DEF Qualify
<1>7. /\ count \in 0 .. Capacity /\ tail \in Places /\ known \subseteq Keys
      /\ \A i \in 0 .. count - 1 : ring[Place(i)] \in Events
  BY DEF QueueInv, RingInv
<1>8. \A i \in count .. count' - 1 :
         /\ i - count + 1 \in 1 .. fitting
         /\ ring'[Place(i)] = events[i - count + 1]
  <2> TAKE i \in count .. count' - 1
  <2>1. i - count + 1 \in 1 .. fitting
    BY <1>5, <1>7
  <2>2. count + (i - count + 1) - 1 = i
    BY <1>7
  <2> QED BY <1>5, <2>1, <2>2
<1>9. RingInv'
  <2>1. ASSUME NEW i \in 0 .. count' - 1 PROVE ring'[Place(i)] \in Events
    <3>1. CASE i \in 0 .. count - 1
      BY <1>5, <1>7, <3>1
    <3>2. CASE i \in count .. count' - 1
      <4>1. i - count + 1 \in 1 .. n
        BY <1>1, <1>5, <1>8, <3>2
      <4> QED BY <1>3, <1>8, <3>2, <4>1
    <3> QED BY <1>5, <1>7, <3>1, <3>2
  <2> QED BY <1>5, <1>6, <1>7, <2>1, DebouncedAreKeys DEF RingInv, Place
<1>10. ASSUME NEW k \in Keys \ missed' PROVE Told(k)'
  <2>1. CASE k \in Changed
    <3>1. PICK j \in 1 .. n : order[j] = k
      BY <1>2, <2>1 DEF InScanOrder
    <3>2. j \in 1 .. fitting
      BY <1>4, <1>5, <3>1
    <3>i. count + j - 1 \in 0 .. count' - 1
      BY <1>1, <1>5, <1>7, <3>2
    <3>3. PICK i \in 0 .. count' - 1 : i = count + j - 1
      BY <3>i
    <3>4. ring'[Place(i)] = events[j]
      BY <1>5, <3>2, <3>3
    <3>5. ASSUME NEW l \in i + 1 .. count' - 1 PROVE ring'[Place(l)].key # k
      <4>1. l \in count .. count' - 1 /\ l - count + 1 \in 1 .. n /\ j < l - count + 1
        BY <1>1, <1>5, <1>7, <3>2, <3>3
      <4>2. ring'[Place(l)].key = order[l - count + 1]
        BY <1>4, <1>5, <1>8, <4>1
      <4>3. Precedes(k, order[l - count + 1])
        BY <1>2, <3>1, <4>1 DEF InScanOrder
      <4>4. ~ Precedes(k, k)
        <5>1. k[1] \in Nat /\ k[2] \in Nat
          BY DEF Keys
        <5> QED BY <5>1 DEF Precedes
      <4> QED BY <4>2, <4>3, <4>4
    <3>6. LastOf(k, i)'
      BY <1>4, <1>6, <3>1, <3>3, <3>4, <3>5 DEF LastOf, Place
    <3>7. ring'[Place(i)].pressed <=> k \in previous'
      BY <1>4, <1>6, <3>1, <3>4
    <3> QED BY <1>6, <3>3, <3>6, <3>7 DEF Told, Place
  <2>2. CASE k \notin Changed
    <3>1. \A i \in 1 .. n : events[i].key # k
      BY <1>2, <1>4, <2>2
    <3>2. k \in previous' <=> k \in previous
      BY <1>6, <2>2 DEF Changed
    <3>3. Told(k)
      <4>1. k \notin missed
        <5>1. \A i \in 1 .. fitting : i \in 1 .. n
          BY <1>1, <1>5
        <5> QED BY <1>5, <3>1, <5>1
      <4> QED BY <4>1 DEF QueueInv, AllAreTold
    <3>4. \A i \in count .. count' - 1 : ring'[Place(i)].key # k
      <4> TAKE i \in count .. count' - 1
      <4>1. i - count + 1 \in 1 .. n
        BY <1>1, <1>5, <1>8
      <4> QED BY <1>8, <3>1, <4>1
    <3>5. CASE NoneOf(k) /\ (k \in known <=> k \in previous)
      <4>1. NoneOf(k)'
        BY <1>5, <1>6, <1>7, <3>4, <3>5 DEF NoneOf, Place
      <4> QED BY <1>6, <3>2, <3>5, <4>1 DEF Told
    <3>6. ASSUME NEW i \in 0 .. count - 1,
                 LastOf(k, i), ring[Place(i)].pressed <=> k \in previous
          PROVE  Told(k)'
      <4>1. i \in 0 .. count' - 1 /\ ring'[Place(i)] = ring[Place(i)]
        BY <1>5, <1>7
      <4>2. \A j \in i + 1 .. count' - 1 : ring'[Place(j)].key # k
        <5> TAKE j \in i + 1 .. count' - 1
        <5>1. CASE j \in i + 1 .. count - 1
          BY <1>5, <1>7, <3>6, <5>1 DEF LastOf
        <5>2. CASE j \in count .. count' - 1
          BY <3>4, <5>2
        <5> QED BY <1>5, <1>7, <5>1, <5>2
      <4> QED BY <1>6, <3>2, <3>6, <4>1, <4>2 DEF Told, LastOf, Place
    <3> QED BY <3>3, <3>5, <3>6 DEF Told
  <2> QED BY <2>1, <2>2
<1> QED BY <1>9, <1>10 DEF QueueInv, AllAreTold

(* The reader takes the oldest event: the others move up by one.           *)
LEMMA EventGetKeepsTold ==
    ASSUME QueueInv, EventGet
    PROVE  QueueInv'
<1>1. /\ count \in 0 .. Capacity /\ count > 0 /\ tail \in Places /\ known \subseteq Keys
      /\ previous \subseteq Keys /\ DOMAIN ring = Places /\ head = Place(count)
      /\ \A i \in 0 .. count - 1 : ring[Place(i)] \in Events
  BY DEF QueueInv, RingInv, EventGet
<1>2. /\ known' = IF ring[tail].pressed THEN known \cup {ring[tail].key}
                  ELSE known \ {ring[tail].key}
      /\ ring' = [ring EXCEPT ![tail] = NoEvent]
      /\ tail' = Advance(tail, 1) /\ count' = count - 1
      /\ previous' = previous /\ missed' = missed /\ head' = head
  BY DEF EventGet
<1>3. tail' = Place(1) /\ tail' \in Places
  BY <1>1, <1>2, PlacesAreDistinct DEF Advance, Place
<1> DEFINE After(i) == (tail' + i) % Capacity
<1> HIDE DEF After
<1>4. \A i \in 0 .. Capacity - 1 : After(i) = Place(i + 1)
  <2> TAKE i \in 0 .. Capacity - 1
  <2>1. Place(1) = IF tail + 1 < Capacity THEN tail + 1 ELSE tail + 1 - Capacity
    BY <1>1, PlaceWraps
  <2>2. Place(i + 1) = IF tail + (i + 1) < Capacity THEN tail + (i + 1)
                       ELSE tail + (i + 1) - Capacity
    BY <1>1, PlaceWraps
  <2> DEFINE n == tail' + i
  <2>3. n \in Nat /\ n < 2 * Capacity
    BY <1>3 DEF Places
  <2> HIDE DEF n
  <2>4. n % Capacity = IF n < Capacity THEN n ELSE n - Capacity
    BY <2>3, WrapOnce
  <2>5. After(i) = n % Capacity
    BY DEF n, After
  <2>6. i + 1 \in 0 .. Capacity /\ n = Place(1) + i
    BY <1>3 DEF n
  <2>7. tail \in 0 .. Capacity - 1
    BY <1>1 DEF Places
  <2>8. CASE tail + 1 < Capacity
    BY <2>1, <2>2, <2>4, <2>5, <2>6, <2>7, <2>8
  <2>9. CASE ~(tail + 1 < Capacity)
    BY <2>1, <2>2, <2>4, <2>5, <2>6, <2>7, <2>9
  <2> QED BY <2>8, <2>9
<1>5. ASSUME NEW i \in 1 .. count - 1
      PROVE  ring'[Place(i)] = ring[Place(i)]
  <2>1. Place(i) \in Places /\ Place(i) # tail
    BY <1>1, PlacesAreDistinct
  <2> QED BY <1>1, <1>2, <2>1
<1>6. \A i \in 0 .. count' - 1 : ring'[After(i)] = ring[Place(i + 1)]
  <2> TAKE i \in 0 .. count' - 1
  <2>1. i \in 0 .. Capacity - 1 /\ i + 1 \in 1 .. count - 1
    BY <1>1, <1>2
  <2> QED BY <1>4, <1>5, <2>1
<1>7. ring[tail] \in Events /\ ring[tail] = ring[Place(0)]
  BY <1>1, PlacesAreDistinct
<1>8. RingInv'
  <2>1. head' = Place(count)
    BY <1>1, <1>2
  <2>2. Place(count) = (tail' + count') % Capacity
    <3>1. count - 1 \in 0 .. Capacity - 1 /\ count - 1 + 1 = count
      BY <1>1
    <3>2. After(count - 1) = Place(count)
      BY <1>4, <3>1
    <3> QED BY <1>2, <3>2 DEF After
  <2>3. \A i \in 0 .. count' - 1 : ring'[After(i)] \in Events
    BY <1>1, <1>2, <1>6
  <2>4. known' \subseteq Keys
    BY <1>1, <1>2, <1>7 DEF Events
  <2> QED BY <1>1, <1>2, <1>3, <2>1, <2>2, <2>3, <2>4 DEF RingInv, Place, After
<1>9. ASSUME NEW k \in Keys \ missed' PROVE Told(k)'
  <2>1. Told(k)
    BY <1>2 DEF QueueInv, AllAreTold
  <2>2. CASE NoneOf(k) /\ (k \in known <=> k \in previous)
    <3>1. ring[tail].key # k
      BY <1>1, <1>7, <2>2 DEF NoneOf
    <3>2. \A i \in 0 .. count' - 1 : ring'[After(i)].key # k
      BY <1>1, <1>2, <1>6, <2>2 DEF NoneOf
    <3>3. NoneOf(k)'
      BY <3>2 DEF NoneOf, Place, After
    <3> QED BY <1>2, <2>2, <3>1, <3>3 DEF Told
  <2>3. ASSUME LastOf(k, 0), ring[Place(0)].pressed <=> k \in previous
        PROVE  Told(k)'
    <3>1. ring[tail].key = k /\ (k \in known' <=> k \in previous)
      BY <1>2, <1>7, <2>3 DEF LastOf
    <3>2. \A i \in 0 .. count' - 1 : ring'[After(i)].key # k
      BY <1>1, <1>2, <1>6, <2>3 DEF LastOf
    <3>3. NoneOf(k)'
      BY <3>2 DEF NoneOf, Place, After
    <3> QED BY <1>2, <3>1, <3>3 DEF Told
  <2>4. ASSUME NEW i \in 1 .. count - 1,
               LastOf(k, i), ring[Place(i)].pressed <=> k \in previous
        PROVE  Told(k)'
    <3> DEFINE j == i - 1
    <3>1. j \in 0 .. count' - 1 /\ j + 1 = i
      BY <1>1, <1>2
    <3> HIDE DEF j
    <3>2. ring'[After(j)] = ring[Place(i)]
      BY <1>6, <3>1
    <3>3. \A l \in j + 1 .. count' - 1 : ring'[After(l)].key # k
      <4> TAKE l \in j + 1 .. count' - 1
      <4>1. l + 1 \in i + 1 .. count - 1 /\ l \in 0 .. count' - 1
        BY <1>1, <1>2, <3>1
      <4> QED BY <1>6, <2>4, <4>1 DEF LastOf
    <3>4. LastOf(k, j)'
      BY <2>4, <3>1, <3>2, <3>3 DEF LastOf, Place, After
    <3>5. ring'[After(j)].pressed <=> k \in previous'
      BY <1>2, <2>4, <3>2
    <3> QED BY <3>1, <3>4, <3>5 DEF Told, Place, After
  <2> QED BY <1>1, <2>1, <2>2, <2>3, <2>4 DEF Told
<1> QED BY <1>8, <1>9 DEF QueueInv, AllAreTold

(* Events lead from what their reader knows to what the service debounced  *)
(* (enqueue_event, udeks_keyboard_event_get).                              *)
THEOREM QueueIsInvariant == Spec => []QueueInv
<1>1. QueueInv /\ [Next]_vars => QueueInv'
  <2> SUFFICES ASSUME QueueInv, [Next]_vars PROVE QueueInv'
    OBVIOUS
  <2>1. \/ Qualify \/ EventGet
        \/ UNCHANGED <<previous, queue, history>>
    BY DEF Next, Poll, Touch, Click, Raster, Begin, Abandon, Scan, Compare, vars
  <2> QED BY <2>1, QualifyKeepsTold, EventGetKeepsTold, OtherStepsKeepTold
<1> QED BY <1>1, InitIsTold, PTL DEF Spec

(* What a key's events in the ring tell in the end is its debounced state, *)
(* for every matrix and capacity, unless its latest transition was dropped.*)
THEOREM ReaderKnowsTheKeys == Spec => []EventsTellTheMatrix
<1>1. QueueInv => EventsTellTheMatrix
  <2> SUFFICES ASSUME QueueInv, NEW k \in Keys \ missed
               PROVE  Pending(k) <=> k \in previous
    BY DEF EventsTellTheMatrix
  <2> DEFINE at == {i \in 0 .. count - 1 : ring[Place(i)].key = k}
             last == CHOOSE i \in at : \A j \in at : j <= i
  <2>1. Pending(k) = IF at = {} THEN k \in known ELSE ring[Place(last)].pressed
    BY DEF Pending, Place
  <2>2. Told(k)
    BY DEF QueueInv, AllAreTold
  <2>3. CASE NoneOf(k) /\ (k \in known <=> k \in previous)
    <3>1. at = {}
      BY <2>3 DEF NoneOf
    <3> QED BY <2>1, <2>3, <3>1
  <2>4. ASSUME NEW i \in 0 .. count - 1,
               LastOf(k, i), ring[Place(i)].pressed <=> k \in previous
        PROVE  Pending(k) <=> k \in previous
    <3>1. count \in Int
      BY DEF QueueInv, RingInv
    <3>2. i \in at /\ \A j \in at : j <= i
      BY <2>4, <3>1 DEF LastOf
    <3>3. last = i
      BY <3>1, <3>2
    <3> QED BY <2>1, <2>4, <3>2, <3>3
  <2> QED BY <2>2, <2>3, <2>4 DEF Told
<1> QED BY <1>1, QueueIsInvariant, PTL
=============================================================================
