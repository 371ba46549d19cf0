------------------------------ MODULE Keyboard ------------------------------
(***************************************************************************)
(* The keyboard service and the pointer interrupt it shares the CIA with   *)
(* (src/services/input/keyboard.c, src/8502/keyboard_scan.s,               *)
(* src/8502/pointer_irq.s).  A poll scans the matrix twice, asks before    *)
(* and after each scan whether the control ports and the mouse conversion  *)
(* leave the pins alone, and turns lines that both scans agree on into     *)
(* events of a bounded ring, which the terminal drains between polls.      *)
(*                                                                         *)
(* A permission check and a scan are atomic, interrupts being masked in    *)
(* both; between them anything may happen to the keys, to a switch of a    *)
(* control port and to the two-phase raster interrupt.  Characters and     *)
(* modifiers are left out: they are functions of the debounced matrix.     *)
(***************************************************************************)
EXTENDS Integers, Sequences, FiniteSets

CONSTANTS
    Lines,       \* the columns of the matrix, 0..10 in the code
    Bits,        \* the keys of a column, 0..7 in the code
    Capacity     \* events the ring holds, 16 in the code

Keys == Lines \X Bits
Places == 0 .. Capacity - 1

ASSUME KeyboardAssumption ==
    /\ Lines \subseteq Nat /\ Bits \subseteq Nat
    /\ IsFiniteSet(Lines) /\ IsFiniteSet(Bits)
    /\ Capacity \in Nat \ {0}

Events == [key : Keys, pressed : BOOLEAN]
NoEvent == [pressed |-> FALSE]

VARIABLES
    pc,          \* where the poll is
    keys,        \* the keys held down
    switch,      \* a control port's switch: open, or closed and perhaps seen
    converting,  \* PTR+26, the mouse conversion is settling
    matrix,      \* udeks_keyboard_matrix, the scan taken last
    candidate,   \* candidate_matrix
    previous,    \* previous_matrix, the debounced keys
    ring,        \* event_queue
    head, tail, count,
    held,        \* history: the keys held during the two scans of a poll
    known,       \* history: what the consumed events say is pressed
    missed       \* history: keys whose latest transition was dropped

queue == <<ring, head, tail, count>>
history == <<known, missed>>
vars == <<pc, keys, switch, converting, matrix, candidate, previous, queue, held,
          history>>

(* udeks_keyboard_start: whatever is held at start-up is taken as it is.   *)
Init ==
    /\ pc = "idle"
    /\ keys \in SUBSET Keys
    /\ switch = "open"
    /\ converting = FALSE
    /\ matrix = {} /\ candidate = {} /\ previous = keys
    /\ ring = [i \in Places |-> NoEvent]
    /\ head = 0 /\ tail = 0 /\ count = 0
    /\ held = <<{}, {}>>
    /\ known = keys
    /\ missed = {}

-----------------------------------------------------------------------------
(* The world: keys go down and up, bouncing as they do.                    *)
Touch ==
    /\ \E k \in Keys : keys' = IF k \in keys THEN keys \ {k} ELSE keys \cup {k}
    /\ UNCHANGED <<pc, switch, converting, matrix, candidate, previous, queue, held,
                   history>>

(* A mouse button or the joystick.  A closed switch stays closed until a   *)
(* check has met it, unless no poll is under way: a check and a scan take  *)
(* less than a millisecond, a click does not.                              *)
Click ==
    /\ \/ switch = "open" /\ switch' = "closed"
       \/ switch = "seen" /\ switch' = "open"
       \/ switch = "closed" /\ pc = "idle" /\ switch' = "open"
    /\ UNCHANGED <<pc, keys, converting, matrix, candidate, previous, queue, held,
                   history>>

(* irq_select and irq_sample: the interrupt of one raster line begins the  *)
(* conversion, that of a later one reads it.                               *)
Raster ==
    /\ converting' = ~converting
    /\ UNCHANGED <<pc, keys, switch, matrix, candidate, previous, queue, held, history>>

-----------------------------------------------------------------------------
(* Mutant: the control ports are not probed.                               *)
AllowedWhileClicked == ~converting
(* udeks_pointer_keyboard_allowed                                          *)
Allowed == ~converting /\ switch = "open"

Probe == switch' = IF converting \/ switch = "open" THEN switch ELSE "seen"

(* Between polls the two scans are dead: the next poll fills both before   *)
(* it reads them.                                                          *)
Forget == matrix' = {} /\ candidate' = {} /\ held' = <<{}, {}>>

(* A check that fails ends the poll.                                       *)
Abandon(from) ==
    /\ pc = from /\ pc' = "idle"
    /\ ~Allowed
    /\ Probe
    /\ Forget
    /\ UNCHANGED <<keys, converting, previous, queue, history>>

Begin ==
    /\ pc = "idle" /\ pc' = "scan1"
    /\ Allowed
    /\ Probe
    /\ UNCHANGED <<keys, converting, matrix, candidate, previous, queue, held, history>>

(* A closed switch grounds pins of the matrix: keys of every line may read *)
(* as pressed.                                                             *)
Scan(from, i, to) ==
    /\ pc = from /\ pc' = to
    /\ \/ switch = "open" /\ matrix' = keys
       \/ switch # "open" /\ matrix' \in {m \in SUBSET Keys : keys \subseteq m}
    /\ held' = [held EXCEPT ![i] = keys]
    /\ UNCHANGED <<keys, switch, converting, candidate, previous, queue, history>>

Line(m, l) == {k \in m : k[1] = l}

(* The first scan becomes the candidate.                                   *)
Compare ==
    /\ pc = "check1" /\ pc' = "scan2"
    /\ Allowed
    /\ Probe
    /\ candidate' = matrix
    /\ UNCHANGED <<keys, converting, matrix, previous, queue, held, history>>

(* Mutant: one scan that differs from the last event is enough.            *)
StableLinesAll == Lines
StableLines == {l \in Lines : Line(matrix, l) = Line(candidate, l)}

(* Lines that both scans agree on are debounced, the others start anew.    *)
Debounced == {k \in Keys : IF k[1] \in StableLines THEN k \in matrix ELSE k \in previous}

Precedes(k, l) == k[1] < l[1] \/ (k[1] = l[1] /\ k[2] < l[2])

(* Mutant: the type is taken from the matrix before it is updated.         *)
PressedBefore(k) == k \in previous
Pressed(k) == k \in Debounced

(* The keys whose debounced state changes, in the order of their scan      *)
(* codes, and the events that report them.                                 *)
Changed == {k \in Keys : (k \in Debounced) # (k \in previous)}

InScanOrder(order) ==
    /\ \A i, j \in DOMAIN order : i < j => Precedes(order[i], order[j])
    /\ \A k \in Changed : \E i \in DOMAIN order : order[i] = k

Transitions(order) ==
    [i \in DOMAIN order |-> [key |-> order[i], pressed |-> Pressed(order[i])]]

Room == Capacity - count

(* Mutant: the index is not reset at the end of the array.                 *)
AdvanceUnwrapped(i, n) == i + n
Advance(i, n) == (i + n) % Capacity

(* enqueue_event for every transition: a full ring drops it.               *)
Enqueue(events) ==
    LET fitting == IF Len(events) <= Room THEN Len(events) ELSE Room
        At(p) == {i \in 1 .. fitting : Advance(head, i - 1) = p}
    IN  /\ ring' = [p \in Places |-> IF At(p) = {} THEN ring[p]
                                     ELSE events[CHOOSE i \in At(p) : TRUE]]
        /\ head' = Advance(head, fitting)
        /\ count' = count + fitting
        /\ missed' = (missed \ {events[i].key : i \in 1 .. fitting})
                        \cup {events[i].key : i \in fitting + 1 .. Len(events)}

Qualify ==
    /\ pc = "check2" /\ pc' = "idle"
    /\ Allowed
    /\ Probe
    /\ Forget
    /\ previous' = Debounced
    /\ \E order \in [1 .. Cardinality(Changed) -> Changed] :
          InScanOrder(order) /\ Enqueue(Transitions(order))
    /\ UNCHANGED <<keys, converting, tail, known>>

(* udeks_keyboard_event_get, from the terminal's poll.  The place it frees *)
(* is dead until it is filled again.                                       *)
EventGet ==
    /\ pc = "idle"
    /\ count > 0
    /\ known' = IF ring[tail].pressed THEN known \cup {ring[tail].key}
                ELSE known \ {ring[tail].key}
    /\ ring' = [ring EXCEPT ![tail] = NoEvent]
    /\ tail' = Advance(tail, 1)
    /\ count' = count - 1
    /\ UNCHANGED <<pc, keys, switch, converting, matrix, candidate, previous, head,
                   held, missed>>

Poll ==
    \/ Begin
    \/ \E from \in {"idle", "check1", "check2"} : Abandon(from)
    \/ Scan("scan1", 1, "check1") \/ Compare
    \/ Scan("scan2", 2, "check2") \/ Qualify

Next == Touch \/ Click \/ Raster \/ Poll \/ EventGet

Spec == Init /\ [][Next]_vars

-----------------------------------------------------------------------------
TypeOK ==
    /\ pc \in {"idle", "scan1", "check1", "scan2", "check2"}
    /\ switch \in {"open", "closed", "seen"}
    /\ converting \in BOOLEAN
    /\ keys \subseteq Keys /\ matrix \subseteq Keys /\ candidate \subseteq Keys
    /\ previous \subseteq Keys /\ known \subseteq Keys /\ missed \subseteq Keys
    /\ \A i \in {1, 2} : held[i] \subseteq Keys
    /\ ring \in [Places -> Events \cup {NoEvent}]
    /\ head \in Places /\ tail \in Places
    /\ count \in 0 .. Capacity

(* A transition is reported only of a key that really was so in both scans *)
(* of the poll: neither a bounce nor a click of the mouse, whenever it     *)
(* falls among the checks and scans, becomes a key.                        *)
TransitionsAreReal ==
    [][\A k \in Keys :
          (k \in previous') # (k \in previous) =>
              \A i \in {1, 2} : k \in previous' <=> k \in held[i]]_vars

(* What a key's events in the ring will tell, oldest first.                *)
Pending(k) ==
    LET at == {i \in 0 .. count - 1 : ring[(tail + i) % Capacity].key = k}
    IN  IF at = {} THEN k \in known
        ELSE ring[(tail + CHOOSE i \in at : \A j \in at : j <= i) % Capacity].pressed

(* Whoever follows the events knows which keys are pressed, the keys whose *)
(* latest transition found the ring full excepted; their next one mends it.*)
EventsTellTheMatrix ==
    \A k \in Keys \ missed : Pending(k) <=> k \in previous

(* What the pointer's document says: the keyboard is not scanned, and with *)
(* it the mouse's multiplexer not moved, while the conversion settles.     *)
NoScanWhileConverting ==
    [][(pc \in {"scan1", "scan2"} /\ pc' # pc) => ~converting]_vars
=============================================================================
