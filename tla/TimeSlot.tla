------------------------------ MODULE TimeSlot ------------------------------
(***************************************************************************)
(* The slot of the loadable time service (src/services/module/time_slot.s  *)
(* and request.inc).  A foreground program begins a load, writes an image  *)
(* into the slot's memory and commits it; the kernel validates what it     *)
(* finds there, clears its BSS, caches its vectors, starts it and only     *)
(* then publishes it.  The main loop polls a published service, programs   *)
(* set the clock through it; a program that ends retires its load.         *)
(*                                                                         *)
(* A foreground program runs synchronously, inside the shell's poll: no    *)
(* poll of the service falls between its requests.  Services have started  *)
(* before the first program runs.  Requests that are refused or that only  *)
(* report the state change nothing and are left out.                       *)
(***************************************************************************)
EXTENDS Integers

CONSTANTS
    WordSize,    \* addresses wrap here, 2^16 in the code
    Slot,        \* the first byte of the slot, $93D0
    Limit,       \* the byte after the slot, $96A8
    HeaderSize,  \* 48
    Images       \* what a loader may leave in the slot

Words == 0 .. WordSize - 1

(* An image: its header, as far as validation looks at it.  "sound" says   *)
(* that identity, descriptor, revision and reserved bytes are right and    *)
(* that the checksum matches.                                              *)
ImageRecords == [sound : BOOLEAN, size : Words, bss : Words, vectors : SUBSET Words]

ASSUME TimeSlotAssumption ==
    /\ WordSize \in Nat /\ Slot \in Words /\ Limit \in Words /\ HeaderSize \in Words
    /\ Slot + HeaderSize < Limit
    /\ Images \subseteq ImageRecords

VARIABLES
    state,       \* _udeks_time_slot_state
    snapshot,    \* TIME_STATE, the readiness byte clients look at
    running,     \* a foreground program runs (TASK_STATE 2)
    image,       \* the image in the slot's memory
    vectors,     \* the cached poll, stop and set vectors
    loading,     \* history: this program has begun the load under way
    entered,     \* history: the addresses the last step may have entered
    cleared      \* history: the bytes the last step cleared, first to end

slotVars == <<state, snapshot, running, image, vectors, loading, entered, cleared>>

Blank == [sound |-> FALSE, size |-> 0, bss |-> 0, vectors |-> {}]

SlotInit ==
    /\ state = "OFFLINE"
    /\ snapshot = "OFF"
    /\ running = FALSE
    /\ image = Blank
    /\ vectors = {}
    /\ loading = FALSE
    /\ entered = {}
    /\ cleared = {}

-----------------------------------------------------------------------------
(* What validate computes, in words that wrap.                             *)
CodeEnd(i) == (Slot + i.size) % WordSize
CodeCarry(i) == Slot + i.size >= WordSize
BssEnd(i) == (CodeEnd(i) + i.bss) % WordSize
BssCarry(i) == CodeEnd(i) + i.bss >= WordSize

(* Mutant: the carry of the second addition is not looked at.              *)
FitsWrapped(i) == ~CodeCarry(i) /\ BssEnd(i) <= Limit
Fits(i) == ~CodeCarry(i) /\ ~BssCarry(i) /\ BssEnd(i) <= Limit

(* Mutant: a vector may point just behind the code.                        *)
VectorIsGoodAtEnd(i, v) == Slot + HeaderSize <= v /\ v <= CodeEnd(i)
VectorIsGood(i, v) == Slot + HeaderSize <= v /\ v < CodeEnd(i)

Valid(i, received) ==
    /\ received = i.size
    /\ i.sound
    /\ i.size > HeaderSize
    /\ Fits(i)
    /\ \A v \in i.vectors : VectorIsGood(i, v)

(* clear_bss: from the end of the code up to the end of the BSS.           *)
BssOf(i) == IF CodeEnd(i) <= BssEnd(i) THEN CodeEnd(i) .. BssEnd(i) - 1
            ELSE Words \ (BssEnd(i) .. CodeEnd(i) - 1)

-----------------------------------------------------------------------------
Quiet == entered' = {} /\ cleared' = {}

Offline(readiness) == state' = "OFFLINE" /\ snapshot' = readiness

(* The shell runs a foreground program.                                    *)
Exec ==
    /\ ~running
    /\ running' = TRUE
    /\ Quiet
    /\ UNCHANGED <<state, snapshot, image, vectors, loading>>

(* Mutant: only a load that was begun is remembered, none is retired.      *)
RetiredNever == UNCHANGED <<state, snapshot>>

(* time_module_abort_body: a load that the program did not finish.         *)
Retired ==
    \/ state = "LOADING" /\ Offline("OFF")
    \/ state # "LOADING" /\ UNCHANGED <<state, snapshot>>

(* The program ends and is retired with the foreground's tag.              *)
End ==
    /\ running
    /\ running' = FALSE
    /\ loading' = FALSE
    /\ Retired
    /\ Quiet
    /\ UNCHANGED <<image, vectors>>

(* Begin withdraws what an earlier service said of the clock.              *)
Begin ==
    /\ running
    /\ state = "OFFLINE"
    /\ state' = "LOADING"
    /\ snapshot' = "OFF"
    /\ loading' = TRUE
    /\ Quiet
    /\ UNCHANGED <<running, image, vectors>>

(* The program copies what the file holds into the slot.                   *)
Write ==
    /\ running /\ loading /\ state = "LOADING"
    /\ image' \in Images
    /\ Quiet
    /\ UNCHANGED <<state, snapshot, running, vectors, loading>>

(* commit: an image that does not validate, or does not start, takes the   *)
(* slot offline.                                                           *)
Commit(received) ==
    /\ running
    /\ state = "LOADING"
    /\ \/ /\ ~Valid(image, received)
          /\ Offline("OFF")
          /\ Quiet
          /\ UNCHANGED vectors
       \/ /\ Valid(image, received)
          /\ cleared' = BssOf(image)
          /\ vectors' = image.vectors
          /\ entered' = image.vectors
          /\ \/ state' = "PUBLISHED" /\ snapshot' = "READY"
             \/ Offline("OFF")
    /\ loading' = FALSE
    /\ UNCHANGED <<running, image>>

(* stop: the slot goes offline whatever the service's own stop answers.    *)
Stop ==
    /\ running
    /\ entered' = IF state = "PUBLISHED" THEN vectors ELSE {}
    /\ Offline("OFF")
    /\ loading' = FALSE
    /\ cleared' = {}
    /\ UNCHANGED <<running, image, vectors>>

PollFailed == Offline("ERROR")

(* _udeks_time_slot_poll: a failing optional service is withdrawn.         *)
Poll ==
    /\ ~running
    /\ state = "PUBLISHED"
    /\ entered' = vectors
    /\ \/ UNCHANGED <<state, snapshot>>
       \/ PollFailed
    /\ cleared' = {}
    /\ UNCHANGED <<running, image, vectors, loading>>

(* _udeks_time_slot_set, for any program that sets the clock.              *)
Set ==
    /\ state = "PUBLISHED"
    /\ entered' = vectors
    /\ cleared' = {}
    /\ UNCHANGED <<state, snapshot, running, image, vectors, loading>>

SlotNext ==
    \/ Exec \/ End \/ Begin \/ Write \/ Stop \/ Poll \/ Set
    \/ \E received \in Words : Commit(received)

SlotSpec == SlotInit /\ [][SlotNext]_slotVars

-----------------------------------------------------------------------------
TypeOK ==
    /\ state \in {"OFFLINE", "LOADING", "PUBLISHED"}
    /\ snapshot \in {"OFF", "READY", "ERROR"}
    /\ running \in BOOLEAN
    /\ image \in Images \cup {Blank}
    /\ vectors \subseteq Words
    /\ loading \in BOOLEAN
    /\ entered \subseteq Words
    /\ cleared \subseteq Words

(* Both state bytes tell the truth.  A load under way belongs to the       *)
(* program that runs: one left behind by a program that ended would be     *)
(* committed, or overwritten, by a stranger.  Clients, who have no error   *)
(* channel but the readiness byte, read READY exactly while there is a     *)
(* published service to keep the time, whatever failed on the way.         *)
StatesAreTrue ==
    /\ state = "LOADING" => running /\ loading
    /\ snapshot = "READY" <=> state = "PUBLISHED"

(* Whatever a file's header claims, only code of the validated image is    *)
(* ever entered, and only what the image emitted, not its BSS.             *)
EntriesAreCode ==
    \A v \in entered : Slot + HeaderSize <= v /\ v < Slot + image.size

(* ... and no byte outside the slot, or of the code, is cleared.           *)
ClearStaysInSlot ==
    \A b \in cleared : Slot + image.size <= b /\ b < Limit
=============================================================================
