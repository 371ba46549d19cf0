----------------------------- MODULE ServiceProofs -----------------------------
(***************************************************************************)
(* Two services behind the kernel: the Z80 engine and the loadable time    *)
(* service.                                                                *)
(*                                                                         *)
(* The two processors and their mailbox, for every set of requests and     *)
(* every width of the sequence number: what each may rely on when it gets  *)
(* the bus back.  The invariant says where the mailbox stands at every     *)
(* position of the two, which none of them sees of the other.              *)
(*                                                                         *)
(* The loadable time service, for every width of an address, every place   *)
(* and size of the slot and every set of images a loader may leave in it.  *)
(* What validation computes in words that wrap is what the sums are; a     *)
(* published service is entered where its own image has code.              *)
(***************************************************************************)
EXTENDS Engine, TimeSlot, TLAPS

-----------------------------------------------------------------------------
(* The Z80 engine.                                                         *)

USE EngineAssumption

Mailboxes == [state : {"IDLE", "SUBMITTED", "RUNNING", "COMPLETE", "ERROR"},
              sequence : 0 .. SequenceModulus - 1, request : Requests,
              status : {"OK", "INVALID"}, result : Requests \cup {Nothing}]

Typed ==
    /\ owner \in {"8502", "Z80"}
    /\ cpu \in {"start", "selftest", "testing", "tested", "idle", "handoff", "finish"}
    /\ z80 \in {"continuation", "suspended", "validate", "compute", "return"}
    /\ mailbox \in Mailboxes
    /\ sequence \in 0 .. SequenceModulus - 1
    /\ reply \in [request : Requests \cup {Nothing},
                  code : {"NONE", "OK", "REJECTED", "NOT_READY", "MAILBOX_INVALID"},
                  result : Requests \cup {Nothing}]

(* The bus is away only while the 8502 waits in the middle of a handover,  *)
(* and the worker's bank is mapped while the Z80 works.                    *)
Turns ==
    /\ owner = "8502" => profile = "kernel" /\ z80 \in {"continuation", "suspended"}
    /\ owner = "Z80" => cpu \in {"finish", "tested"}
    /\ owner = "Z80" /\ z80 \in {"validate", "compute"} => profile = "worker"

(* A request the worker has answered: refused, or computed and identified. *)
Refused == mailbox.state = "ERROR" /\ mailbox.status = "INVALID"
Computed ==
    /\ mailbox.state = "COMPLETE" /\ mailbox.status = "OK"
    /\ mailbox.request \in Sound /\ mailbox.result = mailbox.request
    /\ mailbox.request # Nop => samples = mailbox.request
Submitted == mailbox.state = "SUBMITTED" /\ mailbox.status = "OK"
Underway == mailbox.state = "RUNNING" /\ mailbox.request \in Sound

Exchange ==
    /\ cpu \in {"handoff", "testing"} => Submitted
    /\ cpu \in {"handoff", "testing", "finish", "tested"} => mailbox.sequence = sequence
    /\ cpu \in {"testing", "tested"} => mailbox.request = Nop
    /\ cpu \in {"finish", "tested"} =>
          /\ owner = "8502" => Refused \/ Computed
          /\ owner = "Z80" =>
                /\ z80 \in {"continuation", "suspended", "validate"} => Submitted
                /\ z80 = "compute" => Underway
                /\ z80 = "return" => Refused \/ Computed

(* A service that has failed, or was never there, has nothing under way,   *)
(* and before the start nobody has been answered.                          *)
ServiceIsReady ==
    /\ cpu \in {"selftest", "testing", "tested", "handoff", "finish"} => Accepts
    /\ cpu = "start" => service = "OFFLINE" /\ reply.code = "NONE"

EngineInv == Typed /\ Turns /\ Exchange /\ ServiceIsReady /\ AnswersAreOwn

-----------------------------------------------------------------------------
LEMMA InitialEngine == Init => EngineInv
BY DEF Init, NoReply, EngineInv, Typed, Mailboxes, Turns, Exchange, ServiceIsReady,
       AnswersAreOwn

LEMMA StepKeepsTyped ==
    ASSUME EngineInv, [Next]_vars
    PROVE  Typed'
<1>1. CASE UNCHANGED <<owner, cpu, z80, mailbox, sequence, reply>>
  BY <1>1 DEF EngineInv, Typed
<1>2. ASSUME NEW r \in Requests, Refuse(r) \/ FindInvalid(r) PROVE Typed'
  BY <1>2 DEF EngineInv, Typed, Refuse, FindInvalid, Runs, Answer, bus
<1>3. ASSUME NEW r \in Requests, Submit(r) PROVE Typed'
  <2>1. sequence' \in 0 .. SequenceModulus - 1
    BY <1>3 DEF EngineInv, Typed, Submit, NextSequence
  <2>2. mailbox' \in Mailboxes
    BY <1>3, <2>1 DEF Submit, Filled, Mailboxes
  <2> QED BY <1>3, <2>1, <2>2 DEF EngineInv, Typed, Submit, Runs, bus
<1>4. CASE Finish \/ Tested
  BY <1>4 DEF EngineInv, Typed, Mailboxes, Finish, Tested, Runs, Answer, bus
<1>5. CASE Start \/ Handoff \/ Damage
  BY <1>5 DEF EngineInv, Typed, Start, Handoff, Damage, Runs, bus
<1>6. CASE Resume \/ Yield
  BY <1>6 DEF EngineInv, Typed, Resume, Yield, Works
<1>7. CASE Reject \/ Accept \/ Compute
  <2>1. mailbox' \in Mailboxes
    BY <1>7 DEF EngineInv, Typed, Mailboxes, Reject, Accept, Compute, Refusal
  <2> QED BY <1>7, <2>1 DEF EngineInv, Typed, Reject, Accept, Compute, Works
<1> QED
  BY <1>1, <1>2, <1>3, <1>4, <1>5, <1>6, <1>7 DEF Next, Kernel, Worker, vars, bus

LEMMA StepKeepsTurns ==
    ASSUME EngineInv, [Next]_vars
    PROVE  Turns'
<1>1. CASE UNCHANGED <<owner, cpu, z80, profile>>
  BY <1>1 DEF EngineInv, Turns
<1>2. CASE UNCHANGED bus /\ owner = "8502"
  BY <1>2 DEF EngineInv, Turns, bus
<1>3. CASE Handoff
  BY <1>3 DEF EngineInv, Turns, Handoff, Runs
<1>4. CASE Resume \/ Reject \/ Accept \/ Compute \/ Yield
  BY <1>4
     DEF EngineInv, Turns, Resume, Reject, Accept, Compute, Yield, Works, ReturnedProfile
<1> QED
  BY <1>1, <1>2, <1>3, <1>4
     DEF Next, Kernel, Worker, Refuse, FindInvalid, Submit, Start, Finish, Tested,
         Damage, Runs, vars, bus

LEMMA StepKeepsExchange ==
    ASSUME EngineInv, [Next]_vars
    PROVE  Exchange' /\ ServiceIsReady'
<1> USE DEF EngineInv, Exchange, ServiceIsReady, Submitted, Underway, Refused, Computed,
            Accepts
<1>1. CASE UNCHANGED vars
  BY <1>1 DEF vars, bus
<1>2. ASSUME NEW r \in Requests, Refuse(r) \/ FindInvalid(r)
      PROVE  Exchange' /\ ServiceIsReady'
  BY <1>2 DEF Refuse, FindInvalid, Runs
<1>3. ASSUME NEW r \in Requests, Submit(r) PROVE Exchange' /\ ServiceIsReady'
  BY <1>3 DEF Submit, Runs, Filled, bus
<1>4. CASE Handoff
  BY <1>4 DEF Handoff, Runs, Turns
<1>5. CASE Start \/ Finish \/ Tested \/ Damage
  BY <1>5 DEF Start, Finish, Tested, Damage, Runs, bus
<1>6. CASE Resume
  BY <1>6 DEF Resume, Works
<1>7. CASE Reject
  BY <1>7 DEF Reject, Works, Refusal, Typed, Mailboxes, Turns
<1>8. CASE Accept
  BY <1>8 DEF Accept, Works, Acceptable, Typed, Mailboxes, Turns
<1>9. CASE Compute
  BY <1>9 DEF Compute, Works, Typed, Mailboxes, Turns
<1>10. CASE Yield
  BY <1>10 DEF Yield, Works
<1> QED
  BY <1>1, <1>2, <1>3, <1>4, <1>5, <1>6, <1>7, <1>8, <1>9, <1>10
     DEF Next, Kernel, Worker

LEMMA StepKeepsAnswers ==
    ASSUME EngineInv, [Next]_vars
    PROVE  AnswersAreOwn'
<1> USE DEF EngineInv, AnswersAreOwn
<1>1. CASE UNCHANGED <<reply, samples>> /\ (cpu' = cpu \/ cpu' # "idle")
  BY <1>1
<1>2. ASSUME NEW r \in Requests, Refuse(r) \/ FindInvalid(r) PROVE AnswersAreOwn'
  BY <1>2 DEF Refuse, FindInvalid, Answer
<1>3. CASE Finish \/ Tested
  BY <1>3
     DEF Finish, Tested, Runs, Answer, Rejected, Exchange, Refused, Computed, Typed
<1>4. CASE Start
  BY <1>4 DEF Start, Runs, ServiceIsReady
<1>5. CASE Compute
  BY <1>5 DEF Compute, Works, Turns
<1> QED
  BY <1>1, <1>2, <1>3, <1>4, <1>5
     DEF Next, Kernel, Worker, Submit, Handoff, Damage, Resume, Reject, Accept, Yield,
         Runs, vars, bus

THEOREM EngineIsInvariant == Spec => []EngineInv
<1>1. EngineInv /\ [Next]_vars => EngineInv'
  BY StepKeepsTyped, StepKeepsTurns, StepKeepsExchange, StepKeepsAnswers DEF EngineInv
<1> QED BY <1>1, InitialEngine, PTL DEF Spec

-----------------------------------------------------------------------------
(* A processor that gets the bus back finds the memory it gave up mapped,  *)
(* and resumes at its own address (udeks_z80_handoff and _yield).          *)
THEOREM ResumedInOwnBank == Spec => []EachInItsBank
<1>1. EngineInv => EachInItsBank
  BY DEF EngineInv, Turns, EachInItsBank
<1> QED BY <1>1, EngineIsInvariant, PTL

(* What the 8502 finds in the mailbox when the bus comes back is a         *)
(* response, and to the request it submitted: the two refusals of          *)
(* udeks_z80_submit for anything else are never taken.                     *)
THEOREM ResponsesAreAnswers == Spec => []ResponsesAreWellFormed
<1>1. EngineInv => ResponsesAreWellFormed
  BY DEF EngineInv, Exchange, Refused, Computed, ResponsesAreWellFormed
<1> QED BY <1>1, EngineIsInvariant, PTL

(* A client told OK has the result of what it asked, and as long as nobody *)
(* has asked again the samples too, whatever was rejected before.          *)
THEOREM OkIsOwnAnswer == Spec => []AnswersAreOwn
<1>1. EngineInv => AnswersAreOwn
  BY DEF EngineInv
<1> QED BY <1>1, EngineIsInvariant, PTL

(* After an error of the service the bus never leaves the 8502 again, and  *)
(* a request that is refused leaves the samples as they are.               *)
THEOREM FailureTouchesNothing == Spec => FailuresAreContained
<1> DEFINE Contained ==
      /\ service = "ERROR" => owner' = "8502" /\ service' = "ERROR"
      /\ samples' # samples => mailbox.request \in Sound /\ service # "ERROR"
<1>1. EngineInv /\ [Next]_vars => [Contained]_vars
  <2> SUFFICES ASSUME EngineInv, Next PROVE Contained
    OBVIOUS
  <2>1. service = "ERROR" => cpu = "idle" /\ owner = "8502"
    BY DEF EngineInv, Typed, Turns, ServiceIsReady, Accepts
  <2>2. service = "ERROR" => owner' = "8502" /\ service' = "ERROR"
    BY <2>1
       DEF Next, Kernel, Worker, Refuse, FindInvalid, Submit, Accepts, Start, Handoff,
           Finish, Tested, Damage, Resume, Reject, Accept, Compute, Yield, Runs, Works,
           bus
  <2>3. ASSUME samples' # samples
        PROVE  mailbox.request \in Sound /\ service # "ERROR"
    <3>1. Compute
      BY <2>3
         DEF Next, Kernel, Worker, Refuse, FindInvalid, Submit, Start, Handoff, Finish,
             Tested, Damage, Resume, Reject, Accept, Yield
    <3> QED
      BY <2>1, <3>1 DEF EngineInv, Turns, Exchange, Underway, Compute, Works
  <2> QED BY <2>2, <2>3
<1> QED BY <1>1, EngineIsInvariant, PTL DEF Spec, FailuresAreContained
-----------------------------------------------------------------------------
(* The loadable time service.                                              *)

HIDE EngineAssumption
USE TimeSlotAssumption

(* Sums of two words, as the 6502 adds them.                               *)
LEMMA SumWithoutCarry ==
    ASSUME NEW a \in Words, NEW b \in Words, ~(a + b >= WordSize)
    PROVE  (a + b) % WordSize = a + b
BY DEF Words

(* The carries of both additions are looked at, so that an image accepted  *)
(* is one whose code and BSS lie in the slot, not around the end of the    *)
(* address space.                                                          *)
LEMMA ValidImageFits ==
    ASSUME NEW i \in ImageRecords, NEW received, Valid(i, received)
    PROVE  /\ CodeEnd(i) = Slot + i.size
           /\ BssEnd(i) = Slot + i.size + i.bss
           /\ Slot + i.size + i.bss <= Limit
           /\ i.size \in Nat /\ i.bss \in Nat
<1>1. i.size \in Words /\ i.bss \in Words /\ i.size \in Nat /\ i.bss \in Nat
  BY DEF ImageRecords, Words
<1>2. CodeEnd(i) = Slot + i.size
  BY <1>1, SumWithoutCarry DEF Valid, Fits, CodeCarry, CodeEnd
<1>3. CodeEnd(i) \in Words
  BY <1>1, <1>2 DEF Valid, Fits, CodeCarry, Words
<1>4. BssEnd(i) = CodeEnd(i) + i.bss
  BY <1>1, <1>3, SumWithoutCarry DEF Valid, Fits, BssCarry, BssEnd
<1>5. BssEnd(i) <= Limit
  BY DEF Valid, Fits
<1> QED BY <1>1, <1>2, <1>4, <1>5

(* The addresses that an image holds code at, behind its header.           *)
IsCode(i, vs) == \A v \in vs : Slot + HeaderSize <= v /\ v < Slot + i.size

LEMMA ValidVectorsAreCode ==
    ASSUME NEW i \in ImageRecords, NEW received, Valid(i, received)
    PROVE  IsCode(i, i.vectors)
BY ValidImageFits DEF Valid, VectorIsGood, IsCode

LEMMA ClearedBehindCode ==
    ASSUME NEW i \in ImageRecords, NEW received, Valid(i, received)
    PROVE  /\ BssOf(i) \subseteq Words
           /\ \A b \in BssOf(i) : Slot + i.size <= b /\ b < Limit
<1>1. /\ CodeEnd(i) = Slot + i.size /\ BssEnd(i) = Slot + i.size + i.bss
      /\ Slot + i.size + i.bss <= Limit /\ i.size \in Nat /\ i.bss \in Nat
  BY ValidImageFits
<1>2. BssOf(i) = (Slot + i.size) .. (Slot + i.size + i.bss - 1)
  BY <1>1 DEF BssOf, Words
<1>3. Slot \in Nat /\ Limit \in Nat /\ WordSize \in Nat /\ Limit < WordSize
  BY DEF Words
<1>4. ASSUME NEW b \in (Slot + i.size) .. (Slot + i.size + i.bss - 1)
      PROVE  b \in Nat /\ Slot + i.size <= b /\ b < Limit
  BY <1>1, <1>3
<1>5. \A b \in Nat : b < Limit => b \in Words
  BY <1>3 DEF Words
<1> QED BY <1>2, <1>4, <1>5

-----------------------------------------------------------------------------
(* While a service is published its cached vectors point into its code:    *)
(* no image is written then, for a load begins in a slot that is offline.  *)
VectorsAreCode == state = "PUBLISHED" => IsCode(image, vectors)

SlotInv ==
    /\ TypeOK /\ StatesAreTrue /\ VectorsAreCode
    /\ EntriesAreCode /\ ClearStaysInSlot

LEMMA ImagesAreRecords ==
    ASSUME TypeOK
    PROVE  image \in ImageRecords
<1>1. 0 \in Words
  BY DEF Words
<1>2. Blank \in ImageRecords
  BY <1>1 DEF Blank, ImageRecords
<1> QED BY <1>2 DEF TypeOK

LEMMA StepKeepsTypeOK ==
    ASSUME TypeOK, [SlotNext]_slotVars
    PROVE  TypeOK'
<1>1. ASSUME NEW received \in Words, Commit(received)
      PROVE  TypeOK'
  <2>1. image.vectors \subseteq Words
    BY ImagesAreRecords DEF ImageRecords
  <2>2. Valid(image, received) => BssOf(image) \subseteq Words
    BY ImagesAreRecords, ClearedBehindCode
  <2> QED BY <1>1, <2>1, <2>2 DEF Commit, TypeOK, Offline, Quiet
<1>2. CASE Exec \/ End \/ Begin \/ Write
  BY <1>2 DEF Exec, End, Begin, Write, Retired, Offline, Quiet, TypeOK
<1>3. CASE Stop \/ Poll \/ Set
  BY <1>3 DEF Stop, Poll, Set, PollFailed, Offline, TypeOK
<1>4. CASE UNCHANGED slotVars
  BY <1>4 DEF slotVars, TypeOK
<1> QED BY <1>1, <1>2, <1>3, <1>4 DEF SlotNext

LEMMA StepKeepsStates ==
    ASSUME TypeOK, StatesAreTrue, [SlotNext]_slotVars
    PROVE  StatesAreTrue'
<1> USE DEF StatesAreTrue, Offline
<1>1. ASSUME NEW received \in Words, Commit(received)
      PROVE  StatesAreTrue'
  BY <1>1 DEF Commit
<1>2. CASE Exec \/ End \/ Begin \/ Write
  BY <1>2 DEF Exec, End, Begin, Write, Retired
<1>3. CASE Stop \/ Poll \/ Set
  BY <1>3 DEF Stop, Poll, Set, PollFailed
<1>4. CASE UNCHANGED slotVars
  BY <1>4 DEF slotVars
<1> QED BY <1>1, <1>2, <1>3, <1>4 DEF SlotNext

LEMMA StepKeepsEntries ==
    ASSUME SlotInv, [SlotNext]_slotVars
    PROVE  VectorsAreCode' /\ EntriesAreCode' /\ ClearStaysInSlot'
<1> USE DEF SlotInv, VectorsAreCode, EntriesAreCode, ClearStaysInSlot, IsCode
<1>1. ASSUME NEW received \in Words, Commit(received)
      PROVE  VectorsAreCode' /\ EntriesAreCode' /\ ClearStaysInSlot'
  <2>1. CASE ~Valid(image, received)
    BY <1>1, <2>1 DEF Commit, Offline, Quiet
  <2>2. CASE Valid(image, received)
    <3>1. IsCode(image, image.vectors)
      BY <2>2, ImagesAreRecords, ValidVectorsAreCode
    <3>2. \A b \in BssOf(image) : Slot + image.size <= b /\ b < Limit
      BY <2>2, ImagesAreRecords, ClearedBehindCode
    <3>3. /\ image' = image /\ vectors' = image.vectors /\ entered' = image.vectors
          /\ cleared' = BssOf(image)
      BY <1>1, <2>2 DEF Commit
    <3> QED BY <3>1, <3>2, <3>3
  <2> QED BY <2>1, <2>2
<1>2. CASE Exec \/ End \/ Begin \/ Write
  BY <1>2 DEF Exec, End, Begin, Write, Retired, Offline, Quiet
<1>3. CASE Stop \/ Poll \/ Set
  BY <1>3 DEF Stop, Poll, Set, PollFailed, Offline
<1>4. CASE UNCHANGED slotVars
  BY <1>4 DEF slotVars
<1> QED BY <1>1, <1>2, <1>3, <1>4 DEF SlotNext

THEOREM SlotIsInvariant == SlotSpec => []SlotInv
<1>1. SlotInit => SlotInv
  BY DEF SlotInit, SlotInv, TypeOK, StatesAreTrue, VectorsAreCode, IsCode, EntriesAreCode,
         ClearStaysInSlot
<1>2. SlotInv /\ [SlotNext]_slotVars => SlotInv'
  BY StepKeepsTypeOK, StepKeepsStates, StepKeepsEntries DEF SlotInv
<1> QED BY <1>1, <1>2, PTL DEF SlotSpec

-----------------------------------------------------------------------------
(* A load under way belongs to the program that runs, and the readiness    *)
(* byte says READY exactly while a service is published, whatever fails    *)
(* between the two stores (time_module_abort_body, the poll's withdrawal). *)
THEOREM StateBytesAreTrue == SlotSpec => []StatesAreTrue
<1>1. SlotInv => StatesAreTrue
  BY DEF SlotInv
<1> QED BY <1>1, SlotIsInvariant, PTL

(* Whatever a header claims, what is entered is code that the validated    *)
(* image emitted: the start while it is committed, the cached vectors as   *)
(* long as the service is published.                                       *)
THEOREM OnlyCodeIsEntered == SlotSpec => []EntriesAreCode
<1>1. SlotInv => EntriesAreCode
  BY DEF SlotInv
<1> QED BY <1>1, SlotIsInvariant, PTL

(* clear_bss writes behind the code and before the end of the slot, for    *)
(* every code and BSS size a header can hold.                              *)
THEOREM OnlyBssIsCleared == SlotSpec => []ClearStaysInSlot
<1>1. SlotInv => ClearStaysInSlot
  BY DEF SlotInv
<1> QED BY <1>1, SlotIsInvariant, PTL
=============================================================================
