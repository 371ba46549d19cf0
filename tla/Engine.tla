------------------------------- MODULE Engine -------------------------------
(***************************************************************************)
(* The Z80 worker: the service that submits requests to it                 *)
(* (src/services/engine/z80_worker.c), the gateways through which the two  *)
(* processors hand each other the bus (src/8502/z80_handoff.s,             *)
(* src/z80/handoff.s) and the worker's loop (src/z80/worker.c).  Only the  *)
(* owner of the bus runs; one action is what it does between two steps     *)
(* that matter to the other: writing the mailbox, changing the memory      *)
(* profile, handing over.                                                  *)
(*                                                                         *)
(* A request is a whole: its opcode, arguments and length.  The worker     *)
(* accepts the sound ones.  Its result and samples are identified by the   *)
(* request they were computed for.  Two refusals of the service are left   *)
(* out, a changed sequence and a state that is neither complete nor error: *)
(* ResponsesAreWellFormed says that they cannot happen.  So are the        *)
(* counters of the status record, which nothing reads.                     *)
(***************************************************************************)
EXTENDS Integers

CONSTANTS
    Requests,         \* what clients ask
    Sound,            \* what validate_request accepts
    Nop,              \* the self-test, which leaves the samples alone
    SequenceModulus   \* 2^16 in the code

ASSUME EngineAssumption ==
    /\ Sound \subseteq Requests /\ Nop \in Sound
    /\ SequenceModulus \in Nat \ {0, 1}

Nothing == "nothing"

VARIABLES
    owner,      \* the processor that owns the bus
    cpu,        \* where the 8502 is
    z80,        \* where the Z80 is, or will resume
    profile,    \* what the MMU maps: the kernel's or the worker's bank
    service,    \* the worker's state in its status record
    agrees,     \* the installed worker knows the kernel's mailbox revision
    header,     \* magic and revision of the mailbox are intact
    mailbox,    \* the request and response bytes of the mailbox
    samples,    \* the request whose samples are in the transfer buffer
    sequence,   \* the service's sequence number
    reply       \* what the last client was told, for which request

bus == <<owner, z80, profile>>
setup == <<agrees, header>>
vars == <<bus, cpu, service, setup, mailbox, samples, sequence, reply>>

NoReply == [request |-> Nothing, code |-> "NONE", result |-> Nothing]

(* mailbox_initialize has run; the Z80 waits where reset left it.          *)
Init ==
    /\ owner = "8502" /\ cpu = "start" /\ z80 = "continuation" /\ profile = "kernel"
    /\ service = "OFFLINE"
    /\ agrees \in BOOLEAN
    /\ header = "intact"
    /\ mailbox = [state |-> "IDLE", sequence |-> 0, request |-> Nop,
                  status |-> "OK", result |-> Nothing]
    /\ samples = Nothing
    /\ sequence = 0
    /\ reply = NoReply

-----------------------------------------------------------------------------
(* The 8502.                                                               *)
Runs(from, to) == owner = "8502" /\ cpu = from /\ cpu' = to

Answer(r, code, result) ==
    reply' = [request |-> r, code |-> code, result |-> result]

(* udeks_z80_worker_start: without an image the service stays offline.     *)
Start ==
    /\ \/ Runs("start", "idle") /\ UNCHANGED service
       \/ Runs("start", "selftest") /\ service' = "STARTING"
    /\ UNCHANGED <<bus, setup, mailbox, samples, sequence, reply>>

(* Mutant: a service in error is asked all the same.                       *)
AcceptsAnyway == service # "OFFLINE"
Accepts == service \in {"STARTING", "READY"}

NextSequence == (sequence + 1) % SequenceModulus

Filled(r, n) == [state |-> "SUBMITTED", sequence |-> n, request |-> r,
                 status |-> "OK", result |-> Nothing]

(* udeks_z80_submit: a service that is not there, or has failed, ...       *)
Refuse(r) ==
    /\ Runs("idle", "idle")
    /\ ~Accepts
    /\ Answer(r, "NOT_READY", Nothing)
    /\ UNCHANGED <<bus, service, setup, mailbox, samples, sequence>>

(* ... a mailbox that has been written over, ...                           *)
FindInvalid(r) ==
    /\ Runs("idle", "idle")
    /\ Accepts
    /\ header = "damaged"
    /\ service' = "ERROR"
    /\ Answer(r, "MAILBOX_INVALID", Nothing)
    /\ UNCHANGED <<bus, setup, mailbox, samples, sequence>>

(* ... or a request filled in, up to the handover.                         *)
Submit(r) ==
    /\ Runs("idle", "handoff") \/ (Runs("selftest", "testing") /\ r = Nop)
    /\ Accepts
    /\ header = "intact"
    /\ sequence' = NextSequence
    /\ mailbox' = Filled(r, sequence')
    /\ UNCHANGED <<bus, service, setup, samples, reply>>

(* udeks_z80_handoff: the 8502 stops in the middle of its store.           *)
Handoff ==
    /\ \/ Runs("handoff", "finish") \/ Runs("testing", "tested")
    /\ owner' = "Z80"
    /\ UNCHANGED <<z80, profile, service, setup, mailbox, samples, sequence, reply>>

(* Mutant: a response with the right sequence is taken for a success.      *)
RejectedNever == FALSE
Rejected == mailbox.state = "ERROR" \/ mailbox.status # "OK"

(* The rest of udeks_z80_submit, for a client.                             *)
Finish ==
    /\ Runs("finish", "idle")
    /\ \/ Rejected /\ Answer(mailbox.request, "REJECTED", Nothing)
       \/ ~Rejected /\ Answer(mailbox.request, "OK", mailbox.result)
    /\ UNCHANGED <<bus, service, setup, mailbox, samples, sequence>>

(* ... and for the self-test.                                              *)
Tested ==
    /\ Runs("tested", "idle")
    /\ \/ /\ Rejected
          /\ service' = "ERROR"
          /\ Answer(Nop, "REJECTED", Nothing)
       \/ /\ ~Rejected
          /\ service' = "READY"
          /\ Answer(Nop, "OK", mailbox.result)
    /\ UNCHANGED <<bus, setup, mailbox, samples, sequence>>

(* The mailbox is in memory that every program can write.                  *)
Damage ==
    /\ owner = "8502" /\ cpu = "idle"
    /\ header' = "damaged"
    /\ UNCHANGED <<bus, cpu, service, agrees, mailbox, samples, sequence, reply>>

Kernel ==
    \/ \E r \in Requests : Refuse(r) \/ FindInvalid(r) \/ Submit(r)
    \/ Start \/ Handoff \/ Finish \/ Tested \/ Damage

-----------------------------------------------------------------------------
(* The Z80.                                                                *)
Works(from, to) == owner = "Z80" /\ z80 = from /\ z80' = to

(* The bootstrap on the first lease, the gateway's tail on later ones.     *)
Resume ==
    /\ Works("continuation", "validate") \/ Works("suspended", "validate")
    /\ profile' = "worker"
    /\ UNCHANGED <<owner, cpu, service, setup, mailbox, samples, sequence, reply>>

Acceptable(r) == agrees /\ header = "intact" /\ mailbox.state = "SUBMITTED" /\ r \in Sound

(* Mutant: the status tells the error, the state is forgotten.             *)
RefusalInStatus == [mailbox EXCEPT !.status = "INVALID"]
Refusal == [mailbox EXCEPT !.status = "INVALID", !.state = "ERROR"]

Reject ==
    /\ Works("validate", "return")
    /\ ~Acceptable(mailbox.request)
    /\ mailbox' = Refusal
    /\ UNCHANGED <<owner, profile, cpu, service, setup, samples, sequence, reply>>

Accept ==
    /\ Works("validate", "compute")
    /\ Acceptable(mailbox.request)
    /\ mailbox' = [mailbox EXCEPT !.state = "RUNNING"]
    /\ UNCHANGED <<owner, profile, cpu, service, setup, samples, sequence, reply>>

Compute ==
    /\ Works("compute", "return")
    /\ samples' = IF mailbox.request = Nop THEN samples ELSE mailbox.request
    /\ mailbox' = [mailbox EXCEPT !.result = mailbox.request, !.status = "OK",
                                  !.state = "COMPLETE"]
    /\ UNCHANGED <<owner, profile, cpu, service, setup, sequence, reply>>

(* Mutant: the gateway returns the bus under the worker's profile.         *)
ReturnedProfileKept == profile
ReturnedProfile == "kernel"

(* udeks_z80_yield: the kernel's profile first, the bus after it.          *)
Yield ==
    /\ Works("return", "suspended")
    /\ profile' = ReturnedProfile
    /\ owner' = "8502"
    /\ UNCHANGED <<cpu, service, setup, mailbox, samples, sequence, reply>>

Worker == Resume \/ Reject \/ Accept \/ Compute \/ Yield

Next == Kernel \/ Worker
Spec == Init /\ [][Next]_vars

-----------------------------------------------------------------------------
(* A processor resumes at its own address in its own bank: the one that    *)
(* takes over finds the memory it gave up.                                 *)
EachInItsBank ==
    /\ owner = "8502" => profile = "kernel" /\ z80 \in {"continuation", "suspended"}
    /\ owner = "Z80" /\ z80 \in {"validate", "compute"} => profile = "worker"

(* When the bus comes back the mailbox holds a response to this request:   *)
(* the sequence is the service's, the state COMPLETE or ERROR.             *)
ResponsesAreWellFormed ==
    owner = "8502" /\ cpu \in {"finish", "tested"} =>
        /\ mailbox.sequence = sequence
        /\ mailbox.state \in {"COMPLETE", "ERROR"}
        /\ mailbox.state = "ERROR" <=> mailbox.status # "OK"

(* A client that is told OK has the result, and finds the samples, of what *)
(* it asked, whatever was asked and rejected before.                       *)
AnswersAreOwn ==
    reply.code = "OK" =>
        /\ reply.result = reply.request
        /\ reply.request \in Sound
        /\ cpu = "idle" /\ reply.request # Nop => samples = reply.request

(* What fails touches nothing: after an error of the service the bus is    *)
(* not given away again, and a request that is rejected leaves the samples *)
(* to the client that still shows those of an earlier one.                 *)
FailuresAreContained ==
    [][/\ service = "ERROR" => owner' = "8502" /\ service' = "ERROR"
       /\ samples' # samples => mailbox.request \in Sound /\ service # "ERROR"]_vars
=============================================================================
