---------------------------- MODULE StorageLease ----------------------------
(***************************************************************************)
(* Non-maskable interrupts around the storage service                      *)
(* (src/services/filesystem/iec_lease.s, src/8502/nmi.s).  An NMI only     *)
(* sets a flag; the next drain, in the raster interrupt or before a        *)
(* transfer with interrupts masked, acknowledges the device.  The storage  *)
(* service runs under a memory map that hides the common page, and with it *)
(* the handler, its vector and the flag: a second handler sets a second    *)
(* flag there, which the lease forwards when it leaves.                    *)
(*                                                                         *)
(* One action is one instruction that touches the map, a flag or the       *)
(* device, so that an NMI may fall between any two of them.  Raster        *)
(* interrupts are masked in the lease and in a drain.  The lease is that   *)
(* of an initialised service, for a request or for cleaning up after a     *)
(* task.  The copies of the request record and the count of drains are     *)
(* left out: no interrupt looks at them.                                   *)
(***************************************************************************)

VARIABLES
    lease,     \* where the lease is: the instruction executed next
    drain,     \* where a drain is
    drainer,   \* who drains: the raster interrupt or a masked transfer
    map,       \* what the MMU shows at the top of memory
    visible,   \* UDEKS_NMI_PENDING, in the common page
    hidden,    \* _udeks_storage_lease_pending, in the service's bank
    raster,    \* the raster interrupt is asserted
    owed       \* history: an edge the device has not been acknowledged for

lines == <<map, visible, hidden>>
leaseVars == <<lease, drain, drainer, raster, owed, lines>>

LeaseInit ==
    /\ lease = "idle"
    /\ drain = "idle"
    /\ drainer = "nobody"
    /\ map = "common"
    /\ visible = FALSE
    /\ hidden = FALSE
    /\ raster = FALSE
    /\ owed = FALSE

-----------------------------------------------------------------------------
(* The two NMI stubs: the map decides which vector is fetched.             *)
Nmi ==
    /\ owed' = TRUE
    /\ \/ map = "common" /\ visible' = TRUE /\ UNCHANGED hidden
       \/ map = "hidden" /\ hidden' = TRUE /\ UNCHANGED visible
    /\ UNCHANGED <<lease, drain, drainer, map, raster>>

Raster ==
    /\ raster' = TRUE
    /\ UNCHANGED <<lease, drain, drainer, owed, lines>>

-----------------------------------------------------------------------------
LeaseStep(from, to) ==
    /\ lease = from
    /\ lease' = to
    /\ UNCHANGED <<drain, drainer, raster, owed>>

(* request, cleanup: php, sei.  An asserted raster interrupt is taken      *)
(* before.                                                                 *)
Enter ==
    /\ drain = "idle"
    /\ ~raster
    /\ LeaseStep("idle", "check")
    /\ UNCHANGED lines

(* mapping: a map that is not the caller's contract is refused.            *)
Check ==
    /\ \/ LeaseStep("check", "prepare")
       \/ LeaseStep("check", "reject")
    /\ UNCHANGED lines

Reject ==
    /\ LeaseStep("reject", "idle")
    /\ UNCHANGED lines

(* snapshot, prepared: the private flag starts clear.                      *)
Prepare ==
    /\ LeaseStep("prepare", "hide")
    /\ hidden' = FALSE
    /\ UNCHANGED <<map, visible>>

Hide ==
    /\ LeaseStep("hide", "serve")
    /\ map' = "hidden"
    /\ UNCHANGED <<visible, hidden>>

(* _udeks_storage_dispatch or _udeks_storage_cleanup.                      *)
Serve ==
    /\ LeaseStep("serve", "leave")
    /\ UNCHANGED lines

(* _udeks_storage_lease_leave: the common map first, the flag after it.    *)
Leave ==
    /\ LeaseStep("leave", "sample")
    /\ map' = "common"
    /\ UNCHANGED <<visible, hidden>>

Sample ==
    /\ \/ hidden /\ LeaseStep("sample", "forward")
       \/ ~hidden /\ LeaseStep("sample", "publish")
    /\ UNCHANGED lines

(* Mutant: forwarding copies nothing.                                      *)
ForwardedNever == visible
Forwarded == TRUE

(* _udeks_storage_lease_merge sets the flag, it never clears it.           *)
Forward ==
    /\ LeaseStep("forward", "forget")
    /\ visible' = Forwarded
    /\ UNCHANGED <<map, hidden>>

Forget ==
    /\ LeaseStep("forget", "publish")
    /\ hidden' = FALSE
    /\ UNCHANGED <<map, visible>>

(* merged: plp.                                                            *)
Publish ==
    /\ LeaseStep("publish", "idle")
    /\ UNCHANGED lines

Lease ==
    \/ Enter \/ Check \/ Reject \/ Prepare \/ Hide \/ Serve \/ Leave \/ Sample
    \/ Forward \/ Forget \/ Publish

-----------------------------------------------------------------------------
(* Mutant: the interrupt handler leaves the NMI to the transfers.          *)
InterruptUndrained ==
    /\ raster /\ lease = "idle" /\ drain = "idle"
    /\ drainer' = "raster"
    /\ drain' = "done"
    /\ UNCHANGED <<lease, raster, owed, lines>>

(* irq_trampoline: the raster interrupt, when nothing masks it.            *)
Interrupt ==
    /\ raster /\ lease = "idle" /\ drain = "idle"
    /\ drainer' = "raster"
    /\ drain' = "test"
    /\ UNCHANGED <<lease, raster, owed, lines>>

(* A transfer that has masked interrupts drains before it starts.          *)
Transfer ==
    /\ lease = "idle" /\ drain = "idle" /\ ~raster
    /\ drainer' = "transfer"
    /\ drain' = "test"
    /\ UNCHANGED <<lease, raster, owed, lines>>

(* _udeks_nmi_drain, one instruction at a time.                            *)
Test ==
    /\ drain = "test"
    /\ drain' = IF visible THEN "clear" ELSE "done"
    /\ UNCHANGED <<lease, drainer, raster, owed, lines>>

ClearFlag ==
    /\ drain = "clear" /\ drain' = "ack"
    /\ visible' = FALSE
    /\ UNCHANGED <<lease, drainer, map, hidden, raster, owed>>

Acknowledge ==
    /\ drain = "ack" /\ drain' = "done"
    /\ owed' = FALSE
    /\ UNCHANGED <<lease, drainer, raster, lines>>

(* raster_irq acknowledges the interrupt; a transfer unmasks it again.     *)
Done ==
    /\ drain = "done" /\ drain' = "idle"
    /\ drainer' = "nobody"
    /\ raster' = (raster /\ drainer = "transfer")
    /\ UNCHANGED <<lease, owed, lines>>

Drain == Interrupt \/ Transfer \/ Test \/ ClearFlag \/ Acknowledge \/ Done

LeaseNext == Nmi \/ Raster \/ Lease \/ Drain

LeaseSpec == LeaseInit /\ [][LeaseNext]_leaseVars

(* The processor goes on executing; the VIC raises its interrupt again and *)
(* again.  Nothing makes an NMI happen, a lease or a transfer start.       *)
FairSpec ==
    /\ LeaseSpec
    /\ WF_leaseVars(Raster)
    /\ WF_leaseVars(Lease /\ lease # "idle")
    /\ WF_leaseVars(Drain /\ ~Transfer)

-----------------------------------------------------------------------------
LeaseTypeOK ==
    /\ lease \in {"idle", "check", "reject", "prepare", "hide", "serve", "leave",
                  "sample", "forward", "forget", "publish"}
    /\ drain \in {"idle", "test", "clear", "ack", "done"}
    /\ drainer \in {"nobody", "raster", "transfer"}
    /\ map \in {"common", "hidden"}
    /\ visible \in BOOLEAN
    /\ hidden \in BOOLEAN
    /\ raster \in BOOLEAN
    /\ owed \in BOOLEAN

(* Wherever an NMI falls, its edge is not lost: when neither a lease nor a *)
(* drain is under way, an edge that is still to be acknowledged shows in   *)
(* the flag the next drain looks at.                                       *)
NoEdgeIsLost ==
    lease = "idle" /\ drain = "idle" /\ owed => visible

(* Nor is one only put off: every edge is acknowledged.                    *)
EdgesAreAcknowledged == owed ~> ~owed
=============================================================================
