------------------------------- MODULE Ipc -------------------------------
(***************************************************************************)
(* Bounded message IPC: src/kernel/ipc.s, reached from the request gate    *)
(* through src/services/filesystem/iec_router.s.                           *)
(*                                                                         *)
(* Two endpoints share one serial counter.  An endpoint is owned by the    *)
(* task that created it and holds at most one copied message, tagged with  *)
(* the handle of the endpoint it was sent from.  Every call is synchronous *)
(* and serialized by the gate, so each is one action here, the accepted    *)
(* and every rejected outcome included.  What makes it hard is time: tasks *)
(* exit and their identifiers are reused, while handles and queued         *)
(* messages of an earlier life are still held by their peers.              *)
(***************************************************************************)
EXTENDS Integers

CONSTANTS
    Tasks,        \* native scheduler identifiers, 1..8 in the code
    Names,        \* endpoint names
    MaxLength,    \* longest message, 16 in the code
    MaxSerial     \* last handle ever issued, 65535 in the code

NoTask == 0

ASSUME IpcAssumption ==
    /\ NoTask \notin Tasks
    /\ Names # {}
    /\ MaxLength \in Nat \ {0}
    /\ MaxSerial \in Nat

Endpoints == {0, 1}
Handles == 0 .. MaxSerial
Lengths == 0 .. MaxLength     \* 0 is the empty mailbox

\* The errno values of an answer; OK is errno 0.
Errors == {"OK", "ENOENT", "EBADF", "EAGAIN", "EACCES", "EEXIST",
           "EINVAL", "ENOSPC", "EMSGSIZE"}

VARIABLES
    live,      \* tasks that own a lifecycle slot (kept by the scheduler)
    owner,     \* owner[e]: creating task, NoTask when the endpoint is free
    handle,    \* handle[e]: the serial the endpoint was issued
    name,      \* name[e]
    length,    \* length[e]: the queued message, 0 when there is none
    sender,    \* sender[e]: source handle of the queued message
    serial,    \* the last serial issued
    answer     \* the outcome written to the shared request record

table == <<owner, handle, name, length, sender, serial>>
vars == <<live, table, answer>>

Answers == [to : Tasks, errno : Errors, handle : Handles, size : Lengths]

(* A scan for a live endpoint: every loop over endpoints tests the owner. *)
Live(e) == owner[e] # NoTask
LiveHandles == {handle[e] : e \in {d \in Endpoints : Live(d)}}
NamedEndpoints(n) == {e \in Endpoints : Live(e) /\ name[e] = n}

(* Both scans run from endpoint 1 down to endpoint 0. *)
First(set) == IF 1 \in set THEN 1 ELSE 0
FreeEndpoints == {e \in Endpoints : ~Live(e)}
Resolve(h) == First({e \in Endpoints : Live(e) /\ handle[e] = h})

Reply(c, errno, h, size) ==
    answer' = [to |-> c, errno |-> errno, handle |-> h, size |-> size]

Reject(c, errno) ==
    /\ Reply(c, errno, 0, 0)
    /\ UNCHANGED <<live, table>>

Init ==
    /\ live = {}
    /\ owner = [e \in Endpoints |-> NoTask]
    /\ handle = [e \in Endpoints |-> 0]
    /\ name = [e \in Endpoints |-> CHOOSE n \in Names : TRUE]
    /\ length = [e \in Endpoints |-> 0]
    /\ sender = [e \in Endpoints |-> 0]
    /\ serial = 0
    /\ answer \in {[to |-> t, errno |-> "OK", handle |-> 0, size |-> 0] :
                     t \in Tasks}

-----------------------------------------------------------------------------
(* A request that fails the envelope checks: wrong minor, flags, an        *)
(* unknown suboperation, a bad name or a count below two.                  *)
Malformed(c) == Reject(c, "EINVAL")

CreateError(n) ==
    IF NamedEndpoints(n) # {} THEN "EEXIST"
    ELSE IF FreeEndpoints = {} \/ serial = MaxSerial THEN "ENOSPC"
    ELSE "OK"

\* Fault: a reused endpoint keeps the handle of its earlier life.
AllocateStale(e, c, n) ==
    /\ serial' = serial + 1
    /\ handle' = [handle EXCEPT ![e] = IF @ = 0 THEN serial + 1 ELSE @]
    /\ owner' = [owner EXCEPT ![e] = c]
    /\ name' = [name EXCEPT ![e] = n]
    /\ length' = [length EXCEPT ![e] = 0]
    /\ UNCHANGED sender

Allocate(e, c, n) ==
    /\ serial' = serial + 1
    /\ handle' = [handle EXCEPT ![e] = serial + 1]
    /\ owner' = [owner EXCEPT ![e] = c]
    /\ name' = [name EXCEPT ![e] = n]
    /\ length' = [length EXCEPT ![e] = 0]
    /\ UNCHANGED sender

Create(c, n) ==
    \/ /\ CreateError(n) # "OK"
       /\ Reject(c, CreateError(n))
    \/ /\ CreateError(n) = "OK"
       /\ Allocate(First(FreeEndpoints), c, n)
       /\ Reply(c, "OK", serial + 1, 0)
       /\ UNCHANGED live

Lookup(c, n) ==
    \/ /\ NamedEndpoints(n) = {}
       /\ Reject(c, "ENOENT")
    \/ /\ NamedEndpoints(n) # {}
       /\ Reply(c, "OK", handle[First(NamedEndpoints(n))], 0)
       /\ UNCHANGED <<live, table>>

\* Fault: SEND does not look whether the mailbox is full.
SendErrorOverwriting(c, to, from, len) ==
    IF to \notin LiveHandles THEN "EBADF"
    ELSE IF len \notin Lengths \ {0} THEN "EINVAL"
    ELSE IF from \notin LiveHandles THEN "EBADF"
    ELSE IF owner[Resolve(from)] # c THEN "EACCES"
    ELSE "OK"

(* The destination is resolved before the count is looked at, and the      *)
(* source before the mailbox: the order decides which error wins.          *)
SendError(c, to, from, len) ==
    IF to \notin LiveHandles THEN "EBADF"
    ELSE IF len \notin Lengths \ {0} THEN "EINVAL"
    ELSE IF from \notin LiveHandles THEN "EBADF"
    ELSE IF owner[Resolve(from)] # c THEN "EACCES"
    ELSE IF length[Resolve(to)] # 0 THEN "EAGAIN"
    ELSE "OK"

Send(c, to, from, len) ==
    \/ /\ SendError(c, to, from, len) # "OK"
       /\ Reject(c, SendError(c, to, from, len))
    \/ /\ SendError(c, to, from, len) = "OK"
       /\ length' = [length EXCEPT ![Resolve(to)] = len]
       /\ sender' = [sender EXCEPT ![Resolve(to)] = from]
       /\ Reply(c, "OK", 0, 0)
       /\ UNCHANGED <<live, owner, handle, name, serial>>

ReceiveError(c, h, capacity) ==
    IF h \notin LiveHandles THEN "EBADF"
    ELSE IF owner[Resolve(h)] # c THEN "EACCES"
    ELSE IF capacity \notin Lengths THEN "EINVAL"
    ELSE IF length[Resolve(h)] = 0 THEN "EAGAIN"
    ELSE IF length[Resolve(h)] > capacity THEN "EMSGSIZE"
    ELSE "OK"

Receive(c, h, capacity) ==
    \/ /\ ReceiveError(c, h, capacity) # "OK"
       /\ Reject(c, ReceiveError(c, h, capacity))
    \/ /\ ReceiveError(c, h, capacity) = "OK"
       /\ Reply(c, "OK", sender[Resolve(h)], length[Resolve(h)])
       /\ length' = [length EXCEPT ![Resolve(h)] = 0]
       /\ UNCHANGED <<live, owner, handle, name, sender, serial>>

-----------------------------------------------------------------------------
\* Fault: only the departing endpoint's own mailbox is emptied.
DropsOwnMessage(e, released) == e \in released

(* Freeing endpoints also drops a message queued in the other mailbox that *)
(* carries the departing handle.                                           *)
DropsMessage(e, released) ==
    \/ e \in released
    \/ \E r \in released : r # e /\ sender[e] = handle[r]

Release(released) ==
    /\ owner' = [e \in Endpoints |-> IF e \in released THEN NoTask ELSE owner[e]]
    /\ length' = [e \in Endpoints |->
                    IF DropsMessage(e, released) THEN 0 ELSE length[e]]
    /\ UNCHANGED <<handle, name, sender, serial>>

CloseError(c, h) ==
    IF h \notin LiveHandles THEN "EBADF"
    ELSE IF owner[Resolve(h)] # c THEN "EACCES"
    ELSE "OK"

Close(c, h) ==
    \/ /\ CloseError(c, h) # "OK"
       /\ Reject(c, CloseError(c, h))
    \/ /\ CloseError(c, h) = "OK"
       /\ Release({Resolve(h)})
       /\ Reply(c, "OK", 0, 0)
       /\ UNCHANGED live

\* Fault: the retirement hook does not reach the IPC service.
RetireWithoutIpc(t) ==
    /\ live' = live \ {t}
    /\ UNCHANGED <<table, answer>>

(* EXIT and CANCEL run the retirement hook before the slot turns ZOMBIE.   *)
Retire(t) ==
    /\ live' = live \ {t}
    /\ Release({e \in Endpoints : owner[e] = t})
    /\ UNCHANGED answer

(* The scheduler publishes a new task in a free slot. *)
Admit(t) ==
    /\ live' = live \cup {t}
    /\ UNCHANGED <<table, answer>>

-----------------------------------------------------------------------------
(* One request of a running task.  A handle is any value a client may      *)
(* hold, one that was closed long ago included.                            *)
Request(c) ==
    \/ Malformed(c)
    \/ \E n \in Names : Create(c, n) \/ Lookup(c, n)
    \/ \E to, from \in Handles, len \in 0 .. MaxLength + 1 :
          Send(c, to, from, len)
    \/ \E h \in Handles, capacity \in 0 .. MaxLength + 1 :
          Receive(c, h, capacity)
    \/ \E h \in Handles : Close(c, h)

Next ==
    \/ \E c \in live : Request(c)
    \/ \E t \in live : Retire(t)
    \/ \E t \in Tasks \ live : Admit(t)

Spec == Init /\ [][Next]_vars

-----------------------------------------------------------------------------
TypeOK ==
    /\ live \subseteq Tasks
    /\ owner \in [Endpoints -> Tasks \cup {NoTask}]
    /\ handle \in [Endpoints -> Handles]
    /\ name \in [Endpoints -> Names]
    /\ length \in [Endpoints -> Lengths]
    /\ sender \in [Endpoints -> Handles]
    /\ serial \in Handles
    /\ answer \in Answers

(* Every handle in the table was issued by the counter.                    *)
HandlesAreIssued == \A e \in Endpoints : handle[e] <= serial /\ (Live(e) => handle[e] > 0)

(* No endpoint outlives the task that created it: retirement runs before   *)
(* the identifier can be reused, so a new task never inherits a mailbox.   *)
OwnersAreLive == \A e \in Endpoints : Live(e) => owner[e] \in live

(* A handle names at most one live endpoint, and so does a name.           *)
HandlesAreUnique ==
    \A d, e \in Endpoints :
        Live(d) /\ Live(e) /\ d # e => handle[d] # handle[e] /\ name[d] # name[e]

(* A queued message was sent from an endpoint that is still open: nothing  *)
(* a retired sender queued crosses the reuse of its task identifier.       *)
QueuedSenderIsLive ==
    \A e \in Endpoints : length[e] # 0 => Live(e) /\ sender[e] \in LiveHandles

(* The conjunction that every step preserves.                              *)
IpcInv ==
    /\ TypeOK
    /\ HandlesAreIssued
    /\ OwnersAreLive
    /\ HandlesAreUnique
    /\ QueuedSenderIsLive

(* A handle that becomes valid was never valid before, so a stale handle   *)
(* held by a peer can never reach an endpoint created later.               *)
HandlesAreFresh ==
    [][\A e \in Endpoints :
          (Live(e)' /\ (~Live(e) \/ handle'[e] # handle[e]))
              => handle'[e] > serial]_vars

(* A queued message stays as it was sent until it is received whole, with  *)
(* the source it was sent from, or until one of its two ends departs.  No  *)
(* send overwrites it and no rejected call loses it.                       *)
MessagesAreKept ==
    [][\A e \in Endpoints :
          length[e] # 0 /\ <<length[e], sender[e]>>' # <<length[e], sender[e]>> =>
              \/ /\ length'[e] = 0
                 /\ answer'.errno = "OK"
                 /\ answer'.to = owner[e]
                 /\ answer'.handle = sender[e]
                 /\ answer'.size = length[e]
              \/ ~Live(e)'
              \/ sender[e] \notin LiveHandles']_vars
=============================================================================
