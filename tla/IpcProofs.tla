----------------------------- MODULE IpcProofs -----------------------------
(***************************************************************************)
(* Proofs about Ipc for every set of tasks and names, message length and   *)
(* serial bound.  The inductive invariant IpcInv adds to the checked       *)
(* invariants that every handle in the table was issued by the counter,    *)
(* which is what keeps a new handle apart from the ones that are live.     *)
(***************************************************************************)
EXTENDS Ipc, TLAPS

(* The highest endpoint of a non-empty set is one of its members.          *)
LEMMA FirstIsMember ==
    ASSUME NEW set \in SUBSET Endpoints, set # {}
    PROVE  First(set) \in set
BY DEF First, Endpoints

(* Resolving a live handle finds the live endpoint that carries it.        *)
LEMMA ResolveFindsOwner ==
    ASSUME NEW h \in LiveHandles
    PROVE  /\ Resolve(h) \in Endpoints
           /\ Live(Resolve(h))
           /\ handle[Resolve(h)] = h
<1> DEFINE found == {e \in Endpoints : Live(e) /\ handle[e] = h}
<1>1. found # {}
    BY DEF LiveHandles
<1>2. First(found) \in found
    BY <1>1, FirstIsMember
<1> QED
    BY <1>2 DEF Resolve

(* Rejecting a request leaves the endpoint table and the task set alone.   *)
LEMMA RejectKeepsInvariant ==
    ASSUME IpcInv, NEW c \in live, NEW errno \in Errors, Reject(c, errno)
    PROVE  IpcInv'
<1>1. Answers' = Answers
    BY DEF Answers
<1>2. answer' \in Answers
    BY IpcAssumption DEF Reject, Reply, Answers, IpcInv, TypeOK, Handles, Lengths
<1>3. TypeOK'
    BY <1>2 DEF Reject, IpcInv, TypeOK, table, Handles, Lengths, Endpoints, Answers
<1>4. HandlesAreIssued' /\ OwnersAreLive' /\ HandlesAreUnique' /\ QueuedSenderIsLive'
    BY DEF Reject, IpcInv, table, HandlesAreIssued, OwnersAreLive, HandlesAreUnique,
           QueuedSenderIsLive, Live, LiveHandles, Endpoints
<1> QED
    BY <1>3, <1>4 DEF IpcInv

(* Issuing a fresh serial cannot collide with a live handle.               *)
LEMMA CreateKeepsInvariant ==
    ASSUME IpcInv, NEW c \in live, NEW n \in Names, Create(c, n)
    PROVE  IpcInv'
<1>1. CASE CreateError(n) # "OK"
    <2>1. CreateError(n) \in Errors
        BY DEF CreateError, Errors
    <2> QED
        BY <1>1, <2>1, RejectKeepsInvariant DEF Create
<1>2. CASE CreateError(n) = "OK"
    <2> DEFINE new == First(FreeEndpoints)
    <2>1. /\ FreeEndpoints # {}
          /\ serial # MaxSerial
          /\ NamedEndpoints(n) = {}
        BY <1>2 DEF CreateError
    <2>2. new \in Endpoints /\ ~Live(new)
        BY <2>1, FirstIsMember DEF FreeEndpoints
    <2>3. Allocate(new, c, n) /\ Reply(c, "OK", serial + 1, 0) /\ live' = live
        BY <1>2 DEF Create
    <2>4. serial + 1 \in Handles /\ serial \in Nat
        BY <2>1, IpcAssumption DEF IpcInv, TypeOK, Handles
    <2> HIDE DEF new
    <2>5. c \in Tasks /\ c # NoTask
        BY IpcAssumption DEF IpcInv, TypeOK
    <2>6. TypeOK'
        <3>1. answer' \in Answers
            BY <2>3, <2>4, <2>5, IpcAssumption
               DEF Reply, Answers, Errors, Lengths
        <3>2. answer' \in Answers'
            BY <3>1 DEF Answers, Handles, Lengths, Errors
        <3> QED
            BY <2>2, <2>3, <2>4, <2>5, <3>2, IpcAssumption
               DEF Allocate, IpcInv, TypeOK, Handles, Lengths, Endpoints
    <2>7. HandlesAreIssued'
        BY <2>2, <2>3, <2>4 DEF Allocate, IpcInv, TypeOK, HandlesAreIssued, Handles, Live, Endpoints
    <2>8. OwnersAreLive'
        BY <2>3 DEF Allocate, IpcInv, TypeOK, OwnersAreLive, Live, Endpoints
    <2>9. HandlesAreUnique'
        BY <2>1, <2>2, <2>3, <2>4
           DEF Allocate, IpcInv, TypeOK, HandlesAreUnique, HandlesAreIssued,
               NamedEndpoints, Live, Endpoints, Handles
    <2>10. QueuedSenderIsLive'
        BY <2>2, <2>3, <2>5
           DEF Allocate, IpcInv, TypeOK, QueuedSenderIsLive, LiveHandles, Live, Endpoints
    <2> QED
        BY <2>6, <2>7, <2>8, <2>9, <2>10 DEF IpcInv
<1> QED
    BY <1>1, <1>2

(* A lookup answers with a handle and changes nothing else.                *)
LEMMA LookupKeepsInvariant ==
    ASSUME IpcInv, NEW c \in live, NEW n \in Names, Lookup(c, n)
    PROVE  IpcInv'
<1>1. CASE NamedEndpoints(n) = {}
    BY <1>1, RejectKeepsInvariant DEF Lookup, Errors
<1>2. CASE NamedEndpoints(n) # {}
    <2>1. First(NamedEndpoints(n)) \in Endpoints
        BY <1>2, FirstIsMember DEF NamedEndpoints
    <2>2. handle[First(NamedEndpoints(n))] \in Handles
        BY <2>1 DEF IpcInv, TypeOK
    <2>3. answer' \in Answers'
        BY <1>2, <2>2, IpcAssumption
           DEF Lookup, Reply, Answers, Errors, Handles, Lengths, IpcInv, TypeOK
    <2>4. UNCHANGED <<live, table>>
        BY <1>2 DEF Lookup
    <2> QED
        BY <2>3, <2>4
           DEF table, IpcInv, TypeOK, HandlesAreIssued, OwnersAreLive, HandlesAreUnique,
               QueuedSenderIsLive, Live, LiveHandles, Endpoints, Handles, Lengths
<1> QED
    BY <1>1, <1>2

(* An accepted SEND queues a message whose source is live.                 *)
LEMMA SendKeepsInvariant ==
    ASSUME IpcInv, NEW c \in live, NEW to \in Handles, NEW from \in Handles,
           NEW len \in 0 .. MaxLength + 1, Send(c, to, from, len)
    PROVE  IpcInv'
<1>1. CASE SendError(c, to, from, len) # "OK"
    <2>1. SendError(c, to, from, len) \in Errors
        BY DEF SendError, Errors
    <2> QED
        BY <1>1, <2>1, RejectKeepsInvariant DEF Send
<1>2. CASE SendError(c, to, from, len) = "OK"
    <2> DEFINE e == Resolve(to)
    <2>1. /\ to \in LiveHandles
          /\ from \in LiveHandles
          /\ len \in Lengths
        BY <1>2 DEF SendError
    <2>2. e \in Endpoints /\ Live(e)
        BY <2>1, ResolveFindsOwner
    <2>3. /\ length' = [length EXCEPT ![e] = len]
          /\ sender' = [sender EXCEPT ![e] = from]
          /\ Reply(c, "OK", 0, 0)
          /\ UNCHANGED <<live, owner, handle, name, serial>>
        BY <1>2 DEF Send
    <2> HIDE DEF e
    <2>4. answer' \in Answers'
        BY <2>3, IpcAssumption DEF Reply, Answers, Errors, Handles, Lengths, IpcInv, TypeOK
    <2>5. TypeOK'
        BY <2>1, <2>2, <2>3, <2>4 DEF IpcInv, TypeOK, Handles, Lengths, Endpoints
    <2>6. HandlesAreIssued' /\ OwnersAreLive' /\ HandlesAreUnique'
        BY <2>3 DEF IpcInv, HandlesAreIssued, OwnersAreLive, HandlesAreUnique, Live, Endpoints
    <2>7. LiveHandles' = LiveHandles
        BY <2>3 DEF LiveHandles, Live, Endpoints
    <2>8. QueuedSenderIsLive'
        BY <2>1, <2>2, <2>3, <2>7 DEF IpcInv, TypeOK, QueuedSenderIsLive, Live, Endpoints
    <2> QED
        BY <2>5, <2>6, <2>8 DEF IpcInv
<1> QED
    BY <1>1, <1>2

(* An accepted RECEIVE empties one mailbox.                                *)
LEMMA ReceiveKeepsInvariant ==
    ASSUME IpcInv, NEW c \in live, NEW h \in Handles,
           NEW capacity \in 0 .. MaxLength + 1, Receive(c, h, capacity)
    PROVE  IpcInv'
<1>1. CASE ReceiveError(c, h, capacity) # "OK"
    <2>1. ReceiveError(c, h, capacity) \in Errors
        BY DEF ReceiveError, Errors
    <2> QED
        BY <1>1, <2>1, RejectKeepsInvariant DEF Receive
<1>2. CASE ReceiveError(c, h, capacity) = "OK"
    <2> DEFINE e == Resolve(h)
    <2>1. h \in LiveHandles
        BY <1>2 DEF ReceiveError
    <2>2. e \in Endpoints
        BY <2>1, ResolveFindsOwner
    <2>3. /\ Reply(c, "OK", sender[e], length[e])
          /\ length' = [length EXCEPT ![e] = 0]
          /\ UNCHANGED <<live, owner, handle, name, sender, serial>>
        BY <1>2 DEF Receive
    <2> HIDE DEF e
    <2>4. answer' \in Answers'
        BY <2>2, <2>3, IpcAssumption DEF Reply, Answers, Errors, Handles, Lengths, IpcInv, TypeOK
    <2>5. TypeOK'
        BY <2>2, <2>3, <2>4, IpcAssumption DEF IpcInv, TypeOK, Handles, Lengths, Endpoints
    <2>6. HandlesAreIssued' /\ OwnersAreLive' /\ HandlesAreUnique'
        BY <2>3 DEF IpcInv, HandlesAreIssued, OwnersAreLive, HandlesAreUnique, Live, Endpoints
    <2>7. LiveHandles' = LiveHandles
        BY <2>3 DEF LiveHandles, Live, Endpoints
    <2>8. QueuedSenderIsLive'
        BY <2>2, <2>3, <2>7 DEF IpcInv, TypeOK, QueuedSenderIsLive, Live, Endpoints
    <2> QED
        BY <2>5, <2>6, <2>8 DEF IpcInv
<1> QED
    BY <1>1, <1>2

(* Releasing endpoints drops the messages that came from them.             *)
LEMMA ReleaseKeepsTable ==
    ASSUME IpcInv, NEW released \in SUBSET Endpoints, Release(released)
    PROVE  /\ owner' \in [Endpoints -> Tasks \cup {NoTask}]
           /\ length' \in [Endpoints -> Lengths]
           /\ HandlesAreIssued'
           /\ HandlesAreUnique'
           /\ QueuedSenderIsLive'
<1>1. \A e \in Endpoints : Live(e)' <=> Live(e) /\ e \notin released
    BY DEF Release, Live, Endpoints
<1>2. owner' \in [Endpoints -> Tasks \cup {NoTask}] /\ length' \in [Endpoints -> Lengths]
    BY IpcAssumption DEF Release, IpcInv, TypeOK, Lengths
<1>3. HandlesAreIssued'
    BY <1>1 DEF Release, IpcInv, HandlesAreIssued
<1>4. HandlesAreUnique'
    BY <1>1 DEF Release, IpcInv, HandlesAreUnique
<1>5. QueuedSenderIsLive'
    <2> SUFFICES ASSUME NEW e \in Endpoints, length'[e] # 0
                 PROVE  Live(e)' /\ sender'[e] \in LiveHandles'
        BY DEF QueuedSenderIsLive
    <2>1. ~DropsMessage(e, released) /\ length[e] # 0
        BY DEF Release
    <2>2. Live(e) /\ sender[e] \in LiveHandles
        BY <2>1 DEF IpcInv, QueuedSenderIsLive
    <2>3. PICK d \in Endpoints : Live(d) /\ handle[d] = sender[e]
        BY <2>2 DEF LiveHandles
    <2>4. d \notin released /\ e \notin released
        BY <2>1, <2>3 DEF DropsMessage
    <2>5. Live(d)' /\ Live(e)' /\ handle'[d] = sender'[e]
        BY <1>1, <2>2, <2>3, <2>4 DEF Release
    <2> QED
        BY <2>5 DEF LiveHandles
<1> QED
    BY <1>2, <1>3, <1>4, <1>5

(* Closing an endpoint keeps the invariant.                                *)
LEMMA CloseKeepsInvariant ==
    ASSUME IpcInv, NEW c \in live, NEW h \in Handles, Close(c, h)
    PROVE  IpcInv'
<1>1. CASE CloseError(c, h) # "OK"
    <2>1. CloseError(c, h) \in Errors
        BY DEF CloseError, Errors
    <2> QED
        BY <1>1, <2>1, RejectKeepsInvariant DEF Close
<1>2. CASE CloseError(c, h) = "OK"
    <2>1. Resolve(h) \in Endpoints
        BY <1>2, ResolveFindsOwner DEF CloseError
    <2>2. Release({Resolve(h)}) /\ Reply(c, "OK", 0, 0) /\ live' = live
        BY <1>2 DEF Close
    <2>3. answer' \in Answers'
        BY <2>2, IpcAssumption DEF Reply, Answers, Errors, Handles, Lengths, IpcInv, TypeOK
    <2>4. OwnersAreLive'
        BY <2>2 DEF Release, IpcInv, OwnersAreLive, Live
    <2>5. /\ owner' \in [Endpoints -> Tasks \cup {NoTask}]
          /\ length' \in [Endpoints -> Lengths]
          /\ HandlesAreIssued' /\ HandlesAreUnique' /\ QueuedSenderIsLive'
        BY <2>1, <2>2, ReleaseKeepsTable
    <2>6. TypeOK'
        BY <2>2, <2>3, <2>5 DEF Release, IpcInv, TypeOK, Handles, Lengths, Endpoints
    <2> QED
        BY <2>4, <2>5, <2>6 DEF IpcInv
<1> QED
    BY <1>1, <1>2

(* Retirement closes every endpoint of the departing task.                 *)
LEMMA RetireKeepsInvariant ==
    ASSUME IpcInv, NEW t \in live, Retire(t)
    PROVE  IpcInv'
<1> DEFINE released == {e \in Endpoints : owner[e] = t}
<1>1. Release(released) /\ live' = live \ {t} /\ answer' = answer
    BY DEF Retire
<1>2. OwnersAreLive'
    BY <1>1 DEF Release, IpcInv, OwnersAreLive, Live
<1>3. TypeOK'
    BY <1>1, ReleaseKeepsTable DEF Release, IpcInv, TypeOK, Handles, Lengths, Answers
<1> QED
    BY <1>1, <1>2, <1>3, ReleaseKeepsTable DEF IpcInv

(* A new task owns nothing.                                                *)
LEMMA AdmitKeepsInvariant ==
    ASSUME IpcInv, NEW t \in Tasks, Admit(t)
    PROVE  IpcInv'
BY DEF Admit, table, IpcInv, TypeOK, HandlesAreIssued, OwnersAreLive, HandlesAreUnique,
       QueuedSenderIsLive, Live, LiveHandles, Endpoints, Handles, Lengths, Answers

(* The invariant holds in every reachable state: types, ownership, handle  *)
(* uniqueness and the liveness of every queued sender.                     *)
THEOREM IpcIsInvariant == Spec => []IpcInv
<1>1. Init => IpcInv
    BY IpcAssumption
       DEF Init, IpcInv, TypeOK, HandlesAreIssued, OwnersAreLive, HandlesAreUnique,
           QueuedSenderIsLive, Live, Endpoints, Handles, Lengths, Answers, Errors
<1>2. IpcInv /\ [Next]_vars => IpcInv'
    <2> SUFFICES ASSUME IpcInv, [Next]_vars
                 PROVE  IpcInv'
        OBVIOUS
    <2>1. CASE \E c \in live : Request(c)
        <3> PICK c \in live : Request(c)
            BY <2>1
        <3>1. CASE Malformed(c)
            BY <3>1, RejectKeepsInvariant DEF Malformed, Errors
        <3>2. CASE \E n \in Names : Create(c, n) \/ Lookup(c, n)
            BY <3>2, CreateKeepsInvariant, LookupKeepsInvariant
        <3>3. CASE \E to, from \in Handles, len \in 0 .. MaxLength + 1 :
                      Send(c, to, from, len)
            BY <3>3, SendKeepsInvariant
        <3>4. CASE \E h \in Handles, capacity \in 0 .. MaxLength + 1 :
                      Receive(c, h, capacity)
            BY <3>4, ReceiveKeepsInvariant
        <3>5. CASE \E h \in Handles : Close(c, h)
            BY <3>5, CloseKeepsInvariant
        <3> QED
            BY <3>1, <3>2, <3>3, <3>4, <3>5 DEF Request
    <2>2. CASE \E t \in live : Retire(t)
        BY <2>2, RetireKeepsInvariant
    <2>3. CASE \E t \in Tasks \ live : Admit(t)
        BY <2>3, AdmitKeepsInvariant
    <2>4. CASE UNCHANGED vars
        BY <2>4 DEF vars, table, IpcInv, TypeOK, HandlesAreIssued, OwnersAreLive,
                    HandlesAreUnique, QueuedSenderIsLive, Live, LiveHandles, Endpoints,
                    Handles, Lengths, Answers
    <2> QED
        BY <2>1, <2>2, <2>3, <2>4 DEF Next
<1> QED
    BY <1>1, <1>2, PTL DEF Spec

-----------------------------------------------------------------------------
(* What IpcInv gives the reader: a queued message always has a source that *)
(* can still be answered.                                                  *)
THEOREM QueuedSendersStayLive == Spec => []QueuedSenderIsLive
<1>1. IpcInv => QueuedSenderIsLive
    BY DEF IpcInv
<1> QED
    BY <1>1, IpcIsInvariant, PTL

(* No task ever owns an endpoint it did not create: an endpoint's owner is *)
(* live, and handles and names are unique.                                 *)
THEOREM OwnershipHolds == Spec => [](OwnersAreLive /\ HandlesAreUnique)
<1>1. IpcInv => OwnersAreLive /\ HandlesAreUnique
    BY DEF IpcInv
<1> QED
    BY <1>1, IpcIsInvariant, PTL

(* A released message is dropped only with one of its two ends.            *)
LEMMA ReleaseDropsOnlyOrphans ==
    ASSUME IpcInv, NEW released \in SUBSET Endpoints,
           \A r \in released : Live(r), Release(released),
           NEW e \in Endpoints, length[e] # 0, length'[e] # length[e]
    PROVE  ~Live(e)' \/ sender[e] \notin LiveHandles'
<1>1. \A d \in Endpoints : Live(d)' <=> Live(d) /\ d \notin released
    BY DEF Release, Live, Endpoints
<1>2. DropsMessage(e, released)
    BY DEF Release
<1>3. CASE e \in released
    BY <1>1, <1>3
<1>4. CASE \E r \in released : r # e /\ sender[e] = handle[r]
    <2>1. PICK r \in released : sender[e] = handle[r]
        BY <1>4
    <2>2. SUFFICES ASSUME NEW d \in Endpoints, Live(d)', handle'[d] = handle[r]
                   PROVE  FALSE
        BY <2>1 DEF LiveHandles
    <2>3. Live(d) /\ d # r /\ handle[d] = handle[r]
        BY <1>1, <2>2 DEF Release
    <2> QED
        BY <2>3 DEF IpcInv, HandlesAreUnique
<1> QED
    BY <1>2, <1>3, <1>4 DEF DropsMessage

(* A request other than an accepted CREATE issues no handle.               *)
LEMMA NoNewHandle ==
    ASSUME IpcInv, handle' = handle,
           \A e \in Endpoints : Live(e)' => Live(e),
           NEW e \in Endpoints, Live(e)', ~Live(e) \/ handle'[e] # handle[e]
    PROVE  FALSE
OBVIOUS

(* No handle is ever valid twice.                                          *)
THEOREM HandlesNeverReused == Spec => HandlesAreFresh
<1>1. IpcInv /\ [Next]_vars =>
        [\A e \in Endpoints :
           (Live(e)' /\ (~Live(e) \/ handle'[e] # handle[e])) => handle'[e] > serial]_vars
    <2> SUFFICES ASSUME IpcInv, Next, NEW e \in Endpoints,
                        Live(e)', ~Live(e) \/ handle'[e] # handle[e]
                 PROVE  handle'[e] > serial
        BY DEF vars
    <2>1. ASSUME NEW c \in live, NEW n \in Names, Create(c, n)
          PROVE  handle'[e] > serial
        <3>1. CASE CreateError(n) # "OK"
            BY <2>1, <3>1, NoNewHandle DEF Create, Reject, table, Live
        <3>2. CASE CreateError(n) = "OK"
            <4> DEFINE new == First(FreeEndpoints)
            <4>1. Allocate(new, c, n)
                BY <2>1, <3>2 DEF Create
            <4> HIDE DEF new
            <4>2. e = new
                BY <4>1 DEF Allocate, Live, IpcInv, TypeOK
            <4> QED
                BY <4>1, <4>2 DEF Allocate, IpcInv, TypeOK, Handles
        <3> QED
            BY <3>1, <3>2
    <2>2. CASE handle' = handle /\ \A d \in Endpoints : Live(d)' => Live(d)
        BY <2>2, NoNewHandle
    <2>3. CASE \E c \in live : Request(c)
        <3> PICK c \in live : Request(c)
            BY <2>3
        <3>1. CASE \E n \in Names : Create(c, n)
            BY <2>1, <3>1
        <3>2. CASE ~\E n \in Names : Create(c, n)
            BY <2>2, <3>2
               DEF Request, Malformed, Lookup, Send, Receive, Close, Reject, Release,
                   table, Live
        <3> QED
            BY <3>1, <3>2
    <2>4. CASE \E t \in live : Retire(t)
        BY <2>2, <2>4 DEF Retire, Release, Live
    <2>5. CASE \E t \in Tasks \ live : Admit(t)
        BY <2>2, <2>5 DEF Admit, table, Live
    <2> QED
        BY <2>3, <2>4, <2>5 DEF Next
<1> QED
    BY <1>1, IpcIsInvariant, PTL DEF Spec, HandlesAreFresh

(* A queued message changes only by being received whole or by the         *)
(* departure of one of its two ends.                                       *)
THEOREM MessagesStayQueued == Spec => MessagesAreKept
<1> DEFINE Kept(e) ==
        \/ /\ length'[e] = 0
           /\ answer'.errno = "OK"
           /\ answer'.to = owner[e]
           /\ answer'.handle = sender[e]
           /\ answer'.size = length[e]
        \/ ~Live(e)'
        \/ sender[e] \notin LiveHandles'
<1>1. IpcInv /\ [Next]_vars =>
        [\A e \in Endpoints :
           length[e] # 0 /\ <<length[e], sender[e]>>' # <<length[e], sender[e]>>
               => Kept(e)]_vars
    <2> SUFFICES ASSUME IpcInv, Next, NEW e \in Endpoints, length[e] # 0,
                        <<length[e], sender[e]>>' # <<length[e], sender[e]>>
                 PROVE  Kept(e)
        BY DEF vars
    <2>1. ASSUME UNCHANGED <<length, sender>> PROVE FALSE
        BY <2>1
    <2>2. ASSUME NEW released \in SUBSET Endpoints,
                 \A r \in released : Live(r), Release(released)
          PROVE  Kept(e)
        <3>1. length'[e] # length[e]
            BY <2>2 DEF Release
        <3> QED
            BY <2>2, <3>1, ReleaseDropsOnlyOrphans
    <2>3. ASSUME NEW c \in live, NEW n \in Names, Create(c, n) PROVE Kept(e)
        <3>1. CASE CreateError(n) # "OK"
            BY <2>1, <2>3, <3>1 DEF Create, Reject, table
        <3>2. CASE CreateError(n) = "OK"
            <4> DEFINE new == First(FreeEndpoints)
            <4>1. FreeEndpoints # {}
                BY <3>2 DEF CreateError
            <4>2. new \in Endpoints /\ ~Live(new)
                BY <4>1, FirstIsMember DEF FreeEndpoints
            <4>3. Allocate(new, c, n)
                BY <2>3, <3>2 DEF Create
            <4>4. Live(e)
                BY DEF IpcInv, QueuedSenderIsLive
            <4> HIDE DEF new
            <4> QED
                BY <4>2, <4>3, <4>4 DEF Allocate, IpcInv, TypeOK
        <3> QED
            BY <3>1, <3>2
    <2>4. ASSUME NEW c \in live, NEW to \in Handles, NEW from \in Handles,
                 NEW len \in 0 .. MaxLength + 1, Send(c, to, from, len)
          PROVE  Kept(e)
        <3>1. CASE SendError(c, to, from, len) # "OK"
            BY <2>1, <2>4, <3>1 DEF Send, Reject, table
        <3>2. CASE SendError(c, to, from, len) = "OK"
            <4>1. length[Resolve(to)] = 0
                BY <3>2 DEF SendError
            <4> QED
                BY <2>4, <3>2, <4>1 DEF Send, IpcInv, TypeOK
        <3> QED
            BY <3>1, <3>2
    <2>5. ASSUME NEW c \in live, NEW h \in Handles, NEW capacity \in 0 .. MaxLength + 1,
                 Receive(c, h, capacity)
          PROVE  Kept(e)
        <3>1. CASE ReceiveError(c, h, capacity) # "OK"
            BY <2>1, <2>5, <3>1 DEF Receive, Reject, table
        <3>2. CASE ReceiveError(c, h, capacity) = "OK"
            <4>1. owner[Resolve(h)] = c
                BY <3>2 DEF ReceiveError
            <4>2. e = Resolve(h)
                BY <2>5, <3>2 DEF Receive, IpcInv, TypeOK
            <4> QED
                BY <2>5, <3>2, <4>1, <4>2 DEF Receive, Reply, IpcInv, TypeOK
        <3> QED
            BY <3>1, <3>2
    <2>6. ASSUME NEW c \in live, NEW h \in Handles, Close(c, h) PROVE Kept(e)
        <3>1. CASE CloseError(c, h) # "OK"
            BY <2>1, <2>6, <3>1 DEF Close, Reject, table
        <3>2. CASE CloseError(c, h) = "OK"
            <4>1. Resolve(h) \in Endpoints /\ Live(Resolve(h))
                BY <3>2, ResolveFindsOwner DEF CloseError
            <4>2. Release({Resolve(h)})
                BY <2>6, <3>2 DEF Close
            <4> QED
                BY <2>2, <4>1, <4>2
        <3> QED
            BY <3>1, <3>2
    <2>7. CASE \E c \in live : Request(c)
        BY <2>1, <2>3, <2>4, <2>5, <2>6, <2>7
           DEF Request, Malformed, Lookup, Reject, table
    <2>8. ASSUME NEW t \in live, Retire(t) PROVE Kept(e)
        <3> DEFINE released == {d \in Endpoints : owner[d] = t}
        <3>1. \A r \in released : Live(r)
            BY IpcAssumption DEF Live, IpcInv, TypeOK
        <3>2. Release(released)
            BY <2>8 DEF Retire
        <3> HIDE DEF Kept
        <3> QED
            BY <2>2, <3>1, <3>2
    <2>9. CASE \E t \in Tasks \ live : Admit(t)
        BY <2>1, <2>9 DEF Admit, table
    <2> QED
        BY <2>7, <2>8, <2>9 DEF Next
<1> QED
    BY <1>1, IpcIsInvariant, PTL DEF Spec, MessagesAreKept
=============================================================================
