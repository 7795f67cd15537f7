------------------------------ MODULE FrameChannel ------------------------------
(***************************************************************************)
(* How frames leave a device server: one frame-producing target of          *)
(* devices/serving.py, its reused shared-memory segment                     *)
(* (devices/shared_frame.py), and the client processes that drive it        *)
(* through devices/remote.py and devices/rpc.py.                            *)
(*                                                                          *)
(* A client process has one connection to the target, a lock for the        *)
(* connection and a lock for the segment, and threads that call through     *)
(* them.  The server has one handler thread per connection.  A reply that   *)
(* carries a large frame names the segment the frame was left in; the       *)
(* thread copies it out after the reply, from a segment the server writes   *)
(* again at its next call.                                                  *)
(***************************************************************************)
EXTENDS Integers, FiniteSets

CONSTANTS
    Clients,      \* client processes
    Threads,      \* their threads
    ProcessOf,    \* the client process of each thread
    MaxSize,      \* the largest frame there is; sizes are 1 .. MaxSize
    MaxSegments,  \* bound: segments ever made
    Nobody

ASSUME ChannelAssumption ==
    /\ ProcessOf \in [Threads -> Clients]
    /\ MaxSize \in Nat \ {0} /\ MaxSegments \in Nat
    /\ Nobody \notin Clients \cup Threads

VARIABLES
    link,       \* each client's connection, as the client sees it
    handler,    \* where its handler thread is in serve_connection
    refused,    \* connections accepted while another held the target: `rejected`
    inUse,      \* the connection that holds accept_loop's in_use lock
    request,    \* the thread whose call is on the connection, to the server
    answer,     \* the thread whose call the reply on the connection answers
    named,      \* the segment that reply names, 0 for none
    pc,         \* where each thread is in its call
    wants,      \* what it calls for: a frame, a plain value, or the target's close
    lock,       \* each client's connection lock, and
    frameLock,  \* its frame lock: their holders
    ref,        \* the segment a thread has still to copy from
    segment,    \* the last segment the writer made: 0 before the first
    size,       \* and its size, 0 when it is retired
    content     \* the thread whose frame is in it

links == <<link, handler, refused, inUse>>
wires == <<request, answer, named>>
threads == <<pc, wants, lock, frameLock, ref>>
writer == <<segment, size, content>>
vars == <<links, wires, threads, writer>>

Links == {"none", "open", "gone"}
HandlerPoints == {"none", "recv", "invoke", "ended"}
Points == {"idle", "frame", "call", "wait", "copy"}

Init ==
    /\ link = [k \in Clients |-> "none"]
    /\ handler = [k \in Clients |-> "none"]
    /\ refused = {}
    /\ inUse = Nobody
    /\ request = [k \in Clients |-> Nobody]
    /\ answer = [k \in Clients |-> Nobody]
    /\ named = [k \in Clients |-> 0]
    /\ pc = [t \in Threads |-> "idle"]
    /\ wants = [t \in Threads |-> "value"]
    /\ lock = [k \in Clients |-> Nobody]
    /\ frameLock = [k \in Clients |-> Nobody]
    /\ ref = [t \in Threads |-> 0]
    /\ segment = 0
    /\ size = 0
    /\ content = Nobody

Goes(t, point) == pc' = [pc EXCEPT ![t] = point]

----------------------------------------------------------------------------
\* A thread's call: _call, or _frame around it

\* A value is asked for, and the target closed, under the connection's lock alone.
Calls(t) ==
    /\ pc[t] = "idle"
    /\ link[ProcessOf[t]] = "open"
    /\ \/ \E w \in {"value", "close"} : wants' = [wants EXCEPT ![t] = w] /\ Goes(t, "call")
       \/ wants' = [wants EXCEPT ![t] = "frame"] /\ Goes(t, "frame")
    /\ UNCHANGED <<links, wires, lock, frameLock, ref, writer>>

\* `with self._frame_lock`.
LocksFrame(t) ==
    /\ pc[t] = "frame"
    /\ frameLock[ProcessOf[t]] = Nobody
    /\ frameLock' = [frameLock EXCEPT ![ProcessOf[t]] = t]
    /\ Goes(t, "call")
    /\ UNCHANGED <<links, wires, wants, lock, ref, writer>>

\* Mutated form: the connection's lock is not asked for.
SendsUnlocked(t) ==
    LET k == ProcessOf[t] IN
    /\ pc[t] = "call"
    /\ link[k] = "open"
    /\ request' = [request EXCEPT ![k] = t]
    /\ Goes(t, "wait")
    /\ UNCHANGED <<links, answer, named, wants, lock, frameLock, ref, writer>>

\* send_call: `with lock`, and the send.
Sends(t) ==
    LET k == ProcessOf[t] IN
    /\ pc[t] = "call"
    /\ link[k] = "open"
    /\ lock[k] = Nobody
    /\ lock' = [lock EXCEPT ![k] = t]
    /\ request' = [request EXCEPT ![k] = t]
    /\ Goes(t, "wait")
    /\ UNCHANGED <<links, answer, named, wants, frameLock, ref, writer>>

\* Mutated form: the frame lock covers the round trip only.
UnlocksEarly(t, name) ==
    LET k == ProcessOf[t] IN
    IF frameLock[k] = t
    THEN frameLock' = [frameLock EXCEPT ![k] = Nobody]
    ELSE UNCHANGED frameLock

\* The frame lock is kept while there is a segment to copy from.
KeepsFrameLock(t, name) ==
    LET k == ProcessOf[t] IN
    IF frameLock[k] = t /\ name = 0
    THEN frameLock' = [frameLock EXCEPT ![k] = Nobody]
    ELSE UNCHANGED frameLock

\* recv, and the end of `with lock`.  The reply is whatever comes next on the wire.
Receives(t) ==
    LET k == ProcessOf[t] IN
    /\ pc[t] = "wait"
    /\ link[k] = "open"
    /\ answer[k] # Nobody
    /\ answer' = [answer EXCEPT ![k] = Nobody]
    /\ named' = [named EXCEPT ![k] = 0]
    /\ lock' = [lock EXCEPT ![k] = Nobody]
    /\ KeepsFrameLock(t, named[k])
    /\ ref' = [ref EXCEPT ![t] = named[k]]
    /\ Goes(t, IF named[k] = 0 THEN "idle" ELSE "copy")
    /\ UNCHANGED <<links, request, wants, writer>>

\* SharedFrameReader.read, with a frame or, from a segment retired since, perhaps an error;
\* and the end of `with self._frame_lock`.
CopiesOut(t) ==
    LET k == ProcessOf[t] IN
    /\ pc[t] = "copy"
    /\ ref' = [ref EXCEPT ![t] = 0]
    /\ frameLock' = [frameLock EXCEPT ![k] = Nobody]
    /\ Goes(t, "idle")
    /\ UNCHANGED <<links, wires, wants, lock, writer>>

----------------------------------------------------------------------------
\* Connections

\* Mutated form: every connection is served.
AdmitsAll(k) == inUse' = k /\ UNCHANGED refused

\* in_use.acquire(blocking=False).
Admits(k) ==
    IF inUse = Nobody
    THEN inUse' = k /\ UNCHANGED refused
    ELSE refused' = refused \cup {k} /\ UNCHANGED inUse

\* accept_loop.  A client that lost its connection, or was refused, may come again.
Connects(k) ==
    /\ link[k] = "none"
    /\ Admits(k)
    /\ link' = [link EXCEPT ![k] = "open"]
    /\ handler' = [handler EXCEPT ![k] = "recv"]
    /\ UNCHANGED <<wires, threads, writer>>

\* The client process dies, or closes its connection, with its calls unfinished.
Vanishes(k) ==
    LET mine == {t \in Threads : ProcessOf[t] = k} IN
    /\ link[k] = "open"
    /\ link' = [link EXCEPT ![k] = "gone"]
    /\ pc' = [t \in Threads |-> IF t \in mine THEN "idle" ELSE pc[t]]
    /\ ref' = [t \in Threads |-> IF t \in mine THEN 0 ELSE ref[t]]
    /\ lock' = [lock EXCEPT ![k] = Nobody]
    /\ frameLock' = [frameLock EXCEPT ![k] = Nobody]
    /\ UNCHANGED <<handler, refused, inUse, wires, wants, writer>>

----------------------------------------------------------------------------
\* serve_connection

\* recv.  A call sent before its client died is still received.
Takes(k) ==
    /\ handler[k] = "recv"
    /\ request[k] # Nobody
    /\ handler' = [handler EXCEPT ![k] = "invoke"]
    /\ UNCHANGED <<link, refused, inUse, wires, threads, writer>>

\* _ensure_capacity.
MustReplace(n) == segment = 0 \/ n > size

\* SharedFrameWriter.publish: the segment is replaced, or written again.
Publishes(t, n) ==
    /\ content' = t
    /\ IF MustReplace(n)
       THEN segment < MaxSegments /\ segment' = segment + 1 /\ size' = n
       ELSE UNCHANGED <<segment, size>>

\* SharedFrameWriter.close, after the device's own: the segment is unlinked, and what is in
\* it not written again.
Retires ==
    /\ size' = 0
    /\ UNCHANGED <<segment, content>>

\* Mutated form: a refused connection is not answered.
RefusesSilently(k, name) ==
    /\ request' = [request EXCEPT ![k] = Nobody]
    /\ answer' = [answer EXCEPT ![k] = IF k \in refused THEN Nobody ELSE request[k]]
    /\ named' = [named EXCEPT ![k] = name]
    /\ handler' = [handler EXCEPT ![k] = IF link[k] = "open" THEN "recv" ELSE "ended"]

\* A reply goes out, or is lost with its client.
Replies(k, name) ==
    /\ request' = [request EXCEPT ![k] = Nobody]
    /\ IF link[k] = "open"
       THEN /\ answer' = [answer EXCEPT ![k] = request[k]]
            /\ named' = [named EXCEPT ![k] = name]
            /\ handler' = [handler EXCEPT ![k] = "recv"]
       ELSE /\ UNCHANGED <<answer, named>>
            /\ handler' = [handler EXCEPT ![k] = "ended"]

\* invoke: a frame through the segment; the target's close; or something small, or an error; or, to a
\* connection that lost the race for the target, the reason.
Invokes(k) ==
    /\ handler[k] = "invoke"
    /\ LET t == request[k] IN
       \/ /\ k \notin refused /\ wants[t] = "frame"
          /\ \E n \in 1 .. MaxSize : Publishes(t, n)
          /\ Replies(k, segment')
       \/ /\ k \notin refused /\ wants[t] = "close"
          /\ Retires
          /\ Replies(k, 0)
       \/ /\ Replies(k, 0)
          /\ UNCHANGED writer
    /\ UNCHANGED <<link, refused, inUse, threads>>

\* recv raises.
SeesEOF(k) == link[k] = "gone" /\ handler[k] = "recv" /\ request[k] = Nobody

\* The finally of serve_connection, after which the client may connect again.
Ends(k) ==
    /\ SeesEOF(k) \/ handler[k] = "ended"
    /\ inUse' = IF inUse = k THEN Nobody ELSE inUse
    /\ refused' = refused \ {k}
    /\ link' = [link EXCEPT ![k] = "none"]
    /\ handler' = [handler EXCEPT ![k] = "none"]
    /\ request' = [request EXCEPT ![k] = Nobody]
    /\ answer' = [answer EXCEPT ![k] = Nobody]
    /\ named' = [named EXCEPT ![k] = 0]
    /\ UNCHANGED <<threads, writer>>

----------------------------------------------------------------------------
Thread(t) == Calls(t) \/ LocksFrame(t) \/ Sends(t) \/ Receives(t) \/ CopiesOut(t)
Server(k) == Takes(k) \/ Invokes(k) \/ Ends(k)

Next ==
    \/ \E t \in Threads : Thread(t)
    \/ \E k \in Clients : Server(k) \/ Connects(k) \/ Vanishes(k)

Spec == Init /\ [][Next]_vars

\* Handler threads are scheduled, a device call returns, and a thread whose reply has
\* come goes on.  Of who gets a lock that is free, nothing is assumed.
Fairness ==
    /\ \A t \in Threads : WF_vars(Receives(t)) /\ WF_vars(CopiesOut(t))
    /\ \A k \in Clients : WF_vars(Server(k))

FairSpec == Spec /\ Fairness

----------------------------------------------------------------------------
\* Every variable has its type.
TypeOK ==
    /\ link \in [Clients -> Links]
    /\ handler \in [Clients -> HandlerPoints]
    /\ refused \subseteq Clients
    /\ inUse \in Clients \cup {Nobody}
    /\ request \in [Clients -> Threads \cup {Nobody}]
    /\ answer \in [Clients -> Threads \cup {Nobody}]
    /\ named \in [Clients -> 0 .. MaxSegments]
    /\ pc \in [Threads -> Points]
    /\ wants \in [Threads -> {"value", "frame", "close"}]
    /\ lock \in [Clients -> Threads \cup {Nobody}]
    /\ frameLock \in [Clients -> Threads \cup {Nobody}]
    /\ ref \in [Threads -> 0 .. MaxSegments]
    /\ segment \in 0 .. MaxSegments
    /\ size \in 0 .. MaxSize
    /\ content \in Threads \cup {Nobody}

\* rpc.py: a round trip must not interleave with another on one connection.  The reply a
\* thread is about to take is the answer to its own call.
AnswerIsMine ==
    \A t \in Threads : LET k == ProcessOf[t] IN
        (pc[t] = "wait" /\ answer[k] # Nobody) => answer[k] = t

\* remote.py:995: the next call of another thread, or of another client, must not
\* overwrite the segment this one is still reading.  A thread copies its own frame, out of
\* the writer's last segment, though a close, which takes no frame lock, may retire that
\* segment under the copy.
FrameIsMine ==
    \A t \in Threads : pc[t] = "copy" => ref[t] = segment /\ content = t

\* serving.py: a frame-producing target admits one connection at a time, so that only one
\* request of the admitted is at the device at once.
OneAtTheDevice ==
    Cardinality({k \in Clients : handler[k] = "invoke" /\ k \notin refused}) <= 1

\* serving.py: a client that lost the race for a target is served, not dropped, "so the
\* client gets a diagnosis on its first call": every call sent is answered, or ends with
\* its process, and with it the locks its thread holds.
SentIsAnswered == \A t \in Threads : (pc[t] = "wait") ~> (pc[t] # "wait")

=============================================================================
