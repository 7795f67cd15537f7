------------------------------ MODULE BrokerServer ------------------------------
(***************************************************************************)
(* broker/server.py: a listener, one handler thread per connection, the     *)
(* leases each connection took, the shared-memory writer of each target,    *)
(* and the order in which app.py closes all of it.  The other end of a      *)
(* connection is a RemoteBroker (broker/remote.py), which sends one call at *)
(* a time and copies a frame out of its target's segment after the reply.   *)
(*                                                                          *)
(* The broker behind the server is the promise of LeaseTable: custody taken *)
(* whole and given back whole.  Module Broker says how LocalBroker keeps    *)
(* it, and what happens between the steps that are one here.                *)
(***************************************************************************)
EXTENDS Integers, FiniteSets

CONSTANTS
    Conns,          \* connections, each with the process at its other end
    Targets,        \* targets that can be leased and run a live loop
    LeaseIds,
    NoLease, NoConn, NoTarget,
    Poisoned,       \* targets whose restart raises out of release()
    LateCalls       \* whether clients go on calling once the server is told to stop

ASSUME ServerAssumption ==
    /\ NoLease \notin LeaseIds
    /\ NoConn \notin Conns
    /\ NoTarget \notin Targets
    /\ Poisoned \subseteq Targets
    /\ LateCalls \in BOOLEAN

VARIABLES
    owner,      \* the broker's claims
    table,      \* the broker's leases
    lapsed,     \* the leases whose deadline has passed
    restarts,   \* Lease.restarts, of every lease
    loops,      \* targets with a live loop
    peer,       \* what the process at the other end is doing
    inbox,      \* connections with a call sent and not received
    conn,       \* where each handler thread is in _serve
    granted,    \* its local `granted`: the leases it will release
    due,        \* the lapsed leases its call found and has yet to reclaim
    using,      \* the target of the device call it is making
    copying,    \* the target whose segment the client is to copy its frame from
    writers,    \* self._writers
    shown,      \* whose frame each target's segment holds, NoConn when there is no segment
    phase,      \* of the shutdown: server.close(), then broker.close()
    taken,      \* history: connections whose lease was reclaimed under the call, or its copy
    late        \* history: targets whose segment was last written by such a call

broker == <<owner, table, lapsed, restarts, loops>>
client == <<peer, inbox, copying>>
handler == <<conn, granted, due, using>>
frames == <<writers, shown>>
history == <<taken, late>>
vars == <<broker, client, handler, frames, phase, history>>

Table == INSTANCE LeaseTable

PeerStates == {"none", "idle", "waiting", "copying", "gone"}
ConnPoints == {"none", "recv", "dispatch", "swept", "device", "reply", "hangup", "ended"}
Phases == {"serving", "joining", "retired", "parked"}

\* self._stop.
Stopping == phase # "serving"

Init ==
    /\ Table!TableInit
    /\ table = {}
    /\ lapsed = {}
    /\ restarts = [l \in LeaseIds |-> {}]
    /\ loops = {}
    /\ peer = [c \in Conns |-> "none"]
    /\ inbox = {}
    /\ conn = [c \in Conns |-> "none"]
    /\ granted = [c \in Conns |-> {}]
    /\ due = [c \in Conns |-> {}]
    /\ using = [c \in Conns |-> NoTarget]
    /\ copying = [c \in Conns |-> NoTarget]
    /\ writers = {}
    /\ shown = [t \in Targets |-> NoConn]
    /\ phase = "serving"
    /\ taken = {}
    /\ late = {}

Goes(c, point) == conn' = [conn EXCEPT ![c] = point]

----------------------------------------------------------------------------
\* The client

\* Client(address), accepted, and given a handler thread.
Connects(c) ==
    /\ ~Stopping
    /\ conn[c] = "none"
    /\ Goes(c, "recv")
    /\ peer' = [peer EXCEPT ![c] = "idle"]
    /\ UNCHANGED <<broker, due, inbox, granted, using, copying, frames, phase, history>>

Sends(c) ==
    /\ LateCalls \/ ~Stopping
    /\ peer[c] = "idle"
    /\ conn[c] # "ended"
    /\ peer' = [peer EXCEPT ![c] = "waiting"]
    /\ inbox' = inbox \cup {c}
    /\ UNCHANGED <<broker, handler, copying, frames, phase, history>>

\* The end of _frame: the array is copied out of the segment the reply names.
CopiesOut(c) ==
    /\ peer[c] = "copying"
    /\ peer' = [peer EXCEPT ![c] = "idle"]
    /\ copying' = [copying EXCEPT ![c] = NoTarget]
    /\ taken' = taken \ {c}
    /\ UNCHANGED <<broker, handler, inbox, frames, phase, late>>

\* close(), or the process dies.  A call already sent still reaches the server.
Vanishes(c) ==
    /\ peer[c] \in {"idle", "waiting", "copying"}
    /\ peer' = [peer EXCEPT ![c] = "gone"]
    /\ copying' = [copying EXCEPT ![c] = NoTarget]
    /\ UNCHANGED <<broker, handler, inbox, frames, phase, history>>

----------------------------------------------------------------------------
\* The broker

Lapse(l) ==
    /\ l \in table \ lapsed
    /\ lapsed' = lapsed \cup {l}
    /\ UNCHANGED <<owner, table, restarts, loops, client, handler, frames, phase, history>>

\* Mutated form: the claims are given back and the lease left in the table.
KeepsLease(l) ==
    IF l \in table THEN Table!Drop(l) /\ UNCHANGED <<table, lapsed, restarts, loops>>
    ELSE UNCHANGED broker

\* A restart raises out of release(), after the lease is gone, leaving the rest undone.
Raises(l) == l \in table /\ restarts[l] \cap Poisoned # {}

\* release() pops the lease, frees its claims and restarts its loops, if it stood.
Releases(l) ==
    IF l \in table
    THEN /\ Table!Drop(l)
         /\ table' = table \ {l}
         /\ lapsed' = lapsed \ {l}
         /\ \E again \in SUBSET (restarts[l] \ Poisoned) :
              /\ Raises(l) \/ again = restarts[l]
              /\ loops' = loops \cup again
         /\ UNCHANGED restarts
    ELSE UNCHANGED broker

----------------------------------------------------------------------------
\* _serve and what it dispatches

\* recv() returns a call, which may be the last thing its sender did.
Receives(c) ==
    /\ conn[c] = "recv"
    /\ c \in inbox
    /\ inbox' = inbox \ {c}
    /\ Goes(c, "dispatch")
    /\ UNCHANGED <<broker, due, peer, granted, using, copying, frames, phase, history>>

\* recv() raises EOFError.
SeesEOF(c) ==
    /\ conn[c] = "recv"
    /\ c \notin inbox
    /\ peer[c] = "gone"
    /\ Goes(c, "hangup")
    /\ UNCHANGED <<broker, due, client, granted, using, frames, phase, history>>

\* _reclaim_expired, with which every broker call but release begins: the deadlines are
\* read once, the lapsed leases released one after the other.
Sweeps(c) ==
    /\ conn[c] = "dispatch"
    /\ due' = [due EXCEPT ![c] = table \cap lapsed]
    /\ Goes(c, "swept")
    /\ UNCHANGED <<broker, client, granted, using, frames, phase, history>>

\* The connections whose call, or the copying of whose frame, goes on under the lease.
Under(l) ==
    {c \in Conns : l \in granted[c] /\ \E t \in {using[c], copying[c]} \ {NoTarget} : owner[t] = l}

\* A restart that raises breaks the sweep off, and is the answer to a call of the broker;
\* it ends the thread of a call to a device, whose check catches the broker's errors only.
SweepOne(c) ==
    /\ conn[c] = "swept"
    /\ \E l \in due[c] :
        /\ Releases(l)
        /\ due' = [due EXCEPT ![c] = IF Raises(l) THEN {} ELSE due[c] \ {l}]
        /\ IF Raises(l) THEN Goes(c, "reply") \/ Goes(c, "hangup") ELSE UNCHANGED conn
        /\ taken' = taken \cup Under(l)
    /\ UNCHANGED <<client, granted, using, frames, phase, late>>

\* The body of the call begins.
Ready(c) == conn[c] = "swept" /\ due[c] = {}

\* start_live: a loop on a target nobody has leased.
StartLive(c) ==
    /\ Ready(c)
    /\ \E t \in Targets : owner[t] = NoLease /\ loops' = loops \cup {t}
    /\ Goes(c, "reply")
    /\ UNCHANGED <<due, owner, table, lapsed, restarts, client, granted, using, frames, phase, history>>

\* grant, and the id its answer adds to `granted`.
Grant(c) ==
    /\ Ready(c)
    /\ \E l \in LeaseIds, ts \in (SUBSET Targets) \ {{}} :
        /\ l \notin table /\ \A d \in Conns : l \notin granted[d] \cup due[d]
        /\ Table!Acquire(l, ts)
        /\ table' = table \cup {l}
        /\ restarts' = [restarts EXCEPT ![l] = ts \cap loops]
        /\ loops' = loops \ ts
        /\ granted' = [granted EXCEPT ![c] = granted[c] \cup {l}]
    /\ Goes(c, "reply")
    /\ UNCHANGED <<due, lapsed, client, using, frames, phase, history>>

\* renew.
Renew(c) ==
    /\ Ready(c)
    /\ \E l \in granted[c] \cap table : lapsed' = lapsed \ {l}
    /\ Goes(c, "reply")
    /\ UNCHANGED <<due, owner, table, restarts, loops, client, granted, using, frames, phase, history>>

\* A refusal, or a call that only reads.
Answered(c) ==
    /\ Ready(c)
    /\ Goes(c, "reply")
    /\ UNCHANGED <<broker, due, client, granted, using, frames, phase, history>>

\* Mutated form: a lease once granted is believed to stand.
BelievesLease(c, t) == granted[c] # {}

\* check_lease, and the target looked for in the lease it answers.
MayCall(c, t) == \E l \in granted[c] \cap table : owner[t] = l

\* _device_call up to the device: the lease is checked and the target's writer made.
DeviceCall(c) ==
    /\ Ready(c)
    /\ \E t \in Targets :
        /\ MayCall(c, t)
        /\ using' = [using EXCEPT ![c] = t]
        /\ writers' = writers \cup {t}
    /\ Goes(c, "device")
    /\ UNCHANGED <<broker, due, client, granted, shown, phase, history>>

\* invoke: the device answers with a frame, published in the target's segment, which a
\* writer closed in the meantime makes anew; or with something small, or raises.
DeviceReturns(c) ==
    /\ conn[c] = "device"
    /\ \/ /\ shown' = [shown EXCEPT ![using[c]] = c]
          /\ late' = IF c \in taken THEN late \cup {using[c]} ELSE late \ {using[c]}
          /\ UNCHANGED using
       \/ using' = [using EXCEPT ![c] = NoTarget] /\ UNCHANGED <<shown, late>>
    /\ Goes(c, "reply")
    /\ UNCHANGED <<broker, due, client, granted, writers, phase, taken>>

\* release, which does not sweep.  When it raises, the id stays in `granted`.
Release(c) ==
    /\ conn[c] = "dispatch"
    /\ \E l \in granted[c] :
        /\ Releases(l)
        /\ granted' = IF Raises(l) THEN granted
                      ELSE [granted EXCEPT ![c] = granted[c] \ {l}]
    /\ Goes(c, "reply")
    /\ UNCHANGED <<due, client, using, frames, phase, history>>

\* Mutated form: a reply nobody takes ends the thread there and then.
SkipsFinally == "ended"

\* return, from inside the try.
AfterBrokenReply == "hangup"

\* send(result), and the test of `while not self._stop.is_set()`.
Replies(c) ==
    /\ conn[c] = "reply"
    /\ \/ /\ peer[c] = "waiting"
          /\ peer' = [peer EXCEPT ![c] = IF using[c] = NoTarget THEN "idle" ELSE "copying"]
          /\ copying' = [copying EXCEPT ![c] = using[c]]
          /\ Goes(c, IF Stopping THEN "hangup" ELSE "recv")
       \/ /\ peer[c] = "gone"
          /\ Goes(c, AfterBrokenReply)
          /\ UNCHANGED <<peer, copying>>
    /\ using' = [using EXCEPT ![c] = NoTarget]
    /\ taken' = IF copying'[c] = NoTarget THEN taken \ {c} ELSE taken
    /\ UNCHANGED <<broker, due, inbox, granted, frames, phase, late>>

\* The finally of _serve.  A release that raises leaves the loop and ends the thread.
HangsUp(c) ==
    /\ conn[c] = "hangup"
    /\ \E l \in granted[c] :
        /\ Releases(l)
        /\ granted' = [granted EXCEPT ![c] = granted[c] \ {l}]
        /\ IF Raises(l) THEN Goes(c, "ended") ELSE UNCHANGED conn
    /\ UNCHANGED <<due, client, using, frames, phase, history>>

\* Disconnected: whatever the client had sent is lost, and its next call with it.
Ends(c) ==
    /\ conn[c] = "hangup"
    /\ granted[c] = {}
    /\ Goes(c, "ended")
    /\ inbox' = inbox \ {c}
    /\ peer' = [peer EXCEPT ![c] = "gone"]
    /\ copying' = [copying EXCEPT ![c] = NoTarget]
    /\ UNCHANGED <<broker, due, granted, using, frames, phase, history>>

----------------------------------------------------------------------------
\* The shutdown: server.close() and then broker.close()

StopBegins ==
    /\ phase = "serving"
    /\ phase' = "joining"
    /\ UNCHANGED <<broker, client, handler, frames, history>>

\* Every handler joined, or given up on after its second; then the writers.
Retires ==
    /\ phase = "joining"
    /\ shown' = [t \in Targets |-> IF t \in writers THEN NoConn ELSE shown[t]]
    /\ writers' = {}
    /\ late' = late \ writers
    /\ phase' = "retired"
    /\ UNCHANGED <<broker, client, handler, taken>>

\* Every loop stopped and the instrument parked.
Parks ==
    /\ phase = "retired"
    /\ loops' = {}
    /\ phase' = "parked"
    /\ UNCHANGED <<owner, table, lapsed, restarts, client, handler, frames, history>>

----------------------------------------------------------------------------
Handler(c) ==
    \/ Receives(c) \/ SeesEOF(c) \/ Sweeps(c) \/ SweepOne(c)
    \/ StartLive(c) \/ Grant(c) \/ Renew(c) \/ Answered(c) \/ Release(c)
    \/ DeviceCall(c) \/ DeviceReturns(c) \/ Replies(c) \/ HangsUp(c) \/ Ends(c)

Peer(c) == Connects(c) \/ Sends(c) \/ CopiesOut(c) \/ Vanishes(c)

Next ==
    \/ \E c \in Conns : Handler(c) \/ Peer(c)
    \/ \E l \in LeaseIds : Lapse(l)
    \/ StopBegins \/ Retires \/ Parks

Spec == Init /\ [][Next]_vars

\* Handler threads are scheduled and device calls return.  Nothing is assumed of the
\* clients, nor that the server is ever told to stop.
FairSpec == Spec /\ \A c \in Conns : WF_vars(Handler(c))

----------------------------------------------------------------------------
\* Every variable has its type.
TypeOK ==
    /\ owner \in [Targets -> LeaseIds \cup {NoLease}]
    /\ table \subseteq LeaseIds
    /\ lapsed \subseteq table
    /\ restarts \in [LeaseIds -> SUBSET Targets]
    /\ loops \subseteq Targets
    /\ peer \in [Conns -> PeerStates]
    /\ inbox \subseteq Conns
    /\ conn \in [Conns -> ConnPoints]
    /\ granted \in [Conns -> SUBSET LeaseIds]
    /\ due \in [Conns -> SUBSET LeaseIds]
    /\ using \in [Conns -> Targets \cup {NoTarget}]
    /\ copying \in [Conns -> Targets \cup {NoTarget}]
    /\ writers \subseteq Targets
    /\ shown \in [Targets -> Conns \cup {NoConn}]
    /\ phase \in Phases
    /\ taken \subseteq Conns
    /\ late \subseteq Targets

\* server.py:244: a client that hangs up has not released its leases, so its handler
\* does.  Every lease of the table is one that some running handler will release: none
\* outlives its connection by even a step.
LeasesHaveAHandler ==
    \A l \in table : \E c \in Conns : l \in granted[c] /\ conn[c] # "ended"

\* server.py:204: one writer per target is safe because only the lease holder can call
\* the target.  The segment a client copies from holds the frame it was answered with,
\* whoever else lapses, hangs up or calls, and in a server that closes; but where the
\* lease was reclaimed under the call or the copy, and until the next frame after a call
\* that outlived its lease.
FrameIsOwn ==
    \A c \in Conns : copying[c] # NoTarget /\ c \notin taken /\ copying[c] \notin late =>
        shown[copying[c]] \in {c, NoConn}

\* The same of every copy.  The code does not keep it: a renewal waits behind the call, so
\* a lease can lapse in it and its target, segment included, go to another.
EveryFrameIsOwn ==
    \A c \in Conns : copying[c] # NoTarget => shown[copying[c]] \in {c, NoConn}

\* app.py: the broker is closed "After the server, so no client can take a lease on an
\* instrument that is on its way to being parked".  Once parked, no loop runs and no
\* lease is granted.
ParkedStaysParked ==
    [][phase = "parked" => loops' = {} /\ table' \subseteq table]_vars

\* A connection that closed lets go of its leases, long before they lapse.
GoneLetsGo ==
    \A c \in Conns : \A l \in LeaseIds :
        (peer[c] = "gone" /\ l \in granted[c]) ~> (l \notin table)

=============================================================================
