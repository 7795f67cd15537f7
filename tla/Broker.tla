--------------------------------- MODULE Broker ---------------------------------
(***************************************************************************)
(* broker/local.py: the LocalBroker that arbitrates one instrument's        *)
(* targets between clients.  A client is a thread inside a broker call: one *)
(* handler thread of the server, or the script that owns the broker.        *)
(*                                                                          *)
(* Each action is one stretch of code that nothing can divide: a body of    *)
(* `with self._lock`, a read made outside the lock, or a device call.  The  *)
(* waits between them - joining a worker, calling a device - are points of  *)
(* pc, so that every interleaving of clients with one another and with the  *)
(* workers of the live loops is a behaviour.                                *)
(*                                                                          *)
(* A live loop is what LiveAcquisition shows it to be: a worker that drives *)
(* one target, pass after pass, until it is doomed (its stop event is set)  *)
(* and the pass in flight ends, or until a grab raises.  The lengths of     *)
(* passes and deadlines matter only as short and long: a wait that is short *)
(* gives up on a pass that is long.  A deadline of a lease is a flag,       *)
(* lapsed, that time may raise at any moment and a renewal lowers.          *)
(***************************************************************************)
EXTENDS Integers, FiniteSets

CONSTANTS
    Clients,        \* threads that call the broker
    Pollers,        \* those that call it again and again, from a timer
    Cameras,        \* targets whose loop needs camera.start() and camera.stop()
    Scanners,       \* targets whose loop needs scan parameters
    Instruments,    \* targets that are leased and read but run no loop
    Rank,           \* each target's place in LEASE_ORDER
    LeaseIds,       \* uuids: an id in use is never given again
    LoopIds,        \* LiveAcquisition objects; bounds the threads there can be
    NoLease, NoTarget, NoLoop,
    SlowCameras,    \* cameras whose exposure can outlast the join timeout
    FaultyCameras,  \* cameras whose start() or stop() may raise
    Geometries,     \* scan geometries clients ask for, among short, long, unset
    Ops             \* what the clients of an instance do

Targets == Cameras \cup Scanners \cup Instruments

AllOps == {"start", "stop", "reconfigure", "grant", "renew", "call", "peek", "expire",
           "fail"}

ASSUME TargetAssumption ==
    /\ Cameras \cap Scanners = {}
    /\ (Cameras \cup Scanners) \cap Instruments = {}
    /\ NoTarget \notin Targets
    /\ SlowCameras \subseteq Cameras
    /\ FaultyCameras \subseteq Cameras

\* A total order of finitely many targets: every set of them has a first and a last.
ASSUME RankAssumption ==
    /\ Rank \in [Targets -> Nat]
    /\ \A s, t \in Targets : Rank[s] = Rank[t] => s = t
    /\ \A S \in SUBSET Targets : S # {} =>
        /\ \E t \in S : \A s \in S : Rank[t] <= Rank[s]
        /\ \E t \in S : \A s \in S : Rank[s] <= Rank[t]

ASSUME IdAssumption ==
    /\ NoLease \notin LeaseIds
    /\ NoLoop \notin LoopIds

ASSUME ChoiceAssumption ==
    /\ Geometries \subseteq {"short", "long", "unset"}
    /\ Ops \subseteq AllOps
    /\ Pollers \subseteq Clients

VARIABLES
    claims,      \* self._claims
    granted,     \* the keys of self._leases
    lapsed,      \* the leases whose expires_at has passed
    holding,     \* Lease.targets, of every id ever given
    restarts,    \* Lease.restarts, likewise
    specs,       \* self._specs: the geometry, "none" when there is no entry
    current,     \* self._loops
    drives,      \* the target each live worker drives
    pass,        \* the length of the pass each worker has in flight
    doomed,      \* loops whose stop event is set
    powered,     \* cameras between a start() and a stop()
    pc,          \* where each client is
    call,        \* the locals of the client's call
    held,        \* the lease the client was granted and has not released
    wanted,      \* history: targets started and not since stopped, given up on or failed
    raced        \* history: targets on which one client overtook another's check

tableVars == <<claims, granted, lapsed, holding, restarts>>
loopVars == <<current, drives, pass, doomed, powered>>
history == <<wanted, raced>>
vars == <<claims, granted, lapsed, holding, restarts, specs, current, drives, pass,
          doomed, powered, pc, call, held, wanted, raced>>

Points == {"idle", "sweep", "swept", "restart", "grant", "stop", "join", "halt",
           "undo", "renew", "calling", "peeking", "KeyError"}
Jobs == {"none", "sweep", "release", "grant", "live"}
Lengths == {"short", "long"}
Specs == Lengths \cup {"none", "unset"}

\* The locals of one call: what it sweeps, the targets it has left to deal with, and
\* of a grant or a stop what it has stopped, wants, and waits for.
Calls == [job : Jobs, sweep : SUBSET LeaseIds, left : SUBSET Targets,
          stopped : SUBSET Targets, want : SUBSET Targets, lease : LeaseIds \cup {NoLease},
          loop : LoopIds \cup {NoLoop}, due : Lengths]

NoCall == [job |-> "none", sweep |-> {}, left |-> {}, stopped |-> {}, want |-> {},
           lease |-> NoLease, loop |-> NoLoop, due |-> "short"]

\* lease_order: the kinds in LEASE_ORDER, then the names, as the total order Rank.
First(S) == CHOOSE t \in S : \A s \in S : Rank[t] <= Rank[s]
Last(S) == CHOOSE t \in S : \A s \in S : Rank[s] <= Rank[t]

Live(l) == l # NoLoop /\ drives[l] # NoTarget

\* loop is not None and loop.is_running, for self._loops.get(t).
Running(t) == Live(current[t])

Unclaimed(t) == claims[t] = NoLease

Init ==
    /\ claims = [t \in Targets |-> NoLease]
    /\ granted = {}
    /\ lapsed = {}
    /\ holding = [l \in LeaseIds |-> {}]
    /\ restarts = [l \in LeaseIds |-> {}]
    /\ specs = [t \in Targets |-> "none"]
    /\ current = [t \in Targets |-> NoLoop]
    /\ drives = [l \in LoopIds |-> NoTarget]
    /\ pass = [l \in LoopIds |-> "short"]
    /\ doomed = {}
    /\ powered = {}
    /\ pc = [c \in Clients |-> "idle"]
    /\ call = [c \in Clients |-> NoCall]
    /\ held = [c \in Clients |-> NoLease]
    /\ wanted = {} /\ raced = {}

----------------------------------------------------------------------------
\* The worker of a live loop: LiveAcquisition._run over the broker's grabs

\* The pass a worker is about to make: _scan_pass reads the spec of the moment.
PassUnder(t, spec) == IF t \in Scanners /\ spec = "long" THEN "long" ELSE "short"

Die(l) ==
    /\ drives' = [drives EXCEPT ![l] = NoTarget]
    /\ pass' = [pass EXCEPT ![l] = "short"]
    /\ doomed' = doomed \ {l}

\* A pass ends.  A doomed worker ends with it; one whose scan parameters have gone
\* raises in its next grab; any other begins a pass under the current spec.
PassEnds(l) ==
    /\ Live(l)
    /\ LET t == drives[l] IN
       IF l \in doomed \/ (t \in Scanners /\ specs[t] = "unset")
       THEN Die(l) /\ wanted' = IF l \in doomed THEN wanted ELSE wanted \ {t}
       ELSE /\ pass' = [pass EXCEPT ![l] = PassUnder(t, specs[t])]
            /\ UNCHANGED <<drives, doomed, wanted>>
    /\ UNCHANGED <<claims, granted, lapsed, holding, restarts, specs, current,
                   powered, pc, call, held, raced>>

GrabRaises(l) ==
    /\ "fail" \in Ops
    /\ Live(l)
    /\ Die(l)
    /\ wanted' = wanted \ {drives[l]}
    /\ UNCHANGED <<claims, granted, lapsed, holding, restarts, specs, current,
                   powered, pc, call, held, raced>>

\* Time passes a lease's deadline.
Lapse(l) ==
    /\ "expire" \in Ops
    /\ l \in granted \ lapsed
    /\ lapsed' = lapsed \cup {l}
    /\ UNCHANGED <<claims, granted, holding, restarts, specs, loopVars, pc, call,
                   held, history>>

----------------------------------------------------------------------------
\* Shared steps of a call

\* The call returns to its client, or an exception does.
Return(c) ==
    /\ pc' = [pc EXCEPT ![c] = "idle"]
    /\ call' = [call EXCEPT ![c] = NoCall]

\* A LiveAcquisition nothing refers to any more stands for a new object.
NewLoops == {l \in LoopIds :
    /\ drives[l] = NoTarget
    /\ \A t \in Targets : current[t] # l
    /\ \A c \in Clients : call[c].loop # l}

\* Mutated form: the new loop grabs from a camera nobody started.
StartsCold(t, spec) == \E l \in NewLoops :
    /\ current' = [current EXCEPT ![t] = l]
    /\ drives' = [drives EXCEPT ![l] = t]
    /\ pass' = [pass EXCEPT ![l] = PassUnder(t, spec)]
    /\ UNCHANGED <<powered, doomed>>

\* The part of _start_locked past its refusals: camera.start(), a new loop in
\* self._loops, and its worker.  It replaces whatever loop the target had.
StartLoop(t, spec) == \E l \in NewLoops :
    /\ current' = [current EXCEPT ![t] = l]
    /\ drives' = [drives EXCEPT ![l] = t]
    /\ pass' = [pass EXCEPT ![l] = PassUnder(t, spec)]
    /\ powered' = powered \cup ({t} \cap Cameras)
    /\ UNCHANGED doomed

\* A RuntimeError either way: camera.start() raises; or Thread.start does, for want of
\* a thread (which is what the bound on LoopIds stands for), with the camera started
\* and the loop that never ran already in self._loops.
FailsToStart(t) ==
    \/ t \in FaultyCameras /\ UNCHANGED loopVars
    \/ /\ NewLoops = {}
       /\ current' = [current EXCEPT ![t] = NoLoop]
       /\ powered' = powered \cup ({t} \cap Cameras)
       /\ UNCHANGED <<drives, pass, doomed>>

\* A scanner with no parameters is a ValueError.
Refuses(t, spec) == t \in Scanners /\ spec = "unset"

----------------------------------------------------------------------------
\* _reclaim_expired, with which every call but release() begins, and release()

\* The deadlines are read under the lock; the releases come after it.
CallBegins(c) ==
    /\ pc[c] = "idle"
    /\ LET expired == granted \cap lapsed IN
       /\ call' = [call EXCEPT ![c] = [NoCall EXCEPT !.job = "sweep", !.sweep = expired]]
       /\ pc' = [pc EXCEPT ![c] = IF expired = {} THEN "swept" ELSE "sweep"]
    /\ UNCHANGED <<tableVars, specs, loopVars, held, history>>

\* Mutated form: claims are dropped by target, whoever has them by now.
DropsByTarget(l) ==
    /\ granted' = granted \ {l}
    /\ lapsed' = lapsed \ {l}
    /\ claims' = [t \in Targets |-> IF t \in holding[l] THEN NoLease ELSE claims[t]]

\* The locked part of release(): the lease is popped, and of its targets those
\* whose claim is still this lease's are freed.
DropLease(l) ==
    /\ granted' = granted \ {l}
    /\ lapsed' = lapsed \ {l}
    /\ claims' = [t \in Targets |->
                    IF t \in holding[l] /\ claims[t] = l THEN NoLease ELSE claims[t]]

\* Mutated form: the popped lease's loops are not restarted.
NothingToRestart(l) == {}

ToRestart(l) == IF l \in granted THEN restarts[l] ELSE {}

AfterSweep(rest) == IF rest = {} THEN "swept" ELSE "sweep"

\* The targets of a lease that its holder's calls are in.
CalledUnder(l) == {t \in holding[l] :
    \E c \in Clients : pc[c] = "calling" /\ held[c] = l /\ t \in call[c].left}

SweepOne(c) ==
    /\ pc[c] = "sweep"
    /\ \E l \in call[c].sweep :
        LET rest == call[c].sweep \ {l}
            todo == ToRestart(l) IN
        /\ IF l \in granted THEN DropLease(l) ELSE UNCHANGED <<granted, lapsed, claims>>
        /\ call' = [call EXCEPT ![c] = [NoCall EXCEPT !.job = "sweep", !.sweep = rest,
                                                      !.left = todo]]
        /\ pc' = [pc EXCEPT ![c] = IF todo = {} THEN AfterSweep(rest) ELSE "restart"]
        /\ raced' = raced \cup (IF l \in granted THEN CalledUnder(l) ELSE {})
    /\ UNCHANGED <<holding, restarts, specs, loopVars, held, wanted>>

Release(c) ==
    /\ pc[c] = "idle"
    /\ held[c] # NoLease
    /\ LET l == held[c]
           todo == ToRestart(l) IN
       /\ IF l \in granted THEN DropLease(l) ELSE UNCHANGED <<granted, lapsed, claims>>
       /\ call' = [call EXCEPT ![c] = IF todo = {} THEN NoCall ELSE
                                        [NoCall EXCEPT !.job = "release", !.left = todo]]
       /\ pc' = [pc EXCEPT ![c] = IF todo = {} THEN "idle" ELSE "restart"]
    /\ held' = [held EXCEPT ![c] = NoLease]
    /\ UNCHANGED <<holding, restarts, specs, loopVars, history>>

----------------------------------------------------------------------------
\* _restart: one locked step per target, the last of LEASE_ORDER first.  Neither
\* claims nor a loop that may already run are looked at.

\* Where the call goes when the last restart is done.
AfterRestart(c) ==
    CASE call[c].job = "sweep" -> AfterSweep(call[c].sweep)
      [] call[c].job = "grant" -> "undo"
      [] OTHER                 -> "idle"

\* Somebody has started, or but for a grant's own claims taken, what is to run again.
IsTaken(c, t) == Running(t) \/ (call[c].job # "grant" /\ ~Unclaimed(t))

RestartOne(c) ==
    /\ pc[c] = "restart"
    /\ LET t == Last(call[c].left)
           rest == call[c].left \ {t} IN
       /\ ~Refuses(t, specs[t])
       /\ \/ specs[t] # "none" /\ StartLoop(t, specs[t]) /\ UNCHANGED wanted
          \* The RuntimeError is swallowed.
          \/ specs[t] # "none" /\ FailsToStart(t) /\ wanted' = wanted \ {t}
          \/ specs[t] = "none" /\ UNCHANGED <<loopVars, wanted>>
       /\ raced' = IF IsTaken(c, t) THEN raced \cup {t} ELSE raced
       /\ pc' = [pc EXCEPT ![c] = IF rest = {} THEN AfterRestart(c) ELSE "restart"]
       /\ call' = [call EXCEPT ![c] =
                     IF rest = {} /\ AfterRestart(c) = "idle" THEN NoCall
                     ELSE [@ EXCEPT !.left = rest]]
    /\ UNCHANGED <<tableVars, specs, held>>

\* The ValueError of _start_locked is not a RuntimeError: it leaves _restart, and
\* whichever call was running it, with the rest undone.
RestartRaises(c) ==
    /\ pc[c] = "restart"
    /\ LET t == Last(call[c].left) IN Refuses(t, specs[t])
    /\ Return(c)
    /\ raced' = raced \cup call[c].left
    /\ UNCHANGED <<tableVars, specs, loopVars, held, wanted>>

----------------------------------------------------------------------------
\* start_live, reconfigure_live

\* _refuse_if_leased, target after target.  The claim of a grant still stopping its
\* loops names a lease not in self._leases yet: looking it up raises KeyError.
RefusedByClaim(c, ts) ==
    LET taken == {t \in ts : ~Unclaimed(t)} IN
    /\ taken # {}
    /\ call' = [call EXCEPT ![c] = NoCall]
    /\ pc' = [pc EXCEPT ![c] =
                IF claims[First(taken)] \in granted THEN "idle" ELSE "KeyError"]
    /\ UNCHANGED <<tableVars, specs, loopVars, held, history>>

\* The KeyError reaches the caller.
KeyErrorCaught(c) ==
    /\ pc[c] = "KeyError"
    /\ Return(c)
    /\ UNCHANGED <<tableVars, specs, loopVars, held, history>>

SpecChoices(t) == IF t \in Scanners THEN Geometries ELSE {"unset"}

\* Mutated form: the claim is not looked at.
StartsLeased(c, t) ==
    \/ Running(t) /\ UNCHANGED <<specs, loopVars, history>>
    \/ /\ ~Running(t)
       /\ \E spec \in SpecChoices(t) :
           /\ specs' = [specs EXCEPT ![t] = spec]
           /\ IF Refuses(t, spec) THEN UNCHANGED <<loopVars, history>>
              ELSE StartLoop(t, spec) /\ wanted' = wanted \cup {t} /\ UNCHANGED raced

\* The locked body of start_live on a target nobody has claimed.  The spec is
\* written before _start_locked can refuse it or camera.start() raise.
Starts(c, t) ==
    /\ Unclaimed(t)
    /\ \/ Running(t) /\ UNCHANGED <<specs, loopVars, history>>
       \/ /\ ~Running(t)
          /\ \E spec \in SpecChoices(t) :
              /\ specs' = [specs EXCEPT ![t] = spec]
              /\ \/ ~Refuses(t, spec) /\ StartLoop(t, spec) /\ wanted' = wanted \cup {t}
                 \/ ~Refuses(t, spec) /\ FailsToStart(t) /\ UNCHANGED wanted
                 \/ Refuses(t, spec) /\ UNCHANGED <<loopVars, wanted>>
              /\ UNCHANGED raced

StartLive(c) ==
    /\ "start" \in Ops
    /\ pc[c] = "swept"
    /\ \E t \in Cameras \cup Scanners :
        \/ RefusedByClaim(c, {t})
        \/ Starts(c, t) /\ Return(c) /\ UNCHANGED <<tableVars, held>>

ReconfigureLive(c) ==
    /\ "reconfigure" \in Ops
    /\ pc[c] = "swept"
    /\ \E t \in Scanners :
        \/ RefusedByClaim(c, {t})
        \/ /\ Unclaimed(t)
           /\ \E spec \in Geometries \ {"unset"} : specs' = [specs EXCEPT ![t] = spec]
           /\ Return(c)
           /\ UNCHANGED <<tableVars, loopVars, held, history>>

----------------------------------------------------------------------------
\* stop_live and grant, and the _stop they share

StopLive(c) ==
    /\ "stop" \in Ops
    /\ pc[c] = "swept"
    /\ \E t \in Cameras \cup Scanners :
        \/ RefusedByClaim(c, {t})
        \/ /\ Unclaimed(t)
           /\ pc' = [pc EXCEPT ![c] = "stop"]
           /\ call' = [call EXCEPT ![c] = [NoCall EXCEPT !.job = "live", !.left = {t}]]
           /\ UNCHANGED <<tableVars, specs, loopVars, held, history>>

\* Ids that nothing refers to: a uuid is never drawn twice.
NewLeases == {l \in LeaseIds \ granted :
    /\ \A t \in Targets : claims[t] # l
    /\ \A c \in Clients : held[c] # l /\ call[c].lease # l /\ l \notin call[c].sweep}

\* Mutated form: the claims are written without looking at the standing ones.
ClaimsOver(ts, l) ==
    claims' = [t \in Targets |-> IF t \in ts THEN l ELSE claims[t]]

\* Every target is looked at before the first is claimed.
ClaimAll(ts, l) ==
    /\ \A t \in ts : Unclaimed(t)
    /\ claims' = [t \in Targets |-> IF t \in ts THEN l ELSE claims[t]]

GrantClaims(c) ==
    /\ "grant" \in Ops
    /\ pc[c] = "swept"
    /\ held[c] = NoLease
    /\ \E ts \in (SUBSET Targets) \ {{}} :
        \/ RefusedByClaim(c, ts)
        \/ \E l \in NewLeases :
            /\ ClaimAll(ts, l)
            /\ pc' = [pc EXCEPT ![c] = "grant"]
            /\ call' = [call EXCEPT ![c] = [NoCall EXCEPT !.job = "grant", !.left = ts,
                                              !.want = ts, !.lease = l]]
            /\ UNCHANGED <<granted, lapsed, holding, restarts, specs, loopVars, held,
                           history>>

\* was_running, read under the lock, target by target.
GrantLooks(c) ==
    /\ pc[c] = "grant"
    /\ call[c].left # {}
    /\ LET t == First(call[c].left) IN
       IF Running(t)
       THEN pc' = [pc EXCEPT ![c] = "stop"] /\ UNCHANGED call
       ELSE call' = [call EXCEPT ![c] = [@ EXCEPT !.left = call[c].left \ {t}]] /\ UNCHANGED pc
    /\ UNCHANGED <<tableVars, specs, loopVars, held, history>>

\* _join_deadline: from the spec of now, for a scanner; the floor, for a camera.
JoinDeadline(t) == PassUnder(t, specs[t])

\* _stop is done and True: the grant goes on to its next target.
Stopped(c, t) ==
    IF call[c].job = "grant"
    THEN /\ pc' = [pc EXCEPT ![c] = "grant"]
         /\ call' = [call EXCEPT ![c] = [@ EXCEPT !.left = call[c].left \ {t},
                                           !.stopped = call[c].stopped \cup {t},
                                           !.loop = NoLoop, !.due = "short"]]
         /\ UNCHANGED wanted
    ELSE /\ Return(c)
         /\ wanted' = wanted \ {t}

\* The deadline, the loop, its is_running and its stop event, which the code reads and
\* sets one after the other: a loop that ends, or is replaced, before it is signalled is
\* here one that does so after; and a deadline older than the loop is one that the
\* pass in flight, of either spec, outlasts or not all the same.
StopSignals(c) ==
    /\ pc[c] = "stop"
    /\ LET t == First(call[c].left) IN
       IF Running(t)
       THEN /\ doomed' = doomed \cup {current[t]}
            /\ call' = [call EXCEPT ![c] = [@ EXCEPT !.loop = current[t],
                                                     !.due = JoinDeadline(t)]]
            /\ pc' = [pc EXCEPT ![c] = "join"]
            /\ UNCHANGED wanted
       ELSE Stopped(c, t) /\ UNCHANGED doomed
    /\ UNCHANGED <<tableVars, specs, current, drives, pass, powered, held, raced>>

StopJoins(c) ==
    /\ pc[c] = "join"
    /\ ~Live(call[c].loop)
    /\ LET t == First(call[c].left) IN
       IF t \in Cameras
       THEN pc' = [pc EXCEPT ![c] = "halt"] /\ UNCHANGED <<call, wanted>>
       ELSE Stopped(c, t)
    /\ UNCHANGED <<tableVars, specs, loopVars, held, raced>>

\* camera.stop(), a device call made outside the lock.
StopHalts(c) ==
    /\ pc[c] = "halt"
    /\ LET t == First(call[c].left) IN
       /\ powered' = powered \ {t}
       /\ raced' = IF Running(t) THEN raced \cup {t} ELSE raced
       /\ Stopped(c, t)
    /\ UNCHANGED <<tableVars, specs, current, drives, pass, doomed, held>>

\* camera.stop() raises: the exception leaves stop_live, or grant with its claims.
StopRaises(c) ==
    /\ pc[c] = "halt"
    /\ First(call[c].left) \in FaultyCameras
    /\ Return(c)
    /\ wanted' = wanted \ {First(call[c].left)}
    /\ UNCHANGED <<tableVars, specs, loopVars, held, raced>>

\* A pass outlasts the wait: a camera's long exposure, or a scan that is longer
\* than the geometry the wait was computed from.
Outlasts(l, due) ==
    \/ drives[l] \in SlowCameras
    \/ drives[l] \in Scanners /\ pass[l] = "long" /\ due = "short"

\* Mutated form: a join that timed out is taken for one that succeeded.
TimeoutIgnored(c) ==
    /\ pc[c] = "join"
    /\ Live(call[c].loop)
    /\ Outlasts(call[c].loop, call[c].due)
    /\ Stopped(c, First(call[c].left))
    /\ UNCHANGED <<tableVars, specs, loopVars, held, raced>>

\* loop.stop() returned False, and the loop is doomed all the same.  stop_live returns
\* it; a grant restarts what it has stopped so far, and then drops its claims and raises
\* DeviceBusyError.
StopTimesOut(c) ==
    /\ pc[c] = "join"
    /\ Live(call[c].loop)
    /\ Outlasts(call[c].loop, call[c].due)
    /\ IF call[c].job = "grant"
       THEN /\ call' = [call EXCEPT ![c] = [@ EXCEPT !.left = call[c].stopped,
                                              !.stopped = {}, !.loop = NoLoop,
                                              !.due = "short"]]
            /\ pc' = [pc EXCEPT ![c] = IF call[c].stopped = {} THEN "undo"
                                        ELSE "restart"]
       ELSE Return(c)
    /\ wanted' = wanted \ {First(call[c].left)}
    /\ UNCHANGED <<tableVars, specs, loopVars, held, raced>>

\* Mutated form: only the target that failed is given back.
UndoesOne(c) ==
    \E t \in call[c].want : claims' = [claims EXCEPT ![t] = NoLease]

\* Every claim of the refused grant is popped.
UndoClaims(c) ==
    claims' = [t \in Targets |-> IF t \in call[c].want THEN NoLease ELSE claims[t]]

GrantRefused(c) ==
    /\ pc[c] = "undo"
    /\ UndoClaims(c)
    /\ Return(c)
    /\ UNCHANGED <<granted, lapsed, holding, restarts, specs, loopVars, held, history>>

GrantDone(c) ==
    /\ pc[c] = "grant"
    /\ call[c].left = {}
    /\ LET l == call[c].lease IN
       /\ granted' = granted \cup {l}
       /\ holding' = [holding EXCEPT ![l] = call[c].want]
       /\ restarts' = [restarts EXCEPT ![l] = call[c].stopped]
       /\ held' = [held EXCEPT ![c] = l]
    /\ Return(c)
    /\ UNCHANGED <<claims, lapsed, specs, loopVars, history>>

----------------------------------------------------------------------------
\* check_lease, renew, a leased device call, and the reads of controls() and
\* camera_parameters()

LeaseStands(c) == held[c] \in granted

\* check_lease refuses: LeaseExpiredError.  A call that only watches ends here too.
Answered(c) ==
    /\ pc[c] = "swept"
    /\ Return(c)
    /\ UNCHANGED <<tableVars, specs, loopVars, held, history>>

\* renew: check_lease in one locked section, the write in the next.
RenewChecks(c) ==
    /\ "renew" \in Ops
    /\ pc[c] = "swept"
    /\ LeaseStands(c)
    /\ pc' = [pc EXCEPT ![c] = "renew"]
    /\ UNCHANGED <<tableVars, specs, loopVars, call, held, history>>

RenewWrites(c) ==
    /\ pc[c] = "renew"
    /\ granted' = granted \cup {held[c]}
    /\ lapsed' = lapsed \ {held[c]}
    /\ raced' = raced \cup (IF LeaseStands(c) THEN {} ELSE holding[held[c]])
    /\ Return(c)
    /\ UNCHANGED <<claims, holding, restarts, specs, loopVars, held, wanted>>

\* _LeaseGuard, and the server's _device_call: the lease is checked, then the
\* device is called.
CallChecks(c) ==
    /\ "call" \in Ops
    /\ pc[c] = "swept"
    /\ LeaseStands(c)
    /\ \E t \in holding[held[c]] :
        call' = [call EXCEPT ![c] = [@ EXCEPT !.left = {t}]]
    /\ pc' = [pc EXCEPT ![c] = "calling"]
    /\ UNCHANGED <<tableVars, specs, loopVars, held, history>>

\* controls() on the instrument, camera_parameters() on a camera: the claim is
\* looked at under the lock, the device read outside it.
PeekChecks(c) ==
    /\ "peek" \in Ops
    /\ pc[c] = "swept"
    /\ \E t \in Instruments \cup Cameras :
        /\ Unclaimed(t)
        /\ call' = [call EXCEPT ![c] = [@ EXCEPT !.left = {t}]]
    /\ pc' = [pc EXCEPT ![c] = "peeking"]
    /\ UNCHANGED <<tableVars, specs, loopVars, held, history>>

DeviceReturns(c) ==
    /\ pc[c] \in {"calling", "peeking"}
    /\ Return(c)
    /\ UNCHANGED <<tableVars, specs, loopVars, held, history>>

----------------------------------------------------------------------------
\* The steps of a call once begun, in the order they are defined above.
Proceeds(c) ==
    \/ SweepOne(c) \/ RestartOne(c) \/ RestartRaises(c)
    \/ GrantLooks(c) \/ GrantDone(c) \/ GrantRefused(c)
    \/ StopSignals(c) \/ StopJoins(c) \/ StopHalts(c) \/ StopRaises(c)
    \/ StopTimesOut(c)
    \/ RenewWrites(c) \/ DeviceReturns(c) \/ KeyErrorCaught(c)

\* The body of whichever call it was, after the sweep.
Body(c) ==
    \/ StartLive(c) \/ ReconfigureLive(c) \/ StopLive(c) \/ GrantClaims(c)
    \/ RenewChecks(c) \/ CallChecks(c) \/ PeekChecks(c) \/ Answered(c)

Client(c) == CallBegins(c) \/ Release(c) \/ Body(c) \/ Proceeds(c)

Loop(l) == PassEnds(l) \/ GrabRaises(l)

Next ==
    \/ \E c \in Clients : Client(c)
    \/ \E l \in LoopIds : Loop(l)
    \/ \E l \in LeaseIds : Lapse(l)

Spec == Init /\ [][Next]_vars

----------------------------------------------------------------------------
\* Every variable has its type.
TypeOK ==
    /\ claims \in [Targets -> LeaseIds \cup {NoLease}]
    /\ granted \subseteq LeaseIds
    /\ lapsed \subseteq LeaseIds
    /\ holding \in [LeaseIds -> SUBSET Targets]
    /\ restarts \in [LeaseIds -> SUBSET Targets]
    /\ specs \in [Targets -> Specs]
    /\ current \in [Targets -> LoopIds \cup {NoLoop}]
    /\ drives \in [LoopIds -> Targets \cup {NoTarget}]
    /\ pass \in [LoopIds -> Lengths]
    /\ doomed \subseteq LoopIds
    /\ powered \subseteq Cameras
    /\ pc \in [Clients -> Points]
    /\ call \in [Clients -> Calls]
    /\ held \in [Clients -> LeaseIds \cup {NoLease}]
    /\ {wanted, raced} \subseteq SUBSET Targets

\* The client is inside grant(), between the claims and the table.
Granting(c) == pc[c] # "idle" /\ call[c].job = "grant"

\* A claim is never an orphan: it is that of a lease in the table that covers the
\* target, or of a grant in progress that asked for it.  An orphan would refuse the
\* target to everybody for as long as the broker lives, since only leases expire.
ClaimsAreBacked ==
    \A t \in Targets : claims[t] # NoLease =>
        \/ claims[t] \in granted /\ t \in holding[claims[t]]
        \/ \E c \in Clients : Granting(c) /\ call[c].lease = claims[t] /\ t \in call[c].want

\* local.py:1426: claims are taken together "so that two clients cannot each get half
\* a lease".  A grant in progress has every target it asked for, and a lease in the
\* table has all of its targets, or none if it was reclaimed under a renewal.
GrantsAreWhole ==
    /\ \A c \in Clients : Granting(c) =>
        \A t \in call[c].want : claims[t] = call[c].lease
    /\ \A l \in granted :
        \/ \A t \in holding[l] : claims[t] = l
        \/ \A t \in holding[l] : claims[t] # l

\* A lease in the table owns the targets it lists: its holder passes check_lease only
\* while nobody else can have them.
LeaseOwnsItsClaims == \A l \in granted : \A t \in holding[l] : claims[t] = l

\* The workers and the leased device calls that are using a target right now.
Loops(t) == {l \in LoopIds : drives[l] = t}
Callers(t) == {c \in Clients : pc[c] = "calling" /\ t \in call[c].left}

HasOneDriver(t) == Cardinality(Loops(t)) + Cardinality(Callers(t)) <= 1

\* server.py:20: "A leased target has exactly one caller by construction".  However
\* calls overlap, two live workers, two lease holders, or one of each drive a target
\* only after one of these: its lease was reclaimed under a call, or renewed after it
\* was reclaimed, or its loop restarted after it was taken or started by somebody else.
SoleDriver == \A t \in Targets \ raced : HasOneDriver(t)

\* The text itself.  Each of the three breaks it.
AlwaysSoleDriver == \A t \in Targets : HasOneDriver(t)

\* The same of lease holders alone.
SoleHolder == \A t \in Targets : Cardinality(Callers(t)) <= 1

\* interface.py:1000: each target's loop is stopped and joined before the lease is
\* granted, and none is started while it stands, nor is the target another's, but for
\* the same overtakings.
LeasedIsDark ==
    \A l \in granted : \A t \in holding[l] \ raced : claims[t] = l /\ Loops(t) = {}

\* The text itself.  A restart after a release breaks it.
LeasedIsAlwaysDark ==
    \A l \in granted : \A t \in holding[l] : claims[t] = l => Loops(t) = {}

Quiet == \A c \in Clients : pc[c] = "idle"

\* interface.py:186, 1013: a refusal leaves nothing stopped and a release restarts what
\* was running.  When no call is in progress, every target started and not since stopped,
\* given up on by a stop, or ended by an error, is live, or claimed: through grants that
\* time out midway, lapses, sweeps and releases of clients that overlap in any order,
\* unless a start refused meanwhile has left parameters that the restart cannot use.
NothingLeftStopped ==
    Quiet => \A t \in wanted \ raced : Unclaimed(t) => Running(t)

\* The same text of the loop a join gave up on (interface.py:983: on False "the loop is
\* left running"): when no call is in progress, no live loop is signalled to stop.
NoLoopIsDoomed ==
    Quiet => \A t \in Targets : Running(t) => current[t] \notin doomed

\* A camera's loop grabs only from a camera that was started and not stopped since,
\* unless it was started between the join and the camera.stop() of another's stop.
LiveCameraIsPowered ==
    \A l \in LoopIds : drives[l] \in Cameras \ raced => drives[l] \in powered

\* _refuse_if_leased (local.py:1147): a claimed target is refused with DeviceBusyError.
RefusalIsBusy == \A c \in Clients : pc[c] # "KeyError"

\* local.py:1345: the join deadline is derived from the scan's own geometry, so that a
\* scan unit is never refused for still finishing its pass.
ScanFitsItsDeadline ==
    \A c \in Clients : (pc[c] = "join" /\ Live(call[c].loop)
                            /\ drives[call[c].loop] \in Scanners) =>
        ~Outlasts(call[c].loop, call[c].due)

\* controls() (local.py:718): no read of a device is made "out from under a lease
\* holder".
NoPeekUnderLease ==
    \A c \in Clients : pc[c] = "peeking" => \A t \in call[c].left : Callers(t) = {}

\* The broker keeps the promise of the lease table, its claims being the custody.
Table == INSTANCE LeaseTable WITH owner <- claims

ImplementsLeaseTable == Table!TableSpec

\* A thread inside a call is scheduled, a join is a bounded wait and a device call
\* returns; passes end.  A display polls: it calls snapshot() or previews() from a
\* timer.  Nothing makes any other client call at all.
Fairness ==
    /\ \A l \in LoopIds : WF_vars(PassEnds(l))
    /\ \A c \in Clients : WF_vars(Proceeds(c)) /\ WF_vars(Body(c))
    /\ \A c \in Pollers : WF_vars(CallBegins(c))

FairSpec == Spec /\ Fairness

\* _reclaim_expired: a lapsed lease is reclaimed, or renewed, at some later call: the
\* process that took it and died does not keep its targets.
LapsedIsReclaimed ==
    \A l \in LeaseIds : (l \in granted /\ l \in lapsed) ~> (l \notin granted \/ l \notin lapsed)

=============================================================================
