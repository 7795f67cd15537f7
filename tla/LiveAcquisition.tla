---------------------------- MODULE LiveAcquisition ----------------------------
(***************************************************************************)
(* acquisition/live.py: the loop that grabs frames on a worker thread and   *)
(* keeps only the latest.  One LiveAcquisition object, the threads that     *)
(* call start() and stop() on it, and the worker threads it creates.        *)
(*                                                                          *)
(* Every start() that finds no worker creates a new thread, so the workers  *)
(* are a set of thread identities of which `thread` (self._thread) names at *)
(* most one.  A grab is a device call of unknown length, and a join is a    *)
(* wait that either sees the worker end or times out: time itself is not    *)
(* modelled, so a join may time out at any moment the worker is alive.      *)
(*                                                                          *)
(* The object is used in two ways, and UsageAssumption names them.  The     *)
(* broker (broker/local.py, _start_locked) builds a new object for every    *)
(* start, calls start() once, under its lock, before any other thread can   *)
(* reach the object, and lets every handler thread stop it.  A script or a  *)
(* test owns the object on one thread and restarts it at will.              *)
(***************************************************************************)
EXTENDS Naturals

CONSTANTS
    Callers,       \* the threads that call stop(), the starter among them
    Starter,       \* the one thread that calls start()
    Restartable,   \* whether start() may be called again on the same object
    Workers,       \* worker threads that start() may create: bounds restarts
    NoThread,      \* self._thread is None
    NoError,       \* self._error is None
    NoFrame,       \* self._latest is None
    MaxFrames      \* frame_count saturates here

ASSUME UsageAssumption ==
    /\ Starter \in Callers
    /\ Restartable \in BOOLEAN
    /\ Restartable => Callers = {Starter}

ASSUME SentinelAssumption ==
    /\ {NoThread, NoError, NoFrame} \cap Workers = {}
    /\ MaxFrames \in Nat \ {0}

VARIABLES
    thread,        \* self._thread
    stop_event,    \* self._stop_event
    error,         \* self._error, as the worker whose grab raised it
    latest,        \* self._latest, as the worker that grabbed it
    frame_count,   \* self._frame_count
    worker,        \* where each worker is in _run
    pc,            \* where each caller is in start() or stop()
    joining,       \* the thread a stop() read, its local `thread`
    answer,        \* what the caller's last stop() returned
    grabbed        \* history: frames each worker has stored

vars == <<thread, stop_event, error, latest, frame_count, worker, pc, joining,
          answer, grabbed>>

Phases == {"unborn", "check", "grab", "ending", "dead"}
Points == {"idle", "reset", "spawn", "join", "clear"}
Answers == {"none", "free", "busy"}

\* Thread.is_alive of a worker.
Alive(w) == worker[w] \in {"check", "grab", "ending"}

Started == \E w \in Workers : worker[w] # "unborn"

CountUp(n) == IF n < MaxFrames THEN n + 1 ELSE n

Init ==
    /\ thread = NoThread
    /\ stop_event = FALSE
    /\ error = NoError
    /\ latest = NoFrame
    /\ frame_count = 0
    /\ worker = [w \in Workers |-> "unborn"]
    /\ pc = [c \in Callers |-> "idle"]
    /\ joining = [c \in Callers |-> NoThread]
    /\ answer = [c \in Callers |-> "none"]
    /\ grabbed = [w \in Workers |-> 0]

----------------------------------------------------------------------------
\* start()

\* The property is_running: a handle is kept and its thread is alive.
is_running == thread # NoThread /\ Alive(thread)

MayStart(c) ==
    /\ c = Starter
    /\ pc[c] = "idle"
    /\ Restartable \/ ~Started
    /\ \E w \in Workers : worker[w] = "unborn"

\* Mutated form: the reset is made before is_running is asked.
StartResetsFirst(c) ==
    /\ MayStart(c)
    /\ stop_event' = FALSE
    /\ frame_count' = 0
    /\ IF is_running THEN UNCHANGED <<pc, answer>>
       ELSE /\ pc' = [pc EXCEPT ![c] = "reset"]
            /\ answer' = [answer EXCEPT ![c] = "none"]
    /\ UNCHANGED <<thread, error, latest, worker, joining, grabbed>>

StartCheck(c) ==
    /\ MayStart(c)
    /\ IF is_running THEN UNCHANGED <<pc, answer>>
       ELSE /\ pc' = [pc EXCEPT ![c] = "reset"]
            /\ answer' = [answer EXCEPT ![c] = "none"]
    /\ UNCHANGED <<thread, stop_event, error, latest, frame_count, worker, joining,
                   grabbed>>

StartReset(c) ==
    /\ pc[c] = "reset"
    /\ pc' = [pc EXCEPT ![c] = "spawn"]
    /\ stop_event' = FALSE
    /\ error' = NoError
    /\ frame_count' = 0
    /\ UNCHANGED <<thread, latest, worker, joining, answer, grabbed>>

StartSpawn(c) ==
    /\ pc[c] = "spawn"
    /\ \E w \in Workers :
        /\ worker[w] = "unborn"
        /\ thread' = w
        /\ worker' = [worker EXCEPT ![w] = "check"]
    /\ pc' = [pc EXCEPT ![c] = "idle"]
    /\ UNCHANGED <<stop_event, error, latest, frame_count, joining, answer, grabbed>>

----------------------------------------------------------------------------
\* stop(timeout)

\* The event is set and self._thread is read; None means nothing to wait for.
\* Under UsageAssumption nothing runs between the two that could tell.
StopSignal(c) ==
    /\ pc[c] = "idle"
    /\ Restartable \/ Started
    /\ stop_event' = TRUE
    /\ joining' = [joining EXCEPT ![c] = thread]
    /\ IF thread = NoThread
       THEN /\ answer' = [answer EXCEPT ![c] = "free"]
            /\ UNCHANGED pc
       ELSE /\ answer' = [answer EXCEPT ![c] = "none"]
            /\ pc' = [pc EXCEPT ![c] = "join"]
    /\ UNCHANGED <<thread, error, latest, frame_count, worker, grabbed>>

StopJoined(c) ==
    /\ pc[c] = "join"
    /\ ~Alive(joining[c])
    /\ pc' = [pc EXCEPT ![c] = "clear"]
    /\ UNCHANGED <<thread, stop_event, error, latest, frame_count, worker, joining,
                   answer, grabbed>>

\* Mutated form, and what this method once did: the outcome of the join is
\* discarded, the handle cleared and success reported.
StopDiscardsJoin(c) ==
    /\ pc[c] = "join"
    /\ Alive(joining[c])
    /\ pc' = [pc EXCEPT ![c] = "idle"]
    /\ answer' = [answer EXCEPT ![c] = "free"]
    /\ thread' = NoThread
    /\ UNCHANGED <<stop_event, error, latest, frame_count, worker, joining, grabbed>>

\* Mutated form: the failed join is reported but the handle is dropped.
StopDropsHandle(c) ==
    /\ pc[c] = "join"
    /\ Alive(joining[c])
    /\ pc' = [pc EXCEPT ![c] = "idle"]
    /\ answer' = [answer EXCEPT ![c] = "busy"]
    /\ thread' = NoThread
    /\ UNCHANGED <<stop_event, error, latest, frame_count, worker, joining, grabbed>>

StopTimesOut(c) ==
    /\ pc[c] = "join"
    /\ Alive(joining[c])
    /\ pc' = [pc EXCEPT ![c] = "idle"]
    /\ answer' = [answer EXCEPT ![c] = "busy"]
    /\ UNCHANGED <<thread, stop_event, error, latest, frame_count, worker, joining,
                   grabbed>>

StopClears(c) ==
    /\ pc[c] = "clear"
    /\ pc' = [pc EXCEPT ![c] = "idle"]
    /\ answer' = [answer EXCEPT ![c] = "free"]
    /\ thread' = NoThread
    /\ UNCHANGED <<stop_event, error, latest, frame_count, worker, joining, grabbed>>

----------------------------------------------------------------------------
\* _run, on the worker

\* Mutated form: the event is not consulted again after the first pass.
WorkerNeverRechecks(w) ==
    /\ worker[w] = "check"
    /\ worker' = [worker EXCEPT ![w] =
                    IF stop_event /\ grabbed[w] = 0 THEN "ending" ELSE "grab"]
    /\ UNCHANGED <<thread, stop_event, error, latest, frame_count, pc, joining,
                   answer, grabbed>>

WorkerCheck(w) ==
    /\ worker[w] = "check"
    /\ worker' = [worker EXCEPT ![w] = IF stop_event THEN "ending" ELSE "grab"]
    /\ UNCHANGED <<thread, stop_event, error, latest, frame_count, pc, joining,
                   answer, grabbed>>

GrabStored(w) ==
    /\ worker[w] = "grab"
    /\ worker' = [worker EXCEPT ![w] = "check"]
    /\ latest' = w
    /\ frame_count' = CountUp(frame_count)
    /\ grabbed' = [grabbed EXCEPT ![w] = CountUp(@)]
    /\ UNCHANGED <<thread, stop_event, error, pc, joining, answer>>

GrabRaised(w) ==
    /\ worker[w] = "grab"
    /\ worker' = [worker EXCEPT ![w] = "ending"]
    /\ error' = w
    /\ UNCHANGED <<thread, stop_event, latest, frame_count, pc, joining, answer,
                   grabbed>>

ThreadEnds(w) ==
    /\ worker[w] = "ending"
    /\ worker' = [worker EXCEPT ![w] = "dead"]
    /\ UNCHANGED <<thread, stop_event, error, latest, frame_count, pc, joining,
                   answer, grabbed>>

----------------------------------------------------------------------------
Caller(c) ==
    \/ StartCheck(c) \/ StartReset(c) \/ StartSpawn(c)
    \/ StopSignal(c) \/ StopJoined(c) \/ StopTimesOut(c) \/ StopClears(c)

GrabReturns(w) == GrabStored(w) \/ GrabRaised(w)

WorkerStep(w) == WorkerCheck(w) \/ GrabReturns(w) \/ ThreadEnds(w)

Next == (\E c \in Callers : Caller(c)) \/ (\E w \in Workers : WorkerStep(w))

Spec == Init /\ [][Next]_vars

\* The operating system runs a runnable thread, and a device call returns: the
\* RPC layer bounds every one with a timeout.  Nothing makes a caller call.
Fairness == \A w \in Workers : WF_vars(WorkerStep(w))

FairSpec == Spec /\ Fairness

----------------------------------------------------------------------------
\* Every variable has its type.
TypeOK ==
    /\ thread \in Workers \cup {NoThread}
    /\ stop_event \in BOOLEAN
    /\ error \in Workers \cup {NoError}
    /\ latest \in Workers \cup {NoFrame}
    /\ frame_count \in 0..MaxFrames
    /\ worker \in [Workers -> Phases]
    /\ pc \in [Callers -> Points]
    /\ joining \in [Callers -> Workers \cup {NoThread}]
    /\ answer \in [Callers -> Answers]
    /\ grabbed \in [Workers -> 0..MaxFrames]

\* live.py:105: a failed stop() keeps the handle, so is_running "keeps reporting
\* the truth".  Whatever the order of starts, stops and timeouts, a live worker is
\* the one the handle names; in particular there is never a second one.
RunningIsTruthful == \A w \in Workers : Alive(w) => thread = w

\* live.py:90: a caller about to touch the device checks that stop() returned
\* True.  Once it has, and until that caller starts the loop again, no worker is
\* alive and so none is inside a device call.
StopMeansFree == \A c \in Callers : answer[c] = "free" => \A w \in Workers : ~Alive(w)

\* LiveStats (live.py:37): frame_count is the frames grabbed since the loop last
\* started, so no worker of an earlier run adds to it and no start() that turns
\* out to be a no-op zeroes it.
CountIsThisRun ==
    (thread # NoThread /\ pc[Starter] # "spawn") => frame_count = grabbed[thread]

\* live.py:56: the error is the one that stopped the loop, never what an earlier
\* run of the same object died of.
ErrorIsThisRun ==
    (error # NoError /\ thread # NoThread) => error = thread

\* live.py:86: a signalled loop ends.  Even a stop() that timed out has doomed the
\* worker: the pass in flight finishes and the loop does not go round again.
StopTakesEffect == stop_event ~> \A w \in Workers : ~Alive(w)

=============================================================================
