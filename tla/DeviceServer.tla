------------------------------ MODULE DeviceServer ------------------------------
(***************************************************************************)
(* The life of a device server: a child process (devices/nion_server.py)   *)
(* that serves one connection per target, and the client that spawned it,   *)
(* calls it from several threads and tears it down (devices/remote.py).     *)
(* Three threads of the server may park the instrument - the handler of a   *)
(* shutdown call, the orphan watchdog, and the one a signal starts - and    *)
(* the client may time out, die, or use force, at any point of it.          *)
(***************************************************************************)
EXTENDS Integers, FiniteSets

CONSTANTS
    Devices,      \* the targets that are devices
    Control,      \* the target `instrument`, which also carries shutdown()
    Wedged,       \* the targets a call of which may never return
    HasBlanker,   \* whether the instrument has a beam blanker
    ParkMayFail,  \* whether a step of the park may raise
    Interrupts,   \* whether an operator may signal the server
    Nobody

Targets == Devices \cup {Control}
Parkers == {"shutdown", "watchdog", "signal"}

ASSUME DeviceAssumption ==
    /\ Control \notin Devices
    /\ Wedged \subseteq Targets
    /\ HasBlanker \in BOOLEAN
    /\ ParkMayFail \in BOOLEAN
    /\ Interrupts \in BOOLEAN
    /\ Nobody \notin Parkers

VARIABLES
    proc,       \* the server process
    stop,       \* its stop_event
    conn,       \* where each connection's handler thread is
    beam,       \* whether the beam is on
    ever,       \* _ever_connected
    unsaid,     \* connections counted in or out whose change is not yet signalled
    alarm,      \* _connection_change
    settled,    \* history: a grace period has passed with no connection closing
    watchdog,   \* where the orphan watchdog is
    signal,     \* how far a SIGTERM got
    outside,    \* history: whether an operator sent one
    parker,     \* who holds the session's lock
    todo,       \* the round of the park it is at,
    pending,    \* the devices that round has still to do,
    failing,    \* and whether a step has failed
    report,     \* _report
    pc,         \* where the client's main thread is
    link,       \* the client's end of each connection
    lock,       \* the connections a thread of the client has a call on
    late,       \* whether a call was begun after the teardown
    closing,    \* the devices the teardown has still to close
    graceful    \* its local `graceful`

server == <<proc, stop, conn, beam>>
counting == <<ever, unsaid, alarm, settled>>
watching == <<watchdog, signal, outside>>
parking == <<parker, todo, pending, failing, report>>
client == <<pc, link, lock, late, closing, graceful>>
vars == <<server, counting, watching, parking, client>>

HandlerPoints == {"none", "recv", "call", "close", "shutdown", "parked", "sent", "ending",
                  "ended"}
ClientPoints == {"starting", "using", "asking", "asked", "exiting", "fallback", "closing",
                 "terminating", "done", "dead"}

Init ==
    /\ proc = "serving" /\ stop = FALSE /\ beam \in BOOLEAN
    /\ conn = [c \in Targets |-> "none"]
    /\ ever = FALSE /\ unsaid = {} /\ alarm = FALSE /\ settled = FALSE
    /\ watchdog = "check" /\ signal = "none" /\ outside = FALSE
    /\ parker = Nobody /\ todo = "none" /\ pending = {} /\ failing = FALSE
    /\ report = "none"
    /\ pc = "starting"
    /\ link = [c \in Targets |-> "none"]
    /\ lock = {} /\ late = FALSE /\ closing = {} /\ graceful = FALSE

Serving == proc = "serving"
Connections == {c \in Targets : conn[c] \notin {"none", "ended"}}
At(c, point) == conn' = [conn EXCEPT ![c] = point]

\* A call is in a device that may not answer, and nobody else gets an answer from it.
Hangs(c) == c \in Wedged /\ conn[c] = "call"

----------------------------------------------------------------------------
\* Connections and calls

\* _connect_session: `instrument` first, which tells where the others are.  The accept
\* loop counts the connection, and signals the change afterwards.
Connects(c) ==
    /\ pc = "starting" /\ Serving
    /\ link[c] = "none"
    /\ c = Control \/ link[Control] = "open"
    /\ link' = [link EXCEPT ![c] = "open"]
    /\ At(c, "recv")
    /\ ever' = TRUE
    /\ unsaid' = unsaid \cup {c}
    /\ UNCHANGED <<proc, stop, beam, alarm, settled, watching, parking, pc, lock, late,
                   closing, graceful>>

\* A thread of the client calls.  Threads are told to stop before a teardown and waited
\* for only so long: one may be in its call, and one call more may begin.
Calls(c) ==
    /\ pc \notin {"starting", "dead"} /\ Serving
    /\ pc = "using" \/ ~late
    /\ link[c] = "open" /\ conn[c] = "recv" /\ c \notin lock
    /\ At(c, "call")
    /\ lock' = lock \cup {c}
    /\ late' = (late \/ pc # "using")
    /\ UNCHANGED <<proc, stop, beam, counting, watching, parking, pc, link, closing,
                   graceful>>

\* A call returns, perhaps to nobody.  One on the instrument may turn the beam on.
Returns(c) ==
    /\ Serving
    /\ conn[c] \in {"call", "close"}
    /\ beam' \in IF c = Control THEN BOOLEAN ELSE {beam}
    /\ At(c, IF link[c] = "open" THEN "recv" ELSE "ending")
    /\ lock' = lock \ {c}
    /\ closing' = IF conn[c] = "close" THEN closing \ {c} ELSE closing
    /\ UNCHANGED <<proc, stop, counting, watching, parking, pc, link, late, graceful>>

\* Mutated form: a call the server died under holds the connection's lock for good.
KeepsLock(c) ==
    /\ ~Serving
    /\ c \in lock
    /\ closing' = IF conn[c] = "close" THEN closing \ {c} ELSE closing
    /\ UNCHANGED <<server, counting, watching, parking, pc, link, lock, late, graceful>>

\* A call the server died under raises RemoteConnectionLostError.
Lost(c) ==
    /\ ~Serving
    /\ c \in lock
    /\ lock' = lock \ {c}
    /\ closing' = IF conn[c] = "close" THEN closing \ {c} ELSE closing
    /\ UNCHANGED <<server, counting, watching, parking, pc, link, late, graceful>>

\* recv raises EOFError.
SeesEOF(c) ==
    /\ Serving
    /\ conn[c] = "recv" /\ link[c] = "closed"
    /\ At(c, "ending")
    /\ UNCHANGED <<proc, stop, beam, counting, watching, parking, client>>

\* on_close: the connection is counted out, and the change signalled afterwards.
Ends(c) ==
    /\ Serving
    /\ conn[c] = "ending"
    /\ At(c, "ended")
    /\ unsaid' = unsaid \cup {c}
    /\ settled' = FALSE
    /\ UNCHANGED <<proc, stop, beam, ever, alarm, watching, parking, client>>

\* _connection_change.set().
Signals(c) ==
    /\ Serving
    /\ c \in unsaid
    /\ unsaid' = unsaid \ {c}
    /\ alarm' = TRUE
    /\ UNCHANGED <<server, ever, settled, watching, parking, client>>

----------------------------------------------------------------------------
\* park_and_release

Wants(p) ==
    /\ Serving
    /\ CASE p = "shutdown" -> conn[Control] = "shutdown"
         [] p = "watchdog" -> watchdog = "park"
         [] p = "signal" -> signal = "parking"

Leaves(p) ==
    /\ IF p = "shutdown" THEN At(Control, "parked") ELSE UNCHANGED conn
    /\ UNCHANGED outside
    /\ watchdog' = IF p = "watchdog" THEN "parked" ELSE watchdog
    /\ signal' = IF p = "signal" THEN "parked" ELSE signal

\* `if self._report is not None`.
Remembered == report # "none"

ParkBegins(p) ==
    /\ Wants(p)
    /\ parker = Nobody
    /\ ~Remembered
    /\ parker' = p
    /\ todo' = "stop" /\ pending' = Devices /\ failing' = FALSE
    /\ UNCHANGED <<server, counting, watching, report, client>>

ParkAgain(p) ==
    /\ Wants(p)
    /\ parker = Nobody
    /\ Remembered
    /\ Leaves(p)
    /\ UNCHANGED <<proc, stop, beam, counting, parking, client>>

\* camera.stop() in the first round, device.close() and writer.close() in the last.
ParkDevice(d) ==
    /\ Serving
    /\ d \in pending /\ ~Hangs(d)
    /\ pending' = pending \ {d}
    /\ failing' \in {failing, failing \/ ParkMayFail}
    /\ UNCHANGED <<server, counting, watching, parker, todo, report, client>>

\* instrument.park(): the beam is blanked, by an instrument that can.  One that cannot
\* does nothing, and that is no error.
ParkBlanks ==
    /\ Serving
    /\ todo = "stop" /\ pending = {} /\ ~Hangs(Control)
    /\ \/ beam' = (beam /\ ~HasBlanker) /\ UNCHANGED failing
       \/ ParkMayFail /\ failing' = TRUE /\ UNCHANGED beam
    /\ todo' = "release" /\ pending' = Devices
    /\ UNCHANGED <<proc, stop, conn, counting, watching, parker, report, client>>

ParkReports ==
    /\ Serving
    /\ todo = "release" /\ pending = {}
    /\ report' = IF failing THEN "failed" ELSE "clean"
    /\ todo' = "none"
    /\ parker' = Nobody
    /\ Leaves(parker)
    /\ UNCHANGED <<proc, stop, beam, counting, pending, failing, client>>

----------------------------------------------------------------------------
\* What makes the server stop

\* send(result).  To a client that is gone it may raise, and then nothing is stopped.
Replies ==
    /\ Serving
    /\ conn[Control] = "parked"
    /\ \/ link[Control] = "closed" /\ At(Control, "ending")
       \/ At(Control, "sent")
    /\ IF pc = "asked"
       THEN /\ pc' = "exiting"
            /\ graceful' = (report = "clean")
            /\ lock' = lock \ {Control}
       ELSE UNCHANGED <<pc, graceful, lock>>
    /\ UNCHANGED <<proc, stop, beam, counting, watching, parking, link, late, closing>>

\* Mutated form: the handler goes on to the next call.
ServesOn ==
    /\ Serving
    /\ conn[Control] = "sent"
    /\ stop' = TRUE
    /\ At(Control, "recv")
    /\ UNCHANGED <<proc, beam, counting, watching, parking, client>>

\* stop_event.set(), only after the reply; and the connection is over.
SetsStop ==
    /\ Serving
    /\ conn[Control] = "sent"
    /\ stop' = TRUE
    /\ At(Control, "ending")
    /\ UNCHANGED <<proc, beam, counting, watching, parking, client>>

\* Mutated form: a server nobody has connected to yet counts as orphaned.
OrphanedAtOnce == Connections = {}

\* is_orphaned.
Orphaned == ever /\ Connections = {}

\* The head of the watchdog's loop.
Watches ==
    /\ Serving
    /\ watchdog = "check"
    /\ watchdog' = IF stop THEN "done" ELSE IF Orphaned THEN "grace" ELSE "idle"
    /\ UNCHANGED <<server, counting, signal, outside, parking, client>>

\* wait_for_connection_change, with clients or after the last: the event, or its time.
Waits ==
    /\ Serving
    /\ watchdog \in {"idle", "grace"}
    /\ alarm' = FALSE
    /\ settled' = (settled \/ (watchdog = "grace" /\ ~alarm))
    /\ watchdog' = IF watchdog = "idle" THEN "check" ELSE "recheck"
    /\ UNCHANGED <<server, ever, unsaid, signal, outside, parking, client>>

Rechecks ==
    /\ Serving
    /\ watchdog = "recheck"
    /\ watchdog' = IF stop \/ ~Orphaned THEN "check" ELSE "park"
    /\ UNCHANGED <<server, counting, signal, outside, parking, client>>

\* Mutated form: the watchdog parks, and the server serves on.
ParksOnly ==
    /\ Serving
    /\ watchdog = "parked"
    /\ watchdog' = "done"
    /\ UNCHANGED <<server, counting, signal, outside, parking, client>>

WatchdogStops ==
    /\ Serving
    /\ watchdog = "parked"
    /\ stop' = TRUE
    /\ watchdog' = "done"
    /\ UNCHANGED <<proc, conn, beam, counting, signal, outside, parking, client>>

\* One that comes while another is handled adds nothing to it.
Sends == signal' = IF signal \in {"none", "done"} THEN "sent" ELSE signal

\* "a Ctrl-C reaching the process group", or a SIGTERM the client did not send.
Interrupt ==
    /\ Interrupts
    /\ Serving /\ ~outside
    /\ outside' = TRUE
    /\ Sends
    /\ UNCHANGED <<server, counting, watchdog, parking, client>>

\* SIGTERM: handled on the main thread, or before the handlers are installed, not at all.
Interrupted ==
    /\ Serving
    /\ signal = "sent"
    /\ \/ signal' = "parking" /\ UNCHANGED proc
       \/ ~ever /\ proc' = "killed" /\ UNCHANGED signal
    /\ UNCHANGED <<stop, conn, beam, counting, watchdog, outside, parking, client>>

\* The main thread waits so long for the park it started, and no longer: os._exit.
Abandons ==
    /\ Serving
    /\ signal = "parking"
    /\ proc' = "abandoned"
    /\ UNCHANGED <<stop, conn, beam, counting, watching, parking, client>>

SignalStops ==
    /\ Serving
    /\ signal = "parked"
    /\ stop' = TRUE
    /\ signal' = "done"
    /\ UNCHANGED <<proc, conn, beam, counting, watchdog, outside, parking, client>>

\* The main thread leaves serve(), when no handler keeps it.
Exits ==
    /\ Serving
    /\ stop
    /\ signal \notin {"parking", "parked"}
    /\ proc' = "exited"
    /\ UNCHANGED <<stop, conn, beam, counting, watching, parking, client>>

\* The vendor's code, or the kernel, ends the process.
Crashes ==
    /\ Serving
    /\ proc' = "killed"
    /\ UNCHANGED <<stop, conn, beam, counting, watching, parking, client>>

----------------------------------------------------------------------------
\* The client's main thread

Goes(point) == pc' = point
Hangup == link' = [c \in Targets |-> "closed"]

Started ==
    /\ pc = "starting"
    /\ \A c \in Targets : link[c] = "open"
    /\ Goes("using")
    /\ UNCHANGED <<server, counting, watching, parking, link, lock, late, closing, graceful>>

\* A start that fails: _release_spawned_server.
GivesUp ==
    /\ pc = "starting"
    /\ Hangup
    /\ Goes("terminating")
    /\ Sends
    /\ UNCHANGED <<server, counting, watchdog, outside, parking, lock, late, closing, graceful>>

\* _shut_down_server.
TearsDown ==
    /\ pc = "using"
    /\ Goes(IF Serving THEN "asking" ELSE "terminating")
    /\ UNCHANGED <<server, counting, watching, parking, link, lock, late, closing, graceful>>

\* instrument.shutdown(), which waits for the connection's lock without a bound.
Asks ==
    /\ pc = "asking"
    /\ Control \notin lock
    /\ IF Serving
       THEN At(Control, "shutdown") /\ lock' = lock \cup {Control} /\ Goes("asked")
       ELSE Goes("fallback") /\ UNCHANGED <<conn, lock>>
    /\ UNCHANGED <<proc, stop, beam, counting, watching, parking, link, late, closing,
                   graceful>>

\* Its reply does not come in time, or never.
TimesOut ==
    /\ pc = "asked"
    /\ Goes("fallback")
    /\ lock' = lock \ {Control}
    /\ UNCHANGED <<server, counting, watching, parking, link, late, closing, graceful>>

\* process.wait(), which may give up.
AwaitsExit ==
    /\ pc = "exiting"
    /\ IF ~Serving /\ graceful
       THEN Goes("done") /\ Hangup
       ELSE Goes("fallback") /\ UNCHANGED link
    /\ UNCHANGED <<server, counting, watching, parking, lock, late, closing, graceful>>

FallsBack ==
    /\ pc = "fallback"
    /\ IF Serving
       THEN Goes("closing") /\ closing' = Devices /\ UNCHANGED link
       ELSE Goes("done") /\ Hangup /\ UNCHANGED closing
    /\ UNCHANGED <<server, counting, watching, parking, lock, late, graceful>>

\* device.close() over its connection, one after the other, without a bound.
ClosesDevice(d) ==
    /\ pc = "closing"
    /\ d \in closing /\ d \notin lock
    /\ \A e \in Devices : Serving => conn[e] # "close"
    /\ IF Serving
       THEN At(d, "close") /\ lock' = lock \cup {d} /\ UNCHANGED closing
       ELSE closing' = closing \ {d} /\ UNCHANGED <<conn, lock>>
    /\ UNCHANGED <<proc, stop, beam, counting, watching, parking, pc, link, late, graceful>>

Terminates ==
    /\ pc = "closing"
    /\ closing = {}
    /\ Goes("terminating")
    /\ Sends
    /\ UNCHANGED <<server, counting, watchdog, outside, parking, link, lock, late, closing, graceful>>

\* process.wait(), and SIGKILL when it gives up.
Kills ==
    /\ pc = "terminating"
    /\ proc' = IF Serving THEN "killed" ELSE proc
    /\ Goes("done")
    /\ Hangup
    /\ UNCHANGED <<stop, conn, beam, counting, watching, parking, lock, late, closing,
                   graceful>>

\* The client process ends at any point, its connections with it.
Dies ==
    /\ pc \notin {"done", "dead"}
    /\ Goes("dead")
    /\ Hangup
    /\ lock' = {}
    /\ UNCHANGED <<server, counting, watching, parking, late, closing, graceful>>

----------------------------------------------------------------------------
Handler(c) == SeesEOF(c) \/ Ends(c) \/ Signals(c)
Shutdown == Replies \/ SetsStop
Park == (\E d \in Devices : ParkDevice(d)) \/ ParkBlanks \/ ParkReports
Enters(p) == ParkBegins(p) \/ ParkAgain(p)
Watchdog == Watches \/ Waits \/ Rechecks \/ WatchdogStops
MainThread == Interrupted \/ SignalStops \/ Exits
Teardown ==
    \/ Asks \/ TimesOut \/ AwaitsExit \/ FallsBack \/ Terminates \/ Kills
    \/ \E d \in Devices : ClosesDevice(d)

Next ==
    \/ \E c \in Targets : Connects(c) \/ Calls(c) \/ Returns(c) \/ Lost(c) \/ Handler(c)
    \/ \E p \in Parkers : Enters(p)
    \/ Shutdown \/ Park \/ Watchdog \/ MainThread \/ Abandons \/ Crashes \/ Interrupt
    \/ Started \/ GivesUp \/ TearsDown \/ Teardown \/ Dies

Spec == Init /\ [][Next]_vars

\* The threads of both processes are scheduled, and a call returns unless its target is
\* wedged.  Nobody has to start, to tear down, to signal or to die.
Fairness ==
    /\ \A c \in Targets : WF_vars(Handler(c)) /\ WF_vars(Lost(c))
    /\ \A c \in Targets \ Wedged : WF_vars(Returns(c))
    /\ \A p \in Parkers : WF_vars(Enters(p))
    /\ WF_vars(Shutdown) /\ WF_vars(Park) /\ WF_vars(Watchdog) /\ WF_vars(MainThread)
    /\ WF_vars(Teardown)

FairSpec == Spec /\ Fairness

----------------------------------------------------------------------------
\* Every variable has its type.
TypeOK ==
    /\ proc \in {"serving", "exited", "abandoned", "killed"}
    /\ stop \in BOOLEAN /\ beam \in BOOLEAN
    /\ conn \in [Targets -> HandlerPoints]
    /\ ever \in BOOLEAN /\ alarm \in BOOLEAN /\ settled \in BOOLEAN
    /\ unsaid \subseteq Targets
    /\ watchdog \in {"check", "idle", "grace", "recheck", "park", "parked", "done"}
    /\ signal \in {"none", "sent", "parking", "parked", "done"} /\ outside \in BOOLEAN
    /\ parker \in Parkers \cup {Nobody}
    /\ todo \in {"none", "stop", "release"}
    /\ pending \subseteq Devices
    /\ failing \in BOOLEAN
    /\ report \in {"none", "clean", "failed"}
    /\ pc \in ClientPoints
    /\ link \in [Targets -> {"none", "open", "closed"}]
    /\ lock \subseteq Targets
    /\ late \in BOOLEAN /\ graceful \in BOOLEAN
    /\ closing \subseteq Devices

\* nion_server.py: a server must not die "with the column live".  One that left serve()
\* has parked, whoever asked it to; and when the park reported no error, and there was a
\* blanker to park with, the beam is off: no call still under way, or yet to come, has
\* turned it on again.  Signals its client did not send are left to LeavesTheBeamOff.
ExitedIsDark ==
    proc = "exited" =>
        report # "none" /\ (report = "clean" /\ HasBlanker /\ ~outside => ~beam)

\* _parking_signal_handlers: "Park the instrument on SIGTERM/SIGINT instead of dying with
\* the beam on".
LeavesTheBeamOff == proc = "exited" /\ report = "clean" => ~beam

\* _orphan_watchdog: "this cannot park an instrument someone is still using: an idle
\* client is still a connected one".
WatchdogSparesTheLiving ==
    watchdog \in {"park", "parked"} => pc \in {"terminating", "done", "dead"}

\* park_and_release is memoized: whoever comes second gets the first one's report, and
\* nothing is parked twice.
ParksOnce == [][report # "none" => report' = report /\ todo' = todo]_vars

\* _shut_down_server: gracefully "if it answers, by force if it does not".  A client that
\* has finished leaves no server behind.
DoneMeansGone == pc = "done" => ~Serving

\* And it does finish.
TeardownEnds == pc = "asking" ~> pc \in {"done", "dead"}

\* A client that had connected and died leaves no server behind either.
OrphanIsGone == (pc = "dead" /\ ever) ~> ~Serving

\* nion_server.py: the watchdog parks after "Seconds to wait after the last connection
\* closes before acting, in case another arrives".
GraceIsGiven == [][watchdog = "recheck" /\ watchdog' = "park" => settled]_vars

=============================================================================
