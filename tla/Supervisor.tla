---------------------------- MODULE Supervisor ----------------------------
(****************************************************************************)
(* Who starts the processes of an instrument and stops them: the launcher   *)
(* (launcher.py: --serve holds a broker open, otherwise a window runs on    *)
(* it) and the tray application (tray/session.py, tray/app.py), with what   *)
(* the broker does of its own as a process (broker/app.py) and the          *)
(* invitation it publishes (broker/invitation.py).                          *)
(*                                                                          *)
(* Each has one main thread.  The tray's is an event loop: a timer polls    *)
(* the session, another asks the broker how it is, menu items open front    *)
(* ends and quit, and a message box runs the loop again inside the handler  *)
(* that shows it.  What is asked of the broker is asked on this thread and  *)
(* without a timeout.  A thread per front end                               *)
(* of the tray reads what that prints.  Processes die when they like, and   *)
(* may hang: one that does neither heeds the signal that asks it to stop    *)
(* nor answers what it is asked.                                            *)
(****************************************************************************)
EXTENDS Naturals, Sequences, FiniteSets

CONSTANTS
    Kinds,   \* the supervisors: of "tray", "window", "serve"
    Labels,  \* the kinds of front end that can be opened
    Fronts,  \* the processes that may become one
    Broker,  \* the broker process
    MaxDeaf, \* the most processes that hang
    MaxDialogs  \* the most message boxes that ask to quit

ASSUME SupervisorAssumption ==
    /\ Kinds \subseteq {"tray", "window", "serve"}
    /\ Broker \notin Fronts /\ IsFiniteSet(Fronts)
    /\ "window" \in Kinds => Fronts # {}

VARIABLES
    kind,      \* which supervisor this is
    process,   \* per process: where its life is
    deaf,      \* the processes that hang
    file,      \* broker.json in the directory published to
    front,     \* per front end: the label it was started for
    running,   \* InstrumentSession._running: front ends in the order opened
    urls,      \* InstrumentSession._urls: per label, whose address it is
    following, \* front ends whose address has not been read
    session,   \* InstrumentSession._state, and the invitation it read
    main,      \* the supervising thread: what it stops or asks, and what then
    dialogs,   \* the tray's message boxes, the innermost last
    asked      \* a signal has asked the supervisor to stop

processVars == <<process, deaf, file>>
trayVars == <<front, running, urls, following, session, dialogs>>
supervisorVars == <<kind, processVars, trayVars, main, asked>>

Procs == Fronts \cup {Broker}
Nobody == "nobody"

\* A process that is gone has been waited for: poll() returns its status.
ProcessLives == {"unborn", "up", "gone"}
IsUp(p) == process[p] = "up"

Spawned(p) == [process EXCEPT ![p] = "up"]
Gone(p) == [process EXCEPT ![p] = "gone"]

----------------------------------------------------------------------------
(* The processes *)

\* write_to(): the file is there before its contents are.
Publishes ==
    /\ IsUp(Broker) /\ file # "whole"
    /\ file' = IF file = "part" THEN "whole" ELSE "part"
    /\ UNCHANGED <<kind, process, deaf, trayVars, main, asked>>

\* A process ends by itself: a window closed, a device server that failed.
ProcessDies(p) ==
    /\ IsUp(p) /\ process' = Gone(p)
    /\ UNCHANGED <<kind, deaf, file, trayVars, main, asked>>

Hangs(p) ==
    /\ IsUp(p) /\ Cardinality(deaf) < MaxDeaf
    /\ deaf' = deaf \cup {p}
    /\ UNCHANGED <<kind, process, file, trayVars, main, asked>>

\* _follow(): the first address of a label is kept.  A front end that has died
\* may have printed its own.
Reads(p) ==
    /\ p \in following
    /\ urls' = IF urls[front[p]] = Nobody THEN [urls EXCEPT ![front[p]] = p] ELSE urls
    /\ following' = following \ {p}
    /\ UNCHANGED <<kind, processVars, front, running, session, dialogs, main, asked>>

----------------------------------------------------------------------------
(* stop() *)

Loop == [at |-> "loop", todo |-> <<>>, next |-> "loop"]
Stopping(procs, next) == [at |-> "ask", todo |-> procs, next |-> next]

Target == Head(main.todo)
IsStopping == main.todo # <<>>

\* The one being stopped is gone: the next is asked, or what comes then.
NextTarget ==
    IF Tail(main.todo) = <<>> THEN [Loop EXCEPT !.at = main.next]
    ELSE Stopping(Tail(main.todo), main.next)

SeesItGone ==
    /\ IsStopping /\ ~IsUp(Target)
    /\ main' = NextTarget
    /\ UNCHANGED <<kind, processVars, trayVars, asked>>

\* SIGTERM to its group.
Asks ==
    /\ IsStopping /\ main.at = "ask" /\ IsUp(Target)
    /\ main' = [main EXCEPT !.at = "wait"]
    /\ UNCHANGED <<kind, processVars, trayVars, asked>>

\* One that heeds it puts down what it holds and goes.
Heeds ==
    /\ IsStopping /\ main.at \in {"wait", "terminate"} /\ IsUp(Target) /\ Target \notin deaf
    /\ process' = Gone(Target)
    /\ UNCHANGED <<kind, deaf, file, trayVars, main, asked>>

\* wait() times out: terminate(), and after the grace kill().
WaitTimesOut ==
    /\ IsStopping /\ main.at = "wait" /\ IsUp(Target)
    /\ main' = [main EXCEPT !.at = "terminate"]
    /\ UNCHANGED <<kind, processVars, trayVars, asked>>

Spares == UNCHANGED process
KillsTarget == process' = Gone(Target)

GraceTimesOut ==
    /\ IsStopping /\ main.at = "terminate" /\ IsUp(Target)
    /\ KillsTarget
    /\ UNCHANGED <<kind, deaf, file, trayVars, main, asked>>

----------------------------------------------------------------------------
(* Starting *)

\* A leftover of a previous run would be read as this one's.
RemovesLeftover == file' = "none"

Starts ==
    /\ main.at = "start"
    /\ RemovesLeftover
    /\ process' = Spawned(Broker)
    /\ main' = Loop
    /\ UNCHANGED <<kind, deaf, trayVars, asked>>

IsRunning == main = Loop /\ kind # "tray"
IsLooping == main = Loop /\ kind = "tray"

----------------------------------------------------------------------------
(* The launcher: wait_for_invitation(), then _serve() or _supervise() *)

SessionBecomes(state) == session' = [session EXCEPT !.state = state]

\* The window is one the launcher never opens again.
Window == CHOOSE p \in Fronts : TRUE

WaitsForInvitation ==
    /\ IsRunning /\ session.state = "starting" /\ file # "none"
    /\ SessionBecomes("serving")
    /\ process' = IF kind = "window" THEN Spawned(Window) ELSE process
    /\ UNCHANGED <<kind, deaf, file, front, running, urls, following, dialogs, main, asked>>

\* The broker exits before it publishes, or does not within the time given.
GivesUpOnInvitation ==
    /\ IsRunning /\ session.state = "starting"
    /\ SessionBecomes("failed")
    /\ main' = Stopping(<<Broker>>, "over")
    /\ UNCHANGED <<kind, processVars, front, running, urls, following, dialogs, asked>>

\* Whichever of the two ends, the other is stopped; a request stops both,
\* the front end first.
LeavesThem(procs) ==
    /\ SessionBecomes("stopped") /\ main' = [Loop EXCEPT !.at = "over"]
    /\ UNCHANGED <<kind, processVars, front, running, urls, following, dialogs, asked>>

StopsThem(procs) ==
    /\ SessionBecomes("stopped") /\ main' = Stopping(procs, "over")
    /\ UNCHANGED <<kind, processVars, front, running, urls, following, dialogs, asked>>

Supervises ==
    /\ IsRunning /\ session.state = "serving" /\ kind = "window"
    /\ IF asked THEN StopsThem(<<Window, Broker>>)
       ELSE IF ~IsUp(Window) THEN StopsThem(<<Broker>>)
       ELSE ~IsUp(Broker) /\ StopsThem(<<Window>>)

Serves ==
    /\ IsRunning /\ session.state = "serving" /\ kind = "serve"
    /\ (asked \/ ~IsUp(Broker))
    /\ StopsThem(<<Broker>>)

----------------------------------------------------------------------------
(* The tray: InstrumentSession *)

\* The front ends of a label that still run.
RunningOf(label) == {running[i] : i \in {j \in DOMAIN running :
                        front[running[j]] = label /\ IsUp(running[j])}}

\* poll() forgets the front ends that are gone, and addresses without one.
\* This is SelectSeq(running, IsUp), in the form the proofs can unfold.
Pruned ==
    LET kept[i \in 0..Len(running)] ==
            IF i = 0 THEN <<>>
            ELSE IF IsUp(running[i]) THEN Append(kept[i - 1], running[i]) ELSE kept[i - 1]
    IN  kept[Len(running)]
PrunedUrls == [l \in Labels |-> IF RunningOf(l) # {} THEN urls[l] ELSE Nobody]

\* _fail(), and what the tick that sees it shows.
Fails ==
    /\ session' = [state |-> "failed", invitation |-> "none"]
    /\ dialogs' = Append(dialogs, "lost")

\* _poll_starting(): the invitation first, so that a broker that published
\* and died has served; then the exit status; then the time.
Readable == {"old", "whole"}

\* health(): a call to the broker, on this thread, with no timeout.
Asking(next) == [Loop EXCEPT !.at = "health", !.next = next]

PollsStarting ==
    \/ /\ file \in Readable
       /\ session' = [state |-> "serving", invitation |-> file]
       /\ main' = Asking("loop") /\ UNCHANGED dialogs
    \/ /\ file \notin Readable
       /\ ~IsUp(Broker) /\ Fails /\ UNCHANGED main
    \/ /\ file \notin Readable      \* the start timed out
       /\ IsUp(Broker)
       /\ main' = Stopping(<<Broker>>, "lost") /\ UNCHANGED <<session, dialogs>>

PollsNothing == UNCHANGED <<session, main, dialogs>>
PollsServing ==
    \/ IsUp(Broker) /\ UNCHANGED <<session, main, dialogs>>
    \/ ~IsUp(Broker) /\ Fails /\ UNCHANGED main

\* A tick of the timer, which does not fire again inside its own handler: a
\* request to stop, else one poll of the session.
IsLostShown == \E i \in DOMAIN dialogs : dialogs[i] = "lost"
IsTicking == IsLooping /\ ~IsLostShown

Polls ==
    /\ IsTicking /\ ~asked
    /\ running' = Pruned /\ urls' = PrunedUrls
    /\ \/ session.state = "starting" /\ PollsStarting
       \/ session.state = "serving" /\ PollsServing
    /\ UNCHANGED <<kind, processVars, front, following, asked>>

\* The broker that did not start in time has been stopped, still in the tick.
FailsAfterStop ==
    /\ main.at = "lost"
    /\ main' = Loop /\ Fails
    /\ UNCHANGED <<kind, processVars, front, running, urls, following, asked>>

\* refresh_health(): by its own timer while the instrument is served, and by the
\* menu item that shows the panel.
AsksHealth ==
    /\ IsLooping /\ session.state = "serving"
    /\ main' = Asking("loop")
    /\ UNCHANGED <<kind, processVars, trayVars, asked>>

\* The broker answers, or its connection breaks; the question whether to quit
\* is put only then.
HealthReturns ==
    /\ main.at = "health"
    /\ main' = Loop
    /\ dialogs' = IF main.next = "quit" THEN Append(dialogs, "quit") ELSE dialogs
    /\ UNCHANGED <<kind, processVars, front, running, urls, following, session, asked>>

\* open_front_end(): while the instrument is served, and one of a kind.
MayOpen(label) == session.state = "serving" /\ RunningOf(label) = {}

OpensFrontEnd(label) ==
    /\ IsLooping /\ MayOpen(label)
    /\ \E p \in Fronts :
        /\ process[p] = "unborn"
        /\ process' = Spawned(p)
        /\ front' = [front EXCEPT ![p] = label]
        /\ running' = Append(running, p) /\ following' = following \cup {p}
    /\ UNCHANGED <<kind, deaf, file, urls, session, main, dialogs, asked>>

\* shutdown(): the front ends, then the broker, then the invitation.
BrokerFirst == <<Broker>> \o running
FrontsFirst == running \o <<Broker>>

ShutsDown ==
    /\ main' = Stopping(FrontsFirst, "unlink")
    /\ dialogs' = <<>>
    /\ UNCHANGED <<kind, processVars, front, running, urls, following, session, asked>>

\* The menu: nothing served is nothing to ask about, else the broker is asked
\* what is busy.
ConfirmsQuit ==
    /\ IsLooping
    /\ IF session.state = "serving"
       THEN /\ Len(dialogs) < MaxDialogs /\ main' = Asking("quit")
            /\ UNCHANGED <<kind, processVars, trayVars, asked>>
       ELSE ShutsDown

\* The innermost box is answered; "the instrument has stopped" has one answer.
AnswersDialog(yes) ==
    /\ IsLooping /\ dialogs # <<>>
    /\ IF yes \/ dialogs[Len(dialogs)] = "lost" THEN ShutsDown
       ELSE /\ dialogs' = SubSeq(dialogs, 1, Len(dialogs) - 1)
            /\ UNCHANGED <<kind, processVars, front, running, urls, following>>
            /\ UNCHANGED <<session, main, asked>>

TickStops == IsTicking /\ asked /\ ShutsDown

\* The broker is gone, and its invitation goes with it.
Unlinks ==
    /\ main.at = "unlink"
    /\ file' = "none" /\ running' = <<>>
    /\ session' = [state |-> "stopped", invitation |-> "none"]
    /\ main' = [Loop EXCEPT !.at = "over"]
    /\ UNCHANGED <<kind, process, deaf, front, urls, following, dialogs, asked>>

----------------------------------------------------------------------------

StopIsRequested ==
    /\ ~asked /\ asked' = TRUE
    /\ UNCHANGED <<kind, processVars, trayVars, main>>

SupervisorInit ==
    /\ kind \in Kinds /\ file \in {"none", "old"}
    /\ process = [p \in Procs |-> "unborn"] /\ deaf = {}
    /\ front = [p \in Fronts |-> Nobody] /\ running = <<>> /\ following = {}
    /\ urls = [l \in Labels |-> Nobody]
    /\ session = [state |-> "starting", invitation |-> "none"]
    /\ main = [Loop EXCEPT !.at = "start"] /\ dialogs = <<>> /\ asked = FALSE

Stop == SeesItGone \/ Asks \/ WaitTimesOut \/ GraceTimesOut
Launcher == WaitsForInvitation \/ GivesUpOnInvitation \/ Supervises \/ Serves
Tick == Polls \/ TickStops
Tray == Tick \/ FailsAfterStop \/ Unlinks \/ AsksHealth \/ HealthReturns
Operator ==
    \/ \E l \in Labels : OpensFrontEnd(l)
    \/ ConfirmsQuit \/ \E yes \in BOOLEAN : AnswersDialog(yes)
    \/ StopIsRequested
Processes ==
    \/ Publishes \/ Heeds
    \/ \E p \in Procs : ProcessDies(p) \/ Hangs(p) \/ Reads(p)

SupervisorNext == Starts \/ Stop \/ Launcher \/ Tray \/ Operator \/ Processes

SupervisorSpec == SupervisorInit /\ [][SupervisorNext]_supervisorVars

\* The broker is asked how it is, and hangs.
IsHeldUp == main.at = "health" /\ IsUp(Broker) /\ Broker \in deaf

\* The main thread runs: its timeouts expire, and the timer that polls, which
\* repeats, fires between the handlers of the other.  A call to the broker
\* returns when it does not hang.  Nothing else is asked of the processes, and
\* nothing of the operator.
SupervisorFairness ==
    /\ WF_supervisorVars(Starts) /\ WF_supervisorVars(Stop) /\ WF_supervisorVars(Launcher)
    /\ SF_supervisorVars(Tick) /\ WF_supervisorVars(FailsAfterStop \/ Unlinks)
    /\ WF_supervisorVars(HealthReturns /\ ~IsHeldUp)

FairSupervisorSpec == SupervisorSpec /\ SupervisorFairness

----------------------------------------------------------------------------

SupervisorTypeOK ==
    /\ kind \in Kinds /\ process \in [Procs -> ProcessLives] /\ deaf \subseteq Procs
    /\ file \in {"none", "old", "part", "whole"}
    /\ front \in [Fronts -> Labels \cup {Nobody}] /\ running \in Seq(Fronts)
    /\ urls \in [Labels -> Fronts \cup {Nobody}] /\ following \subseteq Fronts
    /\ session \in [state : {"starting", "serving", "failed", "stopped"},
                    invitation : {"none", "old", "whole"}]
    /\ main \in [at : {"start", "loop", "health", "ask", "wait", "terminate", "lost", "unlink", "over"},
                 todo : Seq(Procs), next : {"loop", "quit", "lost", "unlink", "over"}]
    /\ dialogs \in Seq({"quit", "lost"})
    /\ asked \in BOOLEAN

Up == {p \in Procs : IsUp(p)}

\* The instrument is parked with no client of this supervisor left on it: the
\* broker is not asked to stop while a front end opened here is up
\* (_supervise, InstrumentSession.shutdown).
FrontEndsGoFirst == IsStopping /\ Target = Broker /\ main.at # "ask" => Up \subseteq {Broker}

\* Whatever ended a supervisor, it leaves no process of its own behind, and
\* the tray no invitation, though a process may not heed the signal or may
\* die while another is waited for (stop, _broker_lost, shut_down).
OverMeansGone ==
    main.at = "over" => Up = {} /\ (kind = "tray" => file = "none")

\* The menu opens one client of each kind, however fast it is clicked and
\* whatever died between two ticks (InstrumentSession.running).
OneOfAKind == \A p, q \in Up \cap Fronts : front[p] = front[q] => p = q

\* A session serves by the invitation of its own broker: not by what an
\* earlier run left there, and not by half a file (start, _read_invitation).
ServesItsOwn == session.state = "serving" /\ kind = "tray" => session.invitation = "whole"

\* A supervisor asked to stop ends, whoever hangs and whatever dialog asks;
\* except that the box that says the instrument has stopped waits for its
\* operator, and that the tray waits for ever in a call to a broker that hangs
\* and does not die (stop_requests, tick, stop, health).
AskedIsOver == <>[]IsHeldUp \/ (asked ~> (main.at = "over" \/ IsLostShown))

\* tray/app.py:339: "Advance the session, and answer anything that asked us to
\* stop."  Violated by a broker that hangs in a call of the health timer: no
\* tick comes after it.
AskedIsOverAnyway == asked ~> (main.at = "over" \/ IsLostShown)

\* The supervisor does not go on serving by a broker that has died
\* (_poll_serving, _supervise, _serve).
LossIsNoticed == (session.state = "serving" /\ ~IsUp(Broker)) ~> (session.state # "serving")

\* tray/session.py:407: "A dashboard that has gone takes its address with it".
\* Violated by a front end opened again before a tick saw that the one before
\* it had gone: its label is then among the living, the address stays, and
\* _follow reads no other.
AddressGoesWithIt ==
    [][\A l \in Labels : Polls /\ urls'[l] # Nobody => IsUp(urls'[l])]_supervisorVars
============================================================================
