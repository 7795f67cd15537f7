------------------------------- MODULE Viewer -------------------------------
(***************************************************************************)
(* The live window (viewer/live.py): one GUI thread whose handlers run to  *)
(* their end, a display timer that polls, and worker threads (jobs.py,     *)
(* viewer/jobs.py, storage/session.py) that record, load, analyse and take *)
(* a synchronised pass.  The timer is the only way a worker's result ever  *)
(* reaches the screen, and _maybe_stop_timer() is called from everywhere.  *)
(*                                                                         *)
(* The broker is abstracted to what the window sees of it: a target is     *)
(* leased or not, its live loop runs or not, and a lease stops the loops   *)
(* it finds and starts them again when it ends (Broker.tla has the rest).  *)
(* An analysis is computed by a process of its own, which the runner of    *)
(* analysis/remote.py starts, keeps for the next one, replaces when it     *)
(* has died, and ends with the window.                                     *)
(***************************************************************************)
EXTENDS Integers, Sequences, FiniteSets

CONSTANTS Scanner,      \* the scan unit's target
          Camera,       \* the first camera's target
          Watched,      \* the targets viewed and recorded, here and by other clients
          Nobody, Widget, Stranger,  \* holders of a lease beside the jobs
          Owns,         \* _owns_broker
          JoinsInTime,  \* the join of shutdown() outlasts the worker
          MaxJobs,      \* bound: workers ever started
          MaxFrames,    \* frames of a series, positions of a pass
          MaxFolders    \* bound: session directories opened

ASSUME Bounds == /\ MaxJobs \in Nat \ {0} /\ MaxFrames \in Nat \ {0}
                 /\ MaxFolders \in Nat \ {0}
                 /\ Owns \in BOOLEAN /\ JoinsInTime \in BOOLEAN
                 /\ Scanner # Camera /\ Watched \subseteq {Scanner, Camera}

ASSUME HoldersAssumption ==
    /\ Nobody # Widget /\ Widget # Stranger /\ Nobody # Stranger
    /\ {Nobody, Widget, Stranger} \cap 1..MaxJobs = {}

Targets == {Scanner, Camera}
Kinds == {"recording", "load", "analysis", "pass"}
JobIds == 1..MaxJobs

VARIABLES
    feed,      \* what each target's live loop is at
    lease,     \* who holds each target
    jobs,      \* the workers, in the order they were started
    held,      \* the job each of the widget's four attributes refers to
    folder,    \* the session's directory, 0 for none
    timer,     \* the display timer is running
    gui,       \* where the GUI thread is: idle, in a tick, in a handler
    ended,     \* what is_running said to the poll of the pass
    drawn,     \* the positions of each pass last drawn
    saved,     \* the passes whose end was put on the screen
    worker     \* the process that computes analyses

vars == <<feed, lease, jobs, held, folder, timer, gui, ended, drawn, saved, worker>>
broker == <<feed, lease>>
screen == <<drawn, saved, ended>>
rest == <<screen, worker>>

Feeds == {"off", "on", "finishing", "paused", "failed"}
Job == [kind : Kinds, needs : SUBSET Targets, folder : 0..MaxFolders,
        at : {"asks", "works", "keeps", "spawns", "calls", "ended"}, n : 0..MaxFrames,
        file : {"none", "open", "closed"}, cancelled : BOOLEAN, clings : BOOLEAN]

Pollers == {"recording", "load", "analysis", "pass", "draw", "sources"}
Closings == {"join_load", "join_recording", "close_broker", "close_runners", "gone"}

TypeOK ==
    /\ feed \in [Targets -> Feeds]
    /\ lease \in [Targets -> JobIds \cup {Nobody, Widget, Stranger}]
    /\ jobs \in Seq(Job) /\ Len(jobs) <= MaxJobs
    /\ held \in [Kinds -> 0..MaxJobs]
    /\ folder \in 0..MaxFolders
    /\ {timer, ended} \subseteq BOOLEAN
    /\ gui \in {"idle", "preview", "stop_scan", "stop_camera"} \cup Pollers \cup Closings
    /\ drawn \in [JobIds -> 0..MaxFrames]
    /\ saved \subseteq JobIds
    /\ worker \in {"none", "starting", "up", "died"}

Init ==
    /\ feed = [t \in Targets |-> "off"]
    /\ lease = [t \in Targets |-> Nobody]
    /\ jobs = <<>>
    /\ held = [k \in Kinds |-> 0]
    /\ folder = 0
    /\ timer = FALSE /\ gui = "idle" /\ ended = FALSE
    /\ drawn = [j \in JobIds |-> 0]
    /\ saved = {}
    /\ worker = "none"

----------------------------------------------------------------------------
(* The broker, as the window sees it *)

IsLive(t) == feed[t] \in {"on", "finishing"}
IsFree(t) == lease[t] = Nobody

\* A grant stops the loops of its targets, and remembers those it stopped.
Grant(who, targets) ==
    /\ \A t \in targets : IsFree(t) /\ feed[t] # "finishing"
    /\ lease' = [t \in Targets |-> IF t \in targets THEN who ELSE lease[t]]
    /\ feed' = [t \in Targets |-> IF t \in targets /\ feed[t] = "on" THEN "paused"
                                  ELSE feed[t]]

\* Its end starts them again, whichever thread it comes from.
Release(who) ==
    /\ lease' = [t \in Targets |-> IF lease[t] = who THEN Nobody ELSE lease[t]]
    /\ feed' = [t \in Targets |-> IF lease[t] = who /\ feed[t] = "paused" THEN "on"
                                  ELSE feed[t]]

----------------------------------------------------------------------------
(* Jobs *)

IsRunning(j) == j # 0 /\ jobs[j].at # "ended"
IsHeld(k) == held[k] # 0

\* The widget's attribute lets go of a job that has ended.  A series the job
\* did not exhaust goes with it, and so does the lease the series is inside;
\* but a job that keeps an error is held by the traceback of that error, and
\* stays, series and lease with it, until the collector finds the cycle.
LetsGo(j) == IF j = 0 \/ jobs[j].clings THEN UNCHANGED <<feed, lease>>
             ELSE Release(j)

\* A mutant: every job counts while its thread is alive.
StopsForTheIdle(on, inHand) ==
    timer' = (timer /\ (\/ \E t \in Targets : on[t] \in {"on", "finishing"}
                        \/ \E k \in Kinds : IsRunning(inHand[k])))

\* _maybe_stop_timer(): a recording and a load count while their thread is
\* alive, an analysis and a pass until they are polled.
MaybeStopTimer(on, inHand) ==
    timer' = (timer /\ (\/ \E t \in Targets : on[t] \in {"on", "finishing"}
                        \/ IsRunning(inHand["recording"])
                        \/ IsRunning(inHand["load"])
                        \/ inHand["analysis"] # 0
                        \/ inHand["pass"] # 0))

\* A job begins by asking for its lease; an analysis of an open file has its
\* frames, and anything else that needs no instrument goes to work.
Begins(kind, needs) == IF needs # {} THEN "asks"
                       ELSE IF kind = "analysis" THEN "keeps" ELSE "works"

\* A handler makes a job, starts its thread and the timer.
Starts(kind, needs) ==
    /\ gui = "idle" /\ Len(jobs) < MaxJobs
    /\ jobs' = Append(jobs, [kind |-> kind, needs |-> needs, folder |-> folder,
                             at |-> Begins(kind, needs), n |-> 0,
                             file |-> "none", cancelled |-> FALSE, clings |-> FALSE])
    /\ held' = [held EXCEPT ![kind] = Len(jobs) + 1]
    /\ timer' = TRUE
    /\ UNCHANGED <<folder, gui, rest>>

\* A mutant: a recording is started whatever the one before is doing.
StartsAnyway(needs) ==
    /\ folder # 0
    /\ Starts("recording", needs)
    /\ IF IsRunning(held["recording"]) THEN UNCHANGED <<feed, lease>>
                                       ELSE LetsGo(held["recording"])

\* _start_recording(), under every button that records or acquires.
StartRecording(needs) ==
    /\ folder # 0 /\ ~IsRunning(held["recording"])
    /\ Starts("recording", needs)
    /\ LetsGo(held["recording"])

\* Saving the frame on the screen needs no instrument; recording a series,
\* or acquiring one image, takes the lease of its target.
SaveDisplayedFrame == StartRecording({})
RecordFrames(t) == StartRecording({t})

OpenRecording ==
    /\ ~IsRunning(held["load"])
    /\ Starts("load", {})
    /\ UNCHANGED <<feed, lease>>

\* _start_analysis(): of the file that is open, or of a fresh burst.
StartAnalysis(needs) ==
    /\ ~IsRunning(held["analysis"])
    /\ Starts("analysis", needs)
    /\ LetsGo(held["analysis"])

\* acquire_spectrum_image(): a pass in hand is not asked about, and the new
\* one takes its place.
AcquireSpectrumImage ==
    /\ folder # 0
    /\ Starts("pass", Targets)
    /\ UNCHANGED <<feed, lease>>

\* cancel_recording()
CancelRecording ==
    /\ gui = "idle" /\ IsRunning(held["recording"])
    /\ jobs' = [jobs EXCEPT ![held["recording"]].cancelled = TRUE]
    /\ UNCHANGED <<broker, held, folder, timer, gui, rest>>

\* open_session_directory(), refused under a recording.
OpenSessionDirectory ==
    /\ gui = "idle" /\ folder < MaxFolders
    /\ ~IsRunning(held["recording"])
    /\ folder' = folder + 1
    /\ UNCHANGED <<broker, jobs, held, timer, gui, rest>>

----------------------------------------------------------------------------
(* The threads of the jobs *)

Alive(j) == j \in 1..Len(jobs) /\ gui # "gone"

Closed(file) == IF file = "open" THEN "closed" ELSE file

\* A job ends with a result or with an error, which its poll shows alike, and
\* with the file it had open closed.
Ends(j) == jobs' = [jobs EXCEPT ![j].at = "ended", ![j].file = Closed(@)]

\* It ends with an error, outside a series that is left where it is.
EndsClinging(j) ==
    jobs' = [jobs EXCEPT ![j].at = "ended", ![j].file = Closed(@), ![j].clings = TRUE]

OffTheScreen == UNCHANGED <<held, folder, timer, gui, screen>>

\* The lease is taken on the job's own thread ...
IsGranted(j) ==
    /\ Alive(j) /\ jobs[j].at = "asks"
    /\ Grant(j, jobs[j].needs)
    /\ jobs' = [jobs EXCEPT ![j].at = "works"]
    /\ UNCHANGED worker /\ OffTheScreen

\* ... and refused when its targets are not let go in time.
IsRefused(j) ==
    /\ Alive(j) /\ jobs[j].at = "asks"
    /\ \E t \in jobs[j].needs : ~IsFree(t) \/ feed[t] = "finishing"
    /\ Ends(j)
    /\ UNCHANGED <<broker, worker>> /\ OffTheScreen

\* A frame of the series, a position of the pass, a slab of the file.  The
\* first frame of a recording opens its file; a burst is kept in memory.
Frame(j) ==
    /\ Alive(j) /\ jobs[j].at = "works" /\ jobs[j].n < MaxFrames
    /\ ~jobs[j].cancelled
    /\ jobs' = [jobs EXCEPT ![j].n = @ + 1,
                            ![j].file = IF jobs[j].kind \in {"recording", "pass"} THEN "open" ELSE @]
    /\ UNCHANGED <<broker, worker>> /\ OffTheScreen

\* The series is exhausted: its lease ends with it, and the file is closed.
\* An analysis goes on to keep and to compute.
Finishes(j) ==
    /\ Alive(j) /\ jobs[j].at = "works" /\ jobs[j].n = MaxFrames
    /\ Release(j)
    /\ IF jobs[j].kind = "analysis" THEN jobs' = [jobs EXCEPT ![j].at = "keeps"]
       ELSE Ends(j)
    /\ UNCHANGED worker /\ OffTheScreen

\* _counted() sees the cancellation at the next frame and returns: the file
\* is closed, and the series is left where it is, inside its lease.  A file
\* without a frame is an error.
SeesCancel(j) ==
    /\ Alive(j) /\ jobs[j].at = "works" /\ jobs[j].cancelled
    /\ IF jobs[j].n = 0 THEN EndsClinging(j) ELSE Ends(j)
    /\ UNCHANGED <<broker, worker>> /\ OffTheScreen

\* A mutant: an error of the device leaves the lease with the dead worker.
FailsKept(j) ==
    /\ Alive(j) /\ jobs[j].at = "works"
    /\ Ends(j)
    /\ UNCHANGED <<broker, worker>> /\ OffTheScreen

\* The writer of a recording fails: the series is left inside its lease.
WriterFails(j) ==
    /\ Alive(j) /\ jobs[j].at = "works" /\ jobs[j].kind = "recording"
    /\ EndsClinging(j)
    /\ UNCHANGED <<broker, worker>> /\ OffTheScreen

\* The device fails, or the reader does: the series unwinds.
Fails(j) ==
    /\ Alive(j) /\ jobs[j].at = "works"
    /\ Ends(j)
    /\ Release(j) /\ UNCHANGED worker /\ OffTheScreen

\* The lease of a job that has ended is given back by the collector, with the
\* job, or by the broker when it has not been renewed for its time to live.
Reclaims(j) ==
    /\ Alive(j) /\ jobs[j].at = "ended" /\ \E t \in Targets : lease[t] = j
    /\ Release(j)
    /\ UNCHANGED <<jobs, worker>> /\ OffTheScreen

\* An analysis records its burst into the session it finds.
Keeps(j) ==
    /\ Alive(j) /\ jobs[j].at = "keeps" /\ jobs[j].needs # {} /\ jobs[j].file = "none"
    /\ jobs' = [jobs EXCEPT ![j].file = "open", ![j].folder = folder]
    /\ UNCHANGED <<broker, worker>> /\ OffTheScreen

IsKept(j) == jobs[j].at = "keeps" /\ (jobs[j].needs # {} => jobs[j].file = "open")

KeepFails(j) ==
    /\ Alive(j) /\ IsKept(j)
    /\ Ends(j)
    /\ UNCHANGED <<broker, worker>> /\ OffTheScreen

\* Its worker is the one at hand, or another in place of one that has died.
EnsureStarted(j) ==
    /\ Alive(j) /\ IsKept(j)
    /\ worker' = IF worker = "up" THEN "up" ELSE "starting"
    /\ jobs' = [jobs EXCEPT ![j].at = IF worker = "up" THEN "calls" ELSE "spawns",
                            ![j].file = Closed(@)]
    /\ UNCHANGED broker /\ OffTheScreen

\* Until it is connected a worker is known to this thread alone ...
Connects(j) ==
    /\ Alive(j) /\ jobs[j].at = "spawns"
    /\ worker' = "up"
    /\ jobs' = [jobs EXCEPT ![j].at = "calls"]
    /\ UNCHANGED broker /\ OffTheScreen

\* A mutant: a worker that did not connect in time is left to itself.
StartIsGivenUp(j) ==
    /\ Alive(j) /\ jobs[j].at = "spawns"
    /\ Ends(j)
    /\ UNCHANGED <<broker, worker>> /\ OffTheScreen

\* ... which kills it when it exits or does not answer in time.
StartFails(j) ==
    /\ Alive(j) /\ jobs[j].at = "spawns"
    /\ Ends(j)
    /\ worker' = "none"
    /\ UNCHANGED broker /\ OffTheScreen

Answers(j) ==
    /\ Alive(j) /\ jobs[j].at = "calls" /\ worker = "up"
    /\ Ends(j)
    /\ UNCHANGED <<broker, worker>> /\ OffTheScreen

\* close() of the runner: the worker it knows of is asked to shut down, and
\* ended whatever it heeds; one being started it does not know of.
Retires == worker' = IF worker = "starting" THEN worker ELSE "none"

\* An analysis that fails, or whose worker died, retires its worker.
CallFails(j) ==
    /\ Alive(j) /\ jobs[j].at = "calls"
    /\ Ends(j) /\ Retires
    /\ UNCHANGED broker /\ OffTheScreen

WorkerDies ==
    /\ worker = "up" /\ gui # "gone"
    /\ worker' = "died"
    /\ UNCHANGED <<broker, jobs>> /\ OffTheScreen

----------------------------------------------------------------------------
(* The feeds and the handlers that start, stop and preview them *)

\* start_scan(), start_camera(): refused on a leased target.
StartLive(t) ==
    /\ gui = "idle" /\ IsFree(t)
    /\ feed' = [feed EXCEPT ![t] = IF IsLive(t) THEN @ ELSE "on"]
    /\ timer' = TRUE
    /\ UNCHANGED <<lease, jobs, held, folder, gui, rest>>

StopOf(t) == IF t = Scanner THEN "stop_scan" ELSE "stop_camera"

\* stop_scan(), stop_camera(): the GUI thread waits for the pass in flight.
StopLive(t) ==
    /\ gui = "idle" /\ IsFree(t) /\ IsLive(t)
    /\ feed' = [feed EXCEPT ![t] = "finishing"]
    /\ gui' = StopOf(t)
    /\ UNCHANGED <<lease, jobs, held, folder, timer, rest>>

LiveStopped(t) ==
    /\ gui = StopOf(t) /\ gui' = "idle"
    /\ \/ /\ feed[t] \in {"off", "failed"}
          /\ MaybeStopTimer(feed, held)
       \/ feed[t] = "finishing" /\ UNCHANGED timer
    /\ UNCHANGED <<broker, jobs, held, folder, rest>>

\* A loop told to stop ends its pass; a running one may end in an error.
LoopEnds(t) ==
    /\ gui # "gone"
    /\ \/ feed[t] = "finishing" /\ feed' = [feed EXCEPT ![t] = "off"]
       \/ feed[t] = "on" /\ feed' = [feed EXCEPT ![t] = "failed"]
    /\ UNCHANGED <<lease, jobs, held, folder, timer, gui, rest>>

\* preview_scan() holds the scanner, and the GUI thread, for one scan.
PreviewScan ==
    /\ gui = "idle" /\ gui' = "preview"
    /\ Grant(Widget, {Scanner})
    /\ UNCHANGED <<jobs, held, folder, timer, rest>>

PreviewEnds ==
    /\ gui = "preview" /\ gui' = "idle"
    /\ Release(Widget)
    /\ UNCHANGED <<jobs, held, folder, timer, rest>>

\* Another client of a shared broker.
StrangerLeases(t) ==
    /\ ~Owns /\ gui # "gone"
    /\ Grant(Stranger, {t})
    /\ UNCHANGED <<jobs, held, folder, timer, gui, rest>>

StrangerReleases ==
    /\ \E t \in Targets : lease[t] = Stranger
    /\ gui # "gone"
    /\ Release(Stranger)
    /\ UNCHANGED <<jobs, held, folder, timer, gui, rest>>

----------------------------------------------------------------------------
(* refresh_display(): the pollers in their order, and then the sources *)

Order == <<"recording", "load", "analysis", "pass">>

\* A poller with nothing in hand returns at once: after the first n pollers
\* the tick is at the next one that has a job, or at the sources.
PollerAfter(n) ==
    LET busy == {i \in n + 1..4 : IsHeld(Order[i])} IN
    IF busy = {} THEN "sources" ELSE Order[CHOOSE i \in busy : \A h \in busy : i <= h]

Tick ==
    /\ gui = "idle" /\ timer /\ gui' = PollerAfter(0)
    /\ UNCHANGED <<broker, jobs, held, folder, timer, rest>>

\* A poller whose job is still at work.
PollsInVain(i) ==
    /\ gui = Order[i] /\ gui' = PollerAfter(i)
    /\ IsRunning(held[Order[i]])
    /\ UNCHANGED <<broker, jobs, held, folder, timer, rest>>

\* A poller that finds its job ended reports it and asks about the timer;
\* the job is dropped with the poller's own frame, after that.
PollReports(i) ==
    LET k == Order[i] IN
    /\ gui = k /\ gui' = PollerAfter(i)
    /\ ~IsRunning(held[k])
    /\ held' = [held EXCEPT ![k] = 0]
    /\ MaybeStopTimer(feed, held')
    /\ LetsGo(held[k])
    /\ UNCHANGED <<jobs, folder, rest>>

\* _poll_pass() asks whether the worker is running first ...
PollPass ==
    /\ gui = "pass" /\ gui' = "draw"
    /\ ended' = ~IsRunning(held["pass"])
    /\ UNCHANGED <<broker, jobs, held, folder, timer, drawn, saved, worker>>

\* ... draws the preview, and believes the answer it was given before.
DrawPass ==
    /\ gui = "draw" /\ gui' = "sources" /\ ended' = FALSE
    /\ drawn' = [drawn EXCEPT ![held["pass"]] = jobs[held["pass"]].n]
    /\ IF ~ended THEN UNCHANGED <<held, timer, saved>>
       ELSE /\ held' = [held EXCEPT !["pass"] = 0]
            /\ saved' = saved \cup {held["pass"]}
            /\ MaybeStopTimer(feed, held')
    /\ UNCHANGED <<broker, jobs, folder, worker>>

\* _refresh_scan(), _refresh_source(): a loop that died stops the timer.
RefreshSources ==
    /\ gui = "sources" /\ gui' = "idle"
    /\ IF \E t \in Targets : feed[t] = "failed" THEN MaybeStopTimer(feed, held)
       ELSE UNCHANGED timer
    /\ UNCHANGED <<broker, jobs, held, folder, rest>>

----------------------------------------------------------------------------
(* shutdown() *)

Shutdown ==
    /\ gui = "idle" /\ gui' = "join_load"
    /\ timer' = FALSE
    /\ UNCHANGED <<broker, jobs, held, folder, rest>>

\* A mutant: the recording is told to stop and not waited for.
JoinsLoadOnly ==
    /\ gui = "join_load"
    /\ JoinsInTime => ~IsRunning(held["load"])
    /\ gui' = "close_broker"
    /\ jobs' = IF IsRunning(held["recording"])
               THEN [jobs EXCEPT ![held["recording"]].cancelled = TRUE] ELSE jobs
    /\ UNCHANGED <<broker, held, folder, timer, rest>>

JoinLoad ==
    /\ gui = "join_load"
    /\ JoinsInTime => ~IsRunning(held["load"])
    /\ gui' = "join_recording"
    /\ jobs' = IF IsRunning(held["recording"])
               THEN [jobs EXCEPT ![held["recording"]].cancelled = TRUE] ELSE jobs
    /\ UNCHANGED <<broker, held, folder, timer, rest>>

JoinRecording ==
    /\ gui = "join_recording"
    /\ JoinsInTime => ~IsRunning(held["recording"])
    /\ gui' = "close_broker"
    /\ UNCHANGED <<broker, jobs, held, folder, timer, rest>>

\* A broker of the window's own is closed with it; a shared one is left.
CloseBroker ==
    /\ gui = "close_broker" /\ gui' = "close_runners"
    /\ feed' = [t \in Targets |-> IF Owns /\ IsLive(t) THEN "off" ELSE feed[t]]
    /\ UNCHANGED <<lease, jobs, held, folder, timer, rest>>

\* The worker is retired over the connection of the call under way, and so
\* after it.  The analysis is not waited for: the threads of jobs are daemons.
CloseRunners ==
    /\ gui = "close_runners" /\ gui' = "gone"
    /\ \A j \in 1..Len(jobs) : jobs[j].at # "calls"
    /\ Retires
    /\ UNCHANGED <<broker, jobs, held, folder, timer, screen>>

----------------------------------------------------------------------------

Presses ==
    \/ SaveDisplayedFrame \/ \E t \in Watched : RecordFrames(t)
    \/ OpenRecording
    \/ \E needs \in {{}, {Camera}} : StartAnalysis(needs)
    \/ AcquireSpectrumImage \/ CancelRecording \/ OpenSessionDirectory
    \/ \E t \in Watched : StartLive(t) \/ StopLive(t)
    \/ PreviewScan \/ Shutdown

GuiThread ==
    \/ Tick \/ PollPass \/ DrawPass \/ RefreshSources
    \/ \E i \in 1..3 : PollsInVain(i) \/ PollReports(i)
    \/ \E t \in Targets : LiveStopped(t)
    \/ PreviewEnds \/ JoinLoad \/ JoinRecording \/ CloseBroker \/ CloseRunners

Works(j) == \/ IsGranted(j) \/ IsRefused(j) \/ Frame(j) \/ Finishes(j)
            \/ SeesCancel(j) \/ Keeps(j) \/ EnsureStarted(j)
            \/ Connects(j) \/ StartFails(j) \/ Answers(j) \/ CallFails(j)

Next ==
    \/ Presses \/ GuiThread
    \/ \E j \in JobIds : Works(j) \/ Fails(j) \/ WriterFails(j) \/ KeepFails(j) \/ Reclaims(j)
    \/ WorkerDies
    \/ \E t \in Watched : LoopEnds(t) \/ StrangerLeases(t)
    \/ StrangerReleases

Spec == Init /\ [][Next]_vars

\* A handler comes to its end, a device answers and a lease is given back;
\* the event loop serves a timer that is due between two presses, however
\* often the operator presses.
FairSpec == /\ Spec
            /\ WF_vars(GuiThread) /\ SF_vars(Tick)
            /\ \A j \in JobIds : WF_vars(Works(j))
            /\ WF_vars(StrangerReleases)

----------------------------------------------------------------------------
(* Properties *)

\* One recording is at work at a time, and it writes into the directory the
\* window shows: no recording is under way in a session the operator does not
\* see.  A pass and the burst of an analysis are not asked about.
RecordsWhereItShows ==
    LET busy == {j \in 1..Len(jobs) : jobs[j].kind = "recording" /\ IsRunning(j)} IN
    /\ Cardinality(busy) <= 1
    /\ \A j \in busy : jobs[j].folder = folder

\* A lease outlives its worker only with a recording that left its series half
\* consumed: until it is polled, if it was cancelled, and for as long as its
\* error keeps it, if its writer failed or it came to no frame.  No end of a
\* pass, of an analysis or of a device leaves one, whatever takes its place.
LeaseHasAnOwner ==
    \A t \in Targets : lease[t] \in JobIds =>
        LET job == jobs[lease[t]] IN
        \/ IsRunning(lease[t])
        \/ job.kind = "recording" /\ (lease[t] = held["recording"] \/ job.clings)

\* A pass that was reported as saved was drawn to the last position it came to.
LastDrawIsWhole == \A j \in saved : drawn[j] = jobs[j].n

\* A window that is gone has left no recording half written, its workers
\* answering within the time shutdown() gives them.
ClosedRecordingsAreWhole ==
    gui = "gone" => \A j \in 1..Len(jobs) :
        jobs[j].kind = "recording" => jobs[j].file # "open" /\ ~IsRunning(j)

\* A lease ends with the report of the job that took it.  The code does not
\* keep it: the error of a recording whose writer failed keeps its lease.
LeaseEndsWithItsJob ==
    \A t \in Targets : lease[t] \in JobIds =>
        IsRunning(lease[t]) \/ lease[t] = held["recording"]

\* Nor does it leave the process of its analyses behind, if no analysis was
\* at work: whether that process had died, could not be started, or failed
\* its last analysis, and after the analysis that was under way when asked.
WorkersAreReaped ==
    gui = "gone" => \/ worker = "none"
                    \/ \E j \in 1..Len(jobs) : jobs[j].kind = "analysis" /\ IsRunning(j)

\* What a closed window leaves: no half of a recording, and no process.
LeavesNothing == ClosedRecordingsAreWhole /\ WorkersAreReaped

IsClosing == gui \in Closings

Waits(k) == IsHeld(k) /\ ~IsRunning(held[k])

\* The end of an analysis or of a pass never waits for ever: it is answered on
\* the screen, or another takes its place, or the window closes.
AnswersArrive == []<>(IsClosing \/ ~(Waits("analysis") \/ Waits("pass")))

\* The same of a recording opened from disk, whose result "is collected by
\* the display timer".  The code does not keep it: a stop pressed, or a poll
\* that reports another job, between its end and its poll stops the timer.
LoadArrives == []<>(IsClosing \/ ~Waits("load"))

\* A live loop is watched by a running timer: a lease that ends gives the
\* view back.  The code does not keep it: a timer stopped under the lease
\* stays stopped, and a cancelled recording's lease ends after the question.
LiveIsWatched == gui = "idle" /\ (\E t \in Targets : feed[t] = "on") => timer

\* No file is abandoned half written by a window that closes.  The code does
\* not keep it for a pass, nor for the burst of an analysis.
NothingIsAbandoned ==
    gui = "gone" => \A j \in 1..Len(jobs) : jobs[j].file # "open"

\* A window that closes leaves no process behind, whatever was under way.  The
\* code does not keep it: a worker being started is known to the analysis's
\* thread alone, which nobody waits for.
NoWorkerIsLeft == gui = "gone" => worker = "none"

\* A window that is told to close is gone in the end, though it waits for a
\* load, a recording and a call under way without a bound.
CloseEnds == IsClosing ~> gui = "gone"
=============================================================================
