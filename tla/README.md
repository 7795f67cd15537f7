# A TLA+ model of miainwoodpecker

miainwoodpecker drives an electron microscope: device servers own the
hardware, a broker arbitrates one instrument's devices between clients, and
viewers, notebooks and dashboards watch live frames, take leases, acquire and
save. This directory holds TLA+ modules that model its concurrent parts, the
TLC configurations that check them, and TLAPS proofs of the properties that
matter most. Paths below are relative to `src/miainwoodpecker/`.

    tlc -workers 2 -config BrokerOverlap.cfg MCBroker    # a run
    tlapm Broker_proofs.tla                              # a proof

`PROJECT.json` lists every run, the source lines every definition stands for,
a mutant of the code that breaks each property, the findings, the hazards and
the theorems.

## 1. Inventory

| Part | State it keeps | Operations | How it interacts | What is hard | What makes it correct |
|---|---|---|---|---|---|
| Live loop, `acquisition/live.py` | thread handle, stop event, latest frame, count, error | `start`, `stop(timeout)`, the worker's `_run` | its worker calls the device; stopped from any thread | a join that times out, a stop and a start at once | one worker; a `True` from `stop` means the device is free |
| Broker, `broker/local.py`, `interface.py` | leases, claims, loops, specs, caches | `start_live`, `stop_live`, `reconfigure_live`, `grant`, `renew`, `release`, `check_lease`, reads | starts and stops live loops; calls devices | waits made outside the lock, lapses, restarts, faults | one driver per device, grants whole, nothing left stopped |
| Broker server, `broker/server.py`, `app.py` | a thread and a set of lease ids per connection, a writer per target | accept, dispatch, disconnect, close | calls the broker for its clients | disconnects, closing under load | a connection's leases end with it |
| Broker client, `broker/remote.py`, `invitation.py` | one connection and its lock | lease, renew, device calls | talks to the server | a renewal waits behind the device call under way | a lease ends with its block or its connection |
| RPC and frames, `devices/rpc.py`, `serving.py`, `shared_frame.py`, `remote.py` | connection lock, frame lock, shared segment, poisoned probe | `send_call`, publish, copy out, `check_health` | client and device server | late replies, a segment overwritten while read | an answer belongs to its question; a frame is of one grab |
| Device server, `devices/nion_server.py`, `remote.py` | connections, report, stop event, process | spawn, park, watchdog, signals, shutdown | parent and child process | a client that dies, a wedged park, ports lost | the beam is never left on unattended |
| Other servers and drivers | vendor handles; the detector's control unit over HTTP | the same protocol | through the serving loop | an operation of several requests that breaks off | the protocol above; a frame is of its trigger, the detector is held exactly while armed |
| Sequences, `acquisition/sequence.py` | a sink per signal | append, flush, close | writers | failure of one of several | a file complete for the frames that came |
| Jobs, `jobs.py`, `viewer/jobs.py` | thread, result, error, cancel flag | start, join, cancel | polled by a GUI | restart after cancel | exactly one of result and error |
| Session, `storage/session.py` | names on disk, sidecar | reserve, record, describe | several processes on one directory | a number read and gone stale | no two recordings share a file |
| Dashboard, `dashboard/` | log of acquisitions, frames held | acquire, save pending | broker client, session | save and acquire at once | data is never let go before it is on disk |
| Tray and launcher, `tray/`, `launcher.py` | broker process, front ends, invitation | start, poll, open, shutdown | processes and a file | deaths at any point | front ends stop before the broker, the broker parks |
| Analysis worker, `analysis/remote.py` | process, connection, segment | `run`, `close` | an analysis's thread runs it, the window's closes it | a worker that died, or is being started when the window closes | the next call gets a fresh one, the last is ended with the window |
| Viewer, `viewer/` | four jobs, display timer, session directory | buttons, tick, polls, shutdown | starts jobs, leases, polls job and broker | a timer stopped too soon, a directory changed, a window closed at work | every result reaches the screen, no file left half written |

The components that are not modelled, with the reason for each, are in
`PROJECT.json`.

## 2. Plan

Done, in this order because the broker is what the rest relies on:

1. `LiveAcquisition` - checked and proved.
2. `LeaseTable` (abstract custody) and `Broker`, which implements it - checked
   and proved.
3. `BrokerServer`: connections, what they were granted, disconnects, the order
   of `server.close()` and `broker.close()`, the writer a target's callers
   share. Built over `LeaseTable` - checked and proved.
4. `FrameChannel`: `send_call`, its locks, the admission of one client, the
   shared segment and its copy-out - checked and proved.
5. `DeviceServer`: connections and their count, park, watchdog, signals,
   teardown and force - checked and proved.
6. `DeviceClient`: the port lost, the spawn retried, force, the segments of a
   dead server - checked and proved.
7. `Session`, and `Dashboard` over it: names, files and listings under
   acquisitions, saves and recordings at once - checked and proved.
8. `Supervisor`: launcher and tray, one broker and its front ends - checked and
   proved.
9. `Viewer`: the live window, its timer, its workers and the process that
   computes its analyses - checked and proved.
10. `Dectris`: a detector adapter whose operations are several requests -
    checked and proved.

11. Proofs of every invariant a run checks - done.

## 3. The modules

### LiveAcquisition

One `LiveAcquisition` object. `thread`, `stop_event`, `error`, `latest` and
`frame_count` are its attributes; `worker[w]` is where worker thread `w` is in
`_run`, `pc[c]` where a caller is in `start()` or `stop()`. `start` is
`StartCheck`, `StartReset`, `StartSpawn`; `stop` is `StopSignal`, then
`StopJoined` or `StopTimesOut`, then `StopClears`; the worker is `WorkerCheck`,
`GrabStored` or `GrabRaised`, `ThreadEnds`. Every read and write the lock does
not cover is a step of its own. `UsageAssumption` names the two ways the code
uses the object: one owner that restarts it, or one start and many stops.

### LeaseTable

The abstract promise of `InstrumentBroker.lease` - "a lease is granted whole or
refused whole": `owner` maps each target to a lease or nobody, `Acquire` takes
all of a lease's targets at once from nobody, `Drop` gives all of them back.

### Broker

`LocalBroker` and the live loops it runs. A client is a thread inside a broker
call: a handler thread of the server, or a script that owns the broker.

| Variable | Code |
|---|---|
| `claims` | `self._claims` |
| `granted`, `holding`, `restarts` | `self._leases`: its keys, `Lease.targets`, `Lease.restarts` |
| `lapsed` | leases with `expires_at <= now` |
| `specs` | `self._specs`, reduced to the length of a pass (`none` when absent, `unset` without scan parameters) |
| `current`, `drives`, `pass`, `doomed` | `self._loops`, what each worker drives, the length of its pass, its stop event |
| `powered` | cameras between `camera.start()` and `camera.stop()` |
| `pc`, `call`, `held` | where a client is, its locals, the lease it was given |
| `wanted` | history: targets started and neither stopped nor failed since |
| `raced` | history: targets on which one client overtook another's check |

An action is one stretch nothing divides: the body of a `with self._lock`, a
read made outside the lock, a device call. The waits between them are values of
`pc`. `CallBegins` and `SweepOne` are `_reclaim_expired`, with which every call
but `release` begins; `RestartOne` is `_restart`; `StartLive`,
`ReconfigureLive`, `StopLive`, `GrantClaims` .. `GrantDone`, `RenewChecks` and
`RenewWrites`, `CallChecks`, `PeekChecks` are the calls; `StopSignals`,
`StopJoins`, `StopHalts`, `StopTimesOut` the `_stop` that `stop_live` and
`grant` share; `PassEnds` and `GrabRaises` the workers.

The code checks a claim, a lease or a loop in one locked section and acts on it in
the next, or outside the lock, and between the two another client may come. Where
that breaks what the code's text says - a lease reclaimed while its holder's call is
in the device (`SweepOne`) or about to be written back (`RenewWrites`), a loop
restarted on a target that was taken or started meanwhile (`RestartOne`), a camera
stopped after another client had started it (`StopHalts`), a restart given up because
its parameters are gone (`RestartRaises`) - the target goes into `raced`. The
properties are about all others, so they say that these five are the only ways.
`BrokerTwoCallers.cfg`, `BrokerRestartRace.cfg` and the run `broker_revival` show
three of them.

Abstractions: time is a flag per lease; `StopSignals` reads the deadline, the
loop and `is_running` and sets the stop event in one step, since a loop that
ends or is replaced between those reads is one that does so after them;
`FailsToStart` is a camera or a thread that does not start, the latter when the
ids of loops run out; a pass is `short` or `long` and a short wait gives up on a
long pass; a release is made only by the client that was granted the lease;
`snapshot`, `previews`, the caches of control values and camera settings, and
`close()` are left out.

`MCBroker` gives TLC an instrument, a camera and a scan unit, ranked as
`LEASE_ORDER` does.

### BrokerServer

The server of a broker: one handler thread per connection (`_serve`) over a
broker that keeps the promise of `LeaseTable`, which it instantiates.

| Variable | Code |
|---|---|
| `conn` | where each handler is in `_serve`: in `recv`, in the dispatch, in the sweep that begins a call, in the device, in `send`, in its `finally` |
| `granted` | its local `granted`, the lease ids it will release |
| `peer`, `inbox` | the process at the other end and a call it has sent |
| `owner`, `table`, `lapsed`, `restarts`, `loops` | the broker's claims, leases, deadlines passed, what a release restarts, live loops |
| `due` | the lapsed leases a call found when it began and reclaims one by one |
| `using`, `copying`, `writers`, `shown` | the device call under way, the copy the client is making, `self._writers`, whose frame is in each segment |
| `phase` | `server.close()`, then `broker.close()` |
| `taken`, `late` | history: connections whose lease was reclaimed under the call or its copy; targets whose segment was last written by such a call |

The broker's own calls are one step here, sweep apart: their interleavings are
those of `Broker`. A lease may lapse at any moment, inside its holder's call or
copy too. A restart that raises in the sweep of a broker call is its answer; in
that of a device call it ends the handler's thread (`server.py:367`). Two
constants name what the environment may do. `LateCalls`: a handler given up on
by `close()` makes another call. `Poisoned`: targets whose restart raises out of
`release`.

### FrameChannel

One frame-producing target, its reused segment and the client processes that
call it from several threads. `link`, `handler`, `refused`, `inUse` are the
connections, `accept_loop`'s lock and `rejected`; `request`, `answer`, `named`
what is on each connection; `pc`, `wants`, `ref` a thread in `send_call` and
`_frame`; `lock` and `frameLock` the client's two locks; `segment`, `size`,
`content` the writer's segment. A thread may ask for a frame, a value, or the
target's close, which takes the connection's lock but no frame lock
(`remote.py:1141`) and retires the segment (`Retires`); another thread's copy of
the retired segment may then fail, which is not told apart from its end. A client
process may vanish at any point, its handler still in the device, and another
client be refused or admitted.

### DeviceServer

One device server process and the client that spawned it.

| Variable | Code |
|---|---|
| `proc`, `stop` | the process (serving, left `serve()`, `os._exit`, killed), `stop_event` |
| `conn` | each connection's handler in `serve_connection` |
| `beam` | the blanker of the column |
| `ever`, `unsaid`, `alarm` | `_ever_connected`, counts changed and not yet signalled, `_connection_change` |
| `watchdog`, `signal` | `_orphan_watchdog` and `_parking_signal_handlers`, point by point |
| `parker`, `todo`, `pending`, `failing`, `report` | `park_and_release`: who holds `_lock`, the round it is at and what is left of it, its errors, `_report` |
| `pc`, `closing`, `graceful` | the client's main thread in `_shut_down_server`, its locals |
| `link`, `lock`, `late` | the client's connections, the calls on them, a call begun after the teardown |
| `settled`, `outside` | histories: a full grace period has passed; an operator signalled |

`Connections`, the open connections, is `_connections`. A call on the instrument
may turn the beam on. `Wedged` names targets whose calls may never return,
`HasBlanker` says whether the instrument can be parked at all: without a blanker
`park()` does nothing and reports no error (`nion_server.py:1348`), and
`ExitedIsDark` promises only that it was called. `ParkMayFail` lets any step of
a park raise, `Interrupts` lets an operator signal the server once. A client
makes at most one call after it began the teardown (`late`), since its threads
have been told to stop by then. The segments, the ports and the health probe are
left out.

### DeviceClient

The client's side of a device server it launches. `proc[a]` is the server
spawned by attempt `a`, `port` who holds the port that was probed free, `at`
where `_spawn_and_connect`, the session and `_shut_down_server` are; `conns` the
connections, `segs`, `made` and `last` the segments linked, made and known to
the client's readers. The server is what its client can see of it: it boots,
listens, hangs, dies. `DeviceServer` has its inside.

### Session and Dashboard

`Session` is one directory and its operations, with no next-state relation of
its own; `Dashboard` extends it with the threads that call them.

| Variable | Code |
|---|---|
| `disk` | the files, by name: whose they are, their frames, empty, growing, part or final, locked or not |
| `work` | per recorder, where it is in `record_datasets` or `record`, its item's number and its open sinks |
| `cache`, `look` | the cache of `recordings()`, and the file whose stamp was taken and which is read next |
| `job`, `lease` | an `AcquisitionJob` or a `RecordingJob`; the lease of the first |
| `saver` | a save: its copy of the log and where it is in it |
| `log` | `SessionLog._entries`: per signal its frames in memory, or a path |

A name is a number, a signal, an attempt and the second of its stamp. A name is
claimed by creating it (`Claims`), and `TriesAnother` is the loop around an
`FileExistsError`. `WriteRaises` and `CloseRaises` are the faults of the file
system. `NexusWriter.append` makes the stack longer before it writes and
`FrameSink.append` flushes after it, so a write that raises may leave the file
as it was, opened, or longer by the place of its frame (`Fills`), which the
close makes final: the frame is in the file, or a fill value, and was not taken.
A file's `Stamp` is how many frames it has and what was done last, for the size
and the time that the code compares. `SeriesEnds(j, TRUE)` is a fault of the
device, `Killed` the end of the process of a recording. What a Python frame or
exception keeps alive is modelled where it matters: `EndsAcquisition` leaves the
suspended generator of a failed consumer with its lease, `Forgets` is the end of
the error that holds it.

### Supervisor

The launcher with a window (`_supervise`), the launcher serving (`_serve`) and
the tray (`InstrumentSession`, `TrayInstrument`), one of which `kind` is, with
the processes each starts. `main` is the thread that supervises: in its loop, or
in `stop()` with the children still to stop (`todo`) and what comes then; the
tray's event loop runs again inside a message box, of which `dialogs` are those
that are up. The tray also asks the broker how it is, on the same thread and with
no timeout (`main.at` is `health`): when the instrument begins to be served, on a
timer of its own, from the menu, and before it asks whether to quit. `deaf` are
the children that hang, which neither heed a signal nor answer; `file` is the
invitation, half written or whole, or left by an earlier run.

### Viewer

The live window. A handler of the GUI thread is one action, but for those that
wait (`preview_scan`, `stop_scan`, the joins of `shutdown`), and the tick is one
action per poller, because its workers go on between two of them.

| Variable | Code |
|---|---|
| `jobs`, `held` | the workers started, and which of them `_recording_job`, `_load_job`, `_analysis_job` and `_pass_job` refer to |
| `timer`, `gui`, `ended`, `drawn`, `saved` | the display timer; where the GUI thread is; what `_poll_pass` was told; what was drawn of a pass; the passes whose end was shown |
| `folder` | the session's directory |
| `worker` | the process of `WorkerRunner`: none, being started and known to its starter alone, up, died |
| `feed`, `lease` | the broker as the window sees it: a live loop on, finishing, paused under a lease, off or failed; who holds a target |

`Owns` is `_owns_broker`; another client (`Stranger`) exists when it is not.
A recording that is cancelled, or whose writer fails, leaves its series suspended
inside its lease. A cancelled one lets both go when its poll drops the job; one
that ends with an error does not (`clings`), because the traceback of the error
the job keeps (`jobs.py:152`) holds the job: its lease stays until the collector
finds the cycle or the broker reclaims it (`Reclaims`).
`JoinsInTime` says whether the joins of `shutdown` outlast the workers, which
they wait for with a timeout. An analysis is computed by a process, as when
isolation is switched on (`open_runner`): `EnsureStarted`, `Connects` or
`StartFails`, `Answers` or `CallFails` are its `run()`, `Retires` its `close()`,
which `shutdown` reaches last. The window has one runner here, of the three it
may have.

### Dectris

One detector camera and its control unit. An operation (`Configure`, `Start`,
`Stop`, `AcquireFrame`, `Close`) lists the requests it makes, which may be
`Answered`, `Refused` by the control unit, `Unreached`, or done and their reply
lost (`ReplyIsLost`); an image is exposed into `coming`, arrives in the monitor
buffer `images`, and is fetched, drained by another client, or given up. `cam`
is what the camera believes, `dcu` what the control unit is. Between any two
requests another client may do all that the control unit lets anyone do: take
an image, arm the idle detector, trigger a ready series, ours or its own, end a
series, write the exposure; and the control unit may restart. `Faults` names
what may go wrong in an instance, and each property the kinds it does not
survive: they are those in which the code, too, has no way to know.

## 4. What is checked

### Passing runs

| Run | Instance | Shows |
|---|---|---|
| `live_owned` | one owner, three workers, two frames | the handle never lies, `True` means free, counts are this run's, a stop takes effect |
| `broker_overlap` | two clients interleaving at every point, device calls and reads under leases, lapses, late renewals, grabs that raise, a slow camera that raises | but for `raced` targets: one driver per target, leased targets dark, live cameras started; whole grants, refinement of `LeaseTable` |
| `broker_restarts` | two clients interleaving at every point, camera and scanner, a lease at a time, parameters that go missing, joins that time out | what was started runs again or is leased, but for `raced` targets; no orphan claims |
| `server_serves` | two connections, one target, two ids, clients that die or hang up anywhere, leases that lapse anywhere, a server that closes | every lease has a handler that will release it, a client copies its own frame unless a lease was reclaimed under a call, a closed connection lets go |
| `frame_channel` | a viewer with two threads, a second client, frames of three sizes, four segments, closes of the target | a reply is the asker's, a copy is the frame replied, one client at the device, a call is answered |
| `device_server` | a camera and the instrument, two threads of calls, crashes, signals, deaths, parks that fail | a server that leaves has parked and, unless it reported an error, is dark, no park under a client, a dead client leaves no server, a teardown ends |
| `device_client` | two targets, three attempts, two segments each, ports lost, servers that hang and die | no server or connection of any attempt is left, a segment is unlinked only after its server's death, and then always when it is known |
| `archive` | an acquisition, two saves, a recording of another process, a listing, one fault of the device or the file system, and a kill | a file is one signal's, the log's data is in memory or whole on disk, what got frames is closed with all of them whatever else a failed write left, a listing is of the file it was made of |
| `supervisor` | each of the three supervisors, two kinds of front end, three processes, one that hangs, one dialog | the broker goes last, nothing is left, an end asked for comes unless the tray waits for a broker that hangs, a lost broker is noticed |
| `viewer` | any two workers, a scan, another client, two directories, the close of the window | recordings go where the window says, no lease outlives its worker but that of a recording left inside its series, recordings closed whole and no worker process left by a close, what an analysis or a pass came to reaches the screen |
| `dectris` | two exposures, two triggers per arm, two faults or intrusions of any of eleven kinds | the frame time covers the count time; a frame is of its trigger and no series is held by a camera that forgot it, short of the kinds the properties name |

The bounds. Two clients suffice for every pair of calls to meet, which is what
each hazard of the broker needs; two lease ids let one be reclaimed and revived
while the other is granted. Two targets of different kinds give `LEASE_ORDER`
something to order; a grant of both can fail after the first. `broker_restarts`
has one id: two grants overlap in it only until one is refused, and a lease
follows another once that is forgotten, which is what a restart can collide
with. The loop ids let a worker that outlived its stop and its successor coexist
when the code lets them. `live_owned` has three workers so that a restart can
follow a restart; the frame bound only caps a counter. In `server_serves` one
target is enough for two connections to meet on a writer, and two ids for a
lease to follow a lapsed one. Sizes 1 to 3 in `frame_channel` let a segment be
replaced while a thread is copying from it, and replaced again; `MaxSegments` =
4 leaves one more to make after a close. `device_server` needs one device
besides the instrument for the teardown to be partly done; with two it passes as
well. `device_client` retries until its attempts are used up. In `archive` two
saves work from copies of one log while the acquisition that wrote it, or a
recording, is in the same directory; two attempts within a number let two claims
collide, and three presses leave one of the four threads idle in every
behaviour, any one. In `viewer` two workers are a recording over a recording, a
pass over a pass, and every pair of kinds. In `dectris` two triggers per arm let
a series run out and be armed again, and two faults let a fault meet the retry
of another.

Deadlock is checked in `live_owned`, in the broker's runs and in
`frame_channel`. The other systems may stop for good: a server that has closed,
a session that has finished, a directory whose jobs are over, a supervisor or a
window that has ended, an adapter that has been closed.

Fairness. `LiveAcquisition` assumes that a worker goes on and that a grab
returns or raises; nobody is assumed to call `stop`. `BrokerServer` assumes that
handler threads are scheduled and device calls return, of a client nothing.
`FrameChannel` assumes the same of the server and that a thread with a reply
takes it and copies its frame; nothing is assumed about who is given a lock, so
a thread waiting for one may wait for ever. `DeviceServer` assumes that the
threads of both processes are scheduled and that a call returns unless its
target is wedged; nobody has to start, tear down, signal or die, and the
timeouts may or may not come first. A timeout that is the only way on does come
(weak fairness of the teardown), because the code gives each of those waits a
deadline. `Supervisor` assumes that its main thread goes on: each wait of
`stop()` has a timeout, and the kill after it ends a process whatever that
heeds. Of the tray's timer it assumes strong fairness, because the calls to the
broker take the thread in between, and that a call returns when the broker does
not hang or is gone. One that hangs and does not die keeps the tray for ever, so
`AskedIsOver` excepts it: `AskedIsOverAnyway` is the same without the exception.
No process has to die, publish or heed, and no dialog to be answered. `Viewer`
assumes that the GUI thread goes on, that a worker does, and that another
client's lease ends; and of the display timer strong fairness: it is due again
and again as long as it runs, between handlers that take the GUI thread for a
while. Nobody has to press anything.

### Violations: where the code and its text disagree

| Run | The text | The code |
|---|---|---|
| `broker_revival` | a reclaimed lease cannot be renewed | `renew` writes back a lease reclaimed since its check |

It checks one property on the smallest instance that shows it, and
`PROJECT.json` quotes the text. The others met on the way are instances to run by
hand, below.

### Instances to run by hand

Configurations that are not listed as runs: each holds or fails as stated.

| Configuration (module) | Shows |
|---|---|
| `LiveShared.cfg` (`LiveAcquisition`) | holds: one start, three threads that stop, as the broker uses a loop |
| `BrokerHolders.cfg` (`MCBroker`) | holds: with holders that renew in time, calls that overlap, a camera that raises, and scans without parameters, a lease owns what it lists and no target has two callers |
| `BrokerLapse.cfg` (`MCBroker`) | holds: a lapsed lease is reclaimed if a display calls from its timer; it assumes a thread inside a call goes on and passes end, and of other clients nothing |
| `BrokerRestartRace.cfg` (`MCBroker`) | `LeasedIsAlwaysDark` fails: a release restarts its loops after its claims are gone: one runs under a lease granted since (broker/interface.py:1000-1003 says the loops are stopped before a lease is granted) |
| `BrokerRefusal.cfg` (`MCBroker`) | the loop whose join timed out a grant ends with its pass (broker/interface.py:186 says "Nothing has been left stopped when this is raised") |
| `BrokerLeak.cfg` (`MCBroker`) | a camera whose `stop()` raises inside a grant leaves claims nobody holds |
| `BrokerKeyError.cfg` (`MCBroker`) | a target claimed by a grant still stopping loops is refused with `KeyError`, not `DeviceBusyError` |
| `BrokerTwoCallers.cfg` (`MCBroker`) | `AlwaysSoleDriver` fails (broker/server.py:20): a call checked before the lapse still runs after the next grant: two callers in one device |
| `BrokerStopFalse.cfg` (`MCBroker`) | after a `False` of `stop_live` the loop "left running" ends with its pass |
| `BrokerDeadline.cfg` (`MCBroker`) | a join's deadline is that of the parameters of now, not of the pass in flight |
| `BrokerPeek.cfg` (`MCBroker`) | `controls` looks at the claim, and reads after it was taken |
| `ServerLateCall.cfg` (`MCBrokerServer`) | a handler that `server.close()` gave up on starts a loop on an instrument that was parked |
| `ServerSplice.cfg` (`MCBrokerServer`) | `EveryFrameIsOwn` fails: a lease lapses inside a call, two holders' frames share a segment and one copies the other's |
| `ServerPoisoned.cfg` (`MCBrokerServer`) | a release that raises in the `finally` leaves the connection's other leases behind |
| `DeviceWedged.cfg` (`DeviceServer`) | between asking and force, the teardown asks every device to close without a bound: a call that never returns keeps it from the force |
| `DeviceGrace.cfg` (`DeviceServer`) | a change signalled before the last connection closed cuts the watchdog's grace period short |
| `DeviceLit.cfg` (`DeviceServer`) | a server signalled under a client parks, answers a call that turns the beam on, and leaves with it on |
| `DeviceClientCollision.cfg` (`DeviceClient`) | a stranger that answers the handshake on a lost port ends the start, which is not retried as a collision |
| `ArchiveLeaseKept.cfg` (`MCDashboard`) | an acquisition whose file cannot be written is over with its lease held, by the error it keeps |
| `SupervisorStaleAddress.cfg` (`MCSupervisor`) | a dashboard that died and was opened again between two ticks has the address of the one before |
| `DectrisStale.cfg` (`Dectris`) | an image that comes after it was given up is taken for the next, and every later frame is the one before; with `Faults = {"triggered"}`, the image of another client's trigger is |

The same instances with another last line. `Archive.cfg`: `TypeOK`,
`ItemSharesItsNumber` (an item's files have one number) and `PathIsForever` hold;
`EverySinkIsClosed` fails (a close that raises leaves the later sinks open),
`ListingIsFresh` fails (a file may have grown since it was described),
`NumberIsOneAcquisition` fails (two acquisitions may have one number, in names
that differ). `Supervisor.cfg`: `SupervisorTypeOK`, `OneOfAKind`, `ServesItsOwn`
hold; `AskedIsOverAnyway` fails, because a broker that hangs while the tray asks
how it is keeps the tick from coming.
`DeviceClient.cfg`: `StartEnds` holds, for a server that does not hang in
`describe`. `Viewer.cfg`: `LastDrawIsWhole` and `CloseEnds` hold; `NothingIsAbandoned`
fails, because neither a pass nor an analysis is joined at shutdown;
`LiveIsWatched` fails, because a live view paused under a lease runs again and is
not polled when the timer was stopped meanwhile; `LoadArrives` fails, because a
stop pressed between the end of a load and its poll stops the timer, and the file
is never shown; `NoWorkerIsLeft` fails, because nobody ends the process of an
analysis that is being started when the window closes; with `JoinsInTime = FALSE`,
`LeavesNothing` fails; `LeaseEndsWithItsJob` fails, because the error of a
recording whose writer failed keeps its lease after the poll. `Dectris.cfg` with
`Faults = {"unreached"}`: `LabelIsTrue` fails, and with `Faults = {"lost"}`,
`ClosedIsLetGo`. The type invariants and `LiveAcquisition.ErrorIsThisRun`,
`DeviceServer.DoneMeansGone` and `ParksOnce` hold on the instances of their runs.

## 5. What is proved

For every value of the constants that meets their assumptions.

`Lifecycles_proofs` has the three components that start something and must see
its end: a worker thread, a server process, a broker with its front ends. One
module extends their three specifications, so what every module has once (`Init`,
`Next`, `Spec`, `TypeOK`) has the component's name before it in the last two.

- `LiveAcquisition`, for any callers, workers and restarts: `IInv`, the
  conjunction of the type invariant, the checked properties and what they rest on
  (where a caller is tells what `thread` and the worker it joins are), is
  inductive; `TypeCorrect`, `HandleIsTruthful`, `StopFreesTheDevice` and
  `ProgressIsThisRun` follow.
- `DeviceClient`, for any targets, attempts and segments: `NoServerIsLeft`,
  `KnownSegmentsAreUnlinked`, `TheLivingAreSpared` and `ClientTypeCorrect`.
  `OneServer`: of all attempts only the one under way can have a server, and at
  the points where the client takes it for gone it is; `Unlinked`: by the time the
  connections are closed for good, the server has reported its segments gone or
  the client has swept those it had read from. What makes it inductive is that
  nothing but a spawn revives a process, so a look at it never gets stale.
- `Supervisor`, for any of the three supervisors, front ends and labels:
  `ClientsGoFirst`, `OverLeavesNothing`, `OneOfAKindIsServed` and
  `SupervisorTypeCorrect`. `Remembered`: each front end of the tray that is up is
  in `running`, so `shutdown` asks all; `Accounted` and `BrokerLast`: while
  processes are being stopped, those that are up are still to come, the broker
  after all others, and when nobody is to come nobody is up (`NoneLeft`).
  `Remembered` has to survive `poll`, which drops the front ends that are gone:
  `PrunedKeepsUp` says that it drops no other. That is an induction on the length
  of a sequence, made without the library's induction theorems: a least length at
  which the recursion goes wrong (`HasLeast`) would be no least one. The provers
  know no definition of `SelectSeq`, so `Pruned` writes its recursion out.

`Broker_proofs`:

- `TypeCorrect`: `TypeOK`, with the shape of a call's locals at each `pc`
  (a client in the middle of a stop has a target left to stop, and so on).
- `LeasesAreWhole`, `BrokerImplementsTable`: the strengthening is `Custody`.
  A grant in progress has all its claims and its id is nobody else's; a lease
  not in the table that still has claims belongs to one grant; a lease of the
  table has all of its targets or none. The second case of the last is the
  renewal that revives a reclaimed lease, so wholeness and the refinement hold
  in spite of it.
- `NoOrphanClaims`, assuming no faulty camera: no exception can leave `grant`
  between its claims and its lease. The `ValueError` of a restart is the one to
  exclude, by an invariant on specs: a loop that ran has parameters. The
  configuration `BrokerLeak.cfg` shows that the assumption is needed.
- `UnlapsedLeasesExclude`, assuming no lease lapses: `LeaseOwnsItsClaims` and
  `SoleHolder`. `broker_revival` and `BrokerTwoCallers.cfg` show that it is
  needed.
- `TargetsHaveOneDriver`, `LeasedTargetsAreDark` and `CamerasArePowered`, without
  an assumption: calls overlap, leases lapse, joins time out, cameras raise. `Apart`
  holds of all targets: a live worker that `self._loops` names drives the target it
  is named for, only live workers are signalled, no two clients hold one lease.
  `Tidy` is the invariant of one target nobody has `raced`: its only worker is the
  one named, its camera is powered while that runs, a lease of the table that lists
  it has it, dark, and every client inside a call knows it so (`Knows`): a call in
  the device is under a standing lease, and a grant that has passed a target leaves
  nothing running there. Each action is one lemma `Tidy...`: it keeps an unraced
  target tidy, or puts it into `raced`.
- `NothingStaysStopped`, without an assumption: `NothingLeftStopped`.
  `WantedAreKept` follows each unraced target that was started and not stopped
  since: it runs unsignalled (`Goes`), or it is among the restarts of a lease in
  the table (`Owed`), or a call is stopping it, has stopped it or still has to
  restart it (`Tends`), or a camera that raised has left it to a claim of nobody
  (`Orphaned`). With no call in progress the second and the last are claimed.

`FrameChannel_proofs`, for any number of clients, threads and sizes:
`AnswersMatch`, `FramesAreOwn`, `DeviceIsAlone` and `TypeCorrect` follow from
`IInv`, which is inductive (`Inductive`). Its parts say why the protocol is
right. `Locking`: a thread between its send and its reply holds the
connection's lock, one that asked for a frame holds the frame lock until it has
copied it. `Wired`: so what is on an open connection, call or reply, is that of
the lock's holder. `Admitted`: a connection that was not refused is the one in
use. `Pointed`: so nobody overwrites a segment that a reply names or a thread
copies from; a close retires the segment and leaves what is in it.

`Dectris_proofs`, for any exposures, faults and number of triggers:
`FrameTimeAlwaysCovers`, `ArmedIsAlwaysHeld` and `FrameIsAlwaysOfItsTrigger`
follow from `TheyAgree`, whose `IInv` has three parts beside the types.
`Ordered`: whichever of the two exposure registers is to be written next, the
frame time covers the count time before and after it, so the order in which
`configure` writes them may break off anywhere. `Agreed`: the camera knows the
series the control unit has for it, whoever ends it, while no reply is lost; and
the series it believes armed is armed until somebody else ends it. `Awaited`: at
most one image is out, and it is that of the trigger the operation waits for,
while no image is given up and nobody else triggers. The intrusions share one
lemma, `IntrusionKeepsIt`. The exceptions are in the properties, which have
to name them: the run counts what went wrong, and `DectrisStale.cfg` shows two
of them to be needed.

`BrokerServer_proofs`, for any connections, targets and leases. `IInv` says that
a lease stands as long as it has targets (`Standing`), that no two connections
were granted the same one (`Apart`), and where the two ends of a connection can
be together (`Placed`); from it `TypeCorrect`, `HandlersRelease`, and
`KeepsThePromise`, that the server's claims change as `LeaseTable` says.
`FramesAreOwn` needs more: from the check of a lease to the end of the client's
copy it stands, or was reclaimed under the call, or the server closes and every
other handler answers its last call (`Exclusive`, `LastCall`), so that whoever
else publishes the target's frames is a call that outlived its lease. It assumes
nothing, and its two exceptions are in the property; `ServerSplice.cfg` shows them
to be needed. `HandlersRelease` assumes `Poisoned = {}`, which
`ServerPoisoned.cfg` shows to be needed.

`DeviceServer_proofs`, for any devices, wedged or not, with a blanker or not,
and parks that fail or not: `LeavesDark`, `WatchdogAlwaysSpares`,
`FinishedIsGone`, `ParksOnlyOnce` and `TypeCorrect`. The heart of `IInv` is
`Blanked`: unless somebody else than its client signals the server, nobody parks
while a call may still turn the beam on (`Silent`), so a beam once blanked stays
dark. What makes that so is on the client's side, `Linked`: its connection to
the instrument is there until it has gone, and ends before it only by the answer
that stops the server. `Locked` and `Reported` say who parks and that nobody
goes on without a report; `Deserted`, that the watchdog has seen the client's
last connection close.

`Viewer_proofs`, for any number of workers, frames and directories:
`RecordingsAreWatched`, `LeasesAreOwned`, `ClosesClean`, `PassesAreDrawnWhole` and
`TypeCorrect`. `Handled` is what the rest leans on: the window lets go of a
recording or an analysis only when it has ended, so whatever is at work is the
one in hand, and what a button asks of that one is asked of all. `Leased` says
which recordings keep a lease after their end: the one in hand, and those an error
clings to. `Filed`, `Awaited`, `Drawn` and `Joined` are the properties as the handlers
need them between two steps. `ClosesClean` assumes `JoinsInTime`.

`Dashboard_proofs`, for any number of jobs of each kind, signals, frames, names
and faults, of `Session` and `Dashboard` together: `OneSignalEach`,
`DataIsKept`, `FailedItemsAreWhole`, `ListingsAreOfTheirStamp`, `PathsStay` and
`TypeCorrect` follow from `Invariance`. Its `IInv` has two layers. `SInv` is
about the directory and holds whoever calls: every file has the first frames of
its signal (`Filled`), no file is two recorders' (`Apart`), a recorder's frame
in hand is the next of its file, its files are as closed as its finally clause
is far, and they have what was taken and at most the frame whose write raised
(`Recorded`), and a stamp that a listing has was the file's before (`Listed`:
the number of frames and the shape only grow, so a stamp that is the file's now
has been it all along). `Jobbed`, `Settled` and `Held` are about who calls: how
many frames a job has counted, has kept and has on disk, that what a save has
still to feed is what its files lack, and that what the log holds in memory or
has on disk is all of a signal. A step of one recorder is `Aside` of the others:
it changes no file of theirs (`OthersStay`, `OthersGoOn`), so each action is one
lemma about the job that takes it. `FiniteAssumption` is what it takes to count
frames and jobs: the threads of a run and the detectors that are on are finitely
many. `WhatGotFramesIsWhole` compares sets of frames; their order in the file is
`OneSignalPerFile`.

Every invariant a run checks is stated by a theorem. Left to TLC: the liveness
properties, which need fairness and `ENABLED`, and that the code breaks what the
last section's configurations say it breaks. The assumptions on `Rank` state
that finitely many targets are totally ordered; TLC evaluates them, as every
other, in the runs.

## 6. Not modelled

Most of the repository by length is not a protocol, and has no state between
two calls that an interleaving or a failure could break:

- rendering: napari layers, Qt panels, plots, profiles, documents, the preview
  figures, the dashboard's tiles and images. They are functions of what is shown;
- numbers: previews, binning, calibration, the bridges to HyperSpy, LiberTEM
  and py4DSTEM. A model would repeat the arithmetic of their libraries;
- file formats: what is laid out inside an HDF5 or a spectrum file, and the
  reading of older ones. `Session` has when a file exists, grows and is closed.
  That a write moves a file's time or its size is the file system's part: a
  clock coarser than two writes that leave the size alone is not modelled;
- configuration: the instrument's TOML, command lines, preferences;
- the drivers other than the detector's: each method is one vendor call under
  one lock, behind the loop that `FrameChannel` and `DeviceServer` model; what
  the vendor's software does is not in the repository.

Of the modelled parts these operations are left out, each named in its section
or in `PROJECT.json`: the broker's value caches, the health probe of a device
server (only tests call it), the sidecar of a session (a file replaced by a
rename, of which the last writer's stands), the raising of another process's
window. `PROJECT.json` lists their components as modelled partly.
