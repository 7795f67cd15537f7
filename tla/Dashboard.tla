----------------------------- MODULE Dashboard -----------------------------
(****************************************************************************)
(* What records into a session at once: the acquisition and save jobs of    *)
(* the dashboard (dashboard/acquisition.py, dashboard/saving.py), with its  *)
(* log (dashboard/session_log.py), and the recordings of the viewer         *)
(* (RecordingJob of storage/session.py), another process on the same        *)
(* directory, which may be killed.                                          *)
(*                                                                          *)
(* A press makes a new job, and a job is a thread that runs once; the jobs  *)
(* of different presses overlap.  Acquisitions of the dashboard ask for one *)
(* lease, which the broker takes back when it is not renewed in time.       *)
(****************************************************************************)
EXTENDS Session

CONSTANTS
    Acquirers, Savers, Viewers,  \* the jobs, by what they do
    MaxActs,                     \* bound: jobs started and files listed
    MaxFaults                    \* bound: raises of the file system and the device

ASSUME JobsAssumption ==
    /\ Recorders = Acquirers \cup Savers \cup Viewers
    /\ Acquirers \cap Savers = {} /\ Viewers \cap (Acquirers \cup Savers) = {}
    /\ Streams = Acquirers \cup Viewers
    /\ MaxActs \in Nat /\ MaxFaults \in Nat

VARIABLES
    job,    \* per acquirer and viewer: its run
    saver,  \* per saver: the entries of its snapshot it has still to save
    log,    \* SessionLog._entries
    lease,  \* the acquirer that holds the lease, or Nobody
    now,    \* the second the last job was started in
    looks,  \* files listed so far
    faults  \* raises so far

dashVars == <<job, saver, log, lease, now, looks, faults>>
vars == <<sessionVars, dashVars>>

Nobody == "nobody"
NoPath == [index |-> NoIndex]

NotRun == [at |-> "new", stored |-> FALSE, started |-> 0, counts |-> [d \in Signals |-> 0],
           kept |-> [d \in Signals |-> <<>>], failed |-> FALSE, cancelled |-> FALSE]

NotSaving == [at |-> "new", entries |-> <<>>, entry |-> 0, signal |-> NoSignal,
              left |-> <<>>, index |-> NoIndex]

MayAct ==
    looks + Cardinality({j \in Acquirers \cup Viewers : job[j].at # "new"}
                            \cup {s \in Savers : saver[s].at # "new"}) < MaxActs

\* A job starts in the second of the last one or later.
Starts == MayAct /\ now' \in now..MaxTime

Fault == faults < MaxFaults /\ faults' = faults + 1

----------------------------------------------------------------------------
(* The log *)

\* LoggedDataset: frames in memory, or a path.
InMemory(signal) == signal.path = NoPath

\* What record_datasets() returns: the file of each signal.
PathsOf(r) ==
    [d \in {work[r].sinks[i].signal : i \in 1..Len(work[r].sinks)} |->
        work[r].sinks[CHOOSE i \in SinkOf(r, d) : TRUE]]

\* describe_dataset() of the signals the acquisition saw, in a new entry.
EntryOf(j, paths) ==
    LET seen == {d \in Signals : job[j].counts[d] > 0} IN
    [stream |-> j, started |-> job[j].started,
     signals |-> [d \in seen |->
        [count |-> job[j].counts[d],
         frames |-> IF d \in DOMAIN paths THEN <<>> ELSE job[j].kept[d],
         path |-> IF d \in DOMAIN paths THEN paths[d] ELSE NoPath]]]

\* SessionLog.append(); a job that raised logs an entry without signals.
Logs(entry) == log' = Append(log, entry)
LogsRefusal(j) == Logs([stream |-> j, started |-> job[j].started, signals |-> << >>])

\* mark_stored(): a signal in memory gets its path and lets its frames go.
\* One that has a path keeps it.
MarkStored(e, d, path) ==
    log' = IF InMemory(log[e].signals[d])
           THEN [log EXCEPT ![e].signals[d].path = path, ![e].signals[d].frames = <<>>]
           ELSE log

\* The signals of an entry that Save would write.
Pending(entry) == {d \in DOMAIN entry.signals : InMemory(entry.signals[d])}

----------------------------------------------------------------------------
(* An acquisition *)

StartAcquisition(j, stored) ==
    /\ job[j].at = "new" /\ Starts
    /\ job' = [job EXCEPT ![j] = [NotRun EXCEPT !.at = "lease", !.stored = stored, !.started = now']]
    /\ IF stored THEN Begins(j, j, now', NoIndex) ELSE UNCHANGED sessionVars
    /\ UNCHANGED <<saver, log, lease, looks, faults>>

\* _leased_pairs() asks for the lease when the consumer first pulls.
TakesLease(j) ==
    /\ job[j].at = "lease" /\ lease = Nobody
    /\ lease' = j
    /\ job' = [job EXCEPT ![j].at = "series"]
    /\ UNCHANGED <<sessionVars, saver, log, now, looks, faults>>

\* Another job, or another client of the broker, holds it.
IsRefused(j) ==
    /\ job[j].at = "lease"
    /\ job' = [job EXCEPT ![j].at = "over", ![j].failed = TRUE]
    /\ IF job[j].stored THEN StreamStops(j, TRUE) ELSE UNCHANGED sessionVars
    /\ UNCHANGED <<saver, log, lease, now, looks, faults>>

\* A mutant: the first frame alone is kept, session or not.
KeepsFirst(j, frame) ==
    LET d == frame.signal IN
    job' = [job EXCEPT ![j].counts[d] = @ + 1,
                       ![j].kept[d] = IF @ = <<>> THEN <<frame>> ELSE @]

\* _collected(): all frames are kept without a session, the first with one.
Keeps(j, frame) ==
    LET d == frame.signal IN
    job' = [job EXCEPT ![j].counts[d] = @ + 1,
                       ![j].kept[d] = IF ~job[j].stored \/ @ = <<>> THEN Append(@, frame) ELSE @]

\* Frames of the stream so far, of all its signals.
Seen(j) == Cardinality({p \in Signals \X (1..MaxFrames) : p[2] <= job[j].counts[p[1]]})

\* A frame arrives and the lease is renewed: it goes to the writers if any.
Yields(j, d) ==
    LET frame == [stream |-> j, signal |-> d, place |-> job[j].counts[d] + 1] IN
    /\ job[j].at = "series" /\ lease = j /\ Seen(j) < MaxFrames
    /\ Keeps(j, frame)
    /\ IF job[j].stored THEN Offers(j, frame) ELSE UNCHANGED sessionVars
    /\ UNCHANGED <<saver, log, lease, now, looks, faults>>

LetsGo(j) == lease' = IF lease = j THEN Nobody ELSE lease

\* The series ends, or raises inside the lease, which lets the lease go; a
\* renewal of a lease that lapsed is one such raise.
SeriesEnds(j, raises) ==
    /\ job[j].at = "series"
    /\ IF raises THEN (lease = j => faults < MaxFaults) ELSE lease = j
    /\ faults' = IF raises /\ lease = j THEN faults + 1 ELSE faults
    /\ LetsGo(j)
    /\ job' = [job EXCEPT ![j].at = "over", ![j].failed = raises]
    /\ IF job[j].stored THEN StreamStops(j, raises) ELSE UNCHANGED sessionVars
    /\ UNCHANGED <<saver, log, now, looks>>

\* _work(): what became of it is logged.  A consumer that raised leaves the
\* generator where it is: its lease is still held, by what the error refers to.
EndsAcquisition(j) ==
    /\ job[j].at \in {"series", "over"}
    /\ IF job[j].stored THEN work[j].at = "done" ELSE job[j].at = "over"
    /\ LET raised == job[j].failed \/ work[j].raised # "no"
       IN /\ IF raised THEN LogsRefusal(j) ELSE Logs(EntryOf(j, PathsOf(j)))
          /\ job' = [job EXCEPT ![j] = [NotRun EXCEPT !.at = "ended", !.failed = raised]]
          /\ work' = [work EXCEPT ![j] = IF raised THEN @ ELSE Idle]
    /\ UNCHANGED <<disk, cache, look, saver, lease, now, looks, faults>>

\* The error of an ended job is dropped, and with it the generator and the
\* writers it kept: the lease is let go and the files left open are closed.
Forgets(j) ==
    /\ job[j].at = "ended" /\ job[j].failed
    /\ job' = [job EXCEPT ![j].at = "gone"]
    /\ LetsGo(j)
    /\ disk' = Released(j, "part")
    /\ work' = [work EXCEPT ![j] = Idle]
    /\ UNCHANGED <<cache, look, saver, log, now, looks, faults>>

\* The broker reclaims a lease that was not renewed for its time to live.
Lapses ==
    /\ lease # Nobody /\ lease' = Nobody
    /\ UNCHANGED <<sessionVars, job, saver, log, now, looks, faults>>

----------------------------------------------------------------------------
(* A save *)

\* save_pending(): the entries are those of the log as it is now.
StartSave(s) ==
    /\ saver[s].at = "new" /\ Starts
    /\ saver' = [saver EXCEPT ![s].at = "next", ![s].entries = log]
    /\ UNCHANGED <<sessionVars, job, log, lease, looks, faults>>

\* Signal d of the snapshot's first entry that has any left is written; the
\* entry's item is new with its first signal, and has its number afterwards.
SavesSignal(s, e, d) ==
    LET entry == saver[s].entries[e] IN
    /\ saver[s].at = "next"
    /\ \A i \in 1..e - 1 : Pending(saver[s].entries[i]) = {}
    /\ d \in Pending(entry)
    /\ saver' = [saver EXCEPT ![s].at = "writing", ![s].entry = e, ![s].signal = d,
                              ![s].left = entry.signals[d].frames]
    /\ Begins(s, entry.stream, entry.started,
              IF saver[s].entry = e THEN saver[s].index ELSE NoIndex)
    /\ UNCHANGED <<job, log, lease, now, looks, faults>>

FeedsFrame(s) ==
    /\ saver[s].at = "writing" /\ saver[s].left # <<>>
    /\ Offers(s, Head(saver[s].left))
    /\ saver' = [saver EXCEPT ![s].left = Tail(@)]
    /\ UNCHANGED <<job, log, lease, now, looks, faults>>

FeedsEnd(s) ==
    /\ saver[s].at = "writing" /\ saver[s].left = <<>>
    /\ StreamStops(s, FALSE)
    /\ UNCHANGED dashVars

\* _save_entry(): a signal that could not be written stays pending in the log
\* and is not tried again by this save; one that was is marked stored.
EndsSignal(s) ==
    LET e == saver[s].entry  d == saver[s].signal
        path == PathsOf(s)[d]
    IN
    /\ saver[s].at = "writing" /\ work[s].at = "done"
    /\ IF work[s].raised # "no" THEN UNCHANGED log ELSE MarkStored(e, d, path)
    /\ saver' = [saver EXCEPT
            ![s].at = "next", ![s].index = work[s].index, ![s].left = <<>>,
            ![s].entries[e].signals[d].path = path]
    /\ disk' = Released(s, "part")
    /\ work' = [work EXCEPT ![s] = Idle]
    /\ UNCHANGED <<cache, look, job, lease, now, looks, faults>>

\* Nothing of the snapshot is left.
EndsSave(s) ==
    /\ saver[s].at = "next"
    /\ \A i \in 1..Len(saver[s].entries) : Pending(saver[s].entries[i]) = {}
    /\ saver' = [saver EXCEPT ![s] = [NotSaving EXCEPT !.at = "ended"]]
    /\ UNCHANGED <<sessionVars, job, log, lease, now, looks, faults>>

----------------------------------------------------------------------------
(* A recording of the viewer *)

StartRecording(v) ==
    /\ job[v].at = "new" /\ Starts
    /\ job' = [job EXCEPT ![v] = [NotRun EXCEPT !.at = "series", !.started = now']]
    /\ BeginsOne(v, v, now')
    /\ UNCHANGED <<saver, log, lease, looks, faults>>

Cancel(v) ==
    /\ job[v].at = "series" /\ ~job[v].cancelled
    /\ job' = [job EXCEPT ![v].cancelled = TRUE]
    /\ UNCHANGED <<sessionVars, saver, log, lease, now, looks, faults>>

\* _counted(): a cancelled recording takes no further frame.
RecordsFrame(v) ==
    LET n == job[v].counts[NoSignal] + 1 IN
    /\ job[v].at = "series" /\ ~job[v].cancelled /\ n <= MaxFrames
    /\ Offers(v, [stream |-> v, signal |-> NoSignal, place |-> n])
    /\ job' = [job EXCEPT ![v].counts[NoSignal] = n]
    /\ UNCHANGED <<saver, log, lease, now, looks, faults>>

EndsRecording(v) ==
    /\ job[v].at = "series" /\ (job[v].cancelled \/ job[v].counts[NoSignal] = MaxFrames)
    /\ StreamStops(v, FALSE)
    /\ job' = [job EXCEPT ![v].at = "over"]
    /\ UNCHANGED <<saver, log, lease, now, looks, faults>>

\* The viewer's process is killed: locks go with it, contents stay.
Killed(v) ==
    /\ job[v].at \in {"series", "over"}
    /\ job' = [job EXCEPT ![v].at = "gone"]
    /\ disk' = Released(v, "growing")
    /\ work' = [work EXCEPT ![v] = Idle]
    /\ UNCHANGED <<cache, look, saver, log, lease, now, looks, faults>>

----------------------------------------------------------------------------

\* What a record loop does by itself, and how the file system fails it.
RecordStep(r) ==
    /\ TriesAnother(r) \/ Claims(r) \/ Writes(r) \/ Closes(r)
    /\ UNCHANGED dashVars

RecordFault(r) ==
    /\ WriteRaises(r) \/ CloseRaises(r)
    /\ Fault /\ UNCHANGED <<job, saver, log, lease, now, looks>>

Lists ==
    \/ MayAct /\ looks' = looks + 1 /\ (\E n \in DOMAIN disk : Stats(n))
       /\ UNCHANGED <<job, saver, log, lease, now, faults>>
    \/ Describes /\ UNCHANGED dashVars

Init ==
    /\ SessionInit
    /\ job = [j \in Acquirers \cup Viewers |-> NotRun]
    /\ saver = [s \in Savers |-> NotSaving]
    /\ log = <<>> /\ lease = Nobody /\ now = 0 /\ looks = 0 /\ faults = 0

Acquisition(j) ==
    \/ \E stored \in BOOLEAN : StartAcquisition(j, stored)
    \/ TakesLease(j) \/ IsRefused(j)
    \/ \E d \in Datasets : Yields(j, d)
    \/ \E raises \in BOOLEAN : SeriesEnds(j, raises)
    \/ EndsAcquisition(j) \/ Forgets(j)

Save(s) ==
    \/ StartSave(s)
    \/ \E e \in 1..Len(saver[s].entries) : \E d \in Datasets : SavesSignal(s, e, d)
    \/ FeedsFrame(s) \/ FeedsEnd(s) \/ EndsSignal(s) \/ EndsSave(s)

Recording(v) ==
    StartRecording(v) \/ Cancel(v) \/ RecordsFrame(v) \/ EndsRecording(v) \/ Killed(v)

Next ==
    \/ \E j \in Acquirers : Acquisition(j)
    \/ \E s \in Savers : Save(s)
    \/ \E v \in Viewers : Recording(v)
    \/ \E r \in Recorders : RecordStep(r) \/ RecordFault(r)
    \/ Lapses \/ Lists

Spec == Init /\ [][Next]_vars

----------------------------------------------------------------------------

TypeOK ==
    /\ SessionTypeOK
    /\ lease \in Acquirers \cup {Nobody} /\ now \in Stamps /\ looks \in 0..MaxActs /\ faults \in 0..MaxFaults
    /\ \A j \in Acquirers \cup Viewers :
        job[j].at \in {"new", "lease", "series", "over", "ended", "gone"}
    /\ \A s \in Savers : saver[s].at \in {"new", "next", "writing", "ended"}
    /\ \A e \in 1..Len(log) : log[e].stream \in Streams

\* What the log says of a signal is all there is to find it by: its frames
\* are in memory, or its path names a closed file with every one of them.
DataIsHeldOrOnDisk ==
    \A e \in 1..Len(log) : \A d \in DOMAIN log[e].signals :
        LET s == log[e].signals[d]
            all == IF InMemory(s) THEN s.frames ELSE disk[s.path].frames
        IN /\ all = [i \in 1..s.count |-> [stream |-> log[e].stream, signal |-> d, place |-> i]]
           /\ ~InMemory(s) => disk[s.path].shape = "final"

\* A signal that has a path keeps that one, whichever of two saves that wrote
\* it comes second.
PathIsForever ==
    [][\A e \in 1..Len(log) : \A d \in DOMAIN log[e].signals :
        ~InMemory(log[e].signals[d]) => log'[e].signals[d].path = log[e].signals[d].path]_vars

\* An item that failed part-way is still an item: whatever unwound the loop,
\* but a close() that raised, each signal that got frames keeps a whole file
\* of them all (in their order, by OneSignalPerFile).  No file has another,
\* but for the place of the one frame whose write raised, in its signal's.
Kept(r, signal) ==
    LET own == {frame \in Content(work[r].taken) : frame.signal = signal} IN
    {own} \cup IF work[r].raised = "write" /\ work[r].frame.signal = signal
               THEN {own \cup {work[r].frame}} ELSE {}
WhatGotFramesIsWhole ==
    \A r \in Recorders :
        work[r].at = "done" /\ work[r].raised # "close" =>
            \A i \in 1..Len(work[r].sinks) :
                LET name == work[r].sinks[i] IN
                /\ disk[name].shape = "final"
                /\ Content(disk[name].frames) \in Kept(r, name.signal)

\* A lease is "released on exit, including on an exception": a job that ended
\* holds none.  Violated by an acquisition whose file could not be written.
EndedHoldsNothing ==
    \A j \in Acquirers : job[j].at = "ended" => lease # j

\* "Every writer, whatever unwound the loop": no file is left open by a loop
\* that is over.  Violated by a close() that raises before the last.
EverySinkIsClosed ==
    \A r \in Recorders : work[r].at = "done" => \A i \in 1..Len(work[r].sinks) : ~disk[work[r].sinks[i]].locked
============================================================================
