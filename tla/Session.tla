------------------------------ MODULE Session ------------------------------
(****************************************************************************)
(* A session: one directory of recordings (storage/session.py, and the      *)
(* FrameSink of acquisition/sequence.py that writes the files).             *)
(*                                                                          *)
(* The directory is the only index there is, and any number of threads and  *)
(* processes write to it at once.  A recorder claims names by creating them *)
(* (O_EXCL), writes a file per signal while its stream runs and closes them *)
(* all when the stream is over, however it ended.  A listing reads the      *)
(* directory meanwhile, and keeps what it read under each file's stamp.     *)
(*                                                                          *)
(* This module has the operations; who calls them, and with what, is the    *)
(* business of the module that extends it (Dashboard).                      *)
(****************************************************************************)
EXTENDS Integers, Sequences, FiniteSets

CONSTANTS
    Recorders,  \* threads that record into the directory
    Datasets,   \* names of the signals of an acquisition
    Streams,    \* identities of acquisitions
    MaxIndex,   \* bound: sequence numbers
    MaxAttempt, \* bound: counters appended to a name within its number
    MaxTime,    \* bound: seconds of the clock that stamps names
    MaxFrames   \* bound: frames of a stream

ASSUME BoundsAssumption ==
    /\ MaxIndex \in Nat \ {0} /\ MaxAttempt \in Nat \ {0}
    /\ MaxTime \in Nat        /\ MaxFrames \in Nat
\* The threads of a run, and the detectors that are on.
ASSUME FiniteAssumption == IsFiniteSet(Recorders) /\ IsFiniteSet(Datasets)

VARIABLES
    disk,   \* the files: a function from the names that exist
    work,   \* per recorder, the record_datasets() or record() it is in
    cache,  \* the listing's cache: per name, a stamp and a description
    look    \* the file the listing has taken the stamp of, not yet described

sessionVars == <<disk, work, cache, look>>

NoIndex == 0
NoStream == "no stream"
NoSignal == "no signal"   \* the one file of Session.record has a label only
NoLook == [name |-> "none"]

Signals == Datasets \cup {NoSignal}
Stamps == 0..MaxTime
Names == [index : 1..MaxIndex, signal : Signals, attempt : 1..MaxAttempt, stamp : Stamps]
\* A frame, by the acquisition and the signal it belongs to and its place there.
Frames == [stream : Streams, signal : Signals, place : 1..MaxFrames]

Content(frames) == {frames[i] : i \in 1..Len(frames)}
\* A function with a value for one more argument, or another for one it has.
With(f, x, value) == [y \in DOMAIN f \cup {x} |-> IF y = x THEN value ELSE f[y]]

\* What a file can be: claimed and not written; being written; closed by a
\* close() that raised; closed whole.  Only a writer's HDF5 handle locks it.
Shapes == {"empty", "growing", "part", "final"}
\* A file is the item's of whoever claimed its name.
NewFile(item) == [item |-> item, frames |-> <<>>, shape |-> "empty", locked |-> FALSE]
IsFile(f) ==
    /\ DOMAIN f = {"item", "frames", "shape", "locked"}
    /\ f.item \in Recorders \X Streams
    /\ Len(f.frames) <= 2 * MaxFrames /\ \A i \in 1..Len(f.frames) : f.frames[i] \in Frames
    /\ f.shape \in Shapes /\ f.locked \in BOOLEAN

----------------------------------------------------------------------------
(* Names *)

\* One past the highest number on disk.
NextIndex ==
    IF DOMAIN disk = {} THEN 1
    ELSE 1 + CHOOSE i \in {n.index : n \in DOMAIN disk} : \A n \in DOMAIN disk : n.index <= i

\* The name recorder r tries to claim next.
Candidate(r) ==
    [index |-> work[r].number, signal |-> work[r].signal,
     attempt |-> work[r].attempt, stamp |-> work[r].stamp]

TakesAny(name) == FALSE
IsTaken(name) == name \in DOMAIN disk

----------------------------------------------------------------------------
(* Recording *)

\* A recorder at rest.
Idle == [at |-> "idle", stream |-> NoStream, single |-> FALSE,
         stamp |-> 0, index |-> NoIndex, number |-> 1, attempt |-> 1, signal |-> NoSignal,
         frame |-> <<>>, sinks |-> <<>>, closed |-> 0, taken |-> <<>>, raised |-> "no"]

\* The sinks of r are the names it claimed, in the order their signals first
\* appeared; the first work[r].closed of them are closed.
SinkOf(r, d) == {i \in 1..Len(work[r].sinks) : work[r].sinks[i].signal = d}

\* record_datasets(): an item that has a number keeps it for each signal.
Begins(r, stream, stamp, index) ==
    /\ work[r].at = "idle"
    /\ work' = [work EXCEPT ![r] = [Idle EXCEPT !.at = "pull", !.stream = stream,
                                                !.stamp = stamp, !.index = index]]
    /\ UNCHANGED <<disk, cache, look>>

\* Session.record(): the name is claimed before the first frame is asked for.
BeginsOne(r, stream, stamp) ==
    /\ work[r].at = "idle"
    /\ work' = [work EXCEPT ![r] = [Idle EXCEPT !.at = "claim", !.stream = stream,
                                                !.single = TRUE, !.stamp = stamp,
                                                !.number = NextIndex]]
    /\ UNCHANGED <<disk, cache, look>>

\* The stream yields a frame.  A signal's first frame has its name reserved:
\* at the item's number when it has one, else at the next, as read now.
Offers(r, frame) ==
    LET known == SinkOf(r, frame.signal) # {} IN
    /\ work[r].at = "pull"
    /\ work' = [work EXCEPT ![r].at = IF known THEN "write" ELSE "claim",
                            ![r].frame = frame,
                            ![r].signal = frame.signal,
                            ![r].number = IF work[r].index = NoIndex THEN NextIndex
                                          ELSE work[r].index,
                            ![r].attempt = 1]
    /\ UNCHANGED <<disk, cache, look>>

\* Somebody else has the name: an item's later signal stays at its number.
TriesAnother(r) ==
    /\ work[r].at = "claim" /\ IsTaken(Candidate(r))
    /\ IF work[r].index # NoIndex
       THEN work' = [work EXCEPT ![r].attempt = @ + 1]
       ELSE work' = [work EXCEPT ![r].number = @ + 1]
    /\ work'[r].attempt <= MaxAttempt /\ work'[r].number <= MaxIndex
    /\ UNCHANGED <<disk, cache, look>>

\* touch(exist_ok=False) succeeds: the name is r's, and fixes the item's number.
Claims(r) ==
    /\ work[r].at = "claim" /\ ~IsTaken(Candidate(r)) /\ work[r].number <= MaxIndex
    /\ disk' = With(disk, Candidate(r), NewFile(<<r, work[r].stream>>))
    /\ work' = [work EXCEPT ![r].at = IF work[r].single THEN "pull" ELSE "write",
                            ![r].index = work[r].number,
                            ![r].sinks = Append(@, Candidate(r))]
    /\ UNCHANGED <<cache, look>>

\* The file the frame in hand goes to.
Target(r) == work[r].sinks[CHOOSE k \in SinkOf(r, work[r].frame.signal) : TRUE]

\* The frame is appended and flushed; the first one opens the file.
Fills(r, frames) ==
    disk' = [disk EXCEPT ![Target(r)].frames = frames,
                         ![Target(r)].shape = "growing", ![Target(r)].locked = TRUE]
Writes(r) ==
    /\ work[r].at = "write"
    /\ Fills(r, Append(disk[Target(r)].frames, work[r].frame))
    /\ work' = [work EXCEPT ![r].at = "pull", ![r].taken = Append(@, work[r].frame)]
    /\ UNCHANGED <<cache, look>>

\* append() raises, and the loop unwinds into the finally clause.  It may have
\* opened the file before, and have made the stack longer: the frame is in
\* its place there, or a fill value, and is not counted as taken.
WriteRaises(r) ==
    /\ work[r].at = "write"
    /\ \/ UNCHANGED disk
       \/ Fills(r, disk[Target(r)].frames)
       \/ Fills(r, Append(disk[Target(r)].frames, work[r].frame))
    /\ work' = [work EXCEPT ![r].at = "close", ![r].raised = "write"]
    /\ UNCHANGED <<cache, look>>

\* A mutant: the sinks are closed by a stream that ends only.
StopsOpen(r, raises) ==
    /\ work[r].at = "pull"
    /\ work' = [work EXCEPT ![r].at = IF raises \/ work[r].sinks = <<>> THEN "done" ELSE "close",
                            ![r].raised = IF raises THEN "stream" ELSE "no"]
    /\ UNCHANGED <<disk, cache, look>>

\* The stream ends, or raises.  record() makes its sink after the first
\* frame is asked for, so a stream that raises at once leaves the name empty.
StreamStops(r, raises) ==
    LET unopened == work[r].single /\ raises /\ work[r].taken = <<>> IN
    /\ work[r].at = "pull"
    /\ work' = [work EXCEPT ![r].at = IF unopened \/ work[r].sinks = <<>> THEN "done" ELSE "close",
                            ![r].raised = IF raises THEN "stream" ELSE "no"]
    /\ UNCHANGED <<disk, cache, look>>

\* What closing makes of a file: whole, or readable and not finalized.
Closed(file, shape) == [file EXCEPT !.shape = shape, !.locked = FALSE]

\* The finally clause: the sinks are closed one after the other.
Closes(r) ==
    LET name == work[r].sinks[work[r].closed + 1] IN
    /\ work[r].at = "close"
    /\ disk' = [disk EXCEPT ![name] = Closed(@, "final")]
    /\ work' = [work EXCEPT ![r].closed = @ + 1,
                            ![r].at = IF work[r].closed + 1 = Len(work[r].sinks) THEN "done" ELSE @]
    /\ UNCHANGED <<cache, look>>

\* close() raises, its file released all the same: those after it stay open.
CloseRaises(r) ==
    LET name == work[r].sinks[work[r].closed + 1] IN
    /\ work[r].at = "close"
    /\ disk' = [disk EXCEPT ![name] = Closed(@, "part")]
    /\ work' = [work EXCEPT ![r].closed = @ + 1, ![r].at = "done", ![r].raised = "close"]
    /\ UNCHANGED <<cache, look>>

\* The files of a recorder whose writers are gone: dropped by the garbage
\* collector, which closes the handle, or with the process, which does not.
Released(r, shape) ==
    LET left == {work[r].sinks[i] : i \in work[r].closed + 1..Len(work[r].sinks)} IN
    [n \in DOMAIN disk |-> IF n \in left /\ disk[n].locked THEN Closed(disk[n], shape)
                           ELSE disk[n]]

----------------------------------------------------------------------------
(* Listing *)

\* (mtime, size): not what is in the file but how much, and its last change.
\* That a write moves one of the two is the file system's part: times coarser
\* than two writes that leave a file's size alone are outside the model.
Stamp(file) == <<Len(file.frames), file.shape>>
InUse == [count |-> 0, readable |-> TRUE, finalized |-> FALSE]

\* _inspect(): a locked file counts as live, one that does not open is empty.
Inspect(file) ==
    IF file.locked THEN InUse
    ELSE IF file.shape \in {"empty", "growing"}
    THEN [count |-> 0, readable |-> FALSE, finalized |-> FALSE]
    ELSE [count |-> Len(file.frames), readable |-> TRUE, finalized |-> file.shape = "final"]

\* A description is used again for as long as the file keeps its stamp.
IsCachedByName(name, stamp) == name \in DOMAIN cache
IsCached(name, stamp) == name \in DOMAIN cache /\ cache[name].stamp = stamp

\* recordings() takes a file's stamp first ...
Stats(name) ==
    /\ look = NoLook /\ IsTaken(name)
    /\ look' = [name |-> name, stamp |-> Stamp(disk[name])]
    /\ UNCHANGED <<disk, work, cache>>

\* ... and describes the file afterwards, unless the cache has that stamp.
Describes ==
    /\ look # NoLook
    /\ LET n == look.name
           said == IF IsCached(n, look.stamp) THEN cache[n].said ELSE Inspect(disk[n])
       IN cache' = With(cache, n, [stamp |-> look.stamp, said |-> said])
    /\ look' = NoLook
    /\ UNCHANGED <<disk, work>>

SessionInit ==
    /\ disk = << >> /\ cache = << >> /\ look = NoLook
    /\ work = [r \in Recorders |-> Idle]

----------------------------------------------------------------------------
(* What the directory promises *)

Ats == {"idle", "pull", "claim", "write", "close", "done"}

SessionTypeOK ==
    /\ DOMAIN disk \subseteq Names /\ \A n \in DOMAIN disk : IsFile(disk[n])
    /\ \A r \in Recorders :
        /\ work[r].at \in Ats /\ work[r].stream \in Streams \cup {NoStream} /\ work[r].stamp \in Stamps
        /\ work[r].index \in 0..MaxIndex /\ work[r].number \in 1..MaxIndex + 1
        /\ work[r].attempt \in 1..MaxAttempt /\ work[r].signal \in Signals
        /\ \A i \in 1..Len(work[r].sinks) : work[r].sinks[i] \in DOMAIN disk
        /\ \A i \in 1..Len(work[r].taken) : work[r].taken[i] \in Frames
    /\ DOMAIN cache \subseteq DOMAIN disk
    /\ look = NoLook \/ look.name \in DOMAIN disk

\* A file holds the frames of one signal of one acquisition, whoever else was
\* claiming names in the directory in the same second.
OneSignalPerFile ==
    \A n \in DOMAIN disk : \A i, j \in 1..Len(disk[n].frames) :
        /\ disk[n].frames[i].stream = disk[n].frames[j].stream
        /\ disk[n].frames[i].signal = n.signal
        /\ i < j => disk[n].frames[i].place < disk[n].frames[j].place

\* The number in the name is what says which files belong together: all the
\* files one item claims, over one call or several, carry one number and time.
ItemSharesItsNumber ==
    \A m, n \in DOMAIN disk :
        disk[m].item = disk[n].item => m.index = n.index /\ m.stamp = n.stamp

\* A listing never says of a file what an earlier content of it was: under the
\* stamp the file has now it says what the file holds, or that it is in use.
ListingIsOfItsStamp ==
    \A n \in DOMAIN cache :
        cache[n].stamp = Stamp(disk[n]) => cache[n].said \in {Inspect(disk[n]), InUse}

\* The same without the escape: violated by a process killed after a listing
\* found its file in use, for nothing about the file changes when it dies.
ListingIsFresh ==
    \A n \in DOMAIN cache :
        cache[n].stamp = Stamp(disk[n]) => cache[n].said = Inspect(disk[n])

\* A number says which files belong to one acquisition: two acquisitions never
\* have files of one number.  Two that read the directory before either claims
\* a name do: only equal names collide, and theirs differ.
NumberIsOneAcquisition ==
    \A m, n \in DOMAIN disk :
        (m.index = n.index /\ disk[m].frames # <<>> /\ disk[n].frames # <<>>)
            => disk[m].frames[1].stream = disk[n].frames[1].stream
============================================================================
