------------------------------ MODULE Dectris ------------------------------
(***************************************************************************)
(* A hybrid-pixel detector behind its control unit, the DCU                *)
(* (devices/dectris_server.py): every operation of the camera is a few     *)
(* HTTP requests, any of which may fail half-way through the operation,    *)
(* and the DCU answers to other clients between two of them.  A series is  *)
(* armed before it is triggered, the configuration is read-only while it   *)
(* is, and images come out of a monitor buffer that everybody shares.      *)
(*                                                                         *)
(* Calls of one target do not overlap (FrameChannel.OneAtTheDevice), so    *)
(* the camera is at one operation at a time.                               *)
(***************************************************************************)
EXTENDS Integers, Sequences, Functions

CONSTANTS Exposures,      \* the exposures asked for, natural numbers
          TriggersPerArm, \* _TRIGGERS_PER_ARM
          Faults,         \* what can go wrong, see Kinds
          MaxFaults,      \* bound: requests that fail, intrusions
          MaxShots,       \* bound: exposures taken
          MaxArms         \* bound: series armed

\* A request does not reach the DCU; its reply is lost; an image cannot be
\* fetched, or comes after the camera gave it up.  Another client takes an
\* image, arms the idle detector, triggers the armed one, disarms our series,
\* writes the configuration, across a change of exposure of ours or not.  The control unit restarts.
Kinds == {"unreached", "lost", "unfetched", "late", "drained", "armed", "triggered",
          "disarmed", "written", "crossed", "restarted"}

ASSUME Bounds == /\ Exposures \subseteq Nat \ {0} /\ Exposures # {}
                 /\ TriggersPerArm \in Nat \ {0} /\ Faults \subseteq Kinds
                 /\ MaxFaults \in Nat /\ MaxShots \in Nat /\ MaxArms \in Nat

VARIABLES
    cam,     \* DectrisCamera: _armed, _triggers_left, _series_id, _parameters, _closed
    dcu,     \* the control unit's state and configuration
    coming,  \* images exposed and not yet in the monitor buffer
    images,  \* the monitor buffer
    call,    \* the operation under way and the requests it has still to make
    own,     \* the exposures the operation under way triggered
    last,    \* the last frame returned
    faults   \* how often each thing has gone wrong

vars == <<cam, dcu, coming, images, call, own, last, faults>>

Shots == 1..MaxShots
Image == [shot : Shots, exposure : Exposures, series : 1..MaxArms]
Ops == {"idle", "open", "configure", "start", "stop", "acquire", "close"}
Requests == {"identity", "state", "count", "put count", "put frame",
             "put series", "arm", "disarm", "trigger", "image", "read back"}
NoFrame == [shot |-> 0]
Idle == [op |-> "idle", todo |-> <<>>, want |-> 0, retried |-> FALSE]

TypeOK ==
    /\ cam \in [open : BOOLEAN, armed : BOOLEAN, left : 0..TriggersPerArm, series : 0..MaxArms,
                exposure : Exposures \cup {0}, closed : BOOLEAN]
    /\ dcu \in [state : {"idle", "ready"}, owner : {"none", "us", "them"}, series : 0..MaxArms,
                left : 0..TriggersPerArm, count : Exposures, frame : Exposures,
                ntrigger : {1, TriggersPerArm}, monitor : BOOLEAN, shots : 0..MaxShots]
    /\ {coming, images} \subseteq Seq(Image)
    /\ call \in [op : Ops, todo : Seq(Requests), want : Exposures \cup {0}, retried : BOOLEAN]
    /\ own \subseteq Shots
    /\ last = NoFrame \/ last \in [shot : Shots, exposure : Exposures, taken : 1..MaxArms,
                                   label : Exposures, series : 0..MaxArms, asked : SUBSET Shots]
    /\ faults \in [Kinds -> 0..MaxFaults]

Init ==
    /\ cam = [open |-> FALSE, armed |-> FALSE, left |-> 0, series |-> 0, exposure |-> 0,
              closed |-> FALSE]
    /\ \E e \in Exposures :
          dcu = [state |-> "idle", owner |-> "none", series |-> 0, left |-> 0, count |-> e,
                 frame |-> e, ntrigger |-> 1, monitor |-> FALSE, shots |-> 0]
    /\ coming = <<>> /\ images = <<>>
    /\ call = [Idle EXCEPT !.op = "open", !.todo = <<"identity", "state", "read back">>]
    /\ own = {} /\ last = NoFrame /\ faults = [k \in Kinds |-> 0]

----------------------------------------------------------------------------
(* The control unit *)

\* What it refuses: a series armed twice, a write under an armed series, a
\* trigger without one, an image it does not have.
Accepts(request) ==
    CASE request = "arm" -> dcu.state = "idle"
      [] request \in {"put count", "put frame", "put series"} -> dcu.state = "idle"
      [] request = "trigger" -> dcu.state = "ready" /\ dcu.left > 0
      [] request = "image" -> images # <<>>
      [] OTHER -> TRUE

\* A trigger exposes; the image goes to the monitor buffer if that is enabled.
Exposes ==
    /\ dcu.shots < MaxShots
    /\ dcu' = [dcu EXCEPT !.left = @ - 1, !.shots = @ + 1]
    /\ coming' = coming \o IF dcu.monitor THEN <<[shot |-> dcu.shots + 1, exposure |-> dcu.count,
                                                  series |-> dcu.series]>>
                           ELSE <<>>
    /\ UNCHANGED images

\* What a request it accepts does to it.
Effect(request) ==
    CASE request = "arm" ->
           /\ dcu.series < MaxArms
           /\ dcu' = [dcu EXCEPT !.state = "ready", !.owner = "us", !.series = @ + 1,
                                 !.left = dcu.ntrigger]
           /\ UNCHANGED <<coming, images>>
      [] request = "disarm" ->
           /\ dcu' = [dcu EXCEPT !.state = "idle", !.owner = "none", !.left = 0]
           /\ UNCHANGED <<coming, images>>
      [] request = "trigger" -> Exposes
      [] request = "put count" -> dcu' = [dcu EXCEPT !.count = call.want]
                                  /\ UNCHANGED <<coming, images>>
      [] request = "put frame" -> dcu' = [dcu EXCEPT !.frame = call.want]
                                  /\ UNCHANGED <<coming, images>>
      [] request = "put series" -> dcu' = [dcu EXCEPT !.ntrigger = TriggersPerArm,
                                                       !.monitor = TRUE]
                                   /\ UNCHANGED <<coming, images>>
      [] request = "image" -> images' = Tail(images) /\ UNCHANGED <<dcu, coming>>
      [] OTHER -> UNCHANGED <<dcu, coming, images>>

\* An exposure ends and its image is in the buffer.
ImageArrives ==
    /\ coming # <<>>
    /\ images' = Append(images, Head(coming)) /\ coming' = Tail(coming)
    /\ UNCHANGED <<cam, dcu, call, own, last, faults>>

\* What goes wrong is counted.
GoesWrong(kind) ==
    /\ kind \in Faults /\ FoldFunction(LAMBDA n, m : n + m, 0, faults) < MaxFaults
    /\ faults' = [faults EXCEPT ![kind] = @ + 1]

\* Another client takes an image of the buffer, ...
ImageIsDrained ==
    /\ GoesWrong("drained") /\ images # <<>>
    /\ images' = Tail(images)
    /\ UNCHANGED <<cam, dcu, coming, call, own, last>>

\* ... arms the idle detector, ...
OtherArms ==
    /\ GoesWrong("armed") /\ dcu.state = "idle" /\ dcu.series < MaxArms
    /\ dcu' = [dcu EXCEPT !.state = "ready", !.owner = "them", !.series = @ + 1,
                          !.left = dcu.ntrigger]
    /\ UNCHANGED <<cam, coming, images, call, own, last>>

\* ... triggers the armed one, whoever armed it, ...
OtherTriggers ==
    /\ GoesWrong("triggered") /\ Accepts("trigger") /\ Exposes
    /\ UNCHANGED <<cam, call, own, last>>

\* ... disarms it, ...
OtherDisarms ==
    /\ dcu.state = "ready"
    /\ IF dcu.owner = "us" THEN GoesWrong("disarmed") ELSE UNCHANGED faults
    /\ dcu' = [dcu EXCEPT !.state = "idle", !.owner = "none", !.left = 0]
    /\ UNCHANGED <<cam, coming, images, call, own, last>>

\* ... and writes an exposure of its own, one that covers, before or after a
\* change of ours or across it: our count time is read and not yet written.
OtherWrites ==
    /\ GoesWrong(IF call.todo # <<>> /\ Head(call.todo) \in {"put count", "put frame"}
                 THEN "crossed" ELSE "written")
    /\ dcu.state = "idle"
    /\ \E count, frame \in Exposures :
          frame >= count /\ dcu' = [dcu EXCEPT !.count = count, !.frame = frame]
    /\ UNCHANGED <<cam, coming, images, call, own, last>>

\* The control unit restarts: nothing is armed, nothing is in the buffer, and
\* the configuration is what it comes up with.
Restarts ==
    /\ GoesWrong("restarted")
    /\ \E e \in Exposures :
          dcu' = [dcu EXCEPT !.state = "idle", !.owner = "none", !.left = 0, !.count = e,
                             !.frame = e, !.ntrigger = 1, !.monitor = FALSE]
    /\ coming' = <<>> /\ images' = <<>>
    /\ UNCHANGED <<cam, call, own, last>>

----------------------------------------------------------------------------
(* The camera's operations begin *)

IsReady == cam.open /\ call.op = "idle"

Begins(op, todo, want) ==
    /\ IsReady
    /\ call' = [op |-> op, todo |-> todo, want |-> want, retried |-> FALSE]
    /\ own' = {}
    /\ UNCHANGED <<cam, dcu, coming, images, last, faults>>

When(condition, requests) == IF condition THEN requests ELSE <<>>

\* configure(): an armed detector is disarmed for the writes.
Configure(exposure) ==
    Begins("configure", When(cam.armed, <<"disarm">>) \o <<"count">>
                        \o When(cam.armed, <<"arm">>) \o <<"read back">>, exposure)

Start == ~cam.closed /\ ~cam.armed /\ Begins("start", <<"put series", "arm">>, 0)
Stop == cam.armed /\ Begins("stop", <<"disarm">>, 0)

\* acquire_frame(): the series is armed again when it has run out.
AcquireFrame ==
    /\ ~cam.closed /\ cam.armed
    /\ Begins("acquire", When(cam.left <= 0, <<"disarm", "arm">>) \o <<"trigger", "image">>, 0)

Close == ~cam.closed /\ Begins("close", When(cam.armed, <<"disarm">>), 0)

----------------------------------------------------------------------------
(* ... make their requests ... *)

Request == Head(call.todo)
Rest == Tail(call.todo)
IsAsking == call.todo # <<>>

\* A mutant: the two times are written in one order, whichever it is.
WritesOneWay(current) == <<"put frame", "put count">>

\* The frame time is never less than the count time: which of the two is
\* written first depends on the count time just read.
Writes(current) == IF call.want >= current THEN <<"put frame", "put count">>
                                           ELSE <<"put count", "put frame">>

\* What the camera makes of a reply.
Replied(request) ==
    /\ cam' =
         CASE request = "arm" -> [cam EXCEPT !.armed = TRUE, !.left = TriggersPerArm,
                                             !.series = dcu'.series]
           [] request = "disarm" -> [cam EXCEPT !.armed = FALSE, !.left = 0]
           [] request = "trigger" -> [cam EXCEPT !.left = @ - 1]
           [] request = "read back" -> [cam EXCEPT !.exposure = dcu.count, !.open = TRUE]
           [] OTHER -> cam
    /\ last' = IF request # "image" THEN last
               ELSE [shot |-> Head(images).shot, exposure |-> Head(images).exposure,
                     taken |-> Head(images).series, label |-> cam.exposure,
                     series |-> cam.series, asked |-> own]
    /\ call' = [call EXCEPT !.todo = IF request = "count" THEN Writes(dcu.count) \o Rest
                                                              ELSE Rest]

OwnAfter(request) == IF request = "trigger" THEN own \cup {dcu.shots + 1} ELSE own

\* The detector is opened idle and not otherwise: somebody else has it.
IsFree == Request = "state" => dcu.state = "idle"

Answered ==
    /\ IsAsking /\ Accepts(Request) /\ IsFree
    /\ Effect(Request) /\ Replied(Request)
    /\ own' = OwnAfter(Request)
    /\ UNCHANGED faults

\* A mutant: a disarm is noted before it is answered.
DisarmIsNoted ==
    /\ cam' = IF Request = "disarm" THEN [cam EXCEPT !.armed = FALSE, !.left = 0] ELSE cam
    /\ call' = IF call.op = "acquire" /\ Request = "trigger" /\ ~call.retried
               THEN [call EXCEPT !.todo = <<"disarm", "arm", "trigger", "image">>, !.retried = TRUE]
               ELSE [call EXCEPT !.todo = <<>>]
    /\ UNCHANGED last

\* A request that fails raises, and its operation stops where it is; a
\* trigger that fails is tried once more on a series armed for it.
Raises ==
    /\ call' = IF call.op = "acquire" /\ Request = "trigger" /\ ~call.retried
               THEN [call EXCEPT !.todo = <<"disarm", "arm", "trigger", "image">>, !.retried = TRUE]
               ELSE [call EXCEPT !.todo = <<>>]
    /\ UNCHANGED <<cam, last>>

Refused ==
    /\ IsAsking /\ Request # "image"
    /\ ~(Accepts(Request) /\ IsFree)
    /\ Raises
    /\ UNCHANGED <<dcu, coming, images, own, faults>>

Unreached ==
    /\ IsAsking
    /\ GoesWrong(IF Request = "image" THEN "unfetched" ELSE "unreached")
    /\ Raises
    /\ UNCHANGED <<dcu, coming, images, own>>

ReplyIsLost ==
    /\ IsAsking /\ Request # "image" /\ Accepts(Request) /\ GoesWrong("lost")
    /\ Effect(Request) /\ Raises
    /\ own' = OwnAfter(Request)

\* A mutant: one empty answer of the buffer is the end of the wait.
GivesUpAtOnce ==
    /\ IsAsking /\ Request = "image" /\ images = <<>>
    /\ call' = [call EXCEPT !.todo = <<>>]
    /\ UNCHANGED <<cam, dcu, coming, images, own, last, faults>>

\* The wait for the image comes to its deadline: none is on its way, or it is
\* slower than the grace it is given.
GivesUp ==
    /\ IsAsking /\ Request = "image" /\ images = <<>>
    /\ IF coming = <<>> THEN UNCHANGED faults ELSE GoesWrong("late")
    /\ call' = [call EXCEPT !.todo = <<>>]
    /\ UNCHANGED <<cam, dcu, coming, images, own, last>>

\* ... and end.  A camera that could not be opened is not served.
Ends ==
    /\ call.op # "idle" /\ call.todo = <<>>
    /\ call' = Idle /\ own' = {}
    /\ cam' = IF call.op = "close" THEN [cam EXCEPT !.closed = TRUE] ELSE cam
    /\ UNCHANGED <<dcu, coming, images, last, faults>>

----------------------------------------------------------------------------

Operations ==
    \/ \E exposure \in Exposures : Configure(exposure)
    \/ Start \/ Stop \/ AcquireFrame \/ Close

HttpSteps == Answered \/ Refused \/ Unreached \/ ReplyIsLost \/ GivesUp \/ Ends

OtherClients == ImageIsDrained \/ OtherArms \/ OtherTriggers \/ OtherDisarms \/ OtherWrites

Next == Operations \/ HttpSteps \/ ImageArrives \/ OtherClients \/ Restarts

Spec == Init /\ [][Next]_vars

----------------------------------------------------------------------------
(* Properties *)

Never(kinds) == \A k \in kinds : faults[k] = 0

\* The frame time covers the count time at every instant, whichever way the
\* exposure changes and wherever a change of it breaks off, unless somebody
\* else writes the two, or the control unit restarts, across the change.
FrameTimeCovers == Never({"crossed", "restarted"}) => dcu.frame >= dcu.count

\* A frame shows an exposure that its own call triggered, whatever requests
\* fail, the control unit restarting and other clients arming, disarming and
\* draining included, as long as no reply is lost, every image exposed is
\* fetched or drained, and nobody else triggers.  It names the series it was
\* taken in, unless our series was ended and another client armed its own.
FrameIsOfItsTrigger ==
    last # NoFrame /\ Never({"lost", "unfetched", "late", "triggered"}) =>
        /\ last.shot \in last.asked
        /\ Never({"armed"}) \/ Never({"disarmed", "restarted"}) => last.series = last.taken

\* Between two calls, and unless a reply is lost, no series is held by a
\* camera that forgot it, whatever others do; and the camera believes the
\* detector armed only when it holds it, until somebody else ends the series.
ArmedIsHeld ==
    call.op = "idle" /\ cam.open /\ Never({"lost"}) =>
        /\ dcu.owner = "us" => cam.armed
        /\ Never({"disarmed", "restarted"}) => (cam.armed => dcu.owner = "us")

\* The frame is "the image its own trigger just asked for".  The code does not
\* keep it: an image given up, or exposed by a trigger whose reply was lost,
\* stays in the buffer, and every later frame is the one before.
NoFrameIsStale == last # NoFrame => last.shot \in last.asked

\* stop() and close() "disarm rather than leaving the detector held".  The
\* code does not keep it: an arm whose reply is lost is not undone by either.
ClosedIsLetGo == cam.closed => dcu.owner # "us"

\* What configure() leaves behind "is what the next frame's metadata will
\* also say".  The code does not keep it: a change that breaks off between
\* its two writes exposes by the new time and labels with the old.
LabelIsTrue == last # NoFrame => last.label = last.exposure
=============================================================================
