------------------------- MODULE Lifecycles_proofs -------------------------
(****************************************************************************)
(* Theorems about the three components that start something and must see    *)
(* its end: LiveAcquisition a worker thread, DeviceClient a server process, *)
(* Supervisor a broker and its front ends.  Each has its own specification, *)
(* its inductive invariant and its theorems, in this order; they share      *)
(* nothing but the argument: what is alive is what the owner still names.   *)
(****************************************************************************)
EXTENDS LiveAcquisition, DeviceClient, Supervisor, SequenceTheorems,
        WellFoundedInduction, TLAPS

----------------------------------------------------------------------------
(* LiveAcquisition: one object and its worker threads.  A thread about to    *)
(* create a worker is alone in the object, and a thread waiting in stop()   *)
(* waits for the only worker that may be alive.                             *)

\* start() past its check: no worker is alive, nobody else is in the object, and
\* nobody holds a True from stop().
StartIsAlone ==
    \A c \in Callers : pc[c] \in {"reset", "spawn"} =>
        /\ c = Starter
        /\ Restartable \/ ~Started
        /\ \A w \in Workers : ~Alive(w)
        /\ \A d \in Callers : answer[d] # "free" /\ (d # c => pc[d] = "idle")

\* stop() past its read: the handle still names the thread waited for, or nothing.
JoinsTheHandle ==
    \A c \in Callers : pc[c] \in {"join", "clear"} =>
        /\ joining[c] \in Workers
        /\ thread \in {joining[c], NoThread}
        /\ pc[c] = "clear" => ~Alive(joining[c])

\* Before the one start() of a shared object nobody else can reach it.
Unpublished ==
    (~Restartable /\ ~Started) =>
        \A c \in Callers : answer[c] = "none" /\ pc[c] \in {"idle", "reset", "spawn"}

\* What start() has reset when it creates the worker, and what a worker that was
\* never created has done.
FreshRun ==
    /\ pc[Starter] = "spawn" => error = NoError /\ frame_count = 0
    /\ \A w \in Workers : worker[w] = "unborn" => grabbed[w] = 0

IInv ==
    /\ TypeOK
    /\ RunningIsTruthful
    /\ StopMeansFree
    /\ CountIsThisRun
    /\ ErrorIsThisRun
    /\ StartIsAlone
    /\ JoinsTheHandle
    /\ Unpublished
    /\ FreshRun

LEMMA InitIInv == Init => IInv
  <1> SUFFICES ASSUME Init PROVE IInv
    OBVIOUS
  <1> USE DEF Init
  <1>1. TypeOK
    <2>1. 0 \in 0..MaxFrames
      BY SentinelAssumption
    <2>2. /\ worker \in [Workers -> Phases]
          /\ grabbed \in [Workers -> 0..MaxFrames]
          /\ frame_count \in 0..MaxFrames
      BY <2>1 DEF Phases
    <2>3. /\ pc \in [Callers -> Points]
          /\ joining \in [Callers -> Workers \cup {NoThread}]
          /\ answer \in [Callers -> Answers]
      BY DEF Points, Answers
    <2> QED BY <2>2, <2>3 DEF TypeOK
  <1>2. RunningIsTruthful /\ StopMeansFree /\ CountIsThisRun /\ ErrorIsThisRun
    BY DEF RunningIsTruthful, StopMeansFree, CountIsThisRun, ErrorIsThisRun, Alive
  <1>3. StartIsAlone /\ JoinsTheHandle /\ Unpublished /\ FreshRun
    BY UsageAssumption DEF StartIsAlone, JoinsTheHandle, Unpublished, FreshRun
  <1> QED BY <1>1, <1>2, <1>3 DEF IInv

LEMMA NextIInv == IInv /\ [Next]_vars => IInv'
  <1> SUFFICES ASSUME IInv, [Next]_vars PROVE IInv'
    OBVIOUS
  <1> USE UsageAssumption, SentinelAssumption
      DEF IInv, TypeOK, RunningIsTruthful, StopMeansFree, CountIsThisRun,
          ErrorIsThisRun, StartIsAlone, JoinsTheHandle, Unpublished, FreshRun,
          Alive, Started, Phases, Points, Answers
  <1>1. ASSUME NEW c \in Callers, StartCheck(c) PROVE IInv'
    <2>1. CASE is_running
      BY <1>1, <2>1 DEF StartCheck
    <2>2. CASE ~is_running
      <3>1. /\ c = Starter /\ pc[c] = "idle"
            /\ Restartable \/ ~Started
            /\ pc' = [pc EXCEPT ![c] = "reset"]
            /\ answer' = [answer EXCEPT ![c] = "none"]
            /\ UNCHANGED <<thread, stop_event, error, latest, frame_count, worker,
                           joining, grabbed>>
        BY <1>1, <2>2 DEF StartCheck, MayStart
      <3>2. \A w \in Workers : ~Alive(w)
        BY <2>2 DEF is_running
      <3>3. \A d \in Callers : d # c => pc[d] = "idle" /\ answer[d] = "none"
        BY <3>1
      <3>4. StartIsAlone'
        BY <3>1, <3>2, <3>3
      <3>5. TypeOK'
        BY <3>1
      <3>6. (RunningIsTruthful /\ StopMeansFree /\ CountIsThisRun /\ ErrorIsThisRun)'
        BY <3>1, <3>2
      <3>7. (JoinsTheHandle /\ Unpublished /\ FreshRun)'
        BY <3>1
      <3> QED BY <3>4, <3>5, <3>6, <3>7
    <2> QED BY <2>1, <2>2
  <1>2. ASSUME NEW c \in Callers, StartReset(c) PROVE IInv'
    <2>1. c = Starter /\ \A w \in Workers : ~Alive(w)
      BY <1>2 DEF StartReset
    <2>2. 0 \in 0..MaxFrames
      OBVIOUS
    <2>3. TypeOK'
      BY <1>2, <2>2 DEF StartReset
    <2>4. (RunningIsTruthful /\ StopMeansFree /\ CountIsThisRun /\ ErrorIsThisRun)'
      BY <1>2, <2>1 DEF StartReset
    <2>5. (StartIsAlone /\ JoinsTheHandle /\ Unpublished /\ FreshRun)'
      BY <1>2, <2>1 DEF StartReset
    <2> QED BY <2>3, <2>4, <2>5
  <1>3. ASSUME NEW c \in Callers, StartSpawn(c) PROVE IInv'
    BY <1>3 DEF StartSpawn
  <1>4. ASSUME NEW c \in Callers, StopSignal(c) PROVE IInv'
    BY <1>4 DEF StopSignal
  <1>5. ASSUME NEW c \in Callers, StopJoined(c) PROVE IInv'
    BY <1>5 DEF StopJoined
  <1>6. ASSUME NEW c \in Callers, StopTimesOut(c) PROVE IInv'
    BY <1>6 DEF StopTimesOut
  <1>7. ASSUME NEW c \in Callers, StopClears(c) PROVE IInv'
    BY <1>7 DEF StopClears
  <1>8. ASSUME NEW w \in Workers, WorkerCheck(w) PROVE IInv'
    BY <1>8 DEF WorkerCheck
  <1>9. ASSUME NEW w \in Workers, GrabStored(w) PROVE IInv'
    BY <1>9 DEF GrabStored, CountUp
  <1>10. ASSUME NEW w \in Workers, GrabRaised(w) PROVE IInv'
    BY <1>10 DEF GrabRaised
  <1>11. ASSUME NEW w \in Workers, ThreadEnds(w) PROVE IInv'
    BY <1>11 DEF ThreadEnds
  <1>12. CASE UNCHANGED vars
    BY <1>12 DEF vars
  <1> QED
    BY <1>1, <1>2, <1>3, <1>4, <1>5, <1>6, <1>7, <1>8, <1>9, <1>10, <1>11, <1>12
    DEF Next, Caller, WorkerStep, GrabReturns

\* The inductive invariant holds in every reachable state.
THEOREM Invariance == Spec => []IInv
  <1>1. QED BY InitIInv, NextIInv, PTL DEF Spec

\* live.py: every variable has its type, for any callers, workers and restarts.
THEOREM TypeCorrect == Spec => []TypeOK
  <1>1. IInv => TypeOK
    BY DEF IInv
  <1>2. QED BY <1>1, Invariance, PTL

\* live.py:105: is_running never lies, so there is at most one live worker.
THEOREM HandleIsTruthful == Spec => []RunningIsTruthful
  <1>1. IInv => RunningIsTruthful
    BY DEF IInv
  <1>2. QED BY <1>1, Invariance, PTL

\* live.py:90: stop() answers True only when no worker can be inside the device.
THEOREM StopFreesTheDevice == Spec => []StopMeansFree
  <1>1. IInv => StopMeansFree
    BY DEF IInv
  <1>2. QED BY <1>1, Invariance, PTL

\* live.py:37, 56: the count and the error shown are those of the current run.
THEOREM ProgressIsThisRun == Spec => [](CountIsThisRun /\ ErrorIsThisRun)
  <1>1. IInv => CountIsThisRun /\ ErrorIsThisRun
    BY DEF IInv
  <1>2. QED BY <1>1, Invariance, PTL

----------------------------------------------------------------------------
(* DeviceClient: the server process of an attempt *)

\* A server that is gone, or was never spawned.
Departed == Exits \cup {"none"}

\* Of all attempts only the one under way can have a server; and there is none, nor a
\* connection, where the client says that there is none.
OneServer ==
    /\ \A a \in 0..MaxAttempts : a # attempt => proc[a] \in Departed
    /\ at \in {"spawn", "sweep", "release", "closed", "raised"} => proc[attempt] \in Departed
    /\ at \in {"spawn", "closed", "raised"} => conns = {}

\* A server that reported everything released has no segment, nor has one whose known
\* segments were swept.
Unlinked ==
    /\ at = "settle" /\ graceful => \A d \in Devices : segs[d] = {}
    /\ at \in {"release", "closed"} => \A d \in Devices : last[d] \notin segs[d]

ClientInv == ClientTypeOK /\ OneServer /\ Unlinked

LEMMA ClientInvInit == ClientInit => ClientInv
  <1> SUFFICES ASSUME ClientInit PROVE ClientInv
    OBVIOUS
  <1>1. ClientTypeOK
    <2>1. 0 \in 0..MaxAttempts /\ 0 \in 0..MaxSegments
      BY DeviceClientAssumption
    <2>2. /\ proc \in [0..MaxAttempts -> Lives] /\ attempt \in 0..MaxAttempts
          /\ at \in ClientPoints
      BY <2>1 DEF ClientInit, Lives, ClientPoints, Starting
    <2>3. /\ segs \in [Devices -> SUBSET (1..MaxSegments)]
          /\ made \in [Devices -> 0..MaxSegments] /\ last \in [Devices -> 0..MaxSegments]
      BY <2>1 DEF ClientInit
    <2> QED BY <2>2, <2>3 DEF ClientInit, ClientTypeOK
  <1>2. OneServer /\ Unlinked
    BY DeviceClientAssumption DEF ClientInit, OneServer, Departed, Unlinked
  <1> QED BY <1>1, <1>2 DEF ClientInv

\* What the server does, and whoever else is on the machine.
LEMMA ServerKeepsClientInv ==
    ASSUME ClientInv,
           \/ StrangerTakesPort \/ Listens \/ Wedges \/ Dies \/ Ends
           \/ \E d \in Devices : MakesSegment(d)
    PROVE  ClientInv'
  <1> USE DeviceClientAssumption
      DEF ClientInv, ClientTypeOK, OneServer, Unlinked, Departed, Exits, Lives, Life,
          ServerAlive, Becomes, Server, clientVars
  <1>1. CASE StrangerTakesPort
    BY <1>1 DEF StrangerTakesPort
  <1>2. CASE Listens
    BY <1>2 DEF Listens
  <1>3. CASE Wedges
    BY <1>3 DEF Wedges
  <1>4. CASE Dies
    BY <1>4 DEF Dies
  <1>5. CASE Ends
    BY <1>5 DEF Ends
  <1>6. ASSUME NEW d \in Devices, MakesSegment(d) PROVE ClientInv'
    BY <1>6 DEF MakesSegment
  <1> QED BY <1>1, <1>2, <1>3, <1>4, <1>5, <1>6

\* Starting: another attempt is made, or the failure raised, only when the server of the
\* attempt before is gone and its connections are closed.
LEMMA StartupKeepsClientInv == ClientInv /\ (Startup \/ StrangerAnswers) => ClientInv'
  <1> SUFFICES ASSUME ClientInv, Startup \/ StrangerAnswers PROVE ClientInv'
    OBVIOUS
  <1> USE DeviceClientAssumption
      DEF ClientInv, ClientTypeOK, OneServer, Unlinked, Departed, Exits, Lives, Life,
          ServerAlive, Becomes, Goes, Keeps, Connecting, serverVars, ClientPoints, Starting
  <1>1. CASE Spawns
    <2>1. CASE attempt < MaxAttempts
      <3>1. attempt + 1 \in 0..MaxAttempts
        BY <2>1
      <3>2. /\ at = "spawn" /\ at' = "connect" /\ attempt' = attempt + 1 /\ late' = FALSE
            /\ proc' = [proc EXCEPT ![attempt + 1] = "booting"] /\ port' = "free"
            /\ UNCHANGED <<graceful, conns, segs, made, last>>
        BY <1>1, <2>1 DEF Spawns
      <3>3. proc' \in [0..MaxAttempts -> Lives] /\ at' \in ClientPoints
        BY <3>2
      <3>4. ClientTypeOK' /\ Unlinked'
        BY <3>1, <3>2, <3>3
      <3>5. \A a \in 0..MaxAttempts : proc[a] \in Departed
        BY <3>2
      <3>6. OneServer'
        BY <3>1, <3>2, <3>5
      <3> QED BY <3>4, <3>6
    <2>2. CASE ~(attempt < MaxAttempts)
      BY <1>1, <2>2 DEF Spawns
    <2> QED BY <2>1, <2>2
  <1>2. CASE DeadlinePasses
    BY <1>2 DEF DeadlinePasses
  <1>3. CASE SeesExit
    BY <1>3 DEF SeesExit
  <1>4. CASE Connects
    BY <1>4 DEF Connects, NextLinks, Links
  <1>5. CASE GivesUp \/ StrangerAnswers \/ Describes \/ LosesDescribe \/ IsConnected
    BY <1>5 DEF GivesUp, StrangerAnswers, Describes, LosesDescribe, IsConnected
  <1>6. CASE Releases
    BY <1>6 DEF Releases, Kills
  <1> QED BY <1>1, <1>2, <1>3, <1>4, <1>5, <1>6 DEF Startup

\* A session and its end: each way to the end passes the server's own, and then
\* either its report or the sweep of what the client has seen.
LEMMA SessionKeepsClientInv ==
    ClientInv /\ (Teardown \/ \E d \in Devices : ReadsFrame(d)) => ClientInv'
  <1> SUFFICES ASSUME ClientInv, Teardown \/ \E d \in Devices : ReadsFrame(d)
               PROVE  ClientInv'
    OBVIOUS
  <1> USE DeviceClientAssumption
      DEF ClientInv, ClientTypeOK, OneServer, Unlinked, Departed, Exits, Lives, Life,
          ServerAlive, Becomes, Goes, Keeps, serverVars, ClientPoints, Starting
  <1>1. CASE Leaves \/ Settles \/ FallsBack
    BY <1>1 DEF Leaves, Settles, FallsBack
  <1>2. CASE ShutdownAnswered
    BY <1>2 DEF ShutdownAnswered
  <1>3. CASE ShutdownFails
    BY <1>3 DEF ShutdownFails
  <1>4. CASE ClosesDevices
    BY <1>4 DEF ClosesDevices
  <1>5. CASE Terminates
    BY <1>5 DEF Terminates, Kills
  <1>6. CASE Sweeps
    BY <1>6 DEF Sweeps
  <1>7. ASSUME NEW d \in Devices, ReadsFrame(d) PROVE ClientInv'
    BY <1>7 DEF ReadsFrame
  <1> QED BY <1>1, <1>2, <1>3, <1>4, <1>5, <1>6, <1>7 DEF Teardown

LEMMA ClientInvNext == ClientInv /\ [ClientNext]_allVars => ClientInv'
  <1> SUFFICES ASSUME ClientInv, [ClientNext]_allVars PROVE ClientInv'
    OBVIOUS
  <1>1. CASE UNCHANGED allVars
    BY <1>1 DEF allVars, serverVars, clientVars, ClientInv, ClientTypeOK, OneServer, Unlinked
  <1>2. CASE ClientNext
    BY <1>2, ServerKeepsClientInv, StartupKeepsClientInv, SessionKeepsClientInv
    DEF ClientNext, World
  <1> QED BY <1>1, <1>2

THEOREM ClientInvariance == ClientSpec => []ClientInv
  BY ClientInvInit, ClientInvNext, PTL DEF ClientSpec

\* remote.py: the type of every variable, for any devices, attempts and segments.
THEOREM ClientTypeCorrect == ClientSpec => []ClientTypeOK
  <1>1. ClientInv => ClientTypeOK
    BY DEF ClientInv
  <1> QED BY <1>1, ClientInvariance, PTL

\* _spawn_and_connect, _release_spawned_server, remote_instrument: however a start or a
\* session ends, and whatever the server and the strangers on its ports do, neither a
\* process nor a connection is left.
THEOREM NoServerIsLeft == ClientSpec => []NothingLeftBehind
  <1>1. ClientInv => NothingLeftBehind
    BY DEF ClientInv, OneServer, NothingLeftBehind, Departed
  <1> QED BY <1>1, ClientInvariance, PTL

\* unlink_orphan: a segment the client has read from outlives no session.
THEOREM KnownSegmentsAreUnlinked == ClientSpec => []KnownSegmentsAreReclaimed
  <1>1. ClientInv => KnownSegmentsAreReclaimed
    BY DEF ClientInv, Unlinked, KnownSegmentsAreReclaimed
  <1> QED BY <1>1, ClientInvariance, PTL

\* _release_segments_of_a_dead_server: no segment is taken from a live writer.
THEOREM TheLivingAreSpared == ClientSpec => SweepsOnlyTheDead
  <1>1. ClientInv /\ [ClientNext]_allVars => [Sweeps => ~ServerAlive]_allVars
    BY DEF ClientInv, OneServer, Sweeps, ServerAlive, Life, Departed
  <1> QED BY <1>1, ClientInvariance, PTL DEF ClientSpec, SweepsOnlyTheDead

----------------------------------------------------------------------------
(* Supervisor: the broker and the front ends *)

USE SupervisorAssumption

\* The types of two of its records.
Sessions == [state : {"starting", "serving", "failed", "stopped"},
             invitation : {"none", "old", "whole"}]
Mains == [at : {"start", "loop", "health", "ask", "wait", "terminate", "lost", "unlink", "over"},
          todo : Seq(Procs), next : {"loop", "quit", "lost", "unlink", "over"}]

\* What has been opened is still known: a front end of the tray while it loops, a
\* process that is up while processes are being stopped, the broker after the others.
Remembered == \A p \in Up \cap Fronts : \E i \in 1..Len(running) : running[i] = p
Accounted == IsStopping => \A p \in Up : \E i \in 1..Len(main.todo) : main.todo[i] = p
BrokerLast == \A i \in 1..Len(main.todo) : main.todo[i] = Broker => i = Len(main.todo)

\* What the main thread is at, and what it does when the last process has gone.
MainIsAt ==
    /\ IsStopping <=> main.at \in {"ask", "wait", "terminate"}
    /\ IsStopping => main.next \in {"lost", "unlink", "over"} /\ (kind = "tray" => main.next # "over")

NoneLeft == main.at \in {"start", "lost", "unlink", "over"} => Up = {}

\* Which front ends there can be, by supervisor.
Opened ==
    /\ session.state = "starting" => Up \subseteq {Broker}
    /\ kind = "serve" => Up \subseteq {Broker}
    /\ kind = "window" => Up \subseteq {Window, Broker}
    /\ kind = "tray" /\ main.at \in {"loop", "health"} => Remembered

\* The file of an earlier run is not there to be read, nor this one's in the end.
Invited ==
    /\ main.at # "start" => file # "old"
    /\ kind = "tray" /\ main.at = "over" => file = "none"

SupervisorInv ==
    /\ SupervisorTypeOK /\ Accounted /\ BrokerLast /\ MainIsAt /\ NoneLeft
    /\ Opened /\ Invited /\ OneOfAKind /\ ServesItsOwn

LEMMA SupervisorInvInit == SupervisorInit => SupervisorInv
  <1> SUFFICES ASSUME SupervisorInit PROVE SupervisorInv
    OBVIOUS
  <1> USE DEF SupervisorInit, Loop, IsStopping
  <1>1. main.todo = <<>> /\ main.at = "start" /\ Up = {}
    BY DEF Up, IsUp
  <1>2. SupervisorTypeOK
    <2>1. /\ main = [at |-> "start", todo |-> <<>>, next |-> "loop"]
          /\ <<>> \in Seq(Procs) /\ <<>> \in Seq(Fronts) /\ <<>> \in Seq({"quit", "lost"})
      BY EmptySeq
    <2>2. main \in Mains /\ session \in Sessions
      BY <2>1 DEF Mains, Sessions
    <2> QED BY <2>1, <2>2 DEF SupervisorTypeOK, ProcessLives, Mains, Sessions
  <1>3. Accounted /\ BrokerLast /\ MainIsAt /\ NoneLeft /\ Opened /\ Invited
    BY <1>1 DEF Accounted, BrokerLast, MainIsAt, NoneLeft, Opened, Invited, Remembered
  <1>4. OneOfAKind /\ ServesItsOwn
    BY <1>1 DEF OneOfAKind, ServesItsOwn
  <1> QED BY <1>2, <1>3, <1>4 DEF SupervisorInv

----------------------------------------------------------------------------
(* What poll() keeps *)

\* A set of naturals has a least element.
LEMMA HasLeast ==
    ASSUME NEW S \in SUBSET Nat, S # {}
    PROVE  \E i \in S : \A j \in S : i <= j
  <1> DEFINE Less == OpToRel(<, Nat)
  <1>1. PICK i \in S : \A j \in S : <<j, i>> \notin Less
    <2>1. IsWellFoundedOn(Less, Nat)
      BY NatLessThanWellFounded
    <2> HIDE DEF Less
    <2> QED BY <2>1, WFMin
  <1>2. \A j \in S : ~(j < i)
    BY <1>1 DEF OpToRel
  <1> HIDE DEF Less
  <1> QED BY <1>2

\* Step i of the recursion in Pruned, and a function that follows it up to n.
Keeping(f, i) ==
    IF i = 0 THEN <<>>
    ELSE IF IsUp(running[i]) THEN Append(f[i - 1], running[i]) ELSE f[i - 1]
KeepsUpTo(n, f) ==
    /\ f \in [0..n -> Seq(Fronts)]
    /\ \A i \in 0..n : f[i] = Keeping(f, i)
    /\ \A i \in 0..n : \A k \in 1..i :
        IsUp(running[k]) => \E j \in 1..Len(f[i]) : f[i][j] = running[k]

LEMMA KeepsOneMore ==
    ASSUME running \in Seq(Fronts), NEW n \in 1..Len(running), NEW f, KeepsUpTo(n - 1, f)
    PROVE  \E g : KeepsUpTo(n, g)
  <1> DEFINE kept == Keeping(f, n)
             g == [i \in 0..n |-> IF i = n THEN kept ELSE f[i]]
  <1>1. n - 1 \in 0..(n - 1) /\ f[n - 1] \in Seq(Fronts) /\ running[n] \in Fronts
    BY DEF KeepsUpTo
  <1>2. /\ kept \in Seq(Fronts)
        /\ \A k \in 1..n : IsUp(running[k]) => \E j \in 1..Len(kept) : kept[j] = running[k]
    <2>1. CASE IsUp(running[n])
      <3>1. kept = Append(f[n - 1], running[n])
        BY <2>1 DEF Keeping
      <3> HIDE DEF kept
      <3>2. /\ kept \in Seq(Fronts) /\ Len(kept) = Len(f[n - 1]) + 1
            /\ kept[Len(kept)] = running[n]
            /\ \A j \in 1..Len(f[n - 1]) : kept[j] = f[n - 1][j]
        BY <1>1, <3>1, AppendProperties
      <3>3. Len(f[n - 1]) \in Nat
        BY <1>1
      <3>4. SUFFICES ASSUME NEW k \in 1..n, IsUp(running[k])
                     PROVE  \E j \in 1..Len(kept) : kept[j] = running[k]
        BY <3>2
      <3>5. CASE k = n
        BY <3>2, <3>3, <3>5
      <3>6. CASE k # n
        <4>1. PICK j \in 1..Len(f[n - 1]) : f[n - 1][j] = running[k]
          BY <1>1, <3>4, <3>6 DEF KeepsUpTo
        <4> QED BY <3>2, <3>3, <4>1
      <3> QED BY <3>5, <3>6
    <2>2. CASE ~IsUp(running[n])
      <3>1. kept = f[n - 1]
        BY <2>2 DEF Keeping
      <3> HIDE DEF kept
      <3>2. \A k \in 1..n : IsUp(running[k]) => k \in 1..(n - 1)
        BY <2>2
      <3> QED BY <1>1, <3>1, <3>2 DEF KeepsUpTo
    <2> QED BY <2>1, <2>2
  <1> HIDE DEF kept
  <1>3. g \in [0..n -> Seq(Fronts)]
    BY <1>2 DEF KeepsUpTo
  <1>4. \A i \in 0..n : g[i] = IF i = n THEN kept ELSE f[i]
    OBVIOUS
  <1>5. \A i \in 0..n : Keeping(g, i) = Keeping(f, i)
    BY DEF Keeping
  <1> HIDE DEF g
  <1>6. \A i \in 0..n : g[i] = Keeping(g, i)
    BY <1>4, <1>5 DEF KeepsUpTo, kept
  <1>7. \A i \in 0..n : \A k \in 1..i :
            IsUp(running[k]) => \E j \in 1..Len(g[i]) : g[i][j] = running[k]
    <2> SUFFICES ASSUME NEW i \in 0..n, NEW k \in 1..i, IsUp(running[k])
                 PROVE  \E j \in 1..Len(g[i]) : g[i][j] = running[k]
      OBVIOUS
    <2>1. CASE i = n
      BY <1>2, <1>4, <2>1
    <2>2. CASE i # n
      <3>1. i \in 0..(n - 1) /\ g[i] = f[i]
        BY <1>4, <2>2
      <3>2. \E j \in 1..Len(f[i]) : f[i][j] = running[k]
        BY <3>1 DEF KeepsUpTo
      <3> QED BY <3>1, <3>2
    <2> QED BY <2>1, <2>2
  <1>8. KeepsUpTo(n, g)
    BY <1>3, <1>6, <1>7 DEF KeepsUpTo
  <1> QED BY <1>8

LEMMA KeepsToTheEnd ==
    ASSUME running \in Seq(Fronts), NEW N \in Nat, N = Len(running)
    PROVE  \E f : KeepsUpTo(N, f)
  <1> DEFINE Short == {n \in 0..N : ~ \E f : KeepsUpTo(n, f)}
  <1> SUFFICES ASSUME Short # {} PROVE FALSE
    OBVIOUS
  <1>1. PICK n \in Short : \A m \in Short : n <= m
    <2>1. Short \in SUBSET Nat
      OBVIOUS
    <2> HIDE DEF Short
    <2> QED BY <2>1, HasLeast
  <1>2. CASE n = 0
    <2>1. KeepsUpTo(0, [i \in 0..0 |-> <<>>])
      BY DEF KeepsUpTo, Keeping
    <2> QED BY <1>2, <2>1
  <1>3. CASE n # 0
    <2>1. n - 1 \in 0..N /\ n - 1 \notin Short /\ n \in 1..Len(running)
      BY <1>1, <1>3
    <2>2. PICK f : KeepsUpTo(n - 1, f)
      BY <2>1
    <2> QED BY <2>1, <2>2, KeepsOneMore
  <1> QED BY <1>2, <1>3

\* poll() forgets no front end that is up.
LEMMA PrunedKeepsUp ==
    ASSUME running \in Seq(Fronts)
    PROVE  /\ Pruned \in Seq(Fronts)
           /\ \A i \in 1..Len(running) :
                IsUp(running[i]) => \E j \in 1..Len(Pruned) : Pruned[j] = running[i]
  <1> DEFINE N == Len(running)
             kept == CHOOSE f : f = [i \in 0..N |-> Keeping(f, i)]
             Off(g) == {i \in 0..N : kept[i] # g[i]}
  <1>1. N \in Nat
    OBVIOUS
  <1>2. PICK g : KeepsUpTo(N, g)
    BY <1>1, KeepsToTheEnd
  <1>3. kept = [i \in 0..N |-> Keeping(kept, i)]
    <2>1. g = [i \in 0..N |-> Keeping(g, i)]
      BY <1>2 DEF KeepsUpTo
    <2> HIDE DEF N
    <2> QED BY <2>1
  <1>4. Pruned = kept[N]
    BY DEF Pruned, Keeping
  <1> HIDE DEF kept, N
  <1>5. Off(g) = {}
    <2> SUFFICES ASSUME Off(g) # {} PROVE FALSE
      OBVIOUS
    <2>1. PICK n \in Off(g) : \A m \in Off(g) : n <= m
      <3>1. Off(g) \in SUBSET Nat
        BY <1>1
      <3> HIDE DEF Off
      <3> QED BY <3>1, HasLeast
    <2>2. kept[n] = Keeping(kept, n) /\ g[n] = Keeping(g, n)
      BY <1>2, <1>3 DEF KeepsUpTo
    <2>3. n # 0 => kept[n - 1] = g[n - 1]
      BY <1>1, <2>1
    <2> QED BY <2>2, <2>3 DEF Keeping
  <1>6. Pruned = g[N]
    BY <1>1, <1>4, <1>5
  <1> QED BY <1>1, <1>2, <1>6 DEF KeepsUpTo, N

----------------------------------------------------------------------------
(* One step of a supervisor, or of a process *)

LEMMA TodoIsSane ==
    ASSUME SupervisorTypeOK
    PROVE  /\ main.todo \in Seq(Procs) /\ Len(main.todo) \in Nat
           /\ running \in Seq(Fronts) /\ Len(running) \in Nat
           /\ IsStopping => /\ Target \in Procs /\ Target = main.todo[1]
                            /\ Len(main.todo) >= 1
  <1>1. main.todo \in Seq(Procs) /\ running \in Seq(Fronts)
    BY DEF SupervisorTypeOK
  <1>2. IsStopping => Head(main.todo) = main.todo[1] /\ Len(main.todo) >= 1
    BY <1>1 DEF IsStopping
  <1> QED BY <1>1, <1>2 DEF IsStopping, Target

\* A process ends, by itself or because it was asked or made to.
LEMMA OneIsGone ==
    ASSUME SupervisorInv, NEW q \in Procs, process' = Gone(q),
           UNCHANGED <<kind, deaf, file, trayVars, main, asked>>
    PROVE  SupervisorInv'
  <1> USE DEF SupervisorInv, trayVars
  <1>1. process' \in [Procs -> ProcessLives] /\ Up' \subseteq Up
    BY DEF SupervisorTypeOK, Gone, ProcessLives, Up, IsUp
  <1>2. SupervisorTypeOK'
    BY <1>1 DEF SupervisorTypeOK
  <1>3. (Accounted /\ BrokerLast /\ MainIsAt /\ NoneLeft)'
    BY <1>1 DEF Accounted, BrokerLast, MainIsAt, NoneLeft, IsStopping
  <1>4. (Opened /\ Invited)'
    BY <1>1 DEF Opened, Invited, Remembered, Window
  <1>5. (OneOfAKind /\ ServesItsOwn)'
    BY <1>1 DEF OneOfAKind, ServesItsOwn
  <1> QED BY <1>2, <1>3, <1>4, <1>5

\* A step of what no invariant but the types is about.
LEMMA NothingMoves ==
    ASSUME SupervisorInv, SupervisorTypeOK',
           UNCHANGED <<kind, process, file, front, running, session, main>>
    PROVE  SupervisorInv'
  <1> USE DEF SupervisorInv
  <1>1. Up' = Up
    BY DEF Up, IsUp
  <1>2. (Accounted /\ BrokerLast /\ MainIsAt /\ NoneLeft)'
    BY <1>1 DEF Accounted, BrokerLast, MainIsAt, NoneLeft, IsStopping
  <1>3. (Opened /\ Invited)'
    BY <1>1 DEF Opened, Invited, Remembered, Window
  <1>4. (OneOfAKind /\ ServesItsOwn)'
    BY <1>1 DEF OneOfAKind, ServesItsOwn
  <1> QED BY <1>2, <1>3, <1>4

\* What a process does by itself, and what is read of it.
LEMMA ProcessesKeepInv == SupervisorInv /\ Processes => SupervisorInv'
  <1> SUFFICES ASSUME SupervisorInv, Processes PROVE SupervisorInv'
    OBVIOUS
  <1>1. CASE Publishes
    <2> USE <1>1 DEF Publishes, SupervisorInv, trayVars
    <2>1. Up' = Up /\ Broker \in Up /\ file' \in {"part", "whole"}
      BY DEF Up, IsUp, Procs
    <2>2. SupervisorTypeOK'
      BY <2>1 DEF SupervisorTypeOK
    <2>3. (Accounted /\ BrokerLast /\ MainIsAt /\ NoneLeft)'
      BY <2>1 DEF Accounted, BrokerLast, MainIsAt, NoneLeft, IsStopping
    <2>4. (Opened /\ Invited)'
      BY <2>1 DEF Opened, Invited, Remembered, Window, NoneLeft
    <2>5. (OneOfAKind /\ ServesItsOwn)'
      BY <2>1 DEF OneOfAKind, ServesItsOwn
    <2> QED BY <2>2, <2>3, <2>4, <2>5
  <1>2. CASE Heeds
    BY <1>2, OneIsGone, TodoIsSane DEF Heeds, SupervisorInv
  <1>3. ASSUME NEW p \in Procs, ProcessDies(p) PROVE SupervisorInv'
    BY <1>3, OneIsGone DEF ProcessDies
  <1>4. ASSUME NEW p \in Procs, Hangs(p) PROVE SupervisorInv'
    <2>1. SupervisorTypeOK'
      BY <1>4 DEF Hangs, SupervisorInv, SupervisorTypeOK, trayVars
    <2> QED BY <1>4, <2>1, NothingMoves DEF Hangs, trayVars
  <1>5. ASSUME NEW p \in Procs, Reads(p) PROVE SupervisorInv'
    <2>1. SupervisorTypeOK'
      BY <1>5 DEF Reads, SupervisorInv, SupervisorTypeOK, processVars
    <2> QED BY <1>5, <2>1, NothingMoves DEF Reads, processVars
  <1> QED BY <1>1, <1>2, <1>3, <1>4, <1>5 DEF Processes

\* What the main thread does to its own record alone is no matter to the rest.
LEMMA OnlyMainMoves ==
    ASSUME SupervisorInv, UNCHANGED <<kind, processVars, trayVars, asked>>,
           main.at # "start",
           main' \in [at : {"ask", "wait", "terminate", "lost", "unlink", "over"},
                      todo : Seq(Procs), next : {"loop", "quit", "lost", "unlink", "over"}],
           kind = "tray" => main'.at # "over",
           (Accounted /\ BrokerLast /\ MainIsAt /\ NoneLeft)'
    PROVE  SupervisorInv'
  <1> USE DEF SupervisorInv, trayVars, processVars
  <1>1. Up' = Up
    BY DEF Up, IsUp
  <1>2. SupervisorTypeOK'
    BY DEF SupervisorTypeOK
  <1>3. (Opened /\ Invited)'
    BY <1>1 DEF Opened, Invited, Remembered, Window, NoneLeft, MainIsAt, SupervisorTypeOK
  <1>4. (OneOfAKind /\ ServesItsOwn)'
    BY <1>1 DEF OneOfAKind, ServesItsOwn
  <1> QED BY <1>2, <1>3, <1>4

\* stop(): one after the other, and the last one's end is the end of all.
LEMMA StopKeepsInv == SupervisorInv /\ Stop => SupervisorInv'
  <1> SUFFICES ASSUME SupervisorInv, Stop PROVE SupervisorInv'
    OBVIOUS
  <1>1. CASE SeesItGone
    <2> DEFINE todo == main.todo
    <2>1. /\ IsStopping /\ ~IsUp(Target) /\ main' = NextTarget
          /\ UNCHANGED <<kind, processVars, trayVars, asked>> /\ main.at # "start"
      BY <1>1 DEF SeesItGone, SupervisorInv, MainIsAt
    <2>2. Up' = Up /\ Target \notin Up
      BY <2>1 DEF Up, IsUp, processVars
    <2>3. /\ todo \in Seq(Procs) /\ Len(todo) \in Nat /\ Len(todo) >= 1 /\ todo # <<>>
          /\ todo[1] = Target
      BY <2>1, TodoIsSane DEF SupervisorInv, IsStopping
    <2>4. /\ Tail(todo) \in Seq(Procs) /\ Len(Tail(todo)) = Len(todo) - 1
          /\ \A i \in 1..Len(Tail(todo)) : Tail(todo)[i] = todo[i + 1]
      BY <2>3, HeadTailProperties
    <2>5. /\ main.next \in {"lost", "unlink", "over"} /\ (kind = "tray" => main.next # "over")
          /\ \A p \in Up : \E i \in 1..Len(todo) : todo[i] = p
          /\ \A i \in 1..Len(todo) : todo[i] = Broker => i = Len(todo)
      BY <2>1 DEF SupervisorInv, SupervisorTypeOK, MainIsAt, Accounted, BrokerLast
    <2>6. \A p \in Up : \E i \in 1..Len(Tail(todo)) : Tail(todo)[i] = p
      <3> SUFFICES ASSUME NEW p \in Up
                   PROVE  \E i \in 1..Len(Tail(todo)) : Tail(todo)[i] = p
        OBVIOUS
      <3>1. PICK i \in 1..Len(todo) : todo[i] = p
        BY <2>5
      <3>2. i # 1
        BY <2>2, <2>3, <3>1
      <3>3. i - 1 \in 1..Len(Tail(todo)) /\ Tail(todo)[i - 1] = p
        BY <2>3, <2>4, <3>1, <3>2
      <3> QED BY <3>3
    <2>7. CASE Tail(todo) = <<>>
      <3>1. main' = [at |-> main.next, todo |-> <<>>, next |-> "loop"]
        BY <2>1, <2>7 DEF NextTarget, Loop
      <3>2. <<>> \in Seq(Procs) /\ Len(<<>>) = 0
        BY EmptySeq
      <3>3. Up = {}
        <4>1. Len(Tail(todo)) = 0
          BY <2>7, <3>2
        <4> HIDE DEF todo
        <4> QED BY <2>6, <4>1
      <3>4. (Accounted /\ BrokerLast /\ MainIsAt /\ NoneLeft)'
        BY <2>1, <2>2, <2>5, <3>1, <3>2, <3>3
        DEF Accounted, BrokerLast, MainIsAt, NoneLeft, IsStopping
      <3> QED BY <2>1, <2>5, <3>1, <3>2, <3>4, OnlyMainMoves
    <2>8. CASE Tail(todo) # <<>>
      <3>1. main' = [at |-> "ask", todo |-> Tail(todo), next |-> main.next]
        BY <2>1, <2>8 DEF NextTarget, Stopping
      <3>2. \A i \in 1..Len(Tail(todo)) : Tail(todo)[i] = Broker => i = Len(Tail(todo))
        BY <2>3, <2>4, <2>5
      <3>3. (Accounted /\ BrokerLast /\ MainIsAt /\ NoneLeft)'
        BY <2>1, <2>2, <2>5, <2>6, <2>8, <3>1, <3>2
        DEF Accounted, BrokerLast, MainIsAt, NoneLeft, IsStopping
      <3>4. main' \in [at : {"ask", "wait", "terminate", "lost", "unlink", "over"},
                       todo : Seq(Procs), next : {"loop", "lost", "unlink", "over"}]
        BY <2>4, <2>5, <3>1
      <3> QED BY <2>1, <3>1, <3>3, <3>4, OnlyMainMoves
    <2> QED BY <2>7, <2>8
  <1>2. CASE Asks \/ WaitTimesOut
    <2>1. /\ IsStopping /\ \E to \in {"wait", "terminate"} : main' = [main EXCEPT !.at = to]
          /\ UNCHANGED <<kind, processVars, trayVars, asked>> /\ main.at # "start"
      BY <1>2 DEF Asks, WaitTimesOut, SupervisorInv, MainIsAt
    <2>2. main \in Mains /\ Accounted /\ BrokerLast /\ MainIsAt
      BY DEF SupervisorInv, SupervisorTypeOK, Mains
    <2>3. /\ main'.at \in {"wait", "terminate"} /\ main'.todo = main.todo
          /\ main'.next = main.next /\ Up' = Up
          /\ main' \in [at : {"wait", "terminate"}, todo : Seq(Procs),
                        next : {"loop", "quit", "lost", "unlink", "over"}]
      BY <2>1, <2>2 DEF Up, IsUp, processVars, Mains
    <2>4. (Accounted /\ BrokerLast /\ MainIsAt /\ NoneLeft)'
      BY <2>1, <2>2, <2>3 DEF Accounted, BrokerLast, MainIsAt, NoneLeft, IsStopping
    <2> QED BY <2>1, <2>3, <2>4, OnlyMainMoves
  <1>3. CASE GraceTimesOut
    BY <1>3, OneIsGone, TodoIsSane DEF GraceTimesOut, KillsTarget, SupervisorInv
  <1> QED BY <1>1, <1>2, <1>3 DEF Stop

----------------------------------------------------------------------------
(* The steps of the main thread that begin or end something *)

\* It goes on looping, or does again, or asks the broker how it is: nothing new
\* runs, and a tray knows what does.
LEMMA LoopsOn ==
    ASSUME SupervisorInv, main.at # "start", main' \in {Loop, Asking("loop"), Asking("quit")},
           UNCHANGED <<kind, processVars, front, following, asked>>,
           running' \in Seq(Fronts), urls' \in [Labels -> Fronts \cup {Nobody}],
           dialogs' \in Seq({"quit", "lost"}), session' \in Sessions,
           session'.state = "starting" => session.state = "starting",
           session'.state = "serving" /\ kind = "tray" => session'.invitation = "whole",
           kind = "tray" => Remembered'
    PROVE  SupervisorInv'
  <1> USE DEF SupervisorInv, processVars
  <1>1. Up' = Up
    BY DEF Up, IsUp
  <1>2. /\ \/ main' = [at |-> "loop", todo |-> <<>>, next |-> "loop"]
           \/ main' = [at |-> "health", todo |-> <<>>, next |-> "loop"]
           \/ main' = [at |-> "health", todo |-> <<>>, next |-> "quit"]
        /\ <<>> \in Seq(Procs) /\ Len(<<>>) = 0
    BY EmptySeq DEF Loop, Asking
  <1>3. SupervisorTypeOK'
    <2>1. CASE main' = [at |-> "loop", todo |-> <<>>, next |-> "loop"]
      BY <1>2, <2>1 DEF SupervisorTypeOK, Sessions
    <2>2. CASE main' = [at |-> "health", todo |-> <<>>, next |-> "loop"]
      BY <1>2, <2>2 DEF SupervisorTypeOK, Sessions
    <2>3. CASE main' = [at |-> "health", todo |-> <<>>, next |-> "quit"]
      BY <1>2, <2>3 DEF SupervisorTypeOK, Sessions
    <2> QED BY <1>2, <2>1, <2>2, <2>3
  <1>4. (Accounted /\ BrokerLast /\ MainIsAt /\ NoneLeft)'
    BY <1>2 DEF Accounted, BrokerLast, MainIsAt, NoneLeft, IsStopping
  <1>5. (Opened /\ Invited)'
    BY <1>1, <1>2 DEF Opened, Invited, Window
  <1>6. (OneOfAKind /\ ServesItsOwn)'
    BY <1>1 DEF OneOfAKind, ServesItsOwn
  <1> QED BY <1>3, <1>4, <1>5, <1>6

\* It begins to stop processes: all that are up, the broker after the others.
LEMMA BeginsToStop ==
    ASSUME SupervisorInv, main.at # "start",
           NEW procs \in Seq(Procs), procs # <<>>, NEW next \in {"lost", "unlink", "over"},
           kind = "tray" => next # "over",
           main' = Stopping(procs, next),
           \A p \in Up : \E i \in 1..Len(procs) : procs[i] = p,
           \A i \in 1..Len(procs) : procs[i] = Broker => i = Len(procs),
           UNCHANGED <<kind, processVars, front, following, asked>>,
           running' \in Seq(Fronts), urls' \in [Labels -> Fronts \cup {Nobody}],
           dialogs' \in Seq({"quit", "lost"}), session' \in Sessions,
           session'.state = "starting" => session.state = "starting",
           session'.state = "serving" /\ kind = "tray" => session'.invitation = "whole"
    PROVE  SupervisorInv'
  <1> USE DEF SupervisorInv, processVars
  <1>1. Up' = Up
    BY DEF Up, IsUp
  <1>2. main' = [at |-> "ask", todo |-> procs, next |-> next]
    BY DEF Stopping
  <1>3. SupervisorTypeOK'
    BY <1>2 DEF SupervisorTypeOK, Sessions
  <1>4. (Accounted /\ BrokerLast /\ MainIsAt /\ NoneLeft)'
    BY <1>1, <1>2 DEF Accounted, BrokerLast, MainIsAt, NoneLeft, IsStopping
  <1>5. (Opened /\ Invited)'
    BY <1>1, <1>2 DEF Opened, Invited, Window
  <1>6. (OneOfAKind /\ ServesItsOwn)'
    BY <1>1 DEF OneOfAKind, ServesItsOwn
  <1> QED BY <1>3, <1>4, <1>5, <1>6

LEMMA StartsKeepsInv == SupervisorInv /\ Starts => SupervisorInv'
  <1> SUFFICES ASSUME SupervisorInv, Starts PROVE SupervisorInv'
    OBVIOUS
  <1> USE DEF SupervisorInv, Starts, RemovesLeftover, trayVars
  <1>1. process' \in [Procs -> ProcessLives] /\ Up' = {Broker}
    BY DEF SupervisorTypeOK, NoneLeft, Up, IsUp, Spawned, Procs, ProcessLives
  <1>2. /\ main' = [at |-> "loop", todo |-> <<>>, next |-> "loop"]
        /\ <<>> \in Seq(Procs) /\ Len(<<>>) = 0
    BY EmptySeq DEF Loop
  <1>3. SupervisorTypeOK'
    BY <1>1, <1>2 DEF SupervisorTypeOK
  <1>4. (Accounted /\ BrokerLast /\ MainIsAt /\ NoneLeft)'
    BY <1>2 DEF Accounted, BrokerLast, MainIsAt, NoneLeft, IsStopping
  <1>5. (Opened /\ Invited)'
    BY <1>1, <1>2 DEF Opened, Invited, Remembered, Window
  <1>6. (OneOfAKind /\ ServesItsOwn)'
    BY <1>1 DEF OneOfAKind, ServesItsOwn
  <1> QED BY <1>3, <1>4, <1>5, <1>6

LEMMA SessionMoves ==
    ASSUME session \in Sessions, NEW to \in {"serving", "failed", "stopped"},
           SessionBecomes(to)
    PROVE  session' \in Sessions /\ session'.state = to
  BY DEF SessionBecomes, Sessions

\* The launcher opens one window when the broker serves, and stops what is left.
LEMMA LauncherKeepsInv == SupervisorInv /\ Launcher => SupervisorInv'
  <1> SUFFICES ASSUME SupervisorInv, Launcher PROVE SupervisorInv'
    OBVIOUS
  <1>1. /\ IsRunning /\ main.at = "loop" /\ main.todo = <<>> /\ kind # "tray"
        /\ session \in Sessions
        /\ kind = "window" => Window \in Fronts
    <2>1. IsRunning
      BY DEF Launcher, WaitsForInvitation, GivesUpOnInvitation, Supervises, Serves
    <2>2. kind = "window" => Fronts # {}
      BY DEF SupervisorInv, SupervisorTypeOK
    <2> QED BY <2>1, <2>2 DEF IsRunning, Loop, Window, SupervisorInv, SupervisorTypeOK, Sessions
  <1>2. CASE WaitsForInvitation
    <2> USE <1>1, <1>2 DEF WaitsForInvitation, SupervisorInv
    <2>1. session' \in Sessions /\ session'.state = "serving"
      BY SessionMoves
    <2>2. /\ process' \in [Procs -> ProcessLives]
          /\ Up' \subseteq IF kind = "window" THEN Up \cup {Window} ELSE Up
      BY DEF SupervisorTypeOK, Spawned, Up, IsUp, ProcessLives, Procs
    <2>3. Up \subseteq {Broker}
      BY DEF Opened
    <2>4. SupervisorTypeOK'
      BY <2>1, <2>2 DEF SupervisorTypeOK, Sessions
    <2>5. (Accounted /\ BrokerLast /\ MainIsAt /\ NoneLeft)'
      BY DEF Accounted, BrokerLast, MainIsAt, NoneLeft, IsStopping
    <2>6. (Opened /\ Invited)'
      BY <2>1, <2>2, <2>3 DEF Opened, Invited, Window, SupervisorTypeOK
    <2>7. (OneOfAKind /\ ServesItsOwn)'
      BY <2>2, <2>3 DEF OneOfAKind, ServesItsOwn
    <2> QED BY <2>4, <2>5, <2>6, <2>7
  <1>3. ASSUME NEW procs \in Seq(Procs), procs # <<>>,
               \A i \in 1..Len(procs) : procs[i] = Broker => i = Len(procs),
               \A p \in Up : \E i \in 1..Len(procs) : procs[i] = p,
               NEW to \in {"failed", "stopped"}, SessionBecomes(to),
               main' = Stopping(procs, "over"),
               UNCHANGED <<kind, processVars, front, running, urls, following, dialogs, asked>>
        PROVE  SupervisorInv'
    <2>1. session' \in Sessions /\ session'.state = to
      BY <1>1, <1>3, SessionMoves
    <2>2. /\ running \in Seq(Fronts) /\ urls \in [Labels -> Fronts \cup {Nobody}]
          /\ dialogs \in Seq({"quit", "lost"})
      BY DEF SupervisorInv, SupervisorTypeOK
    <2> QED BY <1>1, <1>3, <2>1, <2>2, BeginsToStop
  <1> DEFINE Ready(procs) == /\ procs \in Seq(Procs) /\ procs # <<>>
                             /\ \A i \in 1..Len(procs) : procs[i] = Broker => i = Len(procs)
                             /\ \A p \in Up : \E i \in 1..Len(procs) : procs[i] = p
  <1>4. CASE GivesUpOnInvitation
    <2>1. Ready(<<Broker>>)
      BY <1>4 DEF GivesUpOnInvitation, SupervisorInv, Opened, Procs
    <2> QED BY <1>3, <1>4, <2>1 DEF GivesUpOnInvitation
  <1>5. CASE Supervises
    <2>1. kind = "window" /\ Window \in Fronts /\ Up \subseteq {Window, Broker}
      BY <1>1, <1>5 DEF Supervises, SupervisorInv, Opened
    <2>2. CASE asked
      <3>1. Ready(<<Window, Broker>>)
        BY <2>1 DEF Procs
      <3> QED BY <1>3, <1>5, <2>1, <2>2, <3>1 DEF Supervises, StopsThem
    <2>3. CASE ~asked /\ ~IsUp(Window)
      <3>1. Up \subseteq {Broker}
        BY <2>1, <2>3 DEF Up
      <3>2. Ready(<<Broker>>)
        BY <3>1 DEF Procs
      <3> QED BY <1>3, <1>5, <2>3, <3>2 DEF Supervises, StopsThem
    <2>4. CASE ~asked /\ IsUp(Window)
      <3>1. Up \subseteq {Window}
        BY <1>5, <2>1, <2>4 DEF Supervises, Up
      <3>2. Ready(<<Window>>)
        BY <2>1, <3>1 DEF Procs
      <3> QED BY <1>3, <1>5, <2>1, <2>4, <3>2 DEF Supervises, StopsThem
    <2> QED BY <2>2, <2>3, <2>4
  <1>6. CASE Serves
    <2>1. Ready(<<Broker>>)
      BY <1>6 DEF Serves, SupervisorInv, Opened, Procs
    <2> QED BY <1>3, <1>6, <2>1 DEF Serves, StopsThem
  <1> QED BY <1>2, <1>4, <1>5, <1>6 DEF Launcher

\* shutdown(): what is up is a front end the tray remembers, or the broker.
LEMMA ShutsDownKeepsInv ==
    ASSUME SupervisorInv, IsLooping, ShutsDown
    PROVE  SupervisorInv'
  <1> DEFINE procs == running \o <<Broker>>
  <1>1. /\ main.at = "loop" /\ kind = "tray" /\ main' = Stopping(procs, "unlink")
        /\ dialogs' = <<>> /\ session \in Sessions
        /\ UNCHANGED <<kind, processVars, front, running, urls, following, session, asked>>
    BY DEF IsLooping, Loop, ShutsDown, FrontsFirst, SupervisorInv, SupervisorTypeOK, Sessions
  <1>2. running \in Seq(Fronts) /\ running \in Seq(Procs) /\ <<Broker>> \in Seq(Procs)
    <2>1. running \in Seq(Fronts) /\ Fronts \subseteq Procs
      BY DEF SupervisorInv, SupervisorTypeOK, Procs
    <2>2. running \in Seq(Procs)
      BY <2>1, SeqMonotonic
    <2> QED BY <2>1, <2>2 DEF Procs
  <1>3. /\ procs \in Seq(Procs) /\ Len(procs) = Len(running) + 1 /\ Len(running) \in Nat
        /\ \A i \in 1..Len(running) : procs[i] = running[i]
        /\ procs[Len(procs)] = Broker
    <2>1. /\ procs \in Seq(Procs) /\ Len(procs) = Len(running) + Len(<<Broker>>)
          /\ \A i \in 1..Len(running) + Len(<<Broker>>) :
                procs[i] = IF i <= Len(running) THEN running[i]
                           ELSE <<Broker>>[i - Len(running)]
      BY <1>2, ConcatProperties
    <2>2. Len(<<Broker>>) = 1 /\ <<Broker>>[1] = Broker /\ Len(running) \in Nat
      BY <1>2
    <2> HIDE DEF procs
    <2> QED BY <2>1, <2>2
  <1> HIDE DEF procs
  <1>4. procs # <<>>
    BY <1>3, EmptySeq
  <1>5. \A p \in Up : \E i \in 1..Len(procs) : procs[i] = p
    <2> SUFFICES ASSUME NEW p \in Up PROVE \E i \in 1..Len(procs) : procs[i] = p
      OBVIOUS
    <2>1. CASE p = Broker
      BY <1>3, <2>1
    <2>2. CASE p \in Fronts
      <3>1. PICK i \in 1..Len(running) : running[i] = p
        BY <1>1, <2>2 DEF SupervisorInv, Opened, Remembered
      <3> QED BY <1>3, <3>1
    <2> QED BY <2>1, <2>2 DEF Up, Procs
  <1>6. \A i \in 1..Len(procs) : procs[i] = Broker => i = Len(procs)
    <2>1. \A i \in 1..Len(running) : running[i] \in Fronts
      BY <1>2
    <2> QED BY <1>3, <2>1
  <1>7. /\ <<>> \in Seq({"quit", "lost"})
        /\ urls \in [Labels -> Fronts \cup {Nobody}]
        /\ session.state = "serving" /\ kind = "tray" => session.invitation = "whole"
    BY EmptySeq DEF SupervisorInv, SupervisorTypeOK, ServesItsOwn
  <1> QED BY <1>1, <1>2, <1>3, <1>4, <1>5, <1>6, <1>7, BeginsToStop

\* A tick: the session polled, and what that can end.
LEMMA PollsKeepsInv == SupervisorInv /\ Polls => SupervisorInv'
  <1> SUFFICES ASSUME SupervisorInv, Polls PROVE SupervisorInv'
    OBVIOUS
  <1>1. /\ main = Loop /\ main.at = "loop" /\ kind = "tray" /\ file # "old"
        /\ running \in Seq(Fronts) /\ urls \in [Labels -> Fronts \cup {Nobody}]
        /\ dialogs \in Seq({"quit", "lost"}) /\ session \in Sessions
        /\ running' = Pruned /\ urls' = PrunedUrls
        /\ UNCHANGED <<kind, processVars, front, following, asked>>
    BY DEF Polls, IsTicking, IsLooping, Loop, SupervisorInv, SupervisorTypeOK, Invited, Sessions
  <1>2. running' \in Seq(Fronts) /\ urls' \in [Labels -> Fronts \cup {Nobody}]
    BY <1>1, PrunedKeepsUp DEF PrunedUrls
  <1>3. Remembered'
    <2>1. Up' = Up
      BY <1>1 DEF Up, IsUp, processVars
    <2> SUFFICES ASSUME NEW p \in Up \cap Fronts
                 PROVE  \E j \in 1..Len(Pruned) : Pruned[j] = p
      BY <1>1, <2>1 DEF Remembered
    <2>2. PICK i \in 1..Len(running) : running[i] = p
      BY <1>1 DEF SupervisorInv, Opened, Remembered
    <2>3. IsUp(running[i])
      BY <2>2 DEF Up
    <2> QED BY <1>1, <2>2, <2>3, PrunedKeepsUp
  <1>4. CASE Fails /\ UNCHANGED main
    <2>1. /\ session' \in Sessions /\ session'.state = "failed"
          /\ dialogs' \in Seq({"quit", "lost"})
      BY <1>1, <1>4, AppendProperties DEF Fails, Sessions
    <2> QED BY <1>1, <1>2, <1>3, <1>4, <2>1, LoopsOn
  <1>5. CASE UNCHANGED <<session, main, dialogs>>
    <2>1. session.state = "serving" => session.invitation = "whole"
      BY <1>1 DEF SupervisorInv, ServesItsOwn
    <2> QED BY <1>1, <1>2, <1>3, <1>5, <2>1, LoopsOn
  <1>6. CASE file \in Readable /\ session' = [state |-> "serving", invitation |-> file]
                /\ main' = Asking("loop") /\ UNCHANGED dialogs
    <2>1. file = "whole"
      BY <1>1, <1>6 DEF Readable
    <2>2. session' \in Sessions /\ session'.state = "serving" /\ session'.invitation = "whole"
      BY <1>6, <2>1 DEF Sessions
    <2> QED BY <1>1, <1>2, <1>3, <1>6, <2>2, LoopsOn
  <1>7. CASE /\ session.state = "starting" /\ main' = Stopping(<<Broker>>, "lost")
             /\ UNCHANGED <<session, dialogs>>
    <2>1. Up \subseteq {Broker}
      BY <1>7 DEF SupervisorInv, Opened
    <2>2. /\ <<Broker>> \in Seq(Procs) /\ <<Broker>> # <<>>
          /\ \A p \in Up : \E i \in 1..Len(<<Broker>>) : <<Broker>>[i] = p
          /\ \A i \in 1..Len(<<Broker>>) : <<Broker>>[i] = Broker => i = Len(<<Broker>>)
      BY <2>1 DEF Procs
    <2> QED BY <1>1, <1>2, <1>7, <2>2, BeginsToStop
  <1> QED BY <1>4, <1>5, <1>6, <1>7 DEF Polls, PollsStarting, PollsServing

\* The broker is asked how it is, by the timer or before the question to quit.
LEMMA AsksOn ==
    ASSUME SupervisorInv, IsLooping, main' \in {Asking("loop"), Asking("quit")},
           UNCHANGED <<kind, processVars, trayVars, asked>>
    PROVE  SupervisorInv'
  <1>1. /\ main.at = "loop" /\ kind = "tray"
        /\ running \in Seq(Fronts) /\ urls \in [Labels -> Fronts \cup {Nobody}]
        /\ dialogs \in Seq({"quit", "lost"}) /\ session \in Sessions
    BY DEF IsLooping, Loop, SupervisorInv, SupervisorTypeOK, Sessions
  <1>2. session.state = "serving" => session.invitation = "whole"
    BY <1>1 DEF SupervisorInv, ServesItsOwn
  <1>3. UNCHANGED <<kind, processVars, front, running, urls, following, session, dialogs, asked>>
    BY DEF trayVars
  <1>4. Remembered'
    BY <1>1, <1>3 DEF SupervisorInv, Opened, Remembered, Up, IsUp, processVars
  <1> QED BY <1>1, <1>2, <1>3, <1>4, LoopsOn

LEMMA TrayKeepsInv == SupervisorInv /\ Tray => SupervisorInv'
  <1> SUFFICES ASSUME SupervisorInv, Tray PROVE SupervisorInv'
    OBVIOUS
  <1>1. CASE Polls
    BY <1>1, PollsKeepsInv
  <1>2. CASE TickStops
    BY <1>2, ShutsDownKeepsInv DEF TickStops, IsTicking
  <1>3. CASE FailsAfterStop
    <2>1. /\ running \in Seq(Fronts) /\ urls \in [Labels -> Fronts \cup {Nobody}]
          /\ dialogs \in Seq({"quit", "lost"}) /\ Up = {}
      BY <1>3 DEF FailsAfterStop, SupervisorInv, SupervisorTypeOK, NoneLeft
    <2>2. /\ main.at # "start" /\ main' = Loop
          /\ session' \in Sessions /\ session'.state = "failed"
          /\ dialogs' \in Seq({"quit", "lost"})
          /\ UNCHANGED <<kind, processVars, front, running, urls, following, asked>>
      BY <1>3, <2>1, AppendProperties DEF FailsAfterStop, Fails, Sessions
    <2>3. Remembered'
      BY <2>1, <2>2 DEF Remembered, Up, IsUp, processVars
    <2> QED BY <2>1, <2>2, <2>3, LoopsOn
  <1>4. CASE Unlinks
    <2>1. /\ main' = [at |-> "over", todo |-> <<>>, next |-> "loop"] /\ main.at = "unlink"
          /\ session' = [state |-> "stopped", invitation |-> "none"]
          /\ file' = "none" /\ running' = <<>>
          /\ UNCHANGED <<kind, process, deaf, front, urls, following, dialogs, asked>>
      BY <1>4 DEF Unlinks, Loop
    <2>2. <<>> \in Seq(Procs) /\ <<>> \in Seq(Fronts) /\ Len(<<>>) = 0
      BY EmptySeq
    <2>3. SupervisorTypeOK'
      <3>1. main' \in Mains /\ session' \in Sessions
        BY <2>1, <2>2 DEF Mains, Sessions
      <3> QED BY <2>1, <2>2, <3>1 DEF SupervisorTypeOK, SupervisorInv, Mains, Sessions
    <2> USE <2>1 DEF SupervisorInv
    <2>4. Up = {} /\ Up' = {}
      BY DEF NoneLeft, Up, IsUp
    <2>5. (Accounted /\ BrokerLast /\ MainIsAt /\ NoneLeft)'
      BY <2>2, <2>4 DEF Accounted, BrokerLast, MainIsAt, NoneLeft, IsStopping
    <2>6. (Opened /\ Invited)'
      BY <2>4 DEF Opened, Invited, Window, Remembered
    <2>7. (OneOfAKind /\ ServesItsOwn)'
      BY <2>4 DEF OneOfAKind, ServesItsOwn
    <2> QED BY <2>3, <2>5, <2>6, <2>7
  <1>5. CASE AsksHealth
    <2>1. UNCHANGED <<kind, processVars, trayVars, asked>> /\ main' = Asking("loop") /\ IsLooping
      BY <1>5 DEF AsksHealth
    <2> QED BY <2>1, AsksOn
  <1>6. CASE HealthReturns
    <2>1. /\ running \in Seq(Fronts) /\ urls \in [Labels -> Fronts \cup {Nobody}]
          /\ dialogs \in Seq({"quit", "lost"}) /\ session \in Sessions
      BY DEF SupervisorInv, SupervisorTypeOK, Sessions
    <2>2. /\ main.at = "health" /\ main' = Loop /\ dialogs' \in Seq({"quit", "lost"})
          /\ UNCHANGED <<kind, processVars, front, running, urls, following, session, asked>>
      BY <1>6, <2>1, AppendProperties DEF HealthReturns
    <2>3. kind = "tray" => Remembered'
      BY <2>2 DEF SupervisorInv, Opened, Remembered, Up, IsUp, processVars
    <2>4. session.state = "serving" /\ kind = "tray" => session.invitation = "whole"
      BY DEF SupervisorInv, ServesItsOwn
    <2> QED BY <2>1, <2>2, <2>3, <2>4, LoopsOn
  <1> QED BY <1>1, <1>2, <1>3, <1>4, <1>5, <1>6 DEF Tray, Tick

\* open_front_end(): what is up is remembered, so a kind that none of the remembered
\* has is a kind of its own.
LEMMA OpensKeepsInv ==
    ASSUME SupervisorInv, NEW label \in Labels, OpensFrontEnd(label)
    PROVE  SupervisorInv'
  <1>1. PICK p \in Fronts :
            /\ process[p] = "unborn" /\ process' = Spawned(p)
            /\ front' = [front EXCEPT ![p] = label]
            /\ running' = Append(running, p) /\ following' = following \cup {p}
    BY DEF OpensFrontEnd
  <1>2. /\ main.at = "loop" /\ main.todo = <<>> /\ kind = "tray"
        /\ session.state = "serving" /\ RunningOf(label) = {}
        /\ UNCHANGED <<kind, deaf, file, urls, session, main, dialogs, asked>>
    BY DEF OpensFrontEnd, IsLooping, Loop, MayOpen
  <1> USE DEF SupervisorInv
  <1>3. /\ process' \in [Procs -> ProcessLives] /\ Up' = Up \cup {p} /\ p \notin Up
        /\ front' \in [Fronts -> Labels \cup {Nobody}]
    BY <1>1 DEF SupervisorTypeOK, Spawned, Up, IsUp, ProcessLives, Procs
  <1>4. /\ running \in Seq(Fronts) /\ running' \in Seq(Fronts) /\ Len(running) \in Nat
        /\ Len(running') = Len(running) + 1 /\ running'[Len(running) + 1] = p
        /\ \A i \in 1..Len(running) : running'[i] = running[i]
    BY <1>1, AppendProperties DEF SupervisorTypeOK
  <1>5. \A q \in Up \cap Fronts : front[q] # label
    <2> SUFFICES ASSUME NEW q \in Up \cap Fronts, front[q] = label PROVE FALSE
      OBVIOUS
    <2>1. PICK i \in 1..Len(running) : running[i] = q
      BY <1>2 DEF Opened, Remembered
    <2>2. i \in DOMAIN running /\ IsUp(running[i])
      BY <1>4, <2>1 DEF Up
    <2> QED BY <1>2, <2>1, <2>2 DEF RunningOf
  <1>6. SupervisorTypeOK'
    BY <1>1, <1>2, <1>3, <1>4 DEF SupervisorTypeOK
  <1>7. (Accounted /\ BrokerLast /\ MainIsAt /\ NoneLeft)'
    BY <1>2 DEF Accounted, BrokerLast, MainIsAt, NoneLeft, IsStopping
  <1>8. Remembered'
    <2> SUFFICES ASSUME NEW q \in (Up \cup {p}) \cap Fronts
                 PROVE  \E i \in 1..Len(running') : running'[i] = q
      BY <1>3 DEF Remembered
    <2>1. CASE q = p
      BY <1>4, <2>1
    <2>2. CASE q \in Up
      <3>1. PICK i \in 1..Len(running) : running[i] = q
        BY <1>2, <2>2 DEF Opened, Remembered
      <3> QED BY <1>4, <3>1
    <2> QED BY <2>1, <2>2
  <1>9. (Opened /\ Invited)'
    BY <1>2, <1>8 DEF Opened, Invited
  <1>10. OneOfAKind'
    <2>1. /\ front \in [Fronts -> Labels \cup {Nobody}] /\ front'[p] = label
          /\ \A q \in Up \cap Fronts : front'[q] = front[q]
      BY <1>1, <1>3 DEF SupervisorTypeOK
    <2> QED BY <1>3, <1>5, <2>1 DEF OneOfAKind
  <1>11. ServesItsOwn'
    BY <1>2 DEF ServesItsOwn
  <1> QED BY <1>6, <1>7, <1>9, <1>10, <1>11

LEMMA OperatorKeepsInv == SupervisorInv /\ Operator => SupervisorInv'
  <1> SUFFICES ASSUME SupervisorInv, Operator PROVE SupervisorInv'
    OBVIOUS
  <1>1. ASSUME NEW label \in Labels, OpensFrontEnd(label) PROVE SupervisorInv'
    BY <1>1, OpensKeepsInv
  <1>2. ASSUME IsLooping, dialogs' \in Seq({"quit", "lost"}),
               UNCHANGED <<kind, processVars, front, running, urls, following>>,
               UNCHANGED <<session, main, asked>>
        PROVE  SupervisorInv'
    <2>1. /\ main.at # "start" /\ main' = Loop /\ kind = "tray" /\ main.at = "loop"
          /\ running \in Seq(Fronts) /\ urls \in [Labels -> Fronts \cup {Nobody}]
          /\ session \in Sessions
      BY <1>2 DEF IsLooping, Loop, SupervisorInv, SupervisorTypeOK, Sessions
    <2>2. session.state = "serving" => session.invitation = "whole"
      BY <2>1 DEF SupervisorInv, ServesItsOwn
    <2>3. Remembered'
      BY <1>2, <2>1 DEF SupervisorInv, Opened, Remembered, Up, IsUp, processVars
    <2> QED BY <1>2, <2>1, <2>2, <2>3, LoopsOn
  <1>3. dialogs \in Seq({"quit", "lost"})
    BY DEF SupervisorInv, SupervisorTypeOK
  <1>4. CASE ConfirmsQuit
    <2>1. CASE session.state = "serving"
      <3>1. /\ IsLooping /\ main' = Asking("quit")
            /\ UNCHANGED <<kind, processVars, trayVars, asked>>
        BY <1>4, <2>1 DEF ConfirmsQuit
      <3> QED BY <3>1, AsksOn
    <2>2. CASE session.state # "serving"
      BY <1>4, <2>2, ShutsDownKeepsInv DEF ConfirmsQuit
    <2> QED BY <2>1, <2>2
  <1>5. ASSUME NEW yes \in BOOLEAN, AnswersDialog(yes) PROVE SupervisorInv'
    <2>1. CASE yes \/ dialogs[Len(dialogs)] = "lost"
      BY <1>5, <2>1, ShutsDownKeepsInv DEF AnswersDialog
    <2>2. CASE ~(yes \/ dialogs[Len(dialogs)] = "lost")
      <3>1. dialogs' = SubSeq(dialogs, 1, Len(dialogs) - 1)
        BY <1>5, <2>2 DEF AnswersDialog
      <3>2. dialogs' \in Seq({"quit", "lost"})
        <4>1. /\ Len(dialogs) \in Nat
              /\ \A i \in 1..Len(dialogs) - 1 : dialogs[i] \in {"quit", "lost"}
          BY <1>3
        <4> QED BY <3>1, <4>1, SubSeqProperties
      <3> QED BY <1>2, <1>5, <2>2, <3>2 DEF AnswersDialog
    <2> QED BY <2>1, <2>2
  <1>6. CASE StopIsRequested
    <2>1. SupervisorTypeOK'
      BY <1>6 DEF StopIsRequested, SupervisorInv, SupervisorTypeOK, processVars, trayVars
    <2> QED BY <1>6, <2>1, NothingMoves DEF StopIsRequested, processVars, trayVars
  <1> QED BY <1>1, <1>4, <1>5, <1>6 DEF Operator

LEMMA SupervisorInvNext == SupervisorInv /\ [SupervisorNext]_supervisorVars => SupervisorInv'
  <1> SUFFICES ASSUME SupervisorInv, [SupervisorNext]_supervisorVars PROVE SupervisorInv'
    OBVIOUS
  <1>1. CASE UNCHANGED supervisorVars
    <2>1. SupervisorTypeOK'
      BY <1>1 DEF supervisorVars, SupervisorInv, SupervisorTypeOK, processVars, trayVars
    <2> QED BY <1>1, <2>1, NothingMoves DEF supervisorVars, processVars, trayVars
  <1>2. CASE SupervisorNext
    BY <1>2, StartsKeepsInv, StopKeepsInv, LauncherKeepsInv, TrayKeepsInv, OperatorKeepsInv,
       ProcessesKeepInv
    DEF SupervisorNext
  <1> QED BY <1>1, <1>2

----------------------------------------------------------------------------
(* The theorems about Supervisor *)

THEOREM SupervisorInvariance == SupervisorSpec => []SupervisorInv
  BY SupervisorInvInit, SupervisorInvNext, PTL DEF SupervisorSpec

\* launcher.py, tray/: every variable has its type, for any front ends and labels.
THEOREM SupervisorTypeCorrect == SupervisorSpec => []SupervisorTypeOK
  <1>1. SupervisorInv => SupervisorTypeOK
    BY DEF SupervisorInv
  <1> QED BY <1>1, SupervisorInvariance, PTL

\* _supervise, InstrumentSession.shutdown: the broker is asked to stop when no client
\* opened here is up, whichever processes died or were deaf before.
THEOREM ClientsGoFirst == SupervisorSpec => []FrontEndsGoFirst
  <1>1. SupervisorInv => FrontEndsGoFirst
    <2> SUFFICES ASSUME SupervisorInv, IsStopping, Target = Broker PROVE Up \subseteq {Broker}
      BY DEF FrontEndsGoFirst
    <2>1. main.todo[1] = Broker /\ Len(main.todo) \in Nat /\ Len(main.todo) >= 1
      <3>1. SupervisorTypeOK
        BY DEF SupervisorInv
      <3> QED BY <3>1, TodoIsSane
    <2>2. 1 \in 1..Len(main.todo)
      BY <2>1
    <2>3. Len(main.todo) = 1
      BY <2>1, <2>2 DEF SupervisorInv, BrokerLast
    <2> QED BY <2>1, <2>3 DEF SupervisorInv, Accounted
  <1> QED BY <1>1, SupervisorInvariance, PTL

\* stop, _broker_lost, shut_down: a supervisor that is over has left no process, and a
\* tray no invitation.
THEOREM OverLeavesNothing == SupervisorSpec => []OverMeansGone
  <1>1. SupervisorInv => OverMeansGone
    BY DEF SupervisorInv, NoneLeft, Invited, OverMeansGone
  <1> QED BY <1>1, SupervisorInvariance, PTL

\* InstrumentSession.running, start, _read_invitation: one front end of a kind is up,
\* and the tray serves by the whole invitation of its own broker.
THEOREM OneOfAKindIsServed == SupervisorSpec => [](OneOfAKind /\ ServesItsOwn)
  <1>1. SupervisorInv => OneOfAKind /\ ServesItsOwn
    BY DEF SupervisorInv
  <1> QED BY <1>1, SupervisorInvariance, PTL

=============================================================================
