---------------------------- MODULE DeviceClient ----------------------------
(****************************************************************************)
(* The client's side of a device server it launches (devices/remote.py):    *)
(* picking a port, spawning the server and connecting to it, respawning it  *)
(* when its port was lost to a stranger, and putting it down again, with    *)
(* the shared memory segments that frames travel in.                        *)
(*                                                                          *)
(* DeviceServer models what the server does about a client that goes; here  *)
(* the server is what its client can see of it: it boots, listens, hangs,   *)
(* ends by itself, or is killed.  A segment belongs to the server, and only *)
(* a client that knows it dead may unlink what it left.                     *)
(****************************************************************************)
EXTENDS Naturals, FiniteSets

CONSTANTS
    Devices,      \* the targets whose frames are read through a segment
    MaxAttempts,  \* _PORT_RETRY_ATTEMPTS
    MaxSegments   \* the most segments a target's server makes

ASSUME DeviceClientAssumption == MaxAttempts \in Nat \ {0} /\ MaxSegments \in Nat

VARIABLES
    proc,     \* per attempt: the life of the server it spawned
    port,     \* who holds the port probed free for this attempt
    late,     \* the deadline to connect by has passed
    attempt,  \* which of the attempts this is
    at,       \* what the client does next
    graceful, \* the server reported that everything was released
    conns,    \* the connections open to the server
    segs,     \* per target: the segments that are linked
    made,     \* per target: how many segments were made, the last current
    last      \* SharedFrameReader._last_name, per target

serverVars == <<proc, port, segs, made>>
clientVars == <<late, attempt, at, graceful, conns, last>>
allVars == <<serverVars, clientVars>>

Attempts == 1..MaxAttempts
Links == {"instrument", "health"} \cup Devices
Exits == {"port", "other"}
Lives == {"none", "booting", "listening", "wedged"} \cup Exits
Starting == {"spawn", "connect", "describe", "lost", "failed"}
ClientPoints ==
    Starting \cup {"serving", "handshake", "settle", "stopping", "close", "terminate",
                   "sweep", "release", "closed", "raised"}

Life == proc[attempt]
ServerAlive == Life \notin Exits \cup {"none"}
Becomes(life) == proc' = [proc EXCEPT ![attempt] = life]

----------------------------------------------------------------------------
(* The server, and whoever else is on the machine *)

Server == UNCHANGED clientVars

\* A port that was probed free is anybody's until it is bound.
StrangerTakesPort ==
    /\ Life = "booting" /\ port = "free" /\ port' = "stranger"
    /\ UNCHANGED <<proc, segs, made>> /\ Server

Listens ==
    /\ Life = "booting"
    /\ IF port = "free" THEN Becomes("listening") /\ port' = "ours"
                        ELSE Becomes("port") /\ UNCHANGED port
    /\ UNCHANGED <<segs, made>> /\ Server

Wedges ==
    /\ Life \in {"booting", "listening"} /\ Becomes("wedged")
    /\ UNCHANGED <<port, segs, made>> /\ Server

\* It ends by itself, or something kills it: its segments stay, unless its
\* resource tracker outlives it.
Dies ==
    /\ ServerAlive /\ Becomes("other")
    /\ segs' \in {segs, [d \in Devices |-> {}]}
    /\ UNCHANGED <<port, made>> /\ Server

\* A frame too large for the segment there is gets a new one, and the server
\* may go before the reference to it is read.
MakesSegment(d) ==
    /\ at = "serving" /\ Life = "listening" /\ made[d] < MaxSegments
    /\ made' = [made EXCEPT ![d] = @ + 1]
    /\ segs' = [segs EXCEPT ![d] = {made[d] + 1}]
    /\ UNCHANGED <<proc, port>> /\ Server

\* One that was told to stop ends once it has.
Ends ==
    /\ at = "settle" /\ Life = "listening" /\ Becomes("other")
    /\ UNCHANGED <<port, segs, made>> /\ Server

----------------------------------------------------------------------------
(* _spawn_and_connect() *)

Goes(point) == at' = point

Spawns ==
    /\ at = "spawn"
    /\ IF attempt < MaxAttempts
       THEN /\ attempt' = attempt + 1
            /\ proc' = [proc EXCEPT ![attempt + 1] = "booting"]
            /\ port' = "free" /\ late' = FALSE /\ Goes("connect")
       ELSE Goes("raised") /\ UNCHANGED <<attempt, proc, port, late>>
    /\ UNCHANGED <<graceful, conns, segs, made, last>>

DeadlinePasses ==
    /\ at = "connect" /\ ~late /\ late' = TRUE
    /\ UNCHANGED <<serverVars, attempt, at, graceful, conns, last>>

Keeps == UNCHANGED <<serverVars, late, attempt, graceful, conns, last>>
Connecting == at = "connect" /\ conns # Links

\* _connect_with_retry() looks at the process before every attempt, and
\* _connect_once() while one is in flight.
SeesExit ==
    /\ Connecting /\ ~ServerAlive
    /\ Goes(IF Life = "port" THEN "lost" ELSE "failed") /\ Keeps

\* Connections are made in this order: the instrument's two, then the rest.
NextLinks == IF "instrument" \notin conns THEN {"instrument"}
             ELSE IF "health" \notin conns THEN {"health"} ELSE Devices \ conns

Connects ==
    /\ Connecting /\ Life = "listening"
    /\ \E link \in NextLinks :
        /\ conns' = conns \cup {link}
        /\ Goes(IF link = "health" THEN "describe" ELSE "connect")
    /\ UNCHANGED <<serverVars, late, attempt, graceful, last>>

\* Refused, or blocked in a handshake that does not end: until the deadline
\* the client tries again, or looks on.
GivesUp == Connecting /\ late /\ Life # "listening" /\ Goes("failed") /\ Keeps

\* What a stranger says instead of a challenge is no OSError.
StrangerAnswers == Connecting /\ port = "stranger" /\ Goes("failed") /\ Keeps

\* describe(): the targets it serves, or an adapter that published no port
\* for one; or no answer, which nothing bounds.
Describes ==
    /\ at = "describe" /\ Life = "listening"
    /\ at' \in {"connect", "failed"} /\ Keeps

LosesDescribe == at = "describe" /\ ~ServerAlive /\ Goes("failed") /\ Keeps

IsConnected ==
    /\ at = "connect" /\ conns = Links /\ Goes("serving") /\ Keeps

\* _release_spawned_server(), before another attempt or before it raises.
Abandons == UNCHANGED proc
Kills == IF ServerAlive THEN Becomes("other") ELSE UNCHANGED proc
Releases ==
    /\ at \in {"lost", "failed", "release"}
    /\ conns' = {} /\ Kills
    /\ Goes(IF at = "lost" THEN "spawn" ELSE IF at = "failed" THEN "raised" ELSE "closed")
    /\ UNCHANGED <<port, segs, made, late, attempt, graceful, last>>

----------------------------------------------------------------------------
(* A session *)

ReadsFrame(d) ==
    /\ at = "serving" /\ Life = "listening" /\ segs[d] # {}
    /\ last' = [last EXCEPT ![d] = made[d]]
    /\ UNCHANGED <<serverVars, late, attempt, at, graceful, conns>>

----------------------------------------------------------------------------
(* _shut_down_server() *)

Leaves ==
    /\ at = "serving"
    /\ Goes(IF ServerAlive THEN "handshake" ELSE "sweep") /\ Keeps

\* shutdown() is answered when the segments are gone, or with errors when
\* some could not be; or it times out, or the connection is lost.
ShutdownAnswered ==
    /\ at = "handshake" /\ Life = "listening"
    /\ \E stuck \in SUBSET {d \in Devices : segs[d] # {}} :
        /\ segs' = [d \in Devices |-> IF d \in stuck THEN segs[d] ELSE {}]
        /\ graceful' = (stuck = {})
    /\ Goes("settle")
    /\ UNCHANGED <<proc, port, made, late, attempt, conns, last>>

ShutdownFails ==
    /\ at = "handshake" /\ Goes("stopping")
    /\ graceful' = FALSE
    /\ UNCHANGED <<serverVars, late, attempt, conns, last>>

\* wait(), which ends with the process or with its own time.
TrustsTheReport ==
    at = "settle" /\ Goes(IF ~ServerAlive THEN "release" ELSE "stopping") /\ Keeps
Settles ==
    /\ at = "settle" /\ Keeps
    /\ Goes(IF graceful /\ ~ServerAlive THEN "release" ELSE "stopping")

SweepsAtOnce == at = "stopping" /\ Goes("sweep") /\ Keeps
FallsBack ==
    /\ at = "stopping" /\ Goes(IF ServerAlive THEN "close" ELSE "sweep") /\ Keeps

\* Each device is closed over its own connection, whatever becomes of it; a
\* server that is wedged answers none of them, and nothing bounds that.
ClosesDevices ==
    /\ at = "close" /\ Life # "wedged"
    /\ \E kept \in SUBSET Devices :
        segs' = [d \in Devices |-> IF d \in kept \/ Life # "listening" THEN segs[d] ELSE {}]
    /\ Goes("terminate")
    /\ UNCHANGED <<proc, port, made, late, attempt, graceful, conns, last>>

\* terminate() and wait(); kill() and wait() when that was not enough.
Terminates ==
    /\ at = "terminate"
    /\ Kills /\ Goes("sweep")
    /\ UNCHANGED <<port, segs, made, late, attempt, graceful, conns, last>>

\* _release_segments_of_a_dead_server(): the segments whose names it knows.
Sweeps ==
    /\ at = "sweep" /\ Goes("release")
    /\ segs' = [d \in Devices |-> segs[d] \ {last[d]}]
    /\ UNCHANGED <<proc, port, made, late, attempt, graceful, conns, last>>

----------------------------------------------------------------------------

ClientInit ==
    /\ proc = [a \in 0..MaxAttempts |-> "none"] /\ port = "free"
    /\ late = FALSE /\ attempt = 0 /\ at = "spawn" /\ graceful = FALSE
    /\ conns = {} /\ segs = [d \in Devices |-> {}]
    /\ made = [d \in Devices |-> 0] /\ last = [d \in Devices |-> 0]

Startup ==
    \/ Spawns \/ DeadlinePasses \/ SeesExit \/ Connects \/ GivesUp
    \/ Describes \/ LosesDescribe \/ IsConnected \/ Releases
Teardown ==
    \/ Leaves \/ ShutdownAnswered \/ ShutdownFails \/ Settles \/ FallsBack
    \/ ClosesDevices \/ Terminates \/ Sweeps
World ==
    \/ StrangerTakesPort \/ StrangerAnswers \/ Listens \/ Wedges \/ Dies \/ Ends
    \/ \E d \in Devices : MakesSegment(d) \/ ReadsFrame(d)

ClientNext == Startup \/ Teardown \/ World
ClientSpec == ClientInit /\ [][ClientNext]_allVars

\* The client's thread runs, and its deadline comes.
FairClientSpec == ClientSpec /\ WF_allVars(Startup)

----------------------------------------------------------------------------

ClientTypeOK ==
    /\ proc \in [0..MaxAttempts -> Lives] /\ port \in {"free", "ours", "stranger"}
    /\ late \in BOOLEAN /\ attempt \in 0..MaxAttempts /\ at \in ClientPoints
    /\ graceful \in BOOLEAN /\ conns \subseteq Links
    /\ segs \in [Devices -> SUBSET (1..MaxSegments)]
    /\ made \in [Devices -> 0..MaxSegments] /\ last \in [Devices -> 0..MaxSegments]

\* Whatever failed, no server of any attempt outlives what spawned it, and no
\* connection to it stays open: not when another is spawned, not when the
\* failure is raised, not when the session is over (_spawn_and_connect,
\* _release_spawned_server, remote_instrument).
NothingLeftBehind ==
    at \in {"spawn", "raised", "closed"} =>
        conns = {} /\ \A a \in 0..MaxAttempts : proc[a] \in Exits \cup {"none"}

\* Only the writer may unlink a segment while it lives
\* (_release_segments_of_a_dead_server).
SweepsOnlyTheDead == [][Sweeps => ~ServerAlive]_allVars

\* A segment whose name the client learnt is not left behind by a session,
\* however its server went (unlink_orphan).
KnownSegmentsAreReclaimed == at = "closed" => \A d \in Devices : last[d] \notin segs[d]

\* Starting ends: in a session or in a failure, whoever holds the port and
\* whatever the server does.  Only describe() is not bounded by the deadline.
StartEnds ==
    at = "spawn" ~> (at \notin Starting \/ (at = "describe" /\ Life = "wedged"))

\* "Every startup failure that is not a collision propagates unchanged", and
\* one that is a collision is retried.  Violated by a stranger that answers
\* the handshake before the server has found its port taken.
CollisionIsRetried == [][at' = "failed" /\ at = "connect" /\ ~late => port # "stranger"]_allVars
============================================================================
