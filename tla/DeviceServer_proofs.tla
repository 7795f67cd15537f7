-------------------------- MODULE DeviceServer_proofs --------------------------
(***************************************************************************)
(* Theorems about DeviceServer, for any devices, wedged or not, parks that *)
(* fail or not, and operators that interrupt or not.                       *)
(***************************************************************************)
EXTENDS DeviceServer, TLAPS

\* The client holds its connections, and has not begun to use force.
Attached == pc \notin {"terminating", "done", "dead"}

\* The client has not asked the server to shut down.
Unasked == pc \in {"starting", "using", "asking"}

\* Nobody can turn the beam on any more: no call is in the instrument, and
\* none can come.
Silent == /\ ~Unasked
          /\ conn[Control] \notin {"call", "close"}
          /\ conn[Control] = "recv" => link[Control] = "closed"

\* The connection that carries shutdown() is there as long as its client is,
\* and only ends before it by the answer that stops the server.
Linked ==
    /\ Attached => \A c \in Targets : link[c] = "open" \/ (pc = "starting" /\ link[c] = "none")
    /\ pc = "starting" => conn[Control] = IF link[Control] = "open" THEN "recv" ELSE "none"
    /\ pc = "starting" /\ ever => link[Control] = "open"
    /\ pc \in {"using", "asking"} => conn[Control] \in {"recv", "call"}
    /\ Attached /\ ~Unasked /\ Serving =>
         \/ conn[Control] \in {"shutdown", "parked", "sent"}
         \/ conn[Control] \in {"ending", "ended"} /\ stop

\* One thread parks at a time, and is where it began.
Locked ==
    /\ todo = "none" <=> parker = Nobody
    /\ report # "none" => parker = Nobody
    /\ parker = "shutdown" => conn[Control] = "shutdown"
    /\ parker = "watchdog" => watchdog = "park"
    /\ parker = "signal" => signal = "parking"

\* Nobody goes on before it has a report.
Reported ==
    \/ report # "none"
    \/ /\ ~stop /\ proc # "exited"
       /\ conn[Control] \notin {"parked", "sent"}
       /\ watchdog # "parked" /\ signal # "parked"

\* The watchdog has seen the last connection go, and its client with it.
Deserted == watchdog \in {"park", "parked"} => ~Attached /\ conn[Control] \in {"none", "ended"}

\* Without a signal from outside, nobody parks, or is about to, while a call
\* may still turn the beam on; so a beam that was blanked stays so.
Blanked ==
    ~outside =>
        /\ signal # "none" => ~Attached
        /\ Serving /\ (signal # "none" \/ parker # Nobody \/ report # "none") => Silent
        /\ todo = "release" /\ ~failing /\ HasBlanker => ~beam
        /\ report = "clean" /\ HasBlanker => ~beam

IInv == /\ TypeOK /\ Linked /\ Locked /\ Reported /\ Deserted /\ Blanked
        /\ DoneMeansGone

----------------------------------------------------------------------------
(* Each action of each thread keeps the invariant.  The client's are first *)

USE DeviceAssumption DEF Targets, Parkers, Serving, At, Goes, server, counting, watching,
                         parking, client, HandlerPoints, ClientPoints, Attached, Unasked,
                         Silent

LEMMA ConnectsKeeps == ASSUME IInv, NEW c \in Targets, Connects(c) PROVE IInv'
  BY DEF Connects, IInv, TypeOK, Linked, Locked, Reported, Deserted, Blanked, DoneMeansGone

LEMMA CallsKeeps == ASSUME IInv, NEW c \in Targets, Calls(c) PROVE IInv'
  BY DEF Calls, IInv, TypeOK, Linked, Locked, Reported, Deserted, Blanked, DoneMeansGone

LEMMA ReturnsKeeps == ASSUME IInv, NEW c \in Targets, Returns(c) PROVE IInv'
  <1> USE DEF IInv
  <1>1. TypeOK'
    BY DEF TypeOK, Returns
  <1>2. Linked'
    <2>1. CASE c = Control
      BY <2>1 DEF TypeOK, Linked, Returns
    <2>2. CASE c # Control
      BY <2>2 DEF TypeOK, Linked, Returns
    <2> QED BY <2>1, <2>2
  <1>3. Locked'
    BY DEF TypeOK, Linked, Locked, Returns
  <1>4. Reported'
    BY DEF TypeOK, Linked, Locked, Reported, Returns
  <1>5. Deserted'
    BY DEF TypeOK, Linked, Locked, Deserted, Returns
  <1>6. Blanked'
    BY DEF TypeOK, Linked, Locked, Deserted, Blanked, Returns
  <1>7. DoneMeansGone'
    BY DEF DoneMeansGone, Returns
  <1> QED BY <1>1, <1>2, <1>3, <1>4, <1>5, <1>6, <1>7

LEMMA LostKeeps == ASSUME IInv, NEW c \in Targets, Lost(c) PROVE IInv'
  BY DEF Lost, IInv, TypeOK, Linked, Locked, Reported, Deserted, Blanked, DoneMeansGone

LEMMA SeesEOFKeeps == ASSUME IInv, NEW c \in Targets, SeesEOF(c) PROVE IInv'
  BY DEF SeesEOF, IInv, TypeOK, Linked, Locked, Reported, Deserted, Blanked, DoneMeansGone

LEMMA EndsKeeps == ASSUME IInv, NEW c \in Targets, Ends(c) PROVE IInv'
  <1> USE DEF IInv
  <1>1. TypeOK'
    <2>1. settled' \in BOOLEAN
      BY DEF TypeOK, Ends
    <2>2. conn' \in [Targets -> HandlerPoints]
      BY DEF TypeOK, Ends
    <2> QED
      BY <2>1, <2>2 DEF TypeOK, Ends
  <1>2. Linked'
    BY DEF TypeOK, Linked, Ends
  <1>3. Locked'
    BY DEF TypeOK, Linked, Locked, Ends
  <1>4. Reported'
    BY DEF TypeOK, Linked, Locked, Reported, Ends
  <1>5. Deserted'
    BY DEF TypeOK, Linked, Locked, Deserted, Ends
  <1>6. Blanked'
    BY DEF TypeOK, Linked, Locked, Deserted, Blanked, Ends
  <1>7. DoneMeansGone'
    BY DEF DoneMeansGone, Ends
  <1> QED BY <1>1, <1>2, <1>3, <1>4, <1>5, <1>6, <1>7

LEMMA SignalsKeeps == ASSUME IInv, NEW c \in Targets, Signals(c) PROVE IInv'
  BY DEF Signals, IInv, TypeOK, Linked, Locked, Reported, Deserted, Blanked, DoneMeansGone

----------------------------------------------------------------------------
(* The park *)

LEMMA ParkBeginsKeeps == ASSUME IInv, NEW p \in Parkers, ParkBegins(p) PROVE IInv'
  <1> USE DEF IInv
  <1>1. TypeOK'
    <2>1. failing' \in BOOLEAN
      BY DEF TypeOK, ParkBegins
    <2> QED
      BY <2>1, SMT DEF TypeOK, ParkBegins
  <1>2. Linked'
    BY DEF TypeOK, Linked, ParkBegins, Wants, Remembered
  <1>3. Locked'
    BY DEF TypeOK, Linked, Locked, ParkBegins, Wants, Remembered
  <1>4. Reported'
    BY DEF TypeOK, Linked, Locked, Reported, ParkBegins, Wants, Remembered
  <1>5. Deserted'
    BY DEF TypeOK, Linked, Locked, Deserted, ParkBegins, Wants, Remembered
  <1>6. Blanked'
    BY DEF TypeOK, Linked, Locked, Deserted, Blanked, ParkBegins, Wants, Remembered
  <1>7. DoneMeansGone'
    BY DEF DoneMeansGone, ParkBegins, Wants, Remembered
  <1> QED BY <1>1, <1>2, <1>3, <1>4, <1>5, <1>6, <1>7

LEMMA ParkAgainKeeps == ASSUME IInv, NEW p \in Parkers, ParkAgain(p) PROVE IInv'
  <1> USE DEF IInv
  <1>1. TypeOK'
    BY DEF TypeOK, ParkAgain, Wants, Remembered, Leaves
  <1>2. Linked'
    BY DEF TypeOK, Linked, ParkAgain, Wants, Remembered, Leaves
  <1>3. Locked'
    BY DEF TypeOK, Linked, Locked, ParkAgain, Wants, Remembered, Leaves
  <1>4. Reported'
    BY DEF TypeOK, Linked, Locked, Reported, ParkAgain, Wants, Remembered, Leaves
  <1>5. Deserted'
    BY DEF TypeOK, Linked, Locked, Deserted, ParkAgain, Wants, Remembered, Leaves
  <1>6. Blanked'
    BY DEF TypeOK, Linked, Locked, Deserted, Blanked, ParkAgain, Wants, Remembered, Leaves
  <1>7. DoneMeansGone'
    BY DEF DoneMeansGone, ParkAgain, Wants, Remembered, Leaves
  <1> QED BY <1>1, <1>2, <1>3, <1>4, <1>5, <1>6, <1>7

LEMMA ParkDeviceKeeps == ASSUME IInv, NEW d \in Devices, ParkDevice(d) PROVE IInv'
  BY DEF ParkDevice, IInv, TypeOK, Linked, Locked, Reported, Deserted, Blanked, DoneMeansGone,
         Hangs

LEMMA ParkBlanksKeeps == ASSUME IInv, ParkBlanks PROVE IInv'
  <1> USE DEF IInv
  <1>1. TypeOK'
    <2>1. beam' \in BOOLEAN /\ failing' \in BOOLEAN
      BY Zenon DEF TypeOK, ParkBlanks
    <2> QED
      BY <2>1, SMT DEF TypeOK, ParkBlanks
  <1>2. Linked'
    BY DEF TypeOK, Linked, ParkBlanks, Hangs
  <1>3. Locked'
    BY DEF TypeOK, Linked, Locked, ParkBlanks, Hangs
  <1>4. Reported'
    BY DEF TypeOK, Linked, Locked, Reported, ParkBlanks, Hangs
  <1>5. Deserted'
    BY DEF TypeOK, Linked, Locked, Deserted, ParkBlanks, Hangs
  <1>6. Blanked'
    BY DEF TypeOK, Linked, Locked, Deserted, Blanked, ParkBlanks, Hangs
  <1>7. DoneMeansGone'
    BY DEF DoneMeansGone, ParkBlanks, Hangs
  <1> QED BY <1>1, <1>2, <1>3, <1>4, <1>5, <1>6, <1>7

LEMMA ParkReportsKeeps == ASSUME IInv, ParkReports PROVE IInv'
  BY DEF ParkReports, IInv, TypeOK, Linked, Locked, Reported, Deserted, Blanked, DoneMeansGone,
         Leaves

----------------------------------------------------------------------------
(* What makes the server stop *)

LEMMA RepliesKeeps == ASSUME IInv, Replies PROVE IInv'
  <1> USE DEF IInv
  <1>1. TypeOK'
    <2>1. graceful' \in BOOLEAN
      BY Zenon DEF TypeOK, Replies
    <2>2. conn' \in [Targets -> HandlerPoints]
      BY DEF TypeOK, Replies
    <2> QED
      BY <2>1, <2>2 DEF TypeOK, Replies
  <1>2. Linked'
    BY DEF TypeOK, Linked, Replies
  <1>3. Locked'
    BY DEF TypeOK, Linked, Locked, Replies
  <1>4. Reported'
    BY DEF TypeOK, Linked, Locked, Reported, Replies
  <1>5. Deserted'
    BY DEF TypeOK, Linked, Locked, Deserted, Replies
  <1>6. Blanked'
    BY DEF TypeOK, Linked, Locked, Deserted, Blanked, Replies
  <1>7. DoneMeansGone'
    BY DEF DoneMeansGone, Replies
  <1> QED BY <1>1, <1>2, <1>3, <1>4, <1>5, <1>6, <1>7

LEMMA SetsStopKeeps == ASSUME IInv, SetsStop PROVE IInv'
  BY DEF SetsStop, IInv, TypeOK, Linked, Locked, Reported, Deserted, Blanked, DoneMeansGone

LEMMA WatchesKeeps == ASSUME IInv, Watches PROVE IInv'
  BY DEF Watches, IInv, TypeOK, Linked, Locked, Reported, Deserted, Blanked, DoneMeansGone,
         Orphaned, Connections

LEMMA WaitsKeeps == ASSUME IInv, Waits PROVE IInv'
  <1> USE DEF IInv
  <1>1. TypeOK'
    <2>1. settled' \in BOOLEAN /\ alarm' \in BOOLEAN
      BY DEF TypeOK, Waits
    <2> QED
      BY <2>1, SMT DEF TypeOK, Waits
  <1>2. Linked'
    BY DEF TypeOK, Linked, Waits
  <1>3. Locked'
    BY DEF TypeOK, Linked, Locked, Waits
  <1>4. Reported'
    BY DEF TypeOK, Linked, Locked, Reported, Waits
  <1>5. Deserted'
    BY DEF TypeOK, Linked, Locked, Deserted, Waits
  <1>6. Blanked'
    BY DEF TypeOK, Linked, Locked, Deserted, Blanked, Waits
  <1>7. DoneMeansGone'
    BY DEF DoneMeansGone, Waits
  <1> QED BY <1>1, <1>2, <1>3, <1>4, <1>5, <1>6, <1>7

LEMMA RechecksKeeps == ASSUME IInv, Rechecks PROVE IInv'
  BY DEF Rechecks, IInv, TypeOK, Linked, Locked, Reported, Deserted, Blanked, DoneMeansGone,
         Orphaned, Connections

LEMMA WatchdogStopsKeeps == ASSUME IInv, WatchdogStops PROVE IInv'
  BY DEF WatchdogStops, IInv, TypeOK, Linked, Locked, Reported, Deserted, Blanked, DoneMeansGone

LEMMA InterruptedKeeps == ASSUME IInv, Interrupted PROVE IInv'
  BY DEF Interrupted, IInv, TypeOK, Linked, Locked, Reported, Deserted, Blanked, DoneMeansGone

LEMMA SignalStopsKeeps == ASSUME IInv, SignalStops PROVE IInv'
  BY DEF SignalStops, IInv, TypeOK, Linked, Locked, Reported, Deserted, Blanked, DoneMeansGone

LEMMA ExitsKeeps == ASSUME IInv, Exits PROVE IInv'
  BY DEF Exits, IInv, TypeOK, Linked, Locked, Reported, Deserted, Blanked, DoneMeansGone

LEMMA AbandonsKeeps == ASSUME IInv, Abandons PROVE IInv'
  BY DEF Abandons, IInv, TypeOK, Linked, Locked, Reported, Deserted, Blanked, DoneMeansGone

LEMMA CrashesKeeps == ASSUME IInv, Crashes PROVE IInv'
  BY DEF Crashes, IInv, TypeOK, Linked, Locked, Reported, Deserted, Blanked, DoneMeansGone

LEMMA InterruptKeeps == ASSUME IInv, Interrupt PROVE IInv'
  BY DEF Interrupt, IInv, TypeOK, Linked, Locked, Reported, Deserted, Blanked, DoneMeansGone,
         Sends

----------------------------------------------------------------------------
(* The client's main thread *)

LEMMA StartedKeeps == ASSUME IInv, Started PROVE IInv'
  BY DEF Started, IInv, TypeOK, Linked, Locked, Reported, Deserted, Blanked, DoneMeansGone

LEMMA GivesUpKeeps == ASSUME IInv, GivesUp PROVE IInv'
  BY DEF GivesUp, IInv, TypeOK, Linked, Locked, Reported, Deserted, Blanked, DoneMeansGone,
         Hangup, Sends

LEMMA TearsDownKeeps == ASSUME IInv, TearsDown PROVE IInv'
  BY DEF TearsDown, IInv, TypeOK, Linked, Locked, Reported, Deserted, Blanked, DoneMeansGone

LEMMA AsksKeeps == ASSUME IInv, Asks PROVE IInv'
  BY DEF Asks, IInv, TypeOK, Linked, Locked, Reported, Deserted, Blanked, DoneMeansGone

LEMMA TimesOutKeeps == ASSUME IInv, TimesOut PROVE IInv'
  BY DEF TimesOut, IInv, TypeOK, Linked, Locked, Reported, Deserted, Blanked, DoneMeansGone

LEMMA AwaitsExitKeeps == ASSUME IInv, AwaitsExit PROVE IInv'
  BY DEF AwaitsExit, IInv, TypeOK, Linked, Locked, Reported, Deserted, Blanked, DoneMeansGone,
         Hangup

LEMMA FallsBackKeeps == ASSUME IInv, FallsBack PROVE IInv'
  BY DEF FallsBack, IInv, TypeOK, Linked, Locked, Reported, Deserted, Blanked, DoneMeansGone,
         Hangup

LEMMA ClosesDeviceKeeps == ASSUME IInv, NEW d \in Devices, ClosesDevice(d) PROVE IInv'
  BY DEF ClosesDevice, IInv, TypeOK, Linked, Locked, Reported, Deserted, Blanked, DoneMeansGone

LEMMA TerminatesKeeps == ASSUME IInv, Terminates PROVE IInv'
  BY DEF Terminates, IInv, TypeOK, Linked, Locked, Reported, Deserted, Blanked, DoneMeansGone,
         Sends

LEMMA KillsKeeps == ASSUME IInv, Kills PROVE IInv'
  BY DEF Kills, IInv, TypeOK, Linked, Locked, Reported, Deserted, Blanked, DoneMeansGone, Hangup

LEMMA DiesKeeps == ASSUME IInv, Dies PROVE IInv'
  BY DEF Dies, IInv, TypeOK, Linked, Locked, Reported, Deserted, Blanked, DoneMeansGone, Hangup

----------------------------------------------------------------------------
(* The theorems *)

LEMMA InitKeepsIt == Init => IInv
  BY DEF Init, IInv, TypeOK, Linked, Locked, Reported, Deserted, Blanked, DoneMeansGone

LEMMA NextKeepsIt == IInv /\ [Next]_vars => IInv'
  <1> SUFFICES ASSUME IInv, [Next]_vars PROVE IInv'
    OBVIOUS
  <1>1. CASE \E c \in Targets : Connects(c) \/ Calls(c) \/ Returns(c) \/ Lost(c) \/ Handler(c)
    BY <1>1, ConnectsKeeps, CallsKeeps, ReturnsKeeps, LostKeeps, SeesEOFKeeps, EndsKeeps,
       SignalsKeeps DEF Handler
  <1>2. CASE \E p \in Parkers : Enters(p)
    BY <1>2, ParkBeginsKeeps, ParkAgainKeeps DEF Enters
  <1>3. CASE Shutdown \/ Park
    BY <1>3, RepliesKeeps, SetsStopKeeps, ParkDeviceKeeps, ParkBlanksKeeps, ParkReportsKeeps
       DEF Shutdown, Park
  <1>4. CASE Watchdog
    BY <1>4, WatchesKeeps, WaitsKeeps, RechecksKeeps, WatchdogStopsKeeps DEF Watchdog
  <1>5. CASE MainThread \/ Abandons \/ Crashes \/ Interrupt
    BY <1>5, InterruptedKeeps, SignalStopsKeeps, ExitsKeeps, AbandonsKeeps, CrashesKeeps,
       InterruptKeeps DEF MainThread
  <1>6. CASE Started \/ GivesUp \/ TearsDown \/ Teardown \/ Dies
    BY <1>6, StartedKeeps, GivesUpKeeps, TearsDownKeeps, AsksKeeps, TimesOutKeeps,
       AwaitsExitKeeps, FallsBackKeeps, ClosesDeviceKeeps, TerminatesKeeps, KillsKeeps,
       DiesKeeps DEF Teardown
  <1>7. CASE UNCHANGED vars
    BY <1>7 DEF vars, IInv, TypeOK, Linked, Locked, Reported, Deserted, Blanked, DoneMeansGone
  <1> QED BY <1>1, <1>2, <1>3, <1>4, <1>5, <1>6, <1>7 DEF Next

\* The invariant of the other theorems: who holds what, who has parked and who
\* may still light the beam, at every point of every thread.
THEOREM TheyKeepOrder == Spec => []IInv
  BY InitKeepsIt, NextKeepsIt, PTL DEF Spec

\* Every variable keeps its type.
THEOREM TypeCorrect == Spec => []TypeOK
  <1>1. IInv => TypeOK
    BY DEF IInv
  <1> QED BY <1>1, TheyKeepOrder, PTL

\* A server that leaves serve() has parked, on whatever path it came to stop;
\* and when the park reported no error, there is a blanker, and nobody but its
\* client signalled it, it leaves with the beam off.
THEOREM LeavesDark == Spec => []ExitedIsDark
  <1>1. IInv => ExitedIsDark
    BY DEF IInv, Reported, Blanked, ExitedIsDark
  <1> QED BY <1>1, TheyKeepOrder, PTL

\* The orphan watchdog never parks under a client that is starting, using or
\* asking: whatever its changes and grace periods raced with.
THEOREM WatchdogAlwaysSpares == Spec => []WatchdogSparesTheLiving
  <1>1. IInv => WatchdogSparesTheLiving
    BY DEF IInv, TypeOK, Deserted, WatchdogSparesTheLiving
  <1> QED BY <1>1, TheyKeepOrder, PTL

\* A client that has finished its teardown leaves no server process behind.
THEOREM FinishedIsGone == Spec => []DoneMeansGone
  <1>1. IInv => DoneMeansGone
    BY DEF IInv
  <1> QED BY <1>1, TheyKeepOrder, PTL

\* Of the three threads that may park, the first to hold the lock does, and
\* its report is every later one's: nothing is parked twice.
THEOREM ParksOnlyOnce == Spec => ParksOnce
  <1>1. IInv /\ [Next]_vars => [report # "none" => report' = report /\ todo' = todo]_vars
    <2> SUFFICES ASSUME IInv, Next, report # "none"
                 PROVE  report' = report /\ todo' = todo
      OBVIOUS
    <2> USE DEF IInv, TypeOK, Locked
    <2>1. todo = "none"
      OBVIOUS
    <2>2. CASE \E p \in Parkers : Enters(p)
      BY <2>2 DEF Enters, ParkBegins, ParkAgain, Remembered
    <2>3. CASE Park
      BY <2>1, <2>3 DEF Park, ParkDevice, ParkBlanks, ParkReports
    <2>4. CASE \E c \in Targets : Connects(c) \/ Calls(c) \/ Returns(c) \/ Lost(c) \/ Handler(c)
      BY <2>4 DEF Connects, Calls, Returns, Lost, Handler, SeesEOF, Ends, Signals
    <2>5. CASE Shutdown \/ Watchdog \/ MainThread \/ Abandons \/ Crashes \/ Interrupt
      BY <2>5
         DEF Shutdown, Replies, SetsStop, Watchdog, Watches, Waits, Rechecks, WatchdogStops,
         MainThread, Interrupted, SignalStops, Exits, Abandons, Crashes, Interrupt
    <2>6. CASE Started \/ GivesUp \/ TearsDown \/ Teardown \/ Dies
      BY <2>6 DEF Started, GivesUp, TearsDown, Teardown, Asks, TimesOut, AwaitsExit, FallsBack,
         Terminates, Kills, ClosesDevice, Dies
    <2> QED BY <2>2, <2>3, <2>4, <2>5, <2>6 DEF Next
  <1> QED BY <1>1, TheyKeepOrder, PTL DEF Spec, ParksOnce

================================================================================
