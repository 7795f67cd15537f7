----------------------------- MODULE Viewer_proofs -----------------------------
(***************************************************************************)
(* Theorems about Viewer, for any number of workers, frames and session    *)
(* directories, with a broker of the window's own or a shared one.         *)
(***************************************************************************)
EXTENDS Viewer, FiniteSetTheorems, SequenceTheorems, TLAPS

\* The widget's attributes refer to jobs of their kind, and only a job that has
\* ended is let go of: but for a pass, which another may replace.
Handled ==
    /\ \A k \in Kinds : held[k] # 0 => held[k] \in 1..Len(jobs) /\ jobs[held[k]].kind = k
    /\ \A j \in 1..Len(jobs) :
         jobs[j].at # "ended" /\ jobs[j].kind \in {"recording", "analysis"} => held[jobs[j].kind] = j

\* What a job can be doing, by its kind.
Tasked ==
    \A j \in 1..Len(jobs) :
        /\ jobs[j].at \in {"keeps", "spawns", "calls"} => jobs[j].kind = "analysis"
        /\ jobs[j].cancelled => jobs[j].kind = "recording"
        /\ jobs[j].at = "ended" => jobs[j].file # "open"

\* A recording at work writes into the directory the window shows.
Filed == \A j \in 1..Len(jobs) :
    jobs[j].kind = "recording" /\ IsRunning(j) => jobs[j].folder = folder

\* A lease is held by a worker at work, or by a recording that ended inside its
\* series and is in hand or kept by its error.
Leased == \A t \in Targets : lease[t] \in JobIds =>
    /\ lease[t] \in 1..Len(jobs)
    /\ \/ jobs[lease[t]].at = "works"
       \/ /\ jobs[lease[t]].at = "ended" /\ jobs[lease[t]].kind = "recording"
          /\ lease[t] = held["recording"] \/ jobs[lease[t]].clings

\* A worker that is being started has an analysis that waits for it.
Awaited == worker = "starting" => \E j \in 1..Len(jobs) : jobs[j].at = "spawns"

\* The poll of the pass draws the one in hand, and knows if it was over before.
Drawn ==
    /\ gui \in {"pass", "draw"} => held["pass"] # 0
    /\ gui = "draw" /\ ended => jobs[held["pass"]].at = "ended"
    /\ saved \subseteq 1..Len(jobs) /\ \A j \in saved : jobs[j].at = "ended"

\* A recording has been waited for before the broker is closed.
Joined ==
    /\ JoinsInTime /\ gui \in {"close_broker", "close_runners", "gone"} =>
         \A j \in 1..Len(jobs) : jobs[j].kind = "recording" => ~IsRunning(j)
    /\ WorkersAreReaped

IInv == TypeOK /\ Handled /\ Tasked /\ Filed /\ Leased /\ Awaited /\ Drawn /\ LastDrawIsWhole /\ Joined

----------------------------------------------------------------------------
(* Each action keeps the invariant *)

USE Bounds, HoldersAssumption
    DEF Targets, Kinds, JobIds, broker, screen, rest, Feeds, Pollers, Closings, Alive


\* Job j becomes e, and no other job changes.
Updated(j, e) ==
    /\ jobs' \in Seq(Job) /\ Len(jobs') = Len(jobs)
    /\ jobs'[j] = e
    /\ \A k \in 1..Len(jobs) : k # j => jobs'[k] = jobs[k]

LEMMA JobsAreAFunction ==
    ASSUME jobs \in Seq(Job)
    PROVE  jobs \in [1..Len(jobs) -> Job]
  BY LenProperties

LEMMA OneJob ==
    ASSUME jobs \in Seq(Job), NEW j \in 1..Len(jobs), NEW e \in Job, jobs' = [jobs EXCEPT ![j] = e]
    PROVE  Updated(j, e)
  <1>1. /\ jobs' \in Seq(Job) /\ Len(jobs') = Len(jobs)
        /\ \A i \in 1..Len(jobs) : jobs'[i] = IF i = j THEN e ELSE jobs[i]
    BY ExceptSeq
  <1> QED BY <1>1 DEF Updated

\* One more job, at the end.
LEMMA Appended ==
    ASSUME jobs \in Seq(Job), NEW e \in Job, jobs' = Append(jobs, e)
    PROVE  /\ jobs' \in Seq(Job) /\ Len(jobs') = Len(jobs) + 1
           /\ jobs'[Len(jobs) + 1] = e
           /\ \A k \in 1..Len(jobs) : jobs'[k] = jobs[k]
  OBVIOUS

\* What the step of a worker may do, when its job becomes e: go on with what
\* its kind does, and close its file at its end ...
GoesOn(j, e) ==
    /\ jobs[j].at # "ended" /\ e.kind = jobs[j].kind /\ e.cancelled = jobs[j].cancelled
    /\ e.kind = "recording" => e.folder = jobs[j].folder
    /\ e.at \in {"keeps", "spawns", "calls"} => e.kind = "analysis"
    /\ e.at = "ended" => e.file # "open"

\* ... take its lease while it is at work, and let go of it by the end unless
\* it is a recording ...
Leases(j, e) ==
    /\ feed' \in [Targets -> Feeds]
    /\ lease' \in [Targets -> JobIds \cup {Nobody, Widget, Stranger}]
    /\ \A t \in Targets : lease'[t] \in {lease[t], Nobody, j}
    /\ (\E t \in Targets : lease'[t] = j) =>
         e.at = "works" \/ (e.at = "ended" /\ e.kind = "recording")

\* ... and leave no worker that is being started to nobody.
Reaps(j, e) ==
    /\ worker' \in {"none", "starting", "up", "died"}
    /\ worker' = "starting" => e.at = "spawns" \/ (worker = "starting" /\ jobs[j].at # "spawns")

LEMMA WorkerStep ==
    ASSUME IInv, NEW j \in 1..Len(jobs), NEW e \in Job, Updated(j, e),
           gui # "gone", OffTheScreen,
           GoesOn(j, e), Leases(j, e), Reaps(j, e)
    PROVE  IInv'
  <1> USE DEF IInv, OffTheScreen
  <1>0. /\ jobs' \in Seq(Job) /\ Len(jobs') = Len(jobs) /\ Len(jobs) \in Nat
        /\ \A k \in 1..Len(jobs) : /\ jobs'[k].kind = jobs[k].kind
                                   /\ jobs[k].at = "ended" => jobs'[k] = jobs[k]
                                   /\ jobs'[k].kind = "recording" => jobs'[k].folder = jobs[k].folder
    BY LenProperties DEF Updated, TypeOK, GoesOn
  <1>1. TypeOK'
    BY <1>0 DEF TypeOK, Leases, Reaps
  <1>2. Handled'
    <2>1. \A k \in Kinds : held'[k] # 0 => held'[k] \in 1..Len(jobs') /\ jobs'[held'[k]].kind = k
      BY <1>0 DEF Handled
    <2>2. ASSUME NEW k \in 1..Len(jobs'), jobs'[k].at # "ended",
                 jobs'[k].kind \in {"recording", "analysis"}
          PROVE  held'[jobs'[k].kind] = k
      <3>1. jobs[k].at # "ended"
        BY <1>0, <2>2
      <3> QED BY <1>0, <2>2, <3>1 DEF Handled, GoesOn
    <2> QED BY <2>1, <2>2 DEF Handled
  <1>3. Tasked'
    BY DEF Tasked, Updated, TypeOK, GoesOn
  <1>4. Filed'
    BY <1>0 DEF Filed, IsRunning, Updated, GoesOn
  <1>5. Leased'
    <2> SUFFICES ASSUME NEW t \in Targets, lease'[t] \in JobIds
                 PROVE  /\ lease'[t] \in 1..Len(jobs')
                        /\ \/ jobs'[lease'[t]].at = "works"
                           \/ /\ jobs'[lease'[t]].at = "ended" /\ jobs'[lease'[t]].kind = "recording"
                              /\ lease'[t] = held'["recording"] \/ jobs'[lease'[t]].clings
      BY DEF Leased
    <2>1. CASE lease'[t] = j
      <3>1. e.at # "works" => held["recording"] = j
        BY <2>1 DEF Handled, GoesOn, Leases
      <3> QED BY <1>0, <2>1, <3>1 DEF Updated, Leases
    <2>2. CASE lease'[t] # j
      <3>1. lease'[t] = lease[t]
        BY <2>2 DEF Leases
      <3> QED BY <1>0, <2>2, <3>1 DEF Updated, Leased
    <2> QED BY <2>1, <2>2
  <1>6. Awaited'
    BY DEF Awaited, Updated, TypeOK, Reaps
  <1>7. Drawn'
    <2>1. gui \in {"pass", "draw"} => held["pass"] \in 1..Len(jobs)
      BY DEF Drawn, Handled
    <2>2. saved \subseteq 1..Len(jobs)
      BY DEF Drawn
    <2> QED BY <1>0, <2>1, <2>2 DEF Drawn
  <1>8. LastDrawIsWhole'
    <2>1. \A k \in saved : k \in 1..Len(jobs) /\ jobs[k].at = "ended"
      BY DEF Drawn
    <2> QED BY <1>0, <2>1 DEF LastDrawIsWhole
  <1>9. Joined'
    BY DEF Joined, WorkersAreReaped, IsRunning, Updated, TypeOK, GoesOn, Leases, Reaps
  <1> QED BY <1>1, <1>2, <1>3, <1>4, <1>5, <1>6, <1>7, <1>8, <1>9


LEMMA AliveJob ==
    ASSUME TypeOK, NEW j \in JobIds, Alive(j)
    PROVE  j \in 1..Len(jobs) /\ jobs[j] \in Job /\ gui # "gone"
  <1>1. jobs \in [1..Len(jobs) -> Job]
    BY JobsAreAFunction DEF TypeOK
  <1> QED BY <1>1 DEF Alive

LEMMA Quits ==
    ASSUME TypeOK, NEW j \in 1..Len(jobs), Ends(j)
    PROVE  LET e == [jobs[j] EXCEPT !.at = "ended", !.file = Closed(@)]
           IN  e \in Job /\ Updated(j, e)
  <1> DEFINE e == [jobs[j] EXCEPT !.at = "ended", !.file = Closed(@)]
  <1>1. jobs \in [1..Len(jobs) -> Job]
    BY JobsAreAFunction DEF TypeOK
  <1>2. e \in Job
    BY <1>1 DEF Job, Closed
  <1>3. jobs' = [jobs EXCEPT ![j] = e]
    BY <1>1 DEF Job, Ends
  <1> QED BY <1>2, <1>3, OneJob DEF TypeOK

LEMMA QuitsClinging ==
    ASSUME TypeOK, NEW j \in 1..Len(jobs), EndsClinging(j)
    PROVE  LET e == [jobs[j] EXCEPT !.at = "ended", !.file = Closed(@), !.clings = TRUE]
           IN  e \in Job /\ Updated(j, e)
  <1> DEFINE e == [jobs[j] EXCEPT !.at = "ended", !.file = Closed(@), !.clings = TRUE]
  <1>1. jobs \in [1..Len(jobs) -> Job]
    BY JobsAreAFunction DEF TypeOK
  <1>2. e \in Job
    BY <1>1 DEF Job, Closed
  <1>3. jobs' = [jobs EXCEPT ![j] = e]
    BY <1>1 DEF Job, EndsClinging
  <1> QED BY <1>2, <1>3, OneJob DEF TypeOK

\* A recording that ends inside its series keeps its lease.
LEMMA LeftInside ==
    ASSUME IInv, NEW j \in 1..Len(jobs), jobs[j] \in Job, jobs[j].at = "works",
           jobs[j].kind = "recording", EndsClinging(j) \/ Ends(j),
           UNCHANGED <<broker, worker>>, OffTheScreen, gui # "gone"
    PROVE  IInv'
  <1> DEFINE c == [jobs[j] EXCEPT !.at = "ended", !.file = Closed(@), !.clings = TRUE]
             d == [jobs[j] EXCEPT !.at = "ended", !.file = Closed(@)]
  <1>0. TypeOK
    BY DEF IInv
  <1>1. \/ c \in Job /\ Updated(j, c)
        \/ d \in Job /\ Updated(j, d)
    BY <1>0, Quits, QuitsClinging
  <1>2. PICK e \in {c, d} : e \in Job /\ Updated(j, e)
    BY <1>1
  <1>3. /\ e.at = "ended" /\ e.file # "open" /\ e.kind = "recording"
        /\ e.cancelled = jobs[j].cancelled /\ e.folder = jobs[j].folder
    BY <1>2 DEF Job, Closed
  <1> HIDE DEF c, d
  <1>4. GoesOn(j, e)
    BY <1>3 DEF GoesOn
  <1>5. Leases(j, e)
    BY <1>0, <1>3 DEF Leases, TypeOK
  <1>6. Reaps(j, e)
    BY <1>0 DEF Reaps, TypeOK
  <1> QED BY <1>2, <1>4, <1>5, <1>6, WorkerStep

LEMMA IsGrantedKeeps == ASSUME IInv, NEW j \in JobIds, IsGranted(j) PROVE IInv'
  <1> DEFINE e == [jobs[j] EXCEPT !.at = "works"]
  <1>0. Alive(j) /\ TypeOK /\ OffTheScreen
    BY DEF IsGranted, IInv
  <1>1. j \in 1..Len(jobs) /\ gui # "gone" /\ jobs[j] \in Job /\ TypeOK
    BY <1>0, AliveJob
  <1>2. e \in Job /\ Updated(j, e)
    <2>1. jobs \in [1..Len(jobs) -> Job]
      BY <1>1, JobsAreAFunction DEF TypeOK
    <2>2. e \in Job
      BY <1>1 DEF Job, Closed, TypeOK
    <2>3. jobs' = [jobs EXCEPT ![j] = e]
      BY <1>1, <2>1 DEF Job, IsGranted
    <2> QED BY <1>1, <2>2, <2>3, OneJob DEF TypeOK
  <1>3. GoesOn(j, e)
    BY <1>1 DEF IsGranted, GoesOn, Job, Closed, IInv, Tasked, Grant
  <1>4. Leases(j, e)
    BY <1>1 DEF IsGranted, Leases, Job, IInv, Leased, Tasked, TypeOK, Grant
  <1>5. Reaps(j, e)
    BY <1>1 DEF IsGranted, Reaps, Job, TypeOK, Retires, Grant
  <1> HIDE DEF e
  <1> QED BY <1>0, <1>1, <1>2, <1>3, <1>4, <1>5, WorkerStep

\* A worker that does not touch the broker, at a point where it holds no lease.
LEMMA NoLeaseMoves ==
    ASSUME IInv, NEW j \in JobIds, NEW e, UNCHANGED broker,
           jobs[j].at \notin {"works", "ended"}
    PROVE  Leases(j, e)
  <1>1. \A t \in Targets : lease[t] # j
    BY DEF IInv, Leased
  <1>2. lease' = lease /\ feed' = feed
    BY DEF broker
  <1> QED BY <1>1, <1>2 DEF IInv, TypeOK, Leases

LEMMA IsRefusedKeeps == ASSUME IInv, NEW j \in JobIds, IsRefused(j) PROVE IInv'
  <1> DEFINE e == [jobs[j] EXCEPT !.at = "ended", !.file = Closed(@)]
  <1>0. Alive(j) /\ TypeOK /\ OffTheScreen
    BY DEF IsRefused, IInv
  <1>1. j \in 1..Len(jobs) /\ gui # "gone" /\ jobs[j] \in Job /\ TypeOK
    BY <1>0, AliveJob
  <1>2. e \in Job /\ Updated(j, e)
    BY <1>1, Quits DEF IsRefused
  <1>3. GoesOn(j, e)
    BY <1>1 DEF IsRefused, GoesOn, Job, Closed, IInv, Tasked
  <1>4. Leases(j, e)
    BY <1>0, NoLeaseMoves DEF IsRefused
  <1>5. Reaps(j, e)
    BY <1>1 DEF IsRefused, Reaps, Job, TypeOK, Retires
  <1> HIDE DEF e
  <1> QED BY <1>0, <1>1, <1>2, <1>3, <1>4, <1>5, WorkerStep

LEMMA FrameKeeps == ASSUME IInv, NEW j \in JobIds, Frame(j) PROVE IInv'
  <1> DEFINE e == [jobs[j] EXCEPT !.n = @ + 1, !.file = IF jobs[j].kind \in {"recording", "pass"} THEN "open" ELSE @]
  <1>0. Alive(j) /\ TypeOK /\ OffTheScreen
    BY DEF Frame, IInv
  <1>1. j \in 1..Len(jobs) /\ gui # "gone" /\ jobs[j] \in Job /\ TypeOK
    BY <1>0, AliveJob
  <1>2. e \in Job /\ Updated(j, e)
    <2>1. jobs \in [1..Len(jobs) -> Job]
      BY <1>1, JobsAreAFunction DEF TypeOK
    <2>0. jobs[j].n < MaxFrames
      BY DEF Frame
    <2>4. jobs[j].n + 1 \in 0..MaxFrames
      BY <1>1, <2>0 DEF Job
    <2>2. e \in Job
      BY <1>1, <2>4 DEF Job, Closed, TypeOK
    <2>3. jobs' = [jobs EXCEPT ![j] = e]
      BY <1>1, <2>1 DEF Job, Frame
    <2> QED BY <1>1, <2>2, <2>3, OneJob DEF TypeOK
  <1>3. GoesOn(j, e)
    BY <1>1 DEF Frame, GoesOn, Job, Closed, IInv, Tasked
  <1>4. Leases(j, e)
    BY <1>1 DEF Frame, Leases, Job, IInv, Leased, Tasked, TypeOK
  <1>5. Reaps(j, e)
    BY <1>1 DEF Frame, Reaps, Job, TypeOK, Retires
  <1> HIDE DEF e
  <1> QED BY <1>0, <1>1, <1>2, <1>3, <1>4, <1>5, WorkerStep

LEMMA SeesCancelKeeps == ASSUME IInv, NEW j \in JobIds, SeesCancel(j) PROVE IInv'
  <1>1. Alive(j) /\ TypeOK
    BY DEF SeesCancel, IInv
  <1>2. j \in 1..Len(jobs) /\ gui # "gone" /\ jobs[j] \in Job
    BY <1>1, AliveJob
  <1>3. jobs[j].kind = "recording"
    BY <1>2 DEF SeesCancel, IInv, Tasked
  <1> QED BY <1>2, <1>3, LeftInside DEF SeesCancel

LEMMA WriterFailsKeeps == ASSUME IInv, NEW j \in JobIds, WriterFails(j) PROVE IInv'
  <1>1. Alive(j) /\ TypeOK
    BY DEF WriterFails, IInv
  <1>2. j \in 1..Len(jobs) /\ gui # "gone" /\ jobs[j] \in Job
    BY <1>1, AliveJob
  <1> QED BY <1>2, LeftInside DEF WriterFails

LEMMA ReclaimsKeeps == ASSUME IInv, NEW j \in JobIds, Reclaims(j) PROVE IInv'
  <1>1. /\ feed' \in [Targets -> Feeds]
        /\ lease' \in [Targets -> JobIds \cup {Nobody, Widget, Stranger}]
        /\ \A t \in Targets : lease'[t] \in {lease[t], Nobody}
        /\ UNCHANGED <<jobs, held, folder, timer, gui, rest>>
    BY DEF Reclaims, Release, OffTheScreen, IInv, TypeOK
  <1> USE DEF IInv
  <1>2. TypeOK'
    BY <1>1 DEF TypeOK
  <1>3. Handled' /\ Tasked' /\ Filed'
    BY <1>1 DEF Handled, Tasked, Filed, IsRunning
  <1>4. Leased'
    BY <1>1 DEF Leased
  <1>5. Awaited' /\ Drawn' /\ LastDrawIsWhole'
    BY <1>1 DEF Awaited, Drawn, LastDrawIsWhole
  <1>6. Joined'
    BY <1>1 DEF Joined, WorkersAreReaped, IsRunning
  <1> QED BY <1>2, <1>3, <1>4, <1>5, <1>6

LEMMA FailsKeeps == ASSUME IInv, NEW j \in JobIds, Fails(j) PROVE IInv'
  <1> DEFINE e == [jobs[j] EXCEPT !.at = "ended", !.file = Closed(@)]
  <1>0. Alive(j) /\ TypeOK /\ OffTheScreen
    BY DEF Fails, IInv
  <1>1. j \in 1..Len(jobs) /\ gui # "gone" /\ jobs[j] \in Job /\ TypeOK
    BY <1>0, AliveJob
  <1>2. e \in Job /\ Updated(j, e)
    BY <1>1, Quits DEF Fails
  <1>3. GoesOn(j, e)
    BY <1>1 DEF Fails, GoesOn, Job, Closed, IInv, Tasked, Release
  <1>4. Leases(j, e)
    BY <1>1 DEF Fails, Leases, Job, IInv, Leased, Tasked, TypeOK, Release
  <1>5. Reaps(j, e)
    BY <1>1 DEF Fails, Reaps, Job, TypeOK, Retires, Release
  <1> HIDE DEF e
  <1> QED BY <1>0, <1>1, <1>2, <1>3, <1>4, <1>5, WorkerStep

LEMMA KeepsKeeps == ASSUME IInv, NEW j \in JobIds, Keeps(j) PROVE IInv'
  <1> DEFINE e == [jobs[j] EXCEPT !.file = "open", !.folder = folder]
  <1>0. Alive(j) /\ TypeOK /\ OffTheScreen
    BY DEF Keeps, IInv
  <1>1. j \in 1..Len(jobs) /\ gui # "gone" /\ jobs[j] \in Job /\ TypeOK
    BY <1>0, AliveJob
  <1>2. e \in Job /\ Updated(j, e)
    <2>1. jobs \in [1..Len(jobs) -> Job]
      BY <1>1, JobsAreAFunction DEF TypeOK
    <2>2. e \in Job
      BY <1>1 DEF Job, Closed, TypeOK
    <2>3. jobs' = [jobs EXCEPT ![j] = e]
      BY <1>1, <2>1 DEF Job, Keeps
    <2> QED BY <1>1, <2>2, <2>3, OneJob DEF TypeOK
  <1>3. GoesOn(j, e)
    BY <1>1 DEF Keeps, GoesOn, Job, Closed, IInv, Tasked
  <1>4. Leases(j, e)
    BY <1>0, NoLeaseMoves DEF Keeps
  <1>5. Reaps(j, e)
    BY <1>1 DEF Keeps, Reaps, Job, TypeOK, Retires
  <1> HIDE DEF e
  <1> QED BY <1>0, <1>1, <1>2, <1>3, <1>4, <1>5, WorkerStep

LEMMA KeepFailsKeeps == ASSUME IInv, NEW j \in JobIds, KeepFails(j) PROVE IInv'
  <1> DEFINE e == [jobs[j] EXCEPT !.at = "ended", !.file = Closed(@)]
  <1>0. Alive(j) /\ TypeOK /\ OffTheScreen
    BY DEF KeepFails, IInv
  <1>1. j \in 1..Len(jobs) /\ gui # "gone" /\ jobs[j] \in Job /\ TypeOK
    BY <1>0, AliveJob
  <1>2. e \in Job /\ Updated(j, e)
    BY <1>1, Quits DEF KeepFails
  <1>3. GoesOn(j, e)
    BY <1>1 DEF KeepFails, GoesOn, Job, Closed, IInv, Tasked, IsKept
  <1>4. Leases(j, e)
    BY <1>0, NoLeaseMoves DEF KeepFails, IsKept
  <1>5. Reaps(j, e)
    BY <1>1 DEF KeepFails, Reaps, Job, TypeOK, Retires, IsKept
  <1> HIDE DEF e
  <1> QED BY <1>0, <1>1, <1>2, <1>3, <1>4, <1>5, WorkerStep

LEMMA EnsureStartedKeeps == ASSUME IInv, NEW j \in JobIds, EnsureStarted(j) PROVE IInv'
  <1> DEFINE e == [jobs[j] EXCEPT !.at = IF worker = "up" THEN "calls" ELSE "spawns", !.file = Closed(@)]
  <1>0. Alive(j) /\ TypeOK /\ OffTheScreen
    BY DEF EnsureStarted, IInv
  <1>1. j \in 1..Len(jobs) /\ gui # "gone" /\ jobs[j] \in Job /\ TypeOK
    BY <1>0, AliveJob
  <1>2. e \in Job /\ Updated(j, e)
    <2>1. jobs \in [1..Len(jobs) -> Job]
      BY <1>1, JobsAreAFunction DEF TypeOK
    <2>2. e \in Job
      BY <1>1 DEF Job, Closed, TypeOK
    <2>3. jobs' = [jobs EXCEPT ![j] = e]
      BY <1>1, <2>1 DEF Job, EnsureStarted
    <2> QED BY <1>1, <2>2, <2>3, OneJob DEF TypeOK
  <1>3. GoesOn(j, e)
    BY <1>1 DEF EnsureStarted, GoesOn, Job, Closed, IInv, Tasked, IsKept
  <1>4. Leases(j, e)
    BY <1>0, NoLeaseMoves DEF EnsureStarted, IsKept
  <1>5. Reaps(j, e)
    BY <1>1 DEF EnsureStarted, Reaps, Job, TypeOK, Retires, IsKept
  <1> HIDE DEF e
  <1> QED BY <1>0, <1>1, <1>2, <1>3, <1>4, <1>5, WorkerStep

LEMMA ConnectsKeeps == ASSUME IInv, NEW j \in JobIds, Connects(j) PROVE IInv'
  <1> DEFINE e == [jobs[j] EXCEPT !.at = "calls"]
  <1>0. Alive(j) /\ TypeOK /\ OffTheScreen
    BY DEF Connects, IInv
  <1>1. j \in 1..Len(jobs) /\ gui # "gone" /\ jobs[j] \in Job /\ TypeOK
    BY <1>0, AliveJob
  <1>2. e \in Job /\ Updated(j, e)
    <2>1. jobs \in [1..Len(jobs) -> Job]
      BY <1>1, JobsAreAFunction DEF TypeOK
    <2>2. e \in Job
      BY <1>1 DEF Job, Closed, TypeOK
    <2>3. jobs' = [jobs EXCEPT ![j] = e]
      BY <1>1, <2>1 DEF Job, Connects
    <2> QED BY <1>1, <2>2, <2>3, OneJob DEF TypeOK
  <1>3. GoesOn(j, e)
    BY <1>1 DEF Connects, GoesOn, Job, Closed, IInv, Tasked
  <1>4. Leases(j, e)
    BY <1>0, NoLeaseMoves DEF Connects
  <1>5. Reaps(j, e)
    BY <1>1 DEF Connects, Reaps, Job, TypeOK, Retires
  <1> HIDE DEF e
  <1> QED BY <1>0, <1>1, <1>2, <1>3, <1>4, <1>5, WorkerStep

LEMMA StartFailsKeeps == ASSUME IInv, NEW j \in JobIds, StartFails(j) PROVE IInv'
  <1> DEFINE e == [jobs[j] EXCEPT !.at = "ended", !.file = Closed(@)]
  <1>0. Alive(j) /\ TypeOK /\ OffTheScreen
    BY DEF StartFails, IInv
  <1>1. j \in 1..Len(jobs) /\ gui # "gone" /\ jobs[j] \in Job /\ TypeOK
    BY <1>0, AliveJob
  <1>2. e \in Job /\ Updated(j, e)
    BY <1>1, Quits DEF StartFails
  <1>3. GoesOn(j, e)
    BY <1>1 DEF StartFails, GoesOn, Job, Closed, IInv, Tasked
  <1>4. Leases(j, e)
    BY <1>0, NoLeaseMoves DEF StartFails
  <1>5. Reaps(j, e)
    BY <1>1 DEF StartFails, Reaps, Job, TypeOK, Retires
  <1> HIDE DEF e
  <1> QED BY <1>0, <1>1, <1>2, <1>3, <1>4, <1>5, WorkerStep

LEMMA AnswersKeeps == ASSUME IInv, NEW j \in JobIds, Answers(j) PROVE IInv'
  <1> DEFINE e == [jobs[j] EXCEPT !.at = "ended", !.file = Closed(@)]
  <1>0. Alive(j) /\ TypeOK /\ OffTheScreen
    BY DEF Answers, IInv
  <1>1. j \in 1..Len(jobs) /\ gui # "gone" /\ jobs[j] \in Job /\ TypeOK
    BY <1>0, AliveJob
  <1>2. e \in Job /\ Updated(j, e)
    BY <1>1, Quits DEF Answers
  <1>3. GoesOn(j, e)
    BY <1>1 DEF Answers, GoesOn, Job, Closed, IInv, Tasked
  <1>4. Leases(j, e)
    BY <1>0, NoLeaseMoves DEF Answers
  <1>5. Reaps(j, e)
    BY <1>1 DEF Answers, Reaps, Job, TypeOK, Retires
  <1> HIDE DEF e
  <1> QED BY <1>0, <1>1, <1>2, <1>3, <1>4, <1>5, WorkerStep

LEMMA CallFailsKeeps == ASSUME IInv, NEW j \in JobIds, CallFails(j) PROVE IInv'
  <1> DEFINE e == [jobs[j] EXCEPT !.at = "ended", !.file = Closed(@)]
  <1>0. Alive(j) /\ TypeOK /\ OffTheScreen
    BY DEF CallFails, IInv
  <1>1. j \in 1..Len(jobs) /\ gui # "gone" /\ jobs[j] \in Job /\ TypeOK
    BY <1>0, AliveJob
  <1>2. e \in Job /\ Updated(j, e)
    BY <1>1, Quits DEF CallFails
  <1>3. GoesOn(j, e)
    BY <1>1 DEF CallFails, GoesOn, Job, Closed, IInv, Tasked
  <1>4. Leases(j, e)
    BY <1>0, NoLeaseMoves DEF CallFails
  <1>5. Reaps(j, e)
    BY <1>1 DEF CallFails, Reaps, Job, TypeOK, Retires
  <1> HIDE DEF e
  <1> QED BY <1>0, <1>1, <1>2, <1>3, <1>4, <1>5, WorkerStep


LEMMA FinishesKeeps == ASSUME IInv, NEW j \in JobIds, Finishes(j) PROVE IInv'
  <1>0. Alive(j) /\ TypeOK /\ OffTheScreen
    BY DEF Finishes, IInv
  <1>1. j \in 1..Len(jobs) /\ gui # "gone" /\ jobs[j] \in Job /\ TypeOK
    BY <1>0, AliveJob
  <1>2. /\ feed' \in [Targets -> Feeds]
        /\ lease' \in [Targets -> JobIds \cup {Nobody, Widget, Stranger}]
        /\ \A t \in Targets : lease'[t] \in {lease[t], Nobody, j}
        /\ \A t \in Targets : lease'[t] # j
        /\ worker' = worker /\ worker \in {"none", "starting", "up", "died"}
    BY <1>1 DEF Finishes, Release, TypeOK
  <1>3. CASE jobs[j].kind = "analysis"
    <2> DEFINE e == [jobs[j] EXCEPT !.at = "keeps"]
    <2>1. e \in Job
      BY <1>1 DEF Job
    <2>2. jobs \in [1..Len(jobs) -> Job]
      BY <1>1, JobsAreAFunction DEF TypeOK
    <2>3. jobs' = [jobs EXCEPT ![j] = e]
      BY <1>1, <1>3, <2>2 DEF Job, Finishes
    <2>4. Updated(j, e)
      BY <1>1, <2>1, <2>3, OneJob DEF TypeOK
    <2>5. /\ jobs[j].at = "works" /\ e.at = "keeps"
          /\ e.kind = jobs[j].kind /\ e.cancelled = jobs[j].cancelled /\ e.folder = jobs[j].folder
      BY <1>1 DEF Finishes, Job
    <2> HIDE DEF e
    <2> QED BY <1>0, <1>1, <1>2, <1>3, <2>1, <2>4, <2>5, WorkerStep DEF GoesOn, Leases, Reaps
  <1>4. CASE jobs[j].kind # "analysis"
    <2> DEFINE e == [jobs[j] EXCEPT !.at = "ended", !.file = Closed(@)]
    <2>1. e \in Job /\ Updated(j, e)
      BY <1>1, <1>4, Quits DEF Finishes
    <2>2. /\ jobs[j].at = "works" /\ e.at = "ended" /\ e.file # "open"
          /\ e.kind = jobs[j].kind /\ e.cancelled = jobs[j].cancelled /\ e.folder = jobs[j].folder
      BY <1>1 DEF Finishes, Job, Closed
    <2> HIDE DEF e
    <2> QED BY <1>0, <1>1, <1>2, <1>4, <2>1, <2>2, WorkerStep DEF GoesOn, Leases, Reaps
  <1> QED BY <1>3, <1>4

\* A handler that makes a job leaves no lease to the recording it replaces,
\* and none of its kind at work.
LEMMA StartStep ==
    ASSUME IInv, NEW kind \in Kinds, NEW needs \in SUBSET Targets, Starts(kind, needs),
           kind \in {"recording", "analysis"} => ~IsRunning(held[kind]),
           feed' \in [Targets -> Feeds],
           lease' \in [Targets -> JobIds \cup {Nobody, Widget, Stranger}],
           \A t \in Targets : lease'[t] \in {lease[t], Nobody},
           kind = "recording" => \A t \in Targets :
               lease'[t] \in JobIds => lease'[t] # held["recording"] \/ jobs[lease'[t]].clings
    PROVE  IInv'
  <1> DEFINE new == Len(jobs) + 1
  <1> DEFINE e == [kind |-> kind, needs |-> needs, folder |-> folder, at |-> Begins(kind, needs),
                   n |-> 0, file |-> "none", cancelled |-> FALSE, clings |-> FALSE]
  <1>1. /\ TypeOK /\ gui = "idle" /\ gui' = gui /\ Len(jobs) < MaxJobs /\ Len(jobs) \in Nat
        /\ held' = [held EXCEPT ![kind] = new] /\ timer' = TRUE /\ folder' = folder
        /\ drawn' = drawn /\ saved' = saved /\ ended' = ended /\ worker' = worker
        /\ jobs' = Append(jobs, e)
    BY LenProperties DEF Starts, IInv, TypeOK
  <1>2. /\ e \in Job /\ e.kind = kind /\ e.at # "ended" /\ ~e.cancelled /\ e.folder = folder
        /\ e.at = "keeps" => kind = "analysis"
        /\ e.at \notin {"spawns", "calls"}
    BY <1>1 DEF Job, Begins, TypeOK
  <1> HIDE DEF e
  <1>3. /\ jobs' \in Seq(Job) /\ Len(jobs') = new /\ jobs'[new] = e
        /\ \A k \in 1..Len(jobs) : jobs'[k] = jobs[k]
    BY <1>1, <1>2, Appended DEF TypeOK
  <1>4. \A k \in 1..Len(jobs') : k \in 1..Len(jobs) \/ k = new
    BY <1>1, <1>3
  <1> USE DEF IInv
  <1>5. TypeOK'
    BY <1>1, <1>3 DEF TypeOK
  <1>6. Handled'
    <2>1. ASSUME NEW k \in Kinds, held'[k] # 0
          PROVE  held'[k] \in 1..Len(jobs') /\ jobs'[held'[k]].kind = k
      <3>1. CASE k = kind
        BY <1>1, <1>2, <1>3, <3>1 DEF TypeOK
      <3>2. CASE k # kind
        <4>1. held'[k] = held[k]
          BY <1>1, <3>2 DEF TypeOK
        <4> QED BY <1>1, <1>3, <2>1, <4>1 DEF Handled
      <3> QED BY <3>1, <3>2
    <2>2. ASSUME NEW j \in 1..Len(jobs), jobs[j].at # "ended",
                 jobs[j].kind \in {"recording", "analysis"}
          PROVE  held'[jobs[j].kind] = j
      <3>1. held[jobs[j].kind] = j
        BY <2>2 DEF Handled
      <3>2. jobs[j].kind # kind
        BY <2>2, <3>1 DEF IsRunning
      <3> QED BY <1>1, <2>2, <3>1, <3>2 DEF TypeOK
    <2>3. held'[e.kind] = new
      BY <1>1, <1>2 DEF TypeOK
    <2> QED BY <1>3, <1>4, <2>1, <2>2, <2>3 DEF Handled
  <1>7. Tasked'
    BY <1>2, <1>3, <1>4 DEF Tasked
  <1>8. Filed'
    <2>1. ASSUME NEW j \in 1..Len(jobs) PROVE IsRunning(j)' => IsRunning(j)
      BY <1>3 DEF IsRunning
    <2> QED BY <1>1, <1>2, <1>3, <1>4, <2>1 DEF Filed
  <1>9. Leased'
    <2> SUFFICES ASSUME NEW t \in Targets, lease'[t] \in JobIds
                 PROVE  /\ lease'[t] \in 1..Len(jobs')
                        /\ \/ jobs'[lease'[t]].at = "works"
                           \/ /\ jobs'[lease'[t]].at = "ended" /\ jobs'[lease'[t]].kind = "recording"
                              /\ lease'[t] = held'["recording"] \/ jobs'[lease'[t]].clings
      BY DEF Leased
    <2>1. /\ lease[t] = lease'[t] /\ lease[t] \in 1..Len(jobs)
          /\ \/ jobs[lease[t]].at = "works"
             \/ /\ jobs[lease[t]].at = "ended" /\ jobs[lease[t]].kind = "recording"
                /\ lease[t] = held["recording"] \/ jobs[lease[t]].clings
      BY DEF Leased
    <2>2. kind # "recording" => held'["recording"] = held["recording"]
      BY <1>1 DEF TypeOK
    <2> QED BY <1>1, <1>3, <2>1, <2>2
  <1>10. Awaited'
    BY <1>1, <1>3 DEF Awaited
  <1>11. Drawn'
    BY <1>1, <1>3 DEF Drawn
  <1>12. LastDrawIsWhole'
    BY <1>1, <1>3 DEF LastDrawIsWhole, Drawn
  <1>13. Joined'
    BY <1>1 DEF Joined, WorkersAreReaped
  <1> QED BY <1>5, <1>6, <1>7, <1>8, <1>9, <1>10, <1>11, <1>12, <1>13


LEMMA LetsGoTyped ==
    ASSUME TypeOK, NEW j \in 0..MaxJobs, LetsGo(j)
    PROVE  /\ feed' \in [Targets -> Feeds]
           /\ lease' \in [Targets -> JobIds \cup {Nobody, Widget, Stranger}]
           /\ \A t \in Targets : lease'[t] \in {lease[t], Nobody}
           /\ \A t \in Targets : lease'[t] \in JobIds => lease'[t] # j \/ jobs[lease'[t]].clings
  <1>1. /\ feed \in [Targets -> Feeds]
        /\ lease \in [Targets -> JobIds \cup {Nobody, Widget, Stranger}]
    BY DEF TypeOK
  <1>2. Nobody \notin JobIds
    OBVIOUS
  <1>3. CASE j = 0
    BY <1>1, <1>3 DEF LetsGo
  <1>4. CASE j # 0 /\ jobs[j].clings
    BY <1>1, <1>4 DEF LetsGo
  <1>5. CASE j # 0 /\ ~jobs[j].clings
    BY <1>1, <1>2, <1>5 DEF LetsGo, Release
  <1> QED BY <1>3, <1>4, <1>5

LEMMA StartRecordingKeeps ==
    ASSUME IInv, NEW needs \in SUBSET Targets, StartRecording(needs)
    PROVE  IInv'
  <1>1. TypeOK /\ Starts("recording", needs) /\ ~IsRunning(held["recording"])
    BY DEF StartRecording, IInv
  <1>2. /\ feed' \in [Targets -> Feeds]
        /\ lease' \in [Targets -> JobIds \cup {Nobody, Widget, Stranger}]
        /\ \A t \in Targets : lease'[t] \in {lease[t], Nobody}
        /\ \A t \in Targets : lease'[t] \in JobIds =>
              lease'[t] # held["recording"] \/ jobs[lease'[t]].clings
    <2>1. held["recording"] \in 0..MaxJobs /\ LetsGo(held["recording"])
      BY <1>1 DEF StartRecording, TypeOK
    <2> QED BY <1>1, <2>1, LetsGoTyped
  <1> QED BY <1>1, <1>2, StartStep

LEMMA OpenRecordingKeeps == ASSUME IInv, OpenRecording PROVE IInv'
  <1>1. /\ Starts("load", {}) /\ feed' \in [Targets -> Feeds] /\ lease' = lease
        /\ lease' \in [Targets -> JobIds \cup {Nobody, Widget, Stranger}]
    BY DEF OpenRecording, IInv, TypeOK
  <1> QED BY <1>1, StartStep

LEMMA StartAnalysisKeeps ==
    ASSUME IInv, NEW needs \in SUBSET Targets, StartAnalysis(needs)
    PROVE  IInv'
  <1>1. TypeOK /\ Starts("analysis", needs) /\ ~IsRunning(held["analysis"])
    BY DEF StartAnalysis, IInv
  <1>2. /\ feed' \in [Targets -> Feeds]
        /\ lease' \in [Targets -> JobIds \cup {Nobody, Widget, Stranger}]
        /\ \A t \in Targets : lease'[t] \in {lease[t], Nobody}
    <2>1. held["analysis"] \in 0..MaxJobs /\ LetsGo(held["analysis"])
      BY <1>1 DEF StartAnalysis, TypeOK
    <2> QED BY <1>1, <2>1, LetsGoTyped
  <1> QED BY <1>1, <1>2, StartStep

LEMMA AcquireSpectrumImageKeeps == ASSUME IInv, AcquireSpectrumImage PROVE IInv'
  <1>1. /\ Starts("pass", Targets) /\ feed' \in [Targets -> Feeds] /\ lease' = lease
        /\ lease' \in [Targets -> JobIds \cup {Nobody, Widget, Stranger}]
    BY DEF AcquireSpectrumImage, IInv, TypeOK
  <1> QED BY <1>1, StartStep

\* cancel() of the recording in hand, wherever it comes from.
LEMMA CancelStep ==
    ASSUME IInv, IsRunning(held["recording"]),
           jobs' = [jobs EXCEPT ![held["recording"]].cancelled = TRUE],
           UNCHANGED <<broker, held, folder, rest>>, timer' = timer,
           gui' \in {"idle", "join_recording"}
    PROVE  IInv'
  <1> PICK j : j = held["recording"]
    OBVIOUS
  <1> DEFINE e == [jobs[j] EXCEPT !.cancelled = TRUE]
  <1> USE DEF IInv
  <1>1. /\ j \in 1..Len(jobs) /\ jobs[j].kind = "recording" /\ jobs[j].at # "ended"
        /\ jobs \in [1..Len(jobs) -> Job]
    BY JobsAreAFunction DEF TypeOK, Handled, IsRunning
  <1>2. e \in Job /\ e.kind = "recording" /\ e.at = jobs[j].at /\ e.folder = jobs[j].folder
    <2>1. jobs[j] \in Job
      BY <1>1
    <2> QED BY <1>1, <2>1 DEF Job
  <1>3. jobs' = [jobs EXCEPT ![j] = e]
    BY <1>1 DEF Job
  <1>4. Updated(j, e)
    BY <1>1, <1>2, <1>3, OneJob DEF TypeOK
  <1> HIDE DEF e
  <1>5. /\ jobs' \in Seq(Job) /\ Len(jobs') = Len(jobs) /\ Len(jobs) \in Nat
        /\ \A k \in 1..Len(jobs) :
              /\ jobs'[k].kind = jobs[k].kind /\ jobs'[k].at = jobs[k].at
              /\ jobs'[k].folder = jobs[k].folder
              /\ jobs[k].at = "ended" => jobs'[k] = jobs[k]
    BY <1>1, <1>2, <1>4, LenProperties DEF Updated, TypeOK
  <1>6. TypeOK'
    BY <1>5 DEF TypeOK
  <1>7. Handled'
    <2>1. \A k \in Kinds : held'[k] # 0 => held'[k] \in 1..Len(jobs') /\ jobs'[held'[k]].kind = k
      BY <1>5 DEF Handled
    <2>2. ASSUME NEW k \in 1..Len(jobs'), jobs'[k].at # "ended",
                 jobs'[k].kind \in {"recording", "analysis"}
          PROVE  held'[jobs'[k].kind] = k
      <3>1. k \in 1..Len(jobs) /\ jobs[k].at # "ended" /\ jobs'[k].kind = jobs[k].kind
        BY <1>5, <2>2
      <3>2. held[jobs[k].kind] = k
        BY <2>2, <3>1 DEF Handled
      <3> QED BY <3>1, <3>2
    <2> QED BY <2>1, <2>2 DEF Handled
  <1>8. Tasked'
    BY <1>1, <1>2, <1>4, <1>5 DEF Tasked, Updated
  <1>9. Filed'
    <2>1. ASSUME NEW k \in 1..Len(jobs) PROVE IsRunning(k)' => IsRunning(k)
      BY <1>5 DEF IsRunning
    <2> QED BY <1>5, <2>1 DEF Filed
  <1>10. Leased'
    BY <1>5 DEF Leased
  <1>11. Awaited'
    BY <1>5 DEF Awaited
  <1>12. Drawn'
    BY <1>5 DEF Drawn
  <1>13. LastDrawIsWhole'
    BY <1>5 DEF LastDrawIsWhole, Drawn
  <1>14. Joined'
    BY <1>5 DEF Joined, WorkersAreReaped
  <1> QED BY <1>6, <1>7, <1>8, <1>9, <1>10, <1>11, <1>12, <1>13, <1>14

LEMMA CancelRecordingKeeps == ASSUME IInv, CancelRecording PROVE IInv'
  BY CancelStep DEF CancelRecording

LEMMA OpenSessionDirectoryKeeps == ASSUME IInv, OpenSessionDirectory PROVE IInv'
  <1> USE DEF IInv, TypeOK
  <1>1. TypeOK'
    BY DEF OpenSessionDirectory, IsRunning
  <1>2. Handled'
    BY DEF Handled, OpenSessionDirectory, IsRunning
  <1>3. Tasked'
    BY DEF Tasked, OpenSessionDirectory, IsRunning
  <1>4. Filed'
    BY DEF Handled, Tasked, Filed, OpenSessionDirectory, IsRunning
  <1>5. Leased'
    BY DEF Handled, Tasked, Leased, OpenSessionDirectory, IsRunning
  <1>6. Awaited'
    BY DEF Handled, Awaited, OpenSessionDirectory, IsRunning
  <1>7. Drawn'
    BY DEF Handled, Drawn, OpenSessionDirectory, IsRunning
  <1>8. LastDrawIsWhole'
    BY DEF Drawn, LastDrawIsWhole, OpenSessionDirectory, IsRunning
  <1>9. Joined'
    BY DEF Handled, Tasked, Awaited, Joined, WorkersAreReaped, OpenSessionDirectory, IsRunning
  <1> QED BY <1>1, <1>2, <1>3, <1>4, <1>5, <1>6, <1>7, <1>8, <1>9

LEMMA WorkerDiesKeeps == ASSUME IInv, WorkerDies PROVE IInv'
  <1> USE DEF IInv, TypeOK
  <1>1. TypeOK'
    BY DEF WorkerDies, IsRunning, OffTheScreen
  <1>2. Handled'
    BY DEF Handled, WorkerDies, IsRunning, OffTheScreen
  <1>3. Tasked'
    BY DEF Tasked, WorkerDies, IsRunning, OffTheScreen
  <1>4. Filed'
    BY DEF Handled, Tasked, Filed, WorkerDies, IsRunning, OffTheScreen
  <1>5. Leased'
    BY DEF Handled, Tasked, Leased, WorkerDies, IsRunning, OffTheScreen
  <1>6. Awaited'
    BY DEF Handled, Awaited, WorkerDies, IsRunning, OffTheScreen
  <1>7. Drawn'
    BY DEF Handled, Drawn, WorkerDies, IsRunning, OffTheScreen
  <1>8. LastDrawIsWhole'
    BY DEF Drawn, LastDrawIsWhole, WorkerDies, IsRunning, OffTheScreen
  <1>9. Joined'
    BY DEF Handled, Tasked, Awaited, Joined, WorkersAreReaped, WorkerDies, IsRunning,
           OffTheScreen
  <1> QED BY <1>1, <1>2, <1>3, <1>4, <1>5, <1>6, <1>7, <1>8, <1>9

LEMMA StartLiveKeeps == ASSUME IInv, NEW t \in Targets, StartLive(t) PROVE IInv'
  BY DEF StartLive, IInv, TypeOK, Handled, Tasked, Filed, Leased, Awaited, Drawn,
         LastDrawIsWhole, Joined, IsRunning, WorkersAreReaped

LEMMA StopLiveKeeps == ASSUME IInv, NEW t \in Targets, StopLive(t) PROVE IInv'
  BY DEF StopLive, IInv, TypeOK, Handled, Tasked, Filed, Leased, Awaited, Drawn,
         LastDrawIsWhole, Joined, IsRunning, WorkersAreReaped, StopOf

LEMMA LiveStoppedKeeps == ASSUME IInv, NEW t \in Targets, LiveStopped(t) PROVE IInv'
  BY DEF LiveStopped, IInv, TypeOK, Handled, Tasked, Filed, Leased, Awaited, Drawn,
         LastDrawIsWhole, Joined, IsRunning, WorkersAreReaped, StopOf, MaybeStopTimer

LEMMA LoopEndsKeeps == ASSUME IInv, NEW t \in Targets, LoopEnds(t) PROVE IInv'
  <1> USE DEF IInv, TypeOK
  <1>1. TypeOK'
    BY DEF LoopEnds, IsRunning
  <1>2. Handled'
    BY DEF Handled, LoopEnds, IsRunning
  <1>3. Tasked'
    BY DEF Tasked, LoopEnds, IsRunning
  <1>4. Filed'
    BY DEF Handled, Tasked, Filed, LoopEnds, IsRunning
  <1>5. Leased'
    BY DEF Handled, Tasked, Leased, LoopEnds, IsRunning
  <1>6. Awaited'
    BY DEF Handled, Awaited, LoopEnds, IsRunning
  <1>7. Drawn'
    BY DEF Handled, Drawn, LoopEnds, IsRunning
  <1>8. LastDrawIsWhole'
    BY DEF Drawn, LastDrawIsWhole, LoopEnds, IsRunning
  <1>9. Joined'
    BY DEF Handled, Tasked, Awaited, Joined, WorkersAreReaped, LoopEnds, IsRunning
  <1> QED BY <1>1, <1>2, <1>3, <1>4, <1>5, <1>6, <1>7, <1>8, <1>9

LEMMA PreviewScanKeeps == ASSUME IInv, PreviewScan PROVE IInv'
  BY DEF PreviewScan, IInv, TypeOK, Handled, Tasked, Filed, Leased, Awaited, Drawn,
         LastDrawIsWhole, Joined, IsRunning, WorkersAreReaped, Grant, IsFree

LEMMA PreviewEndsKeeps == ASSUME IInv, PreviewEnds PROVE IInv'
  BY DEF PreviewEnds, IInv, TypeOK, Handled, Tasked, Filed, Leased, Awaited, Drawn,
         LastDrawIsWhole, Joined, IsRunning, WorkersAreReaped, Release

LEMMA StrangerLeasesKeeps == ASSUME IInv, NEW t \in Targets, StrangerLeases(t) PROVE IInv'
  <1> USE DEF IInv, TypeOK
  <1>1. TypeOK'
    BY DEF StrangerLeases, IsRunning, Grant, IsFree
  <1>2. Handled'
    BY DEF Handled, StrangerLeases, IsRunning, Grant, IsFree
  <1>3. Tasked'
    BY DEF Tasked, StrangerLeases, IsRunning, Grant, IsFree
  <1>4. Filed'
    BY DEF Handled, Tasked, Filed, StrangerLeases, IsRunning, Grant, IsFree
  <1>5. Leased'
    BY DEF Handled, Tasked, Leased, StrangerLeases, IsRunning, Grant, IsFree
  <1>6. Awaited'
    BY DEF Handled, Awaited, StrangerLeases, IsRunning, Grant, IsFree
  <1>7. Drawn'
    BY DEF Handled, Drawn, StrangerLeases, IsRunning, Grant, IsFree
  <1>8. LastDrawIsWhole'
    BY DEF Drawn, LastDrawIsWhole, StrangerLeases, IsRunning, Grant, IsFree
  <1>9. Joined'
    BY DEF Handled, Tasked, Awaited, Joined, WorkersAreReaped, StrangerLeases, IsRunning, Grant,
           IsFree
  <1> QED BY <1>1, <1>2, <1>3, <1>4, <1>5, <1>6, <1>7, <1>8, <1>9

LEMMA StrangerReleasesKeeps == ASSUME IInv, StrangerReleases PROVE IInv'
  <1> USE DEF IInv, TypeOK
  <1>1. TypeOK'
    BY DEF StrangerReleases, IsRunning, Release
  <1>2. Handled'
    BY DEF Handled, StrangerReleases, IsRunning, Release
  <1>3. Tasked'
    BY DEF Tasked, StrangerReleases, IsRunning, Release
  <1>4. Filed'
    BY DEF Handled, Tasked, Filed, StrangerReleases, IsRunning, Release
  <1>5. Leased'
    BY DEF Handled, Tasked, Leased, StrangerReleases, IsRunning, Release
  <1>6. Awaited'
    BY DEF Handled, Awaited, StrangerReleases, IsRunning, Release
  <1>7. Drawn'
    BY DEF Handled, Drawn, StrangerReleases, IsRunning, Release
  <1>8. LastDrawIsWhole'
    BY DEF Drawn, LastDrawIsWhole, StrangerReleases, IsRunning, Release
  <1>9. Joined'
    BY DEF Handled, Tasked, Awaited, Joined, WorkersAreReaped, StrangerReleases, IsRunning,
           Release
  <1> QED BY <1>1, <1>2, <1>3, <1>4, <1>5, <1>6, <1>7, <1>8, <1>9

LEMMA PollPassKeeps == ASSUME IInv, PollPass PROVE IInv'
  BY DEF PollPass, IInv, TypeOK, Handled, Tasked, Filed, Leased, Awaited, Drawn,
         LastDrawIsWhole, Joined, IsRunning, WorkersAreReaped

LEMMA RefreshSourcesKeeps == ASSUME IInv, RefreshSources PROVE IInv'
  BY DEF RefreshSources, IInv, TypeOK, Handled, Tasked, Filed, Leased, Awaited, Drawn,
         LastDrawIsWhole, Joined, IsRunning, WorkersAreReaped, MaybeStopTimer

LEMMA ShutdownKeeps == ASSUME IInv, Shutdown PROVE IInv'
  BY DEF Shutdown, IInv, TypeOK, Handled, Tasked, Filed, Leased, Awaited, Drawn,
         LastDrawIsWhole, Joined, IsRunning, WorkersAreReaped

LEMMA JoinRecordingKeeps == ASSUME IInv, JoinRecording PROVE IInv'
  BY DEF JoinRecording, IInv, TypeOK, Handled, Tasked, Filed, Leased, Awaited, Drawn,
         LastDrawIsWhole, Joined, IsRunning, WorkersAreReaped

LEMMA CloseBrokerKeeps == ASSUME IInv, CloseBroker PROVE IInv'
  BY DEF CloseBroker, IInv, TypeOK, Handled, Tasked, Filed, Leased, Awaited, Drawn,
         LastDrawIsWhole, Joined, IsRunning, WorkersAreReaped

----------------------------------------------------------------------------
(* The tick *)

\* A tick passes on to a poller that has a job in hand, or to the sources.
LEMMA PollerHasAJob ==
    ASSUME NEW n \in 0..4
    PROVE  \/ PollerAfter(n) \in {"recording", "load", "analysis", "sources"}
           \/ PollerAfter(n) = "pass" /\ held["pass"] # 0
  <1> DEFINE busy == {i \in n + 1..4 : IsHeld(Order[i])}
  <1>1. CASE busy = {}
    BY <1>1 DEF PollerAfter
  <1>2. CASE busy # {}
    <2>1. \E i \in busy : \A h \in busy : i <= h
      <3>1. busy \subseteq {1, 2, 3, 4}
        OBVIOUS
      <3> HIDE DEF busy
      <3>2. CASE 1 \in busy
        BY <3>1, <3>2
      <3>3. CASE 1 \notin busy /\ 2 \in busy
        BY <3>1, <3>3
      <3>4. CASE 1 \notin busy /\ 2 \notin busy /\ 3 \in busy
        BY <3>1, <3>4
      <3>5. CASE 1 \notin busy /\ 2 \notin busy /\ 3 \notin busy
        <4>1. 4 \in busy /\ \A h \in busy : h = 4
          BY <1>2, <3>1, <3>5
        <4> QED BY <4>1
      <3> QED BY <3>2, <3>3, <3>4, <3>5
    <2> DEFINE next == CHOOSE i \in busy : \A h \in busy : i <= h
    <2>2. next \in busy /\ PollerAfter(n) = Order[next]
      BY <1>2, <2>1 DEF PollerAfter
    <2>3. next \in {1, 2, 3, 4} /\ IsHeld(Order[next])
      BY <2>2
    <2> HIDE DEF next
    <2> QED BY <2>2, <2>3 DEF Order, IsHeld
  <1> QED BY <1>1, <1>2

\* What the tick does between two pollers.
LEMMA TickStep ==
    ASSUME IInv, gui \notin Closings, gui' \in {"recording", "load", "analysis", "pass", "sources"},
           gui' = "pass" => held["pass"] # 0,
           UNCHANGED <<broker, jobs, held, folder, rest>>, timer' \in BOOLEAN
    PROVE  IInv'
  BY DEF IInv, TypeOK, Handled, Tasked, Filed, Leased, Awaited, Drawn, LastDrawIsWhole, Joined,
         IsRunning, WorkersAreReaped

LEMMA TickKeeps == ASSUME IInv, Tick PROVE IInv'
  <1>1. gui = "idle" /\ gui' = PollerAfter(0) /\ timer' = timer /\ timer \in BOOLEAN
        /\ UNCHANGED <<broker, jobs, held, folder, rest>>
    BY DEF Tick, IInv, TypeOK
  <1> QED BY <1>1, PollerHasAJob, TickStep

LEMMA PollsInVainKeeps == ASSUME IInv, NEW i \in 1..3, PollsInVain(i) PROVE IInv'
  <1> PICK k \in {"recording", "load", "analysis"} : k = Order[i]
    BY DEF Order
  <1>1. gui = k /\ gui' = PollerAfter(i) /\ timer' = timer /\ timer \in BOOLEAN
        /\ UNCHANGED <<broker, jobs, held, folder, rest>>
    BY DEF PollsInVain, IInv, TypeOK
  <1>2. /\ gui' \in {"recording", "load", "analysis", "pass", "sources"}
        /\ gui' = "pass" => held["pass"] # 0
    BY <1>1, PollerHasAJob
  <1>3. gui \notin Closings
    BY <1>1
  <1> QED BY <1>1, <1>2, <1>3, TickStep

LEMMA PollReportsKeeps == ASSUME IInv, NEW i \in 1..3, PollReports(i) PROVE IInv'
  <1> PICK k \in {"recording", "load", "analysis"} : k = Order[i]
    BY DEF Order
  <1>1. /\ TypeOK /\ gui = k /\ gui' = PollerAfter(i) /\ ~IsRunning(held[k])
        /\ held' = [held EXCEPT ![k] = 0] /\ LetsGo(held[k])
        /\ UNCHANGED <<jobs, folder, rest>>
    BY DEF PollReports, IInv
  <1>2. timer' \in BOOLEAN
    BY DEF PollReports, MaybeStopTimer, IInv, TypeOK
  <1>3. held \in [Kinds -> 0..MaxJobs]
    BY <1>1 DEF TypeOK
  <1>4. /\ feed' \in [Targets -> Feeds]
        /\ lease' \in [Targets -> JobIds \cup {Nobody, Widget, Stranger}]
        /\ \A t \in Targets : lease'[t] \in {lease[t], Nobody}
        /\ \A t \in Targets : lease'[t] \in JobIds => lease'[t] # held[k] \/ jobs[lease'[t]].clings
    BY <1>1, <1>3, LetsGoTyped
  <1>5. gui' \in Pollers /\ (gui' = "pass" => held["pass"] # 0) /\ gui' # "draw"
    BY <1>1, PollerHasAJob
  <1>6. /\ held'[k] = 0 /\ held' \in [Kinds -> 0..MaxJobs]
        /\ \A h \in Kinds : h # k => held'[h] = held[h]
    BY <1>1, <1>3
  <1> USE DEF IInv
  <1>7. TypeOK'
    BY <1>1, <1>2, <1>4, <1>5, <1>6 DEF TypeOK
  <1>8. Handled'
    <2>1. \A j \in 1..Len(jobs) : jobs[j].at # "ended" /\ jobs[j].kind \in {"recording", "analysis"} =>
             jobs[j].kind # k
      BY <1>1 DEF Handled, IsRunning
    <2>2. \A h \in Kinds : held'[h] # 0 => held'[h] \in 1..Len(jobs) /\ jobs[held'[h]].kind = h
      BY <1>6 DEF Handled
    <2>3. ASSUME NEW j \in 1..Len(jobs), jobs[j].at # "ended", jobs[j].kind \in {"recording", "analysis"}
          PROVE  held'[jobs[j].kind] = j
      <3>1. held[jobs[j].kind] = j
        BY <2>3 DEF Handled
      <3> QED BY <1>6, <2>1, <2>3, <3>1
    <2> QED BY <1>1, <2>2, <2>3 DEF Handled
  <1>9. Tasked'
    BY <1>1 DEF Tasked
  <1>10. Filed'
    BY <1>1 DEF Filed, IsRunning
  <1>11. Leased'
    <2> SUFFICES ASSUME NEW t \in Targets, lease'[t] \in JobIds
                 PROVE  /\ lease'[t] \in 1..Len(jobs')
                        /\ \/ jobs'[lease'[t]].at = "works"
                           \/ /\ jobs'[lease'[t]].at = "ended" /\ jobs'[lease'[t]].kind = "recording"
                              /\ lease'[t] = held'["recording"] \/ jobs'[lease'[t]].clings
      BY DEF Leased
    <2>1. lease'[t] = lease[t] /\ (lease[t] # held[k] \/ jobs[lease[t]].clings)
      BY <1>4
    <2>2. k # "recording" => held'["recording"] = held["recording"]
      BY <1>6
    <2> QED BY <1>1, <2>1, <2>2 DEF Leased
  <1>12. Awaited'
    BY <1>1 DEF Awaited
  <1>13. Drawn'
    BY <1>1, <1>5, <1>6 DEF Drawn
  <1>14. LastDrawIsWhole'
    BY <1>1 DEF LastDrawIsWhole
  <1>15. Joined'
    BY <1>1, <1>5 DEF Joined, WorkersAreReaped
  <1> QED BY <1>7, <1>8, <1>9, <1>10, <1>11, <1>12, <1>13, <1>14, <1>15

LEMMA DrawPassKeeps == ASSUME IInv, DrawPass PROVE IInv'
  <1> USE DEF IInv
  <1> PICK j : j = held["pass"]
    OBVIOUS
  <1>1. /\ gui = "draw" /\ gui' = "sources" /\ ended' = FALSE
        /\ drawn' = [drawn EXCEPT ![j] = jobs[j].n]
        /\ UNCHANGED <<feed, lease, jobs, folder, worker>>
        /\ IF ~ended THEN held' = held /\ saved' = saved
                     ELSE held' = [held EXCEPT !["pass"] = 0] /\ saved' = saved \cup {j}
        /\ timer' \in BOOLEAN
    BY DEF DrawPass, MaybeStopTimer, TypeOK
  <1>2. /\ j \in 1..Len(jobs) /\ j \in JobIds /\ jobs[j].kind = "pass"
        /\ ended => jobs[j].at = "ended"
    BY <1>1 DEF Drawn, Handled, TypeOK
  <1>3. jobs[j].n \in 0..MaxFrames
    <2>1. jobs[j] \in Job
      BY <1>2, JobsAreAFunction DEF TypeOK
    <2> QED BY <2>1 DEF Job
  <1>4. /\ held' \in [Kinds -> 0..MaxJobs]
        /\ \A k \in Kinds : k # "pass" => held'[k] = held[k]
        /\ held'["pass"] \in {0, held["pass"]}
    BY <1>1 DEF TypeOK
  <1>5. TypeOK'
    BY <1>1, <1>2, <1>3, <1>4 DEF TypeOK
  <1>6. Handled'
    BY <1>1, <1>4 DEF Handled
  <1>7. Tasked'
    BY <1>1 DEF Tasked
  <1>8. Filed'
    BY <1>1 DEF Filed, IsRunning
  <1>9. Leased'
    BY <1>1, <1>4 DEF Leased
  <1>10. Awaited'
    BY <1>1 DEF Awaited
  <1>11. Drawn'
    BY <1>1, <1>2 DEF Drawn
  <1>12. LastDrawIsWhole'
    BY <1>1, <1>2 DEF LastDrawIsWhole, Drawn, TypeOK
  <1>13. Joined'
    BY <1>1 DEF Joined, WorkersAreReaped
  <1> QED BY <1>5, <1>6, <1>7, <1>8, <1>9, <1>10, <1>11, <1>12, <1>13

----------------------------------------------------------------------------
(* The shutdown *)

LEMMA JoinLoadKeeps == ASSUME IInv, JoinLoad PROVE IInv'
  <1>1. CASE IsRunning(held["recording"])
    BY <1>1, CancelStep DEF JoinLoad
  <1>2. CASE ~IsRunning(held["recording"])
    <2>1. gui = "join_load" /\ gui' = "join_recording"
          /\ UNCHANGED <<broker, jobs, held, folder, timer, rest>>
      BY <1>2 DEF JoinLoad
    <2> QED BY <2>1
       DEF IInv, TypeOK, Handled, Tasked, Filed, Leased, Awaited, Drawn, LastDrawIsWhole,
           Joined, WorkersAreReaped, IsRunning
  <1> QED BY <1>1, <1>2

LEMMA CloseRunnersKeeps == ASSUME IInv, CloseRunners PROVE IInv'
  <1>1. /\ gui = "close_runners" /\ gui' = "gone"
        /\ worker' = IF worker = "starting" THEN worker ELSE "none"
        /\ UNCHANGED <<broker, jobs, held, folder, timer, screen>>
    BY DEF CloseRunners, Retires
  <1>2. Len(jobs) \in Nat
    BY LenProperties DEF IInv, TypeOK
  <1>3. ASSUME NEW j \in 1..Len(jobs), jobs[j].at = "spawns"
        PROVE  jobs[j].kind = "analysis" /\ IsRunning(j)
    BY <1>2, <1>3 DEF IInv, Tasked, IsRunning
  <1>4. TypeOK'
    BY <1>1 DEF IInv, TypeOK
  <1>5. Handled' /\ Tasked' /\ Filed'
    BY <1>1 DEF IInv, Handled, Tasked, Filed, IsRunning
  <1>6. Leased' /\ Awaited' /\ Drawn' /\ LastDrawIsWhole'
    BY <1>1 DEF IInv, Leased, Awaited, Drawn, LastDrawIsWhole
  <1>7. Joined'
    BY <1>1, <1>3 DEF IInv, Awaited, Joined, WorkersAreReaped, IsRunning
  <1> QED BY <1>4, <1>5, <1>6, <1>7 DEF IInv

----------------------------------------------------------------------------
(* The theorems *)

LEMMA InitKeepsIt == Init => IInv
  <1> SUFFICES ASSUME Init PROVE IInv
    OBVIOUS
  <1>1. jobs \in Seq(Job) /\ Len(jobs) = 0
    BY DEF Init
  <1>2. TypeOK
    <2>1. 0 \in 0..MaxJobs /\ 0 \in 0..MaxFrames /\ 0 \in 0..MaxFolders /\ 0 <= MaxJobs
      OBVIOUS
    <2> QED BY <1>1, <2>1 DEF Init, TypeOK
  <1> QED BY <1>1, <1>2
     DEF Init, IInv, Handled, Tasked, Filed, Leased, Awaited, Drawn, LastDrawIsWhole, Joined,
         WorkersAreReaped

LEMMA NextKeepsIt == IInv /\ [Next]_vars => IInv'
  <1> SUFFICES ASSUME IInv, [Next]_vars PROVE IInv'
    OBVIOUS
  <1>1. CASE Presses
    <2>1. ASSUME NEW t \in Watched, RecordFrames(t) \/ StartLive(t) \/ StopLive(t) PROVE IInv'
      BY <2>1, StartRecordingKeeps, StartLiveKeeps, StopLiveKeeps DEF RecordFrames
    <2>2. CASE SaveDisplayedFrame
      BY <2>2, StartRecordingKeeps DEF SaveDisplayedFrame
    <2> QED BY <1>1, <2>1, <2>2, OpenRecordingKeeps, StartAnalysisKeeps,
               AcquireSpectrumImageKeeps,
               CancelRecordingKeeps, OpenSessionDirectoryKeeps, PreviewScanKeeps, ShutdownKeeps
            DEF Presses
  <1>2. CASE GuiThread
    BY <1>2, TickKeeps, PollPassKeeps, DrawPassKeeps, RefreshSourcesKeeps, PollsInVainKeeps,
       PollReportsKeeps, LiveStoppedKeeps, PreviewEndsKeeps, JoinLoadKeeps, JoinRecordingKeeps,
       CloseBrokerKeeps, CloseRunnersKeeps
       DEF GuiThread
  <1>3. ASSUME NEW j \in JobIds, Works(j) \/ Fails(j) \/ WriterFails(j) \/ KeepFails(j) \/ Reclaims(j)
        PROVE  IInv'
    BY <1>3, IsGrantedKeeps, IsRefusedKeeps, FrameKeeps, FinishesKeeps, SeesCancelKeeps,
       KeepsKeeps, EnsureStartedKeeps, ConnectsKeeps, StartFailsKeeps, AnswersKeeps,
       CallFailsKeeps, FailsKeeps, WriterFailsKeeps, KeepFailsKeeps, ReclaimsKeeps
       DEF Works
  <1>4. ASSUME NEW t \in Watched, LoopEnds(t) \/ StrangerLeases(t) PROVE IInv'
    BY <1>4, LoopEndsKeeps, StrangerLeasesKeeps
  <1>5. CASE UNCHANGED vars
    <2> USE <1>5 DEF vars, IInv
    <2>1. TypeOK'
      BY DEF TypeOK
    <2>2. Handled' /\ Tasked' /\ Awaited'
      BY DEF Handled, Tasked, Awaited
    <2>3. Filed' /\ Leased'
      BY DEF Filed, Leased, IsRunning
    <2>4. Drawn' /\ LastDrawIsWhole'
      BY DEF Drawn, LastDrawIsWhole
    <2>5. Joined'
      BY DEF Joined, WorkersAreReaped, IsRunning
    <2> QED BY <2>1, <2>2, <2>3, <2>4, <2>5
  <1> QED BY <1>1, <1>2, <1>3, <1>4, <1>5, WorkerDiesKeeps, StrangerReleasesKeeps DEF Next

\* The invariant of the other theorems: which worker each attribute holds, and
\* what a worker may still do when it is let go of.
THEOREM WindowIsKept == Spec => []IInv
  BY InitKeepsIt, NextKeepsIt, PTL DEF Spec

\* Every variable keeps its type.
THEOREM TypeCorrect == Spec => []TypeOK
  <1>1. IInv => TypeOK
    BY DEF IInv
  <1> QED BY <1>1, WindowIsKept, PTL

\* However presses, polls and workers fall, at most one recording is at work
\* and its file is in the directory the window shows.
THEOREM RecordingsAreWatched == Spec => []RecordsWhereItShows
  <1>1. IInv => RecordsWhereItShows
    <2> SUFFICES ASSUME IInv PROVE RecordsWhereItShows
      OBVIOUS
    <2> DEFINE busy == {j \in 1..Len(jobs) : jobs[j].kind = "recording" /\ IsRunning(j)}
    <2>1. busy \subseteq {held["recording"]}
      BY DEF IInv, Handled, IsRunning
    <2>2. IsFiniteSet({held["recording"]}) /\ Cardinality({held["recording"]}) = 1
      BY FS_Singleton
    <2>3. Cardinality(busy) <= 1
      BY <2>1, <2>2, FS_Subset
    <2>4. \A j \in busy : jobs[j].folder = folder
      BY DEF IInv, Filed
    <2> QED BY <2>3, <2>4 DEF RecordsWhereItShows
  <1> QED BY <1>1, WindowIsKept, PTL

\* A lease outlives its worker only with a recording that ended inside its
\* series: while it is in hand, or for as long as its error keeps it.
THEOREM LeasesAreOwned == Spec => []LeaseHasAnOwner
  <1>1. IInv => LeaseHasAnOwner
    BY DEF IInv, Leased, LeaseHasAnOwner, IsRunning
  <1> QED BY <1>1, WindowIsKept, PTL

\* The last drawing of a pass that was reported as saved shows all of it, though
\* the poll believes an answer it was given before it drew.
THEOREM PassesAreDrawnWhole == Spec => []LastDrawIsWhole
  <1>1. IInv => LastDrawIsWhole
    BY DEF IInv
  <1> QED BY <1>1, WindowIsKept, PTL

\* Where workers end within the time shutdown() gives them, a closed window has
\* no recording at work or half written, and no process but an analysis's.
THEOREM ClosesClean ==
    ASSUME JoinsInTime PROVE Spec => []LeavesNothing
  <1>1. IInv => Len(jobs) \in Nat
    BY LenProperties DEF IInv, TypeOK
  <1>2. IInv => LeavesNothing
    <2> SUFFICES ASSUME IInv, gui = "gone", NEW j \in 1..Len(jobs), jobs[j].kind = "recording"
                 PROVE  jobs[j].file # "open" /\ ~IsRunning(j)
      BY DEF IInv, Joined, LeavesNothing, ClosedRecordingsAreWhole
    <2>1. j # 0
      BY <1>1
    <2>2. ~IsRunning(j)
      BY DEF IInv, Joined
    <2>3. jobs[j].at = "ended"
      BY <2>1, <2>2 DEF IsRunning
    <2> QED BY <2>2, <2>3 DEF IInv, Tasked
  <1> QED BY <1>2, WindowIsKept, PTL

================================================================================
