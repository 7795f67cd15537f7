----------------------------- MODULE Dashboard_proofs -----------------------------
(***************************************************************************)
(* Theorems about Session and Dashboard, for any number of jobs of each    *)
(* kind, signals, frames, names and faults.                                *)
(***************************************************************************)
EXTENDS Dashboard, SequenceTheorems, FiniteSetTheorems, WellFoundedInduction, TLAPS

\* The types of what the variables hold.
Files == [item : Recorders \X Streams, frames : Seq(Frames), shape : Shapes, locked : BOOLEAN]
Works == [at : Ats, stream : Streams \cup {NoStream}, single : BOOLEAN, stamp : Stamps,
          index : 0..MaxIndex, number : 1..MaxIndex + 1, attempt : 1..MaxAttempt,
          signal : Signals, frame : Frames \cup {<<>>}, sinks : Seq(Names), closed : Nat,
          taken : Seq(Frames), raised : {"no", "write", "stream", "close"}]
Jobs == [at : {"new", "lease", "series", "over", "ended", "gone"}, stored : BOOLEAN,
         started : Stamps, counts : [Signals -> 0..MaxFrames], kept : [Signals -> Seq(Frames)],
         failed : BOOLEAN, cancelled : BOOLEAN]
Datums == [count : 1..MaxFrames, frames : Seq(Frames), path : Names \cup {NoPath}]
Entries == [stream : Streams, started : Stamps,
            signals : UNION {[D -> Datums] : D \in SUBSET Signals}]
Savings == [at : {"new", "next", "writing", "ended"}, entries : Seq(Entries), entry : Nat,
            signal : Signals, left : Seq(Frames), index : 0..MaxIndex]

Typed ==
    /\ DOMAIN disk \subseteq Names /\ disk \in [DOMAIN disk -> Files]
    /\ work \in [Recorders -> Works]
    /\ job \in [Acquirers \cup Viewers -> Jobs]
    /\ saver \in [Savers -> Savings]
    /\ log \in Seq(Entries)
    /\ lease \in Acquirers \cup {Nobody}
    /\ now \in Stamps /\ looks \in 0..MaxActs /\ faults \in 0..MaxFaults

----------------------------------------------------------------------------
(* A recorder and its files *)

Feeding(r) == work[r].at \in {"pull", "claim", "write"}
Over(r) == work[r].at \in {"close", "done"}
\* Recorder r has a frame in hand.
Carries(r) == work[r].at = "write" \/ (work[r].at = "claim" /\ ~work[r].single)

Mine(r) == {work[r].sinks[i] : i \in 1..Len(work[r].sinks)}
\* The frames of signal d on disk, and with the one in hand.
Got(r, d) ==
    IF SinkOf(r, d) = {} THEN 0
    ELSE Len(disk[work[r].sinks[CHOOSE i \in SinkOf(r, d) : TRUE]].frames)
Due(r, d) == Got(r, d) + IF Carries(r) /\ work[r].frame.signal = d THEN 1 ELSE 0

\* The first k frames of a signal.
Series(stream, signal, k) ==
    [i \in 1..k |-> [stream |-> stream, signal |-> signal, place |-> i]]

\* A file has the first frames of its signal, of the stream of its item.
Filled == \A n \in DOMAIN disk :
    disk[n].frames = Series(disk[n].item[2], n.signal, Len(disk[n].frames))

\* A recorder's files are its own, of its stream, one per signal.
Sunk(r) ==
    /\ \A n \in Mine(r) : n \in DOMAIN disk /\ disk[n].item[2] = work[r].stream
    /\ \A i, j \in 1..Len(work[r].sinks) :
         work[r].sinks[i].signal = work[r].sinks[j].signal => i = j
Apart == \A q, r \in Recorders : q # r => Mine(q) \cap Mine(r) = {}

\* How far the finally clause is, and what it makes of the files.
Shut(r) ==
    /\ work[r].at = "idle" => work[r] = Idle
    /\ Feeding(r) => work[r].closed = 0 /\ work[r].raised = "no"
    /\ work[r].at = "close" => work[r].closed < Len(work[r].sinks) /\ work[r].raised # "close"
    /\ work[r].at = "done" /\ work[r].raised # "close" => work[r].closed = Len(work[r].sinks)
    /\ \A i \in 1..Len(work[r].sinks) :
         LET file == disk[work[r].sinks[i]] IN
         IF i <= work[r].closed
         THEN ~file.locked /\ (file.shape = "final" \/ work[r].raised = "close")
         ELSE \/ file.shape = "growing" /\ file.locked
              \/ file.shape = "empty" /\ ~file.locked /\ file.frames = <<>>

\* The frame in hand is the next of its signal, whose file is there or asked for.
Carried(r) ==
    /\ Carries(r) =>
         LET f == work[r].frame IN
         /\ f \in Frames /\ f.stream = work[r].stream /\ f.signal = work[r].signal
         /\ f.place = Got(r, f.signal) + 1
    /\ work[r].at = "write" => SinkOf(r, work[r].signal) # {}
    /\ work[r].at = "claim" => SinkOf(r, work[r].signal) = {}
    /\ work[r].single => work[r].signal = NoSignal
    /\ work[r].single /\ work[r].at = "pull" => SinkOf(r, NoSignal) # {}

\* What was written of a signal is what is in its file, but for a frame whose
\* write raised.
Copied(r) ==
    /\ work[r].raised # "close" =>
         \A n \in Mine(r) : Content(disk[n].frames) \in Kept(r, n.signal)
    /\ \A f \in Content(work[r].taken) : SinkOf(r, f.signal) # {}

Recorded == \A r \in Recorders : Sunk(r) /\ Shut(r) /\ Carried(r) /\ Copied(r)

----------------------------------------------------------------------------
(* Listing *)

Marks == Nat \X Shapes
Rank(shape) == IF shape = "empty" THEN 0 ELSE IF shape = "growing" THEN 1 ELSE 2
Age(stamp) == 2 * stamp[1] + Rank(stamp[2])
\* A file had the stamp before it had the other.
AtMost(stamp, other) == stamp \in Marks /\ (stamp = other \/ Age(stamp) < Age(other))

Listed ==
    /\ DOMAIN cache \subseteq DOMAIN disk
    /\ \A n \in DOMAIN cache : AtMost(cache[n].stamp, Stamp(disk[n]))
    /\ look = NoLook \/ (look.name \in DOMAIN disk /\ AtMost(look.stamp, Stamp(disk[look.name])))
    /\ ListingIsOfItsStamp

----------------------------------------------------------------------------
(* The jobs *)

Acquires(j) ==
    /\ work[j].at # "idle" => ~work[j].single /\ work[j].stream = j
    /\ job[j].at \in {"new", "gone"} => work[j].at = "idle"
    /\ job[j].at = "ended" => work[j].at \in {"idle", "done"}
    /\ job[j].at \in {"lease", "series", "over"} =>
         IF job[j].stored THEN work[j].at # "idle"
         ELSE /\ work[j].at = "idle"
              /\ \A d \in Signals : job[j].kept[d] = Series(j, d, job[j].counts[d])
    /\ job[j].at \in {"lease", "series"} => ~job[j].failed
    /\ job[j].at = "lease" => \A d \in Signals : job[j].counts[d] = 0
    /\ job[j].stored /\ job[j].at = "lease" => work[j].at = "pull" /\ work[j].sinks = <<>>
    /\ job[j].stored /\ job[j].at \in {"lease", "series"} => Feeding(j) \/ work[j].raised # "no"
    /\ job[j].stored /\ job[j].at = "over" => Over(j)
    /\ job[j].stored /\ ~job[j].failed /\ job[j].at \in {"lease", "series", "over"} /\ work[j].raised = "no" =>
         \A d \in Signals : Due(j, d) = job[j].counts[d]

Records(v) ==
    /\ work[v].at # "idle" => work[v].single /\ work[v].stream = v
    /\ job[v].at \in {"new", "series", "over", "gone"}
    /\ job[v].at \in {"new", "gone"} => work[v].at = "idle"
    /\ job[v].at = "series" => work[v].at # "idle"
    /\ job[v].at = "series" /\ work[v].raised = "no" =>
         Feeding(v) /\ Due(v, NoSignal) = job[v].counts[NoSignal]
    /\ job[v].at = "over" => Over(v)

\* What an entry holds in memory is whole.
Whole(entry) == \A d \in DOMAIN entry.signals :
    LET s == entry.signals[d] IN
    InMemory(s) => s.frames = Series(entry.stream, d, s.count)

Alike(entry, other) ==
    /\ entry.stream = other.stream /\ DOMAIN entry.signals = DOMAIN other.signals
    /\ \A d \in DOMAIN entry.signals : entry.signals[d].count = other.signals[d].count

\* The entries of a save are those of the log, but for what is stored since.
Snapshot(s) ==
    /\ Len(saver[s].entries) <= Len(log)
    /\ \A e \in 1..Len(saver[s].entries) :
         Alike(saver[s].entries[e], log[e]) /\ Whole(saver[s].entries[e])

\* A save is at a signal that is pending in its snapshot, and feeds what is
\* left of it.
Writing(s) ==
    LET e == saver[s].entry  d == saver[s].signal  left == saver[s].left
        entry == saver[s].entries[e]
        n == entry.signals[d].count
    IN
    /\ e \in 1..Len(saver[s].entries) /\ d \in DOMAIN entry.signals
    /\ ~work[s].single /\ work[s].at # "idle" /\ work[s].stream = entry.stream
    /\ \A i \in 1..Len(work[s].sinks) : work[s].sinks[i].signal = d
    /\ Carries(s) => work[s].frame.signal = d
    /\ Len(left) <= n
    /\ \A i \in 1..Len(left) :
         left[i] = [stream |-> entry.stream, signal |-> d, place |-> n - Len(left) + i]
    /\ work[s].raised = "no" => Due(s, d) + Len(left) = n
    /\ Over(s) => work[s].sinks # <<>> /\ (work[s].raised = "no" => left = <<>>)

Saves(s) ==
    /\ saver[s].at # "writing" => work[s].at = "idle"
    /\ saver[s].at \in {"next", "writing"} => Snapshot(s)
    /\ saver[s].at = "writing" => Writing(s)

\* What an entry has on disk is whole, and nobody's any more.
Stored(entry) == \A d \in DOMAIN entry.signals :
    LET s == entry.signals[d] IN
    ~InMemory(s) =>
        /\ s.path \in DOMAIN disk /\ disk[s.path].shape = "final"
        /\ disk[s.path].frames = Series(entry.stream, d, s.count)
        /\ \A r \in Recorders : s.path \notin Mine(r)

Settled == \A e \in 1..Len(log) : Stored(log[e])
Held == \A e \in 1..Len(log) : Whole(log[e])

Jobbed ==
    /\ \A j \in Acquirers : Acquires(j)
    /\ \A v \in Viewers : Records(v)
    /\ \A s \in Savers : Saves(s)

SInv == Filled /\ Apart /\ Recorded /\ Listed
IInv == Typed /\ SInv /\ Jobbed /\ Settled /\ Held

----------------------------------------------------------------------------
(* Numbers and names *)

USE BoundsAssumption

\* A set of naturals has a least element, and one below a bound a greatest.
LEMMA HasLeast ==
    ASSUME NEW S \in SUBSET Nat, S # {}
    PROVE  \E i \in S : \A j \in S : i <= j
  <1> DEFINE Less == OpToRel(<, Nat)
  <1>1. PICK i \in S : \A j \in S : <<j, i>> \notin Less
    <2>1. IsWellFoundedOn(Less, Nat)
      BY NatLessThanWellFounded
    <2> HIDE DEF Less
    <2> QED BY <2>1, WFMin
  <1>2. \A j \in S : ~(j < i)
    BY <1>1 DEF OpToRel
  <1> HIDE DEF Less
  <1> QED BY <1>2

LEMMA HasGreatest ==
    ASSUME NEW N \in Nat, NEW S \in SUBSET (1..N), S # {}
    PROVE  \E i \in S : \A j \in S : j <= i
  <1> DEFINE Below == {N - i : i \in S}
  <1>1. \A i \in S : i \in 1..N /\ N - i \in Nat
    OBVIOUS
  <1>2. Below \in SUBSET Nat /\ Below # {}
    BY <1>1
  <1>3. PICK x \in Below : \A y \in Below : x <= y
    BY <1>2, HasLeast
  <1>4. PICK i \in S : x = N - i
    OBVIOUS
  <1> SUFFICES ASSUME NEW j \in S PROVE j <= i
    OBVIOUS
  <1>5. N - j \in Below
    OBVIOUS
  <1>6. x <= N - j
    BY <1>3, <1>5
  <1> HIDE DEF Below
  <1> QED BY <1>1, <1>4, <1>6

\* The next number is one past one that is on disk.
LEMMA NextIndexType ==
    ASSUME DOMAIN disk \subseteq Names
    PROVE  NextIndex \in 1..MaxIndex + 1
  <1>1. CASE DOMAIN disk = {}
    BY <1>1 DEF NextIndex
  <1>2. CASE DOMAIN disk # {}
    <2> DEFINE S == {n.index : n \in DOMAIN disk}
    <2>1. S \in SUBSET (1..MaxIndex) /\ S # {}
      BY <1>2 DEF Names
    <2>2. \E i \in S : \A j \in S : j <= i
      <3> HIDE DEF S
      <3> QED BY <2>1, HasGreatest
    <2>3. \E i \in S : \A n \in DOMAIN disk : n.index <= i
      BY <2>2
    <2>4. (CHOOSE i \in S : \A n \in DOMAIN disk : n.index <= i) \in S
      BY <2>3
    <2>5. (CHOOSE i \in S : \A n \in DOMAIN disk : n.index <= i) \in 1..MaxIndex
      BY <2>1, <2>4
    <2> QED BY <1>2, <2>5 DEF NextIndex
  <1> QED BY <1>1, <1>2

----------------------------------------------------------------------------
(* What the steps of a recorder do to it and to its files *)

\* Recorder r alone moves, and these fields of it do not.
Moves(r) ==
    /\ work' \in [Recorders -> Works]
    /\ \A q \in Recorders \ {r} : work'[q] = work[q]
Retains(r, fields) == \A f \in fields : work'[r][f] = work[r][f]

LEMMA Moved ==
    ASSUME Typed, NEW r \in Recorders, NEW w \in Works, work' = [work EXCEPT ![r] = w]
    PROVE  Moves(r) /\ work'[r] = w
  BY DEF Moves, Typed

\* A record stays one when a field is given a value of its type.
LEMMA WorksExcept ==
    \A w \in Works :
        /\ \A x \in Ats : [w EXCEPT !.at = x] \in Works
        /\ \A x \in Streams \cup {NoStream} : [w EXCEPT !.stream = x] \in Works
        /\ \A x \in BOOLEAN : [w EXCEPT !.single = x] \in Works
        /\ \A x \in Stamps : [w EXCEPT !.stamp = x] \in Works
        /\ \A x \in 0..MaxIndex : [w EXCEPT !.index = x] \in Works
        /\ \A x \in 1..MaxIndex + 1 : [w EXCEPT !.number = x] \in Works
        /\ \A x \in 1..MaxAttempt : [w EXCEPT !.attempt = x] \in Works
        /\ \A x \in Signals : [w EXCEPT !.signal = x] \in Works
        /\ \A x \in Frames \cup {<<>>} : [w EXCEPT !.frame = x] \in Works
        /\ \A x \in Seq(Names) : [w EXCEPT !.sinks = x] \in Works
        /\ \A x \in Nat : [w EXCEPT !.closed = x] \in Works
        /\ \A x \in Seq(Frames) : [w EXCEPT !.taken = x] \in Works
        /\ \A x \in {"no", "write", "stream", "close"} : [w EXCEPT !.raised = x] \in Works
  <1> SUFFICES ASSUME NEW w \in Works
               PROVE  /\ \A x \in Ats : [w EXCEPT !.at = x] \in Works
                      /\ \A x \in Streams \cup {NoStream} : [w EXCEPT !.stream = x] \in Works
                      /\ \A x \in BOOLEAN : [w EXCEPT !.single = x] \in Works
                      /\ \A x \in Stamps : [w EXCEPT !.stamp = x] \in Works
                      /\ \A x \in 0..MaxIndex : [w EXCEPT !.index = x] \in Works
                      /\ \A x \in 1..MaxIndex + 1 : [w EXCEPT !.number = x] \in Works
                      /\ \A x \in 1..MaxAttempt : [w EXCEPT !.attempt = x] \in Works
                      /\ \A x \in Signals : [w EXCEPT !.signal = x] \in Works
                      /\ \A x \in Frames \cup {<<>>} : [w EXCEPT !.frame = x] \in Works
                      /\ \A x \in Seq(Names) : [w EXCEPT !.sinks = x] \in Works
                      /\ \A x \in Nat : [w EXCEPT !.closed = x] \in Works
                      /\ \A x \in Seq(Frames) : [w EXCEPT !.taken = x] \in Works
                      /\ \A x \in {"no", "write", "stream", "close"} : [w EXCEPT !.raised = x] \in Works
    OBVIOUS
  <1>1. /\ \A x \in Ats : [w EXCEPT !.at = x] \in Works
        /\ \A x \in Streams \cup {NoStream} : [w EXCEPT !.stream = x] \in Works
        /\ \A x \in BOOLEAN : [w EXCEPT !.single = x] \in Works
    BY DEF Works
  <1>2. /\ \A x \in Stamps : [w EXCEPT !.stamp = x] \in Works
        /\ \A x \in 0..MaxIndex : [w EXCEPT !.index = x] \in Works
        /\ \A x \in 1..MaxIndex + 1 : [w EXCEPT !.number = x] \in Works
    BY DEF Works
  <1>3. /\ \A x \in 1..MaxAttempt : [w EXCEPT !.attempt = x] \in Works
        /\ \A x \in Signals : [w EXCEPT !.signal = x] \in Works
        /\ \A x \in Frames \cup {<<>>} : [w EXCEPT !.frame = x] \in Works
    BY DEF Works
  <1>4. /\ \A x \in Seq(Names) : [w EXCEPT !.sinks = x] \in Works
        /\ \A x \in Nat : [w EXCEPT !.closed = x] \in Works
        /\ \A x \in Seq(Frames) : [w EXCEPT !.taken = x] \in Works
        /\ \A x \in {"no", "write", "stream", "close"} : [w EXCEPT !.raised = x] \in Works
    BY DEF Works
  <1> QED BY <1>1, <1>2, <1>3, <1>4

LEMMA First == 1 \in 1..MaxAttempt /\ 1 \in 1..MaxIndex + 1
  OBVIOUS

LEMMA IdleType == Idle \in Works
  BY DEF Idle, Works, Ats, Signals, Stamps, NoIndex

LEMMA IdleIs ==
    /\ Idle.at = "idle" /\ Idle.single = FALSE /\ Idle.signal = NoSignal /\ Idle.sinks = <<>>
    /\ Idle.closed = 0 /\ Idle.taken = <<>> /\ Idle.raised = "no"
  BY DEF Idle

LEMMA BeginsMoves ==
    ASSUME Typed, NEW r \in Recorders, NEW stream \in Streams, NEW stamp \in Stamps,
           NEW index \in 0..MaxIndex, Begins(r, stream, stamp, index)
    PROVE  /\ Moves(r)
           /\ work'[r].at = "pull" /\ work'[r].stream = stream /\ work'[r].single = FALSE
           /\ work'[r].sinks = <<>> /\ work'[r].closed = 0 /\ work'[r].taken = <<>>
           /\ work'[r].raised = "no"
  <1> DEFINE w == [Idle EXCEPT !.at = "pull", !.stream = stream, !.stamp = stamp, !.index = index]
  <1>1. w \in Works
    BY IdleType, WorksExcept DEF Ats
  <1>2. work' = [work EXCEPT ![r] = w]
    BY DEF Begins
  <1> HIDE DEF w
  <1>3. Moves(r) /\ work'[r] = w
    BY <1>1, <1>2, Moved
  <1> QED BY <1>3, IdleType, IdleIs DEF w, Works

LEMMA BeginsOneMoves ==
    ASSUME Typed, NEW r \in Recorders, NEW stream \in Streams, NEW stamp \in Stamps,
           BeginsOne(r, stream, stamp)
    PROVE  /\ Moves(r)
           /\ work'[r].at = "claim" /\ work'[r].stream = stream /\ work'[r].single = TRUE
           /\ work'[r].signal = NoSignal /\ work'[r].sinks = <<>> /\ work'[r].closed = 0
           /\ work'[r].taken = <<>> /\ work'[r].raised = "no"
  <1> DEFINE w == [Idle EXCEPT !.at = "claim", !.stream = stream, !.single = TRUE,
                               !.stamp = stamp, !.number = NextIndex]
  <1>1. w \in Works
    BY IdleType, WorksExcept, NextIndexType DEF Typed, Ats
  <1>2. work' = [work EXCEPT ![r] = w]
    BY DEF BeginsOne
  <1> HIDE DEF w
  <1>3. Moves(r) /\ work'[r] = w
    BY <1>1, <1>2, Moved
  <1> QED BY <1>3, IdleType, IdleIs DEF w, Works

LEMMA OffersMoves ==
    ASSUME Typed, NEW r \in Recorders, NEW f \in Frames, Offers(r, f)
    PROVE  /\ Moves(r)
           /\ Retains(r, {"stream", "single", "sinks", "closed", "taken", "raised"})
           /\ work'[r].at = IF SinkOf(r, f.signal) # {} THEN "write" ELSE "claim"
           /\ work'[r].frame = f /\ work'[r].signal = f.signal
  <1>1. work[r] \in Works
    BY DEF Typed
  <1> DEFINE at == IF SinkOf(r, f.signal) # {} THEN "write" ELSE "claim"
             k == IF work[r].index = NoIndex THEN NextIndex ELSE work[r].index
             w == [work[r] EXCEPT !.at = at, !.frame = f, !.signal = f.signal,
                                  !.number = k, !.attempt = 1]
  <1>2. w \in Works
    <2>1. k \in 1..MaxIndex + 1
      BY <1>1, NextIndexType DEF Typed, Works, NoIndex
    <2>2. f.signal \in Signals /\ at \in Ats
      BY DEF Frames, Ats
    <2> HIDE DEF k, at
    <2> QED BY <1>1, <2>1, <2>2, WorksExcept, First
  <1>3. work' = [work EXCEPT ![r] = w]
    BY DEF Offers, Typed
  <1> HIDE DEF w
  <1>4. Moves(r) /\ work'[r] = w
    BY <1>2, <1>3, Moved
  <1> QED BY <1>1, <1>4 DEF w, Works, Retains

LEMMA TriesAnotherMoves ==
    ASSUME Typed, NEW r \in Recorders, TriesAnother(r)
    PROVE  /\ Moves(r)
           /\ Retains(r, {"at", "stream", "single", "signal", "frame", "sinks", "closed", "taken", "raised"})
           /\ work[r].at = "claim"
  <1>1. work[r] \in Works
    BY DEF Typed
  <1>2. CASE work[r].index # NoIndex
    <2> DEFINE w == [work[r] EXCEPT !.attempt = work[r].attempt + 1]
    <2>1. work' = [work EXCEPT ![r] = w]
      BY <1>2 DEF TriesAnother
    <2>2. w \in Works
      <3>1. work'[r].attempt = work[r].attempt + 1
        BY <1>1, <2>1 DEF Typed, Works
      <3>2. work[r].attempt + 1 \in 1..MaxAttempt
        BY <1>1, <3>1 DEF TriesAnother, Works
      <3> QED BY <1>1, <3>2, WorksExcept
    <2>3. Moves(r) /\ work'[r] = w
      <3> HIDE DEF w
      <3> QED BY <2>1, <2>2, Moved
    <2> QED BY <1>1, <2>3 DEF Works, Retains, TriesAnother
  <1>3. CASE work[r].index = NoIndex
    <2> DEFINE w == [work[r] EXCEPT !.number = work[r].number + 1]
    <2>1. work' = [work EXCEPT ![r] = w]
      BY <1>3 DEF TriesAnother
    <2>2. w \in Works
      <3>1. work'[r].number = work[r].number + 1
        BY <1>1, <2>1 DEF Typed, Works
      <3>2. work[r].number + 1 \in 1..MaxIndex + 1
        BY <1>1, <3>1 DEF TriesAnother, Works
      <3> QED BY <1>1, <3>2, WorksExcept
    <2>3. Moves(r) /\ work'[r] = w
      <3> HIDE DEF w
      <3> QED BY <2>1, <2>2, Moved
    <2> QED BY <1>1, <2>3 DEF Works, Retains, TriesAnother
  <1> QED BY <1>2, <1>3

LEMMA ClaimsMoves ==
    ASSUME Typed, NEW r \in Recorders, Claims(r)
    PROVE  /\ Moves(r)
           /\ Retains(r, {"stream", "single", "signal", "frame", "closed", "taken", "raised"})
           /\ work'[r].at = IF work[r].single THEN "pull" ELSE "write"
           /\ work'[r].sinks = Append(work[r].sinks, Candidate(r))
           /\ Candidate(r) \in Names
  <1>1. work[r] \in Works
    BY DEF Typed
  <1> DEFINE at == IF work[r].single THEN "pull" ELSE "write"
             w == [work[r] EXCEPT !.at = at, !.index = work[r].number,
                                  !.sinks = Append(work[r].sinks, Candidate(r))]
  <1>0. Candidate(r) \in Names /\ work[r].number \in 0..MaxIndex
    BY <1>1 DEF Claims, Candidate, Works, Names
  <1>2. w \in Works
    <2>1. at \in Ats
      BY DEF Ats
    <2>2. Append(work[r].sinks, Candidate(r)) \in Seq(Names)
      BY <1>0, <1>1 DEF Works
    <2> HIDE DEF at
    <2> QED BY <1>0, <1>1, <2>1, <2>2, WorksExcept
  <1>3. work' = [work EXCEPT ![r] = w]
    BY DEF Claims, Typed
  <1> HIDE DEF w
  <1>4. Moves(r) /\ work'[r] = w
    BY <1>2, <1>3, Moved
  <1> QED BY <1>0, <1>1, <1>4 DEF w, Works, Retains

LEMMA WritesMoves ==
    ASSUME Typed, NEW r \in Recorders, work[r].frame \in Frames, Writes(r)
    PROVE  /\ Moves(r)
           /\ Retains(r, {"stream", "single", "signal", "frame", "sinks", "closed", "raised"})
           /\ work'[r].at = "pull"
           /\ work'[r].taken = Append(work[r].taken, work[r].frame)
  <1>1. work[r] \in Works
    BY DEF Typed
  <1> DEFINE w == [work[r] EXCEPT !.at = "pull", !.taken = Append(work[r].taken, work[r].frame)]
  <1>2. w \in Works
    <2>1. Append(work[r].taken, work[r].frame) \in Seq(Frames)
      BY <1>1 DEF Works
    <2> QED BY <1>1, <2>1, WorksExcept DEF Ats
  <1>3. work' = [work EXCEPT ![r] = w]
    BY DEF Writes, Typed
  <1> HIDE DEF w
  <1>4. Moves(r) /\ work'[r] = w
    BY <1>2, <1>3, Moved
  <1> QED BY <1>1, <1>4 DEF w, Works, Retains

LEMMA WriteRaisesMoves ==
    ASSUME Typed, NEW r \in Recorders, WriteRaises(r)
    PROVE  /\ Moves(r)
           /\ Retains(r, {"stream", "single", "signal", "frame", "sinks", "closed", "taken"})
           /\ work'[r].at = "close" /\ work'[r].raised = "write"
  <1>1. work[r] \in Works
    BY DEF Typed
  <1> DEFINE w == [work[r] EXCEPT !.at = "close", !.raised = "write"]
  <1>2. w \in Works
    BY <1>1, WorksExcept DEF Ats
  <1>3. work' = [work EXCEPT ![r] = w]
    BY DEF WriteRaises, Typed
  <1> HIDE DEF w
  <1>4. Moves(r) /\ work'[r] = w
    BY <1>2, <1>3, Moved
  <1> QED BY <1>1, <1>4 DEF w, Works, Retains

LEMMA StreamStopsMoves ==
    ASSUME Typed, NEW r \in Recorders, NEW raises \in BOOLEAN, raises => ~work[r].single, StreamStops(r, raises)
    PROVE  /\ Moves(r)
           /\ Retains(r, {"stream", "single", "signal", "frame", "sinks", "closed", "taken"})
           /\ work'[r].at = IF work[r].sinks = <<>> THEN "done" ELSE "close"
           /\ work'[r].raised = IF raises THEN "stream" ELSE "no"
  <1>1. work[r] \in Works
    BY DEF Typed
  <1> DEFINE at == IF work[r].sinks = <<>> THEN "done" ELSE "close"
             raised == IF raises THEN "stream" ELSE "no"
             w == [work[r] EXCEPT !.at = at, !.raised = raised]
  <1>2. w \in Works
    <2>1. at \in Ats /\ raised \in {"no", "write", "stream", "close"}
      BY DEF Ats
    <2> HIDE DEF at, raised
    <2> QED BY <1>1, <2>1, WorksExcept
  <1>3. work' = [work EXCEPT ![r] = w]
    BY DEF StreamStops, Typed
  <1> HIDE DEF w
  <1>4. Moves(r) /\ work'[r] = w
    BY <1>2, <1>3, Moved
  <1> QED BY <1>1, <1>4 DEF w, Works, Retains

LEMMA ClosesMoves ==
    ASSUME Typed, NEW r \in Recorders, Closes(r)
    PROVE  /\ Moves(r)
           /\ Retains(r, {"stream", "single", "signal", "frame", "sinks", "taken", "raised"})
           /\ work'[r].at = IF work[r].closed + 1 = Len(work[r].sinks) THEN "done" ELSE "close"
           /\ work'[r].closed = work[r].closed + 1
  <1>1. work[r] \in Works
    BY DEF Typed
  <1> DEFINE at == IF work[r].closed + 1 = Len(work[r].sinks) THEN "done" ELSE "close"
             w == [work[r] EXCEPT !.closed = work[r].closed + 1, !.at = at]
  <1>2. w \in Works
    <2>1. at \in Ats /\ work[r].closed + 1 \in Nat
      BY <1>1 DEF Ats, Works
    <2> HIDE DEF at
    <2> QED BY <1>1, <2>1, WorksExcept
  <1>3. work' = [work EXCEPT ![r] = w]
    BY <1>1 DEF Closes, Typed, Works
  <1> HIDE DEF w
  <1>4. Moves(r) /\ work'[r] = w
    BY <1>2, <1>3, Moved
  <1> QED BY <1>1, <1>4 DEF w, Works, Retains

LEMMA CloseRaisesMoves ==
    ASSUME Typed, NEW r \in Recorders, CloseRaises(r)
    PROVE  /\ Moves(r)
           /\ Retains(r, {"stream", "single", "signal", "frame", "sinks", "taken"})
           /\ work'[r].at = "done" /\ work'[r].raised = "close"
           /\ work'[r].closed = work[r].closed + 1
  <1>1. work[r] \in Works
    BY DEF Typed
  <1> DEFINE w == [work[r] EXCEPT !.closed = work[r].closed + 1, !.at = "done", !.raised = "close"]
  <1>2. w \in Works
    <2>1. work[r].closed + 1 \in Nat
      BY <1>1 DEF Works
    <2> QED BY <1>1, <2>1, WorksExcept DEF Ats
  <1>3. work' = [work EXCEPT ![r] = w]
    BY DEF CloseRaises, Typed
  <1> HIDE DEF w
  <1>4. Moves(r) /\ work'[r] = w
    BY <1>2, <1>3, Moved
  <1> QED BY <1>1, <1>4 DEF w, Works, Retains


----------------------------------------------------------------------------
(* A step of one recorder leaves the others and their files alone *)

\* File n is what it was, is older, or was let go of.
Later(n) ==
    \/ disk'[n] = disk[n]
    \/ Age(Stamp(disk[n])) < Age(Stamp(disk'[n]))
    \/ Stamp(disk'[n]) = Stamp(disk[n]) /\ disk[n].locked

Aside(r) ==
    /\ work' \in [Recorders -> Works] /\ \A q \in Recorders \ {r} : work'[q] = work[q]
    /\ DOMAIN disk' \subseteq Names /\ disk' \in [DOMAIN disk' -> Files]
    /\ DOMAIN disk \subseteq DOMAIN disk'
    /\ \A n \in DOMAIN disk : Later(n) /\ (n \notin Mine(r) => disk'[n] = disk[n])
    /\ \A n \in DOMAIN disk' \ DOMAIN disk : disk'[n].frames = <<>>
    /\ Mine(r)' \subseteq Mine(r) \cup (DOMAIN disk' \ DOMAIN disk)
    /\ UNCHANGED <<cache, look>>

\* The frames of a signal are those in the one file it has.
LEMMA GotIs ==
    ASSUME NEW r \in Recorders, NEW d, NEW i \in 1..Len(work[r].sinks), work[r].sinks[i].signal = d,
           \A j, k \in 1..Len(work[r].sinks) :
                work[r].sinks[j].signal = work[r].sinks[k].signal => j = k
    PROVE  Got(r, d) = Len(disk[work[r].sinks[i]].frames)
  <1>1. SinkOf(r, d) = {i}
    BY DEF SinkOf
  <1>2. (CHOOSE k \in SinkOf(r, d) : TRUE) = i
    BY <1>1
  <1> QED BY <1>1, <1>2 DEF Got

LEMMA GotIsThen ==
    ASSUME NEW r \in Recorders, NEW d, NEW i \in 1..Len(work'[r].sinks), work'[r].sinks[i].signal = d,
           \A j, k \in 1..Len(work'[r].sinks) :
                work'[r].sinks[j].signal = work'[r].sinks[k].signal => j = k
    PROVE  Got(r, d)' = Len(disk'[work'[r].sinks[i]].frames)
  <1>1. SinkOf(r, d)' = {i}
    BY DEF SinkOf
  <1>2. (CHOOSE k \in SinkOf(r, d)' : TRUE) = i
    BY <1>1
  <1> QED BY <1>1, <1>2 DEF Got

LEMMA GotNone ==
    ASSUME NEW r \in Recorders, NEW d
    PROVE  /\ SinkOf(r, d) = {} => Got(r, d) = 0
           /\ SinkOf(r, d)' = {} => Got(r, d)' = 0
  BY DEF Got

LEMMA OthersStay ==
    ASSUME Typed, Recorded, Apart, NEW r \in Recorders, Aside(r), NEW q \in Recorders \ {r}
    PROVE  /\ Sunk(q)' /\ Shut(q)' /\ Carried(q)' /\ Copied(q)'
           /\ Mine(q)' = Mine(q)
           /\ \A d : SinkOf(q, d)' = SinkOf(q, d) /\ Got(q, d)' = Got(q, d)
  <1>0. work'[q] = work[q] /\ work[q] \in Works /\ Sunk(q) /\ Shut(q) /\ Carried(q) /\ Copied(q)
    BY DEF Aside, Typed, Recorded
  <1>1. Mine(q)' = Mine(q)
    BY <1>0 DEF Mine
  <1>2. \A n \in Mine(q) : n \in DOMAIN disk /\ n \in DOMAIN disk' /\ disk'[n] = disk[n]
    BY <1>0 DEF Sunk, Aside, Apart
  <1>3. \A d : SinkOf(q, d)' = SinkOf(q, d)
    BY <1>0 DEF SinkOf
  <1>4. \A i \in 1..Len(work[q].sinks) : work[q].sinks[i] \in Mine(q)
    BY DEF Mine
  <1>5. Sunk(q)'
    BY <1>0, <1>1, <1>2 DEF Sunk
  <1>6. ASSUME NEW d PROVE Got(q, d)' = Got(q, d)
    <2>1. CASE SinkOf(q, d) = {}
      BY <1>3, <2>1, GotNone
    <2>2. CASE SinkOf(q, d) # {}
      <3>1. PICK i \in 1..Len(work[q].sinks) : work[q].sinks[i].signal = d
        BY <2>2 DEF SinkOf
      <3>2. Got(q, d) = Len(disk[work[q].sinks[i]].frames)
        BY <1>0, <3>1, GotIs DEF Sunk
      <3>3. Got(q, d)' = Len(disk'[work'[q].sinks[i]].frames)
        <4>1. i \in 1..Len(work'[q].sinks) /\ work'[q].sinks[i].signal = d
          BY <1>0, <3>1
        <4>2. \A j, k \in 1..Len(work'[q].sinks) :
                work'[q].sinks[j].signal = work'[q].sinks[k].signal => j = k
          BY <1>5 DEF Sunk
        <4> QED BY <4>1, <4>2, GotIsThen
      <3> QED BY <1>0, <1>2, <1>4, <3>2, <3>3
    <2> QED BY <2>1, <2>2
  <1>7. Shut(q)'
    BY <1>0, <1>2, <1>4 DEF Shut, Feeding
  <1>8. Carried(q)'
    BY <1>0, <1>3, <1>6 DEF Carried, Carries
  <1>9. Copied(q)'
    BY <1>0, <1>1, <1>2, <1>3 DEF Copied, Kept
  <1> QED BY <1>1, <1>3, <1>5, <1>6, <1>7, <1>8, <1>9

LEMMA ListedStays ==
    ASSUME Typed, Listed, DOMAIN disk \subseteq DOMAIN disk', disk' \in [DOMAIN disk' -> Files],
           \A n \in DOMAIN disk : Later(n), UNCHANGED <<cache, look>>
    PROVE  Listed'
  <1> USE DEF Listed
  <1>1. ASSUME NEW n \in DOMAIN disk
        PROVE  Age(Stamp(disk[n])) \in Nat /\ Age(Stamp(disk'[n])) \in Nat
               /\ Stamp(disk'[n]) \in Marks
    <2> SUFFICES ASSUME NEW f \in Files PROVE Age(Stamp(f)) \in Nat /\ Stamp(f) \in Marks
      BY DEF Typed
    <2>1. f.frames \in Seq(Frames) /\ f.shape \in Shapes
      BY DEF Files
    <2>2. Len(f.frames) \in Nat
      BY <2>1, LenProperties
    <2>3. Rank(f.shape) \in Nat
      BY DEF Rank
    <2> QED BY <2>1, <2>2, <2>3 DEF Age, Stamp, Marks
  <1>2. ASSUME NEW n \in DOMAIN disk, NEW stamp, AtMost(stamp, Stamp(disk[n]))
        PROVE  AtMost(stamp, Stamp(disk'[n]))
    <2> HIDE DEF Listed
    <2>1. CASE stamp = Stamp(disk[n])
      BY <1>1, <1>2, <2>1 DEF AtMost, Later
    <2>2. CASE Age(stamp) < Age(Stamp(disk[n]))
      <3>1. Age(stamp) \in Nat
        <4>1. stamp[1] \in Nat
          BY <1>2 DEF AtMost, Marks
        <4>2. Rank(stamp[2]) \in Nat
          BY DEF Rank
        <4> QED BY <4>1, <4>2 DEF Age
      <3>2. Age(Stamp(disk[n])) <= Age(Stamp(disk'[n]))
        BY <1>1 DEF Later
      <3> HIDE DEF Age
      <3> QED BY <1>1, <1>2, <2>2, <3>1, <3>2 DEF AtMost
    <2> QED BY <1>2, <2>1, <2>2 DEF AtMost
  <1>3. ListingIsOfItsStamp'
    <2> SUFFICES ASSUME NEW n \in DOMAIN cache, cache[n].stamp = Stamp(disk'[n])
                 PROVE  cache[n].said \in {Inspect(disk'[n]), InUse}
      BY DEF ListingIsOfItsStamp
    <2>1. n \in DOMAIN disk /\ AtMost(cache[n].stamp, Stamp(disk[n]))
      OBVIOUS
    <2>2. CASE disk'[n] = disk[n]
      BY <2>2 DEF ListingIsOfItsStamp
    <2>3. CASE Stamp(disk'[n]) = Stamp(disk[n]) /\ disk[n].locked
      BY <2>3 DEF ListingIsOfItsStamp, Inspect
    <2>4. ~(Age(Stamp(disk[n])) < Age(Stamp(disk'[n])))
      BY <1>1, <2>1 DEF AtMost
    <2> QED BY <2>1, <2>2, <2>3, <2>4 DEF Later
  <1> QED BY <1>2, <1>3

LEMMA StepKeeps ==
    ASSUME Typed, SInv, NEW r \in Recorders, Aside(r),
           \A n \in DOMAIN disk' : disk'[n].frames =
                Series(disk'[n].item[2], n.signal, Len(disk'[n].frames)),
           Sunk(r)', Shut(r)', Carried(r)', Copied(r)'
    PROVE  SInv'
  <1> USE DEF SInv
  <1>1. Filled'
    BY DEF Filled
  <1>2. Apart'
    <2> SUFFICES ASSUME NEW p \in Recorders, NEW q \in Recorders, p # q, NEW n \in Mine(p)', n \in Mine(q)'
                 PROVE  FALSE
      BY DEF Apart
    <2>1. ASSUME NEW o \in Recorders \ {r} PROVE Mine(o)' = Mine(o) /\ \A m \in Mine(o) : m \in DOMAIN disk
      BY OthersStay DEF Recorded, Sunk
    <2>2. Mine(r)' \subseteq Mine(r) \cup (DOMAIN disk' \ DOMAIN disk)
      BY DEF Aside
    <2> QED BY <2>1, <2>2 DEF Apart
  <1>3. Recorded'
    BY OthersStay DEF Recorded
  <1>4. Listed'
    BY ListedStays DEF Aside
  <1> QED BY <1>1, <1>2, <1>3, <1>4

----------------------------------------------------------------------------
(* Each step of a recorder keeps what the directory relies on *)

USE DEF Content, Feeding, Over, Carries

\* A step that touches no file ...
LEMMA QuietStep ==
    ASSUME Typed, SInv, NEW r \in Recorders, Moves(r), UNCHANGED <<disk, cache, look>>,
           Mine(r)' \subseteq Mine(r), Sunk(r)', Shut(r)', Carried(r)', Copied(r)'
    PROVE  SInv' /\ Aside(r)
  <1>1. Aside(r)
    BY DEF Aside, Moves, Later, Typed
  <1> QED BY <1>1, StepKeeps DEF SInv, Filled

\* ... nor the list of them.
LEMMA SinksStay ==
    ASSUME Typed, SInv, NEW r \in Recorders, Moves(r), Retains(r, {"stream", "sinks"}),
           DOMAIN disk' = DOMAIN disk,
           \A n \in DOMAIN disk : disk'[n].item = disk[n].item
    PROVE  /\ Sunk(r)' /\ Mine(r)' = Mine(r)
           /\ \A d : SinkOf(r, d)' = SinkOf(r, d)
  <1>1. work'[r].stream = work[r].stream /\ work'[r].sinks = work[r].sinks
    BY DEF Retains
  <1>2. Sunk(r)
    BY DEF SInv, Recorded
  <1>3. Mine(r)' = Mine(r)
    BY <1>1 DEF Mine
  <1>4. \A d : SinkOf(r, d)' = SinkOf(r, d)
    BY <1>1 DEF SinkOf
  <1>5. Sunk(r)'
    BY <1>1, <1>2, <1>3 DEF Sunk
  <1> QED BY <1>3, <1>4, <1>5

\* The frames of a signal are as many as before if its file has as many.
LEMMA GotStays ==
    ASSUME NEW r \in Recorders, Sunk(r), Sunk(r)', work'[r].sinks = work[r].sinks, NEW d,
           \A i \in 1..Len(work[r].sinks) : work[r].sinks[i].signal = d =>
                Len(disk'[work[r].sinks[i]].frames) = Len(disk[work[r].sinks[i]].frames)
    PROVE  Got(r, d)' = Got(r, d)
  <1>1. CASE SinkOf(r, d) = {}
    <2>1. SinkOf(r, d)' = {}
      BY <1>1 DEF SinkOf
    <2> QED BY <1>1, <2>1, GotNone
  <1>2. CASE SinkOf(r, d) # {}
    <2>1. PICK i \in 1..Len(work[r].sinks) : work[r].sinks[i].signal = d
      BY <1>2 DEF SinkOf
    <2>2. Got(r, d) = Len(disk[work[r].sinks[i]].frames)
      BY <2>1, GotIs DEF Sunk
    <2>3. i \in 1..Len(work'[r].sinks) /\ work'[r].sinks[i].signal = d
      BY <2>1
    <2>4. \A j, k \in 1..Len(work'[r].sinks) :
            work'[r].sinks[j].signal = work'[r].sinks[k].signal => j = k
      BY DEF Sunk
    <2>5. Got(r, d)' = Len(disk'[work'[r].sinks[i]].frames)
      BY <2>3, <2>4, GotIsThen
    <2> QED BY <2>1, <2>2, <2>5
  <1> QED BY <1>1, <1>2

\* Where no write has raised, the files have what was taken and no more.
LEMMA CopiedWhole ==
    ASSUME NEW r \in Recorders, Copied(r), work[r].raised = "no", NEW n \in Mine(r)
    PROVE  Content(disk[n].frames) = {f \in Content(work[r].taken) : f.signal = n.signal}
  <1> HIDE DEF Content
  <1> QED BY DEF Copied, Kept

LEMMA CopiedThen ==
    ASSUME NEW r \in Recorders,
           \A n \in Mine(r)' :
                Content(disk'[n].frames) = {f \in Content(work'[r].taken) : f.signal = n.signal},
           \A f \in Content(work'[r].taken) : SinkOf(r, f.signal)' # {}
    PROVE  Copied(r)'
  <1> HIDE DEF Content
  <1> QED BY DEF Copied, Kept

\* What was written is what is on disk, as long as neither changes.
LEMMA CopiedStays ==
    ASSUME NEW r \in Recorders, Copied(r), Mine(r)' = Mine(r), work'[r].taken = work[r].taken,
           \/ work[r].raised = "no"
           \/ work'[r].raised = "close"
           \/ work'[r].raised = work[r].raised /\ work'[r].frame = work[r].frame,
           \A d : SinkOf(r, d)' = SinkOf(r, d),
           \A n \in Mine(r) : disk'[n].frames = disk[n].frames
    PROVE  Copied(r)'
  <1> HIDE DEF Content
  <1>1. work'[r].raised # "close" =>
            \A n \in Mine(r)' : Content(disk'[n].frames) \in Kept(r, n.signal)'
    <2> SUFFICES ASSUME work'[r].raised # "close", NEW n \in Mine(r)
                 PROVE  Content(disk'[n].frames) \in Kept(r, n.signal)'
      OBVIOUS
    <2>1. CASE work[r].raised = "no"
      BY <2>1, CopiedWhole DEF Kept
    <2>2. CASE work'[r].raised = work[r].raised /\ work'[r].frame = work[r].frame
      BY <2>2 DEF Copied, Kept
    <2> QED BY <2>1, <2>2
  <1>2. \A f \in Content(work'[r].taken) : SinkOf(r, f.signal)' # {}
    BY DEF Copied
  <1> QED BY <1>1, <1>2 DEF Copied

LEMMA CopiedNone ==
    ASSUME NEW r \in Recorders, Mine(r)' = {}, work'[r].taken = <<>>
    PROVE  Copied(r)'
  <1>1. Content(work'[r].taken) = {}
    OBVIOUS
  <1> HIDE DEF Content
  <1> QED BY <1>1, CopiedThen

\* The places of a sequence that got one more.
LEMMA OneMore ==
    ASSUME NEW T, NEW s \in Seq(T), NEW x \in T, NEW t, t = Append(s, x)
    PROVE  /\ Len(s) \in Nat /\ Len(t) = Len(s) + 1 /\ t \in Seq(T)
           /\ 1..Len(t) = (1..Len(s)) \cup {Len(s) + 1} /\ Len(s) + 1 \notin 1..Len(s)
           /\ \A i \in 1..Len(s) : t[i] = s[i]
           /\ t[Len(s) + 1] = x
           /\ Content(t) = Content(s) \cup {x}
  <1>1. Len(s) \in Nat /\ Len(t) = Len(s) + 1 /\ t \in Seq(T)
    OBVIOUS
  <1>2. /\ \A i \in 1..Len(s) : t[i] = s[i]
        /\ t[Len(s) + 1] = x
    OBVIOUS
  <1>3. 1..Len(t) = (1..Len(s)) \cup {Len(s) + 1} /\ Len(s) + 1 \notin 1..Len(s)
    BY <1>1
  <1>4. Content(t) = Content(s) \cup {x}
    <2> DEFINE I == 1..Len(s)  J == 1..Len(t)  k == Len(s) + 1
    <2>1. J = I \cup {k} /\ (\A i \in I : t[i] = s[i]) /\ t[k] = x
      BY <1>2, <1>3
    <2>2. Content(s) = {s[i] : i \in I} /\ Content(t) = {t[i] : i \in J}
      OBVIOUS
    <2> HIDE DEF I, J, k, Content
    <2> QED BY <2>1, <2>2
  <1> QED BY <1>1, <1>2, <1>3, <1>4

LEMMA BeginsKeeps ==
    ASSUME Typed, SInv, NEW r \in Recorders, NEW stream \in Streams, NEW stamp \in Stamps,
           NEW index \in 0..MaxIndex, Begins(r, stream, stamp, index)
    PROVE  SInv' /\ Aside(r) /\ Moves(r)
  <1>1. Moves(r)
    BY BeginsMoves
  <1>2. /\ work'[r].at = "pull" /\ work'[r].sinks = <<>> /\ work'[r].closed = 0
        /\ work'[r].raised = "no" /\ work'[r].single = FALSE /\ work'[r].taken = <<>>
    BY BeginsMoves
  <1>3. Mine(r)' = {}
    BY <1>2 DEF Mine
  <1>4. UNCHANGED <<disk, cache, look>>
    BY DEF Begins
  <1>5. Sunk(r)' /\ Shut(r)' /\ Carried(r)' /\ Copied(r)'
    BY <1>2, <1>3, CopiedNone DEF Sunk, Shut, Carried
  <1> QED BY <1>1, <1>3, <1>4, <1>5, QuietStep

LEMMA BeginsOneKeeps ==
    ASSUME Typed, SInv, NEW r \in Recorders, NEW stream \in Streams, NEW stamp \in Stamps,
           BeginsOne(r, stream, stamp)
    PROVE  SInv' /\ Aside(r) /\ Moves(r)
  <1>1. Moves(r)
    BY BeginsOneMoves
  <1>2. /\ work'[r].at = "claim" /\ work'[r].sinks = <<>> /\ work'[r].closed = 0
        /\ work'[r].raised = "no" /\ work'[r].single = TRUE /\ work'[r].signal = NoSignal
        /\ work'[r].taken = <<>>
    BY BeginsOneMoves
  <1>3. Mine(r)' = {}
    BY <1>2 DEF Mine
  <1>4. UNCHANGED <<disk, cache, look>>
    BY DEF BeginsOne
  <1>5. Sunk(r)' /\ Shut(r)' /\ Carried(r)' /\ Copied(r)'
    BY <1>2, <1>3, CopiedNone DEF Sunk, Shut, Carried, SinkOf
  <1> QED BY <1>1, <1>3, <1>4, <1>5, QuietStep

LEMMA OffersKeeps ==
    ASSUME Typed, SInv, NEW r \in Recorders, NEW f \in Frames, Offers(r, f),
           f.stream = work[r].stream, f.place = Got(r, f.signal) + 1,
           work[r].single => f.signal = NoSignal
    PROVE  /\ SInv' /\ Aside(r) /\ Moves(r)
           /\ \A d : Got(r, d)' = Got(r, d)
  <1>0. Sunk(r) /\ Shut(r) /\ Carried(r) /\ Copied(r) /\ work[r].at = "pull"
    BY DEF SInv, Recorded, Offers
  <1>1. /\ Moves(r) /\ work'[r].frame = f /\ work'[r].signal = f.signal
        /\ work'[r].at = IF SinkOf(r, f.signal) # {} THEN "write" ELSE "claim"
        /\ Retains(r, {"stream", "single", "sinks", "closed", "taken", "raised"})
    BY OffersMoves
  <1>2. /\ work'[r].stream = work[r].stream /\ work'[r].single = work[r].single
        /\ work'[r].sinks = work[r].sinks /\ work'[r].closed = work[r].closed
        /\ work'[r].taken = work[r].taken /\ work'[r].raised = work[r].raised
    BY <1>1 DEF Retains
  <1>3. UNCHANGED <<disk, cache, look>>
    BY DEF Offers
  <1>4. Sunk(r)' /\ Mine(r)' = Mine(r) /\ \A d : SinkOf(r, d)' = SinkOf(r, d)
    BY <1>1, <1>3, SinksStay DEF Retains
  <1>5. \A d : Got(r, d)' = Got(r, d)
    BY <1>0, <1>2, <1>3, <1>4, GotStays
  <1>6. Shut(r)'
    BY <1>0, <1>1, <1>2, <1>3 DEF Shut
  <1>7. Carried(r)'
    BY <1>0, <1>1, <1>2, <1>4, <1>5 DEF Carried
  <1>8. Copied(r)'
    <2>1. work[r].raised = "no"
      BY <1>0 DEF Shut
    <2> QED BY <1>0, <1>2, <1>3, <1>4, <2>1, CopiedStays
  <1> QED BY <1>1, <1>3, <1>4, <1>5, <1>6, <1>7, <1>8, QuietStep

LEMMA TriesAnotherKeeps ==
    ASSUME Typed, SInv, NEW r \in Recorders, TriesAnother(r)
    PROVE  /\ SInv' /\ Aside(r) /\ Moves(r)
           /\ \A d : Got(r, d)' = Got(r, d)
  <1>0. Sunk(r) /\ Shut(r) /\ Carried(r) /\ Copied(r)
    BY DEF SInv, Recorded
  <1>1. /\ Moves(r) /\ work[r].at = "claim"
        /\ Retains(r, {"at", "stream", "single", "signal", "frame", "sinks", "closed", "taken", "raised"})
    BY TriesAnotherMoves
  <1>2. /\ work'[r].stream = work[r].stream /\ work'[r].single = work[r].single
        /\ work'[r].sinks = work[r].sinks /\ work'[r].closed = work[r].closed
        /\ work'[r].taken = work[r].taken /\ work'[r].raised = work[r].raised
        /\ work'[r].at = work[r].at /\ work'[r].frame = work[r].frame
        /\ work'[r].signal = work[r].signal
    BY <1>1 DEF Retains
  <1>3. UNCHANGED <<disk, cache, look>>
    BY DEF TriesAnother
  <1>4. Sunk(r)' /\ Mine(r)' = Mine(r) /\ \A d : SinkOf(r, d)' = SinkOf(r, d)
    BY <1>1, <1>3, SinksStay DEF Retains
  <1>5. \A d : Got(r, d)' = Got(r, d)
    BY <1>0, <1>2, <1>3, <1>4, GotStays
  <1>6. Shut(r)' /\ Carried(r)'
    BY <1>0, <1>1, <1>2, <1>3, <1>4, <1>5 DEF Shut, Carried
  <1>7. Copied(r)'
    BY <1>0, <1>2, <1>3, <1>4, CopiedStays
  <1> QED BY <1>1, <1>3, <1>4, <1>5, <1>6, <1>7, QuietStep

LEMMA StreamStopsKeeps ==
    ASSUME Typed, SInv, NEW r \in Recorders, NEW raises \in BOOLEAN, raises => ~work[r].single,
           StreamStops(r, raises)
    PROVE  /\ SInv' /\ Aside(r) /\ Moves(r)
           /\ \A d : Got(r, d)' = Got(r, d)
  <1>0. Sunk(r) /\ Shut(r) /\ Carried(r) /\ Copied(r) /\ work[r].at = "pull" /\ work[r] \in Works
    BY DEF SInv, Recorded, StreamStops, Typed
  <1>1. /\ Moves(r) /\ work'[r].at = IF work[r].sinks = <<>> THEN "done" ELSE "close"
        /\ work'[r].raised = IF raises THEN "stream" ELSE "no"
        /\ Retains(r, {"stream", "single", "signal", "frame", "sinks", "closed", "taken"})
    BY StreamStopsMoves
  <1>2. /\ work'[r].stream = work[r].stream /\ work'[r].single = work[r].single
        /\ work'[r].sinks = work[r].sinks /\ work'[r].closed = work[r].closed
        /\ work'[r].taken = work[r].taken /\ work'[r].signal = work[r].signal
    BY <1>1 DEF Retains
  <1>3. UNCHANGED <<disk, cache, look>>
    BY DEF StreamStops
  <1>4. Sunk(r)' /\ Mine(r)' = Mine(r) /\ \A d : SinkOf(r, d)' = SinkOf(r, d)
    BY <1>1, <1>3, SinksStay DEF Retains
  <1>5. Len(work[r].sinks) \in Nat /\ (work[r].sinks = <<>> <=> Len(work[r].sinks) = 0)
    <2>1. work[r].sinks \in Seq(Names)
      BY <1>0 DEF Works
    <2> QED BY <2>1
  <1>6. Shut(r)'
    BY <1>0, <1>1, <1>2, <1>3, <1>5 DEF Shut
  <1>7. Carried(r)' /\ Copied(r)'
    <2>1. work[r].raised = "no"
      BY <1>0 DEF Shut
    <2> QED BY <1>0, <1>1, <1>2, <1>3, <1>4, <2>1, CopiedStays DEF Carried
  <1>8. \A d : Got(r, d)' = Got(r, d)
    BY <1>0, <1>2, <1>3, <1>4, GotStays
  <1> QED BY <1>1, <1>3, <1>4, <1>6, <1>7, <1>8, QuietStep

\* A file of a claimed name is empty, and any other is what it was.
LEMMA Claimed ==
    ASSUME Typed, NEW r \in Recorders, Claims(r)
    PROVE  /\ DOMAIN disk' = DOMAIN disk \cup {Candidate(r)} /\ Candidate(r) \notin DOMAIN disk
           /\ disk'[Candidate(r)] = NewFile(<<r, work[r].stream>>)
           /\ \A n \in DOMAIN disk : disk'[n] = disk[n]
  <1> DEFINE c == Candidate(r)  file == NewFile(<<r, work[r].stream>>)
  <1>1. disk' = With(disk, c, file) /\ c \notin DOMAIN disk
    BY DEF Claims, IsTaken
  <1> HIDE DEF c, file
  <1>2. DOMAIN disk' = DOMAIN disk \cup {c} /\ disk'[c] = file /\ \A n \in DOMAIN disk : disk'[n] = disk[n]
    BY <1>1 DEF With
  <1> QED BY <1>1, <1>2 DEF c, file

LEMMA ClaimsKeeps ==
    ASSUME Typed, SInv, NEW r \in Recorders, work[r].stream \in Streams, Claims(r)
    PROVE  /\ SInv' /\ Aside(r) /\ Moves(r)
           /\ \A d \in Signals : Due(r, d)' = Due(r, d)
  <1> DEFINE c == Candidate(r)
  <1>0. Sunk(r) /\ Shut(r) /\ Carried(r) /\ Copied(r) /\ work[r].at = "claim" /\ work[r] \in Works
    BY DEF SInv, Recorded, Claims, Typed
  <1>1. /\ Moves(r) /\ work'[r].sinks = Append(work[r].sinks, c) /\ c \in Names
        /\ work'[r].at = IF work[r].single THEN "pull" ELSE "write"
        /\ Retains(r, {"stream", "single", "signal", "frame", "closed", "taken", "raised"})
    BY ClaimsMoves
  <1>2. /\ work'[r].stream = work[r].stream /\ work'[r].single = work[r].single
        /\ work'[r].signal = work[r].signal /\ work'[r].frame = work[r].frame
        /\ work'[r].closed = work[r].closed
        /\ work'[r].taken = work[r].taken /\ work'[r].raised = work[r].raised
    BY <1>1 DEF Retains
  <1>3. /\ DOMAIN disk' = DOMAIN disk \cup {c} /\ c \notin DOMAIN disk
        /\ disk'[c].item[2] = work[r].stream /\ disk'[c].frames = <<>>
        /\ disk'[c].shape = "empty" /\ disk'[c].locked = FALSE /\ disk'[c] \in Files
        /\ \A n \in DOMAIN disk : disk'[n] = disk[n]
    <2> DEFINE file == NewFile(<<r, work[r].stream>>)
    <2>1. file \in Files
      BY DEF NewFile, Files, Shapes
    <2>2. /\ file.item[2] = work[r].stream /\ file.frames = <<>>
          /\ file.shape = "empty" /\ file.locked = FALSE
      BY DEF NewFile
    <2>3. /\ DOMAIN disk' = DOMAIN disk \cup {c} /\ c \notin DOMAIN disk /\ disk'[c] = file
          /\ \A n \in DOMAIN disk : disk'[n] = disk[n]
      BY Claimed
    <2> HIDE DEF c, file
    <2> QED BY <2>1, <2>2, <2>3
  <1>a. PICK sig \in Signals : work[r].signal = sig
    BY <1>0 DEF Works
  <1>4. c.signal = sig /\ SinkOf(r, sig) = {}
    BY <1>0, <1>a DEF Candidate, Carried
  <1>5. UNCHANGED <<cache, look>>
    BY DEF Claims
  <1> HIDE DEF c
  <1> DEFINE I == 1..Len(work[r].sinks)  k == Len(work[r].sinks) + 1
  <1>6. /\ Len(work[r].sinks) \in Nat /\ 1..Len(work'[r].sinks) = I \cup {k}
        /\ \A i \in I :
             work'[r].sinks[i] = work[r].sinks[i] /\ work[r].sinks[i] \in Mine(r)
             /\ work[r].sinks[i].signal # sig
        /\ work'[r].sinks[k] = c
    <2>1. work[r].sinks \in Seq(Names)
      BY <1>0 DEF Works
    <2>2. \A i \in I : work[r].sinks[i] \in Mine(r) /\ work[r].sinks[i].signal # sig
      BY <1>4 DEF Mine, SinkOf
    <2> QED BY <1>1, <2>1, <2>2, OneMore
  <1>. HIDE DEF k
  <1>7. Mine(r)' = Mine(r) \cup {c}
    <2>1. Mine(r) = {work[r].sinks[i] : i \in I} /\ Mine(r)' = {work'[r].sinks[i] : i \in I \cup {k}}
      BY <1>6 DEF Mine
    <2> HIDE DEF I
    <2> QED BY <1>6, <2>1
  <1>8. \A n \in Mine(r) : n \in DOMAIN disk /\ disk'[n] = disk[n] /\ n # c /\ n.signal # sig
    BY <1>0, <1>3, <1>6 DEF Sunk, Mine
  <1>9. Sunk(r)'
    <2>1. \A n \in Mine(r)' : n \in DOMAIN disk' /\ disk'[n].item[2] = work'[r].stream
      BY <1>0, <1>2, <1>3, <1>7, <1>8 DEF Sunk
    <2>2. ASSUME NEW i \in 1..Len(work'[r].sinks), NEW j \in 1..Len(work'[r].sinks),
                 work'[r].sinks[i].signal = work'[r].sinks[j].signal
          PROVE  i = j
      BY <1>0, <1>4, <1>6, <2>2 DEF Sunk
    <2> QED BY <2>1, <2>2 DEF Sunk
  <1>b. \A j, l \in 1..Len(work'[r].sinks) :
            work'[r].sinks[j].signal = work'[r].sinks[l].signal => j = l
    BY <1>9 DEF Sunk
  <1>10. Got(r, sig) = 0 /\ Got(r, sig)' = 0
    <2>1. Got(r, sig) = 0
      BY <1>4, GotNone
    <2>2. Got(r, sig)' = Len(disk'[c].frames)
      <3>1. k \in 1..Len(work'[r].sinks)
            /\ work'[r].sinks[k].signal = sig
        BY <1>4, <1>6
      <3> QED BY <1>6, <1>b, <3>1, GotIsThen
    <2> QED BY <1>3, <2>1, <2>2
  <1>11. ASSUME NEW d, d # sig PROVE Got(r, d)' = Got(r, d)
    <2>1. CASE SinkOf(r, d) = {}
      <3>1. SinkOf(r, d)' = {}
        BY <1>4, <1>6, <1>11, <2>1 DEF SinkOf
      <3> QED BY <2>1, <3>1, GotNone
    <2>2. CASE SinkOf(r, d) # {}
      <3>1. PICK i \in 1..Len(work[r].sinks) : work[r].sinks[i].signal = d
        BY <2>2 DEF SinkOf
      <3>2. Got(r, d) = Len(disk[work[r].sinks[i]].frames)
        BY <1>0, <3>1, GotIs DEF Sunk
      <3>3. Got(r, d)' = Len(disk'[work'[r].sinks[i]].frames)
        <4>1. i \in 1..Len(work'[r].sinks) /\ work'[r].sinks[i].signal = d
          BY <1>6, <3>1
        <4> QED BY <1>b, <4>1, GotIsThen
      <3> QED BY <1>6, <1>8, <3>2, <3>3
    <2> QED BY <2>1, <2>2
  <1>12. \A d \in Signals : Due(r, d)' = Due(r, d)
    <2>1. ASSUME NEW d \in Signals PROVE Got(r, d)' = Got(r, d)
      BY <1>10, <1>11
    <2>2. Carries(r)' = Carries(r)
      BY <1>0, <1>1, <1>2
    <2> HIDE DEF Carries
    <2> QED BY <1>2, <2>1, <2>2 DEF Due
  <1>13. Shut(r)'
    <2>1. work'[r].at \in {"pull", "write"} /\ work'[r].closed = 0 /\ work'[r].raised = "no"
      BY <1>0, <1>1, <1>2 DEF Shut
    <2>2. ASSUME NEW i \in 1..Len(work'[r].sinks)
          PROVE  LET file == disk'[work'[r].sinks[i]] IN
                 \/ file.shape = "growing" /\ file.locked
                 \/ file.shape = "empty" /\ ~file.locked /\ file.frames = <<>>
      <3>1. CASE i \in I
        <4>1. work[r].closed = 0 /\ i \in Nat /\ i > 0
          BY <1>0, <1>6 DEF Shut
        <4>2. LET file == disk[work[r].sinks[i]] IN
                 \/ file.shape = "growing" /\ file.locked
                 \/ file.shape = "empty" /\ ~file.locked /\ file.frames = <<>>
          BY <1>0, <3>1, <4>1 DEF Shut
        <4> QED BY <1>6, <1>8, <3>1, <4>2
      <3>2. CASE i = k
        BY <1>3, <1>6, <3>2
      <3> QED BY <1>6, <3>1, <3>2
    <2> QED BY <1>6, <2>1, <2>2 DEF Shut
  <1>14. Carried(r)'
    <2>1. SinkOf(r, sig)' # {}
      BY <1>4, <1>6 DEF SinkOf
    <2>2. work'[r].at = "write" => work[r].frame.signal = sig /\ Carries(r)
      BY <1>0, <1>1, <1>a DEF Carried
    <2> QED BY <1>0, <1>1, <1>2, <1>a, <1>10, <2>1, <2>2 DEF Carried
  <1>15. Copied(r)'
    <2>1. Content(disk'[c].frames) = {}
      BY <1>3
    <2>2. \A f \in Content(work[r].taken) : f.signal # sig
      BY <1>0, <1>4 DEF Copied
    <2>3. ASSUME NEW d, SinkOf(r, d) # {} PROVE SinkOf(r, d)' # {}
      BY <1>6, <2>3 DEF SinkOf
    <2>0. work[r].raised = "no"
      BY <1>0 DEF Shut
    <2>4. \A n \in Mine(r) : Content(disk'[n].frames) = {f \in Content(work[r].taken) : f.signal = n.signal}
      BY <1>0, <1>8, <2>0, CopiedWhole
    <2>5. {f \in Content(work[r].taken) : f.signal = c.signal} = {}
      BY <1>4, <2>2
    <2>6. work'[r].taken = work[r].taken
      BY <1>2
    <2>7. \A f \in Content(work[r].taken) : SinkOf(r, f.signal)' # {}
      BY <1>0, <2>3 DEF Copied
    <2> HIDE DEF Content
    <2> QED BY <1>7, <2>1, <2>4, <2>5, <2>6, <2>7, CopiedThen
  <1>16. Aside(r)
    <2>1. DOMAIN disk' \subseteq Names /\ disk' \in [DOMAIN disk' -> Files]
      <3>1. \A n \in DOMAIN disk' : disk'[n] \in Files
        BY <1>3 DEF Typed
      <3>2. disk' = [n \in DOMAIN disk' |-> disk'[n]]
        BY DEF Claims, With
      <3> QED BY <1>1, <1>3, <3>1, <3>2 DEF Typed
    <2> QED BY <1>1, <1>3, <1>5, <1>7, <2>1 DEF Aside, Moves, Later
  <1>17. \A n \in DOMAIN disk' :
            disk'[n].frames = Series(disk'[n].item[2], n.signal, Len(disk'[n].frames))
    <2>1. \A n \in DOMAIN disk : disk'[n].frames = Series(disk'[n].item[2], n.signal, Len(disk'[n].frames))
      BY <1>3 DEF SInv, Filled
    <2>2. disk'[c].frames = Series(disk'[c].item[2], c.signal, Len(disk'[c].frames))
      BY <1>3 DEF Series
    <2> QED BY <1>3, <2>1, <2>2
  <1> QED BY <1>1, <1>9, <1>12, <1>13, <1>14, <1>15, <1>16, <1>17, StepKeeps

LEMMA SeriesIs ==
    ASSUME NEW stream, NEW signal, NEW k \in Nat
    PROVE  /\ Len(Series(stream, signal, k)) = k
           /\ Series(stream, signal, k + 1) =
                Append(Series(stream, signal, k), [stream |-> stream, signal |-> signal, place |-> k + 1])
  BY DEF Series

LEMMA FilesExcept ==
    ASSUME NEW file \in Files, NEW frames \in Seq(Frames), NEW shape \in Shapes, NEW locked \in BOOLEAN
    PROVE  LET new == [file EXCEPT !.frames = frames, !.shape = shape, !.locked = locked] IN
           /\ new \in Files /\ new.item = file.item /\ new.frames = frames
           /\ new.shape = shape /\ new.locked = locked
  <1> DEFINE a == [file EXCEPT !.frames = frames]
             b == [a EXCEPT !.shape = shape]
             c == [b EXCEPT !.locked = locked]
  <1>1. a \in Files /\ a.item = file.item /\ a.frames = frames
    BY DEF Files
  <1>2. b \in Files /\ b.item = a.item /\ b.frames = a.frames /\ b.shape = shape
    <2> HIDE DEF a
    <2> QED BY <1>1 DEF Files
  <1>3. c \in Files /\ c.item = b.item /\ c.frames = b.frames /\ c.shape = b.shape /\ c.locked = locked
    <2> HIDE DEF b
    <2> QED BY <1>2 DEF Files
  <1>4. [file EXCEPT !.frames = frames, !.shape = shape, !.locked = locked] = c
    OBVIOUS
  <1> HIDE DEF a, b, c
  <1> QED BY <1>1, <1>2, <1>3, <1>4

\* One file of a recorder changes, those of the others do not.
LEMMA OneFile ==
    ASSUME Typed, NEW r \in Recorders, Sunk(r), NEW i \in 1..Len(work[r].sinks), NEW file \in Files,
           disk' = [disk EXCEPT ![work[r].sinks[i]] = file]
    PROVE  /\ DOMAIN disk' = DOMAIN disk /\ disk' \in [DOMAIN disk' -> Files]
           /\ work[r].sinks[i] \in DOMAIN disk /\ disk'[work[r].sinks[i]] = file
           /\ \A n \in DOMAIN disk : n # work[r].sinks[i] => disk'[n] = disk[n]
           /\ \A j \in 1..Len(work[r].sinks) : j # i => disk'[work[r].sinks[j]] = disk[work[r].sinks[j]]
  <1>1. \A j \in 1..Len(work[r].sinks) : work[r].sinks[j] \in DOMAIN disk
    BY DEF Sunk, Mine
  <1>2. \A j \in 1..Len(work[r].sinks) : work[r].sinks[j] = work[r].sinks[i] => j = i
    BY DEF Sunk
  <1> QED BY <1>1, <1>2 DEF Typed

\* A closer step, or a write: what becomes of the one file.
LEMMA OneFileAside ==
    ASSUME Typed, SInv, NEW r \in Recorders, Moves(r), Retains(r, {"stream", "sinks"}),
           NEW i \in 1..Len(work[r].sinks), NEW file \in Files,
           disk' = [disk EXCEPT ![work[r].sinks[i]] = file],
           file.item = disk[work[r].sinks[i]].item,
           file = disk[work[r].sinks[i]] \/ Age(Stamp(disk[work[r].sinks[i]])) < Age(Stamp(file)),
           UNCHANGED <<cache, look>>
    PROVE  /\ Aside(r) /\ Sunk(r)' /\ Mine(r)' = Mine(r)
           /\ \A d : SinkOf(r, d)' = SinkOf(r, d)
  <1>1. Sunk(r)
    BY DEF SInv, Recorded
  <1>2. /\ DOMAIN disk' = DOMAIN disk /\ disk' \in [DOMAIN disk' -> Files]
        /\ work[r].sinks[i] \in DOMAIN disk /\ disk'[work[r].sinks[i]] = file
        /\ \A n \in DOMAIN disk : n # work[r].sinks[i] => disk'[n] = disk[n]
    BY <1>1, OneFile
  <1>3. Sunk(r)' /\ Mine(r)' = Mine(r) /\ \A d : SinkOf(r, d)' = SinkOf(r, d)
    BY <1>2, SinksStay
  <1>4. work[r].sinks[i] \in Mine(r)
    BY DEF Mine
  <1>5. \A n \in DOMAIN disk : Later(n) /\ (n \notin Mine(r) => disk'[n] = disk[n])
    BY <1>2, <1>4 DEF Later
  <1>6. DOMAIN disk \subseteq Names
    BY DEF Typed
  <1> QED BY <1>2, <1>3, <1>5, <1>6 DEF Aside, Moves

LEMMA AgeIs ==
    ASSUME NEW file \in Files
    PROVE  /\ Len(file.frames) \in Nat /\ Rank(file.shape) \in 0..2
           /\ Age(Stamp(file)) = 2 * Len(file.frames) + Rank(file.shape)
           /\ file.shape = "empty" => Rank(file.shape) = 0
           /\ file.shape = "growing" => Rank(file.shape) = 1
           /\ file.shape \in {"part", "final"} => Rank(file.shape) = 2
  <1>1. file.frames \in Seq(Frames)
    BY DEF Files
  <1> QED BY <1>1, LenProperties DEF Age, Stamp, Rank

LEMMA GotIsNat ==
    ASSUME Typed, SInv, NEW r \in Recorders, NEW d
    PROVE  Got(r, d) \in Nat
  <1>1. \A j \in 1..Len(work[r].sinks) : Len(disk[work[r].sinks[j]].frames) \in Nat
    <2> SUFFICES ASSUME NEW j \in 1..Len(work[r].sinks) PROVE disk[work[r].sinks[j]].frames \in Seq(Frames)
      BY LenProperties
    <2>1. Sunk(r)
      BY DEF SInv, Recorded
    <2> QED BY <2>1 DEF Sunk, Mine, Typed, Files
  <1> QED BY <1>1 DEF Got, SinkOf

LEMMA WritesKeeps ==
    ASSUME Typed, SInv, NEW r \in Recorders, Writes(r)
    PROVE  /\ SInv' /\ Aside(r) /\ Moves(r)
           /\ \A d \in Signals : Due(r, d)' = Due(r, d)
  <1>0. Sunk(r) /\ Shut(r) /\ Carried(r) /\ Copied(r) /\ work[r].at = "write" /\ work[r] \in Works
    BY DEF SInv, Recorded, Writes, Typed
  <1>f. PICK f \in Frames : work[r].frame = f
    BY <1>0 DEF Carried
  <1>s. PICK sig \in Signals : f.signal = sig
    BY DEF Frames
  <1>1. /\ Moves(r) /\ work'[r].at = "pull" /\ work'[r].taken = Append(work[r].taken, f)
        /\ Retains(r, {"stream", "single", "signal", "frame", "sinks", "closed", "raised"})
    BY <1>f, WritesMoves
  <1>2. /\ work'[r].stream = work[r].stream /\ work'[r].single = work[r].single
        /\ work'[r].sinks = work[r].sinks /\ work'[r].closed = work[r].closed
        /\ work'[r].raised = work[r].raised /\ work'[r].frame = work[r].frame
        /\ work'[r].signal = work[r].signal
    BY <1>1 DEF Retains
  <1>3. /\ f.stream = work[r].stream /\ f.place = Got(r, sig) + 1
        /\ work[r].signal = sig /\ SinkOf(r, sig) # {}
    BY <1>0, <1>f, <1>s DEF Carried
  <1> DEFINE i == CHOOSE k \in SinkOf(r, sig) : TRUE
             name == work[r].sinks[i]
             frames == Append(disk[name].frames, f)
             file == [disk[name] EXCEPT !.frames = frames,
                                        !.shape = "growing", !.locked = TRUE]
  <1>4. i \in 1..Len(work[r].sinks) /\ name.signal = sig /\ name \in Mine(r) /\ name \in DOMAIN disk
    <2>1. i \in SinkOf(r, sig)
      BY <1>3
    <2>2. i \in 1..Len(work[r].sinks) /\ name.signal = sig
      BY <2>1 DEF SinkOf
    <2> HIDE DEF i
    <2> QED BY <1>0, <2>2 DEF Sunk, Mine
  <1>5. /\ disk[name] \in Files /\ disk[name].frames \in Seq(Frames)
        /\ disk[name].frames = Series(f.stream, sig, Len(disk[name].frames))
        /\ disk[name].item[2] = f.stream
    <2> HIDE DEF name
    <2> QED BY <1>0, <1>3, <1>4 DEF Typed, Files, SInv, Filled, Sunk
  <1>6. file \in Files /\ file.item = disk[name].item /\ file.frames = Append(disk[name].frames, f)
        /\ file.shape = "growing" /\ file.locked = TRUE
    <2>1. frames \in Seq(Frames) /\ "growing" \in Shapes /\ TRUE \in BOOLEAN /\ disk[name] \in Files
      BY <1>5 DEF Shapes
    <2> HIDE DEF name, frames
    <2>2. /\ file \in Files /\ file.item = disk[name].item /\ file.frames = frames
          /\ file.shape = "growing" /\ file.locked = TRUE
      BY <2>1, FilesExcept
    <2> HIDE DEF file
    <2> QED BY <2>2 DEF frames
  <1>7. disk' = [disk EXCEPT ![name] = file] /\ UNCHANGED <<cache, look>>
    <2>1. disk' = [disk EXCEPT ![name].frames = frames, ![name].shape = "growing", ![name].locked = TRUE]
      BY <1>f, <1>s DEF Writes, Fills, Target
    <2>2. UNCHANGED <<cache, look>>
      BY DEF Writes
    <2> HIDE DEF name
    <2> QED BY <1>4, <2>1, <2>2 DEF Typed
  <1>8. Got(r, sig) = Len(disk[name].frames) /\ Len(disk[name].frames) \in Nat
    <2> HIDE DEF i
    <2> QED BY <1>0, <1>4, <1>5, GotIs, LenProperties DEF Sunk
  <1> HIDE DEF file, i
  <1>9. Age(Stamp(disk[name])) < Age(Stamp(file))
    <2>1. Len(file.frames) = Len(disk[name].frames) + 1
      BY <1>5, <1>6
    <2> HIDE DEF name
    <2> QED BY <1>5, <1>6, <1>8, <2>1, AgeIs
  <1>10. /\ Aside(r) /\ Sunk(r)' /\ Mine(r)' = Mine(r)
         /\ \A d : SinkOf(r, d)' = SinkOf(r, d)
    BY <1>1, <1>4, <1>6, <1>7, <1>9, OneFileAside DEF Retains
  <1>11. /\ disk'[name] = file /\ DOMAIN disk' = DOMAIN disk
         /\ \A n \in DOMAIN disk : n # name => disk'[n] = disk[n]
         /\ \A j \in 1..Len(work[r].sinks) : j # i => disk'[work[r].sinks[j]] = disk[work[r].sinks[j]]
    <2>1. Sunk(r) /\ file \in Files /\ i \in 1..Len(work[r].sinks)
      BY <1>0, <1>4, <1>6
    <2>2. disk' = [disk EXCEPT ![work[r].sinks[i]] = file]
      BY <1>7
    <2> HIDE DEF frames
    <2> QED BY <2>1, <2>2, OneFile
  <1>12. Got(r, sig)' = Got(r, sig) + 1
    <2>1. Got(r, sig)' = Len(disk'[name].frames)
      BY <1>2, <1>4, <1>10, GotIsThen DEF Sunk
    <2> QED BY <1>5, <1>6, <1>8, <1>11, <2>1
  <1>13. ASSUME NEW d, d # sig PROVE Got(r, d)' = Got(r, d)
    <2>1. ASSUME NEW j \in 1..Len(work[r].sinks), work[r].sinks[j].signal = d
          PROVE  disk'[work[r].sinks[j]] = disk[work[r].sinks[j]]
      BY <1>4, <1>11, <1>13, <2>1
    <2> QED BY <1>0, <1>2, <1>10, <2>1, GotStays
  <1>14. \A d \in Signals : Due(r, d)' = Due(r, d)
    <2> SUFFICES ASSUME NEW d \in Signals PROVE Due(r, d)' = Due(r, d)
      OBVIOUS
    <2>1. Carries(r) /\ ~Carries(r)'
      BY <1>0, <1>1
    <2> HIDE DEF Carries
    <2>2. Due(r, d) = Got(r, d) + IF sig = d THEN 1 ELSE 0
      BY <1>f, <1>s, <2>1 DEF Due
    <2>3. Due(r, d)' = Got(r, d)' + 0
      BY <2>1 DEF Due
    <2>4. Got(r, sig) \in Nat
      BY <1>8
    <2>5. Got(r, d) \in Nat
      BY GotIsNat
    <2> QED BY <1>12, <1>13, <2>2, <2>3, <2>4, <2>5
  <1>15. Shut(r)'
    <2>1. work'[r].closed = 0 /\ work'[r].raised = "no" /\ work'[r].at = "pull"
      BY <1>0, <1>1, <1>2 DEF Shut
    <2>2. ASSUME NEW j \in 1..Len(work[r].sinks)
          PROVE  LET g == disk'[work[r].sinks[j]] IN
                 ~(j <= 0) /\ \/ g.shape = "growing" /\ g.locked
                              \/ g.shape = "empty" /\ ~g.locked /\ g.frames = <<>>
      <3>1. CASE j = i
        BY <1>6, <1>11, <3>1
      <3>2. CASE j # i
        BY <1>0, <1>11, <3>2 DEF Shut
      <3> QED BY <3>1, <3>2
    <2> QED BY <1>2, <2>1, <2>2 DEF Shut
  <1>16. Carried(r)'
    BY <1>1, <1>2, <1>3, <1>10, <1>0 DEF Carried
  <1>17. Copied(r)'
    <2>1. Content(work'[r].taken) = Content(work[r].taken) \cup {f}
      BY <1>0, <1>1, OneMore DEF Works
    <2>2. Content(file.frames) = Content(disk[name].frames) \cup {f}
      BY <1>5, <1>6, OneMore
    <2>3. \A n \in Mine(r) : n.signal = sig => n = name
      BY <1>0, <1>4 DEF Sunk, Mine
    <2>4. \A n \in Mine(r) : n \in DOMAIN disk
      BY <1>0 DEF Sunk
    <2> HIDE DEF Content, name
    <2>5. ASSUME NEW n \in Mine(r)
          PROVE  Content(disk'[n].frames) = {g \in Content(work'[r].taken) : g.signal = n.signal}
      <3>0. Content(disk[n].frames) = {g \in Content(work[r].taken) : g.signal = n.signal}
        BY <1>0, CopiedWhole DEF Shut
      <3>1. CASE n = name
        BY <1>4, <1>s, <1>11, <2>1, <2>2, <3>0, <3>1
      <3>2. CASE n # name
        <4>1. n.signal # sig /\ disk'[n] = disk[n]
          BY <1>11, <2>3, <2>4, <3>2
        <4> QED BY <1>s, <2>1, <3>0, <4>1
      <3> QED BY <3>1, <3>2
    <2>6. \A g \in Content(work'[r].taken) : SinkOf(r, g.signal)' # {}
      <3>1. \A g \in Content(work[r].taken) : SinkOf(r, g.signal) # {}
        BY <1>0 DEF Copied
      <3>2. SinkOf(r, f.signal) # {}
        BY <1>3, <1>s
      <3> QED BY <1>10, <2>1, <3>1, <3>2
    <2> QED BY <1>10, <2>5, <2>6, CopiedThen
  <1>18. \A n \in DOMAIN disk' :
            disk'[n].frames = Series(disk'[n].item[2], n.signal, Len(disk'[n].frames))
    <2>1. ASSUME NEW n \in DOMAIN disk', n # name
          PROVE  disk'[n].frames = Series(disk'[n].item[2], n.signal, Len(disk'[n].frames))
      BY <1>11, <2>1 DEF SInv, Filled
    <2>2. disk'[name].frames = Series(disk'[name].item[2], name.signal, Len(disk'[name].frames))
      <3> DEFINE k == Len(disk[name].frames)
      <3>1. f = [stream |-> f.stream, signal |-> sig, place |-> k + 1]
        BY <1>s, <1>3, <1>8 DEF Frames
      <3>2. k \in Nat /\ disk[name].frames = Series(f.stream, sig, k)
        BY <1>5, <1>8
      <3> HIDE DEF k, name
      <3>3. file.frames = Series(f.stream, sig, k + 1) /\ Len(file.frames) = k + 1
        BY <1>6, <3>1, <3>2, SeriesIs
      <3> QED BY <1>4, <1>5, <1>6, <1>11, <3>3
    <2> QED BY <2>1, <2>2
  <1> QED BY <1>1, <1>10, <1>14, <1>15, <1>16, <1>17, <1>18, StepKeeps

\* append() raises: the file is what it was, open, or has the frame or its place.
LEMMA WriteRaisesKeeps ==
    ASSUME Typed, SInv, NEW r \in Recorders, WriteRaises(r)
    PROVE  SInv' /\ Aside(r) /\ Moves(r)
  <1>0. Sunk(r) /\ Shut(r) /\ Carried(r) /\ Copied(r) /\ work[r].at = "write" /\ work[r] \in Works
    BY DEF SInv, Recorded, WriteRaises, Typed
  <1>f. PICK f \in Frames : work[r].frame = f
    BY <1>0 DEF Carried
  <1>s. PICK sig \in Signals : f.signal = sig
    BY DEF Frames
  <1>1. /\ Moves(r) /\ work'[r].at = "close" /\ work'[r].raised = "write"
        /\ Retains(r, {"stream", "single", "signal", "frame", "sinks", "closed", "taken"})
    BY WriteRaisesMoves
  <1>2. /\ work'[r].stream = work[r].stream /\ work'[r].single = work[r].single
        /\ work'[r].sinks = work[r].sinks /\ work'[r].closed = work[r].closed
        /\ work'[r].taken = work[r].taken /\ work'[r].signal = work[r].signal
        /\ work'[r].frame = f
    BY <1>1, <1>f DEF Retains
  <1>3. /\ f.stream = work[r].stream /\ f.place = Got(r, sig) + 1
        /\ work[r].signal = sig /\ SinkOf(r, sig) # {}
    BY <1>0, <1>f, <1>s DEF Carried
  <1>4. UNCHANGED <<cache, look>> /\ work[r].raised = "no" /\ work[r].closed = 0
    BY <1>0 DEF WriteRaises, Shut
  <1> DEFINE i == CHOOSE k \in SinkOf(r, sig) : TRUE
             name == work[r].sinks[i]
             more == Append(disk[name].frames, f)
  <1>5. i \in 1..Len(work[r].sinks) /\ name.signal = sig /\ name \in Mine(r) /\ name \in DOMAIN disk
    <2>1. i \in SinkOf(r, sig)
      BY <1>3
    <2>2. i \in 1..Len(work[r].sinks) /\ name.signal = sig
      BY <2>1 DEF SinkOf
    <2> HIDE DEF i
    <2> QED BY <1>0, <2>2 DEF Sunk, Mine
  <1>6. /\ disk[name] \in Files /\ disk[name].frames \in Seq(Frames)
        /\ disk[name].frames = Series(f.stream, sig, Len(disk[name].frames))
        /\ disk[name].item[2] = f.stream
    <2> HIDE DEF name
    <2> QED BY <1>0, <1>3, <1>5 DEF Typed, Files, SInv, Filled, Sunk
  <1>7. Got(r, sig) = Len(disk[name].frames) /\ Len(disk[name].frames) \in Nat
    <2> HIDE DEF i
    <2> QED BY <1>0, <1>5, <1>6, GotIs, LenProperties DEF Sunk
  <1>8. /\ more \in Seq(Frames) /\ Len(more) = Len(disk[name].frames) + 1
        /\ more = Series(f.stream, sig, Len(more))
        /\ Content(more) = Content(disk[name].frames) \cup {f}
    <2> DEFINE k == Len(disk[name].frames)
    <2>1. f = [stream |-> f.stream, signal |-> sig, place |-> k + 1]
      BY <1>s, <1>3, <1>7 DEF Frames
    <2>2. k \in Nat /\ disk[name].frames = Series(f.stream, sig, k)
      BY <1>6, <1>7
    <2>3. /\ more \in Seq(Frames) /\ Len(more) = Len(disk[name].frames) + 1
          /\ Content(more) = Content(disk[name].frames) \cup {f}
      <3>1. more = Append(disk[name].frames, f)
        OBVIOUS
      <3> HIDE DEF name, k, more
      <3> QED BY <1>6, <3>1, OneMore
    <2> HIDE DEF name
    <2>4. k + 1 = Len(more)
      BY <2>3
    <2> HIDE DEF k
    <2>5. more = Series(f.stream, sig, k + 1)
      BY <2>1, <2>2, SeriesIs DEF k
    <2> QED BY <2>3, <2>4, <2>5
  <1> HIDE DEF i
  <1>9. Len(work[r].sinks) \in Nat /\ Len(work[r].sinks) # 0
    BY <1>0, <1>5, LenProperties DEF Works
  \* The one file is what it was, or open with the frames it had or one more.
  <1>10. \E file \in Files :
            /\ disk' = [disk EXCEPT ![name] = file]
            /\ file.item = disk[name].item /\ file.frames \in {disk[name].frames, more}
            /\ file = disk[name] \/ (file.shape = "growing" /\ file.locked)
    <2>1. CASE UNCHANGED disk
      <3> HIDE DEF name
      <3>1. disk' = [disk EXCEPT ![name] = disk[name]]
        BY <1>5, <2>1 DEF Typed
      <3> QED BY <1>6, <3>1
    <2>2. ASSUME NEW frames \in {disk[name].frames, more}, Fills(r, frames)
          PROVE  \E file \in Files :
                    /\ disk' = [disk EXCEPT ![name] = file]
                    /\ file.item = disk[name].item /\ file.frames \in {disk[name].frames, more}
                    /\ file = disk[name] \/ (file.shape = "growing" /\ file.locked)
      <3> DEFINE file == [disk[name] EXCEPT !.frames = frames, !.shape = "growing", !.locked = TRUE]
      <3>1. disk' = [disk EXCEPT ![name].frames = frames, ![name].shape = "growing", ![name].locked = TRUE]
        BY <1>f, <1>s, <2>2 DEF Fills, Target, i
      <3> HIDE DEF name, more
      <3>2. disk' = [disk EXCEPT ![name] = file]
        BY <1>5, <3>1 DEF Typed
      <3>3. frames \in Seq(Frames) /\ "growing" \in Shapes /\ TRUE \in BOOLEAN
        BY <1>6, <1>8, <2>2 DEF Shapes
      <3>4. /\ file \in Files /\ file.item = disk[name].item /\ file.frames = frames
            /\ file.shape = "growing" /\ file.locked = TRUE
        BY <1>6, <3>3, FilesExcept
      <3> HIDE DEF file
      <3> QED BY <2>2, <3>2, <3>4
    <2>3. \/ UNCHANGED disk
          \/ Fills(r, disk[name].frames)
          \/ Fills(r, more)
      BY <1>f, <1>s DEF WriteRaises, Target, i
    <2> QED BY <2>1, <2>2, <2>3
  <1>11. PICK file \in Files :
            /\ disk' = [disk EXCEPT ![name] = file]
            /\ file.item = disk[name].item /\ file.frames \in {disk[name].frames, more}
            /\ file = disk[name] \/ (file.shape = "growing" /\ file.locked)
    BY <1>10
  <1>12. file = disk[name] \/ Age(Stamp(disk[name])) < Age(Stamp(file))
    <2>1. CASE file = disk[name]
      BY <2>1
    <2>2. CASE file.shape = "growing" /\ file.locked
      <3>1. \/ disk[name].shape = "growing" /\ disk[name].locked
            \/ disk[name].shape = "empty" /\ ~disk[name].locked /\ disk[name].frames = <<>>
        <4>1. ~(i <= work[r].closed)
          BY <1>4, <1>5
        <4> QED BY <1>0, <1>5, <4>1 DEF Shut
      <3> HIDE DEF name
      <3>2. CASE file.frames = more
        <4>1. Len(file.frames) = Len(disk[name].frames) + 1
          BY <1>8, <3>2
        <4> QED BY <1>6, <1>7, <2>2, <3>1, <4>1, AgeIs
      <3>3. CASE file.frames = disk[name].frames /\ disk[name].shape = "empty"
        BY <1>6, <1>7, <2>2, <3>3, AgeIs
      <3>4. CASE file.frames = disk[name].frames /\ disk[name].shape = "growing" /\ disk[name].locked
        BY <1>6, <1>11, <2>2, <3>4 DEF Files
      <3> QED BY <1>11, <3>1, <3>2, <3>3, <3>4
    <2> QED BY <1>11, <2>1, <2>2
  <1>13. /\ Aside(r) /\ Sunk(r)' /\ Mine(r)' = Mine(r)
         /\ \A d : SinkOf(r, d)' = SinkOf(r, d)
    BY <1>1, <1>4, <1>5, <1>11, <1>12, OneFileAside DEF Retains
  <1>14. /\ disk'[name] = file /\ DOMAIN disk' = DOMAIN disk
         /\ \A n \in DOMAIN disk : n # name => disk'[n] = disk[n]
         /\ \A j \in 1..Len(work[r].sinks) : j # i => disk'[work[r].sinks[j]] = disk[work[r].sinks[j]]
    <2>1. Typed /\ Sunk(r) /\ i \in 1..Len(work[r].sinks)
      BY <1>0, <1>5
    <2>2. disk' = [disk EXCEPT ![work[r].sinks[i]] = file]
      BY <1>11
    <2> HIDE DEF more
    <2> QED BY <2>1, <2>2, OneFile
  <1>15. Shut(r)'
    <2>1. ASSUME NEW j \in 1..Len(work[r].sinks)
          PROVE  LET g == disk'[work[r].sinks[j]] IN
                 ~(j <= 0) /\ \/ g.shape = "growing" /\ g.locked
                              \/ g.shape = "empty" /\ ~g.locked /\ g.frames = <<>>
      <3>1. ~(j <= work[r].closed) /\ ~(j <= 0)
        BY <1>4
      <3>2. LET g == disk[work[r].sinks[j]] IN
               \/ g.shape = "growing" /\ g.locked
               \/ g.shape = "empty" /\ ~g.locked /\ g.frames = <<>>
        BY <1>0, <3>1 DEF Shut
      <3>3. CASE j = i
        BY <1>11, <1>14, <3>1, <3>2, <3>3
      <3>4. CASE j # i
        BY <1>14, <3>1, <3>2, <3>4
      <3> QED BY <3>3, <3>4
    <2> QED BY <1>1, <1>2, <1>4, <1>9, <2>1 DEF Shut
  <1>16. Carried(r)'
    BY <1>0, <1>1, <1>2 DEF Carried
  <1>17. Copied(r)'
    <2>1. \A n \in Mine(r) : n.signal = sig => n = name
      BY <1>0, <1>5 DEF Sunk, Mine
    <2>2. \A n \in Mine(r) : n \in DOMAIN disk
      BY <1>0 DEF Sunk
    <2> HIDE DEF Content, name, more
    <2>3. Content(file.frames) \in {Content(disk[name].frames), Content(disk[name].frames) \cup {f}}
      BY <1>8, <1>11
    <2>4. ASSUME NEW n \in Mine(r) PROVE Content(disk'[n].frames) \in Kept(r, n.signal)'
      <3>1. Content(disk[n].frames) = {g \in Content(work[r].taken) : g.signal = n.signal}
        BY <1>0, <1>4, CopiedWhole
      <3>2. CASE n = name
        BY <1>1, <1>2, <1>5, <1>s, <1>14, <2>3, <3>1, <3>2 DEF Kept
      <3>3. CASE n # name
        <4>1. disk'[n] = disk[n]
          BY <1>14, <2>2, <3>3
        <4> QED BY <1>2, <3>1, <4>1 DEF Kept
      <3> QED BY <3>2, <3>3
    <2>5. \A g \in Content(work'[r].taken) : SinkOf(r, g.signal)' # {}
      BY <1>0, <1>2, <1>13 DEF Copied
    <2> QED BY <1>13, <2>4, <2>5 DEF Copied
  <1>18. \A n \in DOMAIN disk' :
            disk'[n].frames = Series(disk'[n].item[2], n.signal, Len(disk'[n].frames))
    <2>1. ASSUME NEW n \in DOMAIN disk', n # name
          PROVE  disk'[n].frames = Series(disk'[n].item[2], n.signal, Len(disk'[n].frames))
      BY <1>14, <2>1 DEF SInv, Filled
    <2>2. disk'[name].frames = Series(disk'[name].item[2], name.signal, Len(disk'[name].frames))
      <3> HIDE DEF name, more
      <3> QED BY <1>5, <1>6, <1>8, <1>11, <1>14
    <2> QED BY <2>1, <2>2
  <1> QED BY <1>1, <1>13, <1>15, <1>16, <1>17, <1>18, StepKeeps

\* Closing the next sink, whole or not.
LEMMA ClosesOne ==
    ASSUME Typed, SInv, NEW r \in Recorders, NEW shape \in {"part", "final"}, Moves(r), work[r].at = "close",
           Retains(r, {"stream", "single", "signal", "frame", "sinks", "taken"}),
           work'[r].closed = work[r].closed + 1,
           work'[r].at \in {"close", "done"}, work'[r].raised \in {work[r].raised, "close"},
           disk' = [disk EXCEPT ![work[r].sinks[work[r].closed + 1]] = Closed(@, shape)],
           UNCHANGED <<cache, look>>
    PROVE  LET file == disk'[work[r].sinks[work[r].closed + 1]] IN
           /\ Aside(r) /\ Sunk(r)' /\ Carried(r)' /\ Copied(r)'
           /\ work[r].closed + 1 \in 1..Len(work[r].sinks)
           /\ file.shape = shape /\ ~file.locked
           /\ \A j \in 1..Len(work[r].sinks) :
                j # work[r].closed + 1 => disk'[work[r].sinks[j]] = disk[work[r].sinks[j]]
           /\ \A n \in DOMAIN disk' : n \in DOMAIN disk /\ disk'[n].frames = disk[n].frames
                                      /\ disk'[n].item = disk[n].item
           /\ \A d : Got(r, d)' = Got(r, d)
  <1> DEFINE i == work[r].closed + 1
             name == work[r].sinks[i]
             file == Closed(disk[name], shape)
  <1>0. Sunk(r) /\ Shut(r) /\ Carried(r) /\ Copied(r) /\ work[r] \in Works
    BY DEF SInv, Recorded, Typed
  <1>1. /\ work'[r].stream = work[r].stream /\ work'[r].single = work[r].single
        /\ work'[r].sinks = work[r].sinks /\ work'[r].taken = work[r].taken
        /\ work'[r].signal = work[r].signal /\ work'[r].frame = work[r].frame
    BY DEF Retains
  <1>2. i \in 1..Len(work[r].sinks)
    <2>1. work[r].closed \in Nat /\ Len(work[r].sinks) \in Nat
      BY <1>0, LenProperties DEF Works
    <2> QED BY <1>0, <2>1 DEF Shut
  <1>3. name \in DOMAIN disk /\ disk[name] \in Files
    <2>1. name \in DOMAIN disk
      <3> HIDE DEF i
      <3> QED BY <1>0, <1>2 DEF Sunk, Mine
    <2> HIDE DEF name
    <2> QED BY <2>1 DEF Typed
  <1>4. /\ file \in Files /\ file.item = disk[name].item /\ file.frames = disk[name].frames
        /\ file.shape = shape /\ file.locked = FALSE
    <2> HIDE DEF name
    <2>1. shape \in Shapes
      BY DEF Shapes
    <2> QED BY <1>3, <2>1 DEF Closed, Files
  <1>5. disk' = [disk EXCEPT ![name] = file]
    <2> HIDE DEF name
    <2>1. disk' = [disk EXCEPT ![name] = Closed(@, shape)]
      BY DEF name
    <2> QED BY <2>1
  <1>6. disk[name].shape \in {"growing", "empty"}
    <2>1. ~(i <= work[r].closed)
      BY <1>0 DEF Works
    <2>2. LET g == disk[work[r].sinks[i]] IN
             IF i <= work[r].closed
             THEN ~g.locked /\ (g.shape = "final" \/ work[r].raised = "close")
             ELSE \/ g.shape = "growing" /\ g.locked
                  \/ g.shape = "empty" /\ ~g.locked /\ g.frames = <<>>
      <3> HIDE DEF i
      <3> QED BY <1>0, <1>2 DEF Shut
    <2> HIDE DEF i
    <2> QED BY <2>1, <2>2
  <1> HIDE DEF file
  <1>7. Age(Stamp(disk[name])) < Age(Stamp(file))
    <2> HIDE DEF name
    <2>1. /\ Age(Stamp(disk[name])) = 2 * Len(disk[name].frames) + Rank(disk[name].shape)
          /\ Rank(disk[name].shape) \in 0..1
      BY <1>3, <1>6, AgeIs
    <2>2. Age(Stamp(file)) = 2 * Len(disk[name].frames) + 2 /\ Len(disk[name].frames) \in Nat
      BY <1>3, <1>4, AgeIs
    <2> HIDE DEF Age
    <2> QED BY <2>1, <2>2
  <1>8. /\ Aside(r) /\ Sunk(r)' /\ Mine(r)' = Mine(r)
        /\ \A d : SinkOf(r, d)' = SinkOf(r, d)
    <2> HIDE DEF i
    <2> QED BY <1>2, <1>4, <1>5, <1>7, OneFileAside DEF Retains
  <1>9. /\ disk'[name] = file /\ DOMAIN disk' = DOMAIN disk
        /\ \A n \in DOMAIN disk : n # name => disk'[n] = disk[n]
        /\ \A j \in 1..Len(work[r].sinks) : j # i => disk'[work[r].sinks[j]] = disk[work[r].sinks[j]]
    <2>1. Sunk(r) /\ file \in Files
      BY <1>0, <1>4
    <2> HIDE DEF i
    <2>2. disk' = [disk EXCEPT ![work[r].sinks[i]] = file] /\ i \in 1..Len(work[r].sinks)
      BY <1>2, <1>5
    <2>3. /\ disk'[work[r].sinks[i]] = file /\ DOMAIN disk' = DOMAIN disk
          /\ \A n \in DOMAIN disk : n # work[r].sinks[i] => disk'[n] = disk[n]
      BY <2>1, <2>2, OneFile
    <2>4. \A j \in 1..Len(work[r].sinks) : j # i => disk'[work[r].sinks[j]] = disk[work[r].sinks[j]]
      <3> SUFFICES ASSUME NEW j \in 1..Len(work[r].sinks), j # i
                   PROVE  disk'[work[r].sinks[j]] = disk[work[r].sinks[j]]
        OBVIOUS
      <3>1. work[r].sinks[j] \in DOMAIN disk /\ work[r].sinks[j] # work[r].sinks[i]
        BY <2>1, <2>2 DEF Sunk, Mine
      <3> QED BY <2>3, <3>1
    <2> QED BY <2>3, <2>4
  <1>10. \A n \in DOMAIN disk' : n \in DOMAIN disk /\ disk'[n].frames = disk[n].frames
                                 /\ disk'[n].item = disk[n].item
    <2> HIDE DEF name
    <2> QED BY <1>4, <1>9
  <1>11. \A j \in 1..Len(work[r].sinks) : work[r].sinks[j] \in DOMAIN disk
    BY <1>0 DEF Sunk, Mine
  <1>12. \A d : Got(r, d)' = Got(r, d)
    BY <1>0, <1>1, <1>8, <1>9, <1>10, <1>11, GotStays
  <1>13. Copied(r)'
    BY <1>0, <1>1, <1>8, <1>9, <1>10, CopiedStays DEF Sunk
  <1>14. Carried(r)'
    BY <1>0, <1>1 DEF Carried
  <1> HIDE DEF i
  <1>15. file = disk'[work[r].sinks[i]]
    BY <1>9
  <1> QED BY <1>2, <1>4, <1>8, <1>9, <1>10, <1>12, <1>13, <1>14, <1>15 DEF i

LEMMA SeriesStay ==
    ASSUME SInv, \A n \in DOMAIN disk' : n \in DOMAIN disk /\ disk'[n].frames = disk[n].frames
                                         /\ disk'[n].item = disk[n].item
    PROVE  \A n \in DOMAIN disk' :
                disk'[n].frames = Series(disk'[n].item[2], n.signal, Len(disk'[n].frames))
  BY DEF SInv, Filled

LEMMA ClosesKeeps ==
    ASSUME Typed, SInv, NEW r \in Recorders, Closes(r)
    PROVE  /\ SInv' /\ Aside(r) /\ Moves(r)
           /\ \A d : Got(r, d)' = Got(r, d)
  <1>0. Shut(r) /\ work[r] \in Works /\ work[r].at = "close"
    BY DEF SInv, Recorded, Typed, Closes
  <1>1. /\ Moves(r) /\ work'[r].at = IF work[r].closed + 1 = Len(work[r].sinks) THEN "done" ELSE "close"
        /\ work'[r].closed = work[r].closed + 1
        /\ Retains(r, {"stream", "single", "signal", "frame", "sinks", "taken", "raised"})
    BY ClosesMoves
  <1>2. work'[r].sinks = work[r].sinks /\ work'[r].raised = work[r].raised
    BY <1>1 DEF Retains
  <1> DEFINE i == work[r].closed + 1
             file == disk'[work[r].sinks[i]]
  <1>3. /\ Aside(r) /\ Sunk(r)' /\ Carried(r)' /\ Copied(r)'
        /\ i \in 1..Len(work[r].sinks)
        /\ file.shape = "final" /\ ~file.locked
        /\ \A j \in 1..Len(work[r].sinks) : j # i => disk'[work[r].sinks[j]] = disk[work[r].sinks[j]]
        /\ \A n \in DOMAIN disk' : n \in DOMAIN disk /\ disk'[n].frames = disk[n].frames
                                   /\ disk'[n].item = disk[n].item
        /\ \A d : Got(r, d)' = Got(r, d)
    BY <1>0, <1>1, ClosesOne DEF Closes, Retains
  <1>4. work[r].closed \in Nat /\ Len(work[r].sinks) \in Nat /\ work[r].raised # "close"
    BY <1>0, LenProperties DEF Works, Shut
  <1>5. Shut(r)'
    <2>1. work'[r].closed <= Len(work[r].sinks)
      BY <1>1, <1>3, <1>4
    <2>2. ASSUME NEW j \in 1..Len(work[r].sinks)
          PROVE  LET g == disk'[work[r].sinks[j]] IN
                 IF j <= work[r].closed + 1
                 THEN ~g.locked /\ (g.shape = "final" \/ work[r].raised = "close")
                 ELSE \/ g.shape = "growing" /\ g.locked
                      \/ g.shape = "empty" /\ ~g.locked /\ g.frames = <<>>
      <3>1. CASE j = i
        BY <1>3, <3>1
      <3>2. CASE j # i
        <4>1. disk'[work[r].sinks[j]] = disk[work[r].sinks[j]]
          BY <1>3, <3>2
        <4>2. j <= work[r].closed + 1 <=> j <= work[r].closed
          BY <1>4, <3>2
        <4> QED BY <1>0, <4>1, <4>2 DEF Shut
      <3> QED BY <3>1, <3>2
    <2>3. /\ work'[r].at = "close" => work'[r].closed < Len(work'[r].sinks)
          /\ work'[r].at = "done" => work'[r].closed = Len(work'[r].sinks)
          /\ work'[r].at \in {"close", "done"} /\ work'[r].raised # "close"
      BY <1>1, <1>2, <1>4, <2>1
    <2> QED BY <1>1, <1>2, <2>2, <2>3 DEF Shut
  <1> QED BY <1>1, <1>3, <1>5, StepKeeps, SeriesStay

LEMMA CloseRaisesKeeps ==
    ASSUME Typed, SInv, NEW r \in Recorders, CloseRaises(r)
    PROVE  /\ SInv' /\ Aside(r) /\ Moves(r)
           /\ \A d : Got(r, d)' = Got(r, d)
  <1>0. Shut(r) /\ work[r] \in Works /\ work[r].at = "close"
    BY DEF SInv, Recorded, Typed, CloseRaises
  <1>1. /\ Moves(r) /\ work'[r].at = "done" /\ work'[r].closed = work[r].closed + 1
        /\ work'[r].raised = "close"
        /\ Retains(r, {"stream", "single", "signal", "frame", "sinks", "taken"})
    BY CloseRaisesMoves
  <1>2. work'[r].sinks = work[r].sinks
    BY <1>1 DEF Retains
  <1> DEFINE i == work[r].closed + 1
             file == disk'[work[r].sinks[i]]
  <1>3. /\ Aside(r) /\ Sunk(r)' /\ Carried(r)' /\ Copied(r)'
        /\ i \in 1..Len(work[r].sinks)
        /\ file.shape = "part" /\ ~file.locked
        /\ \A j \in 1..Len(work[r].sinks) : j # i => disk'[work[r].sinks[j]] = disk[work[r].sinks[j]]
        /\ \A n \in DOMAIN disk' : n \in DOMAIN disk /\ disk'[n].frames = disk[n].frames
                                   /\ disk'[n].item = disk[n].item
        /\ \A d : Got(r, d)' = Got(r, d)
    BY <1>0, <1>1, ClosesOne DEF CloseRaises, Retains
  <1>4. work[r].closed \in Nat
    BY <1>0 DEF Works
  <1>5. Shut(r)'
    <2>1. ASSUME NEW j \in 1..Len(work[r].sinks)
          PROVE  LET g == disk'[work[r].sinks[j]] IN
                 IF j <= work[r].closed + 1
                 THEN ~g.locked
                 ELSE \/ g.shape = "growing" /\ g.locked
                      \/ g.shape = "empty" /\ ~g.locked /\ g.frames = <<>>
      <3>1. CASE j = i
        BY <1>3, <1>4, <3>1
      <3>2. CASE j # i
        <4>1. disk'[work[r].sinks[j]] = disk[work[r].sinks[j]]
          BY <1>3, <3>2
        <4>2. j <= work[r].closed + 1 <=> j <= work[r].closed
          BY <1>4, <3>2
        <4> QED BY <1>0, <4>1, <4>2 DEF Shut
      <3> QED BY <3>1, <3>2
    <2> QED BY <1>1, <1>2, <2>1 DEF Shut
  <1> QED BY <1>1, <1>3, <1>5, StepKeeps, SeriesStay

\* A recorder is at rest again.
LEMMA RestIs ==
    ASSUME Typed, NEW r \in Recorders, work' = [work EXCEPT ![r] = Idle]
    PROVE  /\ Moves(r) /\ work'[r] = Idle /\ Mine(r)' = {}
           /\ Sunk(r)' /\ Shut(r)' /\ Carried(r)' /\ Copied(r)'
  <1>1. Moves(r) /\ work'[r] = Idle
    BY IdleType, Moved
  <1>2. /\ work'[r].at = "idle" /\ work'[r].single = FALSE /\ work'[r].sinks = <<>>
        /\ work'[r].taken = <<>>
    BY <1>1, IdleIs
  <1>3. Mine(r)' = {}
    BY <1>2 DEF Mine
  <1>4. Sunk(r)' /\ Shut(r)' /\ Carried(r)' /\ Copied(r)'
    BY <1>1, <1>2, <1>3, CopiedNone DEF Sunk, Shut, Carried
  <1> QED BY <1>1, <1>3, <1>4

LEMMA RestKeeps ==
    ASSUME Typed, SInv, NEW r \in Recorders, work' = [work EXCEPT ![r] = Idle],
           UNCHANGED <<disk, cache, look>>
    PROVE  SInv' /\ Aside(r) /\ Moves(r)
  BY RestIs, QuietStep

\* What its writers held is let go of, and says what it said.
LEMMA ReleasedKeeps ==
    ASSUME Typed, SInv, NEW r \in Recorders, NEW shape \in {"part", "growing"},
           work' = [work EXCEPT ![r] = Idle], disk' = Released(r, shape), UNCHANGED <<cache, look>>
    PROVE  /\ SInv' /\ Aside(r) /\ Moves(r)
           /\ DOMAIN disk' = DOMAIN disk
           /\ \A n \in DOMAIN disk : /\ disk'[n].frames = disk[n].frames
                                     /\ disk'[n].item = disk[n].item
                                     /\ ~disk[n].locked => disk'[n] = disk[n]
  <1>0. Shut(r) /\ Sunk(r) /\ work[r] \in Works
    BY DEF SInv, Recorded, Typed
  <1> DEFINE left == {work[r].sinks[i] : i \in work[r].closed + 1..Len(work[r].sinks)}
  <1>1. /\ DOMAIN disk' = DOMAIN disk
        /\ \A n \in DOMAIN disk :
             disk'[n] = IF n \in left /\ disk[n].locked THEN Closed(disk[n], shape) ELSE disk[n]
    BY DEF Released
  <1>2. \A n \in left : n \in Mine(r) /\ n \in DOMAIN disk /\ (disk[n].locked => disk[n].shape = "growing")
    <2> SUFFICES ASSUME NEW i \in work[r].closed + 1..Len(work[r].sinks)
                 PROVE  LET n == work[r].sinks[i] IN
                        n \in Mine(r) /\ n \in DOMAIN disk /\ (disk[n].locked => disk[n].shape = "growing")
      OBVIOUS
    <2>1. work[r].closed \in Nat
      BY <1>0 DEF Works
    <2>2. i \in 1..Len(work[r].sinks) /\ ~(i <= work[r].closed)
      BY <2>1
    <2> QED BY <1>0, <2>2 DEF Shut, Mine, Sunk
  <1>3. ASSUME NEW n \in DOMAIN disk, n \in left, disk[n].locked
        PROVE  /\ disk'[n] \in Files /\ disk'[n].frames = disk[n].frames /\ disk'[n].item = disk[n].item
               /\ disk'[n].shape = shape
    <2>1. disk[n] \in Files /\ shape \in Shapes
      BY DEF Typed, Shapes
    <2>2. disk'[n] = Closed(disk[n], shape)
      BY <1>1, <1>3
    <2> HIDE DEF left
    <2> QED BY <2>1, <2>2 DEF Closed, Files
  <1> HIDE DEF left
  <1>4. \A n \in DOMAIN disk :
            /\ disk'[n] \in Files /\ disk'[n].frames = disk[n].frames /\ disk'[n].item = disk[n].item
            /\ ~disk[n].locked => disk'[n] = disk[n]
    BY <1>1, <1>3 DEF Typed
  <1>5. \A n \in DOMAIN disk : Later(n)
    <2> SUFFICES ASSUME NEW n \in DOMAIN disk, n \in left, disk[n].locked PROVE Later(n)
      BY <1>1 DEF Later
    <2>1. disk[n].shape = "growing" /\ disk[n] \in Files /\ disk'[n] \in Files
          /\ disk'[n].frames = disk[n].frames /\ disk'[n].shape = shape
      BY <1>2, <1>3 DEF Typed
    <2>2. CASE shape = "growing"
      BY <2>1, <2>2 DEF Later, Stamp
    <2>3. CASE shape = "part"
      <3>1. /\ Age(Stamp(disk[n])) = 2 * Len(disk[n].frames) + 1
            /\ Age(Stamp(disk'[n])) = 2 * Len(disk[n].frames) + 2
            /\ Len(disk[n].frames) \in Nat
        BY <2>1, <2>3, AgeIs
      <3> HIDE DEF Age
      <3> QED BY <3>1 DEF Later
    <2> QED BY <2>2, <2>3
  <1>6. Aside(r)
    <2>1. Moves(r) /\ Mine(r)' = {}
      BY RestIs
    <2>2. DOMAIN disk' \subseteq Names /\ disk' \in [DOMAIN disk' -> Files]
      <3>1. disk' = [n \in DOMAIN disk' |-> disk'[n]]
        BY DEF Released
      <3> QED BY <1>1, <1>4, <3>1 DEF Typed
    <2>3. \A n \in DOMAIN disk : n \notin Mine(r) => disk'[n] = disk[n]
      BY <1>1, <1>2
    <2> QED BY <1>1, <1>5, <2>1, <2>2, <2>3 DEF Aside, Moves
  <1>7. SInv'
    BY <1>1, <1>4, <1>6, RestIs, StepKeeps, SeriesStay
  <1> QED BY <1>1, <1>4, <1>6, <1>7, RestIs

----------------------------------------------------------------------------
(* Listing *)

\* Nothing is recorded, nothing about the recorders changes.
LEMMA DirectoryStays ==
    ASSUME SInv, UNCHANGED <<disk, work>>
    PROVE  /\ Filled' /\ Apart' /\ Recorded'
           /\ \A r : Mine(r)' = Mine(r)
           /\ \A r, d : SinkOf(r, d)' = SinkOf(r, d) /\ Got(r, d)' = Got(r, d) /\ Due(r, d)' = Due(r, d)
  <1>1. \A r : Mine(r)' = Mine(r)
    BY DEF Mine
  <1>2. \A r, d : SinkOf(r, d)' = SinkOf(r, d)
    BY DEF SinkOf
  <1>3. ASSUME NEW r, NEW d PROVE Got(r, d)' = Got(r, d)
    <2>1. (CHOOSE i \in SinkOf(r, d)' : TRUE) = (CHOOSE i \in SinkOf(r, d) : TRUE)
      BY <1>2
    <2> QED BY <1>2, <2>1 DEF Got
  <1>4. \A r, d : Due(r, d)' = Due(r, d)
    BY <1>3 DEF Due
  <1>5. Filled'
    BY DEF SInv, Filled
  <1>6. Apart'
    BY <1>1 DEF SInv, Apart
  <1>7. ASSUME NEW r \in Recorders PROVE Sunk(r)' /\ Shut(r)' /\ Carried(r)' /\ Copied(r)'
    <2>1. Sunk(r) /\ Shut(r) /\ Carried(r) /\ Copied(r)
      BY DEF SInv, Recorded
    <2>2. Sunk(r)'
      BY <1>1, <2>1 DEF Sunk
    <2>3. Shut(r)'
      BY <2>1 DEF Shut
    <2>4. Carried(r)'
      BY <1>2, <1>3, <2>1 DEF Carried
    <2>5. Copied(r)'
      <3>1. \A n \in Mine(r) : disk'[n].frames = disk[n].frames
        OBVIOUS
      <3> QED BY <1>1, <1>2, <2>1, <3>1, CopiedStays
    <2> QED BY <2>2, <2>3, <2>4, <2>5
  <1> QED BY <1>1, <1>2, <1>3, <1>4, <1>5, <1>6, <1>7 DEF Recorded

LEMMA StatsKeeps ==
    ASSUME Typed, SInv, NEW name, Stats(name)
    PROVE  SInv' /\ UNCHANGED <<disk, work>>
  <1>1. UNCHANGED <<disk, work, cache>> /\ name \in DOMAIN disk
        /\ look' = [name |-> name, stamp |-> Stamp(disk[name])]
    BY DEF Stats, IsTaken
  <1>2. look'.name \in DOMAIN disk /\ look'.stamp = Stamp(disk[look'.name])
    BY <1>1
  <1>3. \A n \in DOMAIN disk : Stamp(disk[n]) \in Marks
    BY DEF Typed, Files, Marks, Stamp
  <1>4. Listed'
    BY <1>1, <1>2, <1>3 DEF SInv, Listed, AtMost, ListingIsOfItsStamp
  <1> QED BY <1>1, <1>4, DirectoryStays DEF SInv

\* A description is of the stamp, or of a later one, which the file then keeps.
LEMMA DescribesKeeps ==
    ASSUME Typed, SInv, Describes
    PROVE  SInv' /\ UNCHANGED <<disk, work>>
  <1> DEFINE n == look.name
             said == IF IsCached(n, look.stamp) THEN cache[n].said ELSE Inspect(disk[n])
             entry == [stamp |-> look.stamp, said |-> said]
  <1>1. UNCHANGED <<disk, work>> /\ look # NoLook /\ look' = NoLook
        /\ cache' = With(cache, n, entry)
    BY DEF Describes
  <1>2. n \in DOMAIN disk /\ AtMost(look.stamp, Stamp(disk[n])) /\ Listed
    BY <1>1 DEF SInv, Listed
  <1>3. entry.stamp = look.stamp /\ entry.said = said
    OBVIOUS
  <1>4. look.stamp = Stamp(disk[n]) => said \in {Inspect(disk[n]), InUse}
    <2> HIDE DEF entry
    <2> QED BY <1>2 DEF IsCached, Listed, ListingIsOfItsStamp
  <1> HIDE DEF n, said, entry
  <1>5. /\ DOMAIN cache' = DOMAIN cache \cup {n} /\ cache'[n] = entry
        /\ \A m \in DOMAIN cache : m # n => cache'[m] = cache[m]
    BY <1>1 DEF With
  <1>6. Listed'
    <2>1. \A m \in DOMAIN cache' : AtMost(cache'[m].stamp, Stamp(disk'[m]))
      BY <1>1, <1>2, <1>3, <1>5 DEF Listed
    <2>2. ListingIsOfItsStamp'
      BY <1>1, <1>2, <1>3, <1>4, <1>5 DEF Listed, ListingIsOfItsStamp
    <2> QED BY <1>1, <1>2, <1>5, <2>1, <2>2 DEF Listed
  <1> QED BY <1>1, <1>6, DirectoryStays DEF SInv

----------------------------------------------------------------------------
(* What a recorder does by itself *)

\* A step of its own keeps recorder r where its job has it.
Proceeds(r) ==
    /\ work[r].at \in {"claim", "write", "close"} /\ work'[r].at # "idle"
    /\ work'[r].stream = work[r].stream /\ work'[r].single = work[r].single
    /\ Over(r) => Over(r)'
    /\ Over(r)' => work'[r].sinks # <<>>
    /\ work'[r].raised = "no" =>
         /\ work[r].raised = "no" /\ (Feeding(r)' <=> Feeding(r))
         /\ \A d \in Signals : Due(r, d)' = Due(r, d)
    /\ work'[r].raised # "no" /\ work[r].raised = "no" => Over(r)'
    /\ Carries(r)' => Carries(r) /\ work'[r].frame = work[r].frame
    /\ \A i \in 1..Len(work'[r].sinks) :
         work'[r].sinks[i] \in Mine(r) \/ (Carries(r) /\ work'[r].sinks[i].signal = work[r].frame.signal)
                                       \/ work[r].single

LEMMA RecordStepKeeps ==
    ASSUME Typed, SInv, NEW r \in Recorders, work[r].at # "idle" => work[r].stream \in Streams,
           TriesAnother(r) \/ Claims(r) \/ Writes(r) \/ Closes(r)
    PROVE  SInv' /\ Aside(r) /\ Proceeds(r)
  <1>0. Sunk(r) /\ Shut(r) /\ Carried(r) /\ work[r] \in Works
    BY DEF SInv, Recorded, Typed
  <1>1. \A i \in 1..Len(work[r].sinks) : work[r].sinks[i] \in Mine(r)
    BY DEF Mine
  <1>2. CASE TriesAnother(r)
    <2>1. /\ work[r].at = "claim" /\ work'[r].at = "claim"
          /\ work'[r].stream = work[r].stream /\ work'[r].single = work[r].single
          /\ work'[r].sinks = work[r].sinks /\ work'[r].raised = work[r].raised
          /\ work'[r].frame = work[r].frame
      BY <1>2, TriesAnotherMoves DEF Retains
    <2>2. SInv' /\ Aside(r) /\ \A d : Got(r, d)' = Got(r, d)
      BY <1>2, TriesAnotherKeeps
    <2>3. Carries(r)' = Carries(r)
      BY <2>1
    <2>4. \A d \in Signals : Due(r, d)' = Due(r, d)
      <3> HIDE DEF Carries
      <3> QED BY <2>1, <2>2, <2>3 DEF Due
    <2> QED BY <1>1, <2>1, <2>2, <2>3, <2>4 DEF Proceeds
  <1>3. CASE Claims(r)
    <2>0. work[r].at = "claim" /\ work[r].stream \in Streams
      BY <1>3 DEF Claims
    <2>1. /\ work'[r].at = IF work[r].single THEN "pull" ELSE "write"
          /\ work'[r].stream = work[r].stream /\ work'[r].single = work[r].single
          /\ work'[r].sinks = Append(work[r].sinks, Candidate(r)) /\ Candidate(r) \in Names
          /\ work'[r].raised = work[r].raised /\ work'[r].frame = work[r].frame
      BY <1>3, ClaimsMoves DEF Retains
    <2>2. SInv' /\ Aside(r) /\ \A d \in Signals : Due(r, d)' = Due(r, d)
      BY <1>3, <2>0, ClaimsKeeps
    <2>3. Candidate(r).signal = work[r].signal
      BY DEF Candidate
    <2>4. ~work[r].single => Carries(r) /\ work[r].frame.signal = work[r].signal
      BY <1>0, <2>0 DEF Carried
    <2>5. \A i \in 1..Len(work'[r].sinks) :
             work'[r].sinks[i] \in Mine(r) \/ work'[r].sinks[i] = Candidate(r)
      <3>1. work[r].sinks \in Seq(Names)
        BY <1>0 DEF Works
      <3> QED BY <1>1, <2>1, <3>1, OneMore
    <2>6. \A i \in 1..Len(work'[r].sinks) :
             \/ work'[r].sinks[i] \in Mine(r)
             \/ Carries(r) /\ work'[r].sinks[i].signal = work[r].frame.signal
             \/ work[r].single
      BY <2>3, <2>4, <2>5
    <2>7. ~Over(r) /\ ~Over(r)' /\ Feeding(r) /\ Feeding(r)' /\ (Carries(r)' => Carries(r))
          /\ work'[r].at # "idle"
      BY <2>0, <2>1
    <2> HIDE DEF Over, Feeding, Carries
    <2> QED BY <2>0, <2>1, <2>2, <2>6, <2>7 DEF Proceeds
  <1>4. CASE Writes(r)
    <2>0. work[r].at = "write" /\ work[r].frame \in Frames
      BY <1>0, <1>4 DEF Writes, Carried
    <2>1. /\ work'[r].at = "pull"
          /\ work'[r].stream = work[r].stream /\ work'[r].single = work[r].single
          /\ work'[r].sinks = work[r].sinks /\ work'[r].raised = work[r].raised
      BY <1>4, <2>0, WritesMoves DEF Retains
    <2>2. SInv' /\ Aside(r) /\ \A d \in Signals : Due(r, d)' = Due(r, d)
      BY <1>4, WritesKeeps
    <2> QED BY <1>1, <2>0, <2>1, <2>2 DEF Proceeds
  <1>5. CASE Closes(r)
    <2>0. work[r].at = "close"
      BY <1>5 DEF Closes
    <2>1. /\ work'[r].at \in {"close", "done"}
          /\ work'[r].stream = work[r].stream /\ work'[r].single = work[r].single
          /\ work'[r].sinks = work[r].sinks /\ work'[r].raised = work[r].raised
      BY <1>5, ClosesMoves DEF Retains
    <2>2. SInv' /\ Aside(r) /\ \A d : Got(r, d)' = Got(r, d)
      BY <1>5, ClosesKeeps
    <2>3. ~Carries(r) /\ ~Carries(r)' /\ Over(r) /\ Over(r)' /\ ~Feeding(r) /\ ~Feeding(r)' /\ work'[r].at # "idle"
      BY <2>0, <2>1
    <2> HIDE DEF Carries, Over, Feeding
    <2>4. \A d \in Signals : Due(r, d)' = Due(r, d)
      BY <2>2, <2>3 DEF Due
    <2>5. work[r].sinks # <<>>
      <3>1. work[r].closed \in Nat /\ work[r].closed < Len(work[r].sinks)
        BY <1>0, <2>0 DEF Shut, Works
      <3> QED BY <3>1
    <2>6. \A i \in 1..Len(work'[r].sinks) : work'[r].sinks[i] \in Mine(r)
      BY <1>1, <2>1
    <2>7. work'[r].sinks # <<>>
      BY <2>1, <2>5
    <2> QED BY <2>0, <2>1, <2>2, <2>3, <2>4, <2>6, <2>7 DEF Proceeds
  <1> QED BY <1>2, <1>3, <1>4, <1>5

LEMMA RecordFaultKeeps ==
    ASSUME Typed, SInv, NEW r \in Recorders, WriteRaises(r) \/ CloseRaises(r)
    PROVE  SInv' /\ Aside(r) /\ Proceeds(r)
  <1>0. Shut(r) /\ Carried(r) /\ work[r] \in Works
    BY DEF SInv, Recorded, Typed
  <1>1. \A i \in 1..Len(work[r].sinks) : work[r].sinks[i] \in Mine(r)
    BY DEF Mine
  <1>2. SInv' /\ Aside(r)
    BY WriteRaisesKeeps, CloseRaisesKeeps
  <1>3. /\ work[r].at \in {"write", "close"} /\ work'[r].at \in {"close", "done"}
        /\ work'[r].stream = work[r].stream /\ work'[r].single = work[r].single
        /\ work'[r].sinks = work[r].sinks /\ work'[r].raised # "no"
    BY WriteRaisesMoves, CloseRaisesMoves DEF Retains, WriteRaises, CloseRaises
  <1>4. work[r].sinks # <<>>
    <2>1. CASE work[r].at = "write"
      BY <1>0, <2>1 DEF Carried, SinkOf
    <2>2. CASE work[r].at = "close"
      <3>1. work[r].closed \in Nat /\ work[r].closed < Len(work[r].sinks)
        BY <1>0, <2>2 DEF Shut, Works
      <3> QED BY <3>1
    <2> QED BY <1>3, <2>1, <2>2
  <1> QED BY <1>1, <1>2, <1>3, <1>4 DEF Proceeds

----------------------------------------------------------------------------
(* A step of one job leaves the others where they were *)

\* The log gets longer, and its entries go on saying what they said but for
\* where the frames are.
Grows == Len(log) <= Len(log') /\ \A e \in 1..Len(log) : Alike(log[e], log'[e])

LEMMA SamesGrows ==
    ASSUME log \in Seq(Entries), log' = log
    PROVE  Grows
  <1>1. Len(log) \in Nat
    OBVIOUS
  <1> QED BY <1>1 DEF Grows, Alike

LEMMA AcquiresStays ==
    ASSUME NEW j, Acquires(j), work'[j] = work[j], job'[j] = job[j],
           \A d : Due(j, d)' = Due(j, d)
    PROVE  Acquires(j)'
  BY DEF Acquires

LEMMA RecordsStays ==
    ASSUME NEW v, Records(v), work'[v] = work[v], job'[v] = job[v],
           \A d : Due(v, d)' = Due(v, d)
    PROVE  Records(v)'
  BY DEF Records

LEMMA SnapshotStays ==
    ASSUME NEW s, Snapshot(s), saver'[s] = saver[s], Grows, log \in Seq(Entries), log' \in Seq(Entries),
           saver[s].entries \in Seq(Entries)
    PROVE  Snapshot(s)'
  <1> DEFINE n == Len(saver[s].entries)
  <1>1. Len(log) \in Nat /\ Len(log') \in Nat /\ n \in Nat
    OBVIOUS
  <1>2. n <= Len(log')
    BY <1>1 DEF Snapshot, Grows
  <1>3. ASSUME NEW e \in 1..n PROVE Alike(saver[s].entries[e], log'[e]) /\ Whole(saver[s].entries[e])
    <2>1. e \in 1..Len(log)
      BY <1>1 DEF Snapshot
    <2>2. Alike(saver[s].entries[e], log[e]) /\ Alike(log[e], log'[e])
      BY <2>1 DEF Snapshot, Grows
    <2> QED BY <2>2 DEF Alike, Snapshot
  <1> QED BY <1>2, <1>3 DEF Snapshot, Alike, Whole, InMemory

LEMMA SavesStays ==
    ASSUME NEW s, Saves(s), work'[s] = work[s], saver'[s] = saver[s],
           \A d : Due(s, d)' = Due(s, d), Grows, log \in Seq(Entries), log' \in Seq(Entries),
           saver[s].entries \in Seq(Entries)
    PROVE  Saves(s)'
  <1>1. saver[s].at \in {"next", "writing"} => Snapshot(s)'
    BY SnapshotStays DEF Saves
  <1>2. saver[s].at = "writing" => Writing(s)'
    BY DEF Saves, Writing
  <1> QED BY <1>1, <1>2 DEF Saves

\* What the log has on disk stays there.
LEMMA StoredStays ==
    ASSUME Typed, SInv, NEW entry, Stored(entry), NEW r \in Recorders, Aside(r)
    PROVE  Stored(entry)'
  <1> SUFFICES ASSUME NEW d \in DOMAIN entry.signals, ~InMemory(entry.signals[d])
               PROVE  LET s == entry.signals[d] IN
                      /\ s.path \in DOMAIN disk' /\ disk'[s.path].shape = "final"
                      /\ disk'[s.path].frames = Series(entry.stream, d, s.count)
                      /\ \A q \in Recorders : s.path \notin Mine(q)'
    BY DEF Stored, InMemory
  <1> DEFINE p == entry.signals[d].path
  <1>1. /\ p \in DOMAIN disk /\ disk[p].shape = "final"
        /\ disk[p].frames = Series(entry.stream, d, entry.signals[d].count)
        /\ \A q \in Recorders : p \notin Mine(q)
    BY DEF Stored
  <1> HIDE DEF p
  <1>2. p \in DOMAIN disk' /\ disk'[p] = disk[p] /\ p \notin Mine(r)'
    BY <1>1 DEF Aside
  <1>3. \A q \in Recorders : p \notin Mine(q)'
    BY <1>1, <1>2, OthersStay DEF SInv
  <1> QED BY <1>1, <1>2, <1>3 DEF p

LEMMA SettledStays ==
    ASSUME Typed, SInv, Settled, NEW r \in Recorders, Aside(r), log' = log
    PROVE  Settled'
  <1> SUFFICES ASSUME NEW e \in 1..Len(log) PROVE Stored(log[e])'
    BY DEF Settled
  <1>1. PICK entry : log[e] = entry
    OBVIOUS
  <1>2. Stored(entry)
    BY <1>1 DEF Settled
  <1>3. Stored(entry)'
    BY <1>2, StoredStays
  <1> QED BY <1>1, <1>3

\* The other jobs, when recorder r is the only one that moves.
LEMMA OthersGoOn ==
    ASSUME Typed, SInv, Jobbed, NEW r \in Recorders, Aside(r), Grows, log' \in Seq(Entries),
           \A j \in (Acquirers \cup Viewers) \ {r} : job'[j] = job[j],
           \A s \in Savers \ {r} : saver'[s] = saver[s]
    PROVE  /\ \A j \in Acquirers \ {r} : Acquires(j)'
           /\ \A v \in Viewers \ {r} : Records(v)'
           /\ \A s \in Savers \ {r} : Saves(s)'
  <1>1. \A q \in Recorders \ {r} : work'[q] = work[q] /\ (\A d : Got(q, d)' = Got(q, d))
    BY OthersStay DEF Aside, SInv
  <1>2. ASSUME NEW q \in Recorders \ {r}, NEW d PROVE Due(q, d)' = Due(q, d)
    BY <1>1 DEF Due
  <1>3. Recorders = Acquirers \cup Savers \cup Viewers
    BY JobsAssumption
  <1>4. \A j \in Acquirers \ {r} : Acquires(j)'
    BY <1>1, <1>2, <1>3, AcquiresStays DEF Jobbed
  <1>5. \A v \in Viewers \ {r} : Records(v)'
    BY <1>1, <1>2, <1>3, RecordsStays DEF Jobbed
  <1>6. ASSUME NEW s \in Savers \ {r} PROVE Saves(s)'
    <2>1. saver[s] \in Savings
      BY DEF Typed
    <2>2. saver[s].entries \in Seq(Entries) /\ log \in Seq(Entries)
      BY <2>1 DEF Savings, Typed
    <2>3. Saves(s)
      BY DEF Jobbed
    <2> QED BY <1>1, <1>2, <1>3, <2>2, <2>3, SavesStays
  <1> QED BY <1>4, <1>5, <1>6

\* A step that touches nothing of the directory is aside of everyone.
LEMMA SessionStays ==
    ASSUME Typed, SInv, UNCHANGED sessionVars, NEW r \in Recorders
    PROVE  /\ SInv' /\ Aside(r)
           /\ \A d : Due(r, d)' = Due(r, d)
  <1>1. UNCHANGED <<disk, work, cache, look>>
    BY DEF sessionVars
  <1>2. Aside(r)
    BY <1>1, DirectoryStays DEF Aside, Later, Typed
  <1>3. Listed'
    BY <1>1 DEF SInv, Listed, ListingIsOfItsStamp
  <1> QED BY <1>1, <1>2, <1>3, DirectoryStays DEF SInv

----------------------------------------------------------------------------
(* What the steps of the jobs have in common *)

LEMMA ActsKeep ==
    ASSUME IInv, NEW r \in Recorders, SInv', Aside(r),
           job' \in [Acquirers \cup Viewers -> Jobs], saver' \in [Savers -> Savings],
           \A j \in (Acquirers \cup Viewers) \ {r} : job'[j] = job[j],
           \A s \in Savers \ {r} : saver'[s] = saver[s],
           log' \in Seq(Entries), Grows, Settled', Held',
           lease' \in Acquirers \cup {Nobody}, now' \in Stamps,
           looks' \in 0..MaxActs, faults' \in 0..MaxFaults,
           r \in Acquirers => Acquires(r)',
           r \in Viewers => Records(r)',
           r \in Savers => Saves(r)'
    PROVE  IInv'
  <1>1. Typed'
    BY DEF Typed, Aside
  <1>2. /\ \A j \in Acquirers \ {r} : Acquires(j)'
        /\ \A v \in Viewers \ {r} : Records(v)'
        /\ \A s \in Savers \ {r} : Saves(s)'
    BY OthersGoOn DEF IInv
  <1>3. Jobbed'
    BY <1>2 DEF Jobbed
  <1> QED BY <1>1, <1>3 DEF IInv

\* A step that logs nothing.
LEMMA LogStays ==
    ASSUME IInv, NEW r \in Recorders, Aside(r), log' = log
    PROVE  log' \in Seq(Entries) /\ Grows /\ Settled' /\ Held'
  <1>1. log \in Seq(Entries)
    BY DEF IInv, Typed
  <1>2. Settled'
    BY SettledStays DEF IInv
  <1>3. Held'
    BY DEF IInv, Held, Whole, InMemory
  <1> QED BY <1>1, <1>2, <1>3, SamesGrows

LEMMA JobMoved ==
    ASSUME Typed, NEW j \in Acquirers \cup Viewers, NEW x \in Jobs, job' = [job EXCEPT ![j] = x]
    PROVE  /\ job' \in [Acquirers \cup Viewers -> Jobs] /\ job'[j] = x
           /\ \A i \in (Acquirers \cup Viewers) \ {j} : job'[i] = job[i]
  BY DEF Typed

LEMMA JobsExcept ==
    \A w \in Jobs :
        /\ \A x \in {"new", "lease", "series", "over", "ended", "gone"} : [w EXCEPT !.at = x] \in Jobs
        /\ \A x \in BOOLEAN : [w EXCEPT !.stored = x] \in Jobs
        /\ \A x \in Stamps : [w EXCEPT !.started = x] \in Jobs
        /\ \A x \in [Signals -> 0..MaxFrames] : [w EXCEPT !.counts = x] \in Jobs
        /\ \A x \in [Signals -> Seq(Frames)] : [w EXCEPT !.kept = x] \in Jobs
        /\ \A x \in BOOLEAN : [w EXCEPT !.failed = x] \in Jobs
        /\ \A x \in BOOLEAN : [w EXCEPT !.cancelled = x] \in Jobs
  <1> SUFFICES ASSUME NEW w \in Jobs
               PROVE  /\ \A x \in {"new", "lease", "series", "over", "ended", "gone"} : [w EXCEPT !.at = x] \in Jobs
                      /\ \A x \in BOOLEAN : [w EXCEPT !.stored = x] \in Jobs
                      /\ \A x \in Stamps : [w EXCEPT !.started = x] \in Jobs
                      /\ \A x \in [Signals -> 0..MaxFrames] : [w EXCEPT !.counts = x] \in Jobs
                      /\ \A x \in [Signals -> Seq(Frames)] : [w EXCEPT !.kept = x] \in Jobs
                      /\ \A x \in BOOLEAN : [w EXCEPT !.failed = x] \in Jobs
                      /\ \A x \in BOOLEAN : [w EXCEPT !.cancelled = x] \in Jobs
    OBVIOUS
  <1>1. /\ \A x \in {"new", "lease", "series", "over", "ended", "gone"} : [w EXCEPT !.at = x] \in Jobs
        /\ \A x \in BOOLEAN : [w EXCEPT !.stored = x] \in Jobs
        /\ \A x \in Stamps : [w EXCEPT !.started = x] \in Jobs
    BY DEF Jobs
  <1>2. /\ \A x \in [Signals -> 0..MaxFrames] : [w EXCEPT !.counts = x] \in Jobs
        /\ \A x \in [Signals -> Seq(Frames)] : [w EXCEPT !.kept = x] \in Jobs
    BY DEF Jobs
  <1>3. /\ \A x \in BOOLEAN : [w EXCEPT !.failed = x] \in Jobs
        /\ \A x \in BOOLEAN : [w EXCEPT !.cancelled = x] \in Jobs
    BY DEF Jobs
  <1> QED BY <1>1, <1>2, <1>3

LEMMA NotRunIs ==
    /\ NotRun \in Jobs
    /\ NotRun.at = "new" /\ NotRun.stored = FALSE /\ NotRun.started = 0
    /\ NotRun.failed = FALSE /\ NotRun.cancelled = FALSE
    /\ \A d \in Signals : NotRun.counts[d] = 0 /\ NotRun.kept[d] = <<>>
  <1>1. 0 \in Stamps /\ 0 \in 0..MaxFrames /\ <<>> \in Seq(Frames)
    BY DEF Stamps
  <1> DEFINE zero == [d \in Signals |-> 0]  none == [d \in Signals |-> <<>>]
  <1>2. zero \in [Signals -> 0..MaxFrames] /\ none \in [Signals -> Seq(Frames)]
    BY <1>1
  <1>3. NotRun.counts = zero /\ NotRun.kept = none
    BY DEF NotRun
  <1>4. \A d \in Signals : zero[d] = 0 /\ none[d] = <<>>
    OBVIOUS
  <1>5. NotRun \in Jobs
    <2>1. NotRun = [at |-> "new", stored |-> FALSE, started |-> 0, counts |-> zero, kept |-> none,
                    failed |-> FALSE, cancelled |-> FALSE]
      BY DEF NotRun
    <2> HIDE DEF zero, none
    <2> QED BY <1>1, <1>2, <2>1 DEF Jobs
  <1>6. /\ NotRun.at = "new" /\ NotRun.stored = FALSE /\ NotRun.started = 0
        /\ NotRun.failed = FALSE /\ NotRun.cancelled = FALSE
    BY DEF NotRun
  <1> HIDE DEF zero, none
  <1> QED BY <1>3, <1>4, <1>5, <1>6

LEMMA SeriesNone == \A stream, signal : Series(stream, signal, 0) = <<>>
  BY DEF Series

LEMMA WhoRecords ==
    /\ \A j \in Acquirers : j \in Recorders /\ j \notin Savers /\ j \notin Viewers /\ j \in Streams
                            /\ j \in Acquirers \cup Viewers
    /\ \A v \in Viewers : v \in Recorders /\ v \notin Savers /\ v \notin Acquirers /\ v \in Streams
                          /\ v \in Acquirers \cup Viewers
    /\ \A s \in Savers : s \in Recorders /\ s \notin Acquirers /\ s \notin Viewers
  BY JobsAssumption

\* A recorder that has just begun has no frames.
LEMMA NothingDue ==
    ASSUME NEW r \in Recorders, work'[r].sinks = <<>>, ~Carries(r)', NEW d
    PROVE  Due(r, d)' = 0
  <1>1. SinkOf(r, d)' = {}
    BY DEF SinkOf
  <1>2. Got(r, d)' = 0
    BY <1>1, GotNone
  <1> HIDE DEF Carries
  <1> QED BY <1>2 DEF Due

\* A save or an acquisition moves, and the rest of the state is typed.
LEMMA AcquirerActs ==
    ASSUME IInv, NEW j \in Acquirers, SInv', Aside(j),
           NEW x \in Jobs, job' = [job EXCEPT ![j] = x],
           UNCHANGED <<saver, log>>, lease' \in Acquirers \cup {Nobody}, now' \in Stamps,
           looks' = looks, faults' \in 0..MaxFaults, Acquires(j)'
    PROVE  IInv'
  <1>1. Typed
    BY DEF IInv
  <1>2. /\ job' \in [Acquirers \cup Viewers -> Jobs]
        /\ \A i \in (Acquirers \cup Viewers) \ {j} : job'[i] = job[i]
    BY <1>1, WhoRecords, JobMoved
  <1>3. saver' \in [Savers -> Savings] /\ looks' \in 0..MaxActs
    BY <1>1 DEF Typed
  <1>4. log' \in Seq(Entries) /\ Grows /\ Settled' /\ Held'
    BY LogStays, WhoRecords
  <1> QED BY <1>2, <1>3, <1>4, WhoRecords, ActsKeep

LEMMA ViewerActs ==
    ASSUME IInv, NEW v \in Viewers, SInv', Aside(v),
           NEW x \in Jobs, job' = [job EXCEPT ![v] = x],
           UNCHANGED <<saver, log, lease, looks, faults>>, now' \in Stamps, Records(v)'
    PROVE  IInv'
  <1>1. Typed
    BY DEF IInv
  <1>2. /\ job' \in [Acquirers \cup Viewers -> Jobs]
        /\ \A i \in (Acquirers \cup Viewers) \ {v} : job'[i] = job[i]
    BY <1>1, WhoRecords, JobMoved
  <1>3. saver' \in [Savers -> Savings] /\ looks' \in 0..MaxActs /\ lease' \in Acquirers \cup {Nobody}
        /\ faults' \in 0..MaxFaults
    BY <1>1 DEF Typed
  <1>4. log' \in Seq(Entries) /\ Grows /\ Settled' /\ Held'
    BY LogStays, WhoRecords
  <1> QED BY <1>2, <1>3, <1>4, WhoRecords, ActsKeep

----------------------------------------------------------------------------
(* An acquisition *)

\* What a stored acquisition's recorder is at while its frames arrive.
LEMMA Pulls ==
    ASSUME IInv, NEW j \in Acquirers, job[j].at \in {"lease", "series"}, job[j].stored, work[j].at = "pull"
    PROVE  /\ work[j].single = FALSE /\ work[j].stream = j /\ work[j].raised = "no"
           /\ job[j].failed = FALSE /\ work[j] \in Works
           /\ \A d \in Signals : Got(j, d) = job[j].counts[d]
  <1>1. Acquires(j) /\ Shut(j) /\ work[j] \in Works /\ job[j] \in Jobs
    BY WhoRecords DEF IInv, Jobbed, SInv, Recorded, Typed
  <1>2. /\ work[j].single = FALSE /\ work[j].stream = j /\ work[j].raised = "no"
        /\ job[j].failed = FALSE
    BY <1>1 DEF Acquires, Shut, Works, Jobs
  <1>3. ASSUME NEW d \in Signals PROVE Got(j, d) = job[j].counts[d]
    <2>1. Due(j, d) = job[j].counts[d]
      BY <1>1, <1>2 DEF Acquires
    <2>2. Due(j, d) = Got(j, d) + 0
      BY DEF Due
    <2>3. Got(j, d) \in Nat
      BY WhoRecords, GotIsNat DEF IInv
    <2> QED BY <2>1, <2>2, <2>3
  <1> QED BY <1>1, <1>2, <1>3

LEMMA StartAcquisitionKeeps ==
    ASSUME IInv, NEW j \in Acquirers, NEW stored \in BOOLEAN, StartAcquisition(j, stored)
    PROVE  IInv'
  <1>0. /\ Typed /\ SInv /\ j \in Recorders /\ j \in Streams /\ Acquires(j) /\ job[j].at = "new"
        /\ UNCHANGED <<saver, log, lease, looks, faults>>
    BY WhoRecords DEF IInv, Jobbed, StartAcquisition
  <1>1. PICK t \in Stamps : now' = t
    BY <1>0 DEF StartAcquisition, Starts, Typed, Stamps
  <1> DEFINE x == [NotRun EXCEPT !.at = "lease", !.stored = stored, !.started = t]
  <1>2. x \in Jobs
    BY <1>1, NotRunIs, JobsExcept
  <1>3. job' = [job EXCEPT ![j] = x]
    BY <1>1 DEF StartAcquisition
  <1>4. /\ x.at = "lease" /\ x.stored = stored /\ x.failed = FALSE
        /\ \A d \in Signals : x.counts[d] = 0 /\ x.kept[d] = <<>>
    BY NotRunIs DEF Jobs
  <1> HIDE DEF x
  <1>5. job'[j] = x
    BY <1>0, <1>2, <1>3, JobMoved, WhoRecords
  <1>6. SInv' /\ Aside(j) /\ Acquires(j)'
    <2>1. CASE stored
      <3>1. Begins(j, j, t, NoIndex) /\ NoIndex \in 0..MaxIndex
        BY <1>1, <2>1 DEF StartAcquisition, NoIndex
      <3>2. SInv' /\ Aside(j)
        BY <1>0, <3>1, BeginsKeeps
      <3>3. /\ work'[j].at = "pull" /\ work'[j].stream = j /\ work'[j].single = FALSE
            /\ work'[j].sinks = <<>>
        BY <1>0, <3>1, BeginsMoves
      <3>4. \A d : Due(j, d)' = 0
        BY <1>0, <3>3, NothingDue
      <3> QED BY <1>4, <1>5, <2>1, <3>2, <3>3, <3>4 DEF Acquires
    <2>2. CASE ~stored
      <3>1. UNCHANGED sessionVars
        BY <2>2 DEF StartAcquisition
      <3>2. SInv' /\ Aside(j)
        BY <1>0, <3>1, SessionStays
      <3>3. work'[j].at = "idle"
        BY <1>0, <3>1 DEF Acquires, sessionVars
      <3> QED BY <1>4, <1>5, <2>2, <3>2, <3>3, SeriesNone DEF Acquires
    <2> QED BY <2>1, <2>2
  <1> QED BY <1>0, <1>1, <1>2, <1>3, <1>6, AcquirerActs DEF Typed

LEMMA TakesLeaseKeeps ==
    ASSUME IInv, NEW j \in Acquirers, TakesLease(j)
    PROVE  IInv'
  <1>0. /\ Typed /\ SInv /\ j \in Recorders /\ Acquires(j) /\ job[j].at = "lease" /\ job[j] \in Jobs
        /\ UNCHANGED <<sessionVars, saver, log, now, looks, faults>> /\ lease' = j
    BY WhoRecords DEF IInv, Jobbed, TakesLease, Typed
  <1> DEFINE x == [job[j] EXCEPT !.at = "series"]
  <1>1. x \in Jobs
    BY <1>0, JobsExcept
  <1>2. job' = [job EXCEPT ![j] = x]
    BY <1>0 DEF TakesLease, Typed
  <1>3. /\ x.at = "series" /\ x.stored = job[j].stored /\ x.failed = job[j].failed
        /\ x.counts = job[j].counts /\ x.kept = job[j].kept
    BY <1>0 DEF Jobs
  <1> HIDE DEF x
  <1>4. job'[j] = x
    BY <1>0, <1>1, <1>2, JobMoved, WhoRecords
  <1>5. SInv' /\ Aside(j) /\ \A d : Due(j, d)' = Due(j, d)
    BY <1>0, SessionStays
  <1>6. Acquires(j)'
    BY <1>0, <1>3, <1>4, <1>5 DEF Acquires, sessionVars
  <1> QED BY <1>0, <1>1, <1>2, <1>5, <1>6, AcquirerActs DEF Typed

\* The series is over, with an error or without.
LEMMA SeriesStops ==
    ASSUME IInv, NEW j \in Acquirers, NEW raises \in BOOLEAN, job[j].at \in {"lease", "series"},
           job' = [job EXCEPT ![j].at = "over", ![j].failed = raises],
           IF job[j].stored THEN StreamStops(j, raises) ELSE UNCHANGED sessionVars,
           UNCHANGED <<saver, log, now, looks>>, lease' \in Acquirers \cup {Nobody},
           faults' \in 0..MaxFaults
    PROVE  IInv'
  <1>0. /\ Typed /\ SInv /\ j \in Recorders /\ Acquires(j) /\ job[j] \in Jobs
    BY WhoRecords DEF IInv, Jobbed, Typed
  <1> DEFINE x == [job[j] EXCEPT !.at = "over", !.failed = raises]
  <1>1. x \in Jobs
    BY <1>0, JobsExcept
  <1>2. job' = [job EXCEPT ![j] = x]
    BY <1>0 DEF Typed
  <1>3. /\ x.at = "over" /\ x.stored = job[j].stored /\ x.failed = raises
        /\ x.counts = job[j].counts /\ x.kept = job[j].kept
    BY <1>0 DEF Jobs
  <1> HIDE DEF x
  <1>4. job'[j] = x
    BY <1>0, <1>1, <1>2, JobMoved, WhoRecords
  <1>5. SInv' /\ Aside(j) /\ Acquires(j)'
    <2>1. CASE job[j].stored
      <3>1. StreamStops(j, raises) /\ work[j].at = "pull"
        BY <2>1 DEF StreamStops
      <3>2. /\ work[j].single = FALSE /\ work[j].stream = j
            /\ \A d \in Signals : Got(j, d) = job[j].counts[d]
        BY <2>1, <3>1, Pulls
      <3>3. SInv' /\ Aside(j) /\ \A d : Got(j, d)' = Got(j, d)
        BY <1>0, <3>1, <3>2, StreamStopsKeeps
      <3>4. /\ work'[j].at \in {"close", "done"} /\ work'[j].stream = j /\ work'[j].single = FALSE
        BY <1>0, <3>1, <3>2, StreamStopsMoves DEF Retains
      <3>5. \A d \in Signals : Due(j, d)' = job[j].counts[d]
        <4> SUFFICES ASSUME NEW d \in Signals PROVE Due(j, d)' = job[j].counts[d]
          OBVIOUS
        <4>1. Due(j, d)' = Got(j, d)' + 0
          BY <3>4 DEF Due
        <4>2. Got(j, d) \in Nat
          BY <1>0, GotIsNat
        <4> QED BY <3>2, <3>3, <4>1, <4>2
      <3>6. Over(j)' /\ work'[j].at # "idle" /\ work'[j].at # "pull"
        BY <3>4
      <3>7. job'[j].at = "over" /\ job'[j].stored /\ \A d \in Signals : Due(j, d)' = job'[j].counts[d]
        BY <1>3, <1>4, <2>1, <3>5
      <3> HIDE DEF Carries, Feeding, Over
      <3>8. Acquires(j)'
        BY <3>4, <3>6, <3>7 DEF Acquires
      <3> QED BY <3>3, <3>8
    <2>2. CASE ~job[j].stored
      <3>1. UNCHANGED sessionVars
        BY <2>2
      <3>2. SInv' /\ Aside(j) /\ work'[j] = work[j]
        BY <1>0, <3>1, SessionStays DEF sessionVars
      <3> QED BY <1>0, <1>3, <1>4, <2>2, <3>2 DEF Acquires
    <2> QED BY <2>1, <2>2
  <1>6. now' \in Stamps
    BY <1>0 DEF Typed
  <1> QED BY <1>1, <1>2, <1>5, <1>6, AcquirerActs

LEMMA IsRefusedKeeps ==
    ASSUME IInv, NEW j \in Acquirers, IsRefused(j)
    PROVE  IInv'
  <1>1. /\ lease' \in Acquirers \cup {Nobody} /\ faults' \in 0..MaxFaults
        /\ UNCHANGED <<saver, log, now, looks>>
    BY DEF IsRefused, IInv, Typed
  <1> QED BY <1>1, SeriesStops DEF IsRefused

LEMMA SeriesEndsKeeps ==
    ASSUME IInv, NEW j \in Acquirers, NEW raises \in BOOLEAN, SeriesEnds(j, raises)
    PROVE  IInv'
  <1>1. faults' \in 0..MaxFaults
    <2>1. faults \in 0..MaxFaults
      BY DEF IInv, Typed
    <2>2. CASE raises /\ lease = j
      <3>1. faults < MaxFaults /\ faults' = faults + 1
        BY <2>2 DEF SeriesEnds
      <3>2. MaxFaults \in Nat
        BY JobsAssumption
      <3> QED BY <2>1, <3>1, <3>2
    <2>3. CASE ~(raises /\ lease = j)
      BY <2>1, <2>3 DEF SeriesEnds
    <2> QED BY <2>2, <2>3
  <1>2. lease' \in Acquirers \cup {Nobody} /\ UNCHANGED <<saver, log, now, looks>>
    BY DEF SeriesEnds, LetsGo, IInv, Typed
  <1>3. /\ job[j].at = "series" /\ job' = [job EXCEPT ![j].at = "over", ![j].failed = raises]
        /\ IF job[j].stored THEN StreamStops(j, raises) ELSE UNCHANGED sessionVars
    BY DEF SeriesEnds
  <1> QED BY <1>1, <1>2, <1>3, SeriesStops

\* As long as fewer frames were seen than a stream can have, no signal has all.
LEMMA SeenBounds ==
    ASSUME Typed, NEW j \in Acquirers, NEW d \in Signals, Seen(j) < MaxFrames
    PROVE  job[j].counts[d] \in 0..MaxFrames /\ job[j].counts[d] + 1 \in 1..MaxFrames
  <1> DEFINE seen == {p \in Signals \X (1..MaxFrames) : p[2] <= job[j].counts[p[1]]}
             f == [i \in 1..MaxFrames |-> <<d, i>>]
  <1>1. job[j].counts[d] \in 0..MaxFrames
    <2>1. job[j] \in Jobs
      BY WhoRecords DEF Typed
    <2> QED BY <2>1 DEF Jobs
  <1>2. IsFiniteSet(seen) /\ Cardinality(seen) \in Nat
    <2>1. IsFiniteSet(Signals)
      BY FiniteAssumption, FS_AddElement DEF Signals
    <2>2. IsFiniteSet(1..MaxFrames)
      BY FS_Interval
    <2>3. IsFiniteSet(Signals \X (1..MaxFrames))
      BY <2>1, <2>2, FS_Product
    <2> QED BY <2>3, FS_Subset, FS_CardinalityType
  <1>3. Cardinality(seen) < MaxFrames
    BY DEF Seen
  <1>4. job[j].counts[d] # MaxFrames
    <2> SUFFICES ASSUME job[j].counts[d] = MaxFrames PROVE FALSE
      OBVIOUS
    <2>1. f \in Injection(1..MaxFrames, seen)
      <3>1. \A i \in 1..MaxFrames : <<d, i>> \in seen
        OBVIOUS
      <3>2. f \in [1..MaxFrames -> seen]
        BY <3>1
      <3>3. \A a, b \in 1..MaxFrames : f[a] = f[b] => a = b
        OBVIOUS
      <3> HIDE DEF f, seen
      <3> QED BY <3>2, <3>3 DEF Injection, IsInjective
    <2> HIDE DEF f, seen
    <2>2. Cardinality(1..MaxFrames) <= Cardinality(seen)
      BY <1>2, <2>1, FS_Injection
    <2>3. Cardinality(1..MaxFrames) = MaxFrames
      BY FS_Interval
    <2> QED BY <1>2, <1>3, <2>2, <2>3
  <1> QED BY <1>1, <1>4

LEMMA YieldsKeeps ==
    ASSUME IInv, NEW j \in Acquirers, NEW d \in Datasets, Yields(j, d)
    PROVE  IInv'
  <1> DEFINE count == job[j].counts[d] + 1
             frame == [stream |-> j, signal |-> d, place |-> count]
             kept == IF ~job[j].stored \/ job[j].kept[d] = <<>> THEN Append(job[j].kept[d], frame)
                     ELSE job[j].kept[d]
             counts == [job[j].counts EXCEPT ![d] = count]
             keeps == [job[j].kept EXCEPT ![d] = kept]
             x == [job[j] EXCEPT !.counts = counts, !.kept = keeps]
  <1>0. /\ Typed /\ SInv /\ j \in Recorders /\ j \in Streams /\ Acquires(j) /\ job[j] \in Jobs
        /\ job[j].at = "series" /\ d \in Signals
        /\ UNCHANGED <<saver, log, lease, now, looks, faults>>
    BY WhoRecords DEF IInv, Jobbed, Typed, Yields, Signals
  <1>1. count \in 1..MaxFrames /\ count \in 0..MaxFrames /\ job[j].counts[d] \in Nat
    BY <1>0, SeenBounds DEF Yields
  <1>2. frame \in Frames
    BY <1>0, <1>1 DEF Frames
  <1>3. /\ job[j].counts \in [Signals -> 0..MaxFrames] /\ job[j].kept \in [Signals -> Seq(Frames)]
        /\ job[j].kept[d] \in Seq(Frames)
    BY <1>0 DEF Jobs
  <1>4. counts \in [Signals -> 0..MaxFrames] /\ keeps \in [Signals -> Seq(Frames)]
    <2>1. kept \in Seq(Frames)
      <3> HIDE DEF frame
      <3> QED BY <1>2, <1>3
    <2> HIDE DEF kept, count
    <2> QED BY <1>1, <1>3, <2>1
  <1>5. job' = [job EXCEPT ![j] = x]
    <2>1. job' = [job EXCEPT ![j].counts[d] = @ + 1,
                             ![j].kept[d] = IF ~job[j].stored \/ @ = <<>> THEN Append(@, frame) ELSE @]
      BY DEF Yields, Keeps
    <2> HIDE DEF frame
    <2> QED BY <1>0, <2>1 DEF Typed
  <1>6. x \in Jobs /\ x.at = "series" /\ x.stored = job[j].stored /\ x.failed = job[j].failed
        /\ x.counts = counts /\ x.kept = keeps
    <2> HIDE DEF counts, keeps
    <2>1. x \in Jobs
      BY <1>0, <1>4, JobsExcept
    <2> QED BY <1>0, <2>1 DEF Jobs
  <1>7. /\ counts[d] = count /\ keeps[d] = kept
        /\ \A e \in Signals \ {d} : counts[e] = job[j].counts[e] /\ keeps[e] = job[j].kept[e]
    <2> HIDE DEF count, kept
    <2> QED BY <1>0, <1>3
  <1>8. frame.stream = j /\ frame.signal = d /\ frame.place = count
    OBVIOUS
  <1> HIDE DEF x, counts, keeps
  <1>9. job'[j] = x
    BY <1>0, <1>5, <1>6, JobMoved, WhoRecords
  <1>10. SInv' /\ Aside(j) /\ Acquires(j)'
    <2>1. CASE job[j].stored
      <3> HIDE DEF frame
      <3>1. Offers(j, frame) /\ work[j].at = "pull"
        BY <2>1 DEF Yields, Offers, frame
      <3>2. /\ work[j].single = FALSE /\ work[j].stream = j /\ work[j].raised = "no"
            /\ job[j].failed = FALSE
            /\ \A e \in Signals : Got(j, e) = job[j].counts[e]
        BY <1>0, <2>1, <3>1, Pulls
      <3>3. SInv' /\ Aside(j) /\ \A e : Got(j, e)' = Got(j, e)
        BY <1>0, <1>2, <1>8, <3>1, <3>2, OffersKeeps
      <3>4. /\ work'[j].at \in {"write", "claim"} /\ work'[j].stream = j /\ work'[j].single = FALSE
            /\ work'[j].frame = frame /\ work'[j].raised = "no"
        BY <1>0, <1>2, <3>1, <3>2, OffersMoves DEF Retains
      <3>5. ASSUME NEW e \in Signals PROVE Due(j, e)' = counts[e]
        <4>1. Due(j, e)' = Got(j, e)' + IF d = e THEN 1 ELSE 0
          BY <1>8, <3>4 DEF Due
        <4>2. Got(j, e) \in Nat
          BY <1>0, GotIsNat
        <4>3. Got(j, e)' = job[j].counts[e]
          BY <3>2, <3>3
        <4> QED BY <1>7, <3>3, <4>1, <4>2, <4>3
      <3>6. Feeding(j)' /\ work'[j].at # "idle"
        BY <3>4
      <3>7. job'[j].at = "series" /\ job'[j].failed = FALSE /\ job'[j].stored
            /\ \A e \in Signals : Due(j, e)' = job'[j].counts[e]
        BY <1>6, <1>9, <2>1, <3>2, <3>5
      <3> HIDE DEF Feeding, Carries, Over
      <3>8. Acquires(j)'
        BY <3>4, <3>6, <3>7 DEF Acquires
      <3> QED BY <3>3, <3>8
    <2>2. CASE ~job[j].stored
      <3>1. UNCHANGED sessionVars
        BY <2>2 DEF Yields
      <3>2. SInv' /\ Aside(j) /\ work'[j] = work[j]
        BY <1>0, <3>1, SessionStays DEF sessionVars
      <3>3. \A e \in Signals : job[j].kept[e] = Series(j, e, job[j].counts[e])
        BY <1>0, <2>2 DEF Acquires
      <3>4. kept = Series(j, d, count)
        BY <1>0, <1>1, <2>2, <3>3, SeriesIs
      <3> HIDE DEF kept, count
      <3>5. \A e \in Signals : keeps[e] = Series(j, e, counts[e])
        BY <1>7, <3>3, <3>4
      <3>6. /\ job'[j].at = "series" /\ job'[j].failed = job[j].failed /\ ~job'[j].stored
            /\ \A e \in Signals : job'[j].kept[e] = Series(j, e, job'[j].counts[e])
        BY <1>6, <1>9, <2>2, <3>5
      <3>7. work'[j].at = "idle" /\ ~job'[j].failed
        BY <1>0, <2>2, <3>2, <3>6 DEF Acquires
      <3>8. Acquires(j)'
        BY <3>6, <3>7 DEF Acquires
      <3> QED BY <3>2, <3>8
    <2> QED BY <2>1, <2>2
  <1> QED BY <1>0, <1>5, <1>6, <1>10, AcquirerActs DEF Typed

\* The paths a recorder returns are of its files, one per signal that has one.
LEMMA PathsAre ==
    ASSUME Typed, SInv, NEW r \in Recorders
    PROVE  /\ \A d : d \in DOMAIN PathsOf(r) <=> SinkOf(r, d) # {}
           /\ \A d \in DOMAIN PathsOf(r) :
                LET p == PathsOf(r)[d] IN
                /\ p \in Mine(r) /\ p \in DOMAIN disk /\ p \in Names /\ p.signal = d
                /\ disk[p].item[2] = work[r].stream /\ Got(r, d) = Len(disk[p].frames)
  <1>0. Sunk(r)
    BY DEF SInv, Recorded
  <1>1. \A d : d \in DOMAIN PathsOf(r) <=> SinkOf(r, d) # {}
    BY DEF PathsOf, SinkOf
  <1>2. ASSUME NEW d \in DOMAIN PathsOf(r)
        PROVE  LET p == PathsOf(r)[d] IN
               /\ p \in Mine(r) /\ p \in DOMAIN disk /\ p \in Names /\ p.signal = d
               /\ disk[p].item[2] = work[r].stream /\ Got(r, d) = Len(disk[p].frames)
    <2>1. PICK i \in 1..Len(work[r].sinks) : i = CHOOSE k \in SinkOf(r, d) : TRUE
      <3>1. (CHOOSE k \in SinkOf(r, d) : TRUE) \in SinkOf(r, d)
        BY <1>1
      <3>2. (CHOOSE k \in SinkOf(r, d) : TRUE) \in 1..Len(work[r].sinks)
        BY <3>1 DEF SinkOf
      <3> QED BY <3>2
    <2>2. work[r].sinks[i].signal = d
      <3>1. i \in SinkOf(r, d)
        BY <1>1, <2>1
      <3> QED BY <3>1 DEF SinkOf
    <2>3. PathsOf(r)[d] = work[r].sinks[i]
      BY <2>1 DEF PathsOf
    <2>4. work[r].sinks[i] \in Mine(r)
      BY DEF Mine
    <2>5. Got(r, d) = Len(disk[work[r].sinks[i]].frames)
      BY <1>0, <2>2, GotIs DEF Sunk
    <2> QED BY <1>0, <2>2, <2>3, <2>4, <2>5 DEF Sunk, Typed
  <1> QED BY <1>1, <1>2

\* A recorder that is done and did not raise has whole files.
LEMMA DoneIsWhole ==
    ASSUME Typed, SInv, NEW r \in Recorders, work[r].at = "done", work[r].raised # "close",
           NEW n \in Mine(r)
    PROVE  disk[n].shape = "final" /\ ~disk[n].locked
  <1>1. Shut(r) /\ work[r] \in Works
    BY DEF SInv, Recorded, Typed
  <1>2. PICK i \in 1..Len(work[r].sinks) : n = work[r].sinks[i]
    BY DEF Mine
  <1>3. work[r].closed = Len(work[r].sinks) /\ Len(work[r].sinks) \in Nat
    BY <1>1, LenProperties DEF Shut, Works
  <1>4. i <= work[r].closed
    BY <1>3
  <1> QED BY <1>1, <1>2, <1>4 DEF Shut

\* A name is a path.
LEMMA NamesArePaths == \A n \in Names : n # NoPath
  <1> SUFFICES ASSUME NEW n \in Names PROVE n # NoPath
    OBVIOUS
  <1>1. n.index \in 1..MaxIndex
    BY DEF Names
  <1>2. NoPath.index = 0
    BY DEF NoPath, NoIndex
  <1> QED BY <1>1, <1>2

\* The log with one more entry.
LEMMA LogsKeeps ==
    ASSUME IInv, NEW r \in Recorders, Aside(r), NEW entry \in Entries, Logs(entry),
           Stored(entry)', Whole(entry)
    PROVE  log' \in Seq(Entries) /\ Grows /\ Settled' /\ Held'
  <1>0. log \in Seq(Entries) /\ Typed /\ SInv /\ Settled /\ Held
    BY DEF IInv, Typed
  <1>1. /\ Len(log) \in Nat /\ Len(log') = Len(log) + 1 /\ log' \in Seq(Entries)
        /\ 1..Len(log') = (1..Len(log)) \cup {Len(log) + 1}
        /\ \A i \in 1..Len(log) : log'[i] = log[i]
        /\ log'[Len(log) + 1] = entry
    BY <1>0, OneMore DEF Logs
  <1>2. Grows
    BY <1>1 DEF Grows, Alike
  <1>3. ASSUME NEW e \in 1..Len(log') PROVE Stored(log[e])'
    <2>1. CASE e \in 1..Len(log)
      <3>1. PICK old : log[e] = old
        OBVIOUS
      <3>2. Stored(old)
        BY <1>0, <2>1, <3>1 DEF Settled
      <3>3. Stored(old)'
        BY <1>0, <3>2, StoredStays
      <3> QED BY <1>1, <2>1, <3>1, <3>3
    <2>2. CASE e = Len(log) + 1
      BY <1>1, <2>2
    <2> QED BY <1>1, <2>1, <2>2
  <1>4. Held'
    BY <1>0, <1>1 DEF Held, Whole, InMemory
  <1> QED BY <1>1, <1>2, <1>3, <1>4 DEF Settled

\* What an acquisition that did not raise logs: all of it, in memory or on disk.
LEMMA EntryIs ==
    ASSUME IInv, NEW j \in Acquirers, job[j].at \in {"series", "over"}, ~job[j].failed,
           IF job[j].stored THEN work[j].at = "done" /\ work[j].raised = "no" ELSE work[j].at = "idle"
    PROVE  LET entry == EntryOf(j, PathsOf(j)) IN
           /\ entry \in Entries /\ Whole(entry) /\ entry.stream = j
           /\ \A d \in DOMAIN entry.signals :
                LET s == entry.signals[d] IN
                ~InMemory(s) =>
                    /\ s.path \in Mine(j) /\ s.path \in DOMAIN disk /\ disk[s.path].shape = "final"
                    /\ ~disk[s.path].locked
                    /\ disk[s.path].frames = Series(j, d, s.count)
  <1> DEFINE paths == PathsOf(j)
             seen == {d \in Signals : job[j].counts[d] > 0}
             said(d) == [count |-> job[j].counts[d],
                         frames |-> IF d \in DOMAIN paths THEN <<>> ELSE job[j].kept[d],
                         path |-> IF d \in DOMAIN paths THEN paths[d] ELSE NoPath]
             signals == [d \in seen |-> said(d)]
             entry == [stream |-> j, started |-> job[j].started, signals |-> signals]
  <1>0. /\ Typed /\ SInv /\ j \in Recorders /\ j \in Streams /\ Acquires(j) /\ job[j] \in Jobs
    BY WhoRecords DEF IInv, Jobbed, Typed
  <1>1. EntryOf(j, paths) = entry
    BY DEF EntryOf
  <1>2. /\ \A d : d \in DOMAIN paths <=> SinkOf(j, d) # {}
        /\ \A d \in DOMAIN paths : paths[d] \in Mine(j) /\ paths[d] \in DOMAIN disk
                                   /\ paths[d] \in Names /\ paths[d].signal = d
                                   /\ disk[paths[d]].item[2] = work[j].stream
                                   /\ Got(j, d) = Len(disk[paths[d]].frames)
    <2> HIDE DEF paths
    <2>1. paths = PathsOf(j)
      BY DEF paths
    <2> QED BY <1>0, <2>1, PathsAre
  <1> HIDE DEF paths
  <1>3. ASSUME NEW d \in seen
        PROVE  /\ said(d) \in Datums
               /\ InMemory(said(d)) => said(d).frames = Series(j, d, said(d).count)
               /\ ~InMemory(said(d)) =>
                    /\ said(d).path \in Mine(j) /\ said(d).path \in DOMAIN disk
                    /\ disk[said(d).path].shape = "final" /\ ~disk[said(d).path].locked
                    /\ disk[said(d).path].frames = Series(j, d, said(d).count)
    <2>1. d \in Signals /\ job[j].counts[d] \in 1..MaxFrames /\ job[j].kept[d] \in Seq(Frames)
      BY <1>0 DEF Jobs
    <2>2. CASE d \in DOMAIN paths
      <3>1. said(d) = [count |-> job[j].counts[d], frames |-> <<>>, path |-> paths[d]]
        BY <2>2
      <3>2. paths[d] # NoPath /\ paths[d] \in Names
        BY <1>2, <2>2, NamesArePaths
      <3>3. said(d) \in Datums /\ ~InMemory(said(d)) /\ said(d).path = paths[d]
            /\ said(d).count = job[j].counts[d]
        BY <2>1, <3>1, <3>2 DEF Datums, InMemory
      <3>4. job[j].stored
        <4> SUFFICES ASSUME ~job[j].stored PROVE FALSE
          OBVIOUS
        <4>1. work[j] = Idle
          <5>1. Shut(j)
            BY <1>0 DEF SInv, Recorded
          <5> QED BY <5>1 DEF Shut
        <4>2. SinkOf(j, d) = {}
          BY <4>1, IdleIs DEF SinkOf
        <4> QED BY <1>2, <2>2, <4>2
      <3>5. work[j].stream = j /\ work[j].at = "done" /\ work[j].raised = "no"
        BY <1>0, <3>4 DEF Acquires
      <3>6. disk[paths[d]].shape = "final" /\ ~disk[paths[d]].locked
        BY <1>0, <1>2, <2>2, <3>5, DoneIsWhole
      <3>7. Len(disk[paths[d]].frames) = job[j].counts[d]
        <4>1. Due(j, d) = job[j].counts[d]
          BY <1>0, <2>1, <3>4, <3>5 DEF Acquires
        <4>2. Due(j, d) = Got(j, d) + 0
          BY <3>5 DEF Due
        <4>3. Got(j, d) \in Nat
          BY <1>0, GotIsNat
        <4> QED BY <1>2, <2>2, <4>1, <4>2, <4>3
      <3>8. disk[paths[d]].frames = Series(j, d, job[j].counts[d])
        BY <1>0, <1>2, <2>2, <3>5, <3>7 DEF SInv, Filled
      <3> HIDE DEF said
      <3> QED BY <1>2, <2>2, <3>3, <3>6, <3>8
    <2>3. CASE d \notin DOMAIN paths
      <3>1. said(d) = [count |-> job[j].counts[d], frames |-> job[j].kept[d], path |-> NoPath]
        BY <2>3
      <3>2. said(d) \in Datums /\ InMemory(said(d)) /\ said(d).frames = job[j].kept[d]
            /\ said(d).count = job[j].counts[d]
        BY <2>1, <3>1 DEF Datums, InMemory
      <3>3. ~job[j].stored
        <4> SUFFICES ASSUME job[j].stored PROVE FALSE
          OBVIOUS
        <4>1. Due(j, d) = job[j].counts[d]
          BY <1>0, <2>1 DEF Acquires
        <4>2. Due(j, d) = 0
          <5>1. SinkOf(j, d) = {}
            BY <1>2, <2>3
          <5>2. Got(j, d) = 0
            BY <1>0, <5>1, GotNone
          <5> QED BY <5>2 DEF Due
        <4> QED BY <2>1, <4>1, <4>2
      <3>4. job[j].kept[d] = Series(j, d, job[j].counts[d])
        BY <1>0, <2>1, <3>3 DEF Acquires
      <3> HIDE DEF said
      <3> QED BY <3>2, <3>4
    <2> QED BY <2>2, <2>3
  <1> HIDE DEF said
  <1>4. DOMAIN signals = seen /\ \A d \in seen : signals[d] = said(d)
    OBVIOUS
  <1>5. signals \in UNION {[D -> Datums] : D \in SUBSET Signals}
    <2>1. seen \in SUBSET Signals
      OBVIOUS
    <2>2. signals \in [seen -> Datums]
      <3> HIDE DEF seen
      <3> QED BY <1>3
    <2> HIDE DEF seen, signals
    <2> QED BY <2>1, <2>2
  <1> HIDE DEF signals, seen
  <1>6. entry \in Entries /\ entry.stream = j /\ entry.signals = signals
    <2>1. job[j].started \in Stamps
      BY <1>0 DEF Jobs
    <2> QED BY <1>0, <1>5, <2>1 DEF Entries
  <1> HIDE DEF entry
  <1>7. Whole(entry)
    BY <1>3, <1>4, <1>6 DEF Whole
  <1>8. \A d \in DOMAIN entry.signals :
            LET s == entry.signals[d] IN
            ~InMemory(s) =>
                /\ s.path \in Mine(j) /\ s.path \in DOMAIN disk /\ disk[s.path].shape = "final"
                /\ ~disk[s.path].locked
                /\ disk[s.path].frames = Series(j, d, s.count)
    BY <1>3, <1>4, <1>6
  <1> QED BY <1>1, <1>6, <1>7, <1>8 DEF paths

\* An entry of a job that raised has no signals.
LEMMA RefusalIs ==
    ASSUME NEW stream \in Streams, NEW started \in Stamps
    PROVE  LET entry == [stream |-> stream, started |-> started, signals |-> << >>] IN
           entry \in Entries /\ Whole(entry) /\ Stored(entry)'
  <1> DEFINE entry == [stream |-> stream, started |-> started, signals |-> << >>]
  <1>1. DOMAIN << >> = {}
    OBVIOUS
  <1>2. << >> \in UNION {[D -> Datums] : D \in SUBSET Signals}
    <2>1. << >> \in [{} -> Datums]
      OBVIOUS
    <2> QED BY <2>1
  <1>3. entry.signals = << >>
    OBVIOUS
  <1>4. entry \in Entries
    BY <1>2 DEF Entries
  <1> HIDE DEF entry
  <1>5. DOMAIN entry.signals = {}
    BY <1>1, <1>3
  <1>6. Whole(entry) /\ Stored(entry)'
    BY <1>5 DEF Whole, Stored
  <1> QED BY <1>4, <1>6 DEF entry

LEMMA EndsAcquisitionKeeps ==
    ASSUME IInv, NEW j \in Acquirers, EndsAcquisition(j)
    PROVE  IInv'
  <1> DEFINE raised == job[j].failed \/ work[j].raised # "no"
             x == [NotRun EXCEPT !.at = "ended", !.failed = raised]
  <1>0. /\ Typed /\ SInv /\ j \in Recorders /\ j \in Streams /\ Acquires(j) /\ job[j] \in Jobs
        /\ job[j].at \in {"series", "over"}
        /\ IF job[j].stored THEN work[j].at = "done" ELSE job[j].at = "over"
        /\ UNCHANGED <<disk, cache, look, saver, lease, now, looks, faults>>
        /\ job' = [job EXCEPT ![j] = x]
        /\ work' = [work EXCEPT ![j] = IF raised THEN @ ELSE Idle]
        /\ IF raised THEN LogsRefusal(j) ELSE Logs(EntryOf(j, PathsOf(j)))
    BY WhoRecords DEF IInv, Jobbed, Typed, EndsAcquisition
  <1>1. x \in Jobs /\ x.at = "ended"
    <2>1. raised \in BOOLEAN
      BY <1>0 DEF Jobs
    <2> HIDE DEF raised
    <2>2. x \in Jobs
      BY <2>1, NotRunIs, JobsExcept
    <2> QED BY <2>2, NotRunIs DEF Jobs
  <1> HIDE DEF x
  <1>2. /\ job' \in [Acquirers \cup Viewers -> Jobs] /\ job'[j] = x
        /\ \A i \in (Acquirers \cup Viewers) \ {j} : job'[i] = job[i]
    BY <1>0, <1>1, WhoRecords, JobMoved
  <1>3. work[j].at \in {"idle", "done"} /\ (work[j].at = "done" => work[j].single = FALSE /\ work[j].stream = j)
    <2>1. work[j] \in Works
      BY <1>0 DEF Typed
    <2> QED BY <1>0, <2>1 DEF Acquires, Works
  <1>4. CASE raised
    <2>1. UNCHANGED sessionVars
      BY <1>0, <1>4 DEF sessionVars, Typed
    <2>2. SInv' /\ Aside(j) /\ work'[j] = work[j]
      BY <1>0, <2>1, SessionStays DEF sessionVars
    <2>3. Acquires(j)'
      BY <1>1, <1>2, <1>3, <2>2 DEF Acquires
    <2> DEFINE entry == [stream |-> j, started |-> job[j].started, signals |-> << >>]
    <2>4. PICK t \in Stamps : job[j].started = t
      BY <1>0 DEF Jobs
    <2>5. entry \in Entries /\ Whole(entry) /\ Logs(entry)
      BY <1>0, <1>4, <2>4, RefusalIs DEF LogsRefusal
    <2>6. PICK e \in Entries : e = entry
      BY <2>5
    <2>7. Stored(e)'
      <3>1. DOMAIN e.signals = {}
        BY <2>6
      <3> QED BY <3>1 DEF Stored
    <2> HIDE DEF entry
    <2>8. log' \in Seq(Entries) /\ Grows /\ Settled' /\ Held'
      BY <1>0, <2>2, <2>5, <2>6, <2>7, LogsKeeps
    <2> HIDE DEF raised
    <2>9. saver' \in [Savers -> Savings] /\ saver' = saver /\ lease' \in Acquirers \cup {Nobody} /\ now' \in Stamps
          /\ looks' \in 0..MaxActs /\ faults' \in 0..MaxFaults
      BY <1>0 DEF Typed
    <2> QED BY <1>0, <1>2, <2>2, <2>3, <2>8, <2>9, WhoRecords, ActsKeep
  <1>5. CASE ~raised
    <2>1. work' = [work EXCEPT ![j] = Idle] /\ ~job[j].failed
      BY <1>0, <1>5
    <2>2. SInv' /\ Aside(j) /\ work'[j].at = "idle" /\ Mine(j)' = {}
      BY <1>0, <2>1, RestKeeps, RestIs, IdleIs
    <2>3. Acquires(j)'
      BY <1>1, <1>2, <2>2 DEF Acquires
    <2>4. IF job[j].stored THEN work[j].at = "done" /\ work[j].raised = "no" ELSE work[j].at = "idle"
      BY <1>0, <1>5 DEF Acquires
    <2>5. PICK e : e = EntryOf(j, PathsOf(j))
      OBVIOUS
    <2>6. /\ e \in Entries /\ Whole(e) /\ Logs(e) /\ e.stream = j
          /\ \A d \in DOMAIN e.signals :
               LET s == e.signals[d] IN
               ~InMemory(s) =>
                    /\ s.path \in Mine(j) /\ s.path \in DOMAIN disk /\ disk[s.path].shape = "final"
                    /\ disk[s.path].frames = Series(j, d, s.count)
      BY <1>0, <1>5, <2>1, <2>4, <2>5, EntryIs
    <2>7. Stored(e)'
      <3> SUFFICES ASSUME NEW d \in DOMAIN e.signals, ~InMemory(e.signals[d])
                   PROVE  LET s == e.signals[d] IN
                          /\ s.path \in DOMAIN disk' /\ disk'[s.path].shape = "final"
                          /\ disk'[s.path].frames = Series(e.stream, d, s.count)
                          /\ \A q \in Recorders : s.path \notin Mine(q)'
        BY DEF Stored, InMemory
      <3> DEFINE p == e.signals[d].path
      <3>1. /\ p \in Mine(j) /\ p \in DOMAIN disk /\ disk[p].shape = "final"
            /\ disk[p].frames = Series(j, d, e.signals[d].count)
        BY <2>6
      <3> HIDE DEF p
      <3>2. \A q \in Recorders : p \notin Mine(q)'
        <4>1. \A q \in Recorders \ {j} : Mine(q)' = Mine(q)
          BY <1>0, <2>2, OthersStay DEF SInv
        <4>2. \A q \in Recorders \ {j} : p \notin Mine(q)
          BY <1>0, <3>1 DEF SInv, Apart
        <4> QED BY <2>2, <4>1, <4>2
      <3> QED BY <1>0, <2>6, <3>1, <3>2 DEF p
    <2>8. log' \in Seq(Entries) /\ Grows /\ Settled' /\ Held'
      BY <1>0, <2>2, <2>6, <2>7, LogsKeeps
    <2> HIDE DEF raised
    <2>9. saver' \in [Savers -> Savings] /\ saver' = saver /\ lease' \in Acquirers \cup {Nobody} /\ now' \in Stamps
          /\ looks' \in 0..MaxActs /\ faults' \in 0..MaxFaults
      BY <1>0 DEF Typed
    <2> QED BY <1>0, <1>2, <2>2, <2>3, <2>8, <2>9, WhoRecords, ActsKeep
  <1> QED BY <1>4, <1>5

LEMMA ForgetsKeeps ==
    ASSUME IInv, NEW j \in Acquirers, Forgets(j)
    PROVE  IInv'
  <1> DEFINE x == [job[j] EXCEPT !.at = "gone"]
  <1>0. /\ Typed /\ SInv /\ j \in Recorders /\ job[j] \in Jobs
        /\ UNCHANGED <<cache, look, saver, log, now, looks, faults>>
    BY WhoRecords DEF IInv, Typed, Forgets
  <1>1. x \in Jobs /\ x.at = "gone"
    <2>1. x \in Jobs
      BY <1>0, JobsExcept
    <2> QED BY <1>0, <2>1 DEF Jobs
  <1>2. job' = [job EXCEPT ![j] = x]
    BY <1>0 DEF Forgets, Typed
  <1> HIDE DEF x
  <1>3. job'[j] = x
    BY <1>0, <1>1, <1>2, JobMoved, WhoRecords
  <1>4. work' = [work EXCEPT ![j] = Idle] /\ disk' = Released(j, "part")
    BY DEF Forgets
  <1>5. SInv' /\ Aside(j) /\ work'[j].at = "idle"
    BY <1>0, <1>4, ReleasedKeeps, RestIs, IdleIs
  <1>6. Acquires(j)'
    BY <1>1, <1>3, <1>5 DEF Acquires
  <1>7. lease' \in Acquirers \cup {Nobody} /\ now' \in Stamps /\ faults' \in 0..MaxFaults
    BY <1>0 DEF Typed, Forgets, LetsGo
  <1> QED BY <1>0, <1>1, <1>2, <1>5, <1>6, <1>7, AcquirerActs

----------------------------------------------------------------------------
(* A recording of the viewer *)

LEMMA StartRecordingKeeps ==
    ASSUME IInv, NEW v \in Viewers, StartRecording(v)
    PROVE  IInv'
  <1>0. /\ Typed /\ SInv /\ v \in Recorders /\ v \in Streams /\ job[v].at = "new"
        /\ UNCHANGED <<saver, log, lease, looks, faults>>
    BY WhoRecords DEF IInv, StartRecording
  <1>1. PICK t \in Stamps : now' = t
    BY <1>0 DEF StartRecording, Starts, Typed, Stamps
  <1> DEFINE x == [NotRun EXCEPT !.at = "series", !.started = t]
  <1>2. x \in Jobs
    BY <1>1, NotRunIs, JobsExcept
  <1>3. job' = [job EXCEPT ![v] = x]
    BY <1>1 DEF StartRecording
  <1>4. x.at = "series" /\ \A d \in Signals : x.counts[d] = 0
    BY NotRunIs DEF Jobs
  <1> HIDE DEF x
  <1>5. job'[v] = x
    BY <1>0, <1>2, <1>3, JobMoved, WhoRecords
  <1>6. BeginsOne(v, v, t)
    BY <1>1 DEF StartRecording
  <1>7. SInv' /\ Aside(v)
    BY <1>0, <1>6, BeginsOneKeeps
  <1>8. /\ work'[v].at = "claim" /\ work'[v].stream = v /\ work'[v].single = TRUE
        /\ work'[v].sinks = <<>>
    BY <1>0, <1>6, BeginsOneMoves
  <1>9. Due(v, NoSignal)' = 0 /\ NoSignal \in Signals
    BY <1>0, <1>8, NothingDue DEF Signals
  <1>10. Records(v)'
    BY <1>4, <1>5, <1>8, <1>9 DEF Records
  <1> QED BY <1>0, <1>1, <1>2, <1>3, <1>7, <1>10, ViewerActs

LEMMA CancelKeeps ==
    ASSUME IInv, NEW v \in Viewers, Cancel(v)
    PROVE  IInv'
  <1> DEFINE x == [job[v] EXCEPT !.cancelled = TRUE]
  <1>0. /\ Typed /\ SInv /\ v \in Recorders /\ Records(v) /\ job[v] \in Jobs
        /\ UNCHANGED <<sessionVars, saver, log, lease, now, looks, faults>>
    BY WhoRecords DEF IInv, Jobbed, Cancel, Typed
  <1>1. x \in Jobs /\ x.at = job[v].at /\ x.counts = job[v].counts
    <2>1. x \in Jobs
      BY <1>0, JobsExcept
    <2> QED BY <1>0, <2>1 DEF Jobs
  <1>2. job' = [job EXCEPT ![v] = x]
    BY <1>0 DEF Cancel, Typed
  <1> HIDE DEF x
  <1>3. job'[v] = x
    BY <1>0, <1>1, <1>2, JobMoved, WhoRecords
  <1>4. SInv' /\ Aside(v) /\ \A d : Due(v, d)' = Due(v, d)
    BY <1>0, SessionStays
  <1>5. Records(v)'
    BY <1>0, <1>1, <1>3, <1>4 DEF Records, sessionVars
  <1> QED BY <1>0, <1>1, <1>2, <1>4, <1>5, ViewerActs DEF Typed

\* What a recording's recorder is at while its frames arrive.
LEMMA PullsOne ==
    ASSUME IInv, NEW v \in Viewers, job[v].at = "series", work[v].at = "pull"
    PROVE  /\ work[v].single = TRUE /\ work[v].stream = v /\ work[v].raised = "no"
           /\ Got(v, NoSignal) = job[v].counts[NoSignal]
  <1>0. Records(v) /\ Shut(v) /\ work[v] \in Works
    BY WhoRecords DEF IInv, Jobbed, SInv, Recorded, Typed
  <1>1. work[v].single = TRUE /\ work[v].stream = v /\ work[v].raised = "no"
    BY <1>0 DEF Records, Shut, Works
  <1>2. Due(v, NoSignal) = job[v].counts[NoSignal]
    BY <1>0, <1>1 DEF Records
  <1>3. Due(v, NoSignal) = Got(v, NoSignal) + 0 /\ Got(v, NoSignal) \in Nat
    BY GotIsNat, WhoRecords DEF Due, IInv
  <1> QED BY <1>1, <1>2, <1>3

LEMMA RecordsFrameKeeps ==
    ASSUME IInv, NEW v \in Viewers, RecordsFrame(v)
    PROVE  IInv'
  <1> DEFINE n == job[v].counts[NoSignal] + 1
             frame == [stream |-> v, signal |-> NoSignal, place |-> n]
             counts == [job[v].counts EXCEPT ![NoSignal] = n]
             x == [job[v] EXCEPT !.counts = counts]
  <1>0. /\ Typed /\ SInv /\ v \in Recorders /\ v \in Streams /\ Records(v) /\ job[v] \in Jobs
        /\ NoSignal \in Signals /\ job[v].at = "series" /\ n <= MaxFrames /\ Offers(v, frame)
        /\ UNCHANGED <<saver, log, lease, now, looks, faults>>
    BY WhoRecords DEF IInv, Jobbed, RecordsFrame, Typed, Signals
  <1>1. /\ job[v].counts \in [Signals -> 0..MaxFrames] /\ n \in 1..MaxFrames /\ n \in 0..MaxFrames
    BY <1>0 DEF Jobs
  <1>2. frame \in Frames /\ frame.stream = v /\ frame.signal = NoSignal /\ frame.place = n
    BY <1>0, <1>1 DEF Frames
  <1>3. counts \in [Signals -> 0..MaxFrames] /\ counts[NoSignal] = n
    <2> HIDE DEF n
    <2> QED BY <1>0, <1>1
  <1>4. job' = [job EXCEPT ![v] = x]
    BY <1>0 DEF RecordsFrame, Typed
  <1>5. x \in Jobs /\ x.at = "series" /\ x.counts = counts
    <2> HIDE DEF counts
    <2>1. x \in Jobs
      BY <1>0, <1>3, JobsExcept
    <2> QED BY <1>0, <2>1 DEF Jobs
  <1> HIDE DEF x, counts, frame
  <1>6. job'[v] = x
    BY <1>0, <1>4, <1>5, JobMoved, WhoRecords
  <1>7. /\ work[v].single = TRUE /\ work[v].stream = v /\ work[v].raised = "no"
        /\ Got(v, NoSignal) = job[v].counts[NoSignal]
    BY <1>0, PullsOne DEF Offers
  <1>8. SInv' /\ Aside(v) /\ \A d : Got(v, d)' = Got(v, d)
    BY <1>0, <1>2, <1>7, OffersKeeps
  <1>9. /\ work'[v].at \in {"write", "claim"} /\ work'[v].stream = v /\ work'[v].single = TRUE
        /\ work'[v].frame = frame /\ work'[v].raised = "no"
    BY <1>0, <1>2, <1>7, OffersMoves DEF Retains
  <1>10. work'[v].at = "write"
    <2>1. Carried(v)
      BY <1>0 DEF SInv, Recorded
    <2>2. SinkOf(v, NoSignal) # {}
      BY <1>0, <1>7, <2>1 DEF Carried, Offers
    <2> QED BY <1>0, <1>2, <2>2, OffersMoves
  <1>11. Due(v, NoSignal)' = n
    <2>1. Due(v, NoSignal)' = Got(v, NoSignal)' + 1
      BY <1>2, <1>9, <1>10 DEF Due
    <2> QED BY <1>7, <1>8, <2>1
  <1>12. Records(v)'
    BY <1>3, <1>5, <1>6, <1>9, <1>10, <1>11 DEF Records
  <1> QED BY <1>0, <1>4, <1>5, <1>8, <1>12, ViewerActs DEF Typed

LEMMA EndsRecordingKeeps ==
    ASSUME IInv, NEW v \in Viewers, EndsRecording(v)
    PROVE  IInv'
  <1> DEFINE x == [job[v] EXCEPT !.at = "over"]
  <1>0. /\ Typed /\ SInv /\ v \in Recorders /\ Records(v) /\ job[v] \in Jobs
        /\ StreamStops(v, FALSE) /\ job[v].at = "series"
        /\ UNCHANGED <<saver, log, lease, now, looks, faults>>
    BY WhoRecords DEF IInv, Jobbed, EndsRecording, Typed
  <1>1. x \in Jobs /\ x.at = "over"
    <2>1. x \in Jobs
      BY <1>0, JobsExcept
    <2> QED BY <1>0, <2>1 DEF Jobs
  <1>2. job' = [job EXCEPT ![v] = x]
    BY <1>0 DEF EndsRecording, Typed
  <1> HIDE DEF x
  <1>3. job'[v] = x
    BY <1>0, <1>1, <1>2, JobMoved, WhoRecords
  <1>4. SInv' /\ Aside(v)
    BY <1>0, StreamStopsKeeps
  <1>5. work'[v].at \in {"close", "done"} /\ work'[v].single = work[v].single /\ work'[v].stream = work[v].stream
    BY <1>0, StreamStopsMoves DEF Retains
  <1>6. work[v].single = TRUE /\ work[v].stream = v
    BY <1>0, PullsOne DEF StreamStops
  <1>7. Records(v)'
    BY <1>1, <1>3, <1>5, <1>6 DEF Records
  <1> QED BY <1>0, <1>1, <1>2, <1>4, <1>7, ViewerActs DEF Typed

LEMMA KilledKeeps ==
    ASSUME IInv, NEW v \in Viewers, Killed(v)
    PROVE  IInv'
  <1> DEFINE x == [job[v] EXCEPT !.at = "gone"]
  <1>0. /\ Typed /\ SInv /\ v \in Recorders /\ job[v] \in Jobs
        /\ UNCHANGED <<cache, look, saver, log, lease, now, looks, faults>>
    BY WhoRecords DEF IInv, Killed, Typed
  <1>1. x \in Jobs /\ x.at = "gone"
    <2>1. x \in Jobs
      BY <1>0, JobsExcept
    <2> QED BY <1>0, <2>1 DEF Jobs
  <1>2. job' = [job EXCEPT ![v] = x]
    BY <1>0 DEF Killed, Typed
  <1> HIDE DEF x
  <1>3. job'[v] = x
    BY <1>0, <1>1, <1>2, JobMoved, WhoRecords
  <1>4. work' = [work EXCEPT ![v] = Idle] /\ disk' = Released(v, "growing")
    BY DEF Killed
  <1>5. SInv' /\ Aside(v) /\ work'[v].at = "idle"
    BY <1>0, <1>4, ReleasedKeeps, RestIs, IdleIs
  <1>6. Records(v)'
    BY <1>1, <1>3, <1>5 DEF Records
  <1> QED BY <1>0, <1>1, <1>2, <1>5, <1>6, ViewerActs DEF Typed

----------------------------------------------------------------------------
(* A save *)

LEMMA SavingsExcept ==
    \A w \in Savings :
        /\ \A x \in {"new", "next", "writing", "ended"} : [w EXCEPT !.at = x] \in Savings
        /\ \A x \in Seq(Entries) : [w EXCEPT !.entries = x] \in Savings
        /\ \A x \in Nat : [w EXCEPT !.entry = x] \in Savings
        /\ \A x \in Signals : [w EXCEPT !.signal = x] \in Savings
        /\ \A x \in Seq(Frames) : [w EXCEPT !.left = x] \in Savings
        /\ \A x \in 0..MaxIndex : [w EXCEPT !.index = x] \in Savings
  <1> SUFFICES ASSUME NEW w \in Savings
               PROVE  /\ \A x \in {"new", "next", "writing", "ended"} : [w EXCEPT !.at = x] \in Savings
                      /\ \A x \in Seq(Entries) : [w EXCEPT !.entries = x] \in Savings
                      /\ \A x \in Nat : [w EXCEPT !.entry = x] \in Savings
                      /\ \A x \in Signals : [w EXCEPT !.signal = x] \in Savings
                      /\ \A x \in Seq(Frames) : [w EXCEPT !.left = x] \in Savings
                      /\ \A x \in 0..MaxIndex : [w EXCEPT !.index = x] \in Savings
    OBVIOUS
  <1>1. /\ \A x \in {"new", "next", "writing", "ended"} : [w EXCEPT !.at = x] \in Savings
        /\ \A x \in Seq(Entries) : [w EXCEPT !.entries = x] \in Savings
        /\ \A x \in Nat : [w EXCEPT !.entry = x] \in Savings
    BY DEF Savings
  <1>2. /\ \A x \in Signals : [w EXCEPT !.signal = x] \in Savings
        /\ \A x \in Seq(Frames) : [w EXCEPT !.left = x] \in Savings
        /\ \A x \in 0..MaxIndex : [w EXCEPT !.index = x] \in Savings
    BY DEF Savings
  <1> QED BY <1>1, <1>2

LEMMA SaverMoved ==
    ASSUME Typed, NEW s \in Savers, NEW x \in Savings, saver' = [saver EXCEPT ![s] = x]
    PROVE  /\ saver' \in [Savers -> Savings] /\ saver'[s] = x
           /\ \A t \in Savers \ {s} : saver'[t] = saver[t]
  BY DEF Typed

LEMMA SaverActs ==
    ASSUME IInv, NEW s \in Savers, SInv', Aside(s),
           NEW x \in Savings, saver' = [saver EXCEPT ![s] = x],
           UNCHANGED <<job, log, lease, looks, faults>>, now' \in Stamps, Saves(s)'
    PROVE  IInv'
  <1>1. Typed
    BY DEF IInv
  <1>2. saver' \in [Savers -> Savings] /\ \A t \in Savers \ {s} : saver'[t] = saver[t]
    BY <1>1, SaverMoved
  <1>3. job' \in [Acquirers \cup Viewers -> Jobs] /\ looks' \in 0..MaxActs
        /\ lease' \in Acquirers \cup {Nobody} /\ faults' \in 0..MaxFaults
    BY <1>1 DEF Typed
  <1>4. log' \in Seq(Entries) /\ Grows /\ Settled' /\ Held'
    BY LogStays, WhoRecords
  <1> QED BY <1>2, <1>3, <1>4, WhoRecords, ActsKeep

LEMMA StartSaveKeeps ==
    ASSUME IInv, NEW s \in Savers, StartSave(s)
    PROVE  IInv'
  <1> DEFINE x == [saver[s] EXCEPT !.at = "next", !.entries = log]
  <1>0. /\ Typed /\ SInv /\ s \in Recorders /\ Saves(s) /\ saver[s] \in Savings /\ Held
        /\ saver[s].at = "new" /\ log \in Seq(Entries)
        /\ UNCHANGED <<sessionVars, job, log, lease, looks, faults>>
    BY WhoRecords DEF IInv, Jobbed, StartSave, Typed
  <1>1. x \in Savings /\ x.at = "next" /\ x.entries = log
    <2>1. x \in Savings
      BY <1>0, SavingsExcept
    <2> QED BY <1>0, <2>1 DEF Savings
  <1>2. saver' = [saver EXCEPT ![s] = x]
    BY <1>0 DEF StartSave, Typed
  <1> HIDE DEF x
  <1>3. saver'[s] = x
    BY <1>0, <1>1, <1>2, SaverMoved
  <1>4. SInv' /\ Aside(s) /\ work'[s] = work[s]
    BY <1>0, SessionStays DEF sessionVars
  <1>5. Snapshot(s)'
    <2>1. Len(log) \in Nat
      BY <1>0
    <2>2. \A e \in 1..Len(log) : Whole(log[e])
      BY <1>0 DEF Held
    <2> QED BY <1>0, <1>1, <1>3, <2>1, <2>2 DEF Snapshot, Alike, Whole, InMemory
  <1>6. Saves(s)'
    BY <1>0, <1>1, <1>3, <1>4, <1>5 DEF Saves
  <1>7. now' \in Stamps
    BY <1>0 DEF StartSave, Starts, Typed, Stamps
  <1> QED BY <1>0, <1>1, <1>2, <1>4, <1>6, <1>7, SaverActs

\* A signal of a snapshot that is still in memory is all there.
LEMMA PendingIs ==
    ASSUME IInv, NEW s \in Savers, saver[s].at = "next", NEW e \in 1..Len(saver[s].entries),
           NEW d \in Pending(saver[s].entries[e])
    PROVE  LET entry == saver[s].entries[e] IN
           /\ entry \in Entries /\ entry.stream \in Streams /\ entry.started \in Stamps
           /\ d \in Signals /\ d \in DOMAIN entry.signals /\ entry.signals[d] \in Datums
           /\ entry.signals[d].frames = Series(entry.stream, d, entry.signals[d].count)
           /\ entry.signals[d].frames \in Seq(Frames)
           /\ entry.signals[d].count \in 1..MaxFrames
           /\ Len(entry.signals[d].frames) = entry.signals[d].count
  <1> DEFINE entry == saver[s].entries[e]
  <1>1. saver[s].entries \in Seq(Entries)
    <2>1. saver[s] \in Savings
      BY DEF IInv, Typed
    <2> QED BY <2>1 DEF Savings
  <1>2. entry \in Entries
    BY <1>1
  <1>3. Whole(entry)
    BY DEF IInv, Jobbed, Saves, Snapshot
  <1> HIDE DEF entry
  <1>4. d \in DOMAIN entry.signals /\ InMemory(entry.signals[d])
    BY DEF Pending, entry
  <1>5. entry.stream \in Streams /\ entry.started \in Stamps /\ d \in Signals /\ entry.signals[d] \in Datums
    BY <1>2, <1>4 DEF Entries
  <1>6. entry.signals[d].frames = Series(entry.stream, d, entry.signals[d].count)
    BY <1>3, <1>4 DEF Whole
  <1>7. entry.signals[d].frames \in Seq(Frames) /\ entry.signals[d].count \in 1..MaxFrames
    BY <1>5 DEF Datums
  <1>8. Len(entry.signals[d].frames) = entry.signals[d].count
    <2>1. PICK k \in Nat : entry.signals[d].count = k
      BY <1>7
    <2>2. Len(Series(entry.stream, d, k)) = k
      BY <2>1, SeriesIs
    <2> QED BY <1>6, <2>1, <2>2
  <1> QED BY <1>2, <1>4, <1>5, <1>6, <1>7, <1>8 DEF entry

LEMMA SavesSignalKeeps ==
    ASSUME IInv, NEW s \in Savers, NEW e \in 1..Len(saver[s].entries), NEW d \in Datasets, SavesSignal(s, e, d)
    PROVE  IInv'
  <1> DEFINE entry == saver[s].entries[e]
             index == IF saver[s].entry = e THEN saver[s].index ELSE NoIndex
             left == entry.signals[d].frames
             x == [saver[s] EXCEPT !.at = "writing", !.entry = e, !.signal = d, !.left = left]
  <1>0. /\ Typed /\ SInv /\ s \in Recorders /\ Saves(s) /\ saver[s] \in Savings
        /\ saver[s].at = "next" /\ d \in Pending(entry)
        /\ Begins(s, entry.stream, entry.started, index)
        /\ UNCHANGED <<job, log, lease, now, looks, faults>>
    BY WhoRecords DEF IInv, Jobbed, SavesSignal, Typed
  <1>1. /\ entry \in Entries /\ entry.stream \in Streams /\ entry.started \in Stamps
        /\ d \in Signals /\ d \in DOMAIN entry.signals
        /\ left = Series(entry.stream, d, entry.signals[d].count)
        /\ left \in Seq(Frames)
        /\ entry.signals[d].count \in 1..MaxFrames /\ Len(left) = entry.signals[d].count
    BY <1>0, PendingIs
  <1>2. index \in 0..MaxIndex /\ e \in Nat
    BY <1>0 DEF Savings, NoIndex
  <1> HIDE DEF index
  <1>3. x \in Savings /\ x.at = "writing" /\ x.entry = e /\ x.signal = d /\ x.left = left
        /\ x.entries = saver[s].entries
    <2> HIDE DEF left
    <2>1. x \in Savings
      BY <1>0, <1>1, <1>2, SavingsExcept
    <2> QED BY <1>0, <2>1 DEF Savings
  <1>4. saver' = [saver EXCEPT ![s] = x]
    <2>1. saver' = [saver EXCEPT ![s].at = "writing", ![s].entry = e, ![s].signal = d, ![s].left = left]
      BY DEF SavesSignal
    <2> HIDE DEF left
    <2> QED BY <1>0, <2>1 DEF Typed
  <1>5. SInv' /\ Aside(s)
    <2> HIDE DEF entry
    <2> QED BY <1>0, <1>1, <1>2, BeginsKeeps
  <1>6. /\ work'[s].at = "pull" /\ work'[s].stream = entry.stream /\ work'[s].single = FALSE
        /\ work'[s].sinks = <<>>
    <2> HIDE DEF entry
    <2> QED BY <1>0, <1>1, <1>2, BeginsMoves
  <1> HIDE DEF x
  <1>7. saver'[s] = x
    BY <1>0, <1>3, <1>4, SaverMoved
  <1>8. Due(s, d)' = 0
    BY <1>0, <1>6, NothingDue
  <1>9. Snapshot(s)'
    BY <1>0, <1>3, <1>7 DEF Saves, Snapshot, Alike, Whole, InMemory
  <1>10. Writing(s)'
    <2>1. \A i \in 1..Len(left) :
            left[i] = [stream |-> entry.stream, signal |-> d, place |-> entry.signals[d].count - Len(left) + i]
      BY <1>1 DEF Series
    <2>2. Len(left) <= entry.signals[d].count /\ Due(s, d)' + Len(left) = entry.signals[d].count
      BY <1>1, <1>8
    <2>3. ~Carries(s)' /\ ~Over(s)' /\ work'[s].at # "idle"
      BY <1>6
    <2>4. Len(work'[s].sinks) = 0
      BY <1>6
    <2>5. /\ saver'[s].entry = e /\ saver'[s].signal = d /\ saver'[s].left = left
          /\ saver'[s].entries[e] = entry /\ e \in 1..Len(saver'[s].entries)
      BY <1>3, <1>7
    <2> HIDE DEF left, entry, Carries, Over
    <2> QED BY <1>1, <1>6, <2>1, <2>2, <2>3, <2>4, <2>5 DEF Writing
  <1>11. Saves(s)'
    BY <1>3, <1>7, <1>9, <1>10 DEF Saves
  <1> QED BY <1>0, <1>3, <1>4, <1>5, <1>11, SaverActs DEF Typed

\* A save that writes: what it writes, and how far it is.
LEMMA WritingIs ==
    ASSUME IInv, NEW s \in Savers, saver[s].at = "writing"
    PROVE  LET e == saver[s].entry  d == saver[s].signal  left == saver[s].left
               entry == saver[s].entries[e]  n == entry.signals[d].count
           IN
           /\ e \in 1..Len(saver[s].entries) /\ entry \in Entries /\ entry.stream \in Streams
           /\ d \in Signals /\ d \in DOMAIN entry.signals /\ entry.signals[d] \in Datums
           /\ n \in 1..MaxFrames /\ left \in Seq(Frames) /\ Len(left) \in Nat /\ Len(left) <= n
           /\ work[s].single = FALSE /\ work[s].at # "idle" /\ work[s].stream = entry.stream
           /\ \A i \in 1..Len(work[s].sinks) : work[s].sinks[i].signal = d
           /\ saver[s].entries \in Seq(Entries) /\ Snapshot(s) /\ Writing(s)
  <1> DEFINE e == saver[s].entry  d == saver[s].signal  left == saver[s].left
             entry == saver[s].entries[e]
  <1>0. saver[s] \in Savings /\ Writing(s) /\ Snapshot(s) /\ work[s] \in Works
    BY WhoRecords DEF IInv, Jobbed, Saves, Typed
  <1>1. saver[s].entries \in Seq(Entries) /\ d \in Signals /\ left \in Seq(Frames)
    BY <1>0 DEF Savings
  <1>2. e \in 1..Len(saver[s].entries) /\ d \in DOMAIN entry.signals /\ Len(left) <= entry.signals[d].count
        /\ ~work[s].single /\ work[s].at # "idle" /\ work[s].stream = entry.stream
        /\ \A i \in 1..Len(work[s].sinks) : work[s].sinks[i].signal = d
    BY <1>0 DEF Writing
  <1>3. entry \in Entries
    <2> HIDE DEF e
    <2> QED BY <1>1, <1>2
  <1> HIDE DEF entry, e, d, left
  <1>4. entry.stream \in Streams /\ entry.signals[d] \in Datums
    BY <1>2, <1>3 DEF Entries
  <1>5. entry.signals[d].count \in 1..MaxFrames
    BY <1>4 DEF Datums
  <1>6. Len(left) \in Nat
    BY <1>1, LenProperties
  <1>7. work[s].single = FALSE
    BY <1>0, <1>2 DEF Works
  <1> QED BY <1>0, <1>1, <1>2, <1>3, <1>4, <1>5, <1>6, <1>7 DEF entry, e, d, left

LEMMA FeedsFrameKeeps ==
    ASSUME IInv, NEW s \in Savers, FeedsFrame(s)
    PROVE  IInv'
  <1> DEFINE e == saver[s].entry  d == saver[s].signal  left == saver[s].left
             entry == saver[s].entries[e]  n == entry.signals[d].count
             f == Head(left)
             x == [saver[s] EXCEPT !.left = Tail(left)]
  <1>0. /\ Typed /\ SInv /\ s \in Recorders /\ saver[s] \in Savings /\ saver[s].at = "writing"
        /\ left # <<>> /\ Offers(s, f) /\ work[s].at = "pull" /\ Shut(s)
        /\ UNCHANGED <<job, log, lease, now, looks, faults>>
    BY WhoRecords DEF IInv, FeedsFrame, Typed, Offers, SInv, Recorded
  <1>1. /\ e \in 1..Len(saver[s].entries) /\ entry.stream \in Streams
        /\ d \in Signals /\ d \in DOMAIN entry.signals
        /\ n \in 1..MaxFrames /\ left \in Seq(Frames) /\ Len(left) \in Nat /\ Len(left) <= n
        /\ work[s].single = FALSE /\ work[s].stream = entry.stream
        /\ \A i \in 1..Len(work[s].sinks) : work[s].sinks[i].signal = d
        /\ Snapshot(s) /\ Writing(s)
    BY <1>0, WritingIs
  <1>2. \A i \in 1..Len(left) :
            left[i] = [stream |-> entry.stream, signal |-> d, place |-> n - Len(left) + i]
    BY <1>1 DEF Writing
  <1>3. Due(s, d) + Len(left) = n
    BY <1>0, <1>1 DEF Writing, Shut
  <1>4. saver' = [saver EXCEPT ![s] = x]
    BY <1>0 DEF FeedsFrame, Typed
  <1> HIDE DEF entry, n, e, d, left
  <1>5. Got(s, d) = n - Len(left)
    <2>1. Due(s, d) = Got(s, d) + 0
      BY <1>0 DEF Due
    <2>2. Got(s, d) \in Nat
      BY <1>0, GotIsNat
    <2> QED BY <1>1, <1>3, <2>1, <2>2
  <1>6. f \in Frames /\ f.stream = entry.stream /\ f.signal = d /\ f.place = Got(s, d) + 1
    <2>1. Len(left) > 0 /\ f = left[1] /\ f \in Frames
      BY <1>0, <1>1
    <2>2. 1 \in 1..Len(left)
      BY <1>1, <2>1
    <2>3. left[1] = [stream |-> entry.stream, signal |-> d, place |-> n - Len(left) + 1]
      BY <1>2, <2>2
    <2> QED BY <1>5, <2>1, <2>3
  <1>7. x \in Savings /\ x.at = "writing" /\ x.entry = e /\ x.signal = d /\ x.left = Tail(left)
        /\ x.entries = saver[s].entries
    <2>1. Tail(left) \in Seq(Frames)
      BY <1>0, <1>1
    <2>2. x \in Savings
      BY <1>0, <2>1, SavingsExcept
    <2> QED BY <1>0, <2>2 DEF Savings, e, d
  <1> HIDE DEF f, x
  <1>8. SInv' /\ Aside(s) /\ \A c : Got(s, c)' = Got(s, c)
    BY <1>0, <1>1, <1>6, OffersKeeps
  <1>9. /\ work'[s].at \in {"write", "claim"} /\ work'[s].single = FALSE
        /\ work'[s].stream = entry.stream /\ work'[s].frame = f
        /\ work'[s].sinks = work[s].sinks
    BY <1>0, <1>1, <1>6, OffersMoves DEF Retains
  <1>10. saver'[s] = x
    BY <1>0, <1>4, <1>7, SaverMoved
  <1>11. Snapshot(s)'
    BY <1>0, <1>1, <1>7, <1>10 DEF Snapshot, Alike, Whole, InMemory
  <1>12. Writing(s)'
    <2> DEFINE k == Len(left)  l == Len(Tail(left))
    <2>0. k \in Nat /\ l \in Nat /\ l = k - 1 /\ k <= n /\ n \in Nat
      BY <1>0, <1>1
    <2>1. \A i \in 1..Len(Tail(left)) : Tail(left)[i] = left[i + 1] /\ i + 1 \in 1..Len(left)
      BY <1>0, <1>1
    <2>2. \A i \in 1..Len(Tail(left)) :
            Tail(left)[i] = [stream |-> entry.stream, signal |-> d, place |-> n - Len(Tail(left)) + i]
      <3> SUFFICES ASSUME NEW i \in 1..Len(Tail(left))
                   PROVE  Tail(left)[i] = [stream |-> entry.stream, signal |-> d, place |-> n - Len(Tail(left)) + i]
        OBVIOUS
      <3>1. Tail(left)[i] = [stream |-> entry.stream, signal |-> d, place |-> n - Len(left) + (i + 1)]
        BY <1>2, <2>1
      <3>2. k + 0 = l + 1 /\ i \in Nat
        BY <2>0
      <3> HIDE DEF k, l
      <3>3. n - k + (i + 1) = n - l + i
        BY <2>0, <3>2
      <3> QED BY <3>1, <3>3 DEF k, l
    <2>3. Due(s, d)' = Got(s, d) + 1
      <3>1. PICK c \in Signals : d = c
        BY <1>1
      <3>2. Due(s, c)' = Got(s, c)' + 1
        BY <1>6, <1>9, <3>1 DEF Due
      <3>3. d' = d
        BY <1>7, <1>10 DEF d
      <3> QED BY <1>8, <3>1, <3>2, <3>3
    <2>4. saver'[s].entry = e /\ saver'[s].signal = d /\ saver'[s].left = Tail(left) /\ saver'[s].entries[e] = entry
          /\ saver'[s].entries = saver[s].entries
      BY <1>7, <1>10 DEF entry
    <2>5. ~Over(s)' /\ work'[s].at # "idle"
      BY <1>9
    <2> HIDE DEF Carries, Over
    <2>6. Due(s, d)' + Len(Tail(left)) = n /\ Len(Tail(left)) <= n
      <3>1. Got(s, d) = n - k
        BY <1>5
      <3> HIDE DEF k, l
      <3>2. Due(s, d)' + l = n /\ l <= n
        BY <2>0, <2>3, <3>1
      <3> QED BY <3>2 DEF l
    <2>7. saver'[s].entries[saver'[s].entry].signals[saver'[s].signal].count = n
      BY <2>4 DEF n
    <2>8. Due(s, saver[s].signal)' = Due(s, d)'
      BY DEF d
    <2> QED BY <1>1, <1>6, <1>9, <2>2, <2>4, <2>5, <2>6, <2>7 DEF Writing, d
  <1>13. Saves(s)'
    BY <1>7, <1>10, <1>11, <1>12 DEF Saves
  <1> QED BY <1>0, <1>4, <1>7, <1>8, <1>13, SaverActs DEF Typed

LEMMA FeedsEndKeeps ==
    ASSUME IInv, NEW s \in Savers, FeedsEnd(s)
    PROVE  IInv'
  <1>0. /\ Typed /\ SInv /\ s \in Recorders /\ saver[s].at = "writing" /\ saver[s] \in Savings
        /\ saver[s].left = <<>> /\ StreamStops(s, FALSE) /\ work[s].at = "pull" /\ Shut(s)
        /\ UNCHANGED <<job, saver, log, lease, now, looks, faults>>
    BY WhoRecords DEF IInv, FeedsEnd, Typed, StreamStops, SInv, Recorded, dashVars
  <1>1. PICK d \in Signals : saver[s].signal = d
    BY <1>0, WritingIs
  <1>2. PICK n \in 1..MaxFrames : saver[s].entries[saver[s].entry].signals[d].count = n
    BY <1>0, <1>1, WritingIs
  <1>3. /\ work[s].single = FALSE /\ Snapshot(s) /\ Writing(s)
        /\ \A i \in 1..Len(work[s].sinks) : work[s].sinks[i].signal = d
    BY <1>0, <1>1, WritingIs
  <1>4. Got(s, d) = n
    <2>1. Due(s, d) + Len(saver[s].left) = n
      BY <1>0, <1>1, <1>2, <1>3 DEF Writing, Shut
    <2>2. Due(s, d) = Got(s, d) + 0
      BY <1>0 DEF Due
    <2>3. Got(s, d) \in Nat
      BY <1>0, GotIsNat
    <2>4. Len(saver[s].left) = 0
      BY <1>0
    <2> QED BY <2>1, <2>2, <2>3, <2>4
  <1>5. work[s].sinks # <<>>
    <2>1. SinkOf(s, d) # {}
      BY <1>0, <1>4, GotNone
    <2> QED BY <2>1 DEF SinkOf
  <1>6. SInv' /\ Aside(s) /\ \A c : Got(s, c)' = Got(s, c)
    BY <1>0, StreamStopsKeeps
  <1>7. /\ work'[s].at = "close" /\ work'[s].single = work[s].single /\ work'[s].stream = work[s].stream
        /\ work'[s].sinks = work[s].sinks
    BY <1>0, <1>5, StreamStopsMoves DEF Retains
  <1>8. Due(s, d)' = n
    <2>1. Due(s, d)' = Got(s, d)' + 0
      BY <1>7 DEF Due
    <2> QED BY <1>4, <1>6, <2>1
  <1>9. Snapshot(s)'
    BY <1>0, <1>3 DEF Snapshot, Alike, Whole, InMemory
  <1>10. Writing(s)'
    <2>1. ~Carries(s)' /\ work'[s].at # "idle"
      BY <1>7
    <2>2. Due(s, saver[s].signal)' = Due(s, d)'
      BY <1>0, <1>1
    <2>3. Due(s, d)' + Len(saver[s].left) = n
      <3>1. Len(saver[s].left) = 0
        BY <1>0
      <3> QED BY <1>8, <3>1
    <2> HIDE DEF Carries, Over
    <2> QED BY <1>0, <1>1, <1>2, <1>3, <1>5, <1>7, <2>1, <2>2, <2>3 DEF Writing
  <1>11. Saves(s)'
    BY <1>0, <1>9, <1>10 DEF Saves
  <1>12. saver' = [saver EXCEPT ![s] = saver[s]]
    BY <1>0 DEF Typed
  <1> QED BY <1>0, <1>6, <1>11, <1>12, SaverActs DEF Typed

LEMMA NotSavingType == NotSaving \in Savings /\ NotSaving.at = "new"
  <1>1. <<>> \in Seq(Entries) /\ <<>> \in Seq(Frames)
    OBVIOUS
  <1>2. NotSaving \in Savings
    BY <1>1 DEF NotSaving, Savings, Signals, NoIndex
  <1> QED BY <1>2 DEF NotSaving

LEMMA EndsSaveKeeps ==
    ASSUME IInv, NEW s \in Savers, EndsSave(s)
    PROVE  IInv'
  <1> DEFINE x == [NotSaving EXCEPT !.at = "ended"]
  <1>0. /\ Typed /\ SInv /\ s \in Recorders /\ Saves(s) /\ saver[s].at = "next"
        /\ saver' = [saver EXCEPT ![s] = x]
        /\ UNCHANGED <<sessionVars, job, log, lease, now, looks, faults>>
    BY WhoRecords DEF IInv, Jobbed, EndsSave, Typed
  <1>1. x \in Savings /\ x.at = "ended"
    <2>1. x \in Savings
      BY NotSavingType, SavingsExcept
    <2> QED BY <2>1, NotSavingType DEF Savings
  <1> HIDE DEF x
  <1>2. saver'[s] = x
    BY <1>0, <1>1, SaverMoved
  <1>3. SInv' /\ Aside(s) /\ work'[s] = work[s]
    BY <1>0, SessionStays DEF sessionVars
  <1>4. Saves(s)'
    BY <1>0, <1>1, <1>2, <1>3 DEF Saves
  <1> QED BY <1>0, <1>1, <1>3, <1>4, SaverActs DEF Typed

\* An entry with another record of one of its signals.
LEMMA EntryExcept ==
    ASSUME NEW entry \in Entries, NEW d \in DOMAIN entry.signals, NEW said \in Datums,
           NEW m, m = [entry EXCEPT !.signals[d] = said]
    PROVE  /\ m \in Entries /\ m.stream = entry.stream /\ DOMAIN m.signals = DOMAIN entry.signals
           /\ m.signals[d] = said
           /\ \A c \in DOMAIN entry.signals : c # d => m.signals[c] = entry.signals[c]
  <1> DEFINE signals == [entry.signals EXCEPT ![d] = said]
  <1>1. m = [entry EXCEPT !.signals = signals]
    BY DEF Entries
  <1>2. /\ DOMAIN signals = DOMAIN entry.signals /\ signals[d] = said
        /\ \A c \in DOMAIN entry.signals : c # d => signals[c] = entry.signals[c]
    OBVIOUS
  <1>3. signals \in UNION {[D -> Datums] : D \in SUBSET Signals}
    <2>1. PICK D \in SUBSET Signals : entry.signals \in [D -> Datums]
      BY DEF Entries
    <2>2. signals \in [D -> Datums]
      BY <2>1
    <2> HIDE DEF signals
    <2> QED BY <2>2
  <1> HIDE DEF signals
  <1>4. m \in Entries /\ m.stream = entry.stream /\ m.signals = signals
    BY <1>1, <1>3 DEF Entries
  <1> QED BY <1>2, <1>4

\* What an entry says of a signal is what it said, with a path.
LEMMA DatumExcept ==
    ASSUME NEW s \in Datums, NEW path \in Names
    PROVE  /\ [s EXCEPT !.path = path] \in Datums /\ [s EXCEPT !.path = path].count = s.count
           /\ [s EXCEPT !.path = path].path = path
           /\ [s EXCEPT !.path = path, !.frames = <<>>] \in Datums
           /\ [s EXCEPT !.path = path, !.frames = <<>>].count = s.count
           /\ [s EXCEPT !.path = path, !.frames = <<>>].path = path
  <1> DEFINE a == [s EXCEPT !.path = path]
             b == [a EXCEPT !.frames = <<>>]
  <1>1. a \in Datums /\ a.count = s.count /\ a.path = path
    BY DEF Datums
  <1>2. b \in Datums /\ b.count = a.count /\ b.path = a.path
    <2> HIDE DEF a
    <2>1. <<>> \in Seq(Frames)
      OBVIOUS
    <2> QED BY <1>1, <2>1 DEF Datums
  <1>3. b = [s EXCEPT !.path = path, !.frames = <<>>]
    OBVIOUS
  <1> HIDE DEF b
  <1> QED BY <1>1, <1>2, <1>3

\* The file of a save that is done is there, and whole if nothing raised.
LEMMA SavedIs ==
    ASSUME IInv, NEW s \in Savers, saver[s].at = "writing", work[s].at = "done"
    PROVE  LET d == saver[s].signal  p == PathsOf(s)[d]
               entry == saver[s].entries[saver[s].entry]
           IN
           /\ p \in Names /\ p \in Mine(s) /\ p \in DOMAIN disk
           /\ work[s].raised = "no" =>
                /\ disk[p].shape = "final" /\ ~disk[p].locked
                /\ disk[p].frames = Series(entry.stream, d, entry.signals[d].count)
  <1> DEFINE entry == saver[s].entries[saver[s].entry]
             d == saver[s].signal
             n == entry.signals[d].count
             p == PathsOf(s)[d]
  <1>0. Typed /\ SInv /\ s \in Recorders
    BY WhoRecords DEF IInv
  <1>1. /\ n \in 1..MaxFrames /\ Writing(s)
        /\ work[s].stream = entry.stream
        /\ \A i \in 1..Len(work[s].sinks) : work[s].sinks[i].signal = d
    BY WritingIs
  <1>2. Over(s) /\ ~Carries(s)
    OBVIOUS
  <1>3. work[s].sinks # <<>> /\ (work[s].raised = "no" => saver[s].left = <<>> /\ Due(s, d) + Len(saver[s].left) = n)
    <2> HIDE DEF Over, Carries
    <2> QED BY <1>1, <1>2 DEF Writing
  <1>4. SinkOf(s, d) # {}
    <2>1. work[s].sinks \in Seq(Names)
      BY <1>0 DEF Typed, Works
    <2>2. 1 \in 1..Len(work[s].sinks)
      BY <1>3, <2>1
    <2> HIDE DEF d
    <2> QED BY <1>1, <2>2 DEF SinkOf
  <1> HIDE DEF d
  <1>5. /\ p \in Mine(s) /\ p \in DOMAIN disk /\ p \in Names /\ p.signal = d
        /\ disk[p].item[2] = work[s].stream /\ Got(s, d) = Len(disk[p].frames)
    BY <1>0, <1>4, PathsAre
  <1> HIDE DEF p
  <1>6. ASSUME work[s].raised = "no"
        PROVE  /\ disk[p].shape = "final" /\ ~disk[p].locked
               /\ disk[p].frames = Series(entry.stream, d, n)
    <2>1. disk[p].shape = "final" /\ ~disk[p].locked
      BY <1>0, <1>5, <1>6, DoneIsWhole
    <2>2. Got(s, d) = n
      <3>1. Due(s, d) = Got(s, d) + 0
        BY <1>2 DEF Due
      <3>2. Len(saver[s].left) = 0
        BY <1>3, <1>6
      <3>3. Got(s, d) \in Nat
        BY <1>0, GotIsNat
      <3> QED BY <1>3, <1>6, <3>1, <3>2, <3>3
    <2>3. disk[p].frames = Series(disk[p].item[2], p.signal, Len(disk[p].frames))
      BY <1>0, <1>5 DEF SInv, Filled
    <2> QED BY <1>1, <1>5, <2>1, <2>2, <2>3
  <1> QED BY <1>5, <1>6 DEF p, d

\* A file of a recorder that comes to rest is nobody's.
LEMMA NobodysThen ==
    ASSUME Typed, SInv, NEW r \in Recorders, Aside(r), Mine(r)' = {}, NEW n \in Mine(r), NEW q \in Recorders
    PROVE  n \notin Mine(q)'
  <1>1. CASE q = r
    BY <1>1
  <1>2. CASE q # r
    BY <1>2, OthersStay DEF SInv, Apart
  <1> QED BY <1>1, <1>2

\* The log when a signal in memory is marked stored.
LEMMA MarkedKeeps ==
    ASSUME IInv, NEW r \in Recorders, Aside(r), NEW e \in 1..Len(log), NEW d \in DOMAIN log[e].signals,
           NEW path \in Names, MarkStored(e, d, path),
           path \in DOMAIN disk', disk'[path].shape = "final",
           disk'[path].frames = Series(log[e].stream, d, log[e].signals[d].count),
           \A q \in Recorders : path \notin Mine(q)'
    PROVE  log' \in Seq(Entries) /\ Grows /\ Settled' /\ Held'
  <1>0. Typed /\ SInv /\ Settled /\ Held /\ log \in Seq(Entries)
    BY DEF IInv, Typed
  <1>1. CASE ~InMemory(log[e].signals[d])
    BY <1>1, LogStays DEF MarkStored
  <1>2. CASE InMemory(log[e].signals[d])
    <2> DEFINE said == [log[e].signals[d] EXCEPT !.path = path, !.frames = <<>>]
               m == [log[e] EXCEPT !.signals[d] = said]
    <2>1. log[e] \in Entries /\ log[e].signals[d] \in Datums
      <3>1. log[e] \in Entries
        BY <1>0
      <3> QED BY <3>1 DEF Entries
    <2>2. said \in Datums /\ said.count = log[e].signals[d].count /\ said.path = path
      BY <2>1, DatumExcept
    <2>3. log' = [log EXCEPT ![e] = m]
      <3>1. log' = [log EXCEPT ![e].signals[d].path = path, ![e].signals[d].frames = <<>>]
        BY <1>2 DEF MarkStored
      <3> QED BY <1>0, <2>1, <3>1
    <2> HIDE DEF said
    <2>4. /\ m \in Entries /\ m.stream = log[e].stream /\ DOMAIN m.signals = DOMAIN log[e].signals
          /\ m.signals[d] = said
          /\ \A c \in DOMAIN log[e].signals : c # d => m.signals[c] = log[e].signals[c]
      BY <2>1, <2>2, EntryExcept
    <2> HIDE DEF m
    <2>5. /\ log' \in Seq(Entries) /\ Len(log') = Len(log) /\ log'[e] = m
          /\ \A i \in 1..Len(log) : i # e => log'[i] = log[i]
      BY <1>0, <2>3, <2>4
    <2>6. path # NoPath
      BY NamesArePaths
    <2>7. Grows
      <3>1. Len(log) \in Nat
        BY <1>0
      <3>2. Alike(log[e], m)
        BY <2>2, <2>4 DEF Alike
      <3>3. \A i \in 1..Len(log) : i # e => Alike(log[i], log'[i])
        BY <2>5 DEF Alike
      <3> QED BY <2>5, <3>1, <3>2, <3>3 DEF Grows
    <2>8. Held'
      <3>1. Whole(m)
        <4>1. Whole(log[e])
          BY <1>0 DEF Held
        <4> QED BY <2>2, <2>4, <2>6, <4>1 DEF Whole, InMemory
      <3>2. \A i \in 1..Len(log) : Whole(log[i])
        BY <1>0 DEF Held
      <3>3. \A i \in 1..Len(log') : Whole(log'[i])
        BY <2>5, <3>1, <3>2
      <3> QED BY <3>3 DEF Held, Whole, InMemory
    <2>9. Settled'
      <3> SUFFICES ASSUME NEW i \in 1..Len(log) PROVE Stored(log[i])'
        BY <2>5 DEF Settled
      <3>1. PICK old : log[i] = old
        OBVIOUS
      <3>2. Stored(old)'
        BY <1>0, <3>1, StoredStays DEF Settled
      <3>3. CASE i # e
        BY <2>5, <3>1, <3>2, <3>3
      <3>4. CASE i = e
        <4> SUFFICES ASSUME NEW c \in DOMAIN m.signals, ~InMemory(m.signals[c])
                     PROVE  LET x == m.signals[c] IN
                            /\ x.path \in DOMAIN disk' /\ disk'[x.path].shape = "final"
                            /\ disk'[x.path].frames = Series(m.stream, c, x.count)
                            /\ \A q \in Recorders : x.path \notin Mine(q)'
          BY <2>5, <3>4 DEF Stored, InMemory
        <4>1. CASE c = d
          BY <2>2, <2>4, <4>1
        <4>2. CASE c # d
          BY <2>4, <3>1, <3>2, <3>4, <4>2 DEF Stored, InMemory
        <4> QED BY <4>1, <4>2
      <3> QED BY <3>3, <3>4
    <2> QED BY <2>5, <2>7, <2>8, <2>9
  <1> QED BY <1>1, <1>2

LEMMA EndsSignalKeeps ==
    ASSUME IInv, NEW s \in Savers, EndsSignal(s)
    PROVE  IInv'
  <1> DEFINE entries == saver[s].entries
             e == saver[s].entry
             entry == entries[e]
             d == saver[s].signal
             path == PathsOf(s)[d]
             marked == [entry EXCEPT !.signals[d] = [entry.signals[d] EXCEPT !.path = path]]
             x == [saver[s] EXCEPT !.at = "next", !.index = work[s].index, !.left = <<>>,
                                   !.entries = [entries EXCEPT ![e] = marked]]
  <1>0. /\ Typed /\ SInv /\ s \in Recorders /\ saver[s] \in Savings /\ work[s] \in Works
        /\ saver[s].at = "writing" /\ work[s].at = "done"
        /\ work' = [work EXCEPT ![s] = Idle] /\ disk' = Released(s, "part")
        /\ UNCHANGED <<cache, look, job, lease, now, looks, faults>>
        /\ log \in Seq(Entries)
    BY WhoRecords DEF IInv, EndsSignal, Typed
  <1>1. /\ e \in 1..Len(entries) /\ entry \in Entries /\ d \in DOMAIN entry.signals
        /\ entry.signals[d] \in Datums /\ entries \in Seq(Entries) /\ Snapshot(s)
    BY <1>0, WritingIs
  <1>2. /\ path \in Names /\ path \in Mine(s) /\ path \in DOMAIN disk
        /\ work[s].raised = "no" =>
             /\ disk[path].shape = "final" /\ ~disk[path].locked
             /\ disk[path].frames = Series(entry.stream, d, entry.signals[d].count)
    BY <1>0, SavedIs
  <1>3. IF work[s].raised # "no" THEN UNCHANGED log ELSE MarkStored(e, d, path)
    BY DEF EndsSignal
  <1>4. saver' = [saver EXCEPT ![s] = x]
    <2>1. saver' = [saver EXCEPT ![s].at = "next", ![s].index = work[s].index, ![s].left = <<>>,
                                 ![s].entries[e].signals[d].path = path]
      BY DEF EndsSignal
    <2> HIDE DEF path
    <2> QED BY <1>0, <1>1, <2>1 DEF Typed
  <1> HIDE DEF path
  <1>5. /\ marked \in Entries /\ marked.stream = entry.stream
        /\ DOMAIN marked.signals = DOMAIN entry.signals
        /\ marked.signals[d].count = entry.signals[d].count /\ marked.signals[d].path = path
        /\ \A c \in DOMAIN entry.signals : c # d => marked.signals[c] = entry.signals[c]
    <2> DEFINE said == [entry.signals[d] EXCEPT !.path = path]
    <2>1. said \in Datums /\ said.count = entry.signals[d].count /\ said.path = path
      BY <1>1, <1>2, DatumExcept
    <2>2. marked = [entry EXCEPT !.signals[d] = said]
      OBVIOUS
    <2> HIDE DEF said, marked, entry, d
    <2>3. /\ marked \in Entries /\ marked.stream = entry.stream
          /\ DOMAIN marked.signals = DOMAIN entry.signals
          /\ marked.signals[d] = said
          /\ \A c \in DOMAIN entry.signals : c # d => marked.signals[c] = entry.signals[c]
      BY <1>1, <2>1, <2>2, EntryExcept
    <2> QED BY <2>1, <2>3
  <1> HIDE DEF marked
  <1>6. /\ x \in Savings /\ x.at = "next" /\ x.entries = [entries EXCEPT ![e] = marked]
    <2>1. [entries EXCEPT ![e] = marked] \in Seq(Entries)
      BY <1>1, <1>5
    <2>2. work[s].index \in 0..MaxIndex /\ <<>> \in Seq(Frames)
      BY <1>0 DEF Works
    <2> DEFINE more == [entries EXCEPT ![e] = marked]
    <2> HIDE DEF more
    <2>3. x = [saver[s] EXCEPT !.at = "next", !.index = work[s].index, !.left = <<>>, !.entries = more]
      BY DEF more
    <2>4. more \in Seq(Entries)
      BY <2>1 DEF more
    <2> HIDE DEF x
    <2>5. x \in Savings
      BY <1>0, <2>2, <2>3, <2>4, SavingsExcept
    <2>6. x.at = "next" /\ x.entries = more
      BY <1>0, <2>3, <2>5 DEF Savings
    <2> QED BY <2>5, <2>6 DEF more
  <1> HIDE DEF x
  <1>7. saver'[s] = x /\ saver' \in [Savers -> Savings] /\ \A t \in Savers \ {s} : saver'[t] = saver[t]
    BY <1>0, <1>4, <1>6, SaverMoved
  <1>8. /\ SInv' /\ Aside(s) /\ Moves(s) /\ DOMAIN disk' = DOMAIN disk
        /\ \A n \in DOMAIN disk : disk'[n].frames = disk[n].frames /\ (~disk[n].locked => disk'[n] = disk[n])
        /\ work'[s].at = "idle" /\ Mine(s)' = {}
    BY <1>0, ReleasedKeeps, RestIs, IdleIs
  <1>9. Alike(entry, log[e]) /\ e \in 1..Len(log) /\ log[e] \in Entries
    <2>1. Len(entries) \in Nat /\ Len(log) \in Nat
      BY <1>0, <1>1
    <2>2. Alike(entry, log[e]) /\ e \in 1..Len(log)
      BY <1>1, <2>1 DEF Snapshot
    <2> QED BY <1>0, <2>2
  <1>10. log' \in Seq(Entries) /\ Grows /\ Settled' /\ Held'
    <2>1. CASE work[s].raised # "no"
      BY <1>0, <1>3, <1>8, <2>1, LogStays
    <2>2. CASE work[s].raised = "no"
      <3>1. MarkStored(e, d, path)
        BY <1>3, <2>2
      <3>2. /\ path \in DOMAIN disk' /\ disk'[path].shape = "final"
            /\ disk'[path].frames = Series(log[e].stream, d, log[e].signals[d].count)
            /\ d \in DOMAIN log[e].signals
        BY <1>1, <1>2, <1>8, <1>9, <2>2 DEF Alike
      <3>3. PICK p \in Names : path = p
        BY <1>2
      <3>4. \A q \in Recorders : p \notin Mine(q)'
        BY <1>0, <1>2, <1>8, <3>3, NobodysThen
      <3> HIDE DEF e, d
      <3> QED BY <1>0, <1>8, <1>9, <3>1, <3>2, <3>3, <3>4, MarkedKeeps
    <2> QED BY <2>1, <2>2
  <1>11. Snapshot(s)'
    <2>1. /\ Len(x.entries) = Len(entries) /\ x.entries[e] = marked
          /\ \A i \in 1..Len(entries) : i # e => x.entries[i] = entries[i]
      BY <1>1, <1>5, <1>6
    <2>2. Len(x.entries) <= Len(log')
      <3>1. Len(entries) \in Nat /\ Len(log) \in Nat /\ Len(log') \in Nat
        BY <1>0, <1>1, <1>10
      <3> QED BY <1>1, <1>10, <2>1, <3>1 DEF Snapshot, Grows
    <2>3. ASSUME NEW i \in 1..Len(entries)
          PROVE  Alike(x.entries[i], log'[i]) /\ Whole(x.entries[i])
      <3>1. Alike(entries[i], log[i]) /\ Whole(entries[i])
        BY <1>1 DEF Snapshot
      <3>2. Alike(log[i], log'[i])
        <4>1. i \in 1..Len(log)
          <5>1. Len(entries) \in Nat /\ Len(log) \in Nat /\ Len(entries) <= Len(log)
            BY <1>0, <1>1 DEF Snapshot
          <5> QED BY <5>1
        <4> QED BY <1>10, <4>1 DEF Grows
      <3>3. Alike(entries[i], log'[i])
        BY <3>1, <3>2 DEF Alike
      <3>4. CASE i # e
        BY <2>1, <3>1, <3>3, <3>4
      <3>5. CASE i = e
        <4>1. Alike(marked, log'[i])
          BY <1>5, <3>3, <3>5 DEF Alike
        <4>2. path # NoPath
          BY <1>2, NamesArePaths
        <4>3. Whole(marked)
          BY <1>5, <3>1, <3>5, <4>2 DEF Whole, InMemory
        <4> QED BY <2>1, <3>5, <4>1, <4>3
      <3> QED BY <3>4, <3>5
    <2> QED BY <1>7, <2>1, <2>2, <2>3 DEF Snapshot, Alike, Whole, InMemory
  <1>12. Saves(s)'
    BY <1>6, <1>7, <1>8, <1>11 DEF Saves
  <1>13. /\ job' \in [Acquirers \cup Viewers -> Jobs] /\ lease' \in Acquirers \cup {Nobody}
         /\ now' \in Stamps /\ looks' \in 0..MaxActs /\ faults' \in 0..MaxFaults
         /\ \A j \in (Acquirers \cup Viewers) \ {s} : job'[j] = job[j]
    BY <1>0 DEF Typed
  <1>14. s \notin Acquirers /\ s \notin Viewers
    BY WhoRecords
  <1> QED BY <1>0, <1>7, <1>8, <1>10, <1>12, <1>13, <1>14, ActsKeep

----------------------------------------------------------------------------
(* The steps of a recorder and of the listing *)

LEMMA ProceedsKeeps ==
    ASSUME IInv, NEW r \in Recorders, SInv', Aside(r), Proceeds(r),
           UNCHANGED <<job, saver, log, lease, now, looks>>, faults' \in 0..MaxFaults
    PROVE  IInv'
  <1>0. Typed /\ SInv /\ Jobbed
    BY DEF IInv
  <1>1. /\ work[r].at \in {"claim", "write", "close"} /\ work'[r].at # "idle"
        /\ work'[r].stream = work[r].stream /\ work'[r].single = work[r].single
        /\ Over(r) => Over(r)'
        /\ Over(r)' => work'[r].sinks # <<>>
        /\ work'[r].raised = "no" =>
             /\ work[r].raised = "no" /\ (Feeding(r)' <=> Feeding(r))
             /\ \A d \in Signals : Due(r, d)' = Due(r, d)
        /\ work'[r].raised # "no" /\ work[r].raised = "no" => Over(r)'
        /\ Carries(r)' => Carries(r) /\ work'[r].frame = work[r].frame
    BY DEF Proceeds
  <1>2. NoSignal \in Signals
    BY DEF Signals
  <1>3. ASSUME r \in Acquirers PROVE Acquires(r)'
    <2>1. Acquires(r) /\ job'[r] = job[r]
      BY <1>0, <1>3 DEF Jobbed
    <2> HIDE DEF Feeding, Over
    <2> QED BY <1>1, <2>1 DEF Acquires
  <1>4. ASSUME r \in Viewers PROVE Records(r)'
    <2>1. Records(r) /\ job'[r] = job[r]
      BY <1>0, <1>4 DEF Jobbed
    <2> HIDE DEF Feeding, Over
    <2> QED BY <1>1, <1>2, <2>1 DEF Records
  <1>5. ASSUME r \in Savers PROVE Saves(r)'
    <2>1. Saves(r) /\ saver[r].at = "writing"
      <3>1. Saves(r)
        BY <1>0, <1>5 DEF Jobbed
      <3> QED BY <1>1, <3>1 DEF Saves
    <2>2. Snapshot(r)'
      BY <2>1 DEF Saves, Snapshot, Alike, Whole, InMemory
    <2>3. PICK d \in Signals : saver[r].signal = d
      BY <1>5, <2>1, WritingIs
    <2>4. Writing(r) /\ work[r].single = FALSE /\ \A i \in 1..Len(work[r].sinks) : work[r].sinks[i].signal = d
      BY <1>5, <2>1, <2>3, WritingIs
    <2>5. \A i \in 1..Len(work'[r].sinks) : work'[r].sinks[i].signal = d
      <3> SUFFICES ASSUME NEW i \in 1..Len(work'[r].sinks) PROVE work'[r].sinks[i].signal = d
        OBVIOUS
      <3>1. Carries(r) => work[r].frame.signal = d
        <4> HIDE DEF Carries
        <4> QED BY <2>3, <2>4 DEF Writing
      <3>2. \A n \in Mine(r) : n.signal = d
        BY <2>4 DEF Mine
      <3> HIDE DEF Carries
      <3> QED BY <2>4, <3>1, <3>2 DEF Proceeds
    <2>6. Over(r)' /\ work'[r].raised = "no" => Over(r)
      <3>1. ~(Over(r)' /\ Feeding(r)')
        OBVIOUS
      <3>2. Feeding(r) \/ Over(r)
        BY <1>1
      <3> HIDE DEF Over, Feeding
      <3> QED BY <1>1, <3>1, <3>2
    <2>7. work'[r].raised = "no" => Due(r, saver[r].signal)' = Due(r, d)
      BY <1>1, <2>3
    <2>8. Writing(r)'
      <3> HIDE DEF Carries, Over, Feeding
      <3> QED BY <1>1, <2>3, <2>4, <2>5, <2>6, <2>7 DEF Writing
    <2> QED BY <2>1, <2>2, <2>8 DEF Saves
  <1>6. /\ job' \in [Acquirers \cup Viewers -> Jobs] /\ saver' \in [Savers -> Savings]
        /\ lease' \in Acquirers \cup {Nobody} /\ now' \in Stamps /\ looks' \in 0..MaxActs
    BY <1>0 DEF Typed
  <1>7. log' \in Seq(Entries) /\ Grows /\ Settled' /\ Held'
    BY LogStays
  <1> QED BY <1>3, <1>4, <1>5, <1>6, <1>7, ActsKeep

\* A recorder that is not at rest records a stream.
LEMMA StreamIs ==
    ASSUME IInv, NEW r \in Recorders, work[r].at # "idle"
    PROVE  work[r].stream \in Streams
  <1>1. CASE r \in Acquirers
    BY <1>1, WhoRecords DEF IInv, Jobbed, Acquires
  <1>2. CASE r \in Viewers
    BY <1>2, WhoRecords DEF IInv, Jobbed, Records
  <1>3. CASE r \in Savers
    <2>1. saver[r].at = "writing"
      BY <1>3 DEF IInv, Jobbed, Saves
    <2> QED BY <1>3, <2>1, WritingIs
  <1> QED BY <1>1, <1>2, <1>3, JobsAssumption

LEMMA RecorderKeeps ==
    ASSUME IInv, NEW r \in Recorders, RecordStep(r) \/ RecordFault(r)
    PROVE  IInv'
  <1>0. Typed /\ SInv
    BY DEF IInv
  <1>1. CASE RecordStep(r)
    <2>1. UNCHANGED <<job, saver, log, lease, now, looks, faults>>
      BY <1>1 DEF RecordStep, dashVars
    <2>2. SInv' /\ Aside(r) /\ Proceeds(r)
      BY <1>0, <1>1, StreamIs, RecordStepKeeps DEF RecordStep
    <2>3. faults' \in 0..MaxFaults
      BY <1>0, <2>1 DEF Typed
    <2> QED BY <2>1, <2>2, <2>3, ProceedsKeeps
  <1>2. CASE RecordFault(r)
    <2>1. UNCHANGED <<job, saver, log, lease, now, looks>> /\ Fault
      BY <1>2 DEF RecordFault
    <2>2. SInv' /\ Aside(r) /\ Proceeds(r)
      BY <1>0, <1>2, RecordFaultKeeps DEF RecordFault
    <2>3. faults' \in 0..MaxFaults
      BY <1>0, <2>1, JobsAssumption DEF Typed, Fault
    <2> QED BY <2>1, <2>2, <2>3, ProceedsKeeps
  <1> QED BY <1>1, <1>2

\* A step that records nothing and starts nothing.
LEMMA QuietKeeps ==
    ASSUME IInv, SInv', UNCHANGED <<disk, work, job, saver, log, now, faults>>,
           lease' \in Acquirers \cup {Nobody}, looks' \in 0..MaxActs
    PROVE  IInv'
  <1>0. Typed /\ SInv /\ Jobbed /\ Settled /\ Held
    BY DEF IInv
  <1>1. Typed'
    BY <1>0 DEF Typed
  <1>2. \A r, d : Due(r, d)' = Due(r, d) /\ Mine(r)' = Mine(r)
    BY <1>0, DirectoryStays
  <1>3. Grows /\ log' \in Seq(Entries) /\ log \in Seq(Entries)
    BY <1>0, SamesGrows DEF Typed
  <1>4. ASSUME NEW j \in Acquirers PROVE Acquires(j)'
    BY <1>0, <1>2, AcquiresStays DEF Jobbed
  <1>5. ASSUME NEW v \in Viewers PROVE Records(v)'
    BY <1>0, <1>2, RecordsStays DEF Jobbed
  <1>6. ASSUME NEW s \in Savers PROVE Saves(s)'
    <2>1. saver[s].entries \in Seq(Entries)
      <3>1. saver[s] \in Savings
        BY <1>0 DEF Typed
      <3> QED BY <3>1 DEF Savings
    <2> QED BY <1>0, <1>2, <1>3, <2>1, SavesStays DEF Jobbed
  <1>7. Settled'
    BY <1>0, <1>2 DEF Settled, Stored, InMemory
  <1>8. Held'
    BY <1>0 DEF Held, Whole, InMemory
  <1> QED BY <1>1, <1>4, <1>5, <1>6, <1>7, <1>8 DEF IInv, Jobbed

LEMMA LapsesKeeps ==
    ASSUME IInv, Lapses
    PROVE  IInv'
  <1>0. Typed /\ SInv
    BY DEF IInv
  <1>1. UNCHANGED <<disk, work, cache, look, job, saver, log, now, looks, faults>> /\ lease' = Nobody
    BY DEF Lapses, sessionVars
  <1>2. looks' \in 0..MaxActs /\ Listed'
    BY <1>0, <1>1 DEF Typed, SInv, Listed, ListingIsOfItsStamp
  <1>3. SInv'
    BY <1>0, <1>1, <1>2, DirectoryStays DEF SInv
  <1> QED BY <1>1, <1>2, <1>3, QuietKeeps

LEMMA ListsKeeps ==
    ASSUME IInv, Lists
    PROVE  IInv'
  <1>0. Typed /\ SInv
    BY DEF IInv
  <1>1. CASE Describes /\ UNCHANGED dashVars
    <2>1. SInv' /\ UNCHANGED <<disk, work, job, saver, log, now, faults, lease, looks>>
      BY <1>0, <1>1, DescribesKeeps DEF dashVars
    <2>2. lease' \in Acquirers \cup {Nobody} /\ looks' \in 0..MaxActs
      BY <1>0, <2>1 DEF Typed
    <2> QED BY <2>1, <2>2, QuietKeeps
  <1>2. CASE /\ MayAct /\ looks' = looks + 1 /\ (\E n \in DOMAIN disk : Stats(n))
             /\ UNCHANGED <<job, saver, log, lease, now, faults>>
    <2>1. SInv' /\ UNCHANGED <<disk, work>>
      BY <1>0, <1>2, StatsKeeps
    <2>2. lease' \in Acquirers \cup {Nobody}
      BY <1>0, <1>2 DEF Typed
    <2>3. looks' \in 0..MaxActs
      <3> DEFINE ran == {j \in Acquirers \cup Viewers : job[j].at # "new"}
                            \cup {s \in Savers : saver[s].at # "new"}
      <3>1. looks \in Nat /\ MaxActs \in Nat /\ looks + Cardinality(ran) < MaxActs
        BY <1>0, <1>2, JobsAssumption DEF Typed, MayAct
      <3>2. Cardinality(ran) \in Nat
        <4>1. ran \subseteq Recorders
          BY JobsAssumption
        <4> HIDE DEF ran
        <4> QED BY <4>1, FiniteAssumption, FS_Subset, FS_CardinalityType
      <3> HIDE DEF ran
      <3> QED BY <1>2, <3>1, <3>2
    <2> QED BY <1>2, <2>1, <2>2, <2>3, QuietKeeps
  <1> QED BY <1>1, <1>2 DEF Lists

----------------------------------------------------------------------------
(* The invariant *)

LEMMA InitKeeps == Init => IInv
  <1> SUFFICES ASSUME Init PROVE IInv
    OBVIOUS
  <1>0. /\ disk = << >> /\ cache = << >> /\ look = NoLook /\ work = [r \in Recorders |-> Idle]
        /\ job = [j \in Acquirers \cup Viewers |-> NotRun] /\ saver = [s \in Savers |-> NotSaving]
        /\ log = <<>> /\ lease = Nobody /\ now = 0 /\ looks = 0 /\ faults = 0
    BY DEF Init, SessionInit
  <1>1. DOMAIN disk = {} /\ DOMAIN cache = {} /\ Len(log) = 0 /\ log \in Seq(Entries)
    BY <1>0
  <1>2. Typed
    <2>1. disk \in [DOMAIN disk -> Files]
      BY <1>0, <1>1
    <2>2. 0 \in Stamps /\ 0 \in 0..MaxActs /\ 0 \in 0..MaxFaults
      BY JobsAssumption DEF Stamps
    <2>3. /\ work \in [Recorders -> Works] /\ job \in [Acquirers \cup Viewers -> Jobs]
          /\ saver \in [Savers -> Savings]
      BY <1>0, IdleType, NotRunIs, NotSavingType
    <2> QED BY <1>0, <1>1, <2>1, <2>2, <2>3 DEF Typed
  <1>3. \A r \in Recorders :
            /\ work[r] = Idle /\ work[r].at = "idle" /\ work[r].single = FALSE /\ work[r].sinks = <<>>
            /\ work[r].taken = <<>> /\ Mine(r) = {}
    BY <1>0, IdleIs DEF Mine
  <1>4. Recorded
    <2> SUFFICES ASSUME NEW r \in Recorders PROVE Sunk(r) /\ Shut(r) /\ Carried(r) /\ Copied(r)
      BY DEF Recorded
    <2> QED BY <1>3 DEF Sunk, Shut, Carried, Copied
  <1>5. Filled /\ Apart /\ Listed
    BY <1>0, <1>1, <1>3 DEF Filled, Apart, Listed, ListingIsOfItsStamp
  <1>6. Jobbed
    <2>1. \A j \in Acquirers \cup Viewers : job[j].at = "new" /\ job[j].stored = FALSE
      BY <1>0, NotRunIs
    <2>2. \A s \in Savers : saver[s].at = "new"
      BY <1>0, NotSavingType
    <2> QED BY <1>3, <2>1, <2>2, WhoRecords DEF Jobbed, Acquires, Records, Saves
  <1>7. Settled /\ Held
    BY <1>1 DEF Settled, Held
  <1> QED BY <1>2, <1>4, <1>5, <1>6, <1>7 DEF IInv, SInv

LEMMA NextKeeps == IInv /\ [Next]_vars => IInv'
  <1> SUFFICES ASSUME IInv, [Next]_vars PROVE IInv'
    OBVIOUS
  <1>1. ASSUME NEW j \in Acquirers, Acquisition(j) PROVE IInv'
    <2>1. CASE \E stored \in BOOLEAN : StartAcquisition(j, stored)
      BY <2>1, StartAcquisitionKeeps
    <2>2. CASE TakesLease(j)
      BY <2>2, TakesLeaseKeeps
    <2>3. CASE IsRefused(j)
      BY <2>3, IsRefusedKeeps
    <2>4. CASE \E d \in Datasets : Yields(j, d)
      BY <2>4, YieldsKeeps
    <2>5. CASE \E raises \in BOOLEAN : SeriesEnds(j, raises)
      BY <2>5, SeriesEndsKeeps
    <2>6. CASE EndsAcquisition(j)
      BY <2>6, EndsAcquisitionKeeps
    <2>7. CASE Forgets(j)
      BY <2>7, ForgetsKeeps
    <2> QED BY <1>1, <2>1, <2>2, <2>3, <2>4, <2>5, <2>6, <2>7 DEF Acquisition
  <1>2. ASSUME NEW s \in Savers, Save(s) PROVE IInv'
    <2>1. CASE StartSave(s)
      BY <2>1, StartSaveKeeps
    <2>2. CASE \E e \in 1..Len(saver[s].entries) : \E d \in Datasets : SavesSignal(s, e, d)
      BY <2>2, SavesSignalKeeps
    <2>3. CASE FeedsFrame(s)
      BY <2>3, FeedsFrameKeeps
    <2>4. CASE FeedsEnd(s)
      BY <2>4, FeedsEndKeeps
    <2>5. CASE EndsSignal(s)
      BY <2>5, EndsSignalKeeps
    <2>6. CASE EndsSave(s)
      BY <2>6, EndsSaveKeeps
    <2> QED BY <1>2, <2>1, <2>2, <2>3, <2>4, <2>5, <2>6 DEF Save
  <1>3. ASSUME NEW v \in Viewers, Recording(v) PROVE IInv'
    <2>1. CASE StartRecording(v)
      BY <2>1, StartRecordingKeeps
    <2>2. CASE Cancel(v)
      BY <2>2, CancelKeeps
    <2>3. CASE RecordsFrame(v)
      BY <2>3, RecordsFrameKeeps
    <2>4. CASE EndsRecording(v)
      BY <2>4, EndsRecordingKeeps
    <2>5. CASE Killed(v)
      BY <2>5, KilledKeeps
    <2> QED BY <1>3, <2>1, <2>2, <2>3, <2>4, <2>5 DEF Recording
  <1>4. ASSUME NEW r \in Recorders, RecordStep(r) \/ RecordFault(r) PROVE IInv'
    BY <1>4, RecorderKeeps
  <1>5. CASE UNCHANGED vars
    <2>1. UNCHANGED <<disk, work, cache, look, job, saver, log, lease, now, looks, faults>>
      BY <1>5 DEF vars, sessionVars, dashVars
    <2>2. Typed /\ SInv
      BY DEF IInv
    <2>3. Listed'
      BY <2>1, <2>2 DEF SInv, Listed, ListingIsOfItsStamp
    <2>4. SInv'
      BY <2>1, <2>2, <2>3, DirectoryStays DEF SInv
    <2>5. lease' \in Acquirers \cup {Nobody} /\ looks' \in 0..MaxActs
      BY <2>1, <2>2 DEF Typed
    <2> QED BY <2>1, <2>4, <2>5, QuietKeeps
  <1> QED BY <1>1, <1>2, <1>3, <1>4, <1>5, LapsesKeeps, ListsKeeps DEF Next

\* The invariant the properties below follow from: every recorder is where its
\* job has it, its files say what its stream did, and the log what they say.
THEOREM Invariance == Spec => []IInv
  BY InitKeeps, NextKeeps, PTL DEF Spec

----------------------------------------------------------------------------
(* What the directory and the log promise *)

LEMMA TypesFollow == IInv => TypeOK
  <1> SUFFICES ASSUME IInv PROVE TypeOK
    OBVIOUS
  <1>0. Typed /\ SInv
    BY DEF IInv
  <1>1. ASSUME NEW n \in DOMAIN disk PROVE IsFile(disk[n])
    <2>1. disk[n] \in Files /\ disk[n].frames = Series(disk[n].item[2], n.signal, Len(disk[n].frames))
      BY <1>0 DEF Typed, SInv, Filled
    <2>2. /\ DOMAIN disk[n] = {"item", "frames", "shape", "locked"}
          /\ disk[n].item \in Recorders \X Streams /\ disk[n].frames \in Seq(Frames)
          /\ disk[n].shape \in Shapes /\ disk[n].locked \in BOOLEAN
      BY <2>1 DEF Files
    <2> DEFINE k == Len(disk[n].frames)
    <2>3. k \in Nat /\ \A i \in 1..k : disk[n].frames[i] \in Frames /\ disk[n].frames[i].place = i
      BY <2>1, <2>2 DEF Series
    <2> HIDE DEF k
    <2>4. k <= MaxFrames
      <3>1. CASE k = 0
        BY <3>1
      <3>2. CASE k # 0
        <4>1. k \in 1..k
          BY <2>3, <3>2
        <4>2. disk[n].frames[k] \in Frames /\ disk[n].frames[k].place = k
          BY <2>3, <4>1
        <4> QED BY <4>2 DEF Frames
      <3> QED BY <3>1, <3>2
    <2>5. k <= 2 * MaxFrames
      BY <2>3, <2>4
    <2> QED BY <2>2, <2>3, <2>5 DEF IsFile, k
  <1>2. ASSUME NEW r \in Recorders
        PROVE  /\ work[r].at \in Ats /\ work[r].stream \in Streams \cup {NoStream} /\ work[r].stamp \in Stamps
               /\ work[r].index \in 0..MaxIndex /\ work[r].number \in 1..MaxIndex + 1
               /\ work[r].attempt \in 1..MaxAttempt /\ work[r].signal \in Signals
               /\ \A i \in 1..Len(work[r].sinks) : work[r].sinks[i] \in DOMAIN disk
               /\ \A i \in 1..Len(work[r].taken) : work[r].taken[i] \in Frames
    <2>1. work[r] \in Works /\ Sunk(r)
      BY <1>0 DEF Typed, SInv, Recorded
    <2>2. \A i \in 1..Len(work[r].sinks) : work[r].sinks[i] \in DOMAIN disk
      BY <2>1 DEF Sunk, Mine
    <2> QED BY <2>1, <2>2 DEF Works
  <1>3. DOMAIN cache \subseteq DOMAIN disk /\ (look = NoLook \/ look.name \in DOMAIN disk)
    BY <1>0 DEF SInv, Listed
  <1>4. SessionTypeOK
    BY <1>0, <1>1, <1>2, <1>3 DEF SessionTypeOK, Typed
  <1>5. \A j \in Acquirers \cup Viewers : job[j].at \in {"new", "lease", "series", "over", "ended", "gone"}
    BY <1>0 DEF Typed, Jobs
  <1>6. \A s \in Savers : saver[s].at \in {"new", "next", "writing", "ended"}
    BY <1>0 DEF Typed, Savings
  <1>7. ASSUME NEW e \in 1..Len(log) PROVE log[e].stream \in Streams
    <2>1. log[e] \in Entries
      BY <1>0 DEF Typed
    <2> QED BY <2>1 DEF Entries
  <1> QED BY <1>0, <1>4, <1>5, <1>6, <1>7 DEF TypeOK, Typed

\* The variables have their types.
THEOREM TypeCorrect == Spec => []TypeOK
  BY Invariance, TypesFollow, PTL

\* A file holds the frames of one signal of one acquisition, in their order
\* (FrameSink.append after Session.reserve of storage/session.py), however many
\* threads and processes claim names in the directory at once.
THEOREM OneSignalEach == Spec => []OneSignalPerFile
  <1>1. IInv => OneSignalPerFile
    <2> SUFFICES ASSUME IInv, NEW n \in DOMAIN disk,
                        NEW i \in 1..Len(disk[n].frames), NEW j \in 1..Len(disk[n].frames)
                 PROVE  /\ disk[n].frames[i].stream = disk[n].frames[j].stream
                        /\ disk[n].frames[i].signal = n.signal
                        /\ i < j => disk[n].frames[i].place < disk[n].frames[j].place
      BY DEF OneSignalPerFile
    <2>1. disk[n].frames = Series(disk[n].item[2], n.signal, Len(disk[n].frames))
      BY DEF IInv, SInv, Filled
    <2> QED BY <2>1 DEF Series
  <1> QED BY <1>1, Invariance, PTL

\* What SessionLog says of a signal is all there is to find it by: its frames
\* are in memory, or its path names a closed file with every one of them, while
\* saves that overlap mark the same entry stored.
THEOREM DataIsKept == Spec => []DataIsHeldOrOnDisk
  <1>1. IInv => DataIsHeldOrOnDisk
    <2> SUFFICES ASSUME IInv, NEW e \in 1..Len(log), NEW d \in DOMAIN log[e].signals
                 PROVE  LET s == log[e].signals[d]
                            all == IF InMemory(s) THEN s.frames ELSE disk[s.path].frames
                        IN /\ all = [i \in 1..s.count |->
                                        [stream |-> log[e].stream, signal |-> d, place |-> i]]
                           /\ ~InMemory(s) => disk[s.path].shape = "final"
      BY DEF DataIsHeldOrOnDisk
    <2>1. Whole(log[e]) /\ Stored(log[e])
      BY DEF IInv, Settled, Held
    <2> QED BY <2>1 DEF Whole, Stored, Series
  <1> QED BY <1>1, Invariance, PTL

\* An item that failed part-way is still an item: whatever unwound the loop of
\* record_datasets() but a close() that raised, each signal that got frames has
\* a whole file of them all, and no file has another but for the place of the
\* one frame whose write raised, in its signal's.
THEOREM FailedItemsAreWhole == Spec => []WhatGotFramesIsWhole
  <1>1. IInv => WhatGotFramesIsWhole
    <2> SUFFICES ASSUME IInv, NEW r \in Recorders, work[r].at = "done", work[r].raised # "close",
                        NEW i \in 1..Len(work[r].sinks)
                 PROVE  LET name == work[r].sinks[i] IN
                        /\ disk[name].shape = "final"
                        /\ Content(disk[name].frames) \in Kept(r, name.signal)
      BY DEF WhatGotFramesIsWhole
    <2>1. Typed /\ SInv /\ Copied(r) /\ work[r].sinks[i] \in Mine(r)
      BY DEF IInv, SInv, Recorded, Mine
    <2>2. disk[work[r].sinks[i]].shape = "final"
      BY <2>1, DoneIsWhole
    <2> QED BY <2>1, <2>2 DEF Copied
  <1> QED BY <1>1, Invariance, PTL

\* A listing (Session.recordings) says of a file what it holds now, or that it
\* is in use, whenever its stamp is the one the listing keeps: a file that is
\* written between its stamp and its description cannot get an old one.
THEOREM ListingsAreOfTheirStamp == Spec => []ListingIsOfItsStamp
  <1>1. IInv => ListingIsOfItsStamp
    BY DEF IInv, SInv, Listed
  <1> QED BY <1>1, Invariance, PTL

\* A step appends to the log, marks one signal stored, or leaves it alone.
LEMMA WhatLogs ==
    ASSUME [Next]_vars
    PROVE  \/ log' = log
           \/ \E entry : log' = Append(log, entry)
           \/ \E s \in Savers : EndsSignal(s)
  <1>1. CASE UNCHANGED vars
    BY <1>1 DEF vars, dashVars
  <1>2. ASSUME NEW j \in Acquirers, Acquisition(j)
        PROVE  log' = log \/ \E entry : log' = Append(log, entry)
    <2>1. CASE EndsAcquisition(j)
      BY <2>1 DEF EndsAcquisition, Logs, LogsRefusal
    <2>2. CASE ~EndsAcquisition(j)
      BY <1>2, <2>2
         DEF Acquisition, StartAcquisition, TakesLease, IsRefused, Yields, SeriesEnds, Forgets
    <2> QED BY <2>1, <2>2
  <1>3. ASSUME NEW s \in Savers, Save(s)
        PROVE  log' = log \/ EndsSignal(s)
    BY <1>3 DEF Save, StartSave, SavesSignal, FeedsFrame, FeedsEnd, EndsSave, dashVars
  <1>4. ASSUME NEW v \in Viewers, Recording(v)
        PROVE  log' = log
    BY <1>4 DEF Recording, StartRecording, Cancel, RecordsFrame, EndsRecording, Killed
  <1>5. ASSUME NEW r \in Recorders, RecordStep(r) \/ RecordFault(r)
        PROVE  log' = log
    BY <1>5 DEF RecordStep, RecordFault, dashVars
  <1>6. ASSUME Lapses \/ Lists
        PROVE  log' = log
    BY <1>6 DEF Lapses, Lists, dashVars
  <1> QED BY <1>1, <1>2, <1>3, <1>4, <1>5, <1>6 DEF Next

\* A signal that has a path keeps that one (SessionLog.mark_stored), whichever
\* of two saves that wrote it comes second.
THEOREM PathsStay == Spec => PathIsForever
  <1> DEFINE Stays == \A e \in 1..Len(log) : \A d \in DOMAIN log[e].signals :
                        ~InMemory(log[e].signals[d]) => log'[e].signals[d].path = log[e].signals[d].path
  <1>1. IInv /\ [Next]_vars => [Stays]_vars
    <2> SUFFICES ASSUME IInv, [Next]_vars, NEW e \in 1..Len(log), NEW d \in DOMAIN log[e].signals,
                        ~InMemory(log[e].signals[d])
                 PROVE  log'[e].signals[d].path = log[e].signals[d].path
      OBVIOUS
    <2>0. log \in Seq(Entries)
      BY DEF IInv, Typed
    <2>1. CASE log' = log
      BY <2>1
    <2>2. ASSUME NEW entry, log' = Append(log, entry)
          PROVE  log'[e] = log[e]
      BY <2>0, <2>2
    <2>3. ASSUME NEW s \in Savers, EndsSignal(s)
          PROVE  log'[e].signals[d].path = log[e].signals[d].path
      <3> DEFINE f == saver[s].entry  c == saver[s].signal  path == PathsOf(s)[c]
      <3>1. log' = log \/ (InMemory(log[f].signals[c])
                           /\ log' = [log EXCEPT ![f].signals[c].path = path, ![f].signals[c].frames = <<>>])
        BY <2>3 DEF EndsSignal, MarkStored
      <3> HIDE DEF f, c, path
      <3>2. CASE f = e /\ c = d
        BY <3>1, <3>2
      <3>3. CASE f # e
        BY <2>0, <3>1, <3>3
      <3>4. CASE f = e /\ c # d
        <4>1. log[e] \in Entries
          BY <2>0
        <4> QED BY <2>0, <3>1, <3>4, <4>1 DEF Entries
      <3> QED BY <3>2, <3>3, <3>4
    <2> QED BY <2>1, <2>2, <2>3, WhatLogs
  <1> QED BY <1>1, Invariance, PTL DEF Spec, PathIsForever
============================================================================
