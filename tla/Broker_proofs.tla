----------------------------- MODULE Broker_proofs -----------------------------
(***************************************************************************)
(* Theorems about Broker, for any clients, targets and leases, with every   *)
(* operation, with calls overlapping at will, leases lapsing at any moment  *)
(* and devices raising; a theorem that needs less of that says so.          *)
(***************************************************************************)
EXTENDS Broker, FiniteSetTheorems, TLAPS

\* What only the properties read; no step of the code depends on it.
USE DEF history

LEMMA FirstIsMember ==
    ASSUME NEW S \in SUBSET Targets, S # {}
    PROVE  First(S) \in S
  <1>1. PICK t \in S : \A s \in S : Rank[t] <= Rank[s]
    BY RankAssumption
  <1>2. QED BY <1>1 DEF First

LEMMA LastIsMember ==
    ASSUME NEW S \in SUBSET Targets, S # {}
    PROVE  Last(S) \in S
  <1>1. PICK t \in S : \A s \in S : Rank[s] <= Rank[t]
    BY RankAssumption
  <1>2. QED BY <1>1 DEF Last

----------------------------------------------------------------------------
\* What the locals r of a call hold at point p of it, for a client that holds lease h.
Shape(p, r, h) ==
    /\ p = "idle" => r = NoCall
    /\ p \in {"grant", "undo"} => r.job = "grant"
    /\ p \in {"stop", "join", "halt"} => r.job \in {"grant", "live"} /\ r.left # {}
    /\ p = "restart" => r.job \in {"sweep", "release", "grant"} /\ r.left # {}
    /\ p \in {"sweep", "swept", "renew", "calling", "peeking", "KeyError"} =>
            r.job # "grant"
    /\ p \in {"renew", "calling"} => h # NoLease
    /\ r.job = "grant" => r.lease # NoLease

CallShape == \A c \in Clients : Shape(pc[c], call[c], held[c])

\* The broker's own state, and the clients', apart: an action writes few of the former
\* and the latter of one client.
DataOK ==
    /\ claims \in [Targets -> LeaseIds \cup {NoLease}]
    /\ granted \subseteq LeaseIds
    /\ lapsed \subseteq LeaseIds
    /\ holding \in [LeaseIds -> SUBSET Targets]
    /\ restarts \in [LeaseIds -> SUBSET Targets]
    /\ specs \in [Targets -> Specs]
    /\ current \in [Targets -> LoopIds \cup {NoLoop}]
    /\ drives \in [LoopIds -> Targets \cup {NoTarget}]
    /\ pass \in [LoopIds -> Lengths]
    /\ doomed \subseteq LoopIds
    /\ powered \subseteq Cameras
    /\ held \in [Clients -> LeaseIds \cup {NoLease}]
    /\ wanted \subseteq Targets

ClientsOK ==
    /\ pc \in [Clients -> Points]
    /\ call \in [Clients -> Calls]
    /\ CallShape

Typed == DataOK /\ ClientsOK

LEMMA NoCallTyped == NoCall \in Calls
  BY DEF NoCall, Calls, Jobs, Lengths

LEMMA TypedInit == Init => Typed
  <1> SUFFICES ASSUME Init PROVE Typed
    OBVIOUS
  <1>1. DataOK
    BY DEF Init, DataOK, Lengths, Specs
  <1>2. CallShape
    BY DEF Init, CallShape, Shape, NoCall
  <1>3. ClientsOK
    BY <1>2, NoCallTyped DEF Init, ClientsOK, Points
  <1> QED BY <1>1, <1>3 DEF Typed

\* A step that moves one client to a point and gives it the locals that point needs.
LEMMA OneClient ==
    ASSUME ClientsOK, NEW c \in Clients, NEW p \in Points, NEW r \in Calls,
           pc' = [pc EXCEPT ![c] = p], call' = [call EXCEPT ![c] = r],
           \A d \in Clients \ {c} : held'[d] = held[d],
           Shape(p, r, held'[c])
    PROVE  ClientsOK'
  <1>1. pc' \in [Clients -> Points] /\ call' \in [Clients -> Calls]
    BY DEF ClientsOK
  <1>2. ASSUME NEW d \in Clients PROVE Shape(pc'[d], call'[d], held'[d])
    <2>1. CASE d = c
      BY <2>1 DEF ClientsOK
    <2>2. CASE d # c
      <3>1. pc'[d] = pc[d] /\ call'[d] = call[d] /\ held'[d] = held[d]
        BY <2>2 DEF ClientsOK
      <3> QED BY <3>1 DEF ClientsOK, CallShape
    <2> QED BY <2>1, <2>2
  <1> QED BY <1>1, <1>2 DEF ClientsOK, CallShape

\* The same for a step that ends the call.
LEMMA OneReturns ==
    ASSUME ClientsOK, NEW c \in Clients, Return(c),
           \A d \in Clients \ {c} : held'[d] = held[d]
    PROVE  ClientsOK'
  <1>1. Shape("idle", NoCall, held'[c])
    BY DEF Shape, NoCall
  <1> QED BY <1>1, NoCallTyped, OneClient DEF Return, Points

\* And for a step that leaves the clients alone.
LEMMA NoClient ==
    ASSUME ClientsOK, UNCHANGED <<pc, call, held>>
    PROVE  ClientsOK'
  BY DEF ClientsOK, CallShape

\* The locals at the point a client is at.
LEMMA Locals ==
    ASSUME Typed, NEW c \in Clients
    PROVE  /\ call[c] \in Calls
           /\ call[c].sweep \in SUBSET LeaseIds
           /\ call[c].left \in SUBSET Targets
           /\ call[c].stopped \in SUBSET Targets
           /\ call[c].want \in SUBSET Targets
           /\ call[c].lease \in LeaseIds \cup {NoLease}
           /\ call[c].loop \in LoopIds \cup {NoLoop}
           /\ Shape(pc[c], call[c], held[c])
           /\ call[c].left # {} => First(call[c].left) \in call[c].left
           /\ call[c].left # {} => Last(call[c].left) \in call[c].left
  BY FirstIsMember, LastIsMember DEF Typed, ClientsOK, CallShape, Calls

\* Forms the locals take.
LEMMA SweepLocals ==
    ASSUME NEW S \in SUBSET LeaseIds, NEW T \in SUBSET Targets, NEW j \in Jobs
    PROVE  [NoCall EXCEPT !.job = j, !.sweep = S, !.left = T] \in Calls
  BY DEF Calls, NoCall, Jobs, Lengths

LEMMA WorkerTyped ==
    ASSUME Typed, NEW l \in LoopIds, PassEnds(l) \/ GrabRaises(l)
    PROVE  Typed'
  <1>1. ClientsOK'
    BY NoClient DEF PassEnds, GrabRaises, Typed
  <1>2. drives[l] \in Targets
    BY DEF PassEnds, GrabRaises, Live, Typed, DataOK
  <1>3. CASE PassEnds(l)
    <2>1. drives' \in [LoopIds -> Targets \cup {NoTarget}] /\ pass' \in [LoopIds -> Lengths]
          /\ doomed' \subseteq LoopIds /\ wanted' \subseteq Targets
      BY <1>3 DEF PassEnds, Die, PassUnder, Lengths, Typed, DataOK
    <2> QED BY <1>1, <1>3, <2>1 DEF PassEnds, Typed, DataOK
  <1>4. CASE GrabRaises(l)
    <2>1. drives' \in [LoopIds -> Targets \cup {NoTarget}] /\ pass' \in [LoopIds -> Lengths]
          /\ doomed' \subseteq LoopIds /\ wanted' \subseteq Targets
      BY <1>4 DEF GrabRaises, Die, Lengths, Typed, DataOK
    <2> QED BY <1>1, <1>4, <2>1 DEF GrabRaises, Typed, DataOK
  <1> QED BY <1>3, <1>4

LEMMA CallBeginsTyped ==
    ASSUME Typed, NEW c \in Clients, CallBegins(c)
    PROVE  Typed'
  <1> DEFINE r == [NoCall EXCEPT !.job = "sweep", !.sweep = granted \cap lapsed]
             p == IF granted \cap lapsed = {} THEN "swept" ELSE "sweep"
  <1>1. r \in Calls /\ r.job = "sweep"
    BY DEF Typed, DataOK, Calls, NoCall, Jobs, Lengths
  <1>2. p \in Points /\ Shape(p, r, held'[c])
    BY <1>1 DEF Points, Shape
  <1>3. ClientsOK'
    <2> HIDE DEF r, p
    <2>1. pc' = [pc EXCEPT ![c] = p] /\ call' = [call EXCEPT ![c] = r] /\ held' = held
      BY DEF CallBegins, r, p
    <2> QED BY <1>1, <1>2, <2>1, OneClient DEF Typed
  <1>4. DataOK'
    BY DEF CallBegins, tableVars, loopVars, Typed, DataOK
  <1> QED BY <1>3, <1>4 DEF Typed

\* What DropLease leaves of the table is typed.
LEMMA DropTyped ==
    ASSUME DataOK, NEW l \in LeaseIds,
           DropLease(l) \/ UNCHANGED <<granted, lapsed, claims>>
    PROVE  /\ claims' \in [Targets -> LeaseIds \cup {NoLease}]
           /\ granted' \subseteq LeaseIds
           /\ lapsed' \subseteq LeaseIds
  BY DEF DropLease, DataOK

LEMMA ToRestartTyped ==
    ASSUME DataOK, NEW l \in LeaseIds
    PROVE  ToRestart(l) \in SUBSET Targets
  BY DEF ToRestart, DataOK

LEMMA SweepOneTyped ==
    ASSUME Typed, NEW c \in Clients, SweepOne(c)
    PROVE  Typed'
  <1>1. PICK l \in call[c].sweep :
          /\ IF l \in granted THEN DropLease(l) ELSE UNCHANGED <<granted, lapsed, claims>>
          /\ call' = [call EXCEPT ![c] =
                        [NoCall EXCEPT !.job = "sweep", !.sweep = call[c].sweep \ {l},
                                       !.left = ToRestart(l)]]
          /\ pc' = [pc EXCEPT ![c] = IF ToRestart(l) = {}
                                      THEN AfterSweep(call[c].sweep \ {l}) ELSE "restart"]
    BY DEF SweepOne
  <1>2. l \in LeaseIds
    BY Locals
  <1> DEFINE r == [NoCall EXCEPT !.job = "sweep", !.sweep = call[c].sweep \ {l},
                                 !.left = ToRestart(l)]
             p == IF ToRestart(l) = {} THEN AfterSweep(call[c].sweep \ {l}) ELSE "restart"
  <1>3. r \in Calls /\ r.job = "sweep" /\ r.left = ToRestart(l)
    <2>1. call[c].sweep \ {l} \in SUBSET LeaseIds /\ ToRestart(l) \in SUBSET Targets
      BY <1>2, Locals, ToRestartTyped DEF Typed
    <2> QED BY <2>1, SweepLocals DEF NoCall, Jobs
  <1>4. p \in Points /\ Shape(p, r, held'[c])
    BY <1>3 DEF Points, Shape, AfterSweep
  <1>5. ClientsOK'
    <2> HIDE DEF r, p
    <2>1. pc' = [pc EXCEPT ![c] = p] /\ call' = [call EXCEPT ![c] = r] /\ held' = held
      BY <1>1 DEF SweepOne, r, p
    <2> QED BY <1>3, <1>4, <2>1, OneClient DEF Typed
  <1>6. DataOK'
    BY <1>1, <1>2, DropTyped DEF SweepOne, loopVars, Typed, DataOK
  <1> QED BY <1>5, <1>6 DEF Typed

LEMMA ReleaseTyped ==
    ASSUME Typed, NEW c \in Clients, Release(c)
    PROVE  Typed'
  <1> DEFINE l == held[c]
             todo == ToRestart(l)
             r == IF todo = {} THEN NoCall
                  ELSE [NoCall EXCEPT !.job = "release", !.left = todo]
             p == IF todo = {} THEN "idle" ELSE "restart"
  <1>1. l \in LeaseIds
    BY DEF Release, Typed, DataOK
  <1>2. todo \in SUBSET Targets
    BY <1>1, ToRestartTyped DEF Typed
  <1>3. r \in Calls /\ (todo # {} => r.job = "release" /\ r.left = todo)
                    /\ (todo = {} => r = NoCall)
    <2> HIDE DEF todo
    <2> QED BY <1>2, NoCallTyped DEF Calls, NoCall, Jobs, Lengths
  <1>4. p \in Points /\ Shape(p, r, held'[c])
    <2> HIDE DEF todo, r
    <2> QED BY <1>3 DEF Points, Shape, NoCall
  <1>5. ClientsOK'
    <2>1. pc' = [pc EXCEPT ![c] = p] /\ call' = [call EXCEPT ![c] = r]
          /\ \A d \in Clients \ {c} : held'[d] = held[d]
      BY DEF Release, Typed, DataOK
    <2> HIDE DEF r, p
    <2> QED BY <1>3, <1>4, <2>1, OneClient DEF Typed
  <1>6. DropLease(l) \/ UNCHANGED <<granted, lapsed, claims>>
    BY DEF Release
  <1>7. DataOK'
    <2>1. held' \in [Clients -> LeaseIds \cup {NoLease}]
      BY DEF Release, Typed, DataOK
    <2> QED BY <1>1, <1>6, <2>1, DropTyped DEF Release, loopVars, Typed, DataOK
  <1> QED BY <1>5, <1>7 DEF Typed

\* StartLoop keeps the types of what it writes.
LEMMA StartLoopTyped ==
    ASSUME DataOK, NEW t \in Targets, NEW spec \in Specs,
           StartLoop(t, spec) \/ FailsToStart(t) \/ UNCHANGED loopVars
    PROVE  /\ current' \in [Targets -> LoopIds \cup {NoLoop}]
           /\ drives' \in [LoopIds -> Targets \cup {NoTarget}]
           /\ pass' \in [LoopIds -> Lengths]
           /\ doomed' \subseteq LoopIds
           /\ powered' \subseteq Cameras
  <1>1. CASE StartLoop(t, spec)
    <2>1. PICK l \in NewLoops : /\ current' = [current EXCEPT ![t] = l]
                                /\ drives' = [drives EXCEPT ![l] = t]
                                /\ pass' = [pass EXCEPT ![l] = PassUnder(t, spec)]
                                /\ powered' = powered \cup ({t} \cap Cameras)
                                /\ UNCHANGED doomed
      BY <1>1 DEF StartLoop
    <2>2. l \in LoopIds
      BY DEF NewLoops
    <2>3. PassUnder(t, spec) \in Lengths
      BY DEF PassUnder, Lengths
    <2> QED BY <2>1, <2>2, <2>3 DEF DataOK
  <1>2. CASE FailsToStart(t) \/ UNCHANGED loopVars
    BY <1>2 DEF FailsToStart, loopVars, DataOK
  <1> QED BY <1>1, <1>2

LEMMA RestartOneTyped ==
    ASSUME Typed, NEW c \in Clients, RestartOne(c)
    PROVE  Typed'
  <1> DEFINE t == Last(call[c].left)
             rest == call[c].left \ {t}
             r == IF rest = {} /\ AfterRestart(c) = "idle" THEN NoCall
                  ELSE [call[c] EXCEPT !.left = rest]
             p == IF rest = {} THEN AfterRestart(c) ELSE "restart"
  <1>1. /\ call[c] \in Calls
        /\ call[c].job \in {"sweep", "release", "grant"}
        /\ call[c].job = "grant" => call[c].lease # NoLease
        /\ t \in Targets /\ rest \in SUBSET Targets
    BY Locals DEF RestartOne, Shape
  <1>2. specs[t] \in Specs
    BY <1>1 DEF Typed, DataOK
  <1>3. StartLoop(t, specs[t]) \/ FailsToStart(t) \/ UNCHANGED loopVars
    BY DEF RestartOne
  <1>4. [call[c] EXCEPT !.left = rest] \in Calls
        /\ [call[c] EXCEPT !.left = rest].job = call[c].job
        /\ [call[c] EXCEPT !.left = rest].left = rest
        /\ [call[c] EXCEPT !.left = rest].lease = call[c].lease
    <2> HIDE DEF t, rest
    <2> QED BY <1>1 DEF Calls
  <1>5. r \in Calls /\ p \in Points /\ Shape(p, r, held'[c])
    <2> HIDE DEF t, rest
    <2>1. CASE rest = {} /\ AfterRestart(c) = "idle"
      BY <2>1, NoCallTyped DEF Shape, Points, NoCall
    <2>2. CASE rest # {}
      BY <2>2, <1>1, <1>4 DEF Shape, Points
    <2>3. CASE rest = {} /\ AfterRestart(c) # "idle"
      <3>1. \/ call[c].job = "sweep" /\ p \in {"sweep", "swept"}
            \/ call[c].job = "grant" /\ p = "undo"
        BY <2>3, <1>1 DEF AfterRestart, AfterSweep
      <3> QED BY <2>3, <3>1, <1>1, <1>4 DEF Shape, Points
    <2> QED BY <2>1, <2>2, <2>3
  <1>6. ClientsOK'
    <2>1. pc' = [pc EXCEPT ![c] = p] /\ call' = [call EXCEPT ![c] = r] /\ held' = held
      BY DEF RestartOne
    <2> HIDE DEF r, p
    <2> QED BY <1>5, <2>1, OneClient DEF Typed
  <1>7. DataOK'
    <2> HIDE DEF t
    <2>1. UNCHANGED <<tableVars, specs, held>> /\ wanted' \subseteq wanted
      BY DEF RestartOne
    <2>2. /\ current' \in [Targets -> LoopIds \cup {NoLoop}]
          /\ drives' \in [LoopIds -> Targets \cup {NoTarget}]
          /\ pass' \in [LoopIds -> Lengths]
          /\ doomed' \subseteq LoopIds
          /\ powered' \subseteq Cameras
      BY <1>1, <1>2, <1>3, StartLoopTyped DEF Typed
    <2> QED BY <2>1, <2>2 DEF tableVars, Typed, DataOK
  <1> QED BY <1>6, <1>7 DEF Typed

\* The steps that end a call and change nothing else.
LEMMA EndsTyped ==
    ASSUME Typed, NEW c \in Clients, Return(c),
           UNCHANGED <<tableVars, specs, loopVars, held>>, wanted' \subseteq wanted
    PROVE  Typed'
  <1>1. ClientsOK'
    BY OneReturns DEF Typed
  <1> QED BY <1>1 DEF tableVars, loopVars, Typed, DataOK

\* Those that move a client and change nothing else but history.
LEMMA MovesTyped ==
    ASSUME Typed, NEW c \in Clients, NEW p \in Points, NEW r \in Calls,
           pc' = [pc EXCEPT ![c] = p], call' = [call EXCEPT ![c] = r],
           Shape(p, r, held[c]),
           UNCHANGED <<tableVars, specs, loopVars, held>>, wanted' \subseteq wanted
    PROVE  Typed'
  <1>1. ClientsOK'
    BY OneClient DEF Typed
  <1> QED BY <1>1 DEF tableVars, loopVars, Typed, DataOK

LEMMA RefusedTyped ==
    ASSUME Typed, NEW c \in Clients, NEW ts, RefusedByClaim(c, ts)
    PROVE  Typed'
  <1> DEFINE taken == {t \in ts : ~Unclaimed(t)}
             p == IF claims[First(taken)] \in granted THEN "idle" ELSE "KeyError"
  <1>1. pc' = [pc EXCEPT ![c] = p] /\ call' = [call EXCEPT ![c] = NoCall]
        /\ UNCHANGED <<tableVars, specs, loopVars, held, wanted>>
    BY DEF RefusedByClaim
  <1>2. p \in Points /\ Shape(p, NoCall, held[c])
    BY DEF Points, Shape, NoCall
  <1> HIDE DEF p
  <1> QED BY <1>1, <1>2, NoCallTyped, MovesTyped

LEMMA StartLiveTyped ==
    ASSUME Typed, NEW c \in Clients, StartLive(c)
    PROVE  Typed'
  <1>1. PICK t \in Cameras \cup Scanners :
          \/ RefusedByClaim(c, {t})
          \/ Starts(c, t) /\ Return(c) /\ UNCHANGED <<tableVars, held>>
    BY DEF StartLive
  <1>2. CASE RefusedByClaim(c, {t})
    BY <1>2, RefusedTyped
  <1>3. CASE Starts(c, t) /\ Return(c) /\ UNCHANGED <<tableVars, held>>
    <2>1. ClientsOK'
      BY <1>3, OneReturns DEF Typed
    <2>2. t \in Targets
      BY DEF Targets
    <2>3. CASE Running(t) /\ UNCHANGED <<specs, loopVars, wanted>>
      BY <1>3, <2>1, <2>3 DEF tableVars, loopVars, Typed, DataOK
    <2>4. CASE ~(Running(t) /\ UNCHANGED <<specs, loopVars, wanted>>)
      <3>1. PICK spec \in SpecChoices(t) :
              /\ specs' = [specs EXCEPT ![t] = spec]
              /\ \/ StartLoop(t, spec) /\ wanted' = wanted \cup {t}
                 \/ (FailsToStart(t) \/ UNCHANGED loopVars) /\ UNCHANGED wanted
        BY <1>3, <2>4 DEF Starts
      <3>2. spec \in Specs
        BY ChoiceAssumption DEF SpecChoices, Specs, Lengths
      <3>3. specs' \in [Targets -> Specs] /\ wanted' \subseteq Targets
        BY <2>2, <3>1, <3>2 DEF Typed, DataOK
      <3>4. StartLoop(t, spec) \/ FailsToStart(t) \/ UNCHANGED loopVars
        BY <3>1
      <3>5. /\ current' \in [Targets -> LoopIds \cup {NoLoop}]
            /\ drives' \in [LoopIds -> Targets \cup {NoTarget}]
            /\ pass' \in [LoopIds -> Lengths]
            /\ doomed' \subseteq LoopIds
            /\ powered' \subseteq Cameras
        BY <2>2, <3>2, <3>4, StartLoopTyped DEF Typed
      <3> QED BY <1>3, <2>1, <3>3, <3>5 DEF tableVars, Typed, DataOK
    <2> QED BY <2>3, <2>4
  <1> QED BY <1>1, <1>2, <1>3

LEMMA ReconfigureTyped ==
    ASSUME Typed, NEW c \in Clients, ReconfigureLive(c)
    PROVE  Typed'
  <1>1. PICK t \in Scanners :
          \/ RefusedByClaim(c, {t})
          \/ /\ \E spec \in Geometries \ {"unset"} : specs' = [specs EXCEPT ![t] = spec]
             /\ Return(c)
             /\ UNCHANGED <<tableVars, loopVars, held, wanted>>
    BY DEF ReconfigureLive
  <1>2. CASE ~RefusedByClaim(c, {t})
    <2>1. ClientsOK'
      BY <1>1, <1>2, OneReturns DEF Typed
    <2>2. specs' \in [Targets -> Specs]
      BY <1>1, <1>2, ChoiceAssumption DEF Specs, Lengths, Targets, Typed, DataOK
    <2> QED BY <1>1, <1>2, <2>1, <2>2 DEF tableVars, loopVars, Typed, DataOK
  <1> QED BY <1>1, <1>2, RefusedTyped

LEMMA StopLiveTyped ==
    ASSUME Typed, NEW c \in Clients, StopLive(c)
    PROVE  Typed'
  <1>1. PICK t \in Cameras \cup Scanners :
          \/ RefusedByClaim(c, {t})
          \/ /\ pc' = [pc EXCEPT ![c] = "stop"]
             /\ call' = [call EXCEPT ![c] = [NoCall EXCEPT !.job = "live", !.left = {t}]]
             /\ UNCHANGED <<tableVars, specs, loopVars, held, wanted>>
    BY DEF StopLive
  <1> DEFINE r == [NoCall EXCEPT !.job = "live", !.left = {t}]
  <1>2. r \in Calls /\ Shape("stop", r, held[c])
    BY DEF Calls, NoCall, Jobs, Lengths, Targets, Shape
  <1>3. CASE ~RefusedByClaim(c, {t})
    <2>1. pc' = [pc EXCEPT ![c] = "stop"] /\ call' = [call EXCEPT ![c] = r]
          /\ UNCHANGED <<tableVars, specs, loopVars, held, wanted>>
      BY <1>1, <1>3
    <2> HIDE DEF r
    <2> QED BY <1>2, <2>1, MovesTyped DEF Points
  <1> QED BY <1>1, <1>3, RefusedTyped

LEMMA GrantClaimsTyped ==
    ASSUME Typed, NEW c \in Clients, GrantClaims(c)
    PROVE  Typed'
  <1>1. PICK ts \in (SUBSET Targets) \ {{}} :
          \/ RefusedByClaim(c, ts)
          \/ \E l \in NewLeases :
              /\ ClaimAll(ts, l)
              /\ pc' = [pc EXCEPT ![c] = "grant"]
              /\ call' = [call EXCEPT ![c] = [NoCall EXCEPT !.job = "grant", !.left = ts,
                                                !.want = ts, !.lease = l]]
              /\ UNCHANGED <<granted, lapsed, holding, restarts, specs, loopVars, held,
                             wanted>>
    BY DEF GrantClaims
  <1>2. CASE ~RefusedByClaim(c, ts)
    <2>1. PICK l \in NewLeases :
            /\ ClaimAll(ts, l)
            /\ pc' = [pc EXCEPT ![c] = "grant"]
            /\ call' = [call EXCEPT ![c] = [NoCall EXCEPT !.job = "grant", !.left = ts,
                                              !.want = ts, !.lease = l]]
            /\ UNCHANGED <<granted, lapsed, holding, restarts, specs, loopVars, held,
                           wanted>>
      BY <1>1, <1>2
    <2> DEFINE r == [NoCall EXCEPT !.job = "grant", !.left = ts, !.want = ts, !.lease = l]
    <2>2. l \in LeaseIds
      BY DEF NewLeases
    <2>3. r \in Calls /\ r.job = "grant" /\ r.lease # NoLease
      BY <2>2, IdAssumption DEF Calls, NoCall, Jobs, Lengths
    <2>4. ClientsOK'
      <3>1. call' = [call EXCEPT ![c] = r] /\ held' = held
        BY <2>1
      <3>2. Shape("grant", r, held'[c])
        <4> HIDE DEF r
        <4> QED BY <2>3 DEF Shape
      <3> HIDE DEF r
      <3> QED BY <2>1, <2>3, <3>1, <3>2, OneClient DEF Points, Typed
    <2>5. claims' \in [Targets -> LeaseIds \cup {NoLease}]
      BY <2>1, <2>2 DEF ClaimAll, Typed, DataOK
    <2> QED BY <2>1, <2>4, <2>5 DEF loopVars, Typed, DataOK
  <1> QED BY <1>1, <1>2, RefusedTyped

LEMMA GrantLooksTyped ==
    ASSUME Typed, NEW c \in Clients, GrantLooks(c)
    PROVE  Typed'
  <1> DEFINE t == First(call[c].left)
             r == [call[c] EXCEPT !.left = @ \ {t}]
  <1>1. /\ call[c] \in Calls /\ call[c].left \in SUBSET Targets
        /\ pc[c] = "grant" /\ call[c].job = "grant" /\ call[c].left # {}
        /\ call[c].lease # NoLease
    BY Locals DEF GrantLooks, Shape
  <1>2. CASE Running(t)
    <2>1. Shape("stop", call[c], held[c])
      BY <1>1 DEF Shape
    <2>2. pc' = [pc EXCEPT ![c] = "stop"] /\ call' = [call EXCEPT ![c] = call[c]]
      BY <1>2 DEF GrantLooks, Typed, ClientsOK
    <2> QED BY <1>1, <2>1, <2>2, MovesTyped DEF GrantLooks, Points
  <1>3. CASE ~Running(t)
    <2>1. r \in Calls /\ r.job = "grant" /\ r.lease = call[c].lease
      BY <1>1 DEF Calls
    <2>2. Shape("grant", r, held[c])
      <3> HIDE DEF r
      <3> QED BY <1>1, <2>1 DEF Shape
    <2>3. pc' = [pc EXCEPT ![c] = "grant"] /\ call' = [call EXCEPT ![c] = r]
          /\ UNCHANGED <<tableVars, specs, loopVars, held, wanted>>
      BY <1>1, <1>3 DEF GrantLooks, Typed, ClientsOK
    <2> HIDE DEF r
    <2> QED BY <2>1, <2>2, <2>3, MovesTyped DEF Points
  <1> QED BY <1>2, <1>3

\* Stopped(c, t) keeps the clients typed, and so does a step built around it.
LEMMA StoppedTyped ==
    ASSUME Typed, NEW c \in Clients, NEW t \in Targets, Stopped(c, t),
           pc[c] \in {"stop", "join", "halt"}, held' = held
    PROVE  ClientsOK' /\ wanted' \subseteq Targets
  <1>1. CASE call[c].job = "grant"
    <2> DEFINE r == [call[c] EXCEPT !.left = @ \ {t}, !.stopped = @ \cup {t},
                                    !.loop = NoLoop, !.due = "short"]
    <2>1. r \in Calls /\ r.job = "grant" /\ r.lease # NoLease
      BY <1>1, Locals DEF Calls, Lengths, Shape
    <2>2. Shape("grant", r, held'[c])
      <3> HIDE DEF r
      <3> QED BY <2>1 DEF Shape
    <2>3. pc' = [pc EXCEPT ![c] = "grant"] /\ call' = [call EXCEPT ![c] = r]
          /\ wanted' = wanted
      BY <1>1 DEF Stopped
    <2> HIDE DEF r
    <2>4. ClientsOK'
      BY <2>1, <2>2, <2>3, OneClient DEF Points, Typed
    <2> QED BY <2>3, <2>4 DEF Typed, DataOK
  <1>2. CASE call[c].job # "grant"
    BY <1>2, OneReturns DEF Stopped, Typed, DataOK
  <1> QED BY <1>1, <1>2

LEMMA StopSignalsTyped ==
    ASSUME Typed, NEW c \in Clients, StopSignals(c)
    PROVE  Typed'
  <1> DEFINE t == First(call[c].left)
             r == [call[c] EXCEPT !.loop = current[t], !.due = JoinDeadline(t)]
  <1>1. /\ call[c] \in Calls /\ pc[c] = "stop" /\ t \in Targets
        /\ call[c].job \in {"grant", "live"} /\ call[c].left # {}
        /\ call[c].job = "grant" => call[c].lease # NoLease
    BY Locals DEF StopSignals, Shape
  <1>2. CASE Running(t)
    <2>1. current[t] \in LoopIds
      BY <1>1, <1>2 DEF Running, Live, Typed, DataOK
    <2>2. JoinDeadline(t) \in Lengths
      BY DEF JoinDeadline, PassUnder, Lengths
    <2>3. r \in Calls /\ r.job = call[c].job /\ r.left = call[c].left
          /\ r.lease = call[c].lease
      <3> HIDE DEF t
      <3> QED BY <1>1, <2>1, <2>2 DEF Calls
    <2>4. Shape("join", r, held'[c])
      <3> HIDE DEF r
      <3> QED BY <1>1, <2>3 DEF Shape
    <2>5. pc' = [pc EXCEPT ![c] = "join"] /\ call' = [call EXCEPT ![c] = r]
          /\ held' = held /\ wanted' = wanted /\ doomed' = doomed \cup {current[t]}
      BY <1>2 DEF StopSignals
    <2>6. ClientsOK'
      <3> HIDE DEF r
      <3> QED BY <2>3, <2>4, <2>5, OneClient DEF Points, Typed
    <2>7. UNCHANGED <<tableVars, specs, current, drives, pass, powered, held>>
      BY DEF StopSignals
    <2> HIDE DEF t, r
    <2> QED BY <2>1, <2>5, <2>6, <2>7 DEF tableVars, Typed, DataOK
  <1>3. CASE ~Running(t)
    <2>1. Stopped(c, t) /\ doomed' = doomed
          /\ UNCHANGED <<tableVars, specs, current, drives, pass, powered, held>>
      BY <1>3 DEF StopSignals
    <2> HIDE DEF t
    <2>2. ClientsOK' /\ wanted' \subseteq Targets
      BY <1>1, <2>1, StoppedTyped
    <2> QED BY <2>1, <2>2 DEF tableVars, Typed, DataOK
  <1> QED BY <1>2, <1>3

LEMMA StopJoinsTyped ==
    ASSUME Typed, NEW c \in Clients, StopJoins(c)
    PROVE  Typed'
  <1> DEFINE t == First(call[c].left)
  <1>1. /\ call[c] \in Calls /\ pc[c] = "join" /\ t \in Targets
        /\ call[c].job \in {"grant", "live"} /\ call[c].left # {}
        /\ call[c].job = "grant" => call[c].lease # NoLease
    BY Locals DEF StopJoins, Shape
  <1>2. UNCHANGED <<tableVars, specs, loopVars, held>>
    BY DEF StopJoins
  <1>3. CASE t \in Cameras
    <2>1. pc' = [pc EXCEPT ![c] = "halt"] /\ call' = [call EXCEPT ![c] = call[c]]
          /\ wanted' = wanted
      BY <1>3 DEF StopJoins, Typed, ClientsOK
    <2>2. Shape("halt", call[c], held[c])
      BY <1>1 DEF Shape
    <2> QED BY <1>1, <1>2, <2>1, <2>2, MovesTyped DEF Points
  <1>4. CASE t \notin Cameras
    <2>1. Stopped(c, t)
      BY <1>4 DEF StopJoins
    <2> HIDE DEF t
    <2>2. ClientsOK' /\ wanted' \subseteq Targets
      BY <1>1, <1>2, <2>1, StoppedTyped
    <2> QED BY <1>2, <2>2 DEF tableVars, loopVars, Typed, DataOK
  <1> QED BY <1>3, <1>4

LEMMA StopHaltsTyped ==
    ASSUME Typed, NEW c \in Clients, StopHalts(c)
    PROVE  Typed'
  <1> DEFINE t == First(call[c].left)
  <1>1. pc[c] = "halt" /\ t \in Targets
    BY Locals DEF StopHalts, Shape
  <1>2. /\ UNCHANGED <<tableVars, specs, current, drives, pass, doomed, held>>
        /\ Stopped(c, t) /\ powered' = powered \ {t}
    BY DEF StopHalts
  <1> HIDE DEF t
  <1>3. ClientsOK' /\ wanted' \subseteq Targets
    BY <1>1, <1>2, StoppedTyped
  <1> QED BY <1>2, <1>3 DEF tableVars, Typed, DataOK

LEMMA StopTimesOutTyped ==
    ASSUME Typed, NEW c \in Clients, StopTimesOut(c)
    PROVE  Typed'
  <1> DEFINE r == [call[c] EXCEPT !.left = call[c].stopped, !.stopped = {},
                                  !.loop = NoLoop, !.due = "short"]
             p == IF call[c].stopped = {} THEN "undo" ELSE "restart"
  <1>1. CASE call[c].job = "grant"
    <2>1. r \in Calls /\ r.job = "grant" /\ r.left = call[c].stopped /\ r.lease # NoLease
      BY <1>1, Locals DEF Calls, Lengths, Shape
    <2>2. p \in Points /\ Shape(p, r, held[c])
      <3> HIDE DEF r
      <3> QED BY <2>1 DEF Points, Shape
    <2>3. pc' = [pc EXCEPT ![c] = p] /\ call' = [call EXCEPT ![c] = r]
          /\ UNCHANGED <<tableVars, specs, loopVars, held>> /\ wanted' \subseteq wanted
      BY <1>1 DEF StopTimesOut
    <2> HIDE DEF p, r
    <2> QED BY <2>1, <2>2, <2>3, MovesTyped
  <1>2. CASE call[c].job # "grant"
    BY <1>2, EndsTyped DEF StopTimesOut
  <1> QED BY <1>1, <1>2

LEMMA GrantRefusedTyped ==
    ASSUME Typed, NEW c \in Clients, GrantRefused(c)
    PROVE  Typed'
  <1>1. ClientsOK'
    BY OneReturns DEF GrantRefused, Typed
  <1>2. claims' \in [Targets -> LeaseIds \cup {NoLease}]
    BY DEF GrantRefused, UndoClaims, Typed, DataOK
  <1> QED BY <1>1, <1>2 DEF GrantRefused, loopVars, Typed, DataOK

LEMMA GrantDoneTyped ==
    ASSUME Typed, NEW c \in Clients, GrantDone(c)
    PROVE  Typed'
  <1> DEFINE l == call[c].lease
  <1>1. /\ granted' = granted \cup {l} /\ held' = [held EXCEPT ![c] = l]
        /\ holding' = [holding EXCEPT ![l] = call[c].want]
        /\ restarts' = [restarts EXCEPT ![l] = call[c].stopped]
        /\ Return(c)
        /\ UNCHANGED <<claims, lapsed, specs, loopVars, wanted>>
    BY DEF GrantDone
  <1>2. l \in LeaseIds /\ pc[c] = "grant" /\ call[c].want \in SUBSET Targets
        /\ call[c].stopped \in SUBSET Targets
    BY Locals DEF GrantDone, Shape
  <1> HIDE DEF l
  <1>3. ClientsOK'
    <2>1. \A d \in Clients \ {c} : held'[d] = held[d]
      BY <1>1 DEF Typed, DataOK
    <2> QED BY <1>1, <2>1, OneReturns DEF Typed
  <1> QED BY <1>1, <1>2, <1>3 DEF loopVars, Typed, DataOK

LEMMA RenewChecksTyped ==
    ASSUME Typed, NEW c \in Clients, RenewChecks(c)
    PROVE  Typed'
  <1>1. held[c] # NoLease
    BY IdAssumption DEF RenewChecks, LeaseStands, Typed, DataOK
  <1>2. call[c] \in Calls /\ call[c].job # "grant"
    BY Locals DEF RenewChecks, Shape
  <1>3. Shape("renew", call[c], held[c])
    BY <1>1, <1>2 DEF Shape
  <1>4. pc' = [pc EXCEPT ![c] = "renew"] /\ call' = [call EXCEPT ![c] = call[c]]
    BY DEF RenewChecks, Typed, ClientsOK
  <1> QED BY <1>2, <1>3, <1>4, MovesTyped DEF RenewChecks, Points

LEMMA RenewWritesTyped ==
    ASSUME Typed, NEW c \in Clients, RenewWrites(c)
    PROVE  Typed'
  <1>1. held[c] \in LeaseIds
    BY Locals DEF RenewWrites, Shape, Typed, DataOK
  <1>2. ClientsOK'
    BY OneReturns DEF RenewWrites, Typed
  <1> QED BY <1>1, <1>2 DEF RenewWrites, loopVars, Typed, DataOK

\* A client that goes to read one device, under its lease or under nobody's.
LEMMA ReadsTyped ==
    ASSUME Typed, NEW c \in Clients, CallChecks(c) \/ PeekChecks(c)
    PROVE  Typed'
  <1>1. PICK p \in {"calling", "peeking"}, t \in Targets :
          /\ pc' = [pc EXCEPT ![c] = p]
          /\ call' = [call EXCEPT ![c] = [call[c] EXCEPT !.left = {t}]]
          /\ p = "calling" => held[c] # NoLease
    <2>1. CASE CallChecks(c)
      <3>1. held[c] \in LeaseIds /\ held[c] # NoLease
        BY <2>1, IdAssumption DEF CallChecks, LeaseStands, Typed, DataOK
      <3>2. PICK t \in holding[held[c]] :
              call' = [call EXCEPT ![c] = [call[c] EXCEPT !.left = {t}]]
        BY <2>1 DEF CallChecks
      <3>3. t \in Targets /\ pc' = [pc EXCEPT ![c] = "calling"]
        BY <2>1, <3>1 DEF CallChecks, Typed, DataOK
      <3> QED BY <3>1, <3>2, <3>3
    <2>2. CASE PeekChecks(c)
      BY <2>2 DEF PeekChecks, Targets
    <2> QED BY <2>1, <2>2
  <1> DEFINE r == [call[c] EXCEPT !.left = {t}]
  <1>2. call[c] \in Calls /\ call[c].job # "grant"
    BY Locals DEF CallChecks, PeekChecks, Shape
  <1>3. r \in Calls /\ r.job = call[c].job
    BY <1>2 DEF Calls
  <1>4. p \in Points /\ Shape(p, r, held[c])
    <2> HIDE DEF r
    <2> QED BY <1>1, <1>2, <1>3 DEF Points, Shape
  <1>5. UNCHANGED <<tableVars, specs, loopVars, held, wanted>> /\ call' = [call EXCEPT ![c] = r]
    BY <1>1 DEF CallChecks, PeekChecks
  <1> HIDE DEF r
  <1> QED BY <1>1, <1>3, <1>4, <1>5, MovesTyped

LEMMA TypedNext == Typed /\ [Next]_vars => Typed'
  <1> SUFFICES ASSUME Typed, [Next]_vars PROVE Typed'
    OBVIOUS
  <1>1. ASSUME NEW l \in LoopIds, Loop(l) PROVE Typed'
    BY <1>1, WorkerTyped DEF Loop
  <1>2. ASSUME NEW l \in LeaseIds, Lapse(l) PROVE Typed'
    <2>1. ClientsOK'
      BY <1>2, NoClient DEF Lapse, Typed
    <2> QED BY <1>2, <2>1 DEF Lapse, loopVars, Typed, DataOK
  <1>3. ASSUME NEW c \in Clients,
               RestartRaises(c) \/ KeyErrorCaught(c) \/ StopRaises(c) \/ Answered(c)
                 \/ DeviceReturns(c)
        PROVE  Typed'
    BY <1>3, EndsTyped DEF RestartRaises, KeyErrorCaught, StopRaises, Answered, DeviceReturns
  <1>4. ASSUME NEW c \in Clients, Body(c) PROVE Typed'
    BY <1>3, <1>4, StartLiveTyped, ReconfigureTyped, StopLiveTyped, GrantClaimsTyped,
       RenewChecksTyped, ReadsTyped DEF Body
  <1>5. ASSUME NEW c \in Clients, Proceeds(c) PROVE Typed'
    BY <1>3, <1>5, SweepOneTyped, RestartOneTyped, GrantLooksTyped, GrantDoneTyped,
       GrantRefusedTyped, StopSignalsTyped, StopJoinsTyped, StopHaltsTyped,
       StopTimesOutTyped, RenewWritesTyped DEF Proceeds
  <1>6. CASE UNCHANGED vars
    <2>1. ClientsOK'
      BY <1>6, NoClient DEF vars, Typed
    <2> QED BY <1>6, <2>1 DEF vars, Typed, DataOK
  <1> QED
    BY <1>1, <1>2, <1>4, <1>5, <1>6, CallBeginsTyped, ReleaseTyped DEF Next, Client

\* Of the histories, the one that only the properties below look at.
RacedOK == raced \subseteq Targets

LEMMA RacedTyped == Typed /\ RacedOK /\ [Next]_vars => RacedOK'
  <1> SUFFICES ASSUME Typed, raced \subseteq Targets, [Next]_vars
               PROVE  raced' \subseteq Targets
    BY DEF RacedOK
  <1>1. \A c \in Clients : holding[held[c]] \in SUBSET Targets \/ pc[c] # "renew"
    BY Locals DEF Shape, Typed, DataOK
  <1>2. \A l \in LeaseIds : CalledUnder(l) \subseteq Targets
    BY DEF CalledUnder, Typed, DataOK
  <1>4. ASSUME NEW c \in Clients,
               \/ SweepOne(c) \/ RestartOne(c) \/ RestartRaises(c) \/ StopHalts(c)
               \/ RenewWrites(c)
        PROVE  raced' \subseteq Targets
    <2>0. /\ call[c].left \subseteq Targets /\ call[c].sweep \subseteq LeaseIds
          /\ call[c].left # {} => /\ First(call[c].left) \in Targets
                                 /\ Last(call[c].left) \in Targets
          /\ pc[c] \in {"restart", "halt"} => call[c].left # {}
      BY Locals DEF Shape
    <2>1. CASE SweepOne(c)
      <3>1. PICK l \in call[c].sweep :
              raced' = raced \cup (IF l \in granted THEN CalledUnder(l) ELSE {})
        BY <2>1 DEF SweepOne
      <3> QED BY <1>2, <2>0, <3>1
    <2>2. CASE RestartOne(c)
      <3>1. /\ pc[c] = "restart"
            /\ raced' \in {raced, raced \cup {Last(call[c].left)}}
        BY <2>2 DEF RestartOne
      <3> QED BY <2>0, <3>1
    <2>3. CASE RestartRaises(c)
      BY <2>0, <2>3 DEF RestartRaises
    <2>4. CASE StopHalts(c)
      <3>1. /\ pc[c] = "halt"
            /\ raced' \in {raced, raced \cup {First(call[c].left)}}
        BY <2>4 DEF StopHalts
      <3> QED BY <2>0, <3>1
    <2>5. CASE RenewWrites(c)
      BY <1>1, <2>5 DEF RenewWrites
    <2> QED BY <1>4, <2>1, <2>2, <2>3, <2>4, <2>5
  <1>5. ASSUME NEW c \in Clients, Client(c),
               ~ (\/ SweepOne(c) \/ RestartOne(c) \/ RestartRaises(c) \/ StopHalts(c)
                  \/ RenewWrites(c))
        PROVE  UNCHANGED raced
    <2>1. CASE CallBegins(c) \/ Release(c) \/ StartLive(c) \/ ReconfigureLive(c) \/ StopLive(c)
      BY <2>1 DEF CallBegins, Release, StartLive, ReconfigureLive, StopLive, RefusedByClaim,
         Starts
    <2>2. CASE GrantClaims(c) \/ RenewChecks(c) \/ CallChecks(c) \/ PeekChecks(c) \/ Answered(c)
      BY <2>2 DEF GrantClaims, RenewChecks, CallChecks, PeekChecks, Answered, RefusedByClaim
    <2>3. CASE \/ GrantLooks(c) \/ GrantDone(c) \/ GrantRefused(c) \/ StopSignals(c)
               \/ StopJoins(c) \/ StopRaises(c) \/ StopTimesOut(c) \/ DeviceReturns(c)
               \/ KeyErrorCaught(c)
      BY <2>3 DEF GrantLooks, GrantDone, GrantRefused, StopSignals, StopJoins, StopRaises,
         StopTimesOut, DeviceReturns, KeyErrorCaught
    <2> QED BY <1>5, <2>1, <2>2, <2>3 DEF Client, Body, Proceeds
  <1>6. CASE (\E l \in LoopIds : Loop(l)) \/ (\E l \in LeaseIds : Lapse(l)) \/ UNCHANGED vars
    BY <1>6 DEF Loop, PassEnds, GrabRaises, Lapse, vars
  <1> QED BY <1>4, <1>5, <1>6 DEF Next

\* Every variable has its type, whatever calls overlap, lapse, fail or time out.
THEOREM TypeCorrect == Spec => []TypeOK
  <1>1. Init => RacedOK
    BY DEF Init, RacedOK
  <1>2. Typed /\ RacedOK => TypeOK
    BY DEF Typed, DataOK, ClientsOK, RacedOK, TypeOK
  <1> QED BY <1>1, <1>2, TypedInit, TypedNext, RacedTyped, PTL DEF Spec

----------------------------------------------------------------------------
\* What the claims say, and of whom: the strengthening of GrantsAreWhole.

\* A grant in progress has an id nobody else has, and exactly the claims it asked for.
GrantHasItsClaims(c) == call[c].job = "grant" =>
    /\ call[c].lease \notin granted
    /\ \A d \in Clients : held[d] # call[c].lease
    /\ \A d \in Clients : (d # c /\ call[d].job = "grant") => call[d].lease # call[c].lease
    /\ \A t \in Targets : claims[t] = call[c].lease <=> t \in call[c].want

\* A lease once given, reclaimed since or not, whose holder may yet name it.
Given(l) == l \in granted \/ \E c \in Clients : held[c] = l

\* A lease has no claim beyond its targets, and those of them all or none.
HasAllOrNone(l) ==
    /\ \A t \in Targets : claims[t] = l => t \in holding[l]
    /\ \/ \A t \in holding[l] : claims[t] = l
       \/ \A t \in holding[l] : claims[t] # l

Custody ==
    /\ \A c \in Clients : GrantHasItsClaims(c)
    /\ \A l \in LeaseIds : Given(l) => HasAllOrNone(l)

LEMMA CustodyInit == Init => Custody
  <1> SUFFICES ASSUME Init PROVE Custody
    OBVIOUS
  <1>1. \A c \in Clients : call[c].job # "grant" /\ held[c] = NoLease
    BY DEF Init, NoCall
  <1>2. granted = {}
    BY DEF Init
  <1>3. \A l \in LeaseIds : ~Given(l)
    BY <1>1, <1>2, IdAssumption DEF Given
  <1> QED BY <1>1, <1>3 DEF Custody, GrantHasItsClaims

\* Custody implies the property the runs check.
LEMMA CustodyIsWhole == Typed /\ Custody => GrantsAreWhole
  <1> SUFFICES ASSUME Typed, Custody PROVE GrantsAreWhole
    OBVIOUS
  <1>1. ASSUME NEW c \in Clients, Granting(c), NEW t \in call[c].want
        PROVE  claims[t] = call[c].lease
    <2>1. t \in Targets
      BY Locals
    <2> QED BY <1>1, <2>1 DEF Granting, Custody, GrantHasItsClaims
  <1>2. ASSUME NEW l \in granted PROVE HasAllOrNone(l)
    BY DEF Custody, Given, Typed, DataOK
  <1> QED BY <1>1, <1>2 DEF GrantsAreWhole, HasAllOrNone

\* A step that leaves the table alone, and starts no grant nor changes what one wants.
KeepsGrants == \A c \in Clients : call'[c].job = "grant" =>
    call[c].job = "grant" /\ call'[c].lease = call[c].lease /\ call'[c].want = call[c].want

LEMMA CustodyFrame ==
    ASSUME Custody, KeepsGrants, UNCHANGED <<claims, granted, holding, held>>
    PROVE  Custody'
  BY DEF Custody, KeepsGrants, GrantHasItsClaims, Given, HasAllOrNone

\* One client's call ends, or moves on with the same grant.
LEMMA OneKeepsGrants ==
    ASSUME Typed, NEW c \in Clients, NEW r, call' = [call EXCEPT ![c] = r],
           r.job = "grant" => call[c].job = "grant" /\ r.lease = call[c].lease
                              /\ r.want = call[c].want
    PROVE  KeepsGrants
  BY DEF KeepsGrants, Typed, ClientsOK

LEMMA ReturnKeepsGrants ==
    ASSUME Typed, NEW c \in Clients, call' = [call EXCEPT ![c] = NoCall]
    PROVE  KeepsGrants
  BY OneKeepsGrants DEF NoCall

\* The actions of one client that leave the table alone.
LEMMA QuietKeepsGrants ==
    ASSUME Typed, NEW c \in Clients,
           \/ CallBegins(c) \/ RestartOne(c) \/ RestartRaises(c) \/ KeyErrorCaught(c)
           \/ GrantLooks(c) \/ StopSignals(c) \/ StopJoins(c) \/ StopHalts(c)
           \/ StopRaises(c) \/ StopTimesOut(c) \/ DeviceReturns(c) \/ StartLive(c)
           \/ ReconfigureLive(c) \/ StopLive(c) \/ RenewChecks(c) \/ CallChecks(c)
           \/ PeekChecks(c) \/ Answered(c)
    PROVE  KeepsGrants /\ UNCHANGED <<claims, granted, holding, held>>
  <1>0. ASSUME NEW t, Stopped(c, t) PROVE KeepsGrants
    <2>1. PICK r : /\ call' = [call EXCEPT ![c] = r]
                   /\ r.job = "grant" => /\ call[c].job = "grant"
                                         /\ r.lease = call[c].lease
                                         /\ r.want = call[c].want
      BY <1>0, Locals DEF Stopped, Return, NoCall, Calls
    <2> QED BY <2>1, OneKeepsGrants
  <1>n. UNCHANGED call => KeepsGrants
    BY DEF KeepsGrants
  <1>1. CASE CallBegins(c)
    <2>1. [NoCall EXCEPT !.job = "sweep", !.sweep = granted \cap lapsed].job # "grant"
      BY DEF NoCall
    <2> QED BY <1>1, <2>1, OneKeepsGrants DEF CallBegins, tableVars
  <1>2. CASE RestartOne(c)
    <2> DEFINE rest == call[c].left \ {Last(call[c].left)}
    <2>1. \/ call' = [call EXCEPT ![c] = NoCall]
          \/ call' = [call EXCEPT ![c] = [call[c] EXCEPT !.left = rest]]
      BY <1>2 DEF RestartOne
    <2>2. /\ [call[c] EXCEPT !.left = rest].job = call[c].job
          /\ [call[c] EXCEPT !.left = rest].lease = call[c].lease
          /\ [call[c] EXCEPT !.left = rest].want = call[c].want
      BY Locals DEF Calls
    <2> HIDE DEF rest
    <2> QED BY <1>2, <2>1, <2>2, OneKeepsGrants, ReturnKeepsGrants DEF RestartOne, tableVars
  <1>3. CASE RestartRaises(c) \/ KeyErrorCaught(c) \/ StopRaises(c) \/ Answered(c)
               \/ DeviceReturns(c)
    BY <1>3, ReturnKeepsGrants DEF RestartRaises, KeyErrorCaught, StopRaises, Answered,
       DeviceReturns, Return, tableVars
  <1>4. CASE GrantLooks(c)
    <2>1. [call[c] EXCEPT !.left = call[c].left \ {First(call[c].left)}].lease = call[c].lease
          /\ [call[c] EXCEPT !.left = call[c].left \ {First(call[c].left)}].want
                = call[c].want
          /\ call[c].job = "grant"
      BY <1>4, Locals DEF Calls, GrantLooks, Shape
    <2> QED BY <1>4, <1>n, <2>1, OneKeepsGrants DEF GrantLooks, tableVars
  <1>5. CASE StopSignals(c)
    <2> DEFINE t == First(call[c].left)
    <2>1. CASE Running(t)
      <3>1. PICK r : call' = [call EXCEPT ![c] = r] /\ r.job = call[c].job
                     /\ r.lease = call[c].lease /\ r.want = call[c].want
        BY <1>5, <2>1, Locals DEF StopSignals, Calls
      <3> QED BY <1>5, <3>1, OneKeepsGrants DEF StopSignals, tableVars
    <2>2. CASE ~Running(t)
      BY <1>5, <2>2, <1>0 DEF StopSignals, tableVars
    <2> QED BY <2>1, <2>2
  <1>6. CASE StopJoins(c)
    BY <1>6, <1>n, <1>0 DEF StopJoins, tableVars
  <1>7. CASE StopHalts(c)
    BY <1>7, <1>0 DEF StopHalts, tableVars
  <1>8. CASE StopTimesOut(c)
    <2>1. PICK r : /\ call' = [call EXCEPT ![c] = r]
                   /\ r.job = "grant" => /\ call[c].job = "grant"
                                         /\ r.lease = call[c].lease
                                         /\ r.want = call[c].want
      BY <1>8, Locals DEF StopTimesOut, Return, NoCall, Calls
    <2> QED BY <1>8, <2>1, OneKeepsGrants DEF StopTimesOut, tableVars
  <1>9. ASSUME NEW ts, RefusedByClaim(c, ts)
        PROVE  KeepsGrants /\ UNCHANGED <<claims, granted, holding, held>>
    BY <1>9, ReturnKeepsGrants DEF RefusedByClaim, tableVars
  <1>10. CASE StartLive(c)
    BY <1>10, <1>9, ReturnKeepsGrants DEF StartLive, Return, tableVars
  <1>11. CASE ReconfigureLive(c)
    BY <1>11, <1>9, ReturnKeepsGrants DEF ReconfigureLive, Return, tableVars
  <1>12. CASE StopLive(c)
    <2>1. PICK t \in Cameras \cup Scanners :
            \/ RefusedByClaim(c, {t})
            \/ /\ call' = [call EXCEPT ![c] = [NoCall EXCEPT !.job = "live", !.left = {t}]]
               /\ UNCHANGED <<tableVars, specs, loopVars, held, wanted>>
      BY <1>12 DEF StopLive
    <2>2. [NoCall EXCEPT !.job = "live", !.left = {t}].job # "grant"
      BY DEF NoCall
    <2> QED BY <2>1, <2>2, <1>9, OneKeepsGrants DEF tableVars
  <1>13. CASE RenewChecks(c)
    BY <1>13, <1>n DEF RenewChecks, tableVars
  <1>14. CASE CallChecks(c) \/ PeekChecks(c)
    <2>1. PICK t : call' = [call EXCEPT ![c] = [call[c] EXCEPT !.left = {t}]]
      BY <1>14 DEF CallChecks, PeekChecks
    <2>2. [call[c] EXCEPT !.left = {t}].job # "grant"
      BY <1>14, Locals DEF CallChecks, PeekChecks, Shape, Calls
    <2> QED BY <1>14, <2>1, <2>2, OneKeepsGrants DEF CallChecks, PeekChecks, tableVars
  <1> QED BY <1>1, <1>2, <1>3, <1>4, <1>5, <1>6, <1>7, <1>8, <1>10, <1>11, <1>12, <1>13,
             <1>14

\* The actions that write the table.

\* Popping a lease that is in the table frees what it has, which is all or nothing, and
\* disturbs no other lease and no grant.
LEMMA DropCustody ==
    ASSUME Typed, Custody, NEW l \in granted, DropLease(l), KeepsGrants,
           UNCHANGED holding,
           \A d \in Clients : held'[d] = held[d] \/ held'[d] = NoLease
    PROVE  /\ Custody'
           /\ claims' = [t \in Targets |-> IF claims[t] = l THEN NoLease ELSE claims[t]]
  <1>1. l \in LeaseIds /\ Given(l) /\ l # NoLease
    BY IdAssumption DEF Given, Typed, DataOK
  <1>2. claims' = [t \in Targets |-> IF claims[t] = l THEN NoLease ELSE claims[t]]
    BY <1>1 DEF DropLease, Custody, HasAllOrNone, Typed, DataOK
  <1>3. granted' = granted \ {l} /\ holding' = holding
    BY DEF DropLease
  <1>4. ASSUME NEW c \in Clients, call'[c].job = "grant" PROVE GrantHasItsClaims(c)'
    <2>1. /\ call[c].job = "grant" /\ call'[c].lease = call[c].lease
          /\ call'[c].want = call[c].want
      BY <1>4 DEF KeepsGrants
    <2>2. call[c].lease \in LeaseIds /\ call[c].lease # l /\ call[c].lease # NoLease
      BY <2>1, Locals DEF Custody, GrantHasItsClaims, Shape
    <2>3. \A t \in Targets : claims'[t] = call[c].lease <=> claims[t] = call[c].lease
      BY <1>2, <2>2
    <2>4. \A d \in Clients : held'[d] # call[c].lease
      BY <2>1, <2>2 DEF Custody, GrantHasItsClaims
    <2>5. \A d \in Clients : (d # c /\ call'[d].job = "grant") =>
                                call'[d].lease # call[c].lease
      BY <2>1 DEF Custody, GrantHasItsClaims, KeepsGrants
    <2> QED BY <1>3, <2>1, <2>3, <2>4, <2>5 DEF Custody, GrantHasItsClaims
  <1>5. ASSUME NEW m \in LeaseIds, Given(m)' PROVE HasAllOrNone(m)'
    <2>1. Given(m)
      BY <1>3, <1>5, IdAssumption DEF Given
    <2>2. HasAllOrNone(m) /\ holding[m] \in SUBSET Targets
      BY <2>1 DEF Custody, Typed, DataOK
    <2>3. CASE m = l
      BY <1>1, <1>2, <1>3, <2>2, <2>3 DEF HasAllOrNone
    <2>4. CASE m # l
      <3>1. \A t \in Targets : claims'[t] = m <=> claims[t] = m
        BY <1>2, <2>4, IdAssumption
      <3> QED BY <1>3, <2>2, <3>1 DEF HasAllOrNone
    <2> QED BY <2>3, <2>4
  <1> QED BY <1>2, <1>4, <1>5 DEF Custody, GrantHasItsClaims

\* A step on a lease that is not in the table leaves the table alone.
LEMMA SweepOneCustody ==
    ASSUME Typed, Custody, NEW c \in Clients, SweepOne(c)
    PROVE  /\ Custody'
           /\ \/ UNCHANGED claims
              \/ \E l \in LeaseIds : claims' =
                    [t \in Targets |-> IF claims[t] = l THEN NoLease ELSE claims[t]]
  <1>1. PICK l \in call[c].sweep :
          /\ IF l \in granted THEN DropLease(l) ELSE UNCHANGED <<granted, lapsed, claims>>
          /\ call' = [call EXCEPT ![c] =
                        [NoCall EXCEPT !.job = "sweep", !.sweep = call[c].sweep \ {l},
                                       !.left = ToRestart(l)]]
    BY DEF SweepOne
  <1>2. l \in LeaseIds
    BY Locals
  <1>3. KeepsGrants
    <2>1. [NoCall EXCEPT !.job = "sweep", !.sweep = call[c].sweep \ {l},
                         !.left = ToRestart(l)].job # "grant"
      BY DEF NoCall
    <2> QED BY <1>1, <2>1, OneKeepsGrants
  <1>4. UNCHANGED <<holding, held>>
    BY DEF SweepOne
  <1>5. CASE l \in granted
    BY <1>1, <1>2, <1>3, <1>4, <1>5, DropCustody
  <1>6. CASE l \notin granted
    BY <1>1, <1>3, <1>4, <1>6, CustodyFrame
  <1> QED BY <1>5, <1>6

LEMMA ReleaseCustody ==
    ASSUME Typed, Custody, NEW c \in Clients, Release(c)
    PROVE  /\ Custody'
           /\ \/ UNCHANGED claims
              \/ \E l \in LeaseIds : claims' =
                    [t \in Targets |-> IF claims[t] = l THEN NoLease ELSE claims[t]]
  <1> DEFINE l == held[c]
  <1>1. l \in LeaseIds
    BY DEF Release, Typed, DataOK
  <1>2. /\ IF l \in granted THEN DropLease(l) ELSE UNCHANGED <<granted, lapsed, claims>>
        /\ held' = [held EXCEPT ![c] = NoLease] /\ UNCHANGED holding
    BY DEF Release
  <1>3. KeepsGrants
    <2>1. \/ call' = [call EXCEPT ![c] = NoCall]
          \/ call' = [call EXCEPT ![c] =
                        [NoCall EXCEPT !.job = "release", !.left = ToRestart(l)]]
      BY DEF Release
    <2>2. [NoCall EXCEPT !.job = "release", !.left = ToRestart(l)].job # "grant"
      BY DEF NoCall
    <2> QED BY <2>1, <2>2, OneKeepsGrants, ReturnKeepsGrants
  <1>4. \A d \in Clients : held'[d] = held[d] \/ held'[d] = NoLease
    BY <1>2 DEF Typed, DataOK
  <1>5. CASE l \in granted
    BY <1>1, <1>2, <1>3, <1>4, <1>5, DropCustody
  <1>6. CASE l \notin granted
    <2>1. UNCHANGED <<claims, granted, holding>>
      BY <1>2, <1>6
    <2>2. ASSUME NEW m \in LeaseIds, Given(m)' PROVE Given(m)
      BY <1>4, <2>1, <2>2, IdAssumption DEF Given
    <2>3. ASSUME NEW m \in LeaseIds, Given(m)' PROVE HasAllOrNone(m)'
      <3>1. CASE Given(m)
        BY <2>1, <3>1 DEF Custody, HasAllOrNone
      <3>2. CASE ~Given(m)
        BY <2>3, <2>2, <3>2
      <3> QED BY <3>1, <3>2
    <2>4. ASSUME NEW d \in Clients PROVE GrantHasItsClaims(d)'
      <3>1. SUFFICES ASSUME call'[d].job = "grant" PROVE GrantHasItsClaims(d)'
        BY DEF GrantHasItsClaims
      <3>2. /\ call[d].job = "grant" /\ call'[d].lease = call[d].lease
            /\ call'[d].want = call[d].want /\ call[d].lease # NoLease
        BY <1>3, <3>1, Locals DEF KeepsGrants, Shape
      <3>3. GrantHasItsClaims(d)
        BY DEF Custody
      <3>4. \A e \in Clients : (e # d /\ call'[e].job = "grant") =>
                                  call'[e].lease # call[d].lease
        BY <1>3, <3>2, <3>3 DEF KeepsGrants, GrantHasItsClaims
      <3> QED BY <1>4, <2>1, <3>2, <3>3, <3>4 DEF GrantHasItsClaims
    <2> QED BY <2>1, <2>3, <2>4 DEF Custody
  <1> QED BY <1>5, <1>6

LEMMA GrantClaimsCustody ==
    ASSUME Typed, Custody, NEW c \in Clients, GrantClaims(c)
    PROVE  /\ Custody'
           /\ \/ UNCHANGED claims
              \/ \E l \in LeaseIds, ts \in SUBSET Targets :
                    /\ ClaimAll(ts, l)
                    /\ \A t \in Targets : claims[t] # l
  <1>1. PICK ts \in (SUBSET Targets) \ {{}} :
          \/ RefusedByClaim(c, ts)
          \/ \E l \in NewLeases :
              /\ ClaimAll(ts, l)
              /\ pc' = [pc EXCEPT ![c] = "grant"]
              /\ call' = [call EXCEPT ![c] = [NoCall EXCEPT !.job = "grant", !.left = ts,
                                                !.want = ts, !.lease = l]]
              /\ UNCHANGED <<granted, lapsed, holding, restarts, specs, loopVars, held,
                             wanted>>
    BY DEF GrantClaims
  <1>2. CASE RefusedByClaim(c, ts)
    BY <1>2, ReturnKeepsGrants, CustodyFrame DEF RefusedByClaim, tableVars
  <1>3. CASE ~RefusedByClaim(c, ts)
    <2> DEFINE r(l) == [NoCall EXCEPT !.job = "grant", !.left = ts, !.want = ts, !.lease = l]
    <2>1. PICK l \in NewLeases :
            /\ ClaimAll(ts, l)
            /\ call' = [call EXCEPT ![c] = r(l)]
            /\ UNCHANGED <<granted, holding, held>>
      BY <1>1, <1>3
    <2>2. r(l).job = "grant" /\ r(l).lease = l /\ r(l).want = ts
      BY DEF NoCall
    <2> HIDE DEF r
    <2>3. /\ l \in LeaseIds /\ l \notin granted
          /\ \A t \in Targets : claims[t] # l
          /\ \A d \in Clients : held[d] # l /\ call[d].lease # l
      BY DEF NewLeases
    <2>4. /\ \A t \in Targets : claims'[t] = IF t \in ts THEN l ELSE claims[t]
          /\ \A t \in ts : claims[t] = NoLease
      BY <2>1 DEF ClaimAll, Unclaimed
    <2>5. call'[c] = r(l) /\ \A d \in Clients : d # c => call'[d] = call[d]
      BY <2>1 DEF Typed, ClientsOK
    <2>6. ASSUME NEW d \in Clients, call'[d].job = "grant" PROVE GrantHasItsClaims(d)'
      <3>1. CASE d = c
        <4>1. \A t \in Targets : claims'[t] = l <=> t \in ts
          BY <2>3, <2>4
        <4> QED BY <2>1, <2>2, <2>3, <2>5, <3>1, <4>1 DEF GrantHasItsClaims
      <3>2. CASE d # c
        <4>1. /\ call'[d] = call[d] /\ GrantHasItsClaims(d)
              /\ call[d].lease # NoLease /\ call[d].lease # l
          BY <2>3, <2>5, <2>6, <3>2, Locals DEF Custody, Shape
        <4>2. \A t \in Targets : claims'[t] = call[d].lease <=> claims[t] = call[d].lease
          BY <2>4, <4>1
        <4>3. \A e \in Clients : (e # d /\ call'[e].job = "grant") =>
                                    call'[e].lease # call[d].lease
          BY <2>2, <2>5, <2>6, <4>1 DEF GrantHasItsClaims
        <4> QED BY <2>1, <2>6, <4>1, <4>2, <4>3 DEF GrantHasItsClaims
      <3> QED BY <3>1, <3>2
    <2>7. ASSUME NEW m \in LeaseIds, Given(m)' PROVE HasAllOrNone(m)'
      <3>1. Given(m) /\ m # l /\ m # NoLease
        BY <2>1, <2>3, <2>7, IdAssumption DEF Given
      <3>2. HasAllOrNone(m) /\ holding[m] \in SUBSET Targets
        BY <3>1 DEF Custody, Typed, DataOK
      <3>3. \A t \in Targets : claims'[t] = m <=> claims[t] = m
        BY <2>4, <3>1
      <3> QED BY <2>1, <3>2, <3>3 DEF HasAllOrNone
    <2> QED BY <2>1, <2>3, <2>6, <2>7 DEF Custody, GrantHasItsClaims
  <1> QED BY <1>2, <1>3

LEMMA GrantDoneCustody ==
    ASSUME Typed, Custody, NEW c \in Clients, GrantDone(c)
    PROVE  Custody' /\ UNCHANGED claims
  <1> DEFINE l == call[c].lease
  <1>1. /\ granted' = granted \cup {l} /\ held' = [held EXCEPT ![c] = l]
        /\ holding' = [holding EXCEPT ![l] = call[c].want]
        /\ call' = [call EXCEPT ![c] = NoCall]
        /\ UNCHANGED claims
    BY DEF GrantDone, Return
  <1>2. /\ l \in LeaseIds /\ GrantHasItsClaims(c) /\ call[c].job = "grant"
        /\ call[c].want \in SUBSET Targets
    BY Locals DEF GrantDone, Shape, Custody
  <1> HIDE DEF l
  <1>3. KeepsGrants /\ call'[c] = NoCall
    BY <1>1, ReturnKeepsGrants DEF Typed, ClientsOK
  <1>4. ASSUME NEW d \in Clients, call'[d].job = "grant" PROVE GrantHasItsClaims(d)'
    <2>1. /\ d # c /\ call[d].job = "grant" /\ call'[d].lease = call[d].lease
          /\ call'[d].want = call[d].want
      BY <1>3, <1>4 DEF KeepsGrants, NoCall
    <2>2. GrantHasItsClaims(d) /\ call[d].lease # l
      BY <1>2, <2>1 DEF Custody, GrantHasItsClaims, l
    <2>3. \A e \in Clients : held'[e] # call[d].lease
      BY <1>1, <2>1, <2>2 DEF GrantHasItsClaims, Typed, DataOK
    <2>4. \A e \in Clients : (e # d /\ call'[e].job = "grant") =>
                                call'[e].lease # call[d].lease
      BY <1>3, <2>1, <2>2 DEF KeepsGrants, GrantHasItsClaims
    <2> QED BY <1>1, <2>1, <2>2, <2>3, <2>4 DEF GrantHasItsClaims
  <1>5. ASSUME NEW m \in LeaseIds, Given(m)' PROVE HasAllOrNone(m)'
    <2>1. CASE m = l
      <3>1. holding'[m] = call[c].want
        BY <1>1, <1>2, <2>1 DEF Typed, DataOK
      <3>2. \A t \in Targets : claims'[t] = m <=> t \in call[c].want
        BY <1>1, <1>2, <2>1 DEF GrantHasItsClaims, l
      <3> QED BY <1>2, <3>1, <3>2 DEF HasAllOrNone
    <2>2. CASE m # l
      <3>1. Given(m)
        BY <1>1, <1>5, <2>2 DEF Given, Typed, DataOK
      <3>2. holding'[m] = holding[m]
        BY <1>1, <2>2 DEF Typed, DataOK
      <3> QED BY <1>1, <3>1, <3>2 DEF Custody, HasAllOrNone
    <2> QED BY <2>1, <2>2
  <1> QED BY <1>1, <1>4, <1>5 DEF Custody, GrantHasItsClaims

LEMMA GrantRefusedCustody ==
    ASSUME Typed, Custody, NEW c \in Clients, GrantRefused(c)
    PROVE  /\ Custody'
           /\ \E l \in LeaseIds : claims' =
                [t \in Targets |-> IF claims[t] = l THEN NoLease ELSE claims[t]]
  <1> DEFINE l == call[c].lease
  <1>1. /\ call' = [call EXCEPT ![c] = NoCall]
        /\ UNCHANGED <<granted, holding, held>>
        /\ claims' = [t \in Targets |-> IF t \in call[c].want THEN NoLease ELSE claims[t]]
    BY DEF GrantRefused, Return, UndoClaims
  <1>2. l \in LeaseIds /\ GrantHasItsClaims(c) /\ call[c].job = "grant"
    BY Locals DEF GrantRefused, Shape, Custody
  <1>3. claims' = [t \in Targets |-> IF claims[t] = l THEN NoLease ELSE claims[t]]
    BY <1>1, <1>2 DEF GrantHasItsClaims
  <1>4. ~Given(l)
    BY <1>2 DEF Given, GrantHasItsClaims
  <1>5. KeepsGrants /\ call'[c] = NoCall
    BY <1>1, ReturnKeepsGrants DEF Typed, ClientsOK
  <1>6. ASSUME NEW d \in Clients, call'[d].job = "grant" PROVE GrantHasItsClaims(d)'
    <2>1. /\ d # c /\ call[d].job = "grant" /\ call'[d].lease = call[d].lease
          /\ call'[d].want = call[d].want /\ call[d].lease # NoLease
      BY <1>5, <1>6, Locals DEF KeepsGrants, NoCall, Shape
    <2>2. GrantHasItsClaims(d) /\ call[d].lease # l
      BY <1>2, <2>1 DEF Custody, GrantHasItsClaims
    <2>3. \A t \in Targets : claims'[t] = call[d].lease <=> claims[t] = call[d].lease
      BY <1>3, <2>1, <2>2
    <2>4. \A e \in Clients : (e # d /\ call'[e].job = "grant") =>
                                call'[e].lease # call[d].lease
      BY <1>5, <2>1, <2>2 DEF KeepsGrants, GrantHasItsClaims
    <2> QED BY <1>1, <2>1, <2>2, <2>3, <2>4 DEF GrantHasItsClaims
  <1>7. ASSUME NEW m \in LeaseIds, Given(m)' PROVE HasAllOrNone(m)'
    <2>1. Given(m) /\ m # l
      BY <1>1, <1>4, <1>7 DEF Given
    <2>2. HasAllOrNone(m) /\ holding[m] \in SUBSET Targets
      BY <2>1 DEF Custody, Typed, DataOK
    <2>3. \A t \in Targets : claims'[t] = m <=> claims[t] = m
      BY <1>3, <2>1, IdAssumption
    <2> QED BY <1>1, <2>2, <2>3 DEF HasAllOrNone
  <1> QED BY <1>2, <1>3, <1>6, <1>7 DEF Custody, GrantHasItsClaims

LEMMA RenewWritesCustody ==
    ASSUME Typed, Custody, NEW c \in Clients, RenewWrites(c)
    PROVE  Custody' /\ UNCHANGED claims
  <1>1. KeepsGrants
    BY ReturnKeepsGrants DEF RenewWrites, Return
  <1>2. /\ granted' = granted \cup {held[c]}
        /\ UNCHANGED <<claims, holding, held>>
    BY DEF RenewWrites
  <1>3. ASSUME NEW m, Given(m)' PROVE Given(m)
    BY <1>2, <1>3 DEF Given
  <1>4. ASSUME NEW d \in Clients PROVE GrantHasItsClaims(d)'
    BY <1>1, <1>2 DEF KeepsGrants, Custody, GrantHasItsClaims
  <1>5. ASSUME NEW m \in LeaseIds, Given(m)' PROVE HasAllOrNone(m)'
    BY <1>2, <1>3, <1>5 DEF Custody, HasAllOrNone
  <1> QED BY <1>2, <1>4, <1>5 DEF Custody

\* What one step may do to the claims.
TableStep ==
    \/ UNCHANGED claims
    \/ \E l \in LeaseIds : claims' =
          [t \in Targets |-> IF claims[t] = l THEN NoLease ELSE claims[t]]
    \/ \E l \in LeaseIds, ts \in SUBSET Targets :
          ClaimAll(ts, l) /\ \A t \in Targets : claims[t] # l

LEMMA CustodyNext == Typed /\ Custody /\ [Next]_vars => Custody' /\ TableStep
  <1> SUFFICES ASSUME Typed, Custody, [Next]_vars PROVE Custody' /\ TableStep
    OBVIOUS
  <1>1. ASSUME NEW l \in LoopIds, Loop(l) PROVE Custody' /\ TableStep
    <2>1. KeepsGrants /\ UNCHANGED <<claims, granted, holding, held>>
      BY <1>1 DEF Loop, PassEnds, GrabRaises, KeepsGrants
    <2> QED BY <2>1, CustodyFrame DEF TableStep
  <1>2. ASSUME NEW l \in LeaseIds, Lapse(l) PROVE Custody' /\ TableStep
    <2>1. KeepsGrants /\ UNCHANGED <<claims, granted, holding, held>>
      BY <1>2 DEF Lapse, KeepsGrants
    <2> QED BY <2>1, CustodyFrame DEF TableStep
  <1>3. ASSUME NEW c \in Clients,
               \/ CallBegins(c) \/ RestartOne(c) \/ RestartRaises(c) \/ KeyErrorCaught(c)
               \/ GrantLooks(c) \/ StopSignals(c) \/ StopJoins(c) \/ StopHalts(c)
               \/ StopRaises(c) \/ StopTimesOut(c) \/ DeviceReturns(c) \/ StartLive(c)
               \/ ReconfigureLive(c) \/ StopLive(c) \/ RenewChecks(c) \/ CallChecks(c)
               \/ PeekChecks(c) \/ Answered(c)
        PROVE  Custody' /\ TableStep
    <2>1. KeepsGrants /\ UNCHANGED <<claims, granted, holding, held>>
      BY <1>3, QuietKeepsGrants
    <2> QED BY <2>1, CustodyFrame DEF TableStep
  <1>4. ASSUME NEW c \in Clients,
               \/ SweepOne(c) \/ Release(c) \/ GrantClaims(c) \/ GrantDone(c)
               \/ GrantRefused(c) \/ RenewWrites(c)
        PROVE  Custody' /\ TableStep
    BY <1>4, SweepOneCustody, ReleaseCustody, GrantClaimsCustody, GrantDoneCustody,
       GrantRefusedCustody, RenewWritesCustody DEF TableStep
  <1>5. CASE UNCHANGED vars
    <2>1. KeepsGrants /\ UNCHANGED <<claims, granted, holding, held>>
      BY <1>5 DEF vars, KeepsGrants
    <2> QED BY <2>1, CustodyFrame DEF TableStep
  <1> QED
    BY <1>1, <1>2, <1>3, <1>4, <1>5 DEF Next, Client, Body, Proceeds

LEMMA CustodyAlways == Spec => [](Typed /\ Custody)
  <1>1. Init => Typed /\ Custody
    BY TypedInit, CustodyInit
  <1>2. (Typed /\ Custody) /\ [Next]_vars => (Typed /\ Custody)'
    BY TypedNext, CustodyNext
  <1> QED BY <1>1, <1>2, PTL DEF Spec

\* Whatever overlaps, lapses, raises or is revived: a grant in progress has every
\* target it asked for, and a lease in the table all of its targets or none.
THEOREM LeasesAreWhole == Spec => []GrantsAreWhole
  BY CustodyAlways, CustodyIsWhole, PTL

LEMMA TableStepRefines ==
    ASSUME Typed, TableStep
    PROVE  [Table!TableNext]_claims
  <1>1. CASE UNCHANGED claims
    BY <1>1
  <1>2. ASSUME NEW l \in LeaseIds,
               claims' = [t \in Targets |-> IF claims[t] = l THEN NoLease ELSE claims[t]]
        PROVE  [Table!TableNext]_claims
    <2>1. CASE Table!Held(l) # {}
      <3>1. Table!Drop(l)
        BY <1>2, <2>1 DEF Table!Drop
      <3> QED BY <3>1 DEF Table!TableNext
    <2>2. CASE Table!Held(l) = {}
      <3>1. \A t \in Targets : claims[t] # l
        BY <2>2 DEF Table!Held
      <3>2. claims' = [t \in Targets |-> claims[t]]
        BY <1>2, <3>1
      <3> QED BY <3>2 DEF Typed, DataOK
    <2> QED BY <2>1, <2>2
  <1>3. ASSUME NEW l \in LeaseIds, NEW ts \in SUBSET Targets, ClaimAll(ts, l),
               \A t \in Targets : claims[t] # l
        PROVE  [Table!TableNext]_claims
    <2>1. Table!Acquire(l, ts)
      BY <1>3 DEF Table!Acquire, Table!Held, ClaimAll, Unclaimed
    <2> QED BY <2>1 DEF Table!TableNext
  <1> QED BY <1>1, <1>2, <1>3 DEF TableStep

\* The broker implements the lease table: its claims change only as custody does,
\* every lease taken whole from nobody and given back whole.
THEOREM BrokerImplementsTable == Spec => ImplementsLeaseTable
  <1>1. Init => Table!TableInit
    BY DEF Init, Table!TableInit
  <1>2. Typed /\ Custody /\ [Next]_vars => [Table!TableNext]_claims
    BY CustodyNext, TableStepRefines
  <1> QED BY <1>1, <1>2, CustodyAlways, PTL DEF Spec, ImplementsLeaseTable, Table!TableSpec

----------------------------------------------------------------------------
\* No claim is orphaned while no camera raises: a grant that has to put its loops back
\* can always do so, because a claimed target's parameters cannot be changed under it.

\* A restart of the target would not be refused for want of scan parameters.
Specced(t) == t \in Scanners => specs[t] # "unset"

RunningIsSpecced == \A t \in Targets : Running(t) => Specced(t)

GrantCanRestart(c) == call[c].job = "grant" =>
    /\ call[c].left \subseteq call[c].want
    /\ call[c].stopped \subseteq call[c].want
    /\ \A t \in call[c].stopped : Specced(t)
    /\ pc[c] \in {"stop", "join", "halt"} => Specced(First(call[c].left))
    /\ pc[c] = "restart" => \A t \in call[c].left : Specced(t)

Backed(t) ==
    \/ claims[t] = NoLease
    \/ claims[t] \in granted
    \/ \E c \in Clients : call[c].job = "grant" /\ call[c].lease = claims[t]

RestartsAreSpecced == RunningIsSpecced /\ \A c \in Clients : GrantCanRestart(c)

Restartable ==
    /\ RunningIsSpecced
    /\ \A c \in Clients : GrantCanRestart(c)
    /\ \A t \in Targets : Backed(t)

LEMMA RestartableInit == Init => Restartable
  <1> SUFFICES ASSUME Init PROVE Restartable
    OBVIOUS
  <1>1. \A t \in Targets : ~Running(t) /\ Backed(t)
    BY DEF Init, Running, Live, Backed
  <1>2. \A c \in Clients : call[c].job # "grant"
    BY DEF Init, NoCall
  <1> QED BY <1>1, <1>2 DEF Restartable, RunningIsSpecced, GrantCanRestart

LEMMA RestartableIsBacked == Typed /\ Custody /\ Restartable => ClaimsAreBacked
  <1> SUFFICES ASSUME Typed, Custody, Restartable, NEW t \in Targets, claims[t] # NoLease
               PROVE  \/ claims[t] \in granted /\ t \in holding[claims[t]]
                      \/ \E c \in Clients : Granting(c) /\ call[c].lease = claims[t]
                                                        /\ t \in call[c].want
    BY DEF ClaimsAreBacked
  <1>1. CASE claims[t] \in granted
    <2>1. HasAllOrNone(claims[t])
      BY <1>1 DEF Custody, Given, Typed, DataOK
    <2> QED BY <1>1, <2>1 DEF HasAllOrNone
  <1>2. ASSUME NEW c \in Clients, call[c].job = "grant", call[c].lease = claims[t]
        PROVE  Granting(c) /\ t \in call[c].want
    <2>1. pc[c] # "idle"
      BY <1>2, Locals DEF Shape, NoCall
    <2> QED BY <1>2, <2>1 DEF Granting, Custody, GrantHasItsClaims
  <1> QED BY <1>1, <1>2 DEF Restartable, Backed

\* Only start_live and reconfigure_live write specs, and both refuse a claimed target.
LEMMA SpecsStand ==
    ASSUME Typed, [Next]_vars, NEW t \in Targets, claims[t] # NoLease
    PROVE  specs'[t] = specs[t]
  <1>1. ASSUME NEW c \in Clients, StartLive(c) PROVE specs'[t] = specs[t]
    BY <1>1 DEF StartLive, RefusedByClaim, Starts, Unclaimed, Typed, DataOK
  <1>2. ASSUME NEW c \in Clients, ReconfigureLive(c) PROVE specs'[t] = specs[t]
    BY <1>2 DEF ReconfigureLive, RefusedByClaim, Unclaimed, Typed, DataOK
  <1>3. ASSUME NEW c \in Clients, StopLive(c) \/ GrantClaims(c) PROVE UNCHANGED specs
    BY <1>3 DEF StopLive, GrantClaims, RefusedByClaim
  <1>4. ASSUME NEW c \in Clients,
               RenewChecks(c) \/ CallChecks(c) \/ PeekChecks(c) \/ Answered(c)
        PROVE  UNCHANGED specs
    BY <1>4 DEF RenewChecks, CallChecks, PeekChecks, Answered
  <1>5. ASSUME NEW c \in Clients, Proceeds(c) \/ CallBegins(c) \/ Release(c)
        PROVE  UNCHANGED specs
    BY <1>5 DEF Proceeds, SweepOne, RestartOne, RestartRaises, GrantLooks, GrantDone,
       GrantRefused, StopSignals, StopJoins, StopHalts, StopRaises, StopTimesOut,
       RenewWrites, DeviceReturns, KeyErrorCaught, CallBegins, Release
  <1>6. ASSUME NEW l \in LoopIds, Loop(l) PROVE UNCHANGED specs
    BY <1>6 DEF Loop, PassEnds, GrabRaises
  <1>7. ASSUME NEW l \in LeaseIds, Lapse(l) PROVE UNCHANGED specs
    BY <1>7 DEF Lapse
  <1> QED BY <1>1, <1>2, <1>3, <1>4, <1>5, <1>6, <1>7 DEF Next, Client, Body, vars

\* A new loop changes what runs on no target but its own.
LEMMA StartLoopElsewhere ==
    ASSUME Typed, NEW t \in Targets, NEW spec, StartLoop(t, spec),
           NEW u \in Targets, u # t
    PROVE  Running(u)' <=> Running(u)
  <1>1. PICK l \in NewLoops : /\ current' = [current EXCEPT ![t] = l]
                              /\ drives' = [drives EXCEPT ![l] = t]
    BY DEF StartLoop
  <1>2. current[u] # l /\ l \in LoopIds
    BY DEF NewLoops
  <1> QED BY <1>1, <1>2 DEF Running, Live, Typed, DataOK

\* One that could not be had makes nothing run, and its target at most not to.
LEMMA FailedStartsNothing ==
    ASSUME Typed, NEW t \in Targets, FailsToStart(t), NEW u \in Targets
    PROVE  /\ Running(u)' => Running(u)
           /\ u # t => current'[u] = current[u] /\ (Running(u)' <=> Running(u))
  BY DEF FailsToStart, Running, Live, loopVars, Typed, DataOK

LEMMA SpeccedNext ==
    ASSUME Typed, RunningIsSpecced, [Next]_vars
    PROVE  RunningIsSpecced'
  <1> SUFFICES ASSUME NEW u \in Targets, Running(u)' PROVE Specced(u)'
    BY DEF RunningIsSpecced
  <1>0. ASSUME UNCHANGED <<specs, current>>, Live(current[u])' => Live(current[u])
        PROVE  Specced(u)'
    BY <1>0 DEF RunningIsSpecced, Specced, Running, Live
  <1>1. ASSUME NEW l \in LoopIds, Loop(l) PROVE Specced(u)'
    <2>1. UNCHANGED <<specs, current>>
      BY <1>1 DEF Loop, PassEnds, GrabRaises
    <2>2. Live(current[u])' => Live(current[u])
      BY <1>1, <2>1 DEF Loop, PassEnds, GrabRaises, Die, Live, Typed, DataOK
    <2> QED BY <1>0, <2>1, <2>2
  <1>2. ASSUME UNCHANGED <<specs, current, drives>> PROVE Specced(u)'
    BY <1>0, <1>2 DEF Live
  <1>3. ASSUME NEW c \in Clients, RestartOne(c) PROVE Specced(u)'
    <2> DEFINE t == Last(call[c].left)
    <2>1. t \in Targets /\ ~Refuses(t, specs[t]) /\ UNCHANGED specs
          /\ (StartLoop(t, specs[t]) \/ FailsToStart(t) \/ UNCHANGED loopVars)
      BY <1>3, Locals DEF RestartOne, Shape
    <2> HIDE DEF t
    <2>2. CASE UNCHANGED loopVars
      BY <1>2, <2>1, <2>2 DEF loopVars
    <2>3. CASE StartLoop(t, specs[t]) /\ u # t
      <3>1. Running(u)
        BY <2>1, <2>3, StartLoopElsewhere
      <3> QED BY <2>1, <3>1 DEF RunningIsSpecced, Specced
    <2>4. CASE u = t
      BY <2>1, <2>4 DEF Refuses, Specced
    <2>5. CASE FailsToStart(t)
      <3>1. Running(u)
        BY <2>1, <2>5, FailedStartsNothing
      <3> QED BY <2>1, <3>1 DEF RunningIsSpecced, Specced
    <2> QED BY <2>1, <2>2, <2>3, <2>4, <2>5
  <1>r. ASSUME NEW c \in Clients, NEW ts, RefusedByClaim(c, ts) PROVE Specced(u)'
    BY <1>2, <1>r DEF RefusedByClaim, loopVars
  <1>4. ASSUME NEW c \in Clients, StartLive(c) PROVE Specced(u)'
    <2>1. PICK t \in Cameras \cup Scanners : RefusedByClaim(c, {t}) \/ Starts(c, t)
      BY <1>4 DEF StartLive
    <2>2. CASE RefusedByClaim(c, {t})
      BY <1>r, <2>2
    <2>3. CASE Starts(c, t) /\ UNCHANGED <<specs, loopVars>>
      BY <1>2, <2>3 DEF loopVars
    <2>4. CASE Starts(c, t) /\ ~UNCHANGED <<specs, loopVars>>
      <3>1. PICK spec : /\ specs' = [specs EXCEPT ![t] = spec] /\ ~Running(t)
                        /\ \/ ~Refuses(t, spec) /\ StartLoop(t, spec)
                           \/ FailsToStart(t) \/ UNCHANGED loopVars
        BY <2>4 DEF Starts
      <3>2. t \in Targets
        BY DEF Targets
      <3>3. CASE FailsToStart(t) \/ UNCHANGED loopVars
        <4>1. Running(u)
          BY <3>2, <3>3, FailedStartsNothing DEF Running, Live, loopVars
        <4>2. u # t
          BY <3>1, <4>1
        <4> QED BY <3>1, <4>1, <4>2 DEF RunningIsSpecced, Specced, Typed, DataOK
      <3>4. CASE ~Refuses(t, spec) /\ StartLoop(t, spec)
        <4>1. CASE u = t
          BY <3>1, <3>2, <3>4, <4>1 DEF Refuses, Specced, Typed, DataOK
        <4>2. CASE u # t
          <5>1. Running(u)
            BY <3>2, <3>4, <4>2, StartLoopElsewhere
          <5> QED BY <3>1, <4>2, <5>1 DEF RunningIsSpecced, Specced, Typed, DataOK
        <4> QED BY <4>1, <4>2
      <3> QED BY <3>1, <3>3, <3>4
    <2> QED BY <2>1, <2>2, <2>3, <2>4
  <1>5. ASSUME NEW c \in Clients, ReconfigureLive(c) PROVE Specced(u)'
    <2>1. PICK t \in Scanners :
            \/ RefusedByClaim(c, {t})
            \/ /\ \E spec \in Geometries \ {"unset"} : specs' = [specs EXCEPT ![t] = spec]
               /\ UNCHANGED loopVars
      BY <1>5 DEF ReconfigureLive
    <2>2. CASE UNCHANGED loopVars /\ \E spec \in Geometries \ {"unset"} :
                                        specs' = [specs EXCEPT ![t] = spec]
      <3>1. Running(u)
        BY <2>2 DEF Running, Live, loopVars
      <3> QED BY <2>2, <3>1 DEF RunningIsSpecced, Specced, Typed, DataOK
    <2> QED BY <1>r, <2>1, <2>2
  <1>6. ASSUME NEW c \in Clients,
               \/ StopLive(c) \/ GrantClaims(c) \/ RenewChecks(c) \/ CallChecks(c)
               \/ PeekChecks(c) \/ Answered(c)
        PROVE  Specced(u)'
    BY <1>2, <1>6, <1>r DEF StopLive, GrantClaims, RenewChecks, CallChecks, PeekChecks,
       Answered, loopVars
  <1>7. ASSUME NEW c \in Clients,
               \/ SweepOne(c) \/ RestartRaises(c) \/ GrantLooks(c) \/ GrantDone(c)
               \/ GrantRefused(c) \/ StopSignals(c) \/ StopJoins(c) \/ StopHalts(c)
               \/ StopRaises(c) \/ StopTimesOut(c) \/ RenewWrites(c) \/ DeviceReturns(c)
               \/ KeyErrorCaught(c) \/ CallBegins(c) \/ Release(c)
        PROVE  Specced(u)'
    <2>1. UNCHANGED <<specs, current, drives>>
      BY <1>7 DEF SweepOne, RestartRaises, GrantLooks, GrantDone,
         GrantRefused, StopSignals, StopJoins, StopHalts, StopRaises, StopTimesOut,
         RenewWrites, DeviceReturns, KeyErrorCaught, CallBegins, Release, loopVars
    <2> QED BY <1>2, <2>1
  <1>8. CASE (\E l \in LeaseIds : Lapse(l)) \/ UNCHANGED vars
    BY <1>2, <1>8 DEF Lapse, loopVars, vars
  <1> QED
    BY <1>1, <1>3, <1>4, <1>5, <1>6, <1>7, <1>8 DEF Next, Client, Body, Proceeds

\* A target a grant wants keeps its parameters until the grant is done with it.
LEMMA WantedSpecStands ==
    ASSUME Typed, Custody, [Next]_vars, NEW c \in Clients, call[c].job = "grant",
           NEW t \in call[c].want
    PROVE  t \in Targets /\ claims[t] # NoLease /\ specs'[t] = specs[t]
  <1>1. t \in Targets /\ call[c].lease # NoLease
    BY Locals DEF Shape
  <1>2. claims[t] = call[c].lease
    BY <1>1 DEF Custody, GrantHasItsClaims
  <1> QED BY <1>1, <1>2, SpecsStand

LEMMA OthersCanRestart ==
    ASSUME Typed, Custody, [Next]_vars, NEW d \in Clients, GrantCanRestart(d),
           pc'[d] = pc[d], call'[d] = call[d]
    PROVE  GrantCanRestart(d)'
  <1>1. SUFFICES ASSUME call[d].job = "grant" PROVE GrantCanRestart(d)'
    BY DEF GrantCanRestart
  <1>2. \A t \in call[d].want : specs'[t] = specs[t]
    BY <1>1, WantedSpecStands
  <1>3. pc[d] \in {"stop", "join", "halt"} => First(call[d].left) \in call[d].left
    BY Locals DEF Shape
  <1> QED BY <1>1, <1>2, <1>3 DEF GrantCanRestart, Specced

LEMMA StoppedCanRestart ==
    ASSUME Typed, Custody, [Next]_vars, NEW c \in Clients, GrantCanRestart(c),
           call[c].job = "grant", pc[c] \in {"stop", "join", "halt"},
           Stopped(c, First(call[c].left))
    PROVE  GrantCanRestart(c)'
  <1> DEFINE t == First(call[c].left)
             r == [call[c] EXCEPT !.left = call[c].left \ {t},
                                  !.stopped = call[c].stopped \cup {t},
                                  !.loop = NoLoop, !.due = "short"]
  <1>1. \A u \in call[c].want : specs'[u] = specs[u]
    BY WantedSpecStands
  <1>2. t \in call[c].left /\ call[c] \in Calls
    BY Locals DEF Shape
  <1>3. pc'[c] = "grant" /\ call'[c] = r
    BY DEF Stopped, Typed, ClientsOK
  <1>4. r.left = call[c].left \ {t} /\ r.stopped = call[c].stopped \cup {t}
        /\ r.want = call[c].want
    BY <1>2 DEF Calls
  <1> HIDE DEF t, r
  <1>5. Specced(t)
    BY DEF GrantCanRestart, t
  <1> QED BY <1>1, <1>2, <1>3, <1>4, <1>5 DEF GrantCanRestart, Specced

LEMMA GrantCanRestartNext ==
    ASSUME Typed, Custody, RestartsAreSpecced, [Next]_vars, NEW d \in Clients
    PROVE  GrantCanRestart(d)'
  <1>0. GrantCanRestart(d) /\ RunningIsSpecced
    BY DEF RestartsAreSpecced
  <1>k. ASSUME call[d].job = "grant", NEW t \in call[d].want PROVE specs'[t] = specs[t]
    BY <1>k, WantedSpecStands
  <1>n. ASSUME call'[d].job # "grant" PROVE GrantCanRestart(d)'
    BY <1>n DEF GrantCanRestart
  <1>u. ASSUME pc'[d] = pc[d], call'[d] = call[d] PROVE GrantCanRestart(d)'
    BY <1>0, <1>u, OthersCanRestart
  <1>o. ASSUME NEW c \in Clients, c # d, Client(c) PROVE GrantCanRestart(d)'
    <2>1. pc'[d] = pc[d] /\ call'[d] = call[d]
      BY <1>o DEF Typed, ClientsOK, Client, Body, Proceeds, SweepOne, RestartOne,
         RestartRaises, GrantLooks, GrantDone, GrantRefused, StopSignals, StopJoins,
         StopHalts, StopRaises, StopTimesOut, RenewWrites, DeviceReturns, KeyErrorCaught,
         CallBegins, Release, StartLive, ReconfigureLive, StopLive, GrantClaims,
         RefusedByClaim, RenewChecks, CallChecks, PeekChecks, Answered, Return, Stopped
    <2> QED BY <1>u, <2>1
  <1>j. ASSUME NEW j \in Jobs \ {"grant"}, NEW S, NEW T,
               call' = [call EXCEPT ![d] = [NoCall EXCEPT !.job = j, !.sweep = S, !.left = T]]
        PROVE  GrantCanRestart(d)'
    <2>1. [NoCall EXCEPT !.job = j, !.sweep = S, !.left = T].job = j
      BY DEF NoCall
    <2>2. call'[d] = [NoCall EXCEPT !.job = j, !.sweep = S, !.left = T]
      BY <1>j DEF Typed, ClientsOK
    <2> QED BY <1>n, <2>1, <2>2
  <1>i. ASSUME NEW j \in Jobs \ {"grant"}, NEW T,
               call' = [call EXCEPT ![d] = [NoCall EXCEPT !.job = j, !.left = T]]
        PROVE  GrantCanRestart(d)'
    <2>1. [NoCall EXCEPT !.job = j, !.left = T].job = j
      BY DEF NoCall
    <2>2. call'[d] = [NoCall EXCEPT !.job = j, !.left = T]
      BY <1>i DEF Typed, ClientsOK
    <2> QED BY <1>n, <2>1, <2>2
  <1>1. CASE SweepOne(d) \/ CallBegins(d) \/ Release(d)
    <2>1. CASE SweepOne(d)
      <3>1. PICK l \in call[d].sweep : call' = [call EXCEPT ![d] =
              [NoCall EXCEPT !.job = "sweep", !.sweep = call[d].sweep \ {l},
                             !.left = ToRestart(l)]]
        BY <2>1 DEF SweepOne
      <3> QED BY <3>1, <1>j DEF Jobs
    <2>2. CASE CallBegins(d)
      <3>1. call'[d] = [NoCall EXCEPT !.job = "sweep", !.sweep = granted \cap lapsed]
        BY <2>2 DEF CallBegins, Typed, ClientsOK
      <3>2. [NoCall EXCEPT !.job = "sweep", !.sweep = granted \cap lapsed].job = "sweep"
        BY DEF NoCall
      <3> QED BY <1>n, <3>1, <3>2
    <2>3. CASE Release(d)
      <3>1. \/ call' = [call EXCEPT ![d] = NoCall]
            \/ call' = [call EXCEPT ![d] =
                          [NoCall EXCEPT !.job = "release", !.left = ToRestart(held[d])]]
        BY <2>3 DEF Release
      <3>2. CASE call' = [call EXCEPT ![d] = NoCall]
        <4>1. call'[d].job = "none"
          BY <3>2 DEF NoCall, Typed, ClientsOK
        <4> QED BY <1>n, <4>1
      <3> QED BY <1>i, <3>1, <3>2 DEF Jobs
    <2> QED BY <1>1, <2>1, <2>2, <2>3
  <1>2. CASE RestartRaises(d) \/ GrantDone(d) \/ GrantRefused(d) \/ StopRaises(d)
             \/ RenewWrites(d) \/ DeviceReturns(d) \/ KeyErrorCaught(d) \/ Answered(d)
    <2>1. call'[d] = NoCall
      BY <1>2 DEF RestartRaises, GrantDone, GrantRefused, StopRaises, RenewWrites,
         DeviceReturns, KeyErrorCaught, Answered, Return, Typed, ClientsOK
    <2> QED BY <1>n, <2>1 DEF NoCall
  <1>3. CASE StartLive(d) \/ ReconfigureLive(d)
    <2>1. call'[d] = NoCall
      BY <1>3 DEF StartLive, ReconfigureLive, RefusedByClaim, Return, Typed, ClientsOK
    <2> QED BY <1>n, <2>1 DEF NoCall
  <1>4. CASE StopLive(d)
    <2>1. PICK t \in Cameras \cup Scanners :
            \/ RefusedByClaim(d, {t})
            \/ call' = [call EXCEPT ![d] = [NoCall EXCEPT !.job = "live", !.left = {t}]]
      BY <1>4 DEF StopLive
    <2>2. CASE RefusedByClaim(d, {t})
      <3>1. call'[d].job = "none"
        BY <2>2 DEF RefusedByClaim, NoCall, Typed, ClientsOK
      <3> QED BY <1>n, <3>1
    <2> QED BY <2>1, <2>2, <1>i DEF Jobs
  <1>5. CASE RenewChecks(d) \/ CallChecks(d) \/ PeekChecks(d)
    <2>1. call[d].job # "grant"
      BY <1>5, Locals DEF RenewChecks, CallChecks, PeekChecks, Shape
    <2>2. call'[d].job = call[d].job
      BY <1>5, Locals DEF RenewChecks, CallChecks, PeekChecks, Typed, ClientsOK, Calls
    <2> QED BY <1>n, <2>1, <2>2
  <1>6. CASE GrantClaims(d)
    <2>1. CASE call'[d] = NoCall
      BY <1>n, <2>1 DEF NoCall
    <2>2. CASE call'[d] # NoCall
      <3>1. PICK ts \in (SUBSET Targets) \ {{}}, l \in NewLeases :
              /\ pc' = [pc EXCEPT ![d] = "grant"]
              /\ call' = [call EXCEPT ![d] = [NoCall EXCEPT !.job = "grant", !.left = ts,
                                                !.want = ts, !.lease = l]]
        BY <1>6, <2>2 DEF GrantClaims, RefusedByClaim, Typed, ClientsOK
      <3>2. pc'[d] = "grant" /\ call'[d].left = call'[d].want /\ call'[d].stopped = {}
        BY <3>1 DEF NoCall, Typed, ClientsOK
      <3> QED BY <3>2 DEF GrantCanRestart
    <2> QED BY <2>1, <2>2
  <1>7. CASE GrantLooks(d)
    <2> DEFINE t == First(call[d].left)
    <2>1. call[d] \in Calls /\ call[d].job = "grant" /\ t \in call[d].left
      BY <1>7, Locals DEF GrantLooks, Shape
    <2>2. CASE Running(t)
      <3>1. pc'[d] = "stop" /\ call'[d] = call[d]
        BY <1>7, <2>2 DEF GrantLooks, Typed, ClientsOK
      <3>2. Specced(t) /\ t \in call[d].want
        BY <1>0, <2>1, <2>2, Locals DEF RunningIsSpecced, GrantCanRestart
      <3> QED BY <1>0, <1>k, <2>1, <3>1, <3>2 DEF GrantCanRestart, Specced
    <2>3. CASE ~Running(t)
      <3>1. pc'[d] = "grant" /\ call'[d] = [call[d] EXCEPT !.left = call[d].left \ {t}]
        BY <1>7, <2>3 DEF GrantLooks, Typed, ClientsOK
      <3>2. call'[d].left \subseteq call[d].left /\ call'[d].stopped = call[d].stopped
            /\ call'[d].want = call[d].want
        BY <2>1, <3>1 DEF Calls
      <3> QED BY <1>0, <1>k, <2>1, <3>1, <3>2 DEF GrantCanRestart, Specced
    <2> QED BY <2>2, <2>3
  <1>s. ASSUME pc[d] \in {"stop", "join", "halt"}, Stopped(d, First(call[d].left))
        PROVE  GrantCanRestart(d)'
    <2>1. CASE call[d].job = "grant"
      BY <1>0, <1>s, <2>1, StoppedCanRestart
    <2>2. CASE call[d].job # "grant"
      <3>1. call'[d] = NoCall
        BY <1>s, <2>2 DEF Stopped, Return, Typed, ClientsOK
      <3> QED BY <1>n, <3>1 DEF NoCall
    <2> QED BY <2>1, <2>2
  <1>8. CASE StopSignals(d) \/ StopJoins(d) \/ StopHalts(d)
    <2> DEFINE t == First(call[d].left)
    <2>0. pc[d] \in {"stop", "join", "halt"} /\ call[d] \in Calls /\ t \in call[d].left
      BY <1>8, Locals DEF StopSignals, StopJoins, StopHalts, Shape
    <2>1. CASE Stopped(d, t)
      BY <1>s, <2>0, <2>1
    <2>2. CASE ~Stopped(d, t)
      <3>0. ASSUME StopSignals(d)
            PROVE  /\ pc'[d] \in {"join", "halt"} /\ call'[d].left = call[d].left
                   /\ call'[d].stopped = call[d].stopped /\ call'[d].want = call[d].want
                   /\ call'[d].job = call[d].job
        <4>1. call'[d] = [call[d] EXCEPT !.loop = current[t], !.due = JoinDeadline(t)]
              /\ pc'[d] = "join"
          BY <3>0, <2>2 DEF StopSignals, Typed, ClientsOK
        <4> QED BY <2>0, <4>1 DEF Calls
      <3>1. pc'[d] \in {"join", "halt"} /\ call'[d].left = call[d].left
            /\ call'[d].stopped = call[d].stopped /\ call'[d].want = call[d].want
            /\ call'[d].job = call[d].job
        BY <1>8, <2>2, <3>0 DEF StopJoins, StopHalts, Typed, ClientsOK
      <3> QED BY <1>0, <1>k, <2>0, <3>1 DEF GrantCanRestart, Specced
    <2> QED BY <2>1, <2>2
  <1>9. CASE StopTimesOut(d)
    <2>1. CASE call[d].job = "grant"
      <3>1. call'[d] = [call[d] EXCEPT !.left = call[d].stopped, !.stopped = {},
                                       !.loop = NoLoop, !.due = "short"]
            /\ pc'[d] \in {"undo", "restart"} /\ call[d] \in Calls
        BY <1>9, <2>1, Locals DEF StopTimesOut, Typed, ClientsOK
      <3>2. call'[d].left = call[d].stopped /\ call'[d].stopped = {}
            /\ call'[d].want = call[d].want
        BY <3>1 DEF Calls
      <3> QED BY <1>0, <1>k, <2>1, <3>1, <3>2 DEF GrantCanRestart, Specced
    <2>2. CASE call[d].job # "grant"
      <3>1. call'[d] = NoCall
        BY <1>9, <2>2 DEF StopTimesOut, Return, Typed, ClientsOK
      <3> QED BY <1>n, <3>1 DEF NoCall
    <2> QED BY <2>1, <2>2
  <1>10. CASE RestartOne(d)
    <2> DEFINE rest == call[d].left \ {Last(call[d].left)}
    <2>0. call[d] \in Calls /\ pc[d] = "restart"
      BY <1>10, Locals DEF RestartOne
    <2>1. \/ call'[d] = NoCall
          \/ /\ call'[d] = [call[d] EXCEPT !.left = rest]
             /\ pc'[d] \in {"restart", AfterRestart(d)}
      BY <1>10 DEF RestartOne, Typed, ClientsOK
    <2>2. CASE call'[d] = NoCall
      BY <1>n, <2>2 DEF NoCall
    <2>3. CASE /\ call'[d] = [call[d] EXCEPT !.left = rest]
               /\ pc'[d] \in {"restart", AfterRestart(d)}
      <3>1. call'[d].job = call[d].job /\ call'[d].left = rest
            /\ call'[d].stopped = call[d].stopped /\ call'[d].want = call[d].want
        BY <2>0, <2>3 DEF Calls
      <3>2. CASE call[d].job = "grant"
        <4>1. AfterRestart(d) = "undo"
          BY <3>2 DEF AfterRestart
        <4> QED BY <1>0, <1>k, <2>0, <2>3, <3>1, <3>2, <4>1 DEF GrantCanRestart, Specced
      <3>3. CASE call[d].job # "grant"
        BY <1>n, <3>1, <3>3
      <3> QED BY <3>2, <3>3
    <2> QED BY <2>1, <2>2, <2>3
  <1>11. CASE (\E l \in LoopIds : Loop(l)) \/ (\E l \in LeaseIds : Lapse(l)) \/ UNCHANGED vars
    BY <1>11, <1>u DEF Loop, PassEnds, GrabRaises, Lapse, vars
  <1>12. CASE Client(d)
    BY <1>1, <1>2, <1>3, <1>4, <1>5, <1>6, <1>7, <1>8, <1>9, <1>10, <1>12
    DEF Client, Body, Proceeds
  <1> QED BY <1>o, <1>11, <1>12 DEF Next

\* No grant ends in this step, and the table loses no lease that has claims.
GrantsGoOn == \A c \in Clients : call[c].job = "grant" =>
    call'[c].job = "grant" /\ call'[c].lease = call[c].lease

LEMMA BackedFrame ==
    ASSUME Restartable, GrantsGoOn, granted \subseteq granted',
           NEW t \in Targets, claims'[t] = claims[t]
    PROVE  Backed(t)'
  BY DEF Restartable, Backed, GrantsGoOn

LEMMA DropBacked ==
    ASSUME Restartable, GrantsGoOn, NEW l, DropLease(l), NEW t \in Targets,
           claims' = [u \in Targets |-> IF claims[u] = l THEN NoLease ELSE claims[u]]
    PROVE  Backed(t)'
  BY DEF Restartable, Backed, GrantsGoOn, DropLease

\* A client that is in no grant, whatever becomes of its call, ends none.
LEMMA OutsideGrants ==
    ASSUME Typed, NEW c \in Clients, call[c].job # "grant",
           \A d \in Clients \ {c} : call'[d] = call[d]
    PROVE  GrantsGoOn
  BY DEF GrantsGoOn

LEMMA BackedNext ==
    ASSUME FaultyCameras = {}, Typed, Custody, Restartable, [Next]_vars, NEW t \in Targets
    PROVE  Backed(t)'
  <1>0. ASSUME NEW c \in Clients, NEW r, call' = [call EXCEPT ![c] = r],
               call[c].job = "grant" => r.job = "grant" /\ r.lease = call[c].lease
        PROVE  GrantsGoOn
    BY <1>0 DEF GrantsGoOn, Typed, ClientsOK
  <1>1. ASSUME NEW c \in Clients, SweepOne(c) PROVE Backed(t)'
    <2>1. PICK l \in call[c].sweep :
            IF l \in granted THEN DropLease(l) ELSE UNCHANGED <<granted, lapsed, claims>>
      BY <1>1 DEF SweepOne
    <2>2. GrantsGoOn
      <3>1. call[c].job # "grant" /\ \A d \in Clients \ {c} : call'[d] = call[d]
        BY <1>1, Locals DEF SweepOne, Shape, Typed, ClientsOK
      <3> QED BY <3>1, OutsideGrants
    <2>3. CASE l \in granted
      <3>1. DropLease(l)
        BY <2>1, <2>3
      <3>2. KeepsGrants /\ UNCHANGED <<holding, held>>
        <4>1. PICK m \in call[c].sweep : call' = [call EXCEPT ![c] =
                [NoCall EXCEPT !.job = "sweep", !.sweep = call[c].sweep \ {m},
                               !.left = ToRestart(m)]]
          BY <1>1 DEF SweepOne
        <4>2. [NoCall EXCEPT !.job = "sweep", !.sweep = call[c].sweep \ {m},
                             !.left = ToRestart(m)].job # "grant"
          BY DEF NoCall
        <4> QED BY <1>1, <4>1, <4>2, OneKeepsGrants DEF SweepOne
      <3> QED BY <2>2, <2>3, <3>1, <3>2, DropCustody, DropBacked
    <2>4. CASE l \notin granted
      BY <2>1, <2>2, <2>4, BackedFrame
    <2> QED BY <2>3, <2>4
  <1>2. ASSUME NEW c \in Clients, Release(c) PROVE Backed(t)'
    <2> DEFINE l == held[c]
    <2>1. /\ IF l \in granted THEN DropLease(l) ELSE UNCHANGED <<granted, lapsed, claims>>
          /\ held' = [held EXCEPT ![c] = NoLease] /\ UNCHANGED holding
          /\ \/ call' = [call EXCEPT ![c] = NoCall]
             \/ call' = [call EXCEPT ![c] =
                          [NoCall EXCEPT !.job = "release", !.left = ToRestart(l)]]
      BY <1>2 DEF Release
    <2>2. GrantsGoOn
      <3>1. call[c].job # "grant" /\ \A d \in Clients \ {c} : call'[d] = call[d]
        BY <1>2, Locals DEF Release, Shape, NoCall, Typed, ClientsOK
      <3> QED BY <3>1, OutsideGrants
    <2>3. CASE l \in granted
      <3>1. DropLease(l)
        BY <2>1, <2>3
      <3>2. [NoCall EXCEPT !.job = "release", !.left = ToRestart(l)].job # "grant"
        BY DEF NoCall
      <3>3. KeepsGrants
        BY <2>1, <3>2, OneKeepsGrants, ReturnKeepsGrants
      <3>4. \A d \in Clients : held'[d] = held[d] \/ held'[d] = NoLease
        BY <2>1 DEF Typed, DataOK
      <3> QED BY <2>1, <2>2, <2>3, <3>1, <3>3, <3>4, DropCustody, DropBacked
    <2>4. CASE l \notin granted
      BY <2>1, <2>2, <2>4, BackedFrame
    <2> QED BY <2>3, <2>4
  <1>3. ASSUME NEW c \in Clients, GrantClaims(c) PROVE Backed(t)'
    <2>1. call[c].job # "grant" /\ \A d \in Clients \ {c} : call'[d] = call[d]
      BY <1>3, Locals DEF GrantClaims, RefusedByClaim, Shape, Typed, ClientsOK
    <2>2. GrantsGoOn /\ granted' = granted
      BY <1>3, <2>1, OutsideGrants DEF GrantClaims, RefusedByClaim, tableVars
    <2>3. CASE claims'[t] = claims[t]
      BY <2>2, <2>3, BackedFrame
    <2>4. CASE claims'[t] # claims[t]
      <3>1. PICK ts, l : /\ ClaimAll(ts, l)
                         /\ call' = [call EXCEPT ![c] = [NoCall EXCEPT !.job = "grant",
                                        !.left = ts, !.want = ts, !.lease = l]]
        BY <1>3, <2>4 DEF GrantClaims, RefusedByClaim, tableVars
      <3>2. claims'[t] = l
        BY <2>4, <3>1 DEF ClaimAll, Typed, DataOK
      <3>3. call'[c].job = "grant" /\ call'[c].lease = l
        BY <3>1 DEF NoCall, Typed, ClientsOK
      <3> QED BY <3>2, <3>3 DEF Backed
    <2> QED BY <2>3, <2>4
  <1>4. ASSUME NEW c \in Clients, GrantDone(c) PROVE Backed(t)'
    <2>1. /\ granted' = granted \cup {call[c].lease}
          /\ call' = [call EXCEPT ![c] = NoCall] /\ UNCHANGED claims
      BY <1>4 DEF GrantDone, Return
    <2>2. \A d \in Clients \ {c} : call'[d] = call[d]
      BY <2>1 DEF Typed, ClientsOK
    <2>3. Backed(t)
      BY DEF Restartable
    <2> QED BY <2>1, <2>2, <2>3 DEF Backed
  <1>5. ASSUME NEW c \in Clients, GrantRefused(c) PROVE Backed(t)'
    <2>1. /\ claims' = [u \in Targets |-> IF u \in call[c].want THEN NoLease ELSE claims[u]]
          /\ call' = [call EXCEPT ![c] = NoCall] /\ UNCHANGED granted
          /\ call[c].job = "grant"
      BY <1>5, Locals DEF GrantRefused, Return, UndoClaims, Shape
    <2>2. \A d \in Clients \ {c} : call'[d] = call[d]
      BY <2>1 DEF Typed, ClientsOK
    <2>3. Backed(t) /\ GrantHasItsClaims(c)
      BY DEF Restartable, Custody
    <2> QED BY <2>1, <2>2, <2>3 DEF Backed, GrantHasItsClaims
  <1>6. ASSUME NEW c \in Clients, RestartOne(c) PROVE Backed(t)'
    <2> DEFINE rest == call[c].left \ {Last(call[c].left)}
    <2>1. UNCHANGED <<claims, granted>>
      BY <1>6 DEF RestartOne, tableVars
    <2>2. call[c] \in Calls
      BY Locals
    <2>3. \/ call' = [call EXCEPT ![c] = NoCall] /\ AfterRestart(c) = "idle"
          \/ call' = [call EXCEPT ![c] = [call[c] EXCEPT !.left = rest]]
      BY <1>6 DEF RestartOne
    <2>4. AfterRestart(c) = "idle" => call[c].job # "grant"
      BY DEF AfterRestart
    <2>5. [call[c] EXCEPT !.left = rest].job = call[c].job
          /\ [call[c] EXCEPT !.left = rest].lease = call[c].lease
      BY <2>2 DEF Calls
    <2> HIDE DEF rest
    <2>6. GrantsGoOn
      BY <2>3, <2>4, <2>5, <1>0
    <2> QED BY <2>1, <2>6, BackedFrame
  <1>7. ASSUME NEW c \in Clients, RestartRaises(c) PROVE Backed(t)'
    <2>1. call[c].job # "grant"
      BY <1>7, Locals DEF RestartRaises, Refuses, Shape, Restartable, GrantCanRestart, Specced
    <2>2. \A d \in Clients \ {c} : call'[d] = call[d]
      BY <1>7 DEF RestartRaises, Return, Typed, ClientsOK
    <2> QED BY <1>7, <2>1, <2>2, OutsideGrants, BackedFrame DEF RestartRaises, tableVars
  <1>8. ASSUME NEW c \in Clients, GrantLooks(c) PROVE Backed(t)'
    <2>1. [call[c] EXCEPT !.left = call[c].left \ {First(call[c].left)}].job = call[c].job
          /\ [call[c] EXCEPT !.left = call[c].left \ {First(call[c].left)}].lease
                = call[c].lease
      BY Locals DEF Calls
    <2>2. GrantsGoOn
      BY <1>0, <1>8, <2>1 DEF GrantLooks, GrantsGoOn
    <2> QED BY <1>8, <2>2, BackedFrame DEF GrantLooks, tableVars
  <1>s. ASSUME NEW c \in Clients, NEW u, Stopped(c, u) PROVE GrantsGoOn
    <2>1. CASE call[c].job = "grant"
      <3>1. PICK r : call' = [call EXCEPT ![c] = r] /\ r.job = call[c].job
                     /\ r.lease = call[c].lease
        BY <1>s, <2>1, Locals DEF Stopped, Calls
      <3> QED BY <1>0, <3>1
    <2>2. CASE call[c].job # "grant"
      BY <1>s, <2>2, OutsideGrants DEF Stopped, Return, Typed, ClientsOK
    <2> QED BY <2>1, <2>2
  <1>9. ASSUME NEW c \in Clients, StopSignals(c) PROVE Backed(t)'
    <2> DEFINE u == First(call[c].left)
               r == [call[c] EXCEPT !.loop = current[u], !.due = JoinDeadline(u)]
    <2>1. r.job = call[c].job /\ r.lease = call[c].lease
      BY Locals DEF Calls
    <2>2. Stopped(c, u) \/ call' = [call EXCEPT ![c] = r]
      BY <1>9 DEF StopSignals
    <2> HIDE DEF u, r
    <2>3. GrantsGoOn
      BY <1>0, <1>s, <2>1, <2>2
    <2> QED BY <1>9, <2>3, BackedFrame DEF StopSignals, tableVars
  <1>10. ASSUME NEW c \in Clients, StopJoins(c) \/ StopHalts(c) PROVE Backed(t)'
    <2>1. GrantsGoOn
      BY <1>10, <1>s DEF StopJoins, StopHalts, GrantsGoOn
    <2> QED BY <1>10, <2>1, BackedFrame DEF StopJoins, StopHalts, tableVars
  <1>11. ASSUME NEW c \in Clients, StopTimesOut(c) PROVE Backed(t)'
    <2>1. GrantsGoOn
      <3>1. CASE call[c].job = "grant"
        <4>1. PICK r : call' = [call EXCEPT ![c] = r] /\ r.job = call[c].job
                       /\ r.lease = call[c].lease
          BY <1>11, <3>1, Locals DEF StopTimesOut, Calls
        <4> QED BY <1>0, <4>1
      <3>2. CASE call[c].job # "grant"
        BY <1>11, <3>2, OutsideGrants DEF StopTimesOut, Return, Typed, ClientsOK
      <3> QED BY <3>1, <3>2
    <2> QED BY <1>11, <2>1, BackedFrame DEF StopTimesOut, tableVars
  <1>12. ASSUME NEW c \in Clients, StopRaises(c) PROVE FALSE
    BY <1>12 DEF StopRaises
  <1>13. ASSUME NEW c \in Clients,
                \/ CallBegins(c) \/ RenewWrites(c) \/ DeviceReturns(c) \/ KeyErrorCaught(c)
                \/ StartLive(c) \/ ReconfigureLive(c) \/ StopLive(c) \/ RenewChecks(c)
                \/ CallChecks(c) \/ PeekChecks(c) \/ Answered(c)
         PROVE  Backed(t)'
    <2>0. pc[c] \in {"idle", "swept", "renew", "calling", "peeking", "KeyError"}
      BY <1>13 DEF CallBegins, RenewWrites, DeviceReturns, KeyErrorCaught,
         StartLive, ReconfigureLive, StopLive, RenewChecks, CallChecks, PeekChecks, Answered
    <2>1. call[c].job # "grant"
      BY <2>0, Locals DEF Shape, NoCall
    <2>2. \A d \in Clients \ {c} : call'[d] = call[d]
      BY <1>13 DEF CallBegins, RenewWrites, DeviceReturns, KeyErrorCaught, StartLive,
         ReconfigureLive, StopLive, RefusedByClaim, RenewChecks, CallChecks, PeekChecks,
         Answered, Return, Typed, ClientsOK
    <2>3. claims' = claims /\ granted \subseteq granted'
      BY <1>13 DEF CallBegins, RenewWrites, DeviceReturns, KeyErrorCaught, StartLive,
         ReconfigureLive, StopLive, RefusedByClaim, RenewChecks, CallChecks, PeekChecks,
         Answered, tableVars
    <2> QED BY <2>1, <2>2, <2>3, OutsideGrants, BackedFrame
  <1>14. CASE (\E l \in LoopIds : Loop(l)) \/ (\E l \in LeaseIds : Lapse(l)) \/ UNCHANGED vars
    <2>1. UNCHANGED <<claims, granted, call>>
      BY <1>14 DEF Loop, PassEnds, GrabRaises, Lapse, vars
    <2> QED BY <2>1, BackedFrame DEF GrantsGoOn
  <1> QED
    BY <1>1, <1>2, <1>3, <1>4, <1>5, <1>6, <1>7, <1>8, <1>9, <1>10, <1>11, <1>12, <1>13,
       <1>14 DEF Next, Client, Body, Proceeds

\* While no camera raises from start() or stop(), no claim is ever an orphan: whatever
\* is refused, timed out, reclaimed or revived, somebody can still give it back.
THEOREM NoOrphanClaims ==
    ASSUME FaultyCameras = {}
    PROVE  Spec => []ClaimsAreBacked
  <1>1. Init => Restartable
    BY RestartableInit
  <1>2. Typed /\ Custody /\ Restartable /\ [Next]_vars => Restartable'
    BY SpeccedNext, GrantCanRestartNext, BackedNext DEF Restartable, RestartsAreSpecced
  <1>3. Typed /\ Custody /\ Restartable => ClaimsAreBacked
    BY RestartableIsBacked
  <1> QED BY <1>1, <1>2, <1>3, CustodyAlways, PTL DEF Spec

----------------------------------------------------------------------------
\* While no lease lapses, a lease is its holder's from grant to release.

\* Nothing lapses, so nothing is swept; and who holds a lease holds all of it, alone.
Held(c) == held[c] # NoLease

HeldWhole ==
    /\ lapsed = {}
    /\ \A c \in Clients : call[c].sweep = {} /\ pc[c] # "sweep"
    /\ \A c \in Clients : Held(c) =>
        /\ held[c] \in granted
        /\ \A t \in holding[held[c]] : claims[t] = held[c]
        /\ \A d \in Clients : held[d] = held[c] => d = c
    /\ \A l \in granted : \E c \in Clients : held[c] = l
    /\ \A c \in Clients : pc[c] = "calling" => call[c].left \subseteq holding[held[c]]

LEMMA HeldWholeInit == Init => HeldWhole
  BY IdAssumption DEF Init, HeldWhole, Held, NoCall

LEMMA HeldWholeFrame ==
    ASSUME HeldWhole, UNCHANGED <<claims, granted, holding, held>>, lapsed' = {},
           \A c \in Clients : call'[c].sweep = {} /\ pc'[c] # "sweep",
           \A c \in Clients : pc'[c] = "calling" => call'[c].left \subseteq holding[held[c]]
    PROVE  HeldWhole'
  BY DEF HeldWhole, Held

\* One client moves, with nothing to sweep and nothing of a lease to call.
LEMMA HeldWholeMoves ==
    ASSUME Typed, HeldWhole, NEW c \in Clients, NEW p, NEW r,
           pc' = [pc EXCEPT ![c] = p], call' = [call EXCEPT ![c] = r],
           p # "sweep", p # "calling", r.sweep = {},
           UNCHANGED <<claims, granted, holding, held, lapsed>>
    PROVE  HeldWhole'
  <1>1. pc'[c] = p /\ call'[c] = r
        /\ \A d \in Clients : d # c => pc'[d] = pc[d] /\ call'[d] = call[d]
    BY DEF Typed, ClientsOK
  <1> QED BY <1>1, HeldWholeFrame DEF HeldWhole

LEMMA HeldWholeReturns ==
    ASSUME Typed, HeldWhole, NEW c \in Clients, Return(c),
           UNCHANGED <<claims, granted, holding, held, lapsed>>
    PROVE  HeldWhole'
  <1>1. NoCall.sweep = {}
    BY DEF NoCall
  <1> QED BY <1>1, HeldWholeMoves DEF Return

LEMMA HeldWholeStopped ==
    ASSUME Typed, HeldWhole, NEW c \in Clients, NEW t, Stopped(c, t),
           UNCHANGED <<claims, granted, holding, held, lapsed>>
    PROVE  HeldWhole'
  <1>1. CASE call[c].job = "grant"
    <2> DEFINE r == [call[c] EXCEPT !.left = call[c].left \ {t},
                                    !.stopped = call[c].stopped \cup {t},
                                    !.loop = NoLoop, !.due = "short"]
    <2>1. r.sweep = {}
      BY Locals DEF Calls, HeldWhole
    <2>2. pc' = [pc EXCEPT ![c] = "grant"] /\ call' = [call EXCEPT ![c] = r]
      BY <1>1 DEF Stopped
    <2> HIDE DEF r
    <2> QED BY <2>1, <2>2, HeldWholeMoves
  <1>2. CASE call[c].job # "grant"
    BY <1>2, HeldWholeReturns DEF Stopped
  <1> QED BY <1>1, <1>2

LEMMA HeldWholeQuiet ==
    ASSUME Typed, HeldWhole, NEW c \in Clients,
           \/ CallBegins(c) \/ RestartOne(c) \/ RestartRaises(c) \/ KeyErrorCaught(c)
           \/ GrantLooks(c) \/ StopSignals(c) \/ StopJoins(c) \/ StopHalts(c)
           \/ StopRaises(c) \/ StopTimesOut(c) \/ DeviceReturns(c) \/ StartLive(c)
           \/ ReconfigureLive(c) \/ StopLive(c) \/ RenewChecks(c) \/ CallChecks(c)
           \/ PeekChecks(c) \/ Answered(c)
    PROVE  HeldWhole'
  <1>0. call[c] \in Calls /\ call[c].sweep = {} /\ lapsed = {}
    BY Locals DEF HeldWhole
  <1>1. CASE CallBegins(c)
    <2>1. pc' = [pc EXCEPT ![c] = "swept"]
          /\ call' = [call EXCEPT ![c] = [NoCall EXCEPT !.job = "sweep", !.sweep = {}]]
      <3>1. granted \cap lapsed = {}
        BY <1>0
      <3> QED BY <1>1, <3>1 DEF CallBegins
    <2>2. [NoCall EXCEPT !.job = "sweep", !.sweep = {}].sweep = {}
      BY DEF NoCall
    <2>3. UNCHANGED <<claims, granted, holding, held, lapsed>>
      BY <1>1 DEF CallBegins, tableVars
    <2> QED BY <2>1, <2>2, <2>3, HeldWholeMoves
  <1>2. CASE RestartOne(c)
    <2> DEFINE rest == call[c].left \ {Last(call[c].left)}
               p == IF rest = {} THEN AfterRestart(c) ELSE "restart"
    <2>0. UNCHANGED <<claims, granted, lapsed, holding, held>>
      BY <1>2 DEF RestartOne, tableVars
    <2>1. pc' = [pc EXCEPT ![c] = p]
          /\ \/ call' = [call EXCEPT ![c] = NoCall]
             \/ call' = [call EXCEPT ![c] = [call[c] EXCEPT !.left = rest]]
      BY <1>2 DEF RestartOne
    <2>2. NoCall.sweep = {} /\ [call[c] EXCEPT !.left = rest].sweep = {}
      BY <1>0 DEF NoCall, Calls
    <2>3. p # "sweep" /\ p # "calling"
      BY <1>0 DEF AfterRestart, AfterSweep
    <2> HIDE DEF p, rest
    <2> QED BY <2>0, <2>1, <2>2, <2>3, HeldWholeMoves
  <1>3. CASE \/ RestartRaises(c) \/ KeyErrorCaught(c) \/ StopRaises(c) \/ Answered(c)
             \/ DeviceReturns(c)
    BY <1>3, HeldWholeReturns DEF RestartRaises, KeyErrorCaught, StopRaises, Answered,
       DeviceReturns, tableVars
  <1>4. CASE GrantLooks(c)
    <2> DEFINE r == [call[c] EXCEPT !.left = call[c].left \ {First(call[c].left)}]
    <2>1. r.sweep = {}
      BY <1>0 DEF Calls
    <2>2. \/ pc' = [pc EXCEPT ![c] = "stop"] /\ call' = [call EXCEPT ![c] = call[c]]
          \/ pc' = [pc EXCEPT ![c] = "grant"] /\ call' = [call EXCEPT ![c] = r]
      BY <1>4 DEF GrantLooks, Typed, ClientsOK
    <2> HIDE DEF r
    <2> QED BY <1>0, <1>4, <2>1, <2>2, HeldWholeMoves DEF GrantLooks, tableVars
  <1>5. CASE StopSignals(c)
    <2> DEFINE u == First(call[c].left)
               r == [call[c] EXCEPT !.loop = current[u], !.due = JoinDeadline(u)]
    <2>1. r.sweep = {}
      BY <1>0 DEF Calls
    <2>2. \/ Stopped(c, u)
          \/ pc' = [pc EXCEPT ![c] = "join"] /\ call' = [call EXCEPT ![c] = r]
      BY <1>5 DEF StopSignals
    <2> HIDE DEF u, r
    <2> QED BY <1>5, <2>1, <2>2, HeldWholeMoves, HeldWholeStopped DEF StopSignals, tableVars
  <1>6. CASE StopJoins(c)
    <2>1. \/ Stopped(c, First(call[c].left))
          \/ pc' = [pc EXCEPT ![c] = "halt"] /\ call' = [call EXCEPT ![c] = call[c]]
      BY <1>6 DEF StopJoins, Typed, ClientsOK
    <2> QED BY <1>0, <1>6, <2>1, HeldWholeMoves, HeldWholeStopped DEF StopJoins, tableVars
  <1>7. CASE StopHalts(c)
    BY <1>7, HeldWholeStopped DEF StopHalts, tableVars
  <1>8. CASE StopTimesOut(c)
    <2> DEFINE r == [call[c] EXCEPT !.left = call[c].stopped, !.stopped = {},
                                    !.loop = NoLoop, !.due = "short"]
               p == IF call[c].stopped = {} THEN "undo" ELSE "restart"
    <2>1. r.sweep = {} /\ p # "sweep" /\ p # "calling"
      BY <1>0 DEF Calls
    <2>2. \/ Return(c)
          \/ pc' = [pc EXCEPT ![c] = p] /\ call' = [call EXCEPT ![c] = r]
      BY <1>8 DEF StopTimesOut
    <2> HIDE DEF p, r
    <2> QED BY <1>8, <2>1, <2>2, HeldWholeMoves, HeldWholeReturns DEF StopTimesOut, tableVars
  <1>r. ASSUME NEW ts, RefusedByClaim(c, ts) PROVE HeldWhole'
    <2> DEFINE p == IF claims[First({t \in ts : ~Unclaimed(t)})] \in granted
                    THEN "idle" ELSE "KeyError"
    <2>1. pc' = [pc EXCEPT ![c] = p] /\ call' = [call EXCEPT ![c] = NoCall]
          /\ UNCHANGED <<tableVars, held>>
      BY <1>r DEF RefusedByClaim
    <2>2. p # "sweep" /\ p # "calling" /\ NoCall.sweep = {}
      BY DEF NoCall
    <2> HIDE DEF p
    <2> QED BY <2>1, <2>2, HeldWholeMoves DEF tableVars
  <1>9. CASE StartLive(c) \/ ReconfigureLive(c)
    BY <1>9, <1>r, HeldWholeReturns DEF StartLive, ReconfigureLive, tableVars
  <1>10. CASE StopLive(c)
    <2>1. PICK t \in Cameras \cup Scanners :
            \/ RefusedByClaim(c, {t})
            \/ /\ pc' = [pc EXCEPT ![c] = "stop"]
               /\ call' = [call EXCEPT ![c] = [NoCall EXCEPT !.job = "live", !.left = {t}]]
               /\ UNCHANGED <<tableVars, specs, loopVars, held, wanted>>
      BY <1>10 DEF StopLive
    <2>2. [NoCall EXCEPT !.job = "live", !.left = {t}].sweep = {}
      BY DEF NoCall
    <2> QED BY <1>r, <2>1, <2>2, HeldWholeMoves DEF tableVars
  <1>11. CASE RenewChecks(c)
    <2>1. pc' = [pc EXCEPT ![c] = "renew"] /\ call' = [call EXCEPT ![c] = call[c]]
      BY <1>11 DEF RenewChecks, Typed, ClientsOK
    <2> QED BY <1>0, <1>11, <2>1, HeldWholeMoves DEF RenewChecks, tableVars
  <1>12. CASE PeekChecks(c)
    <2>1. PICK t : call' = [call EXCEPT ![c] = [call[c] EXCEPT !.left = {t}]]
      BY <1>12 DEF PeekChecks
    <2>2. [call[c] EXCEPT !.left = {t}].sweep = {}
      BY <1>0 DEF Calls
    <2> QED BY <1>12, <2>1, <2>2, HeldWholeMoves DEF PeekChecks, tableVars
  <1>13. CASE CallChecks(c)
    <2>1. PICK t \in holding[held[c]] :
            call' = [call EXCEPT ![c] = [call[c] EXCEPT !.left = {t}]]
      BY <1>13 DEF CallChecks
    <2>2. pc' = [pc EXCEPT ![c] = "calling"] /\ UNCHANGED <<tableVars, held>>
      BY <1>13 DEF CallChecks
    <2>3. /\ pc'[c] = "calling" /\ call'[c] = [call[c] EXCEPT !.left = {t}]
          /\ \A d \in Clients : d # c => pc'[d] = pc[d] /\ call'[d] = call[d]
      BY <2>1, <2>2 DEF Typed, ClientsOK
    <2>4. call'[c].sweep = {} /\ call'[c].left = {t}
      BY <1>0, <2>3 DEF Calls
    <2> QED BY <1>0, <2>1, <2>2, <2>3, <2>4, HeldWholeFrame DEF HeldWhole, tableVars
  <1> QED BY <1>1, <1>2, <1>3, <1>4, <1>5, <1>6, <1>7, <1>8, <1>9, <1>10, <1>11, <1>12,
             <1>13

LEMMA HeldWholeRelease ==
    ASSUME Typed, Custody, HeldWhole, NEW c \in Clients, Release(c)
    PROVE  HeldWhole'
  <1> DEFINE l == held[c]
  <1>1. l \in granted /\ l \in LeaseIds /\ lapsed = {}
    BY DEF Release, HeldWhole, Held, Typed, DataOK
  <1>2. DropLease(l) /\ holding' = holding /\ held' = [held EXCEPT ![c] = NoLease]
        /\ \/ pc' = [pc EXCEPT ![c] = "idle"] \/ pc' = [pc EXCEPT ![c] = "restart"]
        /\ \/ call' = [call EXCEPT ![c] = NoCall]
           \/ call' = [call EXCEPT ![c] =
                        [NoCall EXCEPT !.job = "release", !.left = ToRestart(l)]]
    BY <1>1 DEF Release
  <1>3. NoCall.sweep = {}
        /\ [NoCall EXCEPT !.job = "release", !.left = ToRestart(l)].sweep = {}
    BY DEF NoCall
  <1>4. /\ call'[c].sweep = {} /\ pc'[c] \in {"idle", "restart"} /\ held'[c] = NoLease
        /\ \A d \in Clients : d # c => /\ pc'[d] = pc[d] /\ call'[d] = call[d]
                                       /\ held'[d] = held[d]
    BY <1>2, <1>3 DEF Typed, ClientsOK, DataOK
  <1>5. granted' = granted \ {l} /\ lapsed' = {}
        /\ \A t \in Targets : claims[t] # l => claims'[t] = claims[t]
    BY <1>1, <1>2 DEF DropLease
  <1> HIDE DEF l
  <1>6. ASSUME NEW d \in Clients, Held(d)'
        PROVE  /\ held'[d] \in granted'
               /\ \A t \in holding'[held'[d]] : claims'[t] = held'[d]
               /\ \A e \in Clients : held'[e] = held'[d] => e = d
    <2>1. d # c /\ held'[d] = held[d] /\ Held(d) /\ held[d] # l
      BY <1>4, <1>6 DEF Held, HeldWhole, l
    <2>2. held[d] \in granted /\ held[d] # NoLease /\ held[d] \in LeaseIds
      BY <2>1 DEF Held, HeldWhole, Typed, DataOK
    <2>3. \A t \in holding[held[d]] : t \in Targets /\ claims[t] = held[d]
      BY <2>1, <2>2 DEF HeldWhole, Typed, DataOK
    <2>4. \A e \in Clients : held'[e] = held'[d] => e = d
      BY <1>4, <2>1, <2>2 DEF HeldWhole
    <2> QED BY <1>2, <1>5, <2>1, <2>2, <2>3, <2>4
  <1>7. ASSUME NEW m \in granted' PROVE \E d \in Clients : held'[d] = m
    <2>1. m \in granted /\ m # l
      BY <1>5, <1>7
    <2>2. PICK d \in Clients : held[d] = m
      BY <2>1 DEF HeldWhole
    <2> QED BY <1>4, <2>1, <2>2 DEF l
  <1>8. ASSUME NEW d \in Clients, pc'[d] = "calling"
        PROVE  call'[d].left \subseteq holding'[held'[d]]
    BY <1>2, <1>4, <1>8 DEF HeldWhole
  <1>9. \A d \in Clients : call'[d].sweep = {} /\ pc'[d] # "sweep"
    BY <1>4 DEF HeldWhole
  <1> QED BY <1>5, <1>6, <1>7, <1>8, <1>9 DEF HeldWhole

LEMMA HeldWholeClaims ==
    ASSUME Typed, HeldWhole, NEW c \in Clients, GrantClaims(c)
    PROVE  HeldWhole'
  <1>1. CASE UNCHANGED <<tableVars, held>> /\ call' = [call EXCEPT ![c] = NoCall]
               /\ \E p \in {"idle", "KeyError"} : pc' = [pc EXCEPT ![c] = p]
    <2>1. NoCall.sweep = {}
      BY DEF NoCall
    <2> QED BY <1>1, <2>1, HeldWholeMoves DEF tableVars
  <1>2. ASSUME NEW ts \in SUBSET Targets, NEW l \in NewLeases, ClaimAll(ts, l),
               pc' = [pc EXCEPT ![c] = "grant"],
               call' = [call EXCEPT ![c] = [NoCall EXCEPT !.job = "grant", !.left = ts,
                                              !.want = ts, !.lease = l]],
               UNCHANGED <<granted, lapsed, holding, held>>
        PROVE  HeldWhole'
    <2>1. [NoCall EXCEPT !.job = "grant", !.left = ts, !.want = ts, !.lease = l].sweep = {}
      BY DEF NoCall
    <2>2. /\ call'[c].sweep = {} /\ pc'[c] = "grant"
          /\ \A d \in Clients : d # c => pc'[d] = pc[d] /\ call'[d] = call[d]
      BY <1>2, <2>1 DEF Typed, ClientsOK
    <2>3. \A t \in Targets : claims[t] # NoLease => claims'[t] = claims[t]
      BY <1>2 DEF ClaimAll, Unclaimed
    <2>4. ASSUME NEW d \in Clients, Held(d), NEW t \in holding[held[d]]
          PROVE  claims'[t] = held[d]
      BY <2>3, <2>4 DEF HeldWhole, Held, Typed, DataOK
    <2> QED BY <1>2, <2>2, <2>4 DEF HeldWhole, Held
  <1>3. \/ UNCHANGED <<tableVars, held>> /\ call' = [call EXCEPT ![c] = NoCall]
             /\ \E p \in {"idle", "KeyError"} : pc' = [pc EXCEPT ![c] = p]
        \/ \E ts \in SUBSET Targets, l \in NewLeases :
             /\ ClaimAll(ts, l)
             /\ pc' = [pc EXCEPT ![c] = "grant"]
             /\ call' = [call EXCEPT ![c] = [NoCall EXCEPT !.job = "grant", !.left = ts,
                                               !.want = ts, !.lease = l]]
             /\ UNCHANGED <<granted, lapsed, holding, held>>
    BY DEF GrantClaims, RefusedByClaim
  <1> QED BY <1>1, <1>2, <1>3

LEMMA HeldWholeDone ==
    ASSUME Typed, Custody, HeldWhole, NEW c \in Clients, GrantDone(c), held[c] = NoLease
    PROVE  HeldWhole'
  <1> DEFINE l == call[c].lease
  <1>1. /\ granted' = granted \cup {l} /\ held' = [held EXCEPT ![c] = l]
        /\ holding' = [holding EXCEPT ![l] = call[c].want]
        /\ call' = [call EXCEPT ![c] = NoCall] /\ pc' = [pc EXCEPT ![c] = "idle"]
        /\ UNCHANGED <<claims, lapsed>>
    BY DEF GrantDone, Return
  <1>2. /\ l \in LeaseIds /\ GrantHasItsClaims(c) /\ call[c].job = "grant"
        /\ call[c].want \in SUBSET Targets
    BY Locals DEF GrantDone, Shape, Custody
  <1>3. l \notin granted /\ \A d \in Clients : held[d] # l
    BY <1>2 DEF GrantHasItsClaims
  <1>4. \A t \in call[c].want : claims[t] = l
    BY <1>2 DEF GrantHasItsClaims
  <1> HIDE DEF l
  <1>5. /\ call'[c] = NoCall /\ pc'[c] = "idle" /\ held'[c] = l
        /\ \A d \in Clients : d # c => /\ pc'[d] = pc[d] /\ call'[d] = call[d]
                                       /\ held'[d] = held[d]
    BY <1>1 DEF Typed, ClientsOK, DataOK
  <1>6. holding'[l] = call[c].want /\ \A m \in LeaseIds : m # l => holding'[m] = holding[m]
    BY <1>1, <1>2 DEF Typed, DataOK
  <1>7. ASSUME NEW d \in Clients, Held(d)'
        PROVE  /\ held'[d] \in granted'
               /\ \A t \in holding'[held'[d]] : claims'[t] = held'[d]
               /\ \A e \in Clients : held'[e] = held'[d] => e = d
    <2>1. CASE d = c
      BY <1>1, <1>3, <1>4, <1>5, <1>6, <2>1
    <2>2. CASE d # c
      <3>1. held'[d] = held[d] /\ Held(d) /\ held[d] # l /\ held[d] \in LeaseIds
        BY <1>3, <1>5, <1>7, <2>2 DEF Held, Typed, DataOK
      <3>2. /\ held[d] \in granted
            /\ \A t \in holding[held[d]] : claims[t] = held[d]
            /\ \A e \in Clients : held[e] = held[d] => e = d
        BY <3>1 DEF HeldWhole
      <3>3. \A e \in Clients : held'[e] = held[d] => e = d
        BY <1>5, <3>1, <3>2
      <3> QED BY <1>1, <1>6, <3>1, <3>2, <3>3
    <2> QED BY <2>1, <2>2
  <1>8. ASSUME NEW m \in granted' PROVE \E d \in Clients : held'[d] = m
    <2>1. CASE m = l
      BY <1>5, <2>1
    <2>2. CASE m # l
      <3>1. m \in granted /\ m \in LeaseIds
        BY <1>1, <1>8, <2>2 DEF Typed, DataOK
      <3>2. PICK d \in Clients : held[d] = m
        BY <3>1 DEF HeldWhole
      <3>3. d # c
        BY <3>1, <3>2, IdAssumption
      <3> QED BY <1>5, <3>2, <3>3
    <2> QED BY <2>1, <2>2
  <1>9. ASSUME NEW d \in Clients, pc'[d] = "calling"
        PROVE  call'[d].left \subseteq holding'[held'[d]]
    <2>1. d # c /\ pc[d] = "calling" /\ call'[d] = call[d] /\ held'[d] = held[d]
      BY <1>5, <1>9
    <2>2. held[d] \in LeaseIds /\ held[d] # l
      BY <1>3, <2>1, Locals DEF Shape, Typed, DataOK
    <2> QED BY <1>6, <2>1, <2>2 DEF HeldWhole
  <1>10. \A d \in Clients : call'[d].sweep = {} /\ pc'[d] # "sweep"
    BY <1>5 DEF HeldWhole, NoCall
  <1>11. lapsed' = {}
    BY <1>1 DEF HeldWhole
  <1> QED BY <1>7, <1>8, <1>9, <1>10, <1>11 DEF HeldWhole

\* A client asks for a lease only while it has none.
AsksEmptyHanded == \A c \in Clients : call[c].job = "grant" => held[c] = NoLease

LEMMA AsksEmptyHandedNext ==
    ASSUME Typed, AsksEmptyHanded, [Next]_vars
    PROVE  AsksEmptyHanded'
  <1>0. ASSUME KeepsGrants, held' = held PROVE AsksEmptyHanded'
    BY <1>0 DEF KeepsGrants, AsksEmptyHanded
  <1>u. ASSUME UNCHANGED <<call, held>> PROVE AsksEmptyHanded'
    BY <1>u DEF AsksEmptyHanded
  <1>1. ASSUME NEW c \in Clients,
               \/ CallBegins(c) \/ RestartOne(c) \/ RestartRaises(c) \/ KeyErrorCaught(c)
               \/ GrantLooks(c) \/ StopSignals(c) \/ StopJoins(c) \/ StopHalts(c)
               \/ StopRaises(c) \/ StopTimesOut(c) \/ DeviceReturns(c) \/ StartLive(c)
               \/ ReconfigureLive(c) \/ StopLive(c) \/ RenewChecks(c) \/ CallChecks(c)
               \/ PeekChecks(c) \/ Answered(c)
        PROVE  AsksEmptyHanded'
    BY <1>0, <1>1, QuietKeepsGrants
  <1>2. ASSUME NEW c \in Clients, SweepOne(c) PROVE AsksEmptyHanded'
    <2>1. PICK l \in call[c].sweep : call' = [call EXCEPT ![c] =
            [NoCall EXCEPT !.job = "sweep", !.sweep = call[c].sweep \ {l},
                           !.left = ToRestart(l)]]
      BY <1>2 DEF SweepOne
    <2>2. [NoCall EXCEPT !.job = "sweep", !.sweep = call[c].sweep \ {l},
                         !.left = ToRestart(l)].job # "grant"
      BY DEF NoCall
    <2>3. KeepsGrants
      BY <2>1, <2>2, OneKeepsGrants
    <2> QED BY <1>0, <1>2, <2>3 DEF SweepOne
  <1>3. ASSUME NEW c \in Clients, Release(c) PROVE AsksEmptyHanded'
    <2>1. \/ call' = [call EXCEPT ![c] = NoCall]
          \/ call' = [call EXCEPT ![c] =
                        [NoCall EXCEPT !.job = "release", !.left = ToRestart(held[c])]]
      BY <1>3 DEF Release
    <2>2. [NoCall EXCEPT !.job = "release", !.left = ToRestart(held[c])].job # "grant"
      BY DEF NoCall
    <2>3. KeepsGrants
      BY <2>1, <2>2, OneKeepsGrants, ReturnKeepsGrants
    <2>4. \A d \in Clients : held'[d] = held[d] \/ held'[d] = NoLease
      BY <1>3 DEF Release, Typed, DataOK
    <2> QED BY <2>3, <2>4 DEF KeepsGrants, AsksEmptyHanded
  <1>4. ASSUME NEW c \in Clients, GrantClaims(c) PROVE AsksEmptyHanded'
    BY <1>4 DEF GrantClaims, RefusedByClaim, AsksEmptyHanded, Typed, ClientsOK
  <1>5. ASSUME NEW c \in Clients, GrantDone(c) PROVE AsksEmptyHanded'
    <2>1. /\ call' = [call EXCEPT ![c] = NoCall]
          /\ held' = [held EXCEPT ![c] = call[c].lease]
      BY <1>5 DEF GrantDone, Return
    <2>2. call'[c].job # "grant"
          /\ \A d \in Clients : d # c => call'[d] = call[d] /\ held'[d] = held[d]
      BY <2>1 DEF NoCall, Typed, ClientsOK, DataOK
    <2> QED BY <2>2 DEF AsksEmptyHanded
  <1>6. ASSUME NEW c \in Clients, GrantRefused(c) \/ RenewWrites(c) PROVE AsksEmptyHanded'
    BY <1>0, <1>6, ReturnKeepsGrants DEF GrantRefused, RenewWrites, Return
  <1>7. CASE (\E l \in LoopIds : Loop(l)) \/ (\E l \in LeaseIds : Lapse(l)) \/ UNCHANGED vars
    BY <1>u, <1>7 DEF Loop, PassEnds, GrabRaises, Lapse, vars
  <1> QED
    BY <1>1, <1>2, <1>3, <1>4, <1>5, <1>6, <1>7 DEF Next, Client, Body, Proceeds

Exclusive == HeldWhole /\ AsksEmptyHanded

LEMMA ExclusiveNext ==
    ASSUME "expire" \notin Ops, Typed, Custody, Exclusive, [Next]_vars
    PROVE  Exclusive'
  <1>0. AsksEmptyHanded'
    BY AsksEmptyHandedNext DEF Exclusive
  <1>1. ASSUME NEW c \in Clients,
               \/ CallBegins(c) \/ RestartOne(c) \/ RestartRaises(c) \/ KeyErrorCaught(c)
               \/ GrantLooks(c) \/ StopSignals(c) \/ StopJoins(c) \/ StopHalts(c)
               \/ StopRaises(c) \/ StopTimesOut(c) \/ DeviceReturns(c) \/ StartLive(c)
               \/ ReconfigureLive(c) \/ StopLive(c) \/ RenewChecks(c) \/ CallChecks(c)
               \/ PeekChecks(c) \/ Answered(c)
        PROVE  HeldWhole'
    BY <1>1, HeldWholeQuiet DEF Exclusive
  <1>2. ASSUME NEW c \in Clients, SweepOne(c) PROVE FALSE
    BY <1>2 DEF SweepOne, Exclusive, HeldWhole
  <1>3. ASSUME NEW c \in Clients, Release(c) \/ GrantClaims(c) PROVE HeldWhole'
    BY <1>3, HeldWholeRelease, HeldWholeClaims DEF Exclusive
  <1>4. ASSUME NEW c \in Clients, GrantDone(c) PROVE HeldWhole'
    <2>1. held[c] = NoLease
      BY <1>4, Locals DEF GrantDone, Shape, Exclusive, AsksEmptyHanded
    <2> QED BY <1>4, <2>1, HeldWholeDone DEF Exclusive
  <1>5. ASSUME NEW c \in Clients, GrantRefused(c) PROVE HeldWhole'
    <2>1. /\ claims' = [t \in Targets |-> IF t \in call[c].want THEN NoLease ELSE claims[t]]
          /\ Return(c) /\ UNCHANGED <<granted, lapsed, holding, held>>
          /\ call[c].job = "grant"
      BY <1>5, Locals DEF GrantRefused, UndoClaims, Shape
    <2>2. NoCall.sweep = {}
      BY DEF NoCall
    <2>3. /\ call'[c].sweep = {} /\ pc'[c] = "idle"
          /\ \A d \in Clients : d # c => pc'[d] = pc[d] /\ call'[d] = call[d]
      BY <2>1, <2>2 DEF Return, Typed, ClientsOK
    <2>4. ASSUME NEW d \in Clients, Held(d), NEW t \in holding[held[d]]
          PROVE  claims'[t] = held[d]
      <3>1. claims[t] = held[d] /\ t \in Targets
        BY <2>4 DEF Exclusive, HeldWhole, Held, Typed, DataOK
      <3>2. t \notin call[c].want
        BY <2>1, <3>1 DEF Custody, GrantHasItsClaims
      <3> QED BY <2>1, <3>1, <3>2
    <2> QED BY <2>1, <2>3, <2>4 DEF Exclusive, HeldWhole, Held
  <1>6. ASSUME NEW c \in Clients, RenewWrites(c) PROVE HeldWhole'
    <2>1. held[c] # NoLease
      BY <1>6, Locals DEF RenewWrites, Shape
    <2>2. held[c] \in granted /\ lapsed = {}
      BY <2>1 DEF Exclusive, HeldWhole, Held
    <2> QED BY <1>6, <2>2, HeldWholeReturns DEF RenewWrites, Exclusive
  <1>7. ASSUME NEW l \in LeaseIds, Lapse(l) PROVE FALSE
    BY <1>7 DEF Lapse
  <1>8. CASE (\E l \in LoopIds : Loop(l)) \/ UNCHANGED vars
    <2>1. UNCHANGED <<claims, granted, lapsed, holding, held, call, pc>>
      BY <1>8 DEF Loop, PassEnds, GrabRaises, vars
    <2>2. HeldWhole'
      BY <2>1, HeldWholeFrame DEF Exclusive, HeldWhole
    <2> QED BY <1>0, <2>2 DEF Exclusive
  <1> QED
    BY <1>0, <1>1, <1>2, <1>3, <1>4, <1>5, <1>6, <1>7, <1>8
    DEF Exclusive, Next, Client, Body, Proceeds

LEMMA ExclusiveHolds ==
    Typed /\ Exclusive => LeaseOwnsItsClaims /\ SoleHolder
  <1> SUFFICES ASSUME Typed, Exclusive PROVE LeaseOwnsItsClaims /\ SoleHolder
    OBVIOUS
  <1>1. LeaseOwnsItsClaims
    BY IdAssumption DEF LeaseOwnsItsClaims, Exclusive, HeldWhole, Held, Typed, DataOK
  <1>2. ASSUME NEW t \in Targets PROVE Cardinality(Callers(t)) <= 1
    <2>1. ASSUME NEW c \in Callers(t), NEW d \in Callers(t) PROVE c = d
      <3>1. /\ c \in Clients /\ pc[c] = "calling" /\ t \in call[c].left
            /\ d \in Clients /\ pc[d] = "calling" /\ t \in call[d].left
        BY DEF Callers
      <3>2. held[c] # NoLease /\ held[d] # NoLease
        BY <3>1, Locals DEF Shape
      <3>3. t \in holding[held[c]] /\ t \in holding[held[d]]
        BY <3>1 DEF Exclusive, HeldWhole
      <3>4. claims[t] = held[c] /\ claims[t] = held[d]
        BY <3>1, <3>2, <3>3 DEF Exclusive, HeldWhole, Held
      <3> QED BY <3>1, <3>2, <3>4 DEF Exclusive, HeldWhole, Held
    <2>2. CASE Callers(t) = {}
      BY <2>2, FS_EmptySet
    <2>3. CASE Callers(t) # {}
      <3>1. PICK c \in Callers(t) : TRUE
        BY <2>3
      <3>2. Callers(t) = {c}
        BY <2>1, <3>1
      <3> QED BY <3>2, FS_Singleton
    <2> QED BY <2>2, <2>3
  <1> QED BY <1>1, <1>2 DEF SoleHolder

\* While no lease lapses - every holder renews in time - a lease in the table owns every
\* target it lists, and no target is called under two leases, however calls overlap.
THEOREM UnlapsedLeasesExclude ==
    ASSUME "expire" \notin Ops
    PROVE  Spec => [](LeaseOwnsItsClaims /\ SoleHolder)
  <1>1. Init => Exclusive
    BY HeldWholeInit DEF Init, Exclusive, AsksEmptyHanded
  <1>2. Typed /\ Custody /\ Exclusive /\ [Next]_vars => Exclusive'
    BY ExclusiveNext
  <1>3. Typed /\ Exclusive => LeaseOwnsItsClaims /\ SoleHolder
    BY ExclusiveHolds
  <1> QED BY <1>1, <1>2, <1>3, CustodyAlways, PTL DEF Spec

----------------------------------------------------------------------------
\* Calls that overlap: what stays true of a target on which no client has overtaken
\* another's check.

LEMMA SpeccedAlways == Spec => [](Typed /\ Custody /\ RestartsAreSpecced)
  <1>1. Init => RestartsAreSpecced
    BY RestartableInit DEF Restartable, RestartsAreSpecced
  <1>2. Typed /\ Custody /\ RestartsAreSpecced /\ [Next]_vars => RestartsAreSpecced'
    BY SpeccedNext, GrantCanRestartNext DEF RestartsAreSpecced
  <1> QED BY <1>1, <1>2, CustodyAlways, PTL DEF Spec

\* A client's step is that client's.
LEMMA OneMoves ==
    ASSUME Typed, NEW c \in Clients, Client(c)
    PROVE  \A d \in Clients \ {c} :
                pc'[d] = pc[d] /\ call'[d] = call[d] /\ held'[d] = held[d]
  <1>1. CASE CallBegins(c) \/ Release(c)
    BY <1>1 DEF CallBegins, Release, Typed, DataOK, ClientsOK
  <1>2. CASE StartLive(c) \/ ReconfigureLive(c) \/ StopLive(c) \/ GrantClaims(c)
    BY <1>2 DEF StartLive, ReconfigureLive, StopLive, GrantClaims, RefusedByClaim, Return,
       Typed, DataOK, ClientsOK
  <1>3. CASE RenewChecks(c) \/ CallChecks(c) \/ PeekChecks(c) \/ Answered(c)
    BY <1>3 DEF RenewChecks, CallChecks, PeekChecks, Answered, Return,
       Typed, DataOK, ClientsOK
  <1>4. CASE SweepOne(c) \/ RestartOne(c) \/ RestartRaises(c) \/ GrantLooks(c) \/ GrantDone(c)
    BY <1>4 DEF SweepOne, RestartOne, RestartRaises, GrantLooks, GrantDone, Return,
       Typed, DataOK, ClientsOK
  <1>5. CASE \/ StopSignals(c) \/ StopJoins(c) \/ StopHalts(c) \/ StopRaises(c)
             \/ StopTimesOut(c) \/ GrantRefused(c)
    BY <1>5 DEF StopSignals, StopJoins, StopHalts, StopRaises, StopTimesOut, GrantRefused,
       Stopped, Return, Typed, DataOK, ClientsOK
  <1>6. CASE RenewWrites(c) \/ DeviceReturns(c) \/ KeyErrorCaught(c)
    BY <1>6 DEF RenewWrites, DeviceReturns, KeyErrorCaught, Return, Typed, DataOK, ClientsOK
  <1> QED BY <1>1, <1>2, <1>3, <1>4, <1>5, <1>6 DEF Client, Body, Proceeds

\* No two clients hold one lease, and self._loops names for a target a worker that
\* drives it, if a live one; only live workers are signalled.
Apart ==
    /\ \A c, d \in Clients : c # d /\ held[c] # NoLease => held[c] # held[d]
    /\ \A t \in Targets : Running(t) => drives[current[t]] = t
    /\ \A l \in doomed : Live(l)

\* What a client's step does to the loops.
LoopsMove(c) ==
    \/ UNCHANGED loopVars
    \/ \E t \in Targets : (\E spec : StartLoop(t, spec)) \/ FailsToStart(t)
    \/ /\ \E t \in Targets : Running(t) /\ doomed' = doomed \cup {current[t]}
       /\ UNCHANGED <<current, drives, pass, powered>>
    \/ \E t \in Targets : powered' = powered \ {t} /\ UNCHANGED <<current, drives, pass, doomed>>

LEMMA ClientLoopsMove ==
    ASSUME Typed, NEW c \in Clients, Client(c)
    PROVE  LoopsMove(c)
  <1>0. /\ call[c].left # {} => /\ First(call[c].left) \in Targets
                                /\ Last(call[c].left) \in Targets
        /\ pc[c] \in {"restart", "stop", "join", "halt"} => call[c].left # {}
    BY Locals DEF Shape
  <1>1. CASE RestartOne(c)
    <2> DEFINE t == Last(call[c].left)
    <2>1. t \in Targets /\ (StartLoop(t, specs[t]) \/ FailsToStart(t) \/ UNCHANGED loopVars)
      BY <1>0, <1>1 DEF RestartOne
    <2> HIDE DEF t
    <2> QED BY <2>1 DEF LoopsMove
  <1>2. CASE StartLive(c)
    <2>1. PICK t \in Cameras \cup Scanners : RefusedByClaim(c, {t}) \/ Starts(c, t)
      BY <1>2 DEF StartLive
    <2>2. \/ (\E spec : StartLoop(t, spec)) \/ FailsToStart(t)
          \/ UNCHANGED loopVars
      BY <2>1 DEF RefusedByClaim, Starts
    <2> QED BY <2>2 DEF LoopsMove, Targets
  <1>3. CASE StopSignals(c)
    <2> DEFINE t == First(call[c].left)
    <2>1. /\ t \in Targets /\ UNCHANGED <<current, drives, pass, powered>>
          /\ \/ Running(t) /\ doomed' = doomed \cup {current[t]}
             \/ UNCHANGED doomed
      BY <1>0, <1>3 DEF StopSignals
    <2> HIDE DEF t
    <2> QED BY <2>1 DEF LoopsMove, loopVars
  <1>4. CASE StopHalts(c)
    <2> DEFINE t == First(call[c].left)
    <2>1. t \in Targets /\ powered' = powered \ {t} /\ UNCHANGED <<current, drives, pass, doomed>>
      BY <1>0, <1>4 DEF StopHalts
    <2> HIDE DEF t
    <2> QED BY <2>1 DEF LoopsMove
  <1>5. CASE \/ CallBegins(c) \/ Release(c) \/ ReconfigureLive(c) \/ StopLive(c)
             \/ GrantClaims(c) \/ RenewChecks(c) \/ CallChecks(c) \/ PeekChecks(c)
             \/ Answered(c)
    BY <1>5 DEF CallBegins, Release, ReconfigureLive, StopLive, GrantClaims, RenewChecks,
       CallChecks, PeekChecks, Answered, RefusedByClaim, LoopsMove
  <1>6. CASE \/ SweepOne(c) \/ RestartRaises(c) \/ GrantLooks(c) \/ GrantDone(c)
             \/ GrantRefused(c) \/ StopJoins(c) \/ StopRaises(c) \/ StopTimesOut(c)
             \/ RenewWrites(c) \/ DeviceReturns(c) \/ KeyErrorCaught(c)
    BY <1>6 DEF SweepOne, RestartRaises, GrantLooks, GrantDone, GrantRefused, StopJoins,
       StopRaises, StopTimesOut, RenewWrites, DeviceReturns, KeyErrorCaught, LoopsMove
  <1> QED BY <1>1, <1>2, <1>3, <1>4, <1>5, <1>6 DEF Client, Body, Proceeds

\* A new worker is the one its target names, and nobody has signalled it.
LEMMA StartLoopApart ==
    ASSUME Typed, Apart, NEW t \in Targets, NEW spec, StartLoop(t, spec)
    PROVE  /\ Running(t)' /\ current'[t] \notin doomed'
           /\ t \in Cameras => t \in powered'
           /\ \A l \in LoopIds : drives'[l] = t => drives[l] = t \/ current'[t] = l
           /\ \A u \in Targets \ {t} : /\ (Running(u)' <=> Running(u))
                                       /\ current'[u] = current[u]
                                       /\ u \in powered => u \in powered'
                                       /\ \A l \in LoopIds : drives'[l] = u => drives[l] = u
           /\ \A u \in Targets : Running(u)' => drives'[current'[u]] = u
           /\ \A l \in doomed' : Live(l)'
           /\ UNCHANGED doomed
  <1>1. PICK l \in NewLoops : /\ current' = [current EXCEPT ![t] = l]
                              /\ drives' = [drives EXCEPT ![l] = t]
                              /\ powered' = powered \cup ({t} \cap Cameras)
                              /\ UNCHANGED doomed
    BY DEF StartLoop
  <1>2. l \in LoopIds /\ drives[l] = NoTarget /\ (\A u \in Targets : current[u] # l)
        /\ l # NoLoop /\ t # NoTarget
    BY IdAssumption, TargetAssumption DEF NewLoops
  <1>3. current'[t] = l /\ drives'[l] = t
        /\ (\A u \in Targets \ {t} : current'[u] = current[u])
        /\ (\A m \in LoopIds \ {l} : drives'[m] = drives[m])
    BY <1>1, <1>2 DEF Typed, DataOK
  <1>4. Running(t)'
    BY <1>2, <1>3 DEF Running, Live
  <1>5. \A u \in Targets \ {t} : Running(u)' <=> Running(u)
    BY <1>2, <1>3 DEF Running, Live, Typed, DataOK
  <1>6. l \notin doomed
    BY <1>2 DEF Apart, Live
  <1>7. ASSUME NEW u \in Targets, Running(u)' PROVE drives'[current'[u]] = u
    BY <1>2, <1>3, <1>5, <1>7 DEF Apart, Typed, DataOK, Running, Live
  <1>8. \A m \in doomed' : Live(m)'
    BY <1>1, <1>3, <1>6 DEF Apart, Live, Typed, DataOK
  <1>9. \A u \in Targets \ {t}, m \in LoopIds : drives'[m] = u => drives[m] = u
    BY <1>3
  <1>10. \A m \in LoopIds : drives'[m] = t => drives[m] = t \/ current'[t] = m
    BY <1>3
  <1> QED BY <1>1, <1>3, <1>4, <1>5, <1>6, <1>7, <1>8, <1>9, <1>10

\* A worker's step ends it at most.
LEMMA WorkerEnds ==
    ASSUME Typed, NEW l \in LoopIds, Loop(l)
    PROVE  /\ UNCHANGED <<current, powered, pc, call, held, claims, granted, holding,
                          restarts, specs, raced>>
           /\ wanted' \subseteq wanted
           /\ \/ drives' = [drives EXCEPT ![l] = NoTarget] /\ doomed' = doomed \ {l}
              \/ UNCHANGED <<drives, doomed>>
           /\ \A m \in LoopIds : Live(m)' => Live(m)
           /\ \A m \in LoopIds, t \in Targets : drives'[m] = t => drives[m] = t
           /\ \A t \in Targets : Running(t)' => Running(t)
  <1>1. UNCHANGED <<current, powered, pc, call, held, claims, granted, holding,
                    restarts, specs, raced>> /\ wanted' \subseteq wanted
    BY DEF Loop, PassEnds, GrabRaises
  <1>2. \/ drives' = [drives EXCEPT ![l] = NoTarget] /\ doomed' = doomed \ {l}
        \/ UNCHANGED <<drives, doomed>>
    BY DEF Loop, PassEnds, GrabRaises, Die
  <1>3. \A m \in LoopIds : Live(m)' => Live(m)
    BY <1>2 DEF Live, Typed, DataOK
  <1>4. \A m \in LoopIds, t \in Targets : drives'[m] = t => drives[m] = t
    BY <1>2, TargetAssumption DEF Typed, DataOK
  <1>5. \A t \in Targets : Running(t)' => Running(t)
    BY <1>1, <1>3 DEF Running, Live, Typed, DataOK
  <1> QED BY <1>1, <1>2, <1>3, <1>4, <1>5

LEMMA ApartNext == Typed /\ Custody /\ Apart /\ [Next]_vars => Apart'
  <1> SUFFICES ASSUME Typed, Custody, Apart, [Next]_vars PROVE Apart'
    OBVIOUS
  <1> DEFINE Names == (\A t \in Targets : Running(t) => drives[current[t]] = t)
                      /\ \A l \in doomed : Live(l)
             Holds == \A c, d \in Clients : c # d /\ held[c] # NoLease => held[c] # held[d]
  <1>1. ASSUME NEW c \in Clients, LoopsMove(c) PROVE Names'
    <2>1. CASE UNCHANGED loopVars
      BY <2>1 DEF Apart, loopVars, Running, Live
    <2>2. ASSUME NEW t \in Targets, NEW spec, StartLoop(t, spec) PROVE Names'
      BY <2>2, StartLoopApart
    <2>3. ASSUME NEW t \in Targets, FailsToStart(t) PROVE Names'
      BY <2>3 DEF FailsToStart, loopVars, Apart, Running, Live, Typed, DataOK
    <2>4. ASSUME NEW t \in Targets, Running(t), doomed' = doomed \cup {current[t]},
                 UNCHANGED <<current, drives>>
          PROVE  Names'
      BY <2>4 DEF Apart, Running, Live
    <2>5. CASE UNCHANGED <<current, drives, doomed>>
      BY <2>5 DEF Apart, Running, Live
    <2> QED BY <1>1, <2>1, <2>2, <2>3, <2>4, <2>5 DEF LoopsMove
  <1>2. ASSUME NEW c \in Clients, Client(c) PROVE Holds'
    <2>1. CASE GrantDone(c)
      <3>1. /\ call[c].job = "grant" /\ call[c].lease \in LeaseIds
            /\ held' = [held EXCEPT ![c] = call[c].lease]
        BY <2>1, Locals DEF GrantDone, Shape
      <3>2. \A d \in Clients : held[d] # call[c].lease
        BY <3>1 DEF Custody, GrantHasItsClaims
      <3> QED BY <3>1, <3>2, IdAssumption DEF Apart, Typed, DataOK
    <2>2. CASE ~GrantDone(c)
      <3>1. UNCHANGED held \/ held' = [held EXCEPT ![c] = NoLease]
        <4>1. CASE \/ CallBegins(c) \/ Release(c) \/ ReconfigureLive(c) \/ StopLive(c)
                   \/ StartLive(c) \/ GrantClaims(c) \/ RenewChecks(c) \/ CallChecks(c)
                   \/ PeekChecks(c) \/ Answered(c)
          BY <4>1 DEF CallBegins, Release, ReconfigureLive, StopLive, StartLive, GrantClaims,
             RenewChecks, CallChecks, PeekChecks, Answered, RefusedByClaim
        <4>2. CASE Proceeds(c)
          BY <2>2, <4>2 DEF Proceeds, SweepOne, RestartOne, RestartRaises, GrantLooks,
             GrantRefused, StopSignals, StopJoins, StopHalts, StopRaises, StopTimesOut,
             RenewWrites, DeviceReturns, KeyErrorCaught
        <4> QED BY <1>2, <4>1, <4>2 DEF Client, Body
      <3> QED BY <3>1 DEF Apart, Typed, DataOK
    <2> QED BY <2>1, <2>2
  <1>3. ASSUME NEW l \in LoopIds, Loop(l) PROVE Names' /\ Holds'
    <2>1. \A m \in doomed' : Live(m)'
      BY <1>3, WorkerEnds DEF Apart, Live, Typed, DataOK
    <2>2. ASSUME NEW t \in Targets, Running(t)' PROVE drives'[current'[t]] = t
      BY <1>3, <2>2, WorkerEnds DEF Apart, Running, Live, Typed, DataOK
    <2> QED BY <1>3, <2>1, <2>2, WorkerEnds DEF Apart
  <1>4. CASE (\E l \in LeaseIds : Lapse(l)) \/ UNCHANGED vars
    BY <1>4 DEF Lapse, vars, loopVars, Apart, Running, Live
  <1> QED BY <1>1, <1>2, <1>3, <1>4, ClientLoopsMove DEF Next, Apart

LEMMA ApartAlways == Spec => [](Typed /\ Custody /\ RestartsAreSpecced /\ Apart)
  <1>1. Init => Apart
    BY DEF Init, Apart, Running, Live
  <1> QED BY <1>1, ApartNext, SpeccedAlways, PTL DEF Spec

----------------------------------------------------------------------------
\* What a client inside a call knows of a target: a leased device call holds its lease;
\* and a target of a grant that runs is one it has yet to stop, or waits for.
Knows(c, t) ==
    /\ (pc[c] = "calling" /\ t \in call[c].left) =>
            held[c] \in granted /\ t \in holding[held[c]]
    /\ (/\ call[c].job = "grant" /\ pc[c] \in {"grant", "stop", "join", "halt"}
        /\ t \in call[c].want /\ Running(t)) =>
            /\ t \in call[c].left
            /\ t = First(call[c].left) =>
                pc[c] # "halt" /\ (pc[c] = "join" => call[c].loop = current[t])

\* One worker at most drives the target, a camera that runs is powered, and a lease in
\* the table that lists the target has it, dark.
Tidy(t) ==
    /\ \A l \in LoopIds : drives[l] = t => current[t] = l
    /\ t \in Cameras /\ Running(t) => t \in powered
    /\ \A l \in granted : t \in holding[l] => claims[t] = l /\ ~Running(t)
    /\ \A c \in Clients : Knows(c, t)

Unraced == \A t \in Targets \ raced : Tidy(t)

\* One client's step, taken apart.
LEMMA TidyMoves ==
    ASSUME Typed, NEW t \in Targets, Tidy(t), NEW c \in Clients,
           \A d \in Clients \ {c} : pc'[d] = pc[d] /\ call'[d] = call[d] /\ held'[d] = held[d],
           \A l \in LoopIds : drives'[l] = t => current'[t] = l,
           t \in Cameras /\ Running(t)' => t \in powered',
           \A l \in granted' : t \in holding'[l] => claims'[t] = l /\ ~Running(t)',
           \A d \in Clients \ {c} : (pc[d] = "calling" /\ t \in call[d].left) =>
                held[d] \in granted' /\ holding'[held[d]] = holding[held[d]],
           \A d \in Clients \ {c} : (call[d].job = "grant" /\ t \in call[d].want) =>
                (Running(t)' => Running(t) /\ current'[t] = current[t]),
           Knows(c, t)'
    PROVE  Tidy(t)'
  <1>1. ASSUME NEW d \in Clients, d # c PROVE Knows(d, t)'
    <2>1. Knows(d, t) /\ pc'[d] = pc[d] /\ call'[d] = call[d] /\ held'[d] = held[d]
      BY <1>1 DEF Tidy
    <2> QED BY <1>1, <2>1 DEF Knows
  <1> QED BY <1>1 DEF Tidy

\* A step that leaves the loops and the table alone.
LEMMA TidyStands ==
    ASSUME Typed, NEW t \in Targets, Tidy(t), NEW c \in Clients, Client(c),
           UNCHANGED <<claims, granted, holding, current, drives>>,
           t \in Cameras /\ Running(t) => (t \in powered => t \in powered'),
           Knows(c, t)'
    PROVE  Tidy(t)'
  <1>1. Running(t)' <=> Running(t)
    BY DEF Running, Live
  <1>2. \A d \in Clients : (pc[d] = "calling" /\ t \in call[d].left) => held[d] \in granted
    BY DEF Tidy, Knows
  <1> QED BY <1>1, <1>2, OneMoves, TidyMoves DEF Tidy

\* At most points a call knows nothing.
LEMMA KnowsNothing ==
    ASSUME NEW c \in Clients, NEW t, pc'[c] # "calling" \/ t \notin call'[c].left,
           \/ call'[c].job # "grant" \/ t \notin call'[c].want
           \/ pc'[c] \in {"restart", "undo", "idle"}
    PROVE  Knows(c, t)'
  BY DEF Knows

LEMMA ReturnKnows ==
    ASSUME Typed, NEW c \in Clients, NEW t, call'[c] = NoCall
    PROVE  Knows(c, t)'
  <1>1. NoCall.left = {} /\ NoCall.job = "none"
    BY DEF NoCall
  <1> QED BY <1>1, KnowsNothing

\* Calls that refuse, answer or break off.
LEMMA TidyEnds ==
    ASSUME Typed, NEW t \in Targets, Tidy(t), NEW c \in Clients, Client(c),
           \/ RestartRaises(c) \/ KeyErrorCaught(c) \/ StopRaises(c) \/ DeviceReturns(c)
           \/ Answered(c) \/ ReconfigureLive(c) \/ (\E ts : RefusedByClaim(c, ts))
    PROVE  Tidy(t)'
  <1>1. UNCHANGED <<claims, granted, holding, loopVars>>
    BY DEF RestartRaises, KeyErrorCaught, StopRaises, DeviceReturns, Answered,
       ReconfigureLive, RefusedByClaim, tableVars
  <1>2. call'[c] = NoCall
    BY DEF RestartRaises, KeyErrorCaught, StopRaises, DeviceReturns, Answered,
       ReconfigureLive, RefusedByClaim, Return, Typed, ClientsOK
  <1> QED BY <1>1, <1>2, ReturnKnows, TidyStands DEF loopVars

\* Calls that begin, or go on to what they were made for.
LEMMA TidyBegins ==
    ASSUME Typed, NEW t \in Targets, Tidy(t), NEW c \in Clients, Client(c),
           \/ CallBegins(c) \/ StopLive(c) \/ RenewChecks(c) \/ CallChecks(c) \/ PeekChecks(c)
    PROVE  Tidy(t)'
  <1>1. CASE CallBegins(c)
    <2>1. call'[c] = [NoCall EXCEPT !.job = "sweep", !.sweep = granted \cap lapsed]
          /\ pc'[c] \in {"swept", "sweep"}
          /\ UNCHANGED <<claims, granted, holding, loopVars>>
      BY <1>1 DEF CallBegins, tableVars, Typed, ClientsOK
    <2>2. call'[c].job = "sweep"
      BY <2>1 DEF NoCall
    <2> QED BY <2>1, <2>2, KnowsNothing, TidyStands DEF loopVars
  <1>2. CASE StopLive(c)
    <2>1. PICK u \in Cameras \cup Scanners :
            \/ RefusedByClaim(c, {u})
            \/ /\ pc' = [pc EXCEPT ![c] = "stop"]
               /\ call' = [call EXCEPT ![c] = [NoCall EXCEPT !.job = "live", !.left = {u}]]
               /\ UNCHANGED <<tableVars, loopVars>>
      BY <1>2 DEF StopLive
    <2>2. CASE RefusedByClaim(c, {u})
      BY <2>2, TidyEnds
    <2>3. CASE ~RefusedByClaim(c, {u})
      <3>1. pc'[c] = "stop" /\ call'[c] = [NoCall EXCEPT !.job = "live", !.left = {u}]
            /\ UNCHANGED <<claims, granted, holding, loopVars>>
        BY <2>1, <2>3 DEF Typed, ClientsOK, tableVars
      <3>2. call'[c].job = "live"
        BY <3>1 DEF NoCall
      <3> QED BY <3>1, <3>2, KnowsNothing, TidyStands DEF loopVars
    <2> QED BY <2>2, <2>3
  <1>3. CASE RenewChecks(c) \/ CallChecks(c) \/ PeekChecks(c)
    <2>0. pc[c] = "swept" /\ call[c] \in Calls /\ call[c].job # "grant"
      BY <1>3, Locals DEF RenewChecks, CallChecks, PeekChecks, Shape
    <2>1. UNCHANGED <<claims, granted, holding, loopVars, held>>
      BY <1>3 DEF RenewChecks, CallChecks, PeekChecks, tableVars
    <2>2. CASE RenewChecks(c)
      <3>1. pc'[c] = "renew" /\ call'[c] = call[c]
        BY <2>2 DEF RenewChecks, Typed, ClientsOK
      <3> QED BY <2>0, <2>1, <3>1, KnowsNothing, TidyStands DEF loopVars
    <2>3. CASE CallChecks(c)
      <3>1. PICK u \in holding[held[c]] :
              call' = [call EXCEPT ![c] = [@ EXCEPT !.left = {u}]]
        BY <2>3 DEF CallChecks
      <3>2. pc'[c] = "calling" /\ call'[c] = [call[c] EXCEPT !.left = {u}]
            /\ held[c] \in granted
        BY <2>3, <3>1 DEF CallChecks, LeaseStands, Typed, ClientsOK
      <3>3. call'[c].left = {u} /\ call'[c].job # "grant"
        BY <2>0, <3>2 DEF Calls
      <3>4. Knows(c, t)'
        BY <2>1, <3>1, <3>2, <3>3 DEF Knows
      <3> QED BY <2>1, <3>4, TidyStands DEF loopVars
    <2>4. CASE PeekChecks(c)
      <3>1. PICK u : call' = [call EXCEPT ![c] = [@ EXCEPT !.left = {u}]]
        BY <2>4 DEF PeekChecks
      <3>2. pc'[c] = "peeking" /\ call'[c] = [call[c] EXCEPT !.left = {u}]
        BY <2>4, <3>1 DEF PeekChecks, Typed, ClientsOK
      <3>3. call'[c].job # "grant"
        BY <2>0, <3>2 DEF Calls
      <3> QED BY <2>1, <3>2, <3>3, KnowsNothing, TidyStands DEF loopVars
    <2> QED BY <1>3, <2>2, <2>3, <2>4
  <1> QED BY <1>1, <1>2, <1>3

\* A lease is dropped by its holder, who is in no other call, or from under one - and
\* then the target of that call is raced.
LEMMA TidyDrops ==
    ASSUME Typed, NEW t \in Targets, Tidy(t), NEW c \in Clients, Client(c), NEW l \in LeaseIds,
           IF l \in granted THEN DropLease(l) ELSE UNCHANGED <<granted, lapsed, claims>>,
           UNCHANGED <<holding, loopVars>>,
           \A d \in Clients \ {c} : ~ (/\ l \in granted /\ held[d] = l /\ t \in holding[l]
                                       /\ pc[d] = "calling" /\ t \in call[d].left),
           pc'[c] # "calling", call'[c].job # "grant"
    PROVE  Tidy(t)'
  <1>1. Running(t)' <=> Running(t)
    BY DEF Running, Live, loopVars
  <1>2. granted' = granted \ {l}
    BY DEF DropLease
  <1>3. ASSUME NEW m \in granted', t \in holding[m] PROVE claims'[t] = m
    <2>1. m \in granted /\ m # l /\ claims[t] = m
      BY <1>2, <1>3 DEF Tidy
    <2> QED BY <2>1 DEF DropLease
  <1>4. \A d \in Clients \ {c} : (pc[d] = "calling" /\ t \in call[d].left) =>
            held[d] \in granted'
    BY <1>2 DEF Tidy, Knows
  <1>5. Knows(c, t)'
    BY KnowsNothing
  <1>6. \A d \in Clients \ {c} : pc'[d] = pc[d] /\ call'[d] = call[d] /\ held'[d] = held[d]
    BY OneMoves
  <1>7. UNCHANGED <<current, drives, powered, holding>>
    BY DEF loopVars
  <1>8. \A m \in granted' : t \in holding'[m] => claims'[t] = m /\ ~Running(t)'
    BY <1>1, <1>2, <1>3, <1>7 DEF Tidy
  <1>9. /\ \A m \in LoopIds : drives'[m] = t => current'[t] = m
        /\ t \in Cameras /\ Running(t)' => t \in powered'
    BY <1>1, <1>7 DEF Tidy
  <1> QED BY <1>1, <1>4, <1>5, <1>6, <1>7, <1>8, <1>9, TidyMoves

LEMMA TidySweeps ==
    ASSUME Typed, Apart, NEW t \in Targets \ raced', Tidy(t), NEW c \in Clients, Client(c),
           SweepOne(c) \/ Release(c)
    PROVE  Tidy(t)'
  <1>1. CASE SweepOne(c)
    <2>1. PICK l \in call[c].sweep :
            /\ IF l \in granted THEN DropLease(l) ELSE UNCHANGED <<granted, lapsed, claims>>
            /\ call' = [call EXCEPT ![c] =
                          [NoCall EXCEPT !.job = "sweep", !.sweep = call[c].sweep \ {l},
                                         !.left = ToRestart(l)]]
            /\ pc' = [pc EXCEPT ![c] = IF ToRestart(l) = {}
                                        THEN AfterSweep(call[c].sweep \ {l}) ELSE "restart"]
            /\ raced' = raced \cup (IF l \in granted THEN CalledUnder(l) ELSE {})
      BY <1>1 DEF SweepOne
    <2>2. l \in LeaseIds
      BY Locals
    <2>3. /\ call'[c] = [NoCall EXCEPT !.job = "sweep", !.sweep = call[c].sweep \ {l},
                                       !.left = ToRestart(l)]
          /\ pc'[c] \in {"swept", "sweep", "restart"}
      BY <2>1 DEF AfterSweep, Typed, ClientsOK
    <2>4. call'[c].job = "sweep"
      BY <2>3 DEF NoCall
    <2>5. l \in granted => t \notin CalledUnder(l)
      BY <2>1
    <2>6. UNCHANGED <<holding, loopVars>>
      BY <1>1 DEF SweepOne
    <2> QED BY <2>1, <2>2, <2>3, <2>4, <2>5, <2>6, TidyDrops DEF CalledUnder
  <1>2. CASE Release(c)
    <2> DEFINE l == held[c]
    <2>1. /\ l \in LeaseIds /\ l # NoLease /\ UNCHANGED <<holding, loopVars>>
          /\ IF l \in granted THEN DropLease(l) ELSE UNCHANGED <<granted, lapsed, claims>>
      BY <1>2 DEF Release, Typed, DataOK
    <2>2. \A d \in Clients \ {c} : held[d] # l
      BY <2>1 DEF Apart
    <2>3. \/ call'[c] = NoCall /\ pc'[c] = "idle"
          \/ /\ call'[c] = [NoCall EXCEPT !.job = "release", !.left = ToRestart(l)]
             /\ pc'[c] = "restart"
      BY <1>2 DEF Release, Typed, ClientsOK
    <2>4. pc'[c] # "calling" /\ call'[c].job # "grant"
      <3>1. NoCall.job = "none" /\ [NoCall EXCEPT !.job = "release",
                                                 !.left = ToRestart(l)].job = "release"
        BY DEF NoCall
      <3> HIDE DEF l
      <3> QED BY <2>3, <3>1
    <2>5. \A d \in Clients \ {c} : ~ (/\ l \in granted /\ held[d] = l /\ t \in holding[l]
                                      /\ pc[d] = "calling" /\ t \in call[d].left)
      BY <2>2
    <2>6. t \in Targets
      OBVIOUS
    <2> HIDE DEF l
    <2> QED BY <2>1, <2>4, <2>5, <2>6, TidyDrops
  <1> QED BY <1>1, <1>2

\* A renewal that finds its lease gone races all of its targets.
LEMMA TidyRenews ==
    ASSUME Typed, NEW t \in Targets \ raced', Tidy(t), NEW c \in Clients, Client(c),
           RenewWrites(c)
    PROVE  Tidy(t)'
  <1>1. UNCHANGED <<claims, holding, loopVars>> /\ call'[c] = NoCall /\ held[c] \in LeaseIds
        /\ granted' = granted \cup {held[c]}
    BY Locals DEF RenewWrites, Return, Typed, ClientsOK, DataOK, Shape
  <1>2. held[c] \in granted \/ t \notin holding[held[c]]
    BY DEF RenewWrites, LeaseStands
  <1>3. Running(t)' <=> Running(t)
    BY <1>1 DEF Running, Live, loopVars
  <1>4. \A l \in granted' : t \in holding[l] => claims[t] = l /\ ~Running(t)
    BY <1>1, <1>2 DEF Tidy
  <1>5. \A d \in Clients : (pc[d] = "calling" /\ t \in call[d].left) => held[d] \in granted
    BY DEF Tidy, Knows
  <1>6. Knows(c, t)'
    BY <1>1, ReturnKnows
  <1> QED BY <1>1, <1>3, <1>4, <1>5, <1>6, OneMoves, TidyMoves DEF Tidy, loopVars

----------------------------------------------------------------------------
\* Grants and stops.

LEMMA TidyClaims ==
    ASSUME Typed, NEW t \in Targets, Tidy(t), NEW c \in Clients, Client(c), GrantClaims(c)
    PROVE  Tidy(t)'
  <1>1. PICK ts \in (SUBSET Targets) \ {{}} :
          \/ RefusedByClaim(c, ts)
          \/ \E l \in NewLeases :
              /\ ClaimAll(ts, l)
              /\ pc' = [pc EXCEPT ![c] = "grant"]
              /\ call' = [call EXCEPT ![c] = [NoCall EXCEPT !.job = "grant", !.left = ts,
                                                !.want = ts, !.lease = l]]
              /\ UNCHANGED <<granted, holding, loopVars, held>>
    BY DEF GrantClaims
  <1>2. CASE RefusedByClaim(c, ts)
    BY <1>2, TidyEnds
  <1>3. CASE ~RefusedByClaim(c, ts)
    <2>1. PICK l \in NewLeases :
              /\ ClaimAll(ts, l)
              /\ pc' = [pc EXCEPT ![c] = "grant"]
              /\ call' = [call EXCEPT ![c] = [NoCall EXCEPT !.job = "grant", !.left = ts,
                                                !.want = ts, !.lease = l]]
              /\ UNCHANGED <<granted, holding, loopVars, held>>
      BY <1>1, <1>3
    <2>2. pc'[c] = "grant" /\ call'[c] = [NoCall EXCEPT !.job = "grant", !.left = ts,
                                                        !.want = ts, !.lease = l]
      BY <2>1 DEF Typed, ClientsOK
    <2>3. call'[c].left = ts /\ call'[c].want = ts
      BY <2>2 DEF NoCall
    <2>4. Knows(c, t)'
      BY <2>2, <2>3 DEF Knows
    <2>5. Running(t)' <=> Running(t)
      BY <2>1 DEF Running, Live, loopVars
    <2>6. \A l2 \in granted' : t \in holding'[l2] => claims'[t] = l2 /\ ~Running(t)'
      <3>1. \A l2 \in granted : l2 # NoLease
        BY IdAssumption DEF Typed, DataOK
      <3> QED BY <2>1, <2>5, <3>1 DEF Tidy, ClaimAll, Unclaimed
    <2>7. \A d \in Clients : (pc[d] = "calling" /\ t \in call[d].left) => held[d] \in granted
      BY DEF Tidy, Knows
    <2> QED BY <2>1, <2>4, <2>5, <2>6, <2>7, OneMoves, TidyMoves DEF Tidy, loopVars
  <1> QED BY <1>2, <1>3

LEMMA TidyLooks ==
    ASSUME Typed, RestartsAreSpecced, NEW t \in Targets, Tidy(t), NEW c \in Clients, Client(c),
           GrantLooks(c)
    PROVE  Tidy(t)'
  <1> DEFINE u == First(call[c].left)
  <1>1. pc[c] = "grant" /\ call[c] \in Calls /\ call[c].job = "grant" /\ u \in call[c].left
    BY Locals DEF GrantLooks, Shape
  <1>2. UNCHANGED <<claims, granted, holding, loopVars, held>>
    BY DEF GrantLooks, tableVars
  <1>3. Knows(c, t) /\ (Running(t)' <=> Running(t))
    BY <1>2 DEF Tidy, Running, Live, loopVars
  <1>4. CASE Running(u)
    <2>1. pc'[c] = "stop" /\ call'[c] = call[c]
      BY <1>4 DEF GrantLooks, Typed, ClientsOK
    <2>2. Knows(c, t)'
      BY <1>1, <1>3, <2>1 DEF Knows
    <2> QED BY <1>2, <2>2, TidyStands DEF loopVars
  <1>5. CASE ~Running(u)
    <2>1. pc'[c] = "grant" /\ call'[c] = [call[c] EXCEPT !.left = call[c].left \ {u}]
      BY <1>5 DEF GrantLooks, Typed, ClientsOK
    <2>2. /\ call'[c].left = call[c].left \ {u} /\ call'[c].want = call[c].want
      BY <1>1, <2>1 DEF Calls
    <2> HIDE DEF u
    <2>3. Knows(c, t)'
      BY <1>1, <1>3, <1>5, <2>1, <2>2 DEF Knows
    <2> QED BY <1>2, <2>3, TidyStands DEF loopVars
  <1> QED BY <1>4, <1>5

\* The lease goes into the table with every one of its targets dark.
LEMMA TidyGrants ==
    ASSUME Typed, Custody, NEW t \in Targets, Tidy(t), NEW c \in Clients, Client(c),
           GrantDone(c)
    PROVE  Tidy(t)'
  <1> DEFINE l == call[c].lease
  <1>1. pc[c] = "grant" /\ call[c].job = "grant" /\ call[c].left = {}
        /\ l \in LeaseIds /\ call[c].want \subseteq Targets
    BY Locals DEF GrantDone, Shape
  <1>2. /\ granted' = granted \cup {l} /\ holding' = [holding EXCEPT ![l] = call[c].want]
        /\ UNCHANGED <<claims, loopVars>> /\ call'[c] = NoCall
    BY DEF GrantDone, Return, Typed, ClientsOK
  <1>3. Running(t)' <=> Running(t)
    BY <1>2 DEF Running, Live, loopVars
  <1>4. t \in call[c].want => claims[t] = l /\ ~Running(t)
    BY <1>1 DEF Custody, GrantHasItsClaims, Tidy, Knows
  <1>5. l \notin granted /\ \A d \in Clients : held[d] # l
    BY <1>1 DEF Custody, GrantHasItsClaims
  <1> HIDE DEF l
  <1>6. holding'[l] = call[c].want /\ \A m \in LeaseIds \ {l} : holding'[m] = holding[m]
    BY <1>1, <1>2 DEF Typed, DataOK
  <1>7. ASSUME NEW m \in granted', t \in holding'[m] PROVE claims'[t] = m /\ ~Running(t)'
    <2>1. CASE m = l
      BY <1>2, <1>3, <1>4, <1>6, <1>7, <2>1
    <2>2. CASE m # l
      <3>1. m \in granted /\ t \in holding[m]
        BY <1>2, <1>6, <1>7, <2>2 DEF Typed, DataOK
      <3> QED BY <1>2, <1>3, <3>1 DEF Tidy
    <2> QED BY <2>1, <2>2
  <1>8. \A d \in Clients \ {c} : (pc[d] = "calling" /\ t \in call[d].left) =>
            held[d] \in granted' /\ holding'[held[d]] = holding[held[d]]
    BY <1>2, <1>5, <1>6 DEF Tidy, Knows, Typed, DataOK
  <1>9. Knows(c, t)'
    BY <1>2, ReturnKnows
  <1>10. UNCHANGED <<current, drives, powered>>
    BY <1>2 DEF loopVars
  <1>11. \A d \in Clients \ {c} : pc'[d] = pc[d] /\ call'[d] = call[d] /\ held'[d] = held[d]
    BY OneMoves
  <1>12. /\ \A m \in LoopIds : drives'[m] = t => current'[t] = m
         /\ t \in Cameras /\ Running(t)' => t \in powered'
    BY <1>3, <1>10 DEF Tidy
  <1> QED BY <1>3, <1>7, <1>8, <1>9, <1>10, <1>11, <1>12, TidyMoves

LEMMA TidyRefuses ==
    ASSUME Typed, Custody, NEW t \in Targets, Tidy(t), NEW c \in Clients, Client(c),
           GrantRefused(c)
    PROVE  Tidy(t)'
  <1>1. call[c].job = "grant"
    BY Locals DEF GrantRefused, Shape
  <1>2. /\ UNCHANGED <<granted, holding, loopVars>> /\ UndoClaims(c) /\ call'[c] = NoCall
    BY DEF GrantRefused, Return, Typed, ClientsOK
  <1>3. Running(t)' <=> Running(t)
    BY <1>2 DEF Running, Live, loopVars
  <1>4. \A l \in granted : t \in holding[l] => claims'[t] = l /\ ~Running(t)'
    BY <1>1, <1>2, <1>3 DEF Tidy, UndoClaims, Custody, GrantHasItsClaims
  <1>5. \A d \in Clients : (pc[d] = "calling" /\ t \in call[d].left) => held[d] \in granted
    BY DEF Tidy, Knows
  <1>6. Knows(c, t)'
    BY <1>2, ReturnKnows
  <1> QED BY <1>2, <1>3, <1>4, <1>5, <1>6, OneMoves, TidyMoves DEF Tidy, loopVars

\* _stop is done, and its target does not run.
LEMMA StoppedKnows ==
    ASSUME Typed, NEW t \in Targets, Tidy(t), NEW c \in Clients,
           pc[c] \in {"stop", "join", "halt"}, Stopped(c, First(call[c].left)),
           t = First(call[c].left) /\ t \in call[c].want => ~Running(t) \/ call[c].job # "grant",
           Running(t)' <=> Running(t)
    PROVE  Knows(c, t)'
  <1> DEFINE u == First(call[c].left)
  <1>1. CASE call[c].job = "grant"
    <2> DEFINE r == [call[c] EXCEPT !.left = call[c].left \ {u},
                                    !.stopped = call[c].stopped \cup {u},
                                    !.loop = NoLoop, !.due = "short"]
    <2>1. pc'[c] = "grant" /\ call'[c] = r
      BY <1>1 DEF Stopped, Typed, ClientsOK
    <2>2. call[c] \in Calls /\ Knows(c, t)
      BY Locals DEF Tidy
    <2>3. r.left = call[c].left \ {u} /\ r.want = call[c].want
      BY <2>2 DEF Calls
    <2>4. t = u /\ t \in call[c].want => ~Running(t)
      BY <1>1
    <2> HIDE DEF r, u
    <2> QED BY <1>1, <2>1, <2>2, <2>3, <2>4 DEF Knows
  <1>2. CASE call[c].job # "grant"
    <2>1. call'[c] = NoCall
      BY <1>2 DEF Stopped, Return, Typed, ClientsOK
    <2> QED BY <2>1, ReturnKnows
  <1> QED BY <1>1, <1>2

LEMMA TidySignals ==
    ASSUME Typed, NEW t \in Targets, Tidy(t), NEW c \in Clients, Client(c), StopSignals(c)
    PROVE  Tidy(t)'
  <1> DEFINE u == First(call[c].left)
  <1>1. pc[c] = "stop" /\ call[c] \in Calls /\ Knows(c, t)
    BY Locals DEF StopSignals, Tidy
  <1>2. UNCHANGED <<claims, granted, holding, current, drives, pass, powered>>
    BY DEF StopSignals, tableVars
  <1>3. Running(t)' <=> Running(t)
    BY <1>2 DEF Running, Live
  <1>4. CASE Running(u)
    <2>1. /\ pc'[c] = "join"
          /\ call'[c] = [call[c] EXCEPT !.loop = current[u], !.due = JoinDeadline(u)]
      BY <1>4 DEF StopSignals, Typed, ClientsOK
    <2>2. /\ call'[c].loop = current[u] /\ call'[c].left = call[c].left
          /\ call'[c].want = call[c].want /\ call'[c].job = call[c].job
      BY <1>1, <2>1 DEF Calls
    <2>3. Knows(c, t)'
      BY <1>1, <1>2, <1>3, <2>1, <2>2 DEF Knows
    <2> QED BY <1>2, <2>3, TidyStands
  <1>5. CASE ~Running(u)
    <2>1. Stopped(c, u)
      BY <1>5 DEF StopSignals
    <2>2. Knows(c, t)'
      BY <1>1, <1>3, <1>5, <2>1, StoppedKnows
    <2> QED BY <1>2, <2>2, TidyStands
  <1> QED BY <1>4, <1>5

LEMMA TidyJoins ==
    ASSUME Typed, NEW t \in Targets, Tidy(t), NEW c \in Clients, Client(c), StopJoins(c)
    PROVE  Tidy(t)'
  <1> DEFINE u == First(call[c].left)
  <1>1. pc[c] = "join" /\ Knows(c, t) /\ ~Live(call[c].loop) /\ call[c].job \in {"grant", "live"}
    BY Locals DEF StopJoins, Tidy, Shape
  <1>2. UNCHANGED <<claims, granted, holding, loopVars>>
    BY DEF StopJoins, tableVars
  <1>3. Running(t)' <=> Running(t)
    BY <1>2 DEF Running, Live, loopVars
  <1>4. t = u /\ t \in call[c].want => ~Running(t) \/ call[c].job # "grant"
    BY <1>1 DEF Knows, Running
  <1>5. CASE Stopped(c, u)
    <2>1. Knows(c, t)'
      BY <1>1, <1>3, <1>4, <1>5, StoppedKnows
    <2> QED BY <1>2, <2>1, TidyStands DEF loopVars
  <1>6. CASE pc' = [pc EXCEPT ![c] = "halt"] /\ UNCHANGED call
    <2>1. pc'[c] = "halt" /\ call'[c] = call[c]
      BY <1>6 DEF Typed, ClientsOK
    <2>2. Knows(c, t)'
      BY <1>1, <1>3, <1>4, <2>1 DEF Knows
    <2> QED BY <1>2, <2>2, TidyStands DEF loopVars
  <1> QED BY <1>5, <1>6 DEF StopJoins

\* The camera is switched off.  If its loop runs again by now, the target is raced.
LEMMA TidyHalts ==
    ASSUME Typed, NEW t \in Targets \ raced', Tidy(t), NEW c \in Clients, Client(c),
           StopHalts(c)
    PROVE  Tidy(t)'
  <1> DEFINE u == First(call[c].left)
  <1>1. pc[c] = "halt" /\ Stopped(c, u) /\ powered' = powered \ {u}
        /\ UNCHANGED <<claims, granted, holding, current, drives>>
        /\ (Running(u) => u \in raced')
    BY DEF StopHalts, tableVars
  <1>2. Running(t)' <=> Running(t)
    BY <1>1 DEF Running, Live
  <1>3. t = u => ~Running(t)
    BY <1>1
  <1> HIDE DEF u
  <1>4. t \in Cameras /\ Running(t) => (t \in powered => t \in powered')
    BY <1>1, <1>3
  <1>5. Knows(c, t)'
    BY <1>1, <1>2, <1>3, StoppedKnows DEF u
  <1> QED BY <1>1, <1>4, <1>5, TidyStands

LEMMA TidyTimesOut ==
    ASSUME Typed, NEW t \in Targets, Tidy(t), NEW c \in Clients, Client(c), StopTimesOut(c)
    PROVE  Tidy(t)'
  <1>1. UNCHANGED <<claims, granted, holding, loopVars>>
    BY DEF StopTimesOut, tableVars
  <1>2. CASE call[c].job = "grant"
    <2>1. pc'[c] \in {"undo", "restart"}
      BY <1>2 DEF StopTimesOut, Typed, ClientsOK
    <2>2. Knows(c, t)'
      BY <2>1, KnowsNothing
    <2> QED BY <1>1, <2>2, TidyStands DEF loopVars
  <1>3. CASE call[c].job # "grant"
    <2>1. call'[c] = NoCall
      BY <1>3 DEF StopTimesOut, Return, Typed, ClientsOK
    <2> QED BY <1>1, <2>1, ReturnKnows, TidyStands DEF loopVars
  <1> QED BY <1>2, <1>3

----------------------------------------------------------------------------
\* The two steps that start a loop: by then the target runs no other, and no lease in
\* the table lists it.

LEMMA TidyStarts ==
    ASSUME Typed, Apart, NEW t \in Targets, Tidy(t), NEW c \in Clients, Client(c),
           NEW u \in Targets,
           (\E spec : StartLoop(u, spec)) \/ FailsToStart(u) \/ UNCHANGED loopVars,
           UNCHANGED <<claims, granted, holding>>,
           t = u => /\ ~Running(t)
                    /\ \A l \in granted : claims[t] # l
                    /\ \A d \in Clients \ {c} : call[d].job = "grant" => t \notin call[d].want,
           Knows(c, t)'
    PROVE  Tidy(t)'
  <1>1. \A d \in Clients \ {c} : pc'[d] = pc[d] /\ call'[d] = call[d] /\ held'[d] = held[d]
    BY OneMoves
  <1>2. \A d \in Clients : (pc[d] = "calling" /\ t \in call[d].left) => held[d] \in granted
    BY DEF Tidy, Knows
  <1>3. ~Running(t) => \A l \in LoopIds : drives[l] # t
    BY TargetAssumption, IdAssumption DEF Tidy, Running, Live, Targets
  <1>4. CASE UNCHANGED loopVars
    <2>1. Running(t)' <=> Running(t)
      BY <1>4 DEF Running, Live, loopVars
    <2> QED BY <1>1, <1>2, <1>4, <2>1, TidyMoves DEF Tidy, loopVars
  <1>5. ASSUME NEW spec, StartLoop(u, spec) PROVE Tidy(t)'
    <2>1. CASE t = u
      <3>1. \A l \in LoopIds : drives'[l] = t => current'[t] = l
        BY <1>3, <1>5, <2>1, StartLoopApart
      <3>2. t \in Cameras => t \in powered'
        BY <1>5, <2>1, StartLoopApart
      <3>3. \A l \in granted : t \notin holding[l]
        BY <2>1 DEF Tidy
      <3> QED BY <1>1, <1>2, <2>1, <3>1, <3>2, <3>3, TidyMoves
    <2>2. CASE t # u
      <3>1. /\ (Running(t)' <=> Running(t)) /\ current'[t] = current[t]
            /\ (t \in powered => t \in powered')
            /\ \A l \in LoopIds : drives'[l] = t => drives[l] = t
        BY <1>5, <2>2, StartLoopApart
      <3> QED BY <1>1, <1>2, <3>1, TidyMoves DEF Tidy
    <2> QED BY <2>1, <2>2
  <1>6. CASE FailsToStart(u)
    <2>1. UNCHANGED drives /\ (t \in powered => t \in powered')
      BY <1>6 DEF FailsToStart, loopVars
    <2>2. CASE t = u
      <3>1. ~Running(t)'
        BY <1>6, <2>2, FailedStartsNothing
      <3> QED BY <1>1, <1>2, <1>3, <2>1, <2>2, <3>1, TidyMoves DEF Tidy
    <2>3. CASE t # u
      <3>1. current'[t] = current[t] /\ (Running(t)' <=> Running(t))
        BY <1>6, <2>3, FailedStartsNothing
      <3> QED BY <1>1, <1>2, <2>1, <3>1, TidyMoves DEF Tidy
    <2> QED BY <2>2, <2>3
  <1> QED BY <1>4, <1>5, <1>6

LEMMA TidyRestarts ==
    ASSUME Typed, Custody, RestartsAreSpecced, Apart, NEW t \in Targets \ raced', Tidy(t),
           NEW c \in Clients, Client(c), RestartOne(c)
    PROVE  Tidy(t)'
  <1> DEFINE u == Last(call[c].left)
             rest == call[c].left \ {u}
  <1>1. /\ pc[c] = "restart" /\ call[c] \in Calls /\ call[c].left \subseteq Targets
        /\ u \in call[c].left /\ call[c].job \in {"sweep", "release", "grant"}
    BY Locals DEF RestartOne, Shape
  <1>2. /\ UNCHANGED <<claims, granted, holding>>
        /\ StartLoop(u, specs[u]) \/ FailsToStart(u) \/ UNCHANGED loopVars
        /\ IsTaken(c, u) => u \in raced'
    BY DEF RestartOne, tableVars
  <1>3. t = u => ~Running(t) /\ (call[c].job # "grant" => claims[t] = NoLease)
    BY <1>2 DEF IsTaken, Unclaimed
  <1>4. call[c].job = "grant" => call[c].left \subseteq call[c].want
    BY DEF RestartsAreSpecced, GrantCanRestart
  <1>5. t = u => /\ \A l \in granted : claims[t] # l
                 /\ \A d \in Clients \ {c} : call[d].job = "grant" => t \notin call[d].want
    <2> SUFFICES ASSUME t = u PROVE /\ \A l \in granted : claims[t] # l
                                    /\ \A d \in Clients \ {c} :
                                        call[d].job = "grant" => t \notin call[d].want
      OBVIOUS
    <2>1. CASE call[c].job # "grant"
      <3>1. claims[t] = NoLease /\ \A l \in granted : l # NoLease
        BY <1>3, <2>1, IdAssumption DEF Typed, DataOK
      <3>2. \A d \in Clients : call[d].job = "grant" => call[d].lease # NoLease
        BY Locals DEF Shape
      <3> QED BY <3>1, <3>2 DEF Custody, GrantHasItsClaims
    <2>2. CASE call[c].job = "grant"
      <3>1. t \in call[c].want
        BY <1>1, <1>4, <2>2
      <3> QED BY <2>2, <3>1 DEF Custody, GrantHasItsClaims
    <2> QED BY <2>1, <2>2
  <1>6. Knows(c, t)'
    <2>1. \/ call'[c] = NoCall
          \/ /\ call'[c] = [call[c] EXCEPT !.left = rest]
             /\ pc'[c] = "restart" \/ pc'[c] = AfterRestart(c)
      BY DEF RestartOne, Typed, ClientsOK
    <2>2. CASE call'[c] = NoCall
      BY <2>2, ReturnKnows
    <2>3. CASE /\ call'[c] = [call[c] EXCEPT !.left = rest]
               /\ pc'[c] = "restart" \/ pc'[c] = AfterRestart(c)
      <3>1. call'[c].job = call[c].job
        BY <1>1, <2>3 DEF Calls
      <3>2. /\ pc'[c] # "calling"
            /\ call[c].job = "grant" => pc'[c] \in {"restart", "undo"}
        BY <1>1, <2>3 DEF AfterRestart, AfterSweep
      <3> QED BY <3>1, <3>2, KnowsNothing
    <2> QED BY <2>1, <2>2, <2>3
  <1>7. u \in Targets
    BY <1>1
  <1> HIDE DEF u, rest
  <1> QED BY <1>2, <1>3, <1>5, <1>6, <1>7, TidyStarts

LEMMA TidyStartsLive ==
    ASSUME Typed, Custody, Apart, NEW t \in Targets, Tidy(t), NEW c \in Clients, Client(c),
           StartLive(c)
    PROVE  Tidy(t)'
  <1>1. PICK u \in Cameras \cup Scanners :
          \/ RefusedByClaim(c, {u})
          \/ Starts(c, u) /\ Return(c) /\ UNCHANGED tableVars
    BY DEF StartLive
  <1>2. CASE RefusedByClaim(c, {u})
    BY <1>2, TidyEnds
  <1>3. CASE Starts(c, u) /\ Return(c) /\ UNCHANGED tableVars
    <2>1. u \in Targets /\ claims[u] = NoLease /\ UNCHANGED <<claims, granted, holding>>
      BY <1>3 DEF Targets, Starts, Unclaimed, tableVars
    <2>2. \/ UNCHANGED loopVars
          \/ ~Running(u) /\ ((\E spec : StartLoop(u, spec)) \/ FailsToStart(u))
      BY <1>3 DEF Starts
    <2>3. call'[c] = NoCall
      BY <1>3 DEF Return, Typed, ClientsOK
    <2>4. Knows(c, t)'
      BY <2>3, ReturnKnows
    <2>5. t = u => /\ \A l \in granted : claims[t] # l
                   /\ \A d \in Clients : call[d].job = "grant" => t \notin call[d].want
      <3>1. \A l \in granted : l # NoLease
        BY IdAssumption DEF Typed, DataOK
      <3>2. \A d \in Clients : call[d].job = "grant" => call[d].lease # NoLease
        BY Locals DEF Shape
      <3> QED BY <2>1, <3>1, <3>2 DEF Custody, GrantHasItsClaims
    <2>6. CASE UNCHANGED loopVars
      <3>1. \A d \in Clients : (pc[d] = "calling" /\ t \in call[d].left) => held[d] \in granted
        BY DEF Tidy, Knows
      <3>2. Running(t)' <=> Running(t)
        BY <2>6 DEF Running, Live, loopVars
      <3> QED BY <2>1, <2>4, <2>6, <3>1, <3>2, OneMoves, TidyMoves DEF Tidy, loopVars
    <2>7. CASE ~Running(u) /\ ((\E spec : StartLoop(u, spec)) \/ FailsToStart(u))
      BY <2>1, <2>4, <2>5, <2>7, TidyStarts
    <2> QED BY <2>2, <2>6, <2>7
  <1> QED BY <1>1, <1>2, <1>3

\* A step of a worker, and time.
LEMMA TidyWorks ==
    ASSUME Typed, NEW t \in Targets, Tidy(t), NEW l \in LoopIds, Loop(l)
    PROVE  Tidy(t)'
  <1>1. /\ UNCHANGED <<current, powered, pc, call, held, claims, granted, holding>>
        /\ \A m \in LoopIds : drives'[m] = t => drives[m] = t
        /\ Running(t)' => Running(t)
    BY WorkerEnds
  <1>2. ASSUME NEW c \in Clients PROVE Knows(c, t)'
    <2>1. Knows(c, t)
      BY DEF Tidy
    <2> QED BY <1>1, <2>1 DEF Knows
  <1> QED BY <1>1, <1>2 DEF Tidy

LEMMA RacedGrows == Typed /\ [Next]_vars => raced \subseteq raced'
  <1> SUFFICES ASSUME Typed, [Next]_vars PROVE raced \subseteq raced'
    OBVIOUS
  <1>1. ASSUME NEW c \in Clients, CallBegins(c) \/ Release(c) \/ Body(c)
        PROVE  raced' = raced
    BY <1>1 DEF CallBegins, Release, Body, StartLive, Starts, ReconfigureLive, StopLive,
       GrantClaims, RenewChecks, CallChecks, PeekChecks, Answered, RefusedByClaim
  <1>2. ASSUME NEW c \in Clients, Proceeds(c) PROVE raced \subseteq raced'
    <2>1. CASE SweepOne(c) \/ RestartOne(c) \/ RestartRaises(c) \/ StopHalts(c) \/ RenewWrites(c)
      BY <2>1 DEF SweepOne, RestartOne, RestartRaises, StopHalts, RenewWrites
    <2>2. CASE \/ GrantLooks(c) \/ GrantDone(c) \/ GrantRefused(c) \/ StopSignals(c)
               \/ StopJoins(c) \/ StopRaises(c) \/ StopTimesOut(c) \/ DeviceReturns(c)
               \/ KeyErrorCaught(c)
      BY <2>2 DEF GrantLooks, GrantDone, GrantRefused, StopSignals, StopJoins, StopRaises,
         StopTimesOut, DeviceReturns, KeyErrorCaught
    <2> QED BY <1>2, <2>1, <2>2 DEF Proceeds
  <1>3. CASE (\E l \in LoopIds : Loop(l)) \/ (\E l \in LeaseIds : Lapse(l)) \/ UNCHANGED vars
    BY <1>3 DEF Loop, PassEnds, GrabRaises, Lapse, vars
  <1> QED BY <1>1, <1>2, <1>3 DEF Next, Client

LEMMA UnracedNext ==
    Typed /\ Custody /\ RestartsAreSpecced /\ Apart /\ Unraced /\ [Next]_vars => Unraced'
  <1> SUFFICES ASSUME Typed, Custody, RestartsAreSpecced, Apart, Unraced, [Next]_vars,
                      NEW t \in Targets, t \notin raced'
               PROVE  Tidy(t)'
    BY DEF Unraced
  <1>0. t \in Targets \ raced' /\ Tidy(t)
    BY RacedGrows DEF Unraced
  <1>1. ASSUME NEW c \in Clients, Client(c) PROVE Tidy(t)'
    <2>1. CASE \/ RestartRaises(c) \/ KeyErrorCaught(c) \/ StopRaises(c)
               \/ DeviceReturns(c) \/ Answered(c) \/ ReconfigureLive(c)
      BY <1>0, <1>1, <2>1, TidyEnds
    <2>2. CASE \/ CallBegins(c) \/ StopLive(c) \/ RenewChecks(c) \/ CallChecks(c)
               \/ PeekChecks(c)
      BY <1>0, <1>1, <2>2, TidyBegins
    <2>3. CASE SweepOne(c) \/ Release(c) \/ RenewWrites(c)
      BY <1>0, <1>1, <2>3, TidySweeps, TidyRenews
    <2>4. CASE GrantClaims(c) \/ GrantLooks(c) \/ GrantDone(c) \/ GrantRefused(c)
      BY <1>0, <1>1, <2>4, TidyClaims, TidyLooks, TidyGrants, TidyRefuses
    <2>5. CASE StopSignals(c) \/ StopJoins(c) \/ StopHalts(c) \/ StopTimesOut(c)
      BY <1>0, <1>1, <2>5, TidySignals, TidyJoins, TidyHalts, TidyTimesOut
    <2>6. CASE RestartOne(c) \/ StartLive(c)
      BY <1>0, <1>1, <2>6, TidyRestarts, TidyStartsLive
    <2> QED BY <1>1, <2>1, <2>2, <2>3, <2>4, <2>5, <2>6 DEF Client, Body, Proceeds
  <1>2. ASSUME NEW l \in LoopIds, Loop(l) PROVE Tidy(t)'
    BY <1>0, <1>2, TidyWorks
  <1>3. CASE (\E l \in LeaseIds : Lapse(l)) \/ UNCHANGED vars
    <2>1. UNCHANGED <<claims, granted, holding, loopVars, pc, call, held>>
      BY <1>3 DEF Lapse, vars, loopVars
    <2>2. Running(t)' <=> Running(t)
      BY <2>1 DEF Running, Live, loopVars
    <2>3. \A c \in Clients : Knows(c, t) => Knows(c, t)'
      BY <2>1, <2>2 DEF Knows, loopVars
    <2> QED BY <1>0, <2>1, <2>2, <2>3 DEF Tidy, loopVars
  <1> QED BY <1>1, <1>2, <1>3 DEF Next

LEMMA UnracedAlways ==
    Spec => [](Typed /\ Custody /\ RestartsAreSpecced /\ Apart /\ Unraced)
  <1>1. Init => Unraced
    <2> SUFFICES ASSUME Init, NEW t \in Targets PROVE Tidy(t)
      BY DEF Unraced
    <2>1. \A c \in Clients : call[c].job = "none" /\ pc[c] = "idle"
      BY DEF Init, NoCall
    <2>2. \A c \in Clients : Knows(c, t)
      BY <2>1 DEF Knows
    <2> QED BY <2>2, TargetAssumption DEF Init, Tidy, Running, Live
  <1> QED BY <1>1, UnracedNext, ApartAlways, PTL DEF Spec

----------------------------------------------------------------------------
\* Of an unraced target: nobody drives it, or one worker, or one lease holder with none.
LEMMA TidyHasOneDriver ==
    ASSUME Typed, Apart, NEW t \in Targets, Tidy(t)
    PROVE  HasOneDriver(t)
  <1>1. ASSUME NEW l \in Loops(t) PROVE Running(t) /\ l = current[t]
    <2>1. l \in LoopIds /\ drives[l] = t /\ Live(l)
      BY TargetAssumption, IdAssumption DEF Loops, Live
    <2> QED BY <2>1 DEF Tidy, Running
  <1>2. ASSUME NEW c \in Callers(t) PROVE Loops(t) = {} /\ Callers(t) = {c}
    <2>1. /\ c \in Clients /\ held[c] \in granted /\ t \in holding[held[c]]
          /\ claims[t] = held[c] /\ ~Running(t)
      BY DEF Callers, Tidy, Knows
    <2>2. ASSUME NEW d \in Callers(t) PROVE d = c
      <3>1. d \in Clients /\ claims[t] = held[d] /\ held[c] # NoLease
        BY <2>1, IdAssumption DEF Callers, Tidy, Knows, Typed, DataOK
      <3> QED BY <2>1, <3>1 DEF Apart
    <2> QED BY <1>1, <2>1, <2>2
  <1>3. CASE Callers(t) = {}
    <2>1. Cardinality(Callers(t)) = 0
      BY <1>3, FS_EmptySet
    <2>2. Cardinality(Loops(t)) \in {0, 1}
      <3>1. CASE Loops(t) = {}
        BY <3>1, FS_EmptySet
      <3>2. CASE Loops(t) # {}
        <4>1. Loops(t) = {current[t]}
          BY <1>1, <3>2
        <4> QED BY <4>1, FS_Singleton
      <3> QED BY <3>1, <3>2
    <2> QED BY <2>1, <2>2 DEF HasOneDriver
  <1>4. CASE Callers(t) # {}
    <2>1. PICK c \in Callers(t) : TRUE
      BY <1>4
    <2>2. Loops(t) = {} /\ Callers(t) = {c}
      BY <1>2, <2>1
    <2>3. Cardinality(Loops(t)) = 0 /\ Cardinality(Callers(t)) = 1
      BY <2>2, FS_EmptySet, FS_Singleton
    <2> QED BY <2>3 DEF HasOneDriver
  <1> QED BY <1>3, <1>4

LEMMA TidyIsDark ==
    ASSUME Typed, NEW t \in Targets, Tidy(t), NEW l \in granted, t \in holding[l]
    PROVE  claims[t] = l /\ Loops(t) = {}
  <1>1. claims[t] = l /\ ~Running(t)
    BY DEF Tidy
  <1>2. \A m \in LoopIds : drives[m] = t => Running(t)
    BY TargetAssumption, IdAssumption DEF Tidy, Running, Live, Targets
  <1> QED BY <1>1, <1>2 DEF Loops

LEMMA TidyIsPowered ==
    ASSUME Typed, NEW t \in Cameras, Tidy(t), NEW l \in LoopIds, drives[l] = t
    PROVE  t \in powered
  <1>1. current[t] = l /\ t # NoTarget /\ l # NoLoop
    BY TargetAssumption, IdAssumption DEF Tidy, Targets
  <1> QED BY <1>1 DEF Tidy, Running, Live

\* However calls overlap, leases lapse and devices fail, a target has two live workers,
\* two lease holders in a device call, or one of each, only after one client overtook
\* another's check on it: a lease reclaimed under a call or under a renewal, a restart
\* of what was started or claimed meanwhile.
THEOREM TargetsHaveOneDriver == Spec => []SoleDriver
  <1>1. Typed /\ Apart /\ Unraced => SoleDriver
    BY TidyHasOneDriver DEF Unraced, SoleDriver
  <1> QED BY <1>1, UnracedAlways, PTL

\* Nor is a target of a lease in the table driven by a loop, or another's, but for that.
THEOREM LeasedTargetsAreDark == Spec => []LeasedIsDark
  <1>1. Typed /\ Unraced => LeasedIsDark
    <2> SUFFICES ASSUME Typed, Unraced, NEW l \in granted, NEW t \in holding[l] \ raced
                 PROVE  claims[t] = l /\ Loops(t) = {}
      BY DEF LeasedIsDark
    <2>1. t \in Targets /\ Tidy(t)
      BY DEF Typed, DataOK, Unraced
    <2> QED BY <2>1, TidyIsDark
  <1> QED BY <1>1, UnracedAlways, PTL

\* Nor does a live loop grab from a camera that was not started or has been stopped, but
\* for that.
THEOREM CamerasArePowered == Spec => []LiveCameraIsPowered
  <1>1. Typed /\ Unraced => LiveCameraIsPowered
    <2> SUFFICES ASSUME Typed, Unraced, NEW l \in LoopIds, drives[l] \in Cameras \ raced
                 PROVE  drives[l] \in powered
      BY DEF LiveCameraIsPowered
    <2>1. Tidy(drives[l])
      BY DEF Unraced, Targets
    <2> QED BY <2>1, TidyIsPowered
  <1> QED BY <1>1, UnracedAlways, PTL

----------------------------------------------------------------------------
\* What has been stopped for a while is not forgotten.

WantedHasSpec == \A t \in wanted : specs[t] # "none"

LEMMA WantedHasSpecNext ==
    ASSUME Typed, WantedHasSpec, [Next]_vars
    PROVE  WantedHasSpec'
  <1>0. ASSUME UNCHANGED specs, wanted' \subseteq wanted PROVE WantedHasSpec'
    BY <1>0 DEF WantedHasSpec
  <1>s. \A t : "none" \notin SpecChoices(t) /\ "none" \notin Geometries
    BY ChoiceAssumption DEF SpecChoices
  <1>r. ASSUME NEW c \in Clients, NEW ts, RefusedByClaim(c, ts) PROVE WantedHasSpec'
    BY <1>0, <1>r DEF RefusedByClaim
  <1>1. ASSUME NEW c \in Clients, StartLive(c) PROVE WantedHasSpec'
    <2>1. PICK t \in Cameras \cup Scanners : RefusedByClaim(c, {t}) \/ Starts(c, t)
      BY <1>1 DEF StartLive
    <2>2. CASE Starts(c, t)
      <3>1. t \in Targets
        BY DEF Targets
      <3>2. \/ UNCHANGED <<specs, wanted>>
            \/ \E spec \in SpecChoices(t) :
                  specs' = [specs EXCEPT ![t] = spec] /\ wanted' \subseteq wanted \cup {t}
        BY <2>2 DEF Starts
      <3> QED BY <1>s, <3>1, <3>2 DEF WantedHasSpec, Typed, DataOK
    <2> QED BY <1>r, <2>1, <2>2
  <1>2. ASSUME NEW c \in Clients, ReconfigureLive(c) PROVE WantedHasSpec'
    <2>1. PICK t \in Scanners :
            \/ RefusedByClaim(c, {t})
            \/ /\ \E spec \in Geometries \ {"unset"} : specs' = [specs EXCEPT ![t] = spec]
               /\ UNCHANGED wanted
      BY <1>2 DEF ReconfigureLive
    <2> QED BY <1>r, <1>s, <2>1 DEF WantedHasSpec, Typed, DataOK
  <1>3. ASSUME NEW c \in Clients,
               \/ StopLive(c) \/ GrantClaims(c) \/ RenewChecks(c) \/ CallChecks(c)
               \/ PeekChecks(c) \/ Answered(c)
        PROVE  WantedHasSpec'
    <2>1. (\E ts : RefusedByClaim(c, ts)) \/ UNCHANGED <<specs, wanted>>
      BY <1>3 DEF StopLive, GrantClaims, RenewChecks, CallChecks, PeekChecks, Answered
    <2> QED BY <1>0, <1>r, <2>1
  <1>4. ASSUME NEW c \in Clients, Proceeds(c) \/ CallBegins(c) \/ Release(c)
        PROVE  WantedHasSpec'
    <2>1. UNCHANGED specs /\ wanted' \subseteq wanted
      BY <1>4 DEF Proceeds, SweepOne, RestartOne, RestartRaises, GrantLooks, GrantDone,
         GrantRefused, StopSignals, StopJoins, StopHalts, StopRaises, StopTimesOut,
         Stopped, RenewWrites, DeviceReturns, KeyErrorCaught, CallBegins, Release
    <2> QED BY <1>0, <2>1
  <1>5. ASSUME NEW l \in LoopIds, Loop(l) PROVE WantedHasSpec'
    <2>1. UNCHANGED specs /\ wanted' \subseteq wanted
      BY <1>5 DEF Loop, PassEnds, GrabRaises
    <2> QED BY <1>0, <2>1
  <1>6. CASE (\E l \in LeaseIds : Lapse(l)) \/ UNCHANGED vars
    BY <1>0, <1>6 DEF Lapse, vars
  <1> QED BY <1>1, <1>2, <1>3, <1>4, <1>5, <1>6 DEF Next, Client, Body

\* A lease restarts no target but its own.
RestartsAreHeld == \A l \in LeaseIds : restarts[l] \subseteq holding[l]

LEMMA RestartsAreHeldNext ==
    Typed /\ RestartsAreSpecced /\ RestartsAreHeld /\ [Next]_vars => RestartsAreHeld'
  <1> SUFFICES ASSUME Typed, RestartsAreSpecced, RestartsAreHeld, [Next]_vars
               PROVE  RestartsAreHeld'
    OBVIOUS
  <1>1. ASSUME NEW c \in Clients, GrantDone(c) PROVE RestartsAreHeld'
    <2>1. call[c].job = "grant"
      BY <1>1, Locals DEF GrantDone, Shape
    <2>2. call[c].stopped \subseteq call[c].want
      BY <2>1 DEF RestartsAreSpecced, GrantCanRestart
    <2>3. /\ holding' = [holding EXCEPT ![call[c].lease] = call[c].want]
          /\ restarts' = [restarts EXCEPT ![call[c].lease] = call[c].stopped]
      BY <1>1 DEF GrantDone
    <2> QED BY <2>2, <2>3 DEF RestartsAreHeld, Typed, DataOK
  <1>2. ASSUME NEW c \in Clients, Client(c), ~GrantDone(c) PROVE UNCHANGED <<holding, restarts>>
    <2>1. CASE \/ CallBegins(c) \/ Release(c) \/ ReconfigureLive(c) \/ StopLive(c)
               \/ StartLive(c) \/ GrantClaims(c) \/ RenewChecks(c) \/ CallChecks(c)
               \/ PeekChecks(c) \/ Answered(c)
      BY <2>1 DEF CallBegins, Release, ReconfigureLive, StopLive, StartLive, GrantClaims,
         RenewChecks, CallChecks, PeekChecks, Answered, RefusedByClaim, tableVars
    <2>2. CASE Proceeds(c)
      BY <1>2, <2>2 DEF Proceeds, SweepOne, RestartOne, RestartRaises, GrantLooks,
         GrantRefused, StopSignals, StopJoins, StopHalts, StopRaises, StopTimesOut,
         RenewWrites, DeviceReturns, KeyErrorCaught, tableVars
    <2> QED BY <1>2, <2>1, <2>2 DEF Client, Body
  <1>3. CASE (\E l \in LoopIds : Loop(l)) \/ (\E l \in LeaseIds : Lapse(l)) \/ UNCHANGED vars
    BY <1>3 DEF Loop, PassEnds, GrabRaises, Lapse, vars, RestartsAreHeld
  <1> QED BY <1>1, <1>2, <1>3 DEF Next, RestartsAreHeld

\* A call has stopped the target, or is stopping or restarting it.
Tends(c, t) ==
    \/ /\ call[c].job = "grant" /\ pc[c] \in {"grant", "stop", "join", "halt"}
       /\ t \in call[c].stopped
    \/ pc[c] = "restart" /\ t \in call[c].left
    \/ pc[c] \in {"join", "halt"} /\ t = First(call[c].left)

Goes(t) == Running(t) /\ current[t] \notin doomed

Owed(t) == \E l \in granted : t \in restarts[l]

\* A claim that is nobody's any more, after a grant whose camera raised: the target is
\* refused to everybody from then on.
Orphaned(t) ==
    /\ claims[t] # NoLease /\ claims[t] \notin granted
    /\ \A c \in Clients : /\ held[c] # claims[t]
                          /\ call[c].job = "grant" => call[c].lease # claims[t]

Kept(t) == Goes(t) \/ Owed(t) \/ Orphaned(t) \/ \E c \in Clients : Tends(c, t)

WantedAreKept == \A t \in wanted \ raced : Kept(t)

LEMMA OrphanStands ==
    ASSUME Typed, Custody, NEW t \in Targets, Orphaned(t), NEW c \in Clients, Client(c)
    PROVE  Orphaned(t)'
  <1>1. ASSUME KeepsGrants, UNCHANGED <<claims, granted, holding, held>> PROVE Orphaned(t)'
    BY <1>1 DEF KeepsGrants, Orphaned
  <1>2. CASE SweepOne(c) \/ Release(c)
    <2>1. \E l : IF l \in granted THEN DropLease(l) ELSE UNCHANGED <<granted, lapsed, claims>>
      BY <1>2 DEF SweepOne, Release
    <2>2. claims'[t] = claims[t] /\ granted' \subseteq granted
      BY <2>1 DEF DropLease, Orphaned, Typed, DataOK
    <2>3. \A d \in Clients : held'[d] \in {held[d], NoLease}
      BY <1>2 DEF SweepOne, Release, Typed, DataOK
    <2>4. \A d \in Clients \ {c} : call'[d] = call[d]
      BY OneMoves
    <2>5. call'[c].job # "grant"
      <3>1. CASE SweepOne(c)
        <4>1. PICK l \in call[c].sweep :
                call' = [call EXCEPT ![c] =
                            [NoCall EXCEPT !.job = "sweep", !.sweep = call[c].sweep \ {l},
                                           !.left = ToRestart(l)]]
          BY <3>1 DEF SweepOne
        <4>2. call'[c] = [NoCall EXCEPT !.job = "sweep", !.sweep = call[c].sweep \ {l},
                                        !.left = ToRestart(l)]
          BY <4>1 DEF Typed, ClientsOK
        <4> QED BY <4>2 DEF NoCall
      <3>2. CASE Release(c)
        <4>1. \/ call'[c] = NoCall
              \/ call'[c] = [NoCall EXCEPT !.job = "release", !.left = ToRestart(held[c])]
          BY <3>2 DEF Release, Typed, ClientsOK
        <4>2. NoCall.job = "none" /\ [NoCall EXCEPT !.job = "release",
                                               !.left = ToRestart(held[c])].job = "release"
          BY DEF NoCall
        <4> QED BY <4>1, <4>2
      <3> QED BY <1>2, <3>1, <3>2
    <2> QED BY <2>2, <2>3, <2>4, <2>5 DEF Orphaned
  <1>3. CASE GrantClaims(c)
    <2>1. PICK ts \in (SUBSET Targets) \ {{}} :
            \/ RefusedByClaim(c, ts)
            \/ \E l \in NewLeases :
                /\ ClaimAll(ts, l)
                /\ call' = [call EXCEPT ![c] = [NoCall EXCEPT !.job = "grant", !.left = ts,
                                                  !.want = ts, !.lease = l]]
                /\ UNCHANGED <<granted, held>>
      BY <1>3 DEF GrantClaims
    <2>2. CASE RefusedByClaim(c, ts)
      BY <1>1, <2>2, ReturnKeepsGrants DEF RefusedByClaim, tableVars
    <2>3. CASE ~RefusedByClaim(c, ts)
      <3>1. PICK l \in NewLeases :
                /\ ClaimAll(ts, l)
                /\ call' = [call EXCEPT ![c] = [NoCall EXCEPT !.job = "grant", !.left = ts,
                                                  !.want = ts, !.lease = l]]
                /\ UNCHANGED <<granted, held>>
        BY <2>1, <2>3
      <3>2. claims'[t] = claims[t] /\ l # claims[t]
        BY <3>1 DEF ClaimAll, Unclaimed, Orphaned, NewLeases
      <3>3. call'[c] = [NoCall EXCEPT !.job = "grant", !.left = ts, !.want = ts, !.lease = l]
            /\ \A d \in Clients \ {c} : call'[d] = call[d]
        BY <3>1 DEF Typed, ClientsOK
      <3>4. call'[c].lease = l
        BY <3>3 DEF NoCall
      <3> QED BY <3>1, <3>2, <3>3, <3>4 DEF Orphaned
    <2> QED BY <2>2, <2>3
  <1>4. CASE GrantDone(c)
    <2>1. call[c].job = "grant" /\ call'[c] = NoCall /\ \A d \in Clients \ {c} : call'[d] = call[d]
      BY <1>4, OneMoves, Locals DEF GrantDone, Shape, Return, Typed, ClientsOK
    <2>2. /\ granted' = granted \cup {call[c].lease} /\ UNCHANGED claims
          /\ \A d \in Clients : held'[d] \in {held[d], call[c].lease}
      BY <1>4 DEF GrantDone, Typed, DataOK
    <2>3. call'[c].job # "grant"
      BY <2>1 DEF NoCall
    <2> QED BY <2>1, <2>2, <2>3 DEF Orphaned
  <1>5. CASE GrantRefused(c)
    <2>1. call[c].job = "grant" /\ call'[c] = NoCall /\ \A d \in Clients \ {c} : call'[d] = call[d]
      BY <1>5, OneMoves, Locals DEF GrantRefused, Shape, Return, Typed, ClientsOK
    <2>2. t \notin call[c].want
      BY <2>1 DEF Orphaned, Custody, GrantHasItsClaims
    <2>3. UNCHANGED <<granted, held>> /\ claims'[t] = claims[t]
      BY <1>5, <2>2 DEF GrantRefused, UndoClaims
    <2>4. call'[c].job # "grant"
      BY <2>1 DEF NoCall
    <2> QED BY <2>1, <2>3, <2>4 DEF Orphaned
  <1>6. CASE RenewWrites(c)
    <2>1. /\ granted' = granted \cup {held[c]} /\ UNCHANGED <<claims, held>>
          /\ call' = [call EXCEPT ![c] = NoCall]
      BY <1>6 DEF RenewWrites, Return
    <2>2. KeepsGrants
      BY <2>1, ReturnKeepsGrants
    <2> QED BY <2>1, <2>2 DEF Orphaned, KeepsGrants
  <1>7. CASE ~ (\/ SweepOne(c) \/ Release(c) \/ GrantClaims(c) \/ GrantDone(c)
                \/ GrantRefused(c) \/ RenewWrites(c))
    BY <1>1, <1>7, QuietKeepsGrants DEF Client, Body, Proceeds
  <1> QED BY <1>2, <1>3, <1>4, <1>5, <1>6, <1>7

\* One client's step keeps what it does not stop, lose or forget.
LEMMA KeptMoves ==
    ASSUME Typed, Custody, NEW t \in Targets, Kept(t), NEW c \in Clients, Client(c),
           Goes(t) => Kept(t)',
           \A l \in granted : t \in restarts[l] => Kept(t)',
           Tends(c, t) => Kept(t)'
    PROVE  Kept(t)'
  <1>1. ASSUME NEW d \in Clients, Tends(d, t), d # c PROVE Kept(t)'
    <2>1. pc'[d] = pc[d] /\ call'[d] = call[d]
      BY <1>1, OneMoves
    <2> QED BY <1>1, <2>1 DEF Tends, Kept
  <1>2. Orphaned(t) => Kept(t)'
    BY OrphanStands DEF Kept
  <1> QED BY <1>1, <1>2 DEF Kept, Owed

\* A step that leaves the loops and the leases to restart alone.
LEMMA KeptStands ==
    ASSUME Typed, Custody, NEW t \in Targets, Kept(t), NEW c \in Clients, Client(c),
           UNCHANGED <<current, drives, doomed, restarts>>, granted \subseteq granted',
           Tends(c, t) => Kept(t)'
    PROVE  Kept(t)'
  <1>1. Goes(t) => Goes(t)'
    BY DEF Goes, Running, Live
  <1>2. \A l \in granted : t \in restarts[l] => Owed(t)'
    BY DEF Owed
  <1> QED BY <1>1, <1>2, KeptMoves DEF Kept

\* A call that tends to nothing moves on.
LEMMA QuietKeeps ==
    ASSUME Typed, Custody, NEW t \in Targets, Kept(t), NEW c \in Clients, Client(c),
           \/ CallBegins(c) \/ KeyErrorCaught(c) \/ DeviceReturns(c) \/ Answered(c)
           \/ ReconfigureLive(c) \/ StopLive(c) \/ RenewChecks(c) \/ CallChecks(c)
           \/ PeekChecks(c) \/ RenewWrites(c) \/ GrantClaims(c) \/ GrantRefused(c)
           \/ \E ts : pc[c] = "swept" /\ RefusedByClaim(c, ts)
    PROVE  Kept(t)'
  <1>1. pc[c] \notin {"grant", "stop", "join", "halt", "restart"}
    BY DEF CallBegins, KeyErrorCaught, DeviceReturns, Answered, ReconfigureLive,
       StopLive, RenewChecks, CallChecks, PeekChecks, RenewWrites, GrantClaims, GrantRefused
  <1>2. ~Tends(c, t)
    BY <1>1 DEF Tends
  <1>3. UNCHANGED <<restarts, loopVars>> /\ granted \subseteq granted'
    BY DEF CallBegins, KeyErrorCaught, DeviceReturns, Answered, ReconfigureLive,
       StopLive, RenewChecks, CallChecks, PeekChecks, RenewWrites, GrantClaims,
       GrantRefused, RefusedByClaim, tableVars
  <1> QED BY <1>2, <1>3, KeptStands DEF loopVars

\* A lease dropped leaves its restarts to the call that dropped it.
LEMMA DropKeeps ==
    ASSUME Typed, Custody, NEW t \in Targets, Kept(t), NEW c \in Clients, Client(c),
           SweepOne(c) \/ Release(c)
    PROVE  Kept(t)'
  <1>1. PICK l \in LeaseIds :
          /\ IF l \in granted THEN DropLease(l) ELSE UNCHANGED <<granted, lapsed, claims>>
          /\ ToRestart(l) # {} => pc'[c] = "restart" /\ call'[c].left = ToRestart(l)
    <2>1. CASE SweepOne(c)
      <3>1. PICK l \in call[c].sweep :
              /\ IF l \in granted THEN DropLease(l)
                                  ELSE UNCHANGED <<granted, lapsed, claims>>
              /\ call' = [call EXCEPT ![c] =
                            [NoCall EXCEPT !.job = "sweep", !.sweep = call[c].sweep \ {l},
                                           !.left = ToRestart(l)]]
              /\ ToRestart(l) # {} => pc' = [pc EXCEPT ![c] = "restart"]
        BY <2>1 DEF SweepOne
      <3>2. call'[c] = [NoCall EXCEPT !.job = "sweep", !.sweep = call[c].sweep \ {l},
                                      !.left = ToRestart(l)]
            /\ (ToRestart(l) # {} => pc'[c] = "restart")
        BY <3>1 DEF Typed, ClientsOK
      <3>3. call'[c].left = ToRestart(l)
        BY <3>2 DEF NoCall
      <3>4. l \in LeaseIds
        BY Locals
      <3> QED BY <3>1, <3>2, <3>3, <3>4
    <2>2. CASE Release(c)
      <3> DEFINE l == held[c]
      <3>1. /\ l \in LeaseIds
            /\ IF l \in granted THEN DropLease(l)
                                ELSE UNCHANGED <<granted, lapsed, claims>>
        BY <2>2 DEF Release, Typed, DataOK
      <3>2. ToRestart(l) # {} =>
              /\ pc'[c] = "restart"
              /\ call'[c] = [NoCall EXCEPT !.job = "release", !.left = ToRestart(l)]
        BY <2>2 DEF Release, Typed, ClientsOK
      <3>3. ToRestart(l) # {} => call'[c].left = ToRestart(l)
        BY <3>2 DEF NoCall
      <3> QED BY <3>1, <3>2, <3>3
    <2> QED BY <2>1, <2>2
  <1>2. UNCHANGED <<restarts, current, drives, doomed>>
    BY DEF SweepOne, Release, loopVars
  <1>3. ~Tends(c, t)
    BY DEF SweepOne, Release, Tends
  <1>4. Goes(t) => Goes(t)'
    BY <1>2 DEF Goes, Running, Live
  <1>5. ASSUME NEW m \in granted, t \in restarts[m] PROVE Kept(t)'
    <2>1. CASE m = l
      <3>1. t \in ToRestart(l)
        BY <1>5, <2>1 DEF ToRestart
      <3> QED BY <1>1, <3>1 DEF Tends, Kept
    <2>2. CASE m # l
      BY <1>1, <1>2, <1>5, <2>2 DEF DropLease, Kept, Owed
    <2> QED BY <2>1, <2>2
  <1> QED BY <1>3, <1>4, <1>5, KeptMoves DEF Kept

\* A grant hands on what it has stopped: from target to target, and to its lease.
LEMMA GrantKeeps ==
    ASSUME Typed, Custody, NEW t \in Targets, Kept(t), NEW c \in Clients, Client(c),
           GrantLooks(c) \/ GrantDone(c)
    PROVE  Kept(t)'
  <1>1. pc[c] = "grant" /\ call[c] \in Calls /\ call[c].job = "grant"
        /\ call[c].lease \in LeaseIds
    BY Locals DEF GrantLooks, GrantDone, Shape
  <1>2. UNCHANGED <<current, drives, doomed>>
    BY DEF GrantLooks, GrantDone, loopVars
  <1>3. Tends(c, t) => t \in call[c].stopped
    BY <1>1 DEF Tends
  <1>4. CASE GrantLooks(c)
    <2>1. \/ pc'[c] = "stop" /\ call'[c] = call[c]
          \/ /\ pc'[c] = "grant"
             /\ call'[c] = [call[c] EXCEPT !.left = call[c].left \ {First(call[c].left)}]
      BY <1>4 DEF GrantLooks, Typed, ClientsOK
    <2>2. pc'[c] \in {"stop", "grant"} /\ call'[c].job = "grant"
          /\ call'[c].stopped = call[c].stopped
      BY <1>1, <2>1 DEF Calls
    <2>3. UNCHANGED <<granted, restarts>>
      BY <1>4 DEF GrantLooks, tableVars
    <2>4. Tends(c, t) => Kept(t)'
      BY <1>3, <2>2 DEF Tends, Kept
    <2> QED BY <1>2, <2>3, <2>4, KeptStands
  <1>5. CASE GrantDone(c)
    <2> DEFINE l == call[c].lease
    <2>1. granted' = granted \cup {l} /\ restarts' = [restarts EXCEPT ![l] = call[c].stopped]
      BY <1>5 DEF GrantDone
    <2>2. l \notin granted
      BY <1>1 DEF Custody, GrantHasItsClaims
    <2>3. l \in granted' /\ restarts'[l] = call[c].stopped
      BY <1>1, <2>1 DEF Typed, DataOK
    <2>4. \A m \in granted : m \in granted' /\ restarts'[m] = restarts[m]
      BY <2>1, <2>2 DEF Typed, DataOK
    <2>5. Tends(c, t) => Kept(t)'
      BY <1>3, <2>3 DEF Kept, Owed
    <2>6. \A m \in granted : t \in restarts[m] => Kept(t)'
      BY <2>4 DEF Kept, Owed
    <2>7. Goes(t) => Kept(t)'
      BY <1>2 DEF Kept, Goes, Running, Live
    <2> QED BY <2>5, <2>6, <2>7, KeptMoves
  <1> QED BY <1>4, <1>5

\* The target of a stop that is done is the grant's to restart, or wanted no more.
LEMMA StoppedKeeps ==
    ASSUME Typed, Custody, NEW t \in wanted', t \in Targets, Kept(t),
           NEW c \in Clients, Client(c),
           pc[c] \in {"stop", "join", "halt"}, Stopped(c, First(call[c].left)),
           UNCHANGED <<granted, restarts, current, drives, doomed>>
    PROVE  Kept(t)'
  <1> DEFINE u == First(call[c].left)
  <1>1. call[c] \in Calls /\ call[c].job \in {"grant", "live"}
    BY Locals DEF Shape
  <1>2. call[c].job # "grant" => t # u
    BY DEF Stopped
  <1>3. CASE call[c].job = "grant"
    <2> DEFINE r == [call[c] EXCEPT !.left = call[c].left \ {u},
                                    !.stopped = call[c].stopped \cup {u},
                                    !.loop = NoLoop, !.due = "short"]
    <2>1. pc'[c] = "grant" /\ call'[c] = r
      BY <1>3 DEF Stopped, Typed, ClientsOK
    <2>2. r.job = "grant" /\ r.stopped = call[c].stopped \cup {u}
      BY <1>1, <1>3 DEF Calls
    <2> HIDE DEF r
    <2>3. Tends(c, t) => Tends(c, t)'
      BY <2>1, <2>2 DEF Tends
    <2> QED BY <2>3, KeptStands DEF Kept
  <1>4. CASE call[c].job # "grant"
    <2>1. ~Tends(c, t)
      BY <1>2, <1>4 DEF Tends
    <2> QED BY <2>1, KeptStands
  <1> QED BY <1>3, <1>4

LEMMA SignalKeeps ==
    ASSUME Typed, Custody, Apart, NEW t \in wanted', t \in Targets, Kept(t),
           NEW c \in Clients, Client(c), StopSignals(c)
    PROVE  Kept(t)'
  <1> DEFINE u == First(call[c].left)
  <1>1. pc[c] = "stop" /\ call[c] \in Calls /\ u \in Targets
    BY Locals DEF StopSignals, Shape
  <1>2. UNCHANGED <<granted, restarts, current, drives>>
    BY DEF StopSignals, tableVars
  <1>3. CASE Running(u)
    <2>1. /\ doomed' = doomed \cup {current[u]} /\ pc'[c] = "join"
          /\ call'[c] = [call[c] EXCEPT !.loop = current[u], !.due = JoinDeadline(u)]
      BY <1>3 DEF StopSignals, Typed, ClientsOK
    <2>2. /\ call'[c].left = call[c].left /\ call'[c].stopped = call[c].stopped
          /\ call'[c].job = call[c].job
      BY <1>1, <2>1 DEF Calls
    <2>3. Goes(t) => Kept(t)'
      <3>1. CASE t = u
        BY <2>1, <2>2, <3>1 DEF Tends, Kept
      <3>2. CASE t # u
        <4>1. Running(t) => current[t] # current[u]
          BY <1>1, <1>3, <3>2 DEF Apart
        <4>2. Running(t)' <=> Running(t)
          BY <1>2 DEF Running, Live
        <4> QED BY <1>2, <2>1, <4>1, <4>2 DEF Goes, Kept
      <3> QED BY <3>1, <3>2
    <2>4. Tends(c, t) => Tends(c, t)'
      BY <1>1, <2>1, <2>2 DEF Tends
    <2> QED BY <1>2, <2>3, <2>4, KeptMoves DEF Kept, Owed
  <1>4. CASE ~Running(u)
    <2>1. Stopped(c, u) /\ UNCHANGED doomed
      BY <1>4 DEF StopSignals
    <2> QED BY <1>1, <1>2, <2>1, StoppedKeeps
  <1> QED BY <1>3, <1>4

\* A join that gives up puts back what the grant had stopped; a camera that raises leaves
\* it with claims nobody has.
LEMMA StopKeeps ==
    ASSUME Typed, Custody, RestartsAreSpecced, NEW t \in wanted', t \in Targets, Kept(t),
           NEW c \in Clients, Client(c),
           StopJoins(c) \/ StopHalts(c) \/ StopTimesOut(c) \/ StopRaises(c)
    PROVE  Kept(t)'
  <1> DEFINE u == First(call[c].left)
  <1>1. UNCHANGED <<granted, restarts, current, drives, doomed>>
    BY DEF StopJoins, StopHalts, StopTimesOut, StopRaises, tableVars, loopVars
  <1>2. call[c] \in Calls /\ pc[c] \in {"join", "halt"} /\ call[c].lease \in LeaseIds \cup {NoLease}
        /\ call[c].job \in {"grant", "live"}
        /\ (call[c].job = "grant" => call[c].lease # NoLease)
    BY Locals DEF StopJoins, StopHalts, StopTimesOut, StopRaises, Shape
  <1>3. CASE Stopped(c, u)
    BY <1>1, <1>2, <1>3, StoppedKeeps
  <1>4. CASE StopJoins(c) /\ ~Stopped(c, u)
    <2>1. pc[c] = "join" /\ pc'[c] = "halt" /\ call'[c] = call[c]
      BY <1>4 DEF StopJoins, Typed, ClientsOK
    <2>2. Tends(c, t) => Tends(c, t)'
      BY <2>1 DEF Tends
    <2> QED BY <1>1, <2>2, KeptStands DEF Kept
  <1>5. CASE StopTimesOut(c)
    <2>1. t # u /\ pc[c] = "join"
      BY <1>5 DEF StopTimesOut
    <2>2. ASSUME Tends(c, t) PROVE Tends(c, t)'
      <3>1. call[c].job = "grant" /\ t \in call[c].stopped
        BY <2>1, <2>2 DEF Tends
      <3>2. pc'[c] = "restart"
            /\ call'[c] = [call[c] EXCEPT !.left = call[c].stopped, !.stopped = {},
                                          !.loop = NoLoop, !.due = "short"]
        BY <1>5, <3>1 DEF StopTimesOut, Typed, ClientsOK
      <3>3. call'[c].left = call[c].stopped
        BY <1>2, <3>2 DEF Calls
      <3> QED BY <3>1, <3>2, <3>3 DEF Tends
    <2> QED BY <1>1, <2>2, KeptStands DEF Kept
  <1>6. CASE StopRaises(c)
    <2>1. t # u /\ pc[c] = "halt" /\ UNCHANGED <<claims, held>>
          /\ call' = [call EXCEPT ![c] = NoCall]
      BY <1>6 DEF StopRaises, Return, tableVars
    <2>2. ASSUME Tends(c, t) PROVE Orphaned(t)'
      <3>1. call[c].job = "grant" /\ t \in call[c].stopped
        BY <2>1, <2>2 DEF Tends
      <3>2. t \in call[c].want
        BY <3>1 DEF RestartsAreSpecced, GrantCanRestart
      <3>3. /\ claims[t] = call[c].lease /\ call[c].lease \notin granted
            /\ \A d \in Clients : held[d] # call[c].lease
            /\ \A d \in Clients : (d # c /\ call[d].job = "grant") =>
                    call[d].lease # call[c].lease
        BY <3>1, <3>2 DEF Custody, GrantHasItsClaims
      <3>4. call'[c] = NoCall /\ \A d \in Clients \ {c} : call'[d] = call[d]
        BY <2>1 DEF Typed, ClientsOK
      <3>5. call'[c].job # "grant"
        BY <3>4 DEF NoCall
      <3> QED BY <1>1, <1>2, <2>1, <3>1, <3>3, <3>4, <3>5 DEF Orphaned
    <2> QED BY <1>1, <2>2, KeptStands DEF Kept
  <1> QED BY <1>3, <1>4, <1>5, <1>6 DEF StopHalts

\* A restart happens, or fails, and then the target is wanted no more.
LEMMA RestartKeeps ==
    ASSUME Typed, Custody, Apart, WantedHasSpec, NEW t \in wanted' \ raced', t \in wanted,
           t \in Targets, Kept(t), NEW c \in Clients, Client(c),
           RestartOne(c) \/ RestartRaises(c)
    PROVE  Kept(t)'
  <1> DEFINE u == Last(call[c].left)
             rest == call[c].left \ {u}
  <1>1. /\ pc[c] = "restart" /\ call[c] \in Calls /\ call[c].left \subseteq Targets
        /\ u \in call[c].left
    BY Locals DEF RestartOne, RestartRaises, Shape
  <1>2. UNCHANGED <<granted, restarts>>
    BY DEF RestartOne, RestartRaises, tableVars
  <1>3. CASE RestartRaises(c)
    <2>1. ~Tends(c, t) /\ UNCHANGED loopVars
      BY <1>1, <1>3 DEF RestartRaises, Tends
    <2> QED BY <1>2, <2>1, KeptStands DEF loopVars
  <1>4. CASE RestartOne(c)
    <2>1. /\ \/ specs[u] # "none" /\ StartLoop(u, specs[u])
             \/ FailsToStart(u) /\ t # u
             \/ specs[u] = "none" /\ UNCHANGED loopVars
      BY <1>4 DEF RestartOne
    <2>2. specs[t] # "none" /\ u \in Targets
      BY <1>1 DEF WantedHasSpec
    <2>3. CASE t = u
      <3>1. StartLoop(t, specs[t])
        BY <2>1, <2>2, <2>3
      <3>2. Running(t)' /\ current'[t] \notin doomed'
        BY <3>1, StartLoopApart
      <3> QED BY <3>2 DEF Kept, Goes
    <2>4. CASE t # u
      <3>1. Goes(t) => Goes(t)'
        <4> HIDE DEF u
        <4>1. CASE StartLoop(u, specs[u])
          <5>1. (Running(t)' <=> Running(t)) /\ current'[t] = current[t] /\ doomed' = doomed
            BY <2>2, <2>4, <4>1, StartLoopApart
          <5> QED BY <5>1 DEF Goes
        <4>2. CASE FailsToStart(u)
          <5>1. (Running(t)' <=> Running(t)) /\ current'[t] = current[t]
            BY <2>2, <2>4, <4>2, FailedStartsNothing
          <5>2. UNCHANGED doomed
            BY <4>2 DEF FailsToStart, loopVars
          <5> QED BY <5>1, <5>2 DEF Goes
        <4>3. CASE UNCHANGED loopVars
          BY <4>3 DEF loopVars, Goes, Running, Live
        <4> QED BY <2>1, <4>1, <4>2, <4>3
      <3>2. Tends(c, t) => Tends(c, t)'
        <4> SUFFICES ASSUME t \in call[c].left PROVE Tends(c, t)'
          BY <1>1 DEF Tends
        <4>1. rest # {} /\ t \in rest
          BY <2>4
        <4>2. pc'[c] = "restart" /\ call'[c] = [call[c] EXCEPT !.left = rest]
          BY <1>4, <4>1 DEF RestartOne, Typed, ClientsOK
        <4>3. call'[c].left = rest
          BY <1>1, <4>2 DEF Calls
        <4> HIDE DEF rest
        <4> QED BY <4>1, <4>2, <4>3 DEF Tends
      <3> QED BY <1>2, <3>1, <3>2, KeptMoves DEF Kept, Owed
    <2> QED BY <2>3, <2>4
  <1> QED BY <1>3, <1>4

\* A start makes its target live, and leaves every other as it was.
LEMMA StartLiveKeeps ==
    ASSUME Typed, Custody, Apart, NEW t \in wanted', t \in Targets, t \in wanted => Kept(t),
           NEW c \in Clients, Client(c), StartLive(c)
    PROVE  Kept(t)'
  <1>1. PICK u \in Cameras \cup Scanners :
          \/ RefusedByClaim(c, {u})
          \/ Starts(c, u) /\ UNCHANGED tableVars
    BY DEF StartLive
  <1>2. u \in Targets /\ ~Tends(c, t) /\ UNCHANGED <<granted, restarts>>
    BY <1>1 DEF Targets, StartLive, Tends, RefusedByClaim, tableVars
  <1>3. CASE UNCHANGED <<loopVars, wanted>>
    BY <1>2, <1>3, KeptStands DEF loopVars
  <1>4. ASSUME NEW spec, StartLoop(u, spec), wanted' = wanted \cup {u} PROVE Kept(t)'
    <2>1. CASE t = u
      BY <1>2, <1>4, <2>1, StartLoopApart DEF Kept, Goes
    <2>2. CASE t # u
      <3>1. Goes(t) => Goes(t)'
        <4>1. (Running(t)' <=> Running(t)) /\ current'[t] = current[t] /\ doomed' = doomed
          BY <1>2, <1>4, <2>2, StartLoopApart
        <4> QED BY <4>1 DEF Goes
      <3>2. Kept(t)
        BY <1>4, <2>2
      <3> QED BY <1>2, <3>1, <3>2, KeptMoves DEF Kept, Owed
    <2> QED BY <2>1, <2>2
  <1>5. CASE ~Running(u) /\ FailsToStart(u) /\ UNCHANGED wanted
    <2>1. Goes(t) => Goes(t)'
      <3>1. CASE t = u
        BY <1>5, <3>1 DEF Goes
      <3>2. CASE t # u
        <4>1. (Running(t)' <=> Running(t)) /\ current'[t] = current[t]
          BY <1>2, <1>5, <3>2, FailedStartsNothing
        <4>2. UNCHANGED doomed
          BY <1>5 DEF FailsToStart, loopVars
        <4> QED BY <4>1, <4>2 DEF Goes
      <3> QED BY <3>1, <3>2
    <2> QED BY <1>2, <1>5, <2>1, KeptMoves DEF Kept, Owed
  <1>6. CASE RefusedByClaim(c, {u})
    BY <1>3, <1>6 DEF RefusedByClaim
  <1>7. CASE Starts(c, u)
    BY <1>3, <1>4, <1>5, <1>7 DEF Starts
  <1> QED BY <1>1, <1>6, <1>7

\* A worker ends because its loop was signalled, and then a call tends to its target or has
\* given up on it; or because of an error, and then the target is wanted no more.
LEMMA WorkerKeeps ==
    ASSUME Typed, Apart, NEW t \in wanted', t \in Targets, Kept(t), NEW l \in LoopIds, Loop(l)
    PROVE  Kept(t)'
  <1>1. UNCHANGED <<granted, restarts, current, pc, call, held, claims>>
    BY WorkerEnds
  <1>2. \/ UNCHANGED <<drives, doomed>>
        \/ /\ drives' = [drives EXCEPT ![l] = NoTarget] /\ doomed' = doomed \ {l}
           /\ drives[l] = t => l \in doomed
    BY DEF Loop, PassEnds, GrabRaises, Die
  <1>3. \A c \in Clients : Tends(c, t) => Tends(c, t)'
    BY <1>1 DEF Tends
  <1>4. ASSUME Goes(t) PROVE Goes(t)'
    <2>1. CASE UNCHANGED <<drives, doomed>>
      BY <1>1, <1>4, <2>1 DEF Goes, Running, Live
    <2>2. CASE ~UNCHANGED <<drives, doomed>>
      <3>1. Running(t) /\ current[t] \notin doomed /\ drives[current[t]] = t
        BY <1>4 DEF Goes, Apart
      <3>2. current[t] # l
        BY <1>2, <2>2, <3>1
      <3>3. drives'[current[t]] = drives[current[t]] /\ current[t] \notin doomed'
        BY <1>2, <2>2, <3>1, <3>2 DEF Running, Live, Typed, DataOK
      <3> QED BY <1>1, <3>1, <3>3 DEF Goes, Running, Live
    <2> QED BY <2>1, <2>2
  <1>5. Orphaned(t) => Orphaned(t)'
    BY <1>1 DEF Orphaned
  <1>6. Owed(t) => Owed(t)'
    BY <1>1 DEF Owed
  <1> QED BY <1>3, <1>4, <1>5, <1>6 DEF Kept

\* Only a start makes a target wanted.
LEMMA WantedShrinks ==
    ASSUME NEW c \in Clients, Client(c), ~StartLive(c)
    PROVE  wanted' \subseteq wanted
  <1>1. CASE \/ CallBegins(c) \/ Release(c) \/ ReconfigureLive(c) \/ StopLive(c)
             \/ GrantClaims(c) \/ RenewChecks(c) \/ CallChecks(c) \/ PeekChecks(c)
             \/ Answered(c)
    BY <1>1 DEF CallBegins, Release, ReconfigureLive, StopLive, GrantClaims,
       RenewChecks, CallChecks, PeekChecks, Answered, RefusedByClaim, history
  <1>2. CASE Proceeds(c)
    BY <1>2 DEF Proceeds, SweepOne, RestartOne, RestartRaises, GrantLooks, GrantDone,
       GrantRefused, StopSignals, StopJoins, StopHalts, StopRaises, StopTimesOut,
       Stopped, RenewWrites, DeviceReturns, KeyErrorCaught, history
  <1> QED BY <1>1, <1>2 DEF Client, Body

LEMMA WantedAreKeptNext ==
    ASSUME Typed, Custody, RestartsAreSpecced, Apart, WantedHasSpec, WantedAreKept,
           [Next]_vars
    PROVE  WantedAreKept'
  <1> SUFFICES ASSUME NEW t \in wanted' \ raced' PROVE Kept(t)'
    BY DEF WantedAreKept
  <1>0. /\ t \notin raced /\ (t \in wanted => Kept(t))
        /\ t \in Targets
    <2>1. Typed'
      BY TypedNext
    <2> QED BY <2>1, RacedGrows DEF WantedAreKept, Typed, DataOK, RacedOK
  <1>1. ASSUME NEW c \in Clients, Client(c) PROVE Kept(t)'
    <2>1. CASE StartLive(c)
      BY <1>0, <1>1, <2>1, StartLiveKeeps
    <2>2. CASE ~StartLive(c)
      <3>1. t \in wanted /\ Kept(t)
        <4>1. wanted' \subseteq wanted
          BY <1>1, <2>2, WantedShrinks
        <4> QED BY <1>0, <4>1
      <3>2. CASE \/ CallBegins(c) \/ KeyErrorCaught(c) \/ DeviceReturns(c) \/ Answered(c)
                 \/ ReconfigureLive(c) \/ StopLive(c) \/ RenewChecks(c) \/ CallChecks(c)
                 \/ PeekChecks(c) \/ RenewWrites(c) \/ GrantClaims(c) \/ GrantRefused(c)
        BY <1>0, <1>1, <3>1, <3>2, QuietKeeps
      <3>3. CASE SweepOne(c) \/ Release(c)
        BY <1>0, <1>1, <3>1, <3>3, DropKeeps
      <3>4. CASE GrantLooks(c) \/ GrantDone(c)
        BY <1>0, <1>1, <3>1, <3>4, GrantKeeps
      <3>5. CASE StopSignals(c)
        BY <1>0, <1>1, <3>1, <3>5, SignalKeeps
      <3>6. CASE StopJoins(c) \/ StopHalts(c) \/ StopTimesOut(c) \/ StopRaises(c)
        BY <1>0, <1>1, <3>1, <3>6, StopKeeps
      <3>7. CASE RestartOne(c) \/ RestartRaises(c)
        BY <1>0, <1>1, <3>1, <3>7, RestartKeeps
      <3> QED
        BY <1>1, <2>2, <3>2, <3>3, <3>4, <3>5, <3>6, <3>7 DEF Client, Body, Proceeds
    <2> QED BY <2>1, <2>2
  <1>2. ASSUME NEW l \in LoopIds, Loop(l) PROVE Kept(t)'
    <2>1. t \in wanted
      BY <1>2, WorkerEnds
    <2> QED BY <1>0, <1>2, <2>1, WorkerKeeps
  <1>3. CASE (\E l \in LeaseIds : Lapse(l)) \/ UNCHANGED vars
    <2>1. UNCHANGED <<claims, granted, restarts, current, drives, doomed, pc, call, held, wanted>>
      BY <1>3 DEF Lapse, vars, loopVars, history
    <2>2. Goes(t) => Goes(t)'
      BY <2>1 DEF Goes, Running, Live
    <2>3. \A c \in Clients : Tends(c, t) => Tends(c, t)'
      BY <2>1 DEF Tends
    <2>4. (Owed(t) => Owed(t)') /\ (Orphaned(t) => Orphaned(t)')
      BY <2>1 DEF Owed, Orphaned
    <2> QED BY <1>0, <2>1, <2>2, <2>3, <2>4 DEF Kept
  <1> QED BY <1>1, <1>2, <1>3 DEF Next

\* With no call in progress, what is owed or orphaned is claimed.
LEMMA KeptIsLive ==
    ASSUME Typed, Unraced, RestartsAreHeld, WantedAreKept
    PROVE  NothingLeftStopped
  <1> SUFFICES ASSUME Quiet, NEW t \in wanted \ raced, Unclaimed(t)
               PROVE  Running(t)
    BY DEF NothingLeftStopped
  <1>1. \A c \in Clients : ~Tends(c, t)
    BY DEF Quiet, Tends
  <1>2. ~Orphaned(t)
    BY DEF Unclaimed, Orphaned
  <1>3. ~Owed(t)
    <2> SUFFICES ASSUME NEW l \in granted, t \in restarts[l] PROVE FALSE
      BY DEF Owed
    <2>1. l \in LeaseIds /\ t \in Targets
      BY DEF Typed, DataOK
    <2>2. t \in holding[l] /\ Tidy(t)
      BY <2>1 DEF RestartsAreHeld, Unraced
    <2>3. claims[t] = l
      BY <2>2 DEF Tidy
    <2> QED BY <2>1, <2>3, IdAssumption DEF Unclaimed
  <1>4. Kept(t)
    BY DEF WantedAreKept
  <1> QED BY <1>1, <1>2, <1>3, <1>4 DEF Kept, Goes

\* However calls overlap, devices fail and threads run short: whatever was stopped for a
\* lease - granted or refused, released or reclaimed - is live again as soon as nobody is
\* inside the broker, or claimed, but for what a client overtook another on.
THEOREM NothingStaysStopped == Spec => []NothingLeftStopped
  <1>1. Init => WantedAreKept /\ WantedHasSpec /\ RestartsAreHeld
    BY DEF Init, WantedAreKept, WantedHasSpec, RestartsAreHeld
  <1>2. Typed /\ Custody /\ RestartsAreSpecced /\ Apart /\ WantedAreKept /\ WantedHasSpec
            /\ RestartsAreHeld /\ [Next]_vars
        => WantedAreKept' /\ WantedHasSpec' /\ RestartsAreHeld'
    <2> SUFFICES ASSUME Typed, Custody, RestartsAreSpecced, Apart, WantedAreKept,
                        WantedHasSpec, RestartsAreHeld, [Next]_vars
                 PROVE  WantedAreKept' /\ WantedHasSpec' /\ RestartsAreHeld'
      OBVIOUS
    <2>1. WantedAreKept'
      BY WantedAreKeptNext
    <2>2. WantedHasSpec'
      BY WantedHasSpecNext
    <2>3. RestartsAreHeld'
      BY RestartsAreHeldNext
    <2> QED BY <2>1, <2>2, <2>3
  <1>3. Typed /\ Unraced /\ RestartsAreHeld /\ WantedAreKept => NothingLeftStopped
    BY KeptIsLive
  <1> QED BY <1>1, <1>2, <1>3, UnracedAlways, PTL DEF Spec

=============================================================================
