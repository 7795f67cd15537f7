-------------------------- MODULE BrokerServer_proofs --------------------------
(***************************************************************************)
(* Theorems about BrokerServer, for any number of connections, targets and  *)
(* leases.  What a theorem needs of the way the server is used is in its    *)
(* own hypotheses.                                                          *)
(***************************************************************************)
EXTENDS BrokerServer, TLAPS

\* A lease stands as long as it has targets.
Standing == \A l \in LeaseIds : l \in table <=> \E t \in Targets : owner[t] = l

\* No lease was granted over two connections.
Apart == \A c, d \in Conns : c # d => granted[c] \cap granted[d] = {}

\* Where the two ends of a connection stand, and when a target is named.
Placed ==
    \A c \in Conns :
        /\ conn[c] = "none" => peer[c] = "none" /\ granted[c] = {}
        /\ c \in inbox => peer[c] \in {"waiting", "gone"} /\ conn[c] \in {"recv", "hangup", "ended"}
        /\ using[c] # NoTarget => conn[c] \in {"device", "reply"}
        /\ conn[c] = "device" => using[c] # NoTarget
        /\ conn[c] \in {"dispatch", "swept", "device", "reply"} => peer[c] \in {"waiting", "gone"}
        /\ copying[c] # NoTarget =>
             peer[c] = "copying" /\ (conn[c] = "recv" \/ (Stopping /\ conn[c] \in {"hangup", "ended"}))

\* The connection's lease on the target stands.
Holds(c, t) == owner[t] \in granted[c] \cap table

\* Nobody but c will publish another frame of the target while c copies: whoever
\* has its lease by now took it in the last call its handler answers.
LastCall(c, t) ==
    /\ Stopping
    /\ \A d \in Conns \ {c} :
         owner[t] \in granted[d] => conn[d] \in {"reply", "hangup", "ended"} /\ using[d] = NoTarget

\* From the moment its lease is checked to the end of the copy, a connection is
\* the only one to publish the target's frames, but for those it is taken from.
Exclusive ==
    \A c \in Conns \ taken :
        /\ using[c] # NoTarget => Holds(c, using[c])
        /\ copying[c] # NoTarget => Holds(c, copying[c]) \/ LastCall(c, copying[c])

\* What an answer names is the frame it answers with.
AnswersItsOwn ==
    \A c \in Conns \ taken :
        using[c] # NoTarget /\ conn[c] = "reply" /\ using[c] \notin late =>
            shown[using[c]] \in {c, NoConn}

IInv == TypeOK /\ Standing /\ Apart /\ Placed
FInv == IInv /\ Exclusive /\ AnswersItsOwn /\ FrameIsOwn

----------------------------------------------------------------------------
(* Each action keeps the invariant *)

USE ServerAssumption DEF Stopping, Goes, broker, client, handler, frames, PeerStates,
                         ConnPoints, Phases, history, Table!Drop, Table!Held

LEMMA ConnectsKeeps == ASSUME IInv, NEW c \in Conns, Connects(c) PROVE IInv'
  BY DEF Connects, IInv, TypeOK, Standing, Apart, Placed

LEMMA SendsKeeps == ASSUME IInv, NEW c \in Conns, Sends(c) PROVE IInv'
  BY DEF Sends, IInv, TypeOK, Standing, Apart, Placed

LEMMA CopiesOutKeeps == ASSUME IInv, NEW c \in Conns, CopiesOut(c) PROVE IInv'
  BY DEF CopiesOut, IInv, TypeOK, Standing, Apart, Placed

LEMMA VanishesKeeps == ASSUME IInv, NEW c \in Conns, Vanishes(c) PROVE IInv'
  BY DEF Vanishes, IInv, TypeOK, Standing, Apart, Placed

LEMMA LapseKeeps == ASSUME IInv, NEW l \in LeaseIds, Lapse(l) PROVE IInv'
  BY DEF Lapse, IInv, TypeOK, Standing, Apart, Placed

LEMMA ReceivesKeeps == ASSUME IInv, NEW c \in Conns, Receives(c) PROVE IInv'
  BY DEF Receives, IInv, TypeOK, Standing, Apart, Placed

LEMMA SeesEOFKeeps == ASSUME IInv, NEW c \in Conns, SeesEOF(c) PROVE IInv'
  BY DEF SeesEOF, IInv, TypeOK, Standing, Apart, Placed

LEMMA SweepsKeeps == ASSUME IInv, NEW c \in Conns, Sweeps(c) PROVE IInv'
  BY DEF Sweeps, IInv, TypeOK, Standing, Apart, Placed

LEMMA SweepOneKeeps == ASSUME IInv, NEW c \in Conns, SweepOne(c) PROVE IInv'
  BY DEF SweepOne, Under, IInv, TypeOK, Standing, Apart, Placed, Releases, Raises

LEMMA StartLiveKeeps == ASSUME IInv, NEW c \in Conns, StartLive(c) PROVE IInv'
  BY DEF StartLive, IInv, TypeOK, Standing, Apart, Placed, Ready

LEMMA GrantKeeps == ASSUME IInv, NEW c \in Conns, Grant(c) PROVE IInv'
  <1> USE DEF IInv
  <1> PICK l \in LeaseIds, ts \in (SUBSET Targets) \ {{}} :
        /\ l \notin table /\ \A d \in Conns : l \notin granted[d] \cup due[d]
        /\ Table!Acquire(l, ts)
        /\ table' = table \cup {l}
        /\ restarts' = [restarts EXCEPT ![l] = ts \cap loops]
        /\ loops' = loops \ ts
        /\ granted' = [granted EXCEPT ![c] = granted[c] \cup {l}]
    BY DEF Grant
  <1>1. TypeOK'
    BY DEF TypeOK, Grant, Ready, Table!Acquire
  <1>2. Standing'
    <2> SUFFICES ASSUME NEW k \in LeaseIds
                 PROVE  k \in table' <=> \E t \in Targets : owner'[t] = k
      BY DEF Standing
    <2>1. owner' = [t \in Targets |-> IF t \in ts THEN l ELSE owner[t]]
      BY DEF Table!Acquire
    <2>2. CASE k = l
      <3>1. ts # {} /\ ts \subseteq Targets
        OBVIOUS
      <3>2. PICK t \in Targets : t \in ts
        BY <3>1
      <3> QED BY <2>1, <2>2, <3>2
    <2>3. CASE k # l
      <3>1. \A t \in Targets : owner[t] = k => t \notin ts
        BY <2>3, ServerAssumption DEF Table!Acquire
      <3> QED BY <2>1, <2>3, <3>1 DEF Standing, TypeOK
    <2> QED BY <2>2, <2>3
  <1>3. Apart'
    BY DEF TypeOK, Apart
  <1>4. Placed'
    BY DEF TypeOK, Placed, Grant, Ready
  <1> QED BY <1>1, <1>2, <1>3, <1>4

LEMMA RenewKeeps == ASSUME IInv, NEW c \in Conns, Renew(c) PROVE IInv'
  BY DEF Renew, IInv, TypeOK, Standing, Apart, Placed, Ready

LEMMA AnsweredKeeps == ASSUME IInv, NEW c \in Conns, Answered(c) PROVE IInv'
  BY DEF Answered, IInv, TypeOK, Standing, Apart, Placed, Ready

LEMMA ReleaseKeeps == ASSUME IInv, NEW c \in Conns, Release(c) PROVE IInv'
  BY DEF Release, IInv, TypeOK, Standing, Apart, Placed, Releases, Raises

LEMMA DeviceCallKeeps == ASSUME IInv, NEW c \in Conns, DeviceCall(c) PROVE IInv'
  BY DEF DeviceCall, IInv, TypeOK, Standing, Apart, Placed, Ready, MayCall

LEMMA DeviceReturnsKeeps == ASSUME IInv, NEW c \in Conns, DeviceReturns(c) PROVE IInv'
  BY DEF DeviceReturns, IInv, TypeOK, Standing, Apart, Placed

LEMMA RepliesKeeps == ASSUME IInv, NEW c \in Conns, Replies(c) PROVE IInv'
  BY DEF Replies, IInv, TypeOK, Standing, Apart, Placed, AfterBrokenReply

LEMMA HangsUpKeeps == ASSUME IInv, NEW c \in Conns, HangsUp(c) PROVE IInv'
  BY DEF HangsUp, IInv, TypeOK, Standing, Apart, Placed, Releases, Raises

LEMMA EndsKeeps == ASSUME IInv, NEW c \in Conns, Ends(c) PROVE IInv'
  BY DEF Ends, IInv, TypeOK, Standing, Apart, Placed

LEMMA StopBeginsKeeps == ASSUME IInv, StopBegins PROVE IInv'
  BY DEF StopBegins, IInv, TypeOK, Standing, Apart, Placed

LEMMA RetiresKeeps == ASSUME IInv, Retires PROVE IInv'
  BY DEF Retires, IInv, TypeOK, Standing, Apart, Placed

LEMMA ParksKeeps == ASSUME IInv, Parks PROVE IInv'
  BY DEF Parks, IInv, TypeOK, Standing, Apart, Placed

----------------------------------------------------------------------------
(* Each action keeps a connection's frames its own *)

LEMMA ConnectsOwns == ASSUME FInv, NEW c \in Conns, Connects(c) PROVE FInv'
  BY ConnectsKeeps
     DEF Connects, IInv, TypeOK, Standing, Apart, Placed, FInv, Exclusive,
         AnswersItsOwn, FrameIsOwn, Holds, LastCall

LEMMA SendsOwns == ASSUME FInv, NEW c \in Conns, Sends(c) PROVE FInv'
  BY SendsKeeps
     DEF Sends, IInv, TypeOK, Standing, Apart, Placed, FInv, Exclusive,
         AnswersItsOwn, FrameIsOwn, Holds, LastCall

LEMMA CopiesOutOwns == ASSUME FInv, NEW c \in Conns, CopiesOut(c) PROVE FInv'
  BY CopiesOutKeeps
     DEF CopiesOut, IInv, TypeOK, Standing, Apart, Placed, FInv, Exclusive,
         AnswersItsOwn, FrameIsOwn, Holds, LastCall

LEMMA VanishesOwns == ASSUME FInv, NEW c \in Conns, Vanishes(c) PROVE FInv'
  BY VanishesKeeps
     DEF Vanishes, IInv, TypeOK, Standing, Apart, Placed, FInv, Exclusive,
         AnswersItsOwn, FrameIsOwn, Holds, LastCall

LEMMA LapseOwns == ASSUME FInv, NEW l \in LeaseIds, Lapse(l) PROVE FInv'
  BY LapseKeeps
     DEF Lapse, IInv, TypeOK, Standing, Apart, Placed, FInv, Exclusive,
         AnswersItsOwn, FrameIsOwn, Holds, LastCall

LEMMA ReceivesOwns == ASSUME FInv, NEW c \in Conns, Receives(c) PROVE FInv'
  BY ReceivesKeeps
     DEF Receives, IInv, TypeOK, Standing, Apart, Placed, FInv, Exclusive,
         AnswersItsOwn, FrameIsOwn, Holds, LastCall

LEMMA SeesEOFOwns == ASSUME FInv, NEW c \in Conns, SeesEOF(c) PROVE FInv'
  BY SeesEOFKeeps
     DEF SeesEOF, IInv, TypeOK, Standing, Apart, Placed, FInv, Exclusive,
         AnswersItsOwn, FrameIsOwn, Holds, LastCall

LEMMA SweepsOwns == ASSUME FInv, NEW c \in Conns, Sweeps(c) PROVE FInv'
  BY SweepsKeeps
     DEF Sweeps, IInv, TypeOK, Standing, Apart, Placed, FInv, Exclusive,
         AnswersItsOwn, FrameIsOwn, Holds, LastCall

LEMMA SweepOneOwns == ASSUME FInv, NEW c \in Conns, SweepOne(c) PROVE FInv'
  <1> USE DEF FInv, IInv
  <1>0. IInv'
    BY SweepOneKeeps
  <1>2. Exclusive'
    BY DEF TypeOK, Standing, Apart, Placed, Exclusive, Holds, LastCall,
           SweepOne, Under, Releases, Raises
  <1>3. AnswersItsOwn'
    BY DEF TypeOK, Placed, Exclusive, Holds, LastCall, AnswersItsOwn, SweepOne, Under, Releases, Raises
  <1>4. FrameIsOwn'
    BY DEF TypeOK, Apart, Placed, Exclusive, Holds, LastCall, AnswersItsOwn, FrameIsOwn,
           SweepOne, Under, Releases, Raises
  <1> QED BY <1>0, <1>2, <1>3, <1>4

LEMMA StartLiveOwns == ASSUME FInv, NEW c \in Conns, StartLive(c) PROVE FInv'
  BY StartLiveKeeps
     DEF StartLive, IInv, TypeOK, Standing, Apart, Placed, FInv, Exclusive,
         AnswersItsOwn, FrameIsOwn, Holds, LastCall, Ready

LEMMA GrantOwns == ASSUME FInv, NEW c \in Conns, Grant(c) PROVE FInv'
  <1> USE DEF FInv, IInv
  <1>0. IInv'
    BY GrantKeeps
  <1>2. Exclusive'
    BY DEF TypeOK, Standing, Apart, Placed, Exclusive, Holds, LastCall, Grant,
           Ready, Table!Acquire, Table!Held
  <1>3. AnswersItsOwn'
    BY DEF TypeOK, Placed, Exclusive, Holds, LastCall, AnswersItsOwn, Grant, Ready,
           Table!Acquire, Table!Held
  <1>4. FrameIsOwn'
    BY DEF TypeOK, Apart, Placed, Exclusive, Holds, LastCall, AnswersItsOwn, FrameIsOwn, Grant,
           Ready, Table!Acquire, Table!Held
  <1> QED BY <1>0, <1>2, <1>3, <1>4

LEMMA RenewOwns == ASSUME FInv, NEW c \in Conns, Renew(c) PROVE FInv'
  BY RenewKeeps
     DEF Renew, IInv, TypeOK, Standing, Apart, Placed, FInv, Exclusive,
         AnswersItsOwn, FrameIsOwn, Holds, LastCall, Ready

LEMMA AnsweredOwns == ASSUME FInv, NEW c \in Conns, Answered(c) PROVE FInv'
  BY AnsweredKeeps
     DEF Answered, IInv, TypeOK, Standing, Apart, Placed, FInv, Exclusive,
         AnswersItsOwn, FrameIsOwn, Holds, LastCall, Ready

LEMMA ReleaseOwns == ASSUME FInv, NEW c \in Conns, Release(c) PROVE FInv'
  BY ReleaseKeeps
     DEF Release, IInv, TypeOK, Standing, Apart, Placed, FInv, Exclusive,
         AnswersItsOwn, FrameIsOwn, Holds, LastCall, Releases, Raises

LEMMA DeviceCallOwns == ASSUME FInv, NEW c \in Conns, DeviceCall(c) PROVE FInv'
  BY DeviceCallKeeps
     DEF DeviceCall, IInv, TypeOK, Standing, Apart, Placed, FInv, Exclusive,
         AnswersItsOwn, FrameIsOwn, Holds, LastCall, Ready, MayCall

LEMMA DeviceReturnsOwns ==
    ASSUME FInv, NEW c \in Conns, DeviceReturns(c)
    PROVE  FInv'
  BY DeviceReturnsKeeps
     DEF DeviceReturns, IInv, TypeOK, Standing, Apart, Placed, FInv, Exclusive,
         AnswersItsOwn, FrameIsOwn, Holds, LastCall

LEMMA RepliesOwns == ASSUME FInv, NEW c \in Conns, Replies(c) PROVE FInv'
  BY RepliesKeeps
     DEF Replies, IInv, TypeOK, Standing, Apart, Placed, FInv, Exclusive,
         AnswersItsOwn, FrameIsOwn, Holds, LastCall, AfterBrokenReply

LEMMA HangsUpOwns == ASSUME FInv, NEW c \in Conns, HangsUp(c) PROVE FInv'
  <1> USE DEF FInv, IInv
  <1>0. IInv'
    BY HangsUpKeeps
  <1>2. Exclusive'
    BY DEF TypeOK, Standing, Apart, Placed, Exclusive, Holds, LastCall,
           HangsUp, Releases, Raises
  <1>3. AnswersItsOwn'
    BY DEF TypeOK, Placed, Exclusive, Holds, LastCall, AnswersItsOwn, HangsUp, Releases, Raises
  <1>4. FrameIsOwn'
    BY DEF TypeOK, Apart, Placed, Exclusive, Holds, LastCall, AnswersItsOwn, FrameIsOwn,
           HangsUp, Releases, Raises
  <1> QED BY <1>0, <1>2, <1>3, <1>4

LEMMA EndsOwns == ASSUME FInv, NEW c \in Conns, Ends(c) PROVE FInv'
  BY EndsKeeps
     DEF Ends, IInv, TypeOK, Standing, Apart, Placed, FInv, Exclusive,
         AnswersItsOwn, FrameIsOwn, Holds, LastCall

LEMMA StopBeginsOwns == ASSUME FInv, StopBegins PROVE FInv'
  BY StopBeginsKeeps
     DEF StopBegins, IInv, TypeOK, Standing, Apart, Placed, FInv, Exclusive,
         AnswersItsOwn, FrameIsOwn, Holds, LastCall

LEMMA RetiresOwns == ASSUME FInv, Retires PROVE FInv'
  BY RetiresKeeps
     DEF Retires, IInv, TypeOK, Standing, Apart, Placed, FInv, Exclusive,
         AnswersItsOwn, FrameIsOwn, Holds, LastCall

LEMMA ParksOwns == ASSUME FInv, Parks PROVE FInv'
  BY ParksKeeps
     DEF Parks, IInv, TypeOK, Standing, Apart, Placed, FInv, Exclusive,
         AnswersItsOwn, FrameIsOwn, Holds, LastCall

----------------------------------------------------------------------------
(* The theorems *)

LEMMA InitKeepsIt == Init => FInv /\ LeasesHaveAHandler
  BY DEF Init, Table!TableInit, FInv, IInv, TypeOK, Standing, Apart, Placed,
         Exclusive, AnswersItsOwn, FrameIsOwn, LeasesHaveAHandler

LEMMA NextKeepsIt == IInv /\ [Next]_vars => IInv'
  <1> SUFFICES ASSUME IInv, [Next]_vars PROVE IInv'
    OBVIOUS
  <1>1. ASSUME NEW c \in Conns, Handler(c) PROVE IInv'
    BY <1>1, ReceivesKeeps, SeesEOFKeeps, SweepsKeeps, SweepOneKeeps, StartLiveKeeps,
       GrantKeeps, RenewKeeps, AnsweredKeeps, ReleaseKeeps, DeviceCallKeeps,
       DeviceReturnsKeeps, RepliesKeeps, HangsUpKeeps, EndsKeeps DEF Handler
  <1>2. ASSUME NEW c \in Conns, Peer(c) PROVE IInv'
    BY <1>2, ConnectsKeeps, SendsKeeps, CopiesOutKeeps, VanishesKeeps DEF Peer
  <1>3. CASE UNCHANGED vars
    BY <1>3 DEF vars, IInv, TypeOK, Standing, Apart, Placed
  <1> QED BY <1>1, <1>2, <1>3, LapseKeeps, StopBeginsKeeps, RetiresKeeps, ParksKeeps DEF Next

LEMMA NextOwns == FInv /\ [Next]_vars => FInv'
  <1> SUFFICES ASSUME FInv, [Next]_vars PROVE FInv'
    OBVIOUS
  <1>1. ASSUME NEW c \in Conns, Handler(c) PROVE FInv'
    BY <1>1, ReceivesOwns, SeesEOFOwns, SweepsOwns, SweepOneOwns, StartLiveOwns, GrantOwns,
       RenewOwns, AnsweredOwns, ReleaseOwns, DeviceCallOwns, DeviceReturnsOwns,
       RepliesOwns, HangsUpOwns, EndsOwns DEF Handler
  <1>2. ASSUME NEW c \in Conns, Peer(c) PROVE FInv'
    BY <1>2, ConnectsOwns, SendsOwns, CopiesOutOwns, VanishesOwns DEF Peer
  <1>3. CASE UNCHANGED vars
    BY <1>3 DEF vars, FInv, IInv, TypeOK, Standing, Apart, Placed, Exclusive,
                Holds, LastCall, AnswersItsOwn, FrameIsOwn
  <1> QED BY <1>1, <1>2, <1>3, LapseOwns, StopBeginsOwns, RetiresOwns, ParksOwns DEF Next

\* Every variable keeps its type, a lease of the table has targets and a claimed
\* target a lease of the table, and no two connections were granted one lease:
\* whatever lapses, raises or is called late.
THEOREM TableIsKept == Spec => []IInv
  <1>1. Init => IInv
    BY InitKeepsIt DEF FInv
  <1> QED BY <1>1, NextKeepsIt, PTL DEF Spec

\* Every variable keeps its type.
THEOREM TypeCorrect == Spec => []TypeOK
  <1>1. IInv => TypeOK
    BY DEF IInv
  <1> QED BY <1>1, TableIsKept, PTL

\* Where no restart raises, every lease of the table was granted to a connection
\* whose handler still runs, and will release it: however its client left.
THEOREM HandlersRelease ==
    ASSUME Poisoned = {} PROVE Spec => []LeasesHaveAHandler
  <1>1. IInv /\ LeasesHaveAHandler /\ [Next]_vars => LeasesHaveAHandler'
    <2> SUFFICES ASSUME IInv, LeasesHaveAHandler, [Next]_vars PROVE LeasesHaveAHandler'
      OBVIOUS
    <2> USE DEF IInv, TypeOK, Placed, LeasesHaveAHandler
    <2>1. ASSUME NEW c \in Conns, Receives(c) \/ SeesEOF(c) \/ Sweeps(c) \/ SweepOne(c)
          PROVE  LeasesHaveAHandler'
      BY <2>1 DEF Receives, SeesEOF, Sweeps, SweepOne, Under, Releases, Raises
    <2>2. ASSUME NEW c \in Conns, StartLive(c) \/ Renew(c) \/ Answered(c) \/ DeviceCall(c) \/ DeviceReturns(c) \/ Replies(c)
          PROVE  LeasesHaveAHandler'
      BY <2>2
         DEF StartLive, Renew, Answered, DeviceCall, DeviceReturns, Replies, AfterBrokenReply
    <2>3. ASSUME NEW c \in Conns, Grant(c)
          PROVE  LeasesHaveAHandler'
      BY <2>3 DEF Grant, Ready
    <2>4. ASSUME NEW c \in Conns, Release(c) \/ HangsUp(c)
          PROVE  LeasesHaveAHandler'
      BY <2>4 DEF Release, HangsUp, Releases, Raises
    <2>5. ASSUME NEW c \in Conns, Ends(c)
          PROVE  LeasesHaveAHandler'
      BY <2>5 DEF Ends
    <2>6. ASSUME NEW c \in Conns, Peer(c)
          PROVE  LeasesHaveAHandler'
      BY <2>6 DEF Peer, Connects, Sends, CopiesOut, Vanishes
    <2>7. CASE \/ \E l \in LeaseIds : Lapse(l)
               \/ StopBegins \/ Retires \/ Parks \/ UNCHANGED vars
      BY <2>7 DEF Lapse, StopBegins, Retires, Parks, vars
    <2> QED BY <2>1, <2>2, <2>3, <2>4, <2>5, <2>6, <2>7 DEF Next, Handler
  <1>2. Init => LeasesHaveAHandler
    BY InitKeepsIt
  <1> QED BY <1>1, <1>2, TableIsKept, PTL DEF Spec

\* The segment a client copies from holds the frame it was answered with, with one
\* writer per target and whoever calls, lapses or hangs up: but where the lease was
\* reclaimed under this very call, or the last frame is of a call that outlived its own.
THEOREM FramesAreOwn == Spec => []FrameIsOwn
  <1>1. Init => FInv
    BY InitKeepsIt
  <1>2. FInv /\ [Next]_vars => FInv'
    BY NextOwns
  <1>3. FInv => FrameIsOwn
    BY DEF FInv
  <1> QED BY <1>1, <1>2, <1>3, PTL DEF Spec

\* The server's handlers, sweeps and hang-ups together keep the promise the
\* broker makes of custody: leases are taken whole and given back whole.
THEOREM KeepsThePromise == Spec => Table!TableSpec
  <1>1. Init => Table!TableInit
    BY DEF Init
  <1>2. IInv /\ [Next]_vars => [Table!TableNext]_owner
    <2> SUFFICES ASSUME IInv, [Next]_vars, owner' # owner PROVE Table!TableNext
      OBVIOUS
    <2>1. ASSUME NEW l \in LeaseIds, Releases(l) PROVE Table!TableNext
      BY <2>1 DEF Releases, Table!TableNext
    <2>2. ASSUME NEW c \in Conns, Handler(c) PROVE Table!TableNext
      <3>1. CASE SweepOne(c)
        <4>1. due[c] \subseteq LeaseIds
          BY DEF IInv, TypeOK
        <4> QED BY <2>1, <3>1, <4>1 DEF SweepOne
      <3>2. CASE Release(c) \/ HangsUp(c)
        <4>1. granted[c] \subseteq LeaseIds
          BY DEF IInv, TypeOK
        <4> QED BY <2>1, <3>2, <4>1 DEF Release, HangsUp
      <3>3. CASE Grant(c)
        BY <3>3 DEF Grant, Table!TableNext
      <3>4. CASE \/ Receives(c) \/ SeesEOF(c) \/ Sweeps(c) \/ StartLive(c) \/ Renew(c)
                 \/ Answered(c) \/ DeviceCall(c) \/ DeviceReturns(c) \/ Replies(c) \/ Ends(c)
        BY <3>4 DEF Receives, SeesEOF, Sweeps, StartLive, Renew, Answered, DeviceCall,
                    DeviceReturns, Replies, Ends
      <3> QED BY <2>2, <3>1, <3>2, <3>3, <3>4 DEF Handler
    <2>3. CASE \/ \E c \in Conns : Peer(c)
               \/ \E l \in LeaseIds : Lapse(l)
               \/ StopBegins \/ Retires \/ Parks \/ UNCHANGED vars
      BY <2>3
         DEF Peer, Connects, Sends, CopiesOut, Vanishes, Lapse, StopBegins, Retires, Parks, vars
    <2> QED BY <2>2, <2>3 DEF Next
  <1> QED BY <1>1, <1>2, TableIsKept, PTL DEF Spec, Table!TableSpec

================================================================================
