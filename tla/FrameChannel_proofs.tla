-------------------------- MODULE FrameChannel_proofs --------------------------
(***************************************************************************)
(* FrameChannel for any number of clients, threads and frame sizes: a reply *)
(* is taken by the thread that asked, a frame copied while it is still the  *)
(* one in the segment, and one admitted request is at the device at a time. *)
(***************************************************************************)
EXTENDS FrameChannel, FiniteSetTheorems, TLAPS

\* A thread in a call has an open connection, holds the connection's lock from its send
\* to its reply, and the frame lock from before its send until it has copied the frame.
Holds(t) ==
    /\ pc[t] # "idle" => link[ProcessOf[t]] = "open"
    /\ pc[t] = "wait" => lock[ProcessOf[t]] = t
    /\ pc[t] \in {"call", "wait"} /\ wants[t] = "frame" => frameLock[ProcessOf[t]] = t
    /\ pc[t] = "copy" => frameLock[ProcessOf[t]] = t
    /\ pc[t] = "frame" => wants[t] = "frame"

\* And a lock that is held is held by such a thread.
Held(k) ==
    /\ lock[k] # Nobody => pc[lock[k]] = "wait" /\ ProcessOf[lock[k]] = k
    /\ frameLock[k] # Nobody =>
        pc[frameLock[k]] \in {"call", "wait", "copy"} /\ ProcessOf[frameLock[k]] = k

Locking == (\A t \in Threads : Holds(t)) /\ (\A k \in Clients : Held(k))

\* The call and the reply on an open connection are those of the thread with its lock,
\* and never both there; a connection that has ended leaves nothing behind.
Wired ==
    \A k \in Clients :
        /\ handler[k] = "invoke" => request[k] # Nobody
        /\ link[k] = "none" => request[k] = Nobody /\ answer[k] = Nobody /\ named[k] = 0
        /\ link[k] = "open" =>
            /\ request[k] # Nobody => lock[k] = request[k] /\ answer[k] = Nobody
            /\ answer[k] # Nobody => lock[k] = answer[k]
            /\ answer[k] = Nobody => named[k] = 0

\* A connection that was not refused is the one in use.
Admitted ==
    \A k \in Clients :
        /\ link[k] = "none" <=> handler[k] = "none"
        /\ handler[k] # "none" /\ k \notin refused => inUse = k
        /\ handler[k] = "none" => inUse # k
        /\ handler[k] = "ended" => link[k] = "gone"

\* The frame a reply names, or a thread is copying, is the writer's last, and was made
\* for that thread over the connection in use.
Pointed ==
    /\ \A k \in Clients : link[k] = "open" /\ named[k] # 0 =>
        /\ named[k] = segment /\ content = answer[k] /\ wants[answer[k]] = "frame"
        /\ inUse = k
    /\ \A t \in Threads : pc[t] = "copy" =>
        ref[t] = segment /\ content = t /\ inUse = ProcessOf[t]

IInv == TypeOK /\ Locking /\ Wired /\ Admitted /\ Pointed


\* IInv holds before any client has connected.
LEMMA InitIsGood == Init => IInv
  BY ChannelAssumption
  DEF Init, IInv, TypeOK, Links, HandlerPoints, Points, Locking, Holds, Held, Wired,
      Admitted, Pointed

\* A thread starts a call on a connection it sees open.
LEMMA CallsKeeps == ASSUME IInv, NEW t \in Threads, Calls(t) PROVE IInv'
  <1>1. TypeOK'
    BY ChannelAssumption DEF IInv, TypeOK, Links, HandlerPoints, Points, Calls, Goes,
       links, wires, writer
  <1>2. Locking'
    BY ChannelAssumption DEF IInv, TypeOK, Links, HandlerPoints, Points, Locking, Holds,
       Held, Calls, Goes, links, wires, writer
  <1>3. Wired'
    BY ChannelAssumption DEF IInv, TypeOK, Links, HandlerPoints, Points, Locking, Holds,
       Held, Wired, Admitted, Calls, Goes, links, wires, writer
  <1>4. Admitted'
    BY ChannelAssumption DEF IInv, TypeOK, Links, HandlerPoints, Points, Wired, Admitted,
       Calls, Goes, links, wires, writer
  <1>5. Pointed'
    BY ChannelAssumption DEF IInv, TypeOK, Links, HandlerPoints, Points, Locking, Holds,
       Held, Wired, Admitted, Pointed, Calls, Goes, links, wires, writer
  <1> QED BY <1>1, <1>2, <1>3, <1>4, <1>5 DEF IInv

\* A call for a frame takes the frame lock before the connection's.
LEMMA LocksFrameKeeps == ASSUME IInv, NEW t \in Threads, LocksFrame(t) PROVE IInv'
  <1>1. TypeOK'
    BY ChannelAssumption DEF IInv, TypeOK, Links, HandlerPoints, Points, LocksFrame, Goes,
       links, wires, writer
  <1>2. Locking'
    <2>1. ASSUME NEW u \in Threads PROVE Holds(u)'
      <3>1. Holds(t) /\ Holds(u) /\ Held(ProcessOf[t])
        BY ChannelAssumption DEF IInv, Locking
      <3>2. CASE u = t
        BY <3>1, <3>2, ChannelAssumption DEF IInv, TypeOK, Links, HandlerPoints, Points,
           Holds, Held, LocksFrame, Goes, links, wires, writer
      <3>3. CASE u # t
        BY <3>1, <3>3, ChannelAssumption DEF IInv, TypeOK, Links, HandlerPoints, Points,
           Holds, Held, LocksFrame, Goes, links, wires, writer
      <3> QED BY <3>2, <3>3
    <2>2. ASSUME NEW j \in Clients PROVE Held(j)'
      BY ChannelAssumption DEF IInv, TypeOK, Links, HandlerPoints, Points, Locking, Holds,
         Held, LocksFrame, Goes, links, wires, writer
    <2> QED BY <2>1, <2>2 DEF Locking
  <1>3. Wired'
    BY ChannelAssumption DEF IInv, TypeOK, Links, HandlerPoints, Points, Locking, Holds,
       Held, Wired, Admitted, LocksFrame, Goes, links, wires, writer
  <1>4. Admitted'
    BY ChannelAssumption DEF IInv, TypeOK, Links, HandlerPoints, Points, Wired, Admitted,
       LocksFrame, Goes, links, wires, writer
  <1>5. Pointed'
    BY ChannelAssumption DEF IInv, TypeOK, Links, HandlerPoints, Points, Locking, Holds,
       Held, Wired, Admitted, Pointed, LocksFrame, Goes, links, wires, writer
  <1> QED BY <1>1, <1>2, <1>3, <1>4, <1>5 DEF IInv

\* A thread with the connection's lock puts its call on an empty wire.
LEMMA SendsKeeps == ASSUME IInv, NEW t \in Threads, Sends(t) PROVE IInv'
  <1>1. TypeOK'
    BY ChannelAssumption DEF IInv, TypeOK, Links, HandlerPoints, Points, Sends, Goes,
       links, writer
  <1>2. Locking'
    <2>1. ASSUME NEW u \in Threads PROVE Holds(u)'
      <3>1. Holds(t) /\ Holds(u) /\ Held(ProcessOf[t])
        BY ChannelAssumption DEF IInv, Locking
      <3>2. CASE u = t
        BY <3>1, <3>2, ChannelAssumption DEF IInv, TypeOK, Links, HandlerPoints, Points,
           Holds, Held, Sends, Goes, links, writer
      <3>3. CASE u # t
        BY <3>1, <3>3, ChannelAssumption DEF IInv, TypeOK, Links, HandlerPoints, Points,
           Holds, Held, Sends, Goes, links, writer
      <3> QED BY <3>2, <3>3
    <2>2. ASSUME NEW j \in Clients PROVE Held(j)'
      BY ChannelAssumption DEF IInv, TypeOK, Links, HandlerPoints, Points, Locking, Holds,
         Held, Sends, Goes, links, writer
    <2> QED BY <2>1, <2>2 DEF Locking
  <1>3. Wired'
    BY ChannelAssumption DEF IInv, TypeOK, Links, HandlerPoints, Points, Locking, Holds,
       Held, Wired, Admitted, Sends, Goes, links, writer
  <1>4. Admitted'
    BY ChannelAssumption DEF IInv, TypeOK, Links, HandlerPoints, Points, Wired, Admitted,
       Sends, Goes, links, writer
  <1>5. Pointed'
    BY ChannelAssumption DEF IInv, TypeOK, Links, HandlerPoints, Points, Locking, Holds,
       Held, Wired, Admitted, Pointed, Sends, Goes, links, writer
  <1> QED BY <1>1, <1>2, <1>3, <1>4, <1>5 DEF IInv

\* The waiting thread takes its own reply; a frame it names is the frame lock's to guard.
LEMMA ReceivesKeeps == ASSUME IInv, NEW t \in Threads, Receives(t) PROVE IInv'
  <1>1. TypeOK'
    <2>1. 0 \in 0 .. MaxSegments
      BY ChannelAssumption
    <2>2. ProcessOf[t] \in Clients /\ named[ProcessOf[t]] \in 0 .. MaxSegments
      BY ChannelAssumption DEF IInv, TypeOK
    <2>3. ref' \in [Threads -> 0 .. MaxSegments]
      BY <2>1, <2>2 DEF IInv, TypeOK, Receives, Goes, KeepsFrameLock, links, writer
    <2>4. pc' \in [Threads -> Points]
      BY DEF IInv, TypeOK, Points, Receives, Goes, KeepsFrameLock, links, writer
    <2>5. lock' \in [Clients -> Threads \cup {Nobody}]
      BY DEF IInv, TypeOK, Receives, Goes, KeepsFrameLock, links, writer
    <2>6. frameLock' \in [Clients -> Threads \cup {Nobody}]
      BY DEF IInv, TypeOK, Receives, Goes, KeepsFrameLock, links, writer
    <2>7. answer' \in [Clients -> Threads \cup {Nobody}]
      BY DEF IInv, TypeOK, Receives, Goes, KeepsFrameLock, links, writer
    <2>8. named' \in [Clients -> 0 .. MaxSegments]
      BY <2>1 DEF IInv, TypeOK, Receives, Goes, KeepsFrameLock, links, writer
    <2> QED
      BY <2>3, <2>4, <2>5, <2>6, <2>7, <2>8 DEF IInv, TypeOK, Receives, Goes, KeepsFrameLock,
         links, writer
  <1>2. Locking'
    <2> DEFINE k == ProcessOf[t]
    <2>1. k \in Clients /\ lock[k] = t /\ answer[k] = t
      BY ChannelAssumption DEF IInv, TypeOK, Locking, Holds, Wired, Receives
    <2>2. named[k] # 0 => frameLock[k] = t
      BY <2>1 DEF IInv, Locking, Holds, Pointed, Receives
    <2>3. /\ lock' = [lock EXCEPT ![k] = Nobody]
          /\ pc' = [pc EXCEPT ![t] = IF named[k] = 0 THEN "idle" ELSE "copy"]
          /\ frameLock' = IF frameLock[k] = t /\ named[k] = 0
                           THEN [frameLock EXCEPT ![k] = Nobody] ELSE frameLock
          /\ pc[t] = "wait" /\ link[k] = "open"
          /\ UNCHANGED <<link, wants>>
      BY DEF Receives, Goes, KeepsFrameLock, links
    <2>4. /\ lock \in [Clients -> Threads \cup {Nobody}] /\ pc \in [Threads -> Points]
          /\ frameLock \in [Clients -> Threads \cup {Nobody}]
      BY DEF IInv, TypeOK
    <2> HIDE DEF k
    <2>5. ASSUME NEW u \in Threads PROVE Holds(u)'
      <3>1. Holds(t) /\ Holds(u) /\ ProcessOf[u] \in Clients
        BY ChannelAssumption DEF IInv, Locking
      <3>2. CASE u = t
        BY <2>1, <2>2, <2>3, <2>4, <3>1, <3>2 DEF Holds, Points, k
      <3>3. CASE u # t
        BY <2>1, <2>2, <2>3, <2>4, <3>1, <3>3, ChannelAssumption DEF Holds, Points
      <3> QED BY <3>2, <3>3
    <2>6. ASSUME NEW j \in Clients PROVE Held(j)'
      BY ChannelAssumption DEF IInv, TypeOK, Links, HandlerPoints, Points, Locking, Holds,
         Held, Receives, Goes, KeepsFrameLock, links, writer
    <2> QED BY <2>5, <2>6 DEF Locking
  <1>3. Wired'
    BY ChannelAssumption DEF IInv, TypeOK, Links, HandlerPoints, Points, Locking, Holds,
       Held, Wired, Admitted, Receives, Goes, KeepsFrameLock, links, writer
  <1>4. Admitted'
    BY ChannelAssumption DEF IInv, TypeOK, Links, HandlerPoints, Points, Wired, Admitted,
       Receives, Goes, KeepsFrameLock, links, writer
  <1>5. Pointed'
    <2> DEFINE k == ProcessOf[t]
    <2>1. k \in Clients /\ lock[k] = t /\ answer[k] = t /\ link[k] = "open"
      BY ChannelAssumption DEF IInv, TypeOK, Locking, Holds, Wired, Receives
    <2>2. named[k] # 0 => named[k] = segment /\ content = t /\ inUse = k
      BY <2>1 DEF IInv, Pointed
    <2>3. /\ pc' = [pc EXCEPT ![t] = IF named[k] = 0 THEN "idle" ELSE "copy"]
          /\ ref' = [ref EXCEPT ![t] = named[k]]
          /\ named' = [named EXCEPT ![k] = 0] /\ answer' = [answer EXCEPT ![k] = Nobody]
          /\ UNCHANGED <<link, inUse, wants, segment, content>>
      BY DEF Receives, Goes, links, writer
    <2>4. /\ pc \in [Threads -> Points] /\ ref \in [Threads -> 0 .. MaxSegments]
          /\ named \in [Clients -> 0 .. MaxSegments]
          /\ answer \in [Clients -> Threads \cup {Nobody}]
      BY DEF IInv, TypeOK
    <2>5. Pointed
      BY DEF IInv
    <2> QED BY <2>1, <2>2, <2>3, <2>4, <2>5 DEF Pointed
  <1> QED BY <1>1, <1>2, <1>3, <1>4, <1>5 DEF IInv

\* A copy ends with the frame lock free.
LEMMA CopiesOutKeeps == ASSUME IInv, NEW t \in Threads, CopiesOut(t) PROVE IInv'
  <1>1. TypeOK'
    <2>1. 0 \in 0 .. MaxSegments
      BY ChannelAssumption
    <2>2. ProcessOf[t] \in Clients /\ named[ProcessOf[t]] \in 0 .. MaxSegments
      BY ChannelAssumption DEF IInv, TypeOK
    <2>3. ref' \in [Threads -> 0 .. MaxSegments]
      BY <2>1, <2>2 DEF IInv, TypeOK, CopiesOut, Goes, links, wires, writer
    <2>4. pc' \in [Threads -> Points]
      BY DEF IInv, TypeOK, Points, CopiesOut, Goes, links, wires, writer
    <2>5. lock' \in [Clients -> Threads \cup {Nobody}]
      BY DEF IInv, TypeOK, CopiesOut, Goes, links, wires, writer
    <2>6. frameLock' \in [Clients -> Threads \cup {Nobody}]
      BY DEF IInv, TypeOK, CopiesOut, Goes, links, wires, writer
    <2>7. answer' \in [Clients -> Threads \cup {Nobody}]
      BY DEF IInv, TypeOK, CopiesOut, Goes, links, wires, writer
    <2>8. named' \in [Clients -> 0 .. MaxSegments]
      BY <2>1 DEF IInv, TypeOK, CopiesOut, Goes, links, wires, writer
    <2> QED
      BY <2>3, <2>4, <2>5, <2>6, <2>7, <2>8 DEF IInv, TypeOK, CopiesOut, Goes, links, wires,
         writer
  <1>2. Locking'
    <2>1. ASSUME NEW u \in Threads PROVE Holds(u)'
      <3>1. Holds(t) /\ Holds(u) /\ Held(ProcessOf[t])
        BY ChannelAssumption DEF IInv, Locking
      <3>2. CASE u = t
        BY <3>1, <3>2, ChannelAssumption DEF IInv, TypeOK, Links, HandlerPoints, Points,
           Holds, Held, CopiesOut, Goes, links, wires, writer
      <3>3. CASE u # t
        BY <3>1, <3>3, ChannelAssumption DEF IInv, TypeOK, Links, HandlerPoints, Points,
           Holds, Held, CopiesOut, Goes, links, wires, writer
      <3> QED BY <3>2, <3>3
    <2>2. ASSUME NEW j \in Clients PROVE Held(j)'
      BY ChannelAssumption DEF IInv, TypeOK, Links, HandlerPoints, Points, Locking, Holds,
         Held, CopiesOut, Goes, links, wires, writer
    <2> QED BY <2>1, <2>2 DEF Locking
  <1>3. Wired'
    BY ChannelAssumption DEF IInv, TypeOK, Links, HandlerPoints, Points, Locking, Holds,
       Held, Wired, Admitted, CopiesOut, Goes, links, wires, writer
  <1>4. Admitted'
    BY ChannelAssumption DEF IInv, TypeOK, Links, HandlerPoints, Points, Wired, Admitted,
       CopiesOut, Goes, links, wires, writer
  <1>5. Pointed'
    BY ChannelAssumption DEF IInv, TypeOK, Links, HandlerPoints, Points, Locking, Holds,
       Held, Wired, Admitted, Pointed, CopiesOut, Goes, links, wires, writer
  <1> QED BY <1>1, <1>2, <1>3, <1>4, <1>5 DEF IInv

\* A new connection finds the target free, or is refused.
LEMMA ConnectsKeeps == ASSUME IInv, NEW k \in Clients, Connects(k) PROVE IInv'
  <1>1. TypeOK'
    BY ChannelAssumption DEF IInv, TypeOK, Links, HandlerPoints, Points, Connects, Admits,
       wires, threads, writer
  <1>2. Locking'
    BY ChannelAssumption DEF IInv, TypeOK, Links, HandlerPoints, Points, Locking, Holds,
       Held, Connects, Admits, wires, threads, writer
  <1>3. Wired'
    BY ChannelAssumption DEF IInv, TypeOK, Links, HandlerPoints, Points, Locking, Holds,
       Held, Wired, Admitted, Connects, Admits, wires, threads, writer
  <1>4. Admitted'
    BY ChannelAssumption DEF IInv, TypeOK, Links, HandlerPoints, Points, Wired, Admitted,
       Connects, Admits, wires, threads, writer
  <1>5. Pointed'
    BY ChannelAssumption DEF IInv, TypeOK, Links, HandlerPoints, Points, Locking, Holds,
       Held, Wired, Admitted, Pointed, Connects, Admits, wires, threads, writer
  <1> QED BY <1>1, <1>2, <1>3, <1>4, <1>5 DEF IInv

\* A client's end frees its locks and leaves its handler a closed connection.
LEMMA VanishesKeeps == ASSUME IInv, NEW k \in Clients, Vanishes(k) PROVE IInv'
  <1>1. TypeOK'
    BY ChannelAssumption DEF IInv, TypeOK, Links, HandlerPoints, Points, Vanishes, wires,
       writer
  <1>2. Locking'
    BY ChannelAssumption DEF IInv, TypeOK, Links, HandlerPoints, Points, Locking, Holds,
       Held, Vanishes, wires, writer
  <1>3. Wired'
    BY ChannelAssumption DEF IInv, TypeOK, Links, HandlerPoints, Points, Locking, Holds,
       Held, Wired, Admitted, Vanishes, wires, writer
  <1>4. Admitted'
    BY ChannelAssumption DEF IInv, TypeOK, Links, HandlerPoints, Points, Wired, Admitted,
       Vanishes, wires, writer
  <1>5. Pointed'
    BY ChannelAssumption DEF IInv, TypeOK, Links, HandlerPoints, Points, Locking, Holds,
       Held, Wired, Admitted, Pointed, Vanishes, wires, writer
  <1> QED BY <1>1, <1>2, <1>3, <1>4, <1>5 DEF IInv

\* The handler takes what is on the wire.
LEMMA TakesKeeps == ASSUME IInv, NEW k \in Clients, Takes(k) PROVE IInv'
  <1>1. TypeOK'
    BY ChannelAssumption DEF IInv, TypeOK, Links, HandlerPoints, Points, Takes, wires,
       threads, writer
  <1>2. Locking'
    BY ChannelAssumption DEF IInv, TypeOK, Links, HandlerPoints, Points, Locking, Holds,
       Held, Takes, wires, threads, writer
  <1>3. Wired'
    BY ChannelAssumption DEF IInv, TypeOK, Links, HandlerPoints, Points, Locking, Holds,
       Held, Wired, Admitted, Takes, wires, threads, writer
  <1>4. Admitted'
    BY ChannelAssumption DEF IInv, TypeOK, Links, HandlerPoints, Points, Wired, Admitted,
       Takes, wires, threads, writer
  <1>5. Pointed'
    BY ChannelAssumption DEF IInv, TypeOK, Links, HandlerPoints, Points, Locking, Holds,
       Held, Wired, Admitted, Pointed, Takes, wires, threads, writer
  <1> QED BY <1>1, <1>2, <1>3, <1>4, <1>5 DEF IInv

\* The reply is for the call taken, and names the segment its frame was left in.
LEMMA InvokesKeeps == ASSUME IInv, NEW k \in Clients, Invokes(k) PROVE IInv'
  <1>1. TypeOK'
    BY ChannelAssumption DEF IInv, TypeOK, Links, HandlerPoints, Points, Invokes,
       Replies, Publishes, Retires, MustReplace, threads, writer
  <1>2. Locking'
    BY ChannelAssumption DEF IInv, TypeOK, Links, HandlerPoints, Points, Locking, Holds,
       Held, Invokes, Replies, Publishes, Retires, MustReplace, threads, writer
  <1>3. Wired'
    BY ChannelAssumption DEF IInv, TypeOK, Links, HandlerPoints, Points, Locking, Holds,
       Held, Wired, Admitted, Invokes, Replies, Publishes, Retires, MustReplace, threads, writer
  <1>4. Admitted'
    BY ChannelAssumption DEF IInv, TypeOK, Links, HandlerPoints, Points, Wired, Admitted,
       Invokes, Replies, Publishes, Retires, MustReplace, threads, writer
  <1>5. Pointed'
    BY ChannelAssumption DEF IInv, TypeOK, Links, HandlerPoints, Points, Locking, Holds,
       Held, Wired, Admitted, Pointed, Invokes, Replies, Publishes, Retires, MustReplace,
       threads, writer
  <1> QED BY <1>1, <1>2, <1>3, <1>4, <1>5 DEF IInv

\* The end of a connection leaves nothing on its wires, and frees the target.
LEMMA EndsKeeps == ASSUME IInv, NEW k \in Clients, Ends(k) PROVE IInv'
  <1>1. TypeOK'
    BY ChannelAssumption DEF IInv, TypeOK, Links, HandlerPoints, Points, Ends, SeesEOF,
       threads, writer
  <1>2. Locking'
    BY ChannelAssumption DEF IInv, TypeOK, Links, HandlerPoints, Points, Locking, Holds,
       Held, Admitted, Ends, SeesEOF, threads, writer
  <1>3. Wired'
    BY ChannelAssumption DEF IInv, TypeOK, Links, HandlerPoints, Points, Locking, Holds,
       Held, Wired, Admitted, Ends, SeesEOF, threads, writer
  <1>4. Admitted'
    BY ChannelAssumption DEF IInv, TypeOK, Links, HandlerPoints, Points, Wired, Admitted,
       Ends, SeesEOF, threads, writer
  <1>5. Pointed'
    BY ChannelAssumption DEF IInv, TypeOK, Links, HandlerPoints, Points, Locking, Holds,
       Held, Wired, Admitted, Pointed, Ends, SeesEOF, threads, writer
  <1> QED BY <1>1, <1>2, <1>3, <1>4, <1>5 DEF IInv

\* IInv reads no variable a stutter could change.
LEMMA StutterKeeps == ASSUME IInv, UNCHANGED vars PROVE IInv'
  BY DEF IInv, TypeOK, Locking, Holds, Held, Wired, Admitted, Pointed, vars, links,
     wires, threads, writer

\* And so every step keeps IInv.
LEMMA StepKeeps == ASSUME IInv, [Next]_vars PROVE IInv'
  <1>1. ASSUME NEW t \in Threads, Thread(t) PROVE IInv'
    BY <1>1, CallsKeeps, LocksFrameKeeps, SendsKeeps, ReceivesKeeps, CopiesOutKeeps DEF Thread
  <1>2. ASSUME NEW k \in Clients, Server(k) \/ Connects(k) \/ Vanishes(k) PROVE IInv'
    BY <1>2, ConnectsKeeps, VanishesKeeps, TakesKeeps, InvokesKeeps, EndsKeeps DEF Server
  <1>3. CASE UNCHANGED vars
    BY <1>3, StutterKeeps
  <1> QED BY <1>1, <1>2, <1>3 DEF Next

\* The discipline of the two locks, the wires and the segment holds in every state.
THEOREM Inductive == Spec => []IInv
  <1>1. Init => IInv
    BY InitIsGood
  <1>2. IInv /\ [Next]_vars => IInv'
    BY StepKeeps
  <1> QED BY <1>1, <1>2, PTL DEF Spec

\* Every variable keeps its type, for any clients, threads and sizes.
THEOREM TypeCorrect == Spec => []TypeOK
  <1>1. IInv => TypeOK
    BY DEF IInv
  <1> QED BY <1>1, Inductive, PTL

\* rpc.send_call: a reply on the wire is for the one thread that waits, because a call
\* keeps the connection's lock until its reply has come.
THEOREM AnswersMatch == Spec => []AnswerIsMine
  <1>1. IInv => AnswerIsMine
    <2> SUFFICES ASSUME IInv, NEW t \in Threads,
                        pc[t] = "wait", answer[ProcessOf[t]] # Nobody
                 PROVE answer[ProcessOf[t]] = t
      BY DEF AnswerIsMine
    <2>1. ProcessOf[t] \in Clients
      BY ChannelAssumption
    <2>2. link[ProcessOf[t]] = "open" /\ lock[ProcessOf[t]] = t
      BY DEF IInv, Locking, Holds
    <2> QED BY <2>1, <2>2 DEF IInv, Wired
  <1> QED BY <1>1, Inductive, PTL

\* _RemoteDevice._frame with SharedFrameWriter.publish: a thread copies its own frame out
\* of the segment, because no other call is made until it has, and no other client's call
\* reaches the device.
THEOREM FramesAreOwn == Spec => []FrameIsMine
  <1>1. IInv => FrameIsMine
    BY DEF IInv, Pointed, FrameIsMine
  <1> QED BY <1>1, Inductive, PTL

\* accept_loop: of the connections to a target, only the one that took in_use has its
\* requests carried out.
THEOREM DeviceIsAlone == Spec => []OneAtTheDevice
  <1>1. IInv => OneAtTheDevice
    <2> DEFINE served == {k \in Clients : handler[k] = "invoke" /\ k \notin refused}
    <2> SUFFICES ASSUME IInv PROVE Cardinality(served) <= 1
      BY DEF OneAtTheDevice
    <2>1. served \subseteq {inUse}
      BY DEF IInv, Admitted
    <2>2. IsFiniteSet({inUse}) /\ Cardinality({inUse}) = 1
      BY FS_Singleton
    <2> HIDE DEF served
    <2>3. Cardinality(served) <= Cardinality({inUse})
      BY <2>1, <2>2, FS_Subset
    <2> QED BY <2>2, <2>3
  <1> QED BY <1>1, Inductive, PTL

=============================================================================
