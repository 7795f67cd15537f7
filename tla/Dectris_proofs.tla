----------------------------- MODULE Dectris_proofs -----------------------------
(***************************************************************************)
(* Theorems about Dectris, for any exposures, triggers per arm and bounds, *)
(* and any of its faults.                                                  *)
(***************************************************************************)
EXTENDS Dectris, SequenceTheorems, TLAPS

Puts == {"put count", "put frame"}

Plain == Requests \ (Puts \cup {"trigger", "image"})

\* What an operation has still to ask.  The two writes of an exposure are next
\* to each other and come first once they are ordered; a trigger comes first
\* or after an arm, and an image after a trigger, last.
Planned(todo) ==
    /\ todo \in Seq(Requests)
    /\ \A i \in 1..Len(todo) : todo[i] \in Puts => i <= 2
    /\ Len(todo) >= 2 => (todo[2] \in Puts => todo[1] \in Puts /\ todo[1] # todo[2])
    /\ \A i \in 1..Len(todo) : todo[i] = "image" => i = Len(todo)
    /\ \A i \in 1..Len(todo) : todo[i] = "trigger" => i = Len(todo) - 1 /\ todo[Len(todo)] = "image"
    /\ \A i \in 2..Len(todo) : todo[i] = "trigger" => todo[i - 1] = "arm"
    /\ \A i \in 2..Len(todo) : todo[i] = "image" => todo[i - 1] = "trigger"

Camera == [open : BOOLEAN, armed : BOOLEAN, left : Int, series : Int, exposure : Int,
           closed : BOOLEAN]
ControlUnit == [state : {"idle", "ready"}, owner : {"none", "us", "them"}, series : Int,
                left : Int, count : Int, frame : Int, ntrigger : Int, monitor : BOOLEAN,
                shots : Int]
Exposed == [shot : Int, exposure : Int, series : Int]

\* The shapes of the state, bounds apart.
Typed ==
    /\ cam \in Camera
    /\ dcu \in ControlUnit
    /\ coming \in Seq(Exposed)
    /\ images \in Seq(Exposed)
    /\ call \in [op : Ops, todo : Seq(Requests), want : Int, retried : BOOLEAN]
    /\ Planned(call.todo)
    /\ call.op = "idle" => call.todo = <<>>
    /\ faults \in [Kinds -> Nat]

\* Why the frame time covers: the next of the two writes keeps it, whatever
\* became of the one before.
Ordered ==
    Never({"crossed", "restarted"}) =>
        /\ dcu.frame >= dcu.count
        /\ call.todo # <<>> =>
             /\ Head(call.todo) = "put count" => dcu.frame >= call.want
             /\ Head(call.todo) = "put frame" => call.want >= dcu.count

\* An armed series has an owner; the camera knows the one it holds, and which;
\* and the series it believes armed is armed until somebody else ends it.
Agreed ==
    /\ dcu.owner = "none" <=> dcu.state = "idle"
    /\ Never({"armed"}) => dcu.owner # "them"
    /\ Never({"lost"}) =>
         /\ dcu.owner = "us" => cam.armed /\ cam.series = dcu.series
         /\ call.todo # <<>> /\ Head(call.todo) = "trigger" => cam.armed
    /\ Never({"lost", "disarmed", "restarted"}) => (cam.armed => dcu.owner = "us")

\* There is one image at most, of the trigger whose image is waited for.
SeriesAgree == Never({"armed"}) \/ Never({"disarmed", "restarted"})
Awaited ==
    Never({"lost", "unfetched", "late", "triggered"}) =>
        /\ Len(coming) + Len(images) <= 1
        /\ coming # <<>> \/ images # <<>> => call.todo # <<>> /\ Head(call.todo) = "image"
        /\ coming # <<>> =>
             coming[1].shot \in own /\ (SeriesAgree => coming[1].series = cam.series)
        /\ images # <<>> =>
             images[1].shot \in own /\ (SeriesAgree => images[1].series = cam.series)

IInv == Typed /\ Ordered /\ Agreed /\ Awaited /\ FrameIsOfItsTrigger

----------------------------------------------------------------------------
(* Sequences of requests *)

LEMMA RestIsPlanned ==
    ASSUME NEW todo, Planned(todo), todo # <<>>
    PROVE  Planned(Tail(todo))
  <1>1. PICK t : t = Tail(todo)
    OBVIOUS
  <1>2. /\ todo \in Seq(Requests) /\ t \in Seq(Requests)
        /\ Len(t) = Len(todo) - 1 /\ Len(todo) \in Nat \ {0}
        /\ \A i \in 1..Len(t) : t[i] = todo[i + 1]
    BY <1>1 DEF Planned
  <1>3. \A i \in 1..Len(t) : t[i] \in Puts => i <= 1
    BY <1>2 DEF Planned
  <1>4. \A i \in 1..Len(t) : t[i] = "image" => i = Len(t)
    BY <1>2 DEF Planned
  <1>5. \A i \in 1..Len(t) : t[i] = "trigger" => i = Len(t) - 1 /\ t[Len(t)] = "image"
    BY <1>2 DEF Planned
  <1>6. \A i \in 2..Len(t) : /\ t[i] = "trigger" => t[i - 1] = "arm"
                             /\ t[i] = "image" => t[i - 1] = "trigger"
    BY <1>2 DEF Planned
  <1>7. Len(t) >= 2 => t[2] \notin Puts
    BY <1>2, <1>3
  <1>8. Planned(t)
    BY <1>2, <1>3, <1>4, <1>5, <1>6, <1>7 DEF Planned
  <1> QED BY <1>1, <1>8

\* The request after the first, when it is a write, a trigger or an image.
LEMMA NextRequest ==
    ASSUME NEW todo, Planned(todo), todo # <<>>, Tail(todo) # <<>>
    PROVE  /\ Head(Tail(todo)) \in Puts => Head(todo) \in Puts /\ Head(todo) # Head(Tail(todo))
           /\ Head(Tail(todo)) = "trigger" => Head(todo) = "arm"
           /\ Head(Tail(todo)) = "image" => Head(todo) = "trigger"
  <1>1. /\ todo \in Seq(Requests) /\ Len(todo) \in Nat /\ Len(todo) >= 2
        /\ Head(todo) = todo[1] /\ Head(Tail(todo)) = todo[2]
    BY DEF Planned
  <1> QED BY <1>1 DEF Planned

LEMMA TriggerThenImage ==
    ASSUME NEW todo, Planned(todo), todo # <<>>, Head(todo) = "trigger"
    PROVE  Tail(todo) # <<>> /\ Head(Tail(todo)) = "image"
  <1>1. todo \in Seq(Requests) /\ Len(todo) \in Nat \ {0} /\ todo[1] = "trigger"
    BY DEF Planned
  <1>2. 1 \in 1..Len(todo)
    BY <1>1
  <1>3. 1 = Len(todo) - 1 /\ todo[Len(todo)] = "image"
    BY <1>1, <1>2 DEF Planned
  <1>4. Len(todo) = 2
    BY <1>1, <1>3
  <1>5. Len(Tail(todo)) = 1 /\ Tail(todo) \in Seq(Requests) /\ Tail(todo)[1] = todo[2]
    BY <1>1, <1>4
  <1>6. Tail(todo) # <<>>
    <2>1. Len(<<>>) = 0
      BY EmptySeq
    <2> SUFFICES ASSUME Tail(todo) = <<>> PROVE FALSE
      OBVIOUS
    <2>2. Len(Tail(todo)) = Len(<<>>)
      OBVIOUS
    <2>3. 1 = 0
      BY <1>5, <2>1, <2>2, Zenon
    <2> QED BY <2>3
  <1>7. Head(Tail(todo)) = Tail(todo)[1]
    BY <1>5, <1>6
  <1> QED BY <1>3, <1>4, <1>5, <1>6, <1>7

LEMMA NothingIsPlanned == Planned(<<>>)
  BY DEF Planned

LEMMA ImageIsLast ==
    ASSUME NEW todo, Planned(todo), todo # <<>>, Head(todo) = "image"
    PROVE  Tail(todo) = <<>>
  <1>1. todo \in Seq(Requests) /\ Len(todo) \in Nat \ {0} /\ todo[1] = "image"
    BY DEF Planned
  <1>2. 1 \in 1..Len(todo)
    BY <1>1
  <1>3. 1 = Len(todo)
    BY <1>1, <1>2 DEF Planned
  <1>4. Tail(todo) \in Seq(Requests) /\ Len(Tail(todo)) = 0
    BY <1>1, <1>3
  <1> QED BY <1>4, EmptySeq

\* A plan without writes, triggers and images.
LEMMA PlainIsPlanned ==
    ASSUME NEW todo \in Seq(Plain)
    PROVE  Planned(todo)
  <1>1. todo \in Seq(Requests)
    BY DEF Plain
  <1>2. \A i \in 1..Len(todo) : todo[i] \notin Puts \cup {"trigger", "image"}
    BY DEF Plain
  <1>3. Len(todo) \in Nat
    OBVIOUS
  <1>4. Len(todo) >= 2 => todo[2] \notin Puts
    BY <1>2, <1>3
  <1> QED BY <1>1, <1>2, <1>3, <1>4 DEF Planned

\* A trigger and its image at the end of a plan that has arms and disarms only.
LEMMA ExposurePlan ==
    ASSUME NEW todo \in Seq(Requests),
           \/ Len(todo) = 2 /\ todo[1] = "trigger" /\ todo[2] = "image"
           \/ /\ Len(todo) = 4 /\ todo[1] = "disarm" /\ todo[2] = "arm"
              /\ todo[3] = "trigger" /\ todo[4] = "image"
    PROVE  Planned(todo)
  <1>1. CASE Len(todo) = 2 /\ todo[1] = "trigger" /\ todo[2] = "image"
    <2>1. \A i \in 1..Len(todo) : i = 1 \/ i = 2
      BY <1>1
    <2> QED BY <1>1, <2>1 DEF Planned, Puts
  <1>2. CASE /\ Len(todo) = 4 /\ todo[1] = "disarm" /\ todo[2] = "arm"
             /\ todo[3] = "trigger" /\ todo[4] = "image"
    <2>1. 1..Len(todo) = {1, 2, 3, 4} /\ 2..Len(todo) = {2, 3, 4}
      BY <1>2
    <2>2. \A i \in 1..Len(todo) : todo[i] \notin Puts
      BY <1>2, <2>1 DEF Puts
    <2>3. \A i \in 1..Len(todo) : todo[i] = "image" => i = 4
      BY <1>2, <2>1
    <2>4. \A i \in 1..Len(todo) : todo[i] = "trigger" => i = 3
      BY <1>2, <2>1
    <2>5. \A i \in 2..Len(todo) :
            /\ todo[i] = "trigger" => todo[i - 1] = "arm"
            /\ todo[i] = "image" => todo[i - 1] = "trigger"
      <3> SUFFICES ASSUME NEW i \in {2, 3, 4}
                   PROVE /\ todo[i] = "trigger" => todo[i - 1] = "arm"
                         /\ todo[i] = "image" => todo[i - 1] = "trigger"
        BY <2>1
      <3>1. CASE i = 2
        BY <1>2, <3>1
      <3>2. CASE i = 3
        BY <1>2, <3>2
      <3>3. CASE i = 4
        BY <1>2, <3>3
      <3> QED BY <3>1, <3>2, <3>3
    <2>6. todo[2] \notin Puts
      BY <1>2 DEF Puts
    <2> QED BY <1>2, <2>2, <2>3, <2>4, <2>5, <2>6 DEF Planned
  <1> QED BY <1>1, <1>2

\* acquire_frame() plans a trigger and its image, on a series armed for it or not.
LEMMA ExposureIsPlanned ==
    /\ Planned(<<>> \o <<"trigger", "image">>)
    /\ Planned(<<"disarm", "arm">> \o <<"trigger", "image">>)
    /\ Planned(<<"disarm", "arm", "trigger", "image">>)
  <1> DEFINE e == <<"trigger", "image">>
             a == <<"disarm", "arm">>
             z == <<"disarm", "arm", "trigger", "image">>
  <1>1. e \in Seq(Requests) /\ Len(e) = 2 /\ e[1] = "trigger" /\ e[2] = "image"
    BY DEF Requests
  <1>2. a \in Seq(Requests) /\ Len(a) = 2 /\ a[1] = "disarm" /\ a[2] = "arm"
    BY DEF Requests
  <1>3. /\ z \in Seq(Requests) /\ Len(z) = 4 /\ z[1] = "disarm" /\ z[2] = "arm"
        /\ z[3] = "trigger" /\ z[4] = "image"
    BY DEF Requests
  <1>4. Planned(z)
    BY <1>3, ExposurePlan
  <1> HIDE DEF e, a, z
  <1>5. Planned(<<>> \o e)
    <2>1. <<>> \o e = e
      BY <1>1, ConcatEmptySeq
    <2> QED BY <1>1, <2>1, ExposurePlan
  <1>6. Planned(a \o e)
    <2>1. /\ a \o e \in Seq(Requests) /\ Len(a \o e) = 4
          /\ (a \o e)[1] = "disarm" /\ (a \o e)[2] = "arm"
          /\ (a \o e)[3] = "trigger" /\ (a \o e)[4] = "image"
      BY <1>1, <1>2, ConcatProperties
    <2> QED BY <2>1, ExposurePlan
  <1> QED BY <1>4, <1>5, <1>6 DEF e, a, z

\* The two writes come before what the reading of the count time came before.
LEMMA OrderedIsPlanned ==
    ASSUME NEW todo, Planned(todo), todo # <<>>, Head(todo) = "count",
           NEW a \in Puts, NEW b \in Puts, a # b
    PROVE  /\ Planned(<<a, b>> \o Tail(todo))
           /\ Head(<<a, b>> \o Tail(todo)) = a
           /\ <<a, b>> \o Tail(todo) # <<>>
  <1> DEFINE u == Tail(todo)
             p == <<a, b>>
  <1>1. /\ todo \in Seq(Requests) /\ Len(todo) \in Nat \ {0} /\ todo[1] = "count"
        /\ u \in Seq(Requests) /\ Len(u) = Len(todo) - 1
        /\ \A i \in 1..Len(todo) - 1 : u[i] = todo[i + 1]
    BY DEF Planned
  <1>2. Planned(u)
    BY RestIsPlanned
  <1>3. \A i \in 1..Len(u) : u[i] \notin Puts
    <2> SUFFICES ASSUME NEW i \in 1..Len(u), u[i] \in Puts PROVE FALSE
      OBVIOUS
    <2>1. i \in Nat /\ i + 1 \in 1..Len(todo) /\ todo[i + 1] \in Puts
      BY <1>1
    <2>2. i + 1 <= 2
      BY <2>1 DEF Planned
    <2>3. i + 1 = 2
      BY <2>1, <2>2
    <2>4. Len(todo) >= 2 /\ todo[2] \in Puts
      BY <1>1, <2>1, <2>3
    <2>5. todo[1] \in Puts
      BY <2>4 DEF Planned
    <2> QED BY <1>1, <2>5 DEF Puts
  <1>4. Len(u) >= 1 => u[1] # "trigger" /\ u[1] # "image"
    <2> SUFFICES ASSUME Len(u) >= 1 PROVE todo[2] # "trigger" /\ todo[2] # "image"
      BY <1>1
    <2>1. 2 \in 2..Len(todo) /\ 2 - 1 = 1
      BY <1>1
    <2>2. /\ todo[2] = "trigger" => todo[1] = "arm"
          /\ todo[2] = "image" => todo[1] = "trigger"
      BY <2>1 DEF Planned
    <2> QED BY <1>1, <2>2
  <1>5. /\ p \in Seq(Requests) /\ Len(p) = 2 /\ p[1] = a /\ p[2] = b
    <2>1. a \in Requests /\ b \in Requests
      BY DEF Puts, Requests
    <2> QED BY <2>1
  <1>6. a \notin {"trigger", "image", "arm"} /\ b \notin {"trigger", "image", "arm"}
    BY DEF Puts
  <1> HIDE DEF u, p
  <1>7. PICK t : t = p \o u
    OBVIOUS
  <1>8. /\ t \in Seq(Requests) /\ Len(t) = Len(u) + 2 /\ t[1] = a /\ t[2] = b
        /\ \A i \in 3..Len(t) : t[i] = u[i - 2]
    <2>1. u \in Seq(Requests) /\ p \in Seq(Requests) /\ Len(u) \in Nat
      BY <1>1, <1>5
    <2>2. t \in Seq(Requests) /\ Len(t) = Len(p) + Len(u)
      BY <1>7, <2>1, ConcatProperties
    <2>3. \A i \in 1..Len(p) + Len(u) : t[i] = IF i <= Len(p) THEN p[i] ELSE u[i - Len(p)]
      BY <1>7, <2>1, ConcatProperties
    <2>4. \A i \in 1..2 + Len(u) : t[i] = IF i <= 2 THEN p[i] ELSE u[i - 2]
      BY <1>5, <2>3
    <2>5. t[1] = p[1] /\ t[2] = p[2]
      BY <2>1, <2>4
    <2>6. \A i \in 3..Len(t) : t[i] = u[i - 2]
      BY <1>5, <2>1, <2>2, <2>4
    <2> QED BY <1>5, <2>1, <2>2, <2>5, <2>6
  <1>9. Len(u) \in Nat
    BY <1>1
  <1>10. \A i \in 1..Len(t) : i \in {1, 2} \/ (i \in 3..Len(t) /\ i - 2 \in 1..Len(u))
    BY <1>8, <1>9
  <1>11. \A i \in 1..Len(t) : t[i] \in Puts => i <= 2
    BY <1>3, <1>8, <1>9, <1>10
  <1>12. \A i \in 1..Len(t) : t[i] = "image" => i = Len(t)
    BY <1>2, <1>6, <1>8, <1>9, <1>10 DEF Planned
  <1>13. \A i \in 1..Len(t) : t[i] = "trigger" => i = Len(t) - 1 /\ t[Len(t)] = "image"
    <2> SUFFICES ASSUME NEW i \in 1..Len(t), t[i] = "trigger"
                 PROVE i = Len(t) - 1 /\ t[Len(t)] = "image"
      OBVIOUS
    <2>1. i \in 3..Len(t) /\ i - 2 \in 1..Len(u) /\ u[i - 2] = "trigger"
      BY <1>6, <1>8, <1>10
    <2>2. i - 2 = Len(u) - 1 /\ u[Len(u)] = "image"
      BY <1>2, <2>1 DEF Planned
    <2>3. Len(t) \in 3..Len(t) /\ Len(t) - 2 = Len(u)
      BY <1>8, <1>9, <2>1
    <2> QED BY <1>8, <1>9, <2>1, <2>2, <2>3
  <1>14. \A i \in 2..Len(t) : /\ t[i] = "trigger" => t[i - 1] = "arm"
                              /\ t[i] = "image" => t[i - 1] = "trigger"
    <2> SUFFICES ASSUME NEW i \in 2..Len(t), t[i] \in {"trigger", "image"}
                 PROVE /\ t[i] = "trigger" => t[i - 1] = "arm"
                       /\ t[i] = "image" => t[i - 1] = "trigger"
      OBVIOUS
    <2>1. i \in 3..Len(t) /\ i - 2 \in 1..Len(u) /\ u[i - 2] = t[i]
      BY <1>6, <1>8, <1>9, <1>10
    <2>2. i # 3
      BY <1>4, <1>9, <2>1
    <2>3. i - 2 \in 2..Len(u) /\ i - 1 \in 3..Len(t) /\ t[i - 1] = u[(i - 2) - 1]
      BY <1>8, <1>9, <2>1, <2>2
    <2>4. /\ u[i - 2] = "trigger" => u[(i - 2) - 1] = "arm"
          /\ u[i - 2] = "image" => u[(i - 2) - 1] = "trigger"
      BY <1>2, <2>3 DEF Planned
    <2> QED BY <2>1, <2>3, <2>4
  <1>15. Planned(t)
    BY <1>8, <1>9, <1>11, <1>12, <1>13, <1>14 DEF Planned
  <1>16. t # <<>> /\ Head(t) = a
    BY <1>8, <1>9, EmptySeq
  <1> QED BY <1>7, <1>15, <1>16 DEF u, p

----------------------------------------------------------------------------
(* What a step does to the faults and to the requests *)

\* What goes wrong stays counted.
LEMMA FaultsGrow ==
    ASSUME Typed, NEW kind \in Kinds, GoesWrong(kind)
    PROVE  /\ faults' \in [Kinds -> Nat]
           /\ faults'[kind] # 0
           /\ \A k \in Kinds : faults'[k] = 0 => faults[k] = 0
  <1>1. faults \in [Kinds -> Nat] /\ faults' = [faults EXCEPT ![kind] = @ + 1]
    BY DEF Typed, GoesWrong
  <1> QED BY <1>1

LEMMA PlanHasRequests ==
    ASSUME Typed, call.todo # <<>>
    PROVE  /\ Request \in Requests /\ Request = Head(call.todo)
           /\ Rest = Tail(call.todo) /\ Rest \in Seq(Requests)
           /\ Planned(call.todo) /\ Planned(Rest)
           /\ call.op # "idle"
  <1>1. Planned(call.todo) /\ call.op # "idle"
    BY DEF Typed
  <1>2. Planned(Rest)
    BY <1>1, RestIsPlanned DEF Rest
  <1>3. Head(call.todo) \in Requests
    <2>1. call.todo \in Seq(Requests)
      BY <1>1 DEF Planned
    <2> QED BY <2>1
  <1> QED BY <1>1, <1>2, <1>3 DEF Request, Rest, Planned

LEMMA UnitField ==
    ASSUME NEW unit \in ControlUnit
    PROVE  /\ \A v \in {"idle", "ready"} : [unit EXCEPT !.state = v] \in ControlUnit
           /\ \A v \in {"none", "us", "them"} : [unit EXCEPT !.owner = v] \in ControlUnit
           /\ \A v \in Int : /\ [unit EXCEPT !.series = v] \in ControlUnit
                             /\ [unit EXCEPT !.left = v] \in ControlUnit
                             /\ [unit EXCEPT !.shots = v] \in ControlUnit
  BY DEF ControlUnit

\* A trigger leaves the shapes of the state, and only adds an image.
LEMMA ExposesIsTyped ==
    ASSUME Typed, Exposes
    PROVE  /\ dcu' \in ControlUnit /\ coming' \in Seq(Exposed)
           /\ dcu'.frame = dcu.frame /\ dcu'.count = dcu.count
           /\ dcu'.owner = dcu.owner /\ dcu'.state = dcu.state /\ dcu'.series = dcu.series
           /\ images' = images
           /\ coming = <<>> /\ coming' # <<>> =>
                /\ Len(coming') = 1 /\ coming'[1].shot = dcu.shots + 1
                /\ coming'[1].series = dcu.series
  <1> DEFINE image == [shot |-> dcu.shots + 1, exposure |-> dcu.count, series |-> dcu.series]
  <1>1. /\ dcu' = [dcu EXCEPT !.left = @ - 1, !.shots = @ + 1] /\ images' = images
        /\ coming' = coming \o IF dcu.monitor THEN <<image>> ELSE <<>>
    BY DEF Exposes
  <1>2. dcu \in ControlUnit /\ coming \in Seq(Exposed)
    BY DEF Typed
  <1>3. image \in Exposed /\ image.shot = dcu.shots + 1 /\ image.series = dcu.series
    BY <1>2 DEF ControlUnit, Exposed
  <1> HIDE DEF image
  <1>4. coming' = coming \o <<image>> \/ coming' = coming \o <<>>
    BY <1>1
  <1>5. <<image>> \in Seq(Exposed) /\ <<>> \in Seq(Exposed) /\ Len(<<image>>) = 1
    BY <1>3
  <1>6. coming \o <<image>> \in Seq(Exposed) /\ coming \o <<>> \in Seq(Exposed)
    BY <1>2, <1>5, ConcatProperties
  <1>7. coming = <<>> => coming \o <<image>> = <<image>> /\ coming \o <<>> = <<>>
    BY <1>2, <1>5, ConcatEmptySeq
  <1>8. dcu' \in ControlUnit
    <2>1. dcu.left - 1 \in Int /\ dcu.shots + 1 \in Int
      BY <1>2 DEF ControlUnit
    <2> QED BY <1>1, <1>2, <2>1, UnitField, Zenon
  <1>9. /\ dcu'.frame = dcu.frame /\ dcu'.count = dcu.count
        /\ dcu'.owner = dcu.owner /\ dcu'.state = dcu.state /\ dcu'.series = dcu.series
    BY <1>1, <1>2 DEF ControlUnit
  <1>10. coming' \in Seq(Exposed)
    BY <1>4, <1>6
  <1>11. ASSUME coming = <<>>, coming' # <<>>
         PROVE  coming' = <<image>> /\ Len(coming') = 1 /\ coming'[1] = image
    <2>1. coming' = <<image>>
      BY <1>4, <1>7, <1>11
    <2> QED BY <2>1, <1>3
  <1> QED BY <1>1, <1>3, <1>8, <1>9, <1>10, <1>11

\* Every request leaves the shapes of the state, a frame time that covers, and
\* an owner for exactly the armed series.
LEMMA EffectIsTyped ==
    ASSUME Typed, Ordered, dcu.owner = "none" <=> dcu.state = "idle",
           call.todo # <<>>, Accepts(Request), Effect(Request)
    PROVE  /\ dcu' \in ControlUnit /\ coming' \in Seq(Exposed) /\ images' \in Seq(Exposed)
           /\ Never({"crossed", "restarted"}) => dcu'.frame >= dcu'.count
           /\ dcu'.owner = "none" <=> dcu'.state = "idle"
           /\ dcu'.owner # "them" \/ dcu'.owner = dcu.owner
  <1> USE DEF ControlUnit, Exposed
  <1>1. /\ dcu \in ControlUnit /\ coming \in Seq(Exposed) /\ images \in Seq(Exposed)
        /\ call.want \in Int /\ TriggersPerArm \in Int
    BY Bounds DEF Typed
  <1>2. Never({"crossed", "restarted"}) => dcu.frame >= dcu.count
    BY DEF Ordered
  <1>3. CASE Request = "arm"
    <2>1. /\ dcu' = [dcu EXCEPT !.state = "ready", !.owner = "us", !.series = @ + 1,
                                !.left = dcu.ntrigger]
          /\ UNCHANGED <<coming, images>>
      BY <1>3 DEF Effect
    <2>2. dcu' \in ControlUnit
      <3>1. dcu.series + 1 \in Int /\ dcu.ntrigger \in Int
        BY <1>1
      <3>2. [dcu EXCEPT !.state = "ready", !.owner = "us"] \in ControlUnit
        BY <1>1, UnitField
      <3> QED BY <1>1, <2>1, <3>1, <3>2, UnitField, Zenon
    <2>3. dcu'.frame = dcu.frame /\ dcu'.count = dcu.count
      BY <1>1, <2>1
    <2>4. dcu'.owner = "us" /\ dcu'.state = "ready"
      BY <1>1, <2>1
    <2> QED BY <1>1, <1>2, <2>1, <2>2, <2>3, <2>4
  <1>4. CASE Request = "disarm"
    <2>1. /\ dcu' = [dcu EXCEPT !.state = "idle", !.owner = "none", !.left = 0]
          /\ UNCHANGED <<coming, images>>
      BY <1>4 DEF Effect
    <2>2. dcu' \in ControlUnit
      <3>1. [dcu EXCEPT !.state = "idle", !.owner = "none"] \in ControlUnit
        BY <1>1, UnitField
      <3>2. 0 \in Int
        OBVIOUS
      <3> QED BY <1>1, <2>1, <3>1, <3>2, UnitField, Zenon
    <2>3. dcu'.frame = dcu.frame /\ dcu'.count = dcu.count
      BY <1>1, <2>1
    <2>4. dcu'.owner = "none" /\ dcu'.state = "idle"
      BY <1>1, <2>1
    <2> QED BY <1>1, <1>2, <2>1, <2>2, <2>3, <2>4
  <1>5. CASE Request = "trigger"
    <2>1. Exposes
      BY <1>5 DEF Effect
    <2> QED BY <1>1, <1>2, <2>1, ExposesIsTyped
  <1>6. CASE Request = "put count"
    <2>1. Never({"crossed", "restarted"}) => dcu.frame >= call.want
      BY <1>6 DEF Ordered, Request
    <2>2. dcu' = [dcu EXCEPT !.count = call.want] /\ UNCHANGED <<coming, images>>
      BY <1>6 DEF Effect
    <2>3. dcu' \in ControlUnit
      BY <1>1, <2>2
    <2>4. dcu'.owner = dcu.owner /\ dcu'.state = dcu.state
      BY <1>1, <2>2
    <2>5. Never({"crossed", "restarted"}) => dcu'.frame >= dcu'.count
      BY <1>1, <2>1, <2>2
    <2> QED BY <1>1, <2>2, <2>3, <2>4, <2>5
  <1>7. CASE Request = "put frame"
    <2>1. Never({"crossed", "restarted"}) => call.want >= dcu.count
      BY <1>7 DEF Ordered, Request
    <2>2. dcu' = [dcu EXCEPT !.frame = call.want] /\ UNCHANGED <<coming, images>>
      BY <1>7 DEF Effect
    <2> QED BY <1>1, <2>1, <2>2
  <1>8. CASE Request = "put series"
    <2>1. dcu' = [dcu EXCEPT !.ntrigger = TriggersPerArm, !.monitor = TRUE] /\ UNCHANGED <<coming, images>>
      BY <1>8 DEF Effect
    <2> QED BY <1>1, <1>2, <2>1
  <1>9. CASE Request = "image"
    <2>1. images' = Tail(images) /\ images # <<>> /\ UNCHANGED <<dcu, coming>>
      BY <1>9 DEF Effect, Accepts
    <2>2. images' \in Seq(Exposed)
      BY <1>1, <2>1, HeadTailProperties
    <2> QED BY <1>1, <1>2, <2>1, <2>2
  <1>10. CASE Request \notin {"arm", "disarm", "trigger", "put count", "put frame",
                              "put series", "image"}
    BY <1>1, <1>2, <1>10 DEF Effect
  <1> QED BY <1>3, <1>4, <1>5, <1>6, <1>7, <1>8, <1>9, <1>10

----------------------------------------------------------------------------
(* The invariant *)

\* Every operation begins with a plan whose first request keeps the invariant.
LEMMA BeginsKeepsIt ==
    ASSUME IInv, NEW op \in Ops \ {"idle"}, NEW todo, NEW want \in Int,
           Begins(op, todo, want), Planned(todo),
           todo # <<>> => /\ Head(todo) \notin Puts \cup {"image"}
                          /\ Head(todo) = "trigger" => cam.armed
    PROVE  IInv'
  <1> USE DEF IInv
  <1>1. /\ call' = [op |-> op, todo |-> todo, want |-> want, retried |-> FALSE]
        /\ own' = {} /\ call.op = "idle"
        /\ UNCHANGED <<cam, dcu, coming, images, last, faults>>
    BY DEF Begins, IsReady
  <1>2. /\ call'.op = op /\ call'.todo = todo /\ call'.want = want
        /\ call.todo = <<>>
    BY <1>1 DEF Typed
  <1>3. Typed'
    <2>1. todo \in Seq(Requests)
      BY DEF Planned
    <2>2. call' \in [op : Ops, todo : Seq(Requests), want : Int, retried : BOOLEAN]
      BY <1>1, <2>1
    <2>3. Planned(call'.todo)
      BY <1>2
    <2> QED BY <1>1, <1>2, <2>2, <2>3 DEF Typed
  <1>4. Ordered'
    BY <1>1, <1>2 DEF Ordered, Puts, Never
  <1>5. Agreed'
    <2>1. /\ Never({"armed"})' = Never({"armed"}) /\ Never({"lost"})' = Never({"lost"})
          /\ Never({"lost", "disarmed", "restarted"})' = Never({"lost", "disarmed", "restarted"})
      BY <1>1 DEF Never
    <2>2. cam' = cam /\ dcu' = dcu
      BY <1>1
    <2>3. call'.todo # <<>> /\ Head(call'.todo) = "trigger" => cam'.armed
      BY <1>2, <2>2
    <2>4. Agreed
      OBVIOUS
    <2> QED BY <2>1, <2>2, <2>3, <2>4 DEF Agreed
  <1>6. Awaited'
    BY <1>1, <1>2 DEF Awaited, Never
  <1>7. FrameIsOfItsTrigger'
    BY <1>1 DEF FrameIsOfItsTrigger, Never
  <1> QED BY <1>3, <1>4, <1>5, <1>6, <1>7

\* A plan without writes, triggers and images may begin an operation.
LEMMA PlainBeginsKeepsIt ==
    ASSUME IInv, NEW op \in Ops \ {"idle"}, NEW want \in Int,
           NEW todo \in Seq(Plain),
           Begins(op, todo, want)
    PROVE  IInv'
  <1>1. Planned(todo)
    BY PlainIsPlanned
  <1>2. todo # <<>> => Head(todo) \notin Puts \cup {"trigger", "image"}
    BY DEF Plain
  <1> QED BY <1>1, <1>2, BeginsKeepsIt

LEMMA PlainRequests ==
    /\ <<"disarm">> \in Seq(Plain) /\ <<"arm">> \in Seq(Plain)
    /\ <<"count">> \in Seq(Plain)
    /\ <<"read back">> \in Seq(Plain) /\ <<"put series", "arm">> \in Seq(Plain)
    /\ <<"identity", "state", "read back">> \in Seq(Plain)
    /\ \A condition \in BOOLEAN, requests \in Seq(Plain) :
          When(condition, requests) \in Seq(Plain)
  <1>1. {"disarm", "arm", "count", "read back", "put series", "identity",
         "state"} \subseteq Plain
    BY DEF Plain, Requests, Puts
  <1> HIDE DEF Plain
  <1>2. <<>> \in Seq(Plain)
    BY EmptySeq
  <1>3. \A condition \in BOOLEAN, requests \in Seq(Plain) :
          When(condition, requests) \in Seq(Plain)
    BY <1>2 DEF When
  <1>4. \A a \in Plain : <<a>> \in Seq(Plain)
    OBVIOUS
  <1>5. \A a, b \in Plain : <<a, b>> \in Seq(Plain)
    OBVIOUS
  <1>6. \A a, b, c \in Plain : <<a, b, c>> \in Seq(Plain)
    OBVIOUS
  <1>7. /\ "disarm" \in Plain /\ "arm" \in Plain /\ "count" \in Plain
        /\ "read back" \in Plain /\ "put series" \in Plain
        /\ "identity" \in Plain /\ "state" \in Plain
    BY <1>1
  <1> QED BY <1>3, <1>4, <1>5, <1>6, <1>7

LEMMA InitKeepsIt == Init => IInv
  <1> SUFFICES ASSUME Init PROVE IInv
    OBVIOUS
  <1>1. PICK e \in Exposures :
          dcu = [state |-> "idle", owner |-> "none", series |-> 0, left |-> 0, count |-> e,
                 frame |-> e, ntrigger |-> 1, monitor |-> FALSE, shots |-> 0]
    BY DEF Init
  <1>2. e \in Int
    BY Bounds
  <1>3. /\ cam = [open |-> FALSE, armed |-> FALSE, left |-> 0, series |-> 0, exposure |-> 0,
                  closed |-> FALSE]
        /\ coming = <<>> /\ images = <<>> /\ own = {} /\ last = NoFrame
        /\ faults = [k \in Kinds |-> 0]
    BY DEF Init
  <1>4. /\ call = [op |-> "open", todo |-> <<"identity", "state", "read back">>, want |-> 0,
                   retried |-> FALSE]
    BY DEF Init, Idle
  <1>5. /\ call.op = "open" /\ call.todo = <<"identity", "state", "read back">>
        /\ call.want = 0
    BY <1>4
  <1>6. Planned(call.todo) /\ call.todo \in Seq(Requests)
    <2>1. call.todo \in Seq(Plain)
      BY <1>5, PlainRequests
    <2> QED BY <2>1, PlainIsPlanned DEF Planned
  <1>7. Head(call.todo) = "identity"
    <2>1. Head(<<"identity", "state", "read back">>) = "identity"
      OBVIOUS
    <2> QED BY <1>5, <2>1, Zenon
  <1>8. dcu \in ControlUnit /\ dcu.frame = dcu.count /\ dcu.owner = "none" /\ dcu.state = "idle"
    BY <1>1, <1>2 DEF ControlUnit
  <1>9. Typed
    <2>1. cam \in Camera
      BY <1>3 DEF Camera
    <2>2. call \in [op : Ops, todo : Seq(Requests), want : Int, retried : BOOLEAN]
      <3>1. "open" \in Ops /\ 0 \in Int /\ FALSE \in BOOLEAN
        BY DEF Ops
      <3> QED BY <1>4, <1>5, <1>6, <3>1
    <2>3. faults \in [Kinds -> Nat] /\ coming \in Seq(Exposed) /\ images \in Seq(Exposed)
      BY <1>3
    <2> QED BY <1>5, <1>6, <1>8, <2>1, <2>2, <2>3 DEF Typed
  <1>10. Ordered
    <2>1. dcu.frame \in Int /\ dcu.count \in Int
      BY <1>8 DEF ControlUnit
    <2>2. dcu.frame >= dcu.count
      BY <1>8, <2>1
    <2> QED BY <1>7, <2>2 DEF Ordered
  <1>11. Agreed
    <2>1. ~cam.armed
      BY <1>3
    <2>2. dcu.owner # "us" /\ dcu.owner # "them" /\ Head(call.todo) # "trigger"
      BY <1>7, <1>8
    <2> QED BY <1>8, <2>1, <2>2, Zenon DEF Agreed
  <1>12. Awaited
    BY <1>3, EmptySeq DEF Awaited
  <1>13. FrameIsOfItsTrigger
    BY <1>3 DEF FrameIsOfItsTrigger
  <1> QED BY <1>9, <1>10, <1>11, <1>12, <1>13 DEF IInv

----------------------------------------------------------------------------
(* The images and the other clients *)

LEMMA ImageArrivesKeepsIt == ASSUME IInv, ImageArrives PROVE IInv'
  <1>1. /\ coming # <<>> /\ images' = Append(images, Head(coming)) /\ coming' = Tail(coming)
        /\ UNCHANGED <<cam, dcu, call, own, last, faults>>
    BY DEF ImageArrives
  <1>2. coming \in Seq(Exposed) /\ images \in Seq(Exposed)
    BY DEF IInv, Typed
  <1>3. Head(coming) \in Exposed /\ Head(coming) = coming[1]
    BY <1>1, <1>2
  <1>4. /\ coming' \in Seq(Exposed) /\ images' \in Seq(Exposed)
        /\ Len(coming') = Len(coming) - 1 /\ Len(images') = Len(images) + 1
        /\ Len(coming) \in Nat \ {0} /\ Len(images) \in Nat
        /\ images'[Len(images) + 1] = coming[1]
    BY <1>1, <1>2, <1>3
  <1>5. Typed'
    BY <1>1, <1>4 DEF IInv, Typed
  <1>6. Ordered' /\ Agreed' /\ FrameIsOfItsTrigger'
    BY <1>1 DEF IInv, Ordered, Agreed, FrameIsOfItsTrigger, Never
  <1>7. Awaited'
    <2> SUFFICES ASSUME Never({"lost", "unfetched", "late", "triggered"})'
                 PROVE  /\ Len(coming') + Len(images') <= 1
                        /\ call'.todo # <<>> /\ Head(call'.todo) = "image"
                        /\ coming' = <<>>
                        /\ images'[1].shot \in own'
                        /\ SeriesAgree' => images'[1].series = cam'.series
      BY DEF Awaited
    <2>1. Never({"lost", "unfetched", "late", "triggered"})
      BY <1>1 DEF Never
    <2>2. /\ Len(coming) + Len(images) <= 1 /\ call.todo # <<>> /\ Head(call.todo) = "image"
          /\ coming[1].shot \in own /\ (SeriesAgree => coming[1].series = cam.series)
          /\ SeriesAgree' => SeriesAgree
      BY <1>1, <2>1 DEF IInv, Awaited, SeriesAgree, Never
    <2>3. Len(coming') = 0 /\ Len(images) = 0
      BY <1>4, <2>2
    <2> QED BY <1>1, <1>4, <2>2, <2>3, EmptySeq
  <1> QED BY <1>5, <1>6, <1>7 DEF IInv

LEMMA ImageIsDrainedKeepsIt == ASSUME IInv, ImageIsDrained PROVE IInv'
  <1>1. /\ GoesWrong("drained") /\ images # <<>> /\ images' = Tail(images)
        /\ UNCHANGED <<cam, dcu, coming, call, own, last>>
    BY DEF ImageIsDrained
  <1>2. /\ faults' \in [Kinds -> Nat] /\ \A k \in Kinds : faults'[k] = 0 => faults[k] = 0
    BY <1>1, FaultsGrow DEF IInv, Kinds
  <1>3. \A kinds \in SUBSET Kinds : Never(kinds)' => Never(kinds)
    BY <1>2 DEF Never
  <1>4. /\ coming \in Seq(Exposed) /\ images \in Seq(Exposed) /\ images' \in Seq(Exposed)
        /\ Len(coming) \in Nat /\ Len(images) \in Nat \ {0} /\ Len(images') = Len(images) - 1
    BY <1>1 DEF IInv, Typed
  <1>5. Typed'
    BY <1>1, <1>2, <1>4 DEF IInv, Typed
  <1>6. Ordered' /\ Agreed' /\ FrameIsOfItsTrigger'
    BY <1>1, <1>3 DEF IInv, Ordered, Agreed, FrameIsOfItsTrigger, Kinds
  <1>7. Awaited'
    <2> SUFFICES ASSUME Never({"lost", "unfetched", "late", "triggered"})'
                 PROVE  coming' = <<>> /\ images' = <<>>
      BY EmptySeq DEF Awaited
    <2>1. Len(coming) + Len(images) <= 1
      BY <1>3 DEF IInv, Awaited, Kinds
    <2>2. Len(coming) = 0 /\ Len(images') = 0
      BY <1>4, <2>1
    <2> QED BY <1>1, <1>4, <2>2, EmptySeq
  <1> QED BY <1>5, <1>6, <1>7 DEF IInv

\* What an intruder does to the control unit keeps the invariant when it leaves
\* an owner for the armed series, no owner that is not counted, our series to
\* us unless it is counted, and a frame time that covers.
LEMMA IntrusionKeepsIt ==
    ASSUME IInv, faults' \in [Kinds -> Nat], \A k \in Kinds : faults'[k] = 0 => faults[k] = 0,
           UNCHANGED <<cam, call, own, last>>,
           dcu' \in ControlUnit, dcu'.owner = "none" <=> dcu'.state = "idle",
           Never({"armed"})' => dcu'.owner # "them",
           dcu'.owner = "us" => dcu.owner = "us" /\ dcu'.series = dcu.series,
           Never({"lost", "disarmed", "restarted"})' /\ dcu.owner = "us" => dcu'.owner = "us",
           Never({"crossed", "restarted"})' =>
              \/ dcu'.frame = dcu.frame /\ dcu'.count = dcu.count
              \/ dcu'.frame >= dcu'.count /\ (call.todo # <<>> => Head(call.todo) \notin Puts),
           \/ UNCHANGED <<coming, images>>
           \/ coming' = <<>> /\ images' = <<>>
           \/ /\ coming' \in Seq(Exposed) /\ images' = images
              /\ ~Never({"lost", "unfetched", "late", "triggered"})'
    PROVE  IInv'
  <1>1. \A kinds \in SUBSET Kinds : Never(kinds)' => Never(kinds)
    BY DEF Never
  <1>2. SeriesAgree' => SeriesAgree
    BY <1>1 DEF SeriesAgree, Kinds
  <1>3. Typed'
    BY EmptySeq DEF IInv, Typed
  <1>4. Ordered'
    BY <1>1 DEF IInv, Ordered, Kinds, Puts
  <1>5. Agreed'
    BY <1>1 DEF IInv, Agreed, Kinds
  <1>6. Awaited'
    <2>1. CASE UNCHANGED <<coming, images>>
      BY <1>1, <1>2, <2>1 DEF IInv, Awaited, Kinds
    <2>2. CASE coming' = <<>> /\ images' = <<>>
      BY <2>2, EmptySeq DEF Awaited
    <2> QED BY <2>1, <2>2 DEF Awaited
  <1>7. FrameIsOfItsTrigger'
    BY <1>1 DEF IInv, FrameIsOfItsTrigger, Kinds
  <1> QED BY <1>3, <1>4, <1>5, <1>6, <1>7 DEF IInv

LEMMA OtherArmsKeepsIt == ASSUME IInv, OtherArms PROVE IInv'
  <1>1. /\ GoesWrong("armed") /\ dcu.state = "idle"
        /\ dcu' = [dcu EXCEPT !.state = "ready", !.owner = "them", !.series = @ + 1,
                              !.left = dcu.ntrigger]
        /\ UNCHANGED <<cam, coming, images, call, own, last>>
    BY DEF OtherArms
  <1>2. /\ faults' \in [Kinds -> Nat] /\ \A k \in Kinds : faults'[k] = 0 => faults[k] = 0
        /\ faults'["armed"] # 0
    BY <1>1, FaultsGrow DEF IInv, Kinds
  <1>3. dcu \in ControlUnit
    BY DEF IInv, Typed
  <1>4. dcu' \in ControlUnit
    <2>1. dcu.series + 1 \in Int /\ dcu.ntrigger \in Int
      BY <1>3 DEF ControlUnit
    <2>2. [dcu EXCEPT !.state = "ready", !.owner = "them"] \in ControlUnit
      BY <1>3, UnitField
    <2> QED BY <1>1, <2>1, <2>2, UnitField, Zenon
  <1>5. /\ dcu'.owner = "them" /\ dcu'.state = "ready"
        /\ dcu'.count = dcu.count /\ dcu'.frame = dcu.frame
    BY <1>1, <1>3 DEF ControlUnit
  <1>6. dcu.owner = "none" /\ ~Never({"armed"})'
    BY <1>1, <1>2 DEF IInv, Agreed, Never
  <1> QED BY <1>1, <1>2, <1>4, <1>5, <1>6, IntrusionKeepsIt

LEMMA OtherTriggersKeepsIt == ASSUME IInv, OtherTriggers PROVE IInv'
  <1>1. GoesWrong("triggered") /\ Exposes /\ UNCHANGED <<cam, call, own, last>>
    BY DEF OtherTriggers
  <1>2. /\ faults' \in [Kinds -> Nat] /\ \A k \in Kinds : faults'[k] = 0 => faults[k] = 0
        /\ ~Never({"lost", "unfetched", "late", "triggered"})'
    <2>1. faults' \in [Kinds -> Nat] /\ \A k \in Kinds : faults'[k] = 0 => faults[k] = 0
      BY <1>1, FaultsGrow DEF IInv, Kinds
    <2>2. faults'["triggered"] # 0
      BY <1>1, FaultsGrow DEF IInv, Kinds
    <2> QED BY <2>1, <2>2 DEF Never
  <1>3. /\ dcu' \in ControlUnit /\ coming' \in Seq(Exposed) /\ images' = images
        /\ dcu'.frame = dcu.frame /\ dcu'.count = dcu.count
        /\ dcu'.owner = dcu.owner /\ dcu'.state = dcu.state /\ dcu'.series = dcu.series
    BY <1>1, ExposesIsTyped DEF IInv
  <1>4. /\ dcu'.owner = "none" <=> dcu'.state = "idle"
        /\ Never({"armed"})' => dcu'.owner # "them"
    BY <1>2, <1>3 DEF IInv, Agreed, Never, Kinds
  <1> QED BY <1>1, <1>2, <1>3, <1>4, IntrusionKeepsIt

LEMMA OtherDisarmsKeepsIt == ASSUME IInv, OtherDisarms PROVE IInv'
  <1>1. /\ IF dcu.owner = "us" THEN GoesWrong("disarmed") ELSE UNCHANGED faults
        /\ dcu' = [dcu EXCEPT !.state = "idle", !.owner = "none", !.left = 0]
        /\ UNCHANGED <<cam, coming, images, call, own, last>>
    BY DEF OtherDisarms
  <1>2. /\ faults' \in [Kinds -> Nat] /\ \A k \in Kinds : faults'[k] = 0 => faults[k] = 0
        /\ dcu.owner = "us" => faults'["disarmed"] # 0
    BY <1>1, FaultsGrow DEF IInv, Typed, Kinds
  <1>3. dcu \in ControlUnit
    BY DEF IInv, Typed
  <1>4. dcu' \in ControlUnit
    <2>1. [dcu EXCEPT !.state = "idle", !.owner = "none"] \in ControlUnit
      BY <1>3, UnitField
    <2>2. 0 \in Int
      OBVIOUS
    <2> QED BY <1>1, <2>1, <2>2, UnitField, Zenon
  <1>5. /\ dcu'.owner = "none" /\ dcu'.state = "idle"
        /\ dcu'.count = dcu.count /\ dcu'.frame = dcu.frame
    BY <1>1, <1>3 DEF ControlUnit
  <1>6. Never({"lost", "disarmed", "restarted"})' => dcu.owner # "us"
    BY <1>2 DEF Never
  <1> QED BY <1>1, <1>2, <1>4, <1>5, <1>6, IntrusionKeepsIt

LEMMA OtherWritesKeepsIt == ASSUME IInv, OtherWrites PROVE IInv'
  <1>1. PICK count \in Exposures, frame \in Exposures :
          frame >= count /\ dcu' = [dcu EXCEPT !.count = count, !.frame = frame]
    BY DEF OtherWrites
  <1>2. PICK kind \in Kinds :
          /\ GoesWrong(kind)
          /\ call.todo # <<>> /\ Head(call.todo) \in Puts => kind = "crossed"
    BY DEF OtherWrites, Kinds, Puts
  <1>3. /\ faults' \in [Kinds -> Nat] /\ \A k \in Kinds : faults'[k] = 0 => faults[k] = 0
        /\ faults'[kind] # 0
    BY <1>2, FaultsGrow DEF IInv
  <1>4. dcu \in ControlUnit /\ count \in Int /\ frame \in Int
    BY Bounds DEF IInv, Typed
  <1>5. /\ dcu' \in ControlUnit /\ dcu'.frame >= dcu'.count
        /\ dcu'.owner = dcu.owner /\ dcu'.state = dcu.state /\ dcu'.series = dcu.series
    BY <1>1, <1>4 DEF ControlUnit
  <1>6. /\ dcu'.owner = "none" <=> dcu'.state = "idle"
        /\ Never({"armed"})' => dcu'.owner # "them"
    BY <1>3, <1>5 DEF IInv, Agreed, Never, Kinds
  <1>7. Never({"crossed", "restarted"})' =>
           dcu'.frame >= dcu'.count /\ (call.todo # <<>> => Head(call.todo) \notin Puts)
    BY <1>2, <1>3, <1>5 DEF Never
  <1>8. UNCHANGED <<cam, coming, images, call, own, last>>
    BY DEF OtherWrites
  <1> QED BY <1>3, <1>5, <1>6, <1>7, <1>8, IntrusionKeepsIt

LEMMA RestartsKeepsIt == ASSUME IInv, Restarts PROVE IInv'
  <1>1. PICK e \in Exposures :
          dcu' = [dcu EXCEPT !.state = "idle", !.owner = "none", !.left = 0, !.count = e,
                             !.frame = e, !.ntrigger = 1, !.monitor = FALSE]
    BY DEF Restarts
  <1>2. /\ GoesWrong("restarted") /\ coming' = <<>> /\ images' = <<>>
        /\ UNCHANGED <<cam, call, own, last>>
    BY DEF Restarts
  <1>3. /\ faults' \in [Kinds -> Nat] /\ \A k \in Kinds : faults'[k] = 0 => faults[k] = 0
        /\ faults'["restarted"] # 0
    BY <1>2, FaultsGrow DEF IInv, Kinds
  <1>4. dcu \in ControlUnit /\ e \in Int
    BY Bounds DEF IInv, Typed
  <1>5. dcu' \in ControlUnit
    <2>1. [dcu EXCEPT !.state = "idle", !.owner = "none", !.left = 0] \in ControlUnit
      <3>1. [dcu EXCEPT !.state = "idle", !.owner = "none"] \in ControlUnit
        BY <1>4, UnitField
      <3>2. 0 \in Int
        OBVIOUS
      <3> QED BY <3>1, <3>2, UnitField, Zenon
    <2>3. PICK unit \in ControlUnit :
             unit = [dcu EXCEPT !.state = "idle", !.owner = "none", !.left = 0]
      BY <2>1
    <2>4. dcu' = [unit EXCEPT !.count = e, !.frame = e, !.ntrigger = 1, !.monitor = FALSE]
      BY <1>1, <2>3
    <2>5. [unit EXCEPT !.count = e, !.frame = e, !.ntrigger = 1] \in ControlUnit
      <3>1. [unit EXCEPT !.count = e, !.frame = e] \in ControlUnit
        BY <1>4 DEF ControlUnit
      <3>2. PICK w \in ControlUnit : w = [unit EXCEPT !.count = e, !.frame = e]
        BY <3>1
      <3>3. [w EXCEPT !.ntrigger = 1] \in ControlUnit
        BY DEF ControlUnit
      <3> QED BY <3>2, <3>3
    <2>6. PICK v \in ControlUnit : v = [unit EXCEPT !.count = e, !.frame = e, !.ntrigger = 1]
      BY <2>5
    <2>7. [v EXCEPT !.monitor = FALSE] \in ControlUnit
      BY DEF ControlUnit
    <2> QED BY <2>4, <2>6, <2>7
  <1>6. dcu'.owner = "none" /\ dcu'.state = "idle"
    BY <1>1, <1>4 DEF ControlUnit
  <1>7. /\ ~Never({"crossed", "restarted"})' /\ ~Never({"lost", "disarmed", "restarted"})'
    BY <1>3 DEF Never
  <1> QED BY <1>2, <1>3, <1>5, <1>6, <1>7, IntrusionKeepsIt

----------------------------------------------------------------------------
(* The camera's operations *)

LEMMA ConfigureKeepsIt ==
    ASSUME IInv, NEW exposure \in Exposures, Configure(exposure)
    PROVE  IInv'
  <1> DEFINE todo == When(cam.armed, <<"disarm">>) \o <<"count">>
                        \o When(cam.armed, <<"arm">>) \o <<"read back">>
  <1>1. cam.armed \in BOOLEAN /\ exposure \in Int /\ "configure" \in Ops \ {"idle"}
    BY Bounds DEF IInv, Typed, Camera, Ops
  <1>2. todo \in Seq(Plain)
    <2>1. /\ When(cam.armed, <<"disarm">>) \in Seq(Plain)
          /\ When(cam.armed, <<"arm">>) \in Seq(Plain)
      BY <1>1, PlainRequests
    <2>2. When(cam.armed, <<"disarm">>) \o <<"count">> \in Seq(Plain)
      BY <2>1, PlainRequests, ConcatProperties
    <2>3. When(cam.armed, <<"disarm">>) \o <<"count">>
            \o When(cam.armed, <<"arm">>) \in Seq(Plain)
      BY <2>1, <2>2, ConcatProperties
    <2> QED BY <2>3, PlainRequests, ConcatProperties
  <1>3. Begins("configure", todo, exposure)
    BY DEF Configure
  <1> HIDE DEF todo
  <1> QED BY <1>1, <1>2, <1>3, PlainBeginsKeepsIt

LEMMA PlainOperationsKeepIt == ASSUME IInv, Start \/ Stop \/ Close PROVE IInv'
  <1>1. /\ cam.armed \in BOOLEAN /\ 0 \in Int
        /\ {"start", "stop", "close"} \subseteq Ops \ {"idle"}
    BY DEF IInv, Typed, Camera, Ops
  <1>2. CASE Start
    <2>1. Begins("start", <<"put series", "arm">>, 0)
      BY <1>2 DEF Start
    <2> QED BY <1>1, <2>1, PlainRequests, PlainBeginsKeepsIt
  <1>3. CASE Stop
    <2>1. Begins("stop", <<"disarm">>, 0)
      BY <1>3 DEF Stop
    <2> QED BY <1>1, <2>1, PlainRequests, PlainBeginsKeepsIt
  <1>4. CASE Close
    <2>1. Begins("close", When(cam.armed, <<"disarm">>), 0)
      BY <1>4 DEF Close
    <2>2. When(cam.armed, <<"disarm">>) \in Seq(Plain)
      BY <1>1, PlainRequests
    <2> QED BY <1>1, <2>1, <2>2, PlainBeginsKeepsIt
  <1> QED BY <1>2, <1>3, <1>4

LEMMA AcquireFrameKeepsIt == ASSUME IInv, AcquireFrame PROVE IInv'
  <1> DEFINE todo == When(cam.left <= 0, <<"disarm", "arm">>) \o <<"trigger", "image">>
  <1>1. Begins("acquire", todo, 0) /\ cam.armed
    BY DEF AcquireFrame
  <1>2. "acquire" \in Ops \ {"idle"} /\ 0 \in Int
    BY DEF Ops
  <1>3. \/ todo = <<>> \o <<"trigger", "image">>
        \/ todo = <<"disarm", "arm">> \o <<"trigger", "image">>
    BY DEF When
  <1>4. Planned(todo)
    BY <1>3, ExposureIsPlanned
  <1>5. todo # <<>> => Head(todo) \notin Puts \cup {"image"}
    <2>1. Head(<<>> \o <<"trigger", "image">>) = "trigger"
      OBVIOUS
    <2>2. Head(<<"disarm", "arm">> \o <<"trigger", "image">>) = "disarm"
      OBVIOUS
    <2>3. {"trigger", "disarm"} \cap (Puts \cup {"image"}) = {}
      BY DEF Puts
    <2> QED BY <1>3, <2>1, <2>2, <2>3
  <1> HIDE DEF todo
  <1> QED BY <1>1, <1>2, <1>4, <1>5, BeginsKeepsIt

LEMMA EndsKeepsIt == ASSUME IInv, Ends PROVE IInv'
  <1>1. /\ call.todo = <<>> /\ call' = Idle /\ own' = {}
        /\ cam' = IF call.op = "close" THEN [cam EXCEPT !.closed = TRUE] ELSE cam
        /\ UNCHANGED <<dcu, coming, images, last, faults>>
    BY DEF Ends
  <1>2. call'.todo = <<>> /\ call'.op = "idle"
    BY <1>1 DEF Idle
  <1>3. cam' \in Camera /\ cam'.armed = cam.armed /\ cam'.series = cam.series
    BY <1>1 DEF IInv, Typed, Camera
  <1>4. Typed'
    <2>1. call' \in [op : Ops, todo : Seq(Requests), want : Int, retried : BOOLEAN]
      BY <1>1 DEF Idle, Ops
    <2>2. Planned(call'.todo)
      BY <1>2, NothingIsPlanned
    <2> QED BY <1>1, <1>2, <1>3, <2>1, <2>2 DEF IInv, Typed
  <1>5. Ordered' /\ Agreed' /\ FrameIsOfItsTrigger'
    BY <1>1, <1>2, <1>3 DEF IInv, Ordered, Agreed, FrameIsOfItsTrigger, Never
  <1>6. Awaited'
    BY <1>1 DEF IInv, Awaited, SeriesAgree, Never
  <1> QED BY <1>4, <1>5, <1>6 DEF IInv

LEMMA GivesUpKeepsIt == ASSUME IInv, GivesUp PROVE IInv'
  <1>1. /\ call.todo # <<>> /\ images = <<>> /\ call' = [call EXCEPT !.todo = <<>>]
        /\ IF coming = <<>> THEN UNCHANGED faults ELSE GoesWrong("late")
        /\ UNCHANGED <<cam, dcu, coming, images, own, last>>
    BY DEF GivesUp, IsAsking
  <1>2. /\ faults' \in [Kinds -> Nat] /\ \A k \in Kinds : faults'[k] = 0 => faults[k] = 0
        /\ coming # <<>> => faults'["late"] # 0
    BY <1>1, FaultsGrow DEF IInv, Typed, Kinds
  <1>3. \A kinds \in SUBSET Kinds : Never(kinds)' => Never(kinds)
    BY <1>2 DEF Never
  <1>4. call'.todo = <<>> /\ Planned(call'.todo)
        /\ call' \in [op : Ops, todo : Seq(Requests), want : Int, retried : BOOLEAN]
    <2>1. call \in [op : Ops, todo : Seq(Requests), want : Int, retried : BOOLEAN]
      BY DEF IInv, Typed
    <2>2. <<>> \in Seq(Requests)
      BY EmptySeq
    <2>3. call'.todo = <<>>
      BY <1>1, <2>1
    <2>4. call' \in [op : Ops, todo : Seq(Requests), want : Int, retried : BOOLEAN]
      BY <1>1, <2>1, <2>2
    <2> QED BY <2>3, <2>4, NothingIsPlanned
  <1>5. Typed'
    BY <1>1, <1>2, <1>4 DEF IInv, Typed
  <1>6. Ordered' /\ Agreed' /\ FrameIsOfItsTrigger'
    BY <1>1, <1>3, <1>4 DEF IInv, Ordered, Agreed, FrameIsOfItsTrigger, Kinds
  <1>7. Awaited'
    BY <1>1, <1>2, EmptySeq DEF Awaited, Never
  <1> QED BY <1>5, <1>6, <1>7 DEF IInv

----------------------------------------------------------------------------
(* Requests that fail *)

\* A request that fails leaves no plan, or the plan of an exposure on a series
\* armed for it.
LEMMA RaisesPlans ==
    ASSUME Typed, call.todo # <<>>, Raises
    PROVE  /\ cam' = cam /\ last' = last
           /\ call' \in [op : Ops, todo : Seq(Requests), want : Int, retried : BOOLEAN]
           /\ call'.op = call.op /\ call.op # "idle" /\ call'.want = call.want
           /\ Planned(call'.todo)
           /\ call'.todo # <<>> => Head(call'.todo) = "disarm"
  <1> DEFINE again == <<"disarm", "arm", "trigger", "image">>
  <1>1. /\ call \in [op : Ops, todo : Seq(Requests), want : Int, retried : BOOLEAN]
        /\ call.op # "idle"
    BY DEF Typed
  <1>2. Planned(again) /\ Planned(<<>>)
    BY ExposureIsPlanned, NothingIsPlanned
  <1>3. again \in Seq(Requests) /\ <<>> \in Seq(Requests)
    BY <1>2 DEF Planned
  <1>4. Head(again) = "disarm"
    OBVIOUS
  <1> HIDE DEF again
  <1>5. UNCHANGED <<cam, last>>
    BY DEF Raises
  <1>6. \/ call' = [call EXCEPT !.todo = again, !.retried = TRUE]
        \/ call' = [call EXCEPT !.todo = <<>>]
    BY DEF Raises, again
  <1>7. CASE call' = [call EXCEPT !.todo = again, !.retried = TRUE]
    <2>1. /\ call'.todo = again /\ call'.op = call.op /\ call'.want = call.want
      BY <1>1, <1>7
    <2>2. call' \in [op : Ops, todo : Seq(Requests), want : Int, retried : BOOLEAN]
      BY <1>1, <1>3, <1>7
    <2> QED BY <1>1, <1>2, <1>4, <1>5, <2>1, <2>2
  <1>8. CASE call' = [call EXCEPT !.todo = <<>>]
    <2>1. /\ call'.todo = <<>> /\ call'.op = call.op /\ call'.want = call.want
      BY <1>1, <1>8
    <2>2. call' \in [op : Ops, todo : Seq(Requests), want : Int, retried : BOOLEAN]
      BY <1>1, <1>3, <1>8
    <2> QED BY <1>1, <1>2, <1>5, <2>1, <2>2
  <1> QED BY <1>6, <1>7, <1>8

LEMMA RefusedKeepsIt == ASSUME IInv, Refused PROVE IInv'
  <1>1. /\ call.todo # <<>> /\ Head(call.todo) # "image" /\ Raises
        /\ UNCHANGED <<dcu, coming, images, own, faults>>
    BY DEF Refused, IsAsking, Request
  <1>2. /\ cam' = cam /\ last' = last
        /\ call' \in [op : Ops, todo : Seq(Requests), want : Int, retried : BOOLEAN]
        /\ call'.op # "idle"
        /\ Planned(call'.todo)
        /\ call'.todo # <<>> => Head(call'.todo) = "disarm"
    BY <1>1, RaisesPlans DEF IInv
  <1>3. Typed'
    BY <1>1, <1>2 DEF IInv, Typed
  <1>4. Ordered' /\ Agreed' /\ FrameIsOfItsTrigger'
    BY <1>1, <1>2 DEF IInv, Ordered, Agreed, FrameIsOfItsTrigger, Never
  <1>5. Awaited'
    BY <1>1, <1>2 DEF IInv, Awaited, SeriesAgree, Never
  <1> QED BY <1>3, <1>4, <1>5 DEF IInv

LEMMA UnreachedKeepsIt == ASSUME IInv, Unreached PROVE IInv'
  <1>1. /\ call.todo # <<>> /\ Raises
        /\ GoesWrong(IF Request = "image" THEN "unfetched" ELSE "unreached")
        /\ UNCHANGED <<dcu, coming, images, own>>
    BY DEF Unreached, IsAsking
  <1>2. /\ cam' = cam /\ last' = last
        /\ call' \in [op : Ops, todo : Seq(Requests), want : Int, retried : BOOLEAN]
        /\ call'.op # "idle"
        /\ Planned(call'.todo)
        /\ call'.todo # <<>> => Head(call'.todo) = "disarm"
    BY <1>1, RaisesPlans DEF IInv
  <1>3. /\ faults' \in [Kinds -> Nat] /\ \A k \in Kinds : faults'[k] = 0 => faults[k] = 0
        /\ Head(call.todo) = "image" => faults'["unfetched"] # 0
    <2>1. PICK kind \in Kinds : /\ GoesWrong(kind)
                                /\ Request = "image" => kind = "unfetched"
      BY <1>1 DEF Kinds
    <2> QED BY <2>1, FaultsGrow DEF IInv, Request
  <1>4. \A kinds \in SUBSET Kinds : Never(kinds)' => Never(kinds)
    BY <1>3 DEF Never
  <1>5. Typed'
    BY <1>1, <1>2, <1>3 DEF IInv, Typed
  <1>6. Ordered' /\ Agreed' /\ FrameIsOfItsTrigger'
    BY <1>1, <1>2, <1>4 DEF IInv, Ordered, Agreed, FrameIsOfItsTrigger, Kinds
  <1>7. Awaited'
    <2> SUFFICES ASSUME Never({"lost", "unfetched", "late", "triggered"})'
                 PROVE  Awaited'
      BY DEF Awaited
    <2>1. Never({"lost", "unfetched", "late", "triggered"}) /\ Head(call.todo) # "image"
      BY <1>3, <1>4 DEF Never, Kinds
    <2> QED BY <1>1, <1>2, <2>1 DEF IInv, Awaited
  <1> QED BY <1>5, <1>6, <1>7 DEF IInv

LEMMA ReplyIsLostKeepsIt == ASSUME IInv, ReplyIsLost PROVE IInv'
  <1>1. /\ call.todo # <<>> /\ Raises /\ GoesWrong("lost")
        /\ Accepts(Request) /\ Effect(Request)
    BY DEF ReplyIsLost, IsAsking
  <1>2. /\ cam' = cam /\ last' = last
        /\ call' \in [op : Ops, todo : Seq(Requests), want : Int, retried : BOOLEAN]
        /\ call'.op # "idle"
        /\ Planned(call'.todo)
        /\ call'.todo # <<>> => Head(call'.todo) = "disarm"
    BY <1>1, RaisesPlans DEF IInv
  <1>3. /\ faults' \in [Kinds -> Nat] /\ faults'["lost"] # 0
    BY <1>1, FaultsGrow DEF IInv, Kinds
  <1>4. /\ dcu' \in ControlUnit /\ coming' \in Seq(Exposed) /\ images' \in Seq(Exposed)
        /\ Never({"crossed", "restarted"}) => dcu'.frame >= dcu'.count
        /\ dcu'.owner = "none" <=> dcu'.state = "idle"
        /\ dcu'.owner # "them" \/ dcu'.owner = dcu.owner
    BY <1>1, EffectIsTyped DEF IInv, Agreed
  <1>5. /\ ~Never({"lost"})' /\ ~Never({"lost", "unfetched", "late", "triggered"})'
        /\ ~Never({"lost", "disarmed", "restarted"})'
        /\ Never({"crossed", "restarted"})' => Never({"crossed", "restarted"})
        /\ Never({"armed"})' => Never({"armed"})
    <2>1. \A k \in Kinds : faults'[k] = 0 => faults[k] = 0
      BY <1>1, FaultsGrow DEF IInv, Kinds
    <2> QED BY <1>3, <2>1 DEF Never, Kinds
  <1>6. Typed'
    BY <1>2, <1>3, <1>4 DEF IInv, Typed
  <1>7. Ordered'
    BY <1>2, <1>4, <1>5 DEF Ordered
  <1>8. Agreed' /\ Awaited' /\ FrameIsOfItsTrigger'
    BY <1>4, <1>5 DEF IInv, Agreed, Awaited, FrameIsOfItsTrigger
  <1> QED BY <1>6, <1>7, <1>8 DEF IInv

----------------------------------------------------------------------------
(* Requests that are answered *)

\* What the reply of each request leaves to ask: the two writes are planned by
\* the count time that was read, the one that widens the gap first.
LEMMA RepliedIsPlanned ==
    ASSUME Typed, call.todo # <<>>, Replied(Request)
    PROVE  /\ call' \in [op : Ops, todo : Seq(Requests), want : Int, retried : BOOLEAN]
           /\ call'.op = call.op /\ call'.want = call.want
           /\ call'.op # "idle" /\ Planned(call'.todo)
           /\ Request # "count" => call'.todo = Rest
           /\ Request = "count" =>
                /\ call'.todo # <<>> /\ Head(call'.todo) \in Puts
                /\ Head(call'.todo) = "put frame" => call.want >= dcu.count
                /\ Head(call'.todo) = "put count" => ~(call.want >= dcu.count)
  <1>1. /\ call \in [op : Ops, todo : Seq(Requests), want : Int, retried : BOOLEAN]
        /\ Rest \in Seq(Requests) /\ Planned(Rest) /\ call.op # "idle"
        /\ Planned(call.todo) /\ Rest = Tail(call.todo) /\ Request = Head(call.todo)
    BY PlanHasRequests DEF Typed
  <1>2. CASE Request # "count"
    <2>1. call' = [call EXCEPT !.todo = Rest]
      BY <1>2 DEF Replied
    <2> QED BY <1>1, <1>2, <2>1
  <1>3. CASE Request = "count"
    <2>1. call' = [call EXCEPT !.todo = Writes(dcu.count) \o Rest]
      BY <1>3 DEF Replied
    <2>2. PICK a \in Puts, b \in Puts :
            /\ a # b /\ Writes(dcu.count) = <<a, b>>
            /\ a = "put frame" => call.want >= dcu.count
            /\ a = "put count" => ~(call.want >= dcu.count)
      <3>1. CASE call.want >= dcu.count
        <4>1. Writes(dcu.count) = <<"put frame", "put count">>
          BY <3>1 DEF Writes
        <4> QED BY <3>1, <4>1 DEF Puts
      <3>2. CASE ~(call.want >= dcu.count)
        <4>1. Writes(dcu.count) = <<"put count", "put frame">>
          BY <3>2 DEF Writes
        <4> QED BY <3>2, <4>1 DEF Puts
      <3> QED BY <3>1, <3>2
    <2>3. PICK t : t = <<a, b>> \o Tail(call.todo)
      OBVIOUS
    <2>4. Planned(t) /\ Head(t) = a /\ t # <<>>
      BY <1>1, <1>3, <2>2, <2>3, OrderedIsPlanned
    <2>5. call' = [call EXCEPT !.todo = t]
      BY <1>1, <2>1, <2>2, <2>3
    <2>6. t \in Seq(Requests)
      BY <2>4 DEF Planned
    <2>7. /\ call'.todo = t /\ call'.op = call.op /\ call'.want = call.want
          /\ call' \in [op : Ops, todo : Seq(Requests), want : Int, retried : BOOLEAN]
      BY <1>1, <2>5, <2>6
    <2> QED BY <1>1, <1>3, <2>2, <2>4, <2>7
  <1> QED BY <1>2, <1>3

\* What the camera keeps of a reply.
LEMMA RepliedIsTyped ==
    ASSUME Typed, dcu' \in ControlUnit, call.todo # <<>>, Replied(Request)
    PROVE  /\ cam' \in Camera
           /\ Request = "arm" => cam'.armed = TRUE /\ cam'.series = dcu'.series
           /\ Request = "disarm" => cam'.armed = FALSE /\ cam'.series = cam.series
           /\ Request \notin {"arm", "disarm"} =>
                cam'.armed = cam.armed /\ cam'.series = cam.series
  <1>1. cam \in Camera /\ dcu \in ControlUnit
    BY DEF Typed
  <1>5. CASE Request = "arm"
    <2>1. cam' = [cam EXCEPT !.armed = TRUE, !.left = TriggersPerArm, !.series = dcu'.series]
      BY <1>5 DEF Replied
    <2>2. /\ [cam EXCEPT !.armed = TRUE] \in Camera /\ TriggersPerArm \in Int
          /\ dcu'.series \in Int
      <3>1. [cam EXCEPT !.armed = TRUE] \in Camera
        BY <1>1 DEF Camera
      <3>2. TriggersPerArm \in Int
        BY Bounds
      <3>3. dcu'.series \in Int
        BY DEF ControlUnit
      <3> QED BY <3>1, <3>2, <3>3
    <2>3. [cam EXCEPT !.armed = TRUE, !.left = TriggersPerArm] \in Camera
      BY <2>2 DEF Camera
    <2>4. cam' \in Camera
      BY <2>1, <2>2, <2>3 DEF Camera
    <2>5. cam'.armed = TRUE /\ cam'.series = dcu'.series
      BY <1>1, <2>1 DEF Camera
    <2> QED BY <1>5, <2>4, <2>5
  <1>6. CASE Request = "disarm"
    <2>1. cam' = [cam EXCEPT !.armed = FALSE, !.left = 0]
      BY <1>6 DEF Replied
    <2>2. [cam EXCEPT !.armed = FALSE] \in Camera
      BY <1>1 DEF Camera
    <2>3. cam' \in Camera
      <3>1. \A c \in Camera, n \in Int : [c EXCEPT !.left = n] \in Camera
        BY DEF Camera
      <3>2. 0 \in Int
        OBVIOUS
      <3> QED BY <2>1, <2>2, <3>1, <3>2, Zenon
    <2>4. cam'.armed = FALSE /\ cam'.series = cam.series
      BY <1>1, <2>1 DEF Camera
    <2> QED BY <1>6, <2>3, <2>4
  <1>7. CASE Request = "trigger"
    <2>1. cam' = [cam EXCEPT !.left = @ - 1]
      BY <1>7 DEF Replied
    <2> QED BY <1>1, <1>7, <2>1 DEF Camera
  <1>8. CASE Request = "read back"
    <2>1. cam' = [cam EXCEPT !.exposure = dcu.count, !.open = TRUE]
      BY <1>8 DEF Replied
    <2>2. dcu.count \in Int
      BY <1>1 DEF ControlUnit
    <2>3. [cam EXCEPT !.exposure = dcu.count] \in Camera
      BY <1>1, <2>2 DEF Camera
    <2>4. cam' \in Camera
      BY <2>1, <2>3 DEF Camera
    <2>5. cam'.armed = cam.armed /\ cam'.series = cam.series
      BY <1>1, <2>1 DEF Camera
    <2> QED BY <1>8, <2>4, <2>5
  <1>9. CASE Request \notin {"arm", "disarm", "trigger", "read back"}
    <2>1. cam' = cam
      BY <1>9 DEF Replied
    <2> QED BY <1>1, <1>9, <2>1
  <1> QED BY <1>5, <1>6, <1>7, <1>8, <1>9

\* What the other requests leave of the control unit.
LEMMA EffectSpares ==
    ASSUME Typed, Effect(Request)
    PROVE  /\ Request \notin {"put count", "put frame"} =>
                dcu'.count = dcu.count /\ dcu'.frame = dcu.frame
           /\ Request = "put count" => dcu'.count = call.want /\ dcu'.frame = dcu.frame
           /\ Request = "put frame" => dcu'.frame = call.want /\ dcu'.count = dcu.count
           /\ Request = "arm" => dcu'.owner = "us"
           /\ Request = "disarm" => dcu'.owner = "none"
           /\ Request \notin {"arm", "disarm"} =>
                dcu'.owner = dcu.owner /\ dcu'.series = dcu.series
           /\ Request \notin {"trigger", "image"} => UNCHANGED <<coming, images>>
  <1>1. dcu \in ControlUnit
    BY DEF Typed
  <1>2. CASE Request = "arm"
    <2>1. /\ dcu' = [dcu EXCEPT !.state = "ready", !.owner = "us", !.series = @ + 1,
                                !.left = dcu.ntrigger]
          /\ UNCHANGED <<coming, images>>
      BY <1>2 DEF Effect
    <2> QED BY <1>1, <1>2, <2>1 DEF ControlUnit
  <1>3. CASE Request = "disarm"
    <2>1. /\ dcu' = [dcu EXCEPT !.state = "idle", !.owner = "none", !.left = 0]
          /\ UNCHANGED <<coming, images>>
      BY <1>3 DEF Effect
    <2> QED BY <1>1, <1>3, <2>1 DEF ControlUnit
  <1>4. CASE Request = "trigger"
    <2>1. Exposes
      BY <1>4 DEF Effect
    <2> QED BY <1>4, <2>1, ExposesIsTyped
  <1>5. CASE Request = "put count"
    <2>1. dcu' = [dcu EXCEPT !.count = call.want] /\ UNCHANGED <<coming, images>>
      BY <1>5 DEF Effect
    <2> QED BY <1>1, <1>5, <2>1 DEF ControlUnit
  <1>6. CASE Request = "put frame"
    <2>1. dcu' = [dcu EXCEPT !.frame = call.want] /\ UNCHANGED <<coming, images>>
      BY <1>6 DEF Effect
    <2> QED BY <1>1, <1>6, <2>1 DEF ControlUnit
  <1>7. CASE Request = "put series"
    <2>1. /\ dcu' = [dcu EXCEPT !.ntrigger = TriggersPerArm, !.monitor = TRUE]
          /\ UNCHANGED <<coming, images>>
      BY <1>7 DEF Effect
    <2> QED BY <1>1, <1>7, <2>1 DEF ControlUnit
  <1>8. CASE Request = "image"
    BY <1>8 DEF Effect
  <1>9. CASE Request \notin {"arm", "disarm", "trigger", "put count", "put frame",
                             "put series", "image"}
    <2>1. UNCHANGED <<dcu, coming, images>>
      BY <1>9 DEF Effect
    <2> QED BY <1>9, <2>1
  <1> QED BY <1>2, <1>3, <1>4, <1>5, <1>6, <1>7, <1>8, <1>9

LEMMA AnsweredKeepsIt == ASSUME IInv, Answered PROVE IInv'
  <1>1. /\ call.todo # <<>> /\ Accepts(Request) /\ Effect(Request) /\ Replied(Request)
        /\ own' = OwnAfter(Request) /\ faults' = faults
    BY DEF Answered, IsAsking
  <1>2. /\ Request \in Requests /\ Request = Head(call.todo)
        /\ Rest = Tail(call.todo) /\ Planned(call.todo) /\ Planned(Rest)
    BY <1>1, PlanHasRequests DEF IInv
  <1>3. /\ dcu' \in ControlUnit /\ coming' \in Seq(Exposed) /\ images' \in Seq(Exposed)
        /\ Never({"crossed", "restarted"}) => dcu'.frame >= dcu'.count
        /\ dcu'.owner = "none" <=> dcu'.state = "idle"
        /\ dcu'.owner # "them" \/ dcu'.owner = dcu.owner
    BY <1>1, EffectIsTyped DEF IInv, Agreed
  <1>4. /\ cam' \in Camera
        /\ Request = "arm" => cam'.armed = TRUE /\ cam'.series = dcu'.series
        /\ Request = "disarm" => cam'.armed = FALSE /\ cam'.series = cam.series
        /\ Request \notin {"arm", "disarm"} =>
             cam'.armed = cam.armed /\ cam'.series = cam.series
        /\ call' \in [op : Ops, todo : Seq(Requests), want : Int, retried : BOOLEAN]
        /\ call'.op = call.op /\ call'.want = call.want
        /\ call'.op # "idle" /\ Planned(call'.todo)
        /\ Request # "count" => call'.todo = Rest
        /\ Request = "count" =>
             /\ call'.todo # <<>> /\ Head(call'.todo) \in Puts
             /\ Head(call'.todo) = "put frame" => call.want >= dcu.count
             /\ Head(call'.todo) = "put count" => ~(call.want >= dcu.count)
    BY <1>1, <1>3, RepliedIsTyped, RepliedIsPlanned DEF IInv
  <1>5. /\ call'.todo # <<>> /\ Head(call'.todo) = "trigger" => Request = "arm"
        /\ Request # "count" /\ call'.todo # <<>> /\ Head(call'.todo) \in Puts =>
             Request \in Puts /\ Request # Head(call'.todo)
    <2>1. CASE Request = "count"
      BY <1>4, <2>1 DEF Puts
    <2>2. CASE Request # "count"
      <3>1. Rest # <<>> =>
              /\ Head(Rest) \in Puts => Request \in Puts /\ Request # Head(Rest)
              /\ Head(Rest) = "trigger" => Request = "arm"
        BY <1>1, <1>2, NextRequest
      <3> QED BY <1>4, <2>2, <3>1
    <2> QED BY <2>1, <2>2
  <1>6. Typed'
    BY <1>1, <1>3, <1>4 DEF IInv, Typed
  <1>7. Ordered'
    <2> SUFFICES ASSUME Never({"crossed", "restarted"})'
                 PROVE  /\ dcu'.frame >= dcu'.count
                        /\ call'.todo # <<>> =>
                             /\ Head(call'.todo) = "put count" => dcu'.frame >= call.want
                             /\ Head(call'.todo) = "put frame" => call.want >= dcu'.count
      BY <1>4 DEF Ordered
    <2>1. /\ dcu'.frame \in Int /\ dcu'.count \in Int /\ call.want \in Int
          /\ dcu.frame \in Int /\ dcu.count \in Int
      BY <1>3 DEF IInv, Typed, ControlUnit
    <2>2. dcu'.frame >= dcu'.count /\ dcu.frame >= dcu.count
      BY <1>1, <1>3 DEF Never, IInv, Ordered
    <2>3. CASE Request = "count"
      <3>1. dcu'.count = dcu.count /\ dcu'.frame = dcu.frame
        BY <1>1, <2>3, EffectSpares DEF IInv
      <3>2. Head(call'.todo) = "put count" => dcu'.frame >= call.want
        <4>1. ~(call.want >= dcu.count) => dcu.frame >= call.want
          BY <2>1, <2>2
        <4> QED BY <1>4, <2>3, <3>1, <4>1
      <3>3. Head(call'.todo) = "put frame" => call.want >= dcu'.count
        BY <1>4, <2>3, <3>1
      <3> QED BY <2>2, <3>2, <3>3
    <2>4. CASE Request # "count"
      <3>1. ASSUME call'.todo # <<>>, Head(call'.todo) = "put count"
            PROVE  dcu'.frame >= call.want
        <4>1. Request = "put frame"
          BY <1>5, <2>4, <3>1 DEF Puts
        <4>2. dcu'.frame = call.want
          BY <1>1, <4>1, EffectSpares DEF IInv
        <4> QED BY <2>1, <4>2
      <3>2. ASSUME call'.todo # <<>>, Head(call'.todo) = "put frame"
            PROVE  call.want >= dcu'.count
        <4>1. Request = "put count"
          BY <1>5, <2>4, <3>2 DEF Puts
        <4>2. dcu'.count = call.want
          BY <1>1, <4>1, EffectSpares DEF IInv
        <4> QED BY <2>1, <4>2
      <3> QED BY <2>2, <3>1, <3>2
    <2> QED BY <2>3, <2>4
  <1>8. Agreed'
    <2>1. Never({"armed"})' => dcu'.owner # "them"
      BY <1>1, <1>3 DEF IInv, Agreed, Never
    <2>2. ASSUME Never({"lost"})'
          PROVE  /\ dcu'.owner = "us" => cam'.armed /\ cam'.series = dcu'.series
                 /\ call'.todo # <<>> /\ Head(call'.todo) = "trigger" => cam'.armed
      <3>1. dcu.owner = "us" => cam.armed /\ cam.series = dcu.series
        BY <1>1, <2>2 DEF IInv, Agreed, Never
      <3>2. call'.todo # <<>> /\ Head(call'.todo) = "trigger" => cam'.armed
        BY <1>4, <1>5
      <3>3. CASE Request = "arm"
        BY <1>4, <3>2, <3>3
      <3>4. CASE Request = "disarm"
        BY <1>1, <3>2, <3>4, EffectSpares DEF IInv
      <3>5. CASE Request \notin {"arm", "disarm"}
        <4>1. dcu'.owner = dcu.owner /\ dcu'.series = dcu.series
          BY <1>1, <3>5, EffectSpares DEF IInv
        <4>2. cam'.armed = cam.armed /\ cam'.series = cam.series
          BY <1>4, <3>5
        <4> QED BY <3>1, <3>2, <4>1, <4>2
      <3> QED BY <3>3, <3>4, <3>5
    <2>3. ASSUME Never({"lost", "disarmed", "restarted"})'
          PROVE  cam'.armed => dcu'.owner = "us"
      <3>1. cam.armed => dcu.owner = "us"
        BY <1>1, <2>3 DEF IInv, Agreed, Never
      <3>2. CASE Request \in {"arm", "disarm"}
        BY <1>1, <1>4, <3>2, EffectSpares DEF IInv
      <3>3. CASE Request \notin {"arm", "disarm"}
        <4>1. dcu'.owner = dcu.owner
          BY <1>1, <3>3, EffectSpares DEF IInv
        <4> QED BY <1>4, <3>1, <3>3, <4>1
      <3> QED BY <3>2, <3>3
    <2> QED BY <1>3, <2>1, <2>2, <2>3 DEF Agreed
  <1>9. Awaited'
    <2> SUFFICES ASSUME Never({"lost", "unfetched", "late", "triggered"})'
                 PROVE  Awaited'
      BY DEF Awaited
    <2>1. Never({"lost", "unfetched", "late", "triggered"}) /\ Never({"lost"})
      BY <1>1 DEF Never
    <2>2. /\ Len(coming) + Len(images) <= 1
          /\ Request # "image" => coming = <<>> /\ images = <<>>
      BY <1>2, <2>1 DEF IInv, Awaited
    <2>3. /\ coming \in Seq(Exposed) /\ images \in Seq(Exposed)
          /\ Len(coming) \in Nat /\ Len(images) \in Nat
      BY DEF IInv, Typed
    <2>4. CASE Request = "trigger"
      <3>1. Exposes /\ own' = own \cup {dcu.shots + 1} /\ dcu.state = "ready"
        BY <1>1, <2>4 DEF Effect, Accepts, OwnAfter
      <3>2. coming = <<>> /\ images = <<>>
        BY <2>2, <2>4
      <3>3. /\ images' = <<>>
            /\ coming' # <<>> => /\ Len(coming') = 1 /\ coming'[1].shot = dcu.shots + 1
                                 /\ coming'[1].series = dcu.series
        BY <3>1, <3>2, ExposesIsTyped DEF IInv
      <3>4. SeriesAgree' => cam'.series = dcu.series
        <4>1. dcu.owner # "none" /\ cam'.series = cam.series /\ dcu.owner \in {"none", "us", "them"}
          BY <1>4, <2>4, <3>1 DEF IInv, Agreed, Typed, ControlUnit
        <4>2. cam.armed /\ (dcu.owner = "us" => cam.series = dcu.series)
          BY <1>1, <1>2, <2>1, <2>4 DEF IInv, Agreed
        <4>3. Never({"armed"})' => dcu.owner = "us"
          BY <1>1, <4>1 DEF IInv, Agreed, Never
        <4>4. Never({"disarmed", "restarted"})' => dcu.owner = "us"
          BY <1>1, <2>1, <4>2 DEF IInv, Agreed, Never
        <4> QED BY <4>1, <4>2, <4>3, <4>4 DEF SeriesAgree
      <3>5. call'.todo # <<>> /\ Head(call'.todo) = "image"
        BY <1>1, <1>2, <1>4, <2>4, TriggerThenImage
      <3>6. Len(coming') + Len(images') <= 1
        <4>1. images' = <<>> /\ Len(images') = 0
          BY <3>3, EmptySeq
        <4>2. CASE coming' = <<>>
          BY <4>1, <4>2, EmptySeq
        <4>3. CASE coming' # <<>>
          <5>1. Len(coming') = 1
            BY <3>3, <4>3
          <5> HIDE DEF Awaited
          <5> QED BY <4>1, <5>1
        <4> QED BY <4>2, <4>3
      <3>7. images' = <<>>
        BY <3>3
      <3>8. coming' # <<>> \/ images' # <<>> => call'.todo # <<>> /\ Head(call'.todo) = "image"
        BY <3>5
      <3>9. images' # <<>> => /\ images'[1].shot \in own'
                              /\ SeriesAgree' => images'[1].series = cam'.series
        BY <3>7
      <3>10. coming' # <<>> => /\ coming'[1].shot \in own'
                               /\ SeriesAgree' => coming'[1].series = cam'.series
        BY <3>1, <3>3, <3>4
      <3> QED BY <3>6, <3>8, <3>9, <3>10, Zenon DEF Awaited
    <2>5. CASE Request = "image"
      <3>1. images' = Tail(images) /\ images # <<>> /\ coming' = coming
        BY <1>1, <2>5 DEF Effect, Accepts
      <3>2. Len(images) = 1 /\ Len(coming) = 0 /\ Len(images') = 0
        <4>1. Len(images) \in Nat \ {0} /\ Len(images') = Len(images) - 1
          BY <2>3, <3>1
        <4> QED BY <2>2, <2>3, <4>1
      <3>3. coming' = <<>> /\ images' = <<>>
        BY <1>3, <2>3, <3>1, <3>2, EmptySeq
      <3> QED BY <3>3, EmptySeq DEF Awaited
    <2>6. CASE Request \notin {"trigger", "image"}
      <3>1. coming' = <<>> /\ images' = <<>>
        BY <1>1, <2>2, <2>6, EffectSpares DEF IInv
      <3> QED BY <3>1, EmptySeq DEF Awaited
    <2> QED BY <2>4, <2>5, <2>6
  <1>10. FrameIsOfItsTrigger'
    <2>1. CASE Request = "image"
      <3> SUFFICES ASSUME Never({"lost", "unfetched", "late", "triggered"})'
                   PROVE  /\ last'.shot \in last'.asked
                          /\ SeriesAgree' => last'.series = last'.taken
        BY DEF FrameIsOfItsTrigger, SeriesAgree
      <3>1. Never({"lost", "unfetched", "late", "triggered"})
        BY <1>1 DEF Never
      <3>2. images # <<>> /\ images \in Seq(Exposed)
        BY <1>1, <2>1 DEF Accepts, IInv, Typed
      <3>3. /\ images[1].shot \in own /\ Head(images) = images[1]
            /\ SeriesAgree' => images[1].series = cam.series
        BY <1>1, <3>1, <3>2 DEF IInv, Awaited, SeriesAgree, Never
      <3>4. last' = [shot |-> Head(images).shot, exposure |-> Head(images).exposure,
                     taken |-> Head(images).series, label |-> cam.exposure,
                     series |-> cam.series, asked |-> own]
        BY <1>1, <2>1 DEF Replied
      <3> QED BY <3>3, <3>4
    <2>2. CASE Request # "image"
      <3>1. last' = last
        BY <1>1, <2>2 DEF Replied
      <3> QED BY <1>1, <3>1 DEF IInv, FrameIsOfItsTrigger, Never
    <2> QED BY <2>1, <2>2
  <1> QED BY <1>6, <1>7, <1>8, <1>9, <1>10 DEF IInv

----------------------------------------------------------------------------
(* Theorems *)

LEMMA StutterKeepsIt == ASSUME IInv, UNCHANGED vars PROVE IInv'
  <1>1. UNCHANGED <<cam, dcu, coming, images, call, own, last, faults>>
    BY DEF vars
  <1>2. \A kinds \in SUBSET Kinds : Never(kinds)' <=> Never(kinds)
    BY <1>1 DEF Never
  <1>3. Typed' /\ Ordered' /\ Agreed'
    BY <1>1, <1>2 DEF IInv, Typed, Ordered, Agreed, Kinds
  <1>4. Awaited' /\ FrameIsOfItsTrigger'
    BY <1>1, <1>2 DEF IInv, Awaited, SeriesAgree, FrameIsOfItsTrigger, Kinds
  <1> QED BY <1>3, <1>4 DEF IInv

LEMMA NextKeepsIt == IInv /\ [Next]_vars => IInv'
  <1> SUFFICES ASSUME IInv, [Next]_vars PROVE IInv'
    OBVIOUS
  <1>1. CASE Operations
    BY <1>1, ConfigureKeepsIt, PlainOperationsKeepIt, AcquireFrameKeepsIt DEF Operations
  <1>2. CASE HttpSteps
    BY <1>2, AnsweredKeepsIt, RefusedKeepsIt, UnreachedKeepsIt,
       ReplyIsLostKeepsIt, GivesUpKeepsIt, EndsKeepsIt DEF HttpSteps
  <1>3. CASE ImageArrives \/ OtherClients \/ Restarts
    BY <1>3, ImageArrivesKeepsIt, ImageIsDrainedKeepsIt, OtherArmsKeepsIt,
       OtherTriggersKeepsIt, OtherDisarmsKeepsIt, OtherWritesKeepsIt, RestartsKeepsIt
       DEF OtherClients
  <1>4. CASE UNCHANGED vars
    BY <1>4, StutterKeepsIt
  <1> QED BY <1>1, <1>2, <1>3, <1>4 DEF Next

\* The camera and the control unit agree, and at most one image is out, in
\* every state of every execution: the invariant of the other theorems.
THEOREM TheyAgree == Spec => []IInv
  <1> QED BY InitKeepsIt, NextKeepsIt, PTL DEF Spec

\* configure() never lets the frame time fall below the count time, whichever
\* way the exposure changes and wherever the change breaks off.
THEOREM FrameTimeAlwaysCovers == Spec => []FrameTimeCovers
  <1>1. IInv => FrameTimeCovers
    BY DEF IInv, Ordered, FrameTimeCovers
  <1> QED BY <1>1, TheyAgree, PTL

\* While no reply is lost, the camera believes the detector armed between two
\* calls exactly when its own series is: stop(), close() and a retried
\* acquire_frame() leave nothing held, and no call works on another's series.
THEOREM ArmedIsAlwaysHeld == Spec => []ArmedIsHeld
  <1>1. IInv => ArmedIsHeld
    BY DEF IInv, Agreed, ArmedIsHeld, Never
  <1> QED BY <1>1, TheyAgree, PTL

\* acquire_frame() returns an exposure it triggered itself, under the series it
\* was taken in, while no reply is lost and no image given up.
THEOREM FrameIsAlwaysOfItsTrigger == Spec => []FrameIsOfItsTrigger
  <1>1. IInv => FrameIsOfItsTrigger
    BY DEF IInv
  <1> QED BY <1>1, TheyAgree, PTL
=============================================================================
