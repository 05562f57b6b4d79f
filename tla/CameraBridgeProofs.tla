--------------------------- MODULE CameraBridgeProofs ---------------------------
(***************************************************************************)
(* Proofs about CameraBridge, for any number of devices and of library     *)
(* instances: that a camera is set up before it streams, that the listener *)
(* knows the name of every device it hears of again, and that a camera     *)
(* whose device went offline is asked to stop.  The invariant of the       *)
(* client comes from CameraClientProofs.                                   *)
(***************************************************************************)
EXTENDS CameraBridge, CameraClientProofs

Busy == {"starting", "stopping"}
Setup == {"video", "status", "audio"}

\* Discovery is not started before the listener is there, and what is announced is
\* what the table says.
FeedAgrees ==
    /\ discovering => registered
    /\ event # feed!NoEvent =>
          /\ registered
          /\ status[did] = IF change = "OFFLINE" THEN "offline" ELSE "online"

\* Each place of the listener belongs to one case of its switch.
StepFitsEvent ==
    /\ step # "idle" => event # feed!NoEvent
    /\ step \in {"cloud", "create"} \cup Setup => change = "NEW"
    /\ step \in {"start", "starting"} => change \in {"NEW", "ONLINE"}
    /\ step \in {"stop", "stopping"} => change = "OFFLINE"

\* The call under way is the listener's, on the instance its camera still has.
CallFitsStep ==
    IF step \in Busy /\ Found(did)
      THEN call = [op |-> IF step = "starting" THEN "start" ELSE "stop",
                   ptr |-> cameras[did].ptr]
      ELSE call = NoCall

\* A device of the table has its entry in cloud_devices, unless its NEW is pending.
Pending(d) == event = <<d, "NEW">> /\ step \in {"idle", "cloud"}
KnownOnceHeard ==
    \A d \in Did : status[d] # "absent" => cloudDevices[d] # "none" \/ Pending(d)

NoCameraYet(d) ==
    \/ status[d] = "absent"
    \/ event = <<d, "NEW">> /\ step \in {"idle", "cloud", "create"}
InSetup(d) == event = <<d, "NEW">> /\ step \in Setup
Earlier(s) == IF s = "video" THEN {} ELSE IF s = "status" THEN {"video"}
              ELSE {"video", "status"}

\* A camera is idle while its listeners are registered one by one, and has them all
\* from then on.
SetUpInOrder ==
    \A d \in Did : Found(d) =>
        /\ ~NoCameraYet(d)
        /\ IF InSetup(d)
             THEN /\ lib[cameras[d].ptr].state = "idle"
                  /\ Earlier(step) \subseteq cameras[d].callbacks
                  /\ step # "video" => lib[cameras[d].ptr].raw
             ELSE cameras[d].callbacks = Kind /\ lib[cameras[d].ptr].raw

ToBeStopped(d) == event = <<d, "OFFLINE">> /\ step \in {"idle", "stop", "stopping"}
StoppedOrToBe ==
    \A d \in Did : (status[d] = "offline" /\ Found(d))
                       => lib[cameras[d].ptr].asked = "stop" \/ ToBeStopped(d)

BridgeInv ==
    /\ TypeOK /\ InstancesOwned /\ HeldPointerLive
    /\ FeedAgrees /\ StepFitsEvent /\ CallFitsStep
    /\ KnownOnceHeard /\ SetUpInOrder /\ StoppedOrToBe

--------------------------------------------------------------------------------
(* Lemmas about the operators.                                              *)

\* What is announced is a device and a change.
LEMMA EventShape ==
    ASSUME TypeOK
    PROVE  /\ event # feed!NoEvent => did \in Did /\ change \in feed!Change
                                      /\ event = <<did, change>>
           /\ \A d, c : c # "none" => (event = <<d, c>> <=>
                            event # feed!NoEvent /\ did = d /\ change = c)
BY DEF TypeOK, feed!TypeOK, feed!NoEvent, feed!Change, did, change

\* The order of the statements of the NEW case.
LEMMA AfterSteps ==
    /\ change = "NEW" => /\ After("create") = "video"
                         /\ After("video") = "status"
                         /\ After("status") = "audio"
                         /\ After("audio") = "start"
    /\ After("start") = "done"
    /\ change = "OFFLINE" => After("stop") = "done"
<1>1. /\ Len(Order) = 5
      /\ Order[1] = "create" /\ Order[2] = "video" /\ Order[3] = "status"
      /\ Order[4] = "audio" /\ Order[5] = "start"
  BY DEF Order
<1> DEFINE Place(s) == CHOOSE i \in 1..Len(Order) : Order[i] = s
<1>2. Place("create") = 1
  BY <1>1
<1>3. Place("video") = 2
  BY <1>1
<1>4. Place("status") = 3
  BY <1>1
<1>5. Place("audio") = 4
  BY <1>1
<1>6. Place("start") = 5
  BY <1>1
<1>7. \A s : After(s) = IF change # "NEW" \/ Place(s) = Len(Order) THEN "done"
                        ELSE Order[Place(s) + 1]
  BY DEF After
<1> HIDE DEF Place
<1> QED
  BY <1>1, <1>2, <1>3, <1>4, <1>5, <1>6, <1>7

LEMMA BridgeInvIsClients == BridgeInv => IInv
BY DEF BridgeInv, IInv, TypeOK

LEMMA InitBridgeInv == Init => BridgeInv
<1> SUFFICES ASSUME Init PROVE BridgeInv
  OBVIOUS
<1>1. IInv
  BY InitIInv DEF Init
<1>2. TypeOK
  BY <1>1 DEF Init, IInv, TypeOK, feed!Init, feed!TypeOK, feed!Status, feed!NoEvent
<1>3. ~\E d \in Did : Found(d)
  BY DEF Init, ClientInit, Found, NoCamera
<1>4. FeedAgrees /\ StepFitsEvent /\ CallFitsStep
  BY DEF Init, ClientInit, feed!Init, FeedAgrees, StepFitsEvent, CallFitsStep, Busy, Setup
<1>5. KnownOnceHeard /\ SetUpInOrder /\ StoppedOrToBe
  BY <1>3 DEF Init, feed!Init, KnownOnceHeard, SetUpInOrder, StoppedOrToBe
<1> QED
  BY <1>1, <1>2, <1>4, <1>5 DEF IInv, BridgeInv

--------------------------------------------------------------------------------
(* The steps that leave the camera client alone.                            *)

LEMMA ClientAlone ==
    ASSUME BridgeInv, UNCHANGED clientVars
    PROVE  /\ IInv'
           /\ cameras' = cameras /\ lib' = lib /\ call' = call
           /\ \A d : Found(d)' <=> Found(d)
<1>1. IInv
  BY BridgeInvIsClients
<1> USE DEF clientVars
<1>2. ClientTypeOK'
  BY <1>1 DEF IInv, ClientTypeOK
<1> QED
  BY <1>1, <1>2 DEF IInv, InstancesOwned, HeldPointerLive, Found

\* main() may only start discovery once the listener is registered.
LEMMA MainStep == ASSUME BridgeInv, RegisterCallback \/ StartDiscovery PROVE BridgeInv'
<1>1. UNCHANGED <<status, event, step, cloudDevices, clientVars>>
  BY DEF RegisterCallback, StartDiscovery
<1>2. registered' \in BOOLEAN /\ discovering' \in BOOLEAN
      /\ (discovering' => registered') /\ (registered => registered')
  BY DEF RegisterCallback, StartDiscovery, MayStart, BridgeInv, TypeOK, FeedAgrees
<1> USE <1>1, ClientAlone
<1>3. TypeOK'
  BY <1>2 DEF BridgeInv, TypeOK, IInv, feed!TypeOK
<1>4. FeedAgrees' /\ StepFitsEvent' /\ CallFitsStep'
  BY <1>2 DEF BridgeInv, FeedAgrees, StepFitsEvent, CallFitsStep, did, change
<1>5. KnownOnceHeard' /\ SetUpInOrder' /\ StoppedOrToBe'
  BY DEF BridgeInv, KnownOnceHeard, SetUpInOrder, StoppedOrToBe, Pending, NoCameraYet,
         InSetup, ToBeStopped
<1> QED
  BY <1>3, <1>4, <1>5 DEF BridgeInv, IInv

\* A settled feed moves one device: one that appears has no camera, one that vanishes
\* is still to be stopped.
LEMMA AnnouncementStep == ASSUME BridgeInv, Announcement PROVE BridgeInv'
<1>1. PICK d \in Did : feed!Appear(d) \/ feed!Return(d) \/ feed!Move(d) \/ feed!Vanish(d)
  BY DEF Announcement
<1>2. PICK from \in feed!Status, to \in feed!Status, c \in feed!Change :
          /\ event = feed!NoEvent /\ status[d] = from
          /\ status' = [status EXCEPT ![d] = to] /\ event' = <<d, c>>
          /\ to = IF c = "OFFLINE" THEN "offline" ELSE "online"
          /\ c = "NEW" <=> from = "absent"
  BY <1>1 DEF feed!Appear, feed!Return, feed!Move, feed!Vanish, feed!Announce, feed!Moves,
              feed!Status, feed!Change
<1>3. UNCHANGED <<registered, discovering, step, cloudDevices, clientVars>> /\ discovering
  BY DEF Announcement, setup
<1>4. status \in [Did -> feed!Status] /\ step = "idle" /\ call = NoCall
  BY <1>2 DEF BridgeInv, TypeOK, feed!TypeOK, StepFitsEvent, CallFitsStep, Busy
<1>5. did' = d /\ change' = c /\ event' # feed!NoEvent
  BY <1>2 DEF did, change, feed!NoEvent, feed!Change
<1>6. \A e \in Did : status'[e] = IF e = d THEN to ELSE status[e]
  BY <1>2, <1>4
<1> USE <1>3, ClientAlone
<1>7. TypeOK'
  <2>1. feed!TypeOK'
    BY <1>2, <1>4 DEF feed!TypeOK
  <2> QED
    BY <2>1 DEF BridgeInv, TypeOK, IInv
<1>8. FeedAgrees' /\ StepFitsEvent' /\ CallFitsStep'
  BY <1>2, <1>4, <1>5, <1>6 DEF BridgeInv, FeedAgrees, StepFitsEvent, CallFitsStep, Busy, Setup
<1>9. \A e \in Did, x \in {"NEW", "OFFLINE"} : event # <<e, x>>
  BY <1>2 DEF feed!NoEvent
<1>10. KnownOnceHeard'
  BY <1>2, <1>4, <1>6, <1>9 DEF BridgeInv, KnownOnceHeard, Pending
<1>11. SetUpInOrder'
  <2> SUFFICES ASSUME NEW e \in Did, Found(e)
               PROVE  /\ ~NoCameraYet(e)' /\ ~InSetup(e)'
                      /\ cameras[e].callbacks = Kind /\ lib[cameras[e].ptr].raw
    BY DEF SetUpInOrder
  <2>1. /\ ~NoCameraYet(e) /\ ~InSetup(e)
        /\ cameras[e].callbacks = Kind /\ lib[cameras[e].ptr].raw
    BY <1>9 DEF BridgeInv, SetUpInOrder, InSetup
  <2>2. ~NoCameraYet(e)'
    BY <1>2, <1>6, <2>1 DEF NoCameraYet
  <2> QED
    BY <1>4, <2>1, <2>2 DEF InSetup, Setup
<1>12. StoppedOrToBe'
  BY <1>2, <1>4, <1>6, <1>9 DEF BridgeInv, StoppedOrToBe, ToBeStopped
<1> QED
  BY <1>7, <1>8, <1>10, <1>11, <1>12 DEF BridgeInv, IInv

LEMMA CalledStep == ASSUME BridgeInv, Called PROVE BridgeInv'
<1>1. event # feed!NoEvent /\ step = "idle" /\ registered /\ step' = Case(change)
      /\ UNCHANGED <<status, event, registered, discovering, cloudDevices, clientVars>>
  BY DEF Called, setup, BridgeInv, FeedAgrees
<1>2. /\ change = "NEW" => step' = "cloud"
      /\ change = "ONLINE" => step' = "start"
      /\ change = "OFFLINE" => step' = "stop"
      /\ change \notin {"NEW", "ONLINE", "OFFLINE"} => step' = "done"
  BY <1>1 DEF Case
<1>3. did' = did /\ change' = change
  BY <1>1 DEF did, change
<1>4. change \in feed!Change /\ (\A d, c : c # "none" /\ event = <<d, c>> => c = change)
  BY <1>1, EventShape DEF BridgeInv
<1> USE <1>1, <1>2, <1>3, ClientAlone
<1>5. TypeOK'
  BY DEF BridgeInv, TypeOK, IInv, feed!TypeOK
<1>6. FeedAgrees' /\ StepFitsEvent' /\ CallFitsStep'
  BY DEF BridgeInv, FeedAgrees, StepFitsEvent, CallFitsStep, Busy, Setup
<1>7. KnownOnceHeard' /\ SetUpInOrder' /\ StoppedOrToBe'
  BY <1>4 DEF BridgeInv, KnownOnceHeard, SetUpInOrder, StoppedOrToBe, Pending,
         NoCameraYet, InSetup, ToBeStopped, Setup
<1> QED
  BY <1>5, <1>6, <1>7 DEF BridgeInv, IInv

\* Whatever the cloud answers, the device has an entry in cloud_devices.
LEMMA CloudAnswersStep == ASSUME BridgeInv, CloudAnswers PROVE BridgeInv'
<1>1. step = "cloud" /\ step' \in {"create", "done"}
      /\ UNCHANGED <<status, event, registered, discovering, clientVars>>
  BY DEF CloudAnswers, setup
<1>2. change = "NEW" /\ event # feed!NoEvent /\ did \in Did /\ event = <<did, change>>
      /\ (\A d, c : c # "none" /\ event = <<d, c>> => c = change /\ d = did)
  BY <1>1, EventShape DEF BridgeInv, StepFitsEvent, Setup
<1>3. PICK m \in Model : cloudDevices' = [cloudDevices EXCEPT ![did] = m]
  BY <1>2 DEF CloudAnswers, Answers
<1>4. /\ cloudDevices' \in [Did -> Model \cup {"none"}]
      /\ cloudDevices'[did] # "none"
      /\ \A d \in Did \ {did} : cloudDevices'[d] = cloudDevices[d]
  BY <1>2, <1>3 DEF BridgeInv, TypeOK, Model
<1>5. did' = did /\ change' = change
  BY <1>1 DEF did, change
<1> USE <1>1, ClientAlone
<1>6. TypeOK'
  BY <1>4 DEF BridgeInv, TypeOK, IInv, feed!TypeOK
<1>7. FeedAgrees' /\ StepFitsEvent' /\ CallFitsStep'
  BY <1>2, <1>5 DEF BridgeInv, FeedAgrees, StepFitsEvent, CallFitsStep, Busy, Setup
<1>8. KnownOnceHeard'
  BY <1>2, <1>4 DEF BridgeInv, KnownOnceHeard, Pending
<1>9. SetUpInOrder' /\ StoppedOrToBe'
  BY <1>2 DEF BridgeInv, SetUpInOrder, StoppedOrToBe, NoCameraYet, InSetup,
         ToBeStopped, Setup
<1> QED
  BY <1>6, <1>7, <1>8, <1>9 DEF BridgeInv, IInv

LEMMA ReturnStep == ASSUME BridgeInv, Return PROVE BridgeInv'
<1>1. step = "done" /\ step' = "idle" /\ event # feed!NoEvent /\ event' = feed!NoEvent
      /\ UNCHANGED <<status, registered, discovering, cloudDevices, clientVars>>
  BY DEF Return, setup, feed!Delivered
<1>2. \A d, c : c # "none" => event' # <<d, c>>
  BY <1>1 DEF feed!NoEvent
<1> USE <1>1, ClientAlone
<1>3. TypeOK'
  BY DEF BridgeInv, TypeOK, IInv, feed!TypeOK
<1>4. FeedAgrees' /\ StepFitsEvent' /\ CallFitsStep'
  BY DEF BridgeInv, FeedAgrees, StepFitsEvent, CallFitsStep, Busy, Setup
<1>5. KnownOnceHeard' /\ SetUpInOrder' /\ StoppedOrToBe'
  BY <1>2 DEF BridgeInv, KnownOnceHeard, SetUpInOrder, StoppedOrToBe, Pending,
         NoCameraYet, InSetup, ToBeStopped, Setup
<1> QED
  BY <1>3, <1>4, <1>5 DEF BridgeInv, IInv

--------------------------------------------------------------------------------
(* The steps that call the camera client.                                   *)

\* The camera is new: nothing is said of its listeners yet, and it does not stream.
LEMMA CreateCameraStep == ASSUME BridgeInv, Create PROVE BridgeInv'
<1>1. /\ step = "create" /\ CreateCamera(did) /\ step' = After("create")
      /\ UNCHANGED <<status, event, registered, discovering, cloudDevices>>
  BY DEF Create, setup
<1>2. change = "NEW" /\ event # feed!NoEvent /\ did \in Did /\ event = <<did, "NEW">>
      /\ (\A d, c : c # "none" /\ event = <<d, c>> => c = change /\ d = did)
  BY <1>1, EventShape DEF BridgeInv, StepFitsEvent, Setup
<1>3. step' = "video" /\ did' = did /\ change' = change
  BY <1>1, <1>2, AfterSteps DEF did, change
<1>4. ~Found(did)
  BY <1>1, <1>2 DEF BridgeInv, SetUpInOrder, NoCameraYet
<1>5. IInv'
  BY <1>1, <1>2, CreateStep, BridgeInvIsClients
<1>6. call = NoCall /\ call' = NoCall
  BY <1>1 DEF CreateCamera
<1>7. \A d \in Did \ {did} :
         /\ cameras'[d] = cameras[d] /\ (Found(d)' <=> Found(d))
         /\ Found(d) => lib'[cameras[d].ptr] = lib[cameras[d].ptr]
  <2>1. CASE UNCHANGED <<cameras, lib>>
    BY <2>1 DEF Found
  <2>2. ASSUME NEW p \in Ptr, lib[p].state = "free",
               lib' = [lib EXCEPT ![p].state = "idle"],
               cameras' = [cameras EXCEPT ![did] = [ptr |-> p, callbacks |-> {}]],
               NEW d \in Did \ {did}
        PROVE  /\ cameras'[d] = cameras[d] /\ (Found(d)' <=> Found(d))
               /\ Found(d) => lib'[cameras[d].ptr] = lib[cameras[d].ptr]
    <3>1. cameras'[d] = cameras[d] /\ cameras[d].ptr # p
      BY <2>2 DEF BridgeInv, InstancesOwned, TypeOK, ClientTypeOK
    <3>2. Found(d) => cameras[d].ptr \in Ptr
      BY DEF BridgeInv, TypeOK, ClientTypeOK, Found
    <3> QED
      BY <2>2, <3>1, <3>2 DEF Found, BridgeInv, TypeOK, ClientTypeOK
  <2> QED
    BY <1>1, <2>1, <2>2 DEF CreateCamera
<1>8. cameras'[did].ptr # "none" => lib'[cameras'[did].ptr].state = "idle"
  <2>1. CASE UNCHANGED <<cameras, lib>>
    BY <1>4, <2>1 DEF Found
  <2>2. ASSUME NEW p \in Ptr, lib' = [lib EXCEPT ![p].state = "idle"],
               cameras' = [cameras EXCEPT ![did] = [ptr |-> p, callbacks |-> {}]]
        PROVE  lib'[cameras'[did].ptr].state = "idle"
    BY <1>2, <2>2 DEF BridgeInv, TypeOK, ClientTypeOK
  <2> QED
    BY <1>1, <2>1, <2>2 DEF CreateCamera
<1> USE <1>1, <1>2, <1>3
<1>9. TypeOK'
  BY <1>5 DEF BridgeInv, TypeOK, IInv, feed!TypeOK
<1>10. FeedAgrees' /\ StepFitsEvent' /\ CallFitsStep'
  BY <1>6 DEF BridgeInv, FeedAgrees, StepFitsEvent, CallFitsStep, Busy, Setup
<1>11. KnownOnceHeard'
  BY DEF BridgeInv, KnownOnceHeard, Pending
<1>12. SetUpInOrder'
  <2> SUFFICES ASSUME NEW d \in Did, Found(d)'
               PROVE  /\ ~NoCameraYet(d)'
                      /\ IF InSetup(d)'
                           THEN /\ lib'[cameras'[d].ptr].state = "idle"
                                /\ Earlier("video") \subseteq cameras'[d].callbacks
                           ELSE cameras'[d].callbacks = Kind /\ lib'[cameras'[d].ptr].raw
    BY DEF SetUpInOrder
  <2>1. CASE d = did
    BY <1>8, <2>1 DEF Found, NoCameraYet, InSetup, Setup, Earlier, BridgeInv, FeedAgrees
  <2>2. CASE d # did
    BY <1>7, <2>2 DEF NoCameraYet, InSetup, Setup, BridgeInv, SetUpInOrder
  <2> QED
    BY <2>1, <2>2
<1>13. StoppedOrToBe'
  <2> SUFFICES ASSUME NEW d \in Did, status[d] = "offline", Found(d)'
               PROVE  lib'[cameras'[d].ptr].asked = "stop"
    BY DEF StoppedOrToBe
  <2>1. d # did
    BY DEF BridgeInv, FeedAgrees
  <2> QED
    BY <1>7, <2>1 DEF BridgeInv, StoppedOrToBe, ToBeStopped
<1> QED
  BY <1>5, <1>9, <1>10, <1>11, <1>12, <1>13 DEF BridgeInv, IInv

\* What registering a listener changes: the callbacks of one camera, and of its
\* instance only what the library is told.
LEMMA RegisterEffect ==
    ASSUME IInv, NEW d \in Did, NEW k \in Kind, RegisterListener(d, k), Found(d)
    PROVE  /\ cameras' = [cameras EXCEPT ![d].callbacks = @ \cup {k}]
           /\ cameras'[d].ptr = cameras[d].ptr
           /\ cameras'[d].callbacks = cameras[d].callbacks \cup {k}
           /\ \A e \in Did \ {d} : cameras'[e] = cameras[e]
           /\ \A p \in Ptr : /\ lib'[p].state = lib[p].state
                             /\ lib'[p].asked = lib[p].asked
                             /\ lib[p].raw => lib'[p].raw
           /\ k = "video" => lib'[cameras[d].ptr].raw
<1> DEFINE c == cameras[d].ptr
<1>1. /\ cameras \in [Did -> [ptr : Ptr \cup {"none"}, callbacks : SUBSET Kind]]
      /\ c \in Ptr /\ lib \in [Ptr -> Instance]
  BY DEF IInv, ClientTypeOK, Found, Instance
<1>2. /\ cameras' = [cameras EXCEPT ![d].callbacks = @ \cup {k}]
      /\ lib' = LibRegister(c, k)
  BY DEF RegisterListener
<1>3. /\ \A p \in Ptr : /\ lib'[p].state = lib[p].state
                        /\ lib'[p].asked = lib[p].asked
                        /\ lib[p].raw => lib'[p].raw
      /\ k = "video" => lib'[c].raw
  <2> HIDE DEF c
  <2>1. CASE k = "video"
    BY <1>1, <1>2, <2>1 DEF LibRegister, Instance
  <2>2. CASE k = "status"
    BY <1>1, <1>2, <2>2 DEF LibRegister, Instance
  <2>3. CASE k = "audio"
    BY <1>1, <1>2, <2>3 DEF LibRegister
  <2> QED
    BY <2>1, <2>2, <2>3 DEF Kind
<1>4. /\ cameras'[d].ptr = cameras[d].ptr
      /\ cameras'[d].callbacks = cameras[d].callbacks \cup {k}
      /\ \A e \in Did \ {d} : cameras'[e] = cameras[e]
  <2>1. cameras' = [cameras EXCEPT ![d] =
                      [cameras[d] EXCEPT !.callbacks = cameras[d].callbacks \cup {k}]]
    BY <1>2
  <2>2. cameras[d] \in [ptr : Ptr \cup {"none"}, callbacks : SUBSET Kind]
    BY <1>1
  <2> QED
    BY <1>1, <2>1, <2>2
<1> QED
  BY <1>2, <1>3, <1>4

\* One more listener: the last one completes the set before the camera is started.
LEMMA RegisterKindStep == ASSUME BridgeInv, NEW k \in Kind, Register(k) PROVE BridgeInv'
<1>1. /\ step = k /\ RegisterListener(did, k) /\ step' = After(k) /\ k \in Setup
      /\ UNCHANGED <<status, event, registered, discovering, cloudDevices>>
  BY DEF Register, setup, Kind, Setup
<1>2. change = "NEW" /\ event # feed!NoEvent /\ did \in Did /\ event = <<did, "NEW">>
      /\ (\A d, c : c # "none" /\ event = <<d, c>> => c = change /\ d = did)
  <2>1. change = "NEW" /\ event # feed!NoEvent
    BY <1>1 DEF BridgeInv, StepFitsEvent, Setup
  <2> QED
    BY <2>1, EventShape DEF BridgeInv
<1>3. /\ did' = did /\ change' = change
      /\ step' = IF k = "video" THEN "status" ELSE IF k = "status" THEN "audio" ELSE "start"
  BY <1>1, <1>2, AfterSteps DEF did, change, Kind
<1>4. IInv /\ IInv'
  BY <1>1, <1>2, RegisterStep, BridgeInvIsClients
<1>5. call = NoCall /\ call' = NoCall
  BY <1>1 DEF RegisterListener
<1>6. \A d \in Did : /\ Found(d)' <=> Found(d)
                     /\ cameras'[d].ptr = cameras[d].ptr
                     /\ d # did => cameras'[d] = cameras[d]
                     /\ Found(d) => cameras[d].ptr \in Ptr
  <2>1. CASE Found(did)
    BY <1>1, <1>2, <1>4, <2>1, RegisterEffect DEF Found, IInv, ClientTypeOK
  <2>2. CASE ~Found(did)
    BY <1>1, <1>4, <2>2 DEF RegisterListener, Found, IInv, ClientTypeOK
  <2> QED
    BY <2>1, <2>2
<1>7. \A p \in Ptr : /\ lib'[p].state = lib[p].state
                     /\ lib'[p].asked = lib[p].asked
                     /\ lib[p].raw => lib'[p].raw
  <2>1. CASE Found(did)
    BY <1>1, <1>2, <1>4, <2>1, RegisterEffect
  <2>2. CASE ~Found(did)
    BY <1>1, <2>2 DEF RegisterListener
  <2> QED
    BY <2>1, <2>2
<1> USE <1>1, <1>2, <1>3
<1>8. TypeOK'
  BY <1>4 DEF BridgeInv, TypeOK, IInv, feed!TypeOK
<1>9. FeedAgrees' /\ StepFitsEvent' /\ CallFitsStep'
  BY <1>5 DEF BridgeInv, FeedAgrees, StepFitsEvent, CallFitsStep, Busy, Setup
<1>10. KnownOnceHeard'
  BY DEF BridgeInv, KnownOnceHeard, Pending, Setup
<1>11. SetUpInOrder'
  <2> SUFFICES ASSUME NEW d \in Did, Found(d)
               PROVE  /\ ~NoCameraYet(d)'
                      /\ IF InSetup(d)'
                           THEN /\ lib'[cameras[d].ptr].state = "idle"
                                /\ Earlier(step') \subseteq cameras'[d].callbacks
                                /\ step' # "video" => lib'[cameras[d].ptr].raw
                           ELSE cameras'[d].callbacks = Kind /\ lib'[cameras[d].ptr].raw
    BY <1>6 DEF SetUpInOrder
  <2>1. CASE d = did
    <3>1. /\ lib[cameras[d].ptr].state = "idle"
          /\ Earlier(step) \subseteq cameras[d].callbacks
          /\ k # "video" => lib[cameras[d].ptr].raw
          /\ ~NoCameraYet(d)
      BY <2>1 DEF BridgeInv, SetUpInOrder, InSetup
    <3>2. /\ cameras'[d].callbacks = cameras[d].callbacks \cup {k}
          /\ k = "video" => lib'[cameras[d].ptr].raw
      BY <1>4, <2>1, RegisterEffect
    <3>3. cameras'[d].callbacks \subseteq Kind
      BY <1>4 DEF IInv, ClientTypeOK
    <3>4. lib'[cameras[d].ptr].state = "idle" /\ lib'[cameras[d].ptr].raw
      BY <1>6, <1>7, <3>1, <3>2
    <3>5. ~NoCameraYet(d)'
      BY <3>1 DEF NoCameraYet
    <3>6. CASE k \in {"video", "status"}
      BY <2>1, <3>1, <3>2, <3>4, <3>5, <3>6 DEF InSetup, Setup, Earlier
    <3>7. CASE k = "audio"
      <4>1. cameras'[d].callbacks = Kind
        BY <3>1, <3>2, <3>3, <3>7 DEF Earlier, Kind
      <4> QED
        BY <3>4, <3>5, <3>7, <4>1 DEF InSetup, Setup
    <3> QED
      BY <3>6, <3>7 DEF Kind
  <2>2. CASE d # did
    BY <1>6, <1>7, <2>2 DEF NoCameraYet, InSetup, Setup, BridgeInv, SetUpInOrder
  <2> QED
    BY <2>1, <2>2
<1>12. StoppedOrToBe'
  BY <1>6, <1>7 DEF BridgeInv, StoppedOrToBe, ToBeStopped, Setup
<1> QED
  BY <1>4, <1>8, <1>9, <1>10, <1>11, <1>12 DEF BridgeInv, IInv

\* The listener copies the instance of its camera, if it has one.
LEMMA LookUpPlaceStep ==
    ASSUME BridgeInv, NEW op \in {"start", "stop"}, step = op, LookUp(did, op),
           step' = (IF op = "start" THEN "starting" ELSE "stopping"),
           UNCHANGED <<status, event, registered, discovering, cloudDevices>>
    PROVE  BridgeInv'
<1>1. /\ event # feed!NoEvent /\ did \in Did /\ event = <<did, change>>
      /\ change \in (IF op = "start" THEN {"NEW", "ONLINE"} ELSE {"OFFLINE"})
  <2>1. event # feed!NoEvent
    BY DEF BridgeInv, StepFitsEvent
  <2> QED
    BY <2>1, EventShape DEF BridgeInv, StepFitsEvent
<1>2. \A d, c : c # "none" /\ event = <<d, c>> => c = change /\ d = did
  BY <1>1
<1>3. did' = did /\ change' = change
  BY DEF did, change
<1>4. IInv'
  BY <1>1, LookUpStep, BridgeInvIsClients
<1>5. /\ cameras' = cameras /\ lib' = lib /\ (\A d : Found(d)' <=> Found(d))
      /\ call' = IF Found(did) THEN [op |-> op, ptr |-> cameras[did].ptr] ELSE NoCall
  BY DEF LookUp, Found
<1> USE <1>1, <1>2, <1>3, <1>5
<1>6. TypeOK'
  BY <1>4 DEF BridgeInv, TypeOK, IInv, feed!TypeOK
<1>7. FeedAgrees' /\ StepFitsEvent'
  BY DEF BridgeInv, FeedAgrees, StepFitsEvent, Setup
<1>8. CallFitsStep'
  <2>1. Found(did)' <=> Found(did)
    BY DEF Found
  <2> QED
    BY <2>1 DEF CallFitsStep, Busy
<1>9. KnownOnceHeard' /\ SetUpInOrder' /\ StoppedOrToBe'
  BY DEF BridgeInv, KnownOnceHeard, SetUpInOrder, StoppedOrToBe, Pending, NoCameraYet,
         InSetup, ToBeStopped, Setup
<1> QED
  BY <1>4, <1>6, <1>7, <1>8, <1>9 DEF BridgeInv, IInv

\* What the library call does: one instance, the listener's, may change its state and
\* has been asked to.
LEMMA LibCallEffect ==
    ASSUME IInv, LibCall
    PROVE  /\ call' = NoCall /\ cameras' = cameras
           /\ \A p \in Ptr : lib'[p].raw = lib[p].raw
           /\ \A p \in Ptr \ {call.ptr} : lib'[p] = lib[p]
           /\ lib'[call.ptr].asked = call.op
<1>1. call.ptr \in Ptr /\ lib \in [Ptr -> Instance]
  BY DEF IInv, ClientTypeOK, LibCall, NoCall, Instance
<1>2. PICK s : lib' = [lib EXCEPT ![call.ptr] = [lib[call.ptr] EXCEPT
                                         !.state = s, !.asked = call.op]]
  BY DEF LibCall
<1> QED
  BY <1>1, <1>2 DEF LibCall, Instance

\* The listener's call: a camera that is started has all its listeners, and the one
\* that is asked last of an offline camera is to stop.
LEMMA CallPlaceStep ==
    ASSUME BridgeInv, NEW op \in {"start", "stop"},
           step = (IF op = "start" THEN "starting" ELSE "stopping"),
           IF call = NoCall THEN UNCHANGED clientVars ELSE LibCall,
           step' = After(op),
           UNCHANGED <<status, event, registered, discovering, cloudDevices>>
    PROVE  BridgeInv'
<1>1. /\ event # feed!NoEvent /\ did \in Did /\ event = <<did, change>>
      /\ change \in (IF op = "start" THEN {"NEW", "ONLINE"} ELSE {"OFFLINE"})
  <2>1. event # feed!NoEvent
    BY DEF BridgeInv, StepFitsEvent
  <2> QED
    BY <2>1, EventShape DEF BridgeInv, StepFitsEvent
<1>2. \A d, c : c # "none" /\ event = <<d, c>> => c = change /\ d = did
  BY <1>1
<1>3. did' = did /\ change' = change /\ step' = "done"
  BY <1>1, AfterSteps DEF did, change
<1>4. IInv /\ IInv' /\ cameras' = cameras /\ call' = NoCall
  <2>1. IInv
    BY BridgeInvIsClients
  <2>2. CASE call = NoCall
    BY <2>1, <2>2, ClientAlone
  <2>3. CASE call # NoCall
    BY <2>1, <2>3, LibCallStep, LibCallEffect
  <2> QED
    BY <2>1, <2>2, <2>3
<1>5. \A d : Found(d)' <=> Found(d)
  BY <1>4 DEF Found
<1>6. Found(did) => call # NoCall /\ call.op = op /\ call.ptr = cameras[did].ptr
  <2>1. Found(did) => call = [op |-> op, ptr |-> cameras[did].ptr]
    BY DEF BridgeInv, CallFitsStep, Busy
  <2> QED
    BY <2>1 DEF NoCall
<1>7. \A d \in Did : Found(d) =>
         /\ lib'[cameras[d].ptr].raw = lib[cameras[d].ptr].raw
         /\ d # did => lib'[cameras[d].ptr] = lib[cameras[d].ptr]
         /\ d = did => lib'[cameras[d].ptr].asked = op
  <2> SUFFICES ASSUME NEW d \in Did, Found(d)
               PROVE  /\ lib'[cameras[d].ptr].raw = lib[cameras[d].ptr].raw
                      /\ d # did => lib'[cameras[d].ptr] = lib[cameras[d].ptr]
                      /\ d = did => lib'[cameras[d].ptr].asked = op
    OBVIOUS
  <2>1. cameras[d].ptr \in Ptr
    BY <1>4 DEF IInv, ClientTypeOK, Found
  <2>2. CASE call = NoCall
    BY <1>6, <2>2, ClientAlone
  <2>3. CASE call # NoCall
    <3>1. Found(did) /\ call.ptr = cameras[did].ptr
      BY <1>6, <2>3 DEF BridgeInv, CallFitsStep
    <3>2. d # did => cameras[d].ptr # call.ptr
      BY <1>1, <3>1 DEF BridgeInv, InstancesOwned
    <3> QED
      BY <1>4, <1>6, <2>1, <2>3, <3>1, <3>2, LibCallEffect
  <2> QED
    BY <2>2, <2>3
<1> USE <1>1, <1>2, <1>3
<1>8. TypeOK'
  BY <1>4 DEF BridgeInv, TypeOK, IInv, feed!TypeOK
<1>9. FeedAgrees' /\ StepFitsEvent' /\ CallFitsStep'
  BY <1>4 DEF BridgeInv, FeedAgrees, StepFitsEvent, CallFitsStep, Busy, Setup
<1>10. KnownOnceHeard'
  BY DEF BridgeInv, KnownOnceHeard, Pending
<1>11. SetUpInOrder'
  BY <1>4, <1>5, <1>7 DEF BridgeInv, SetUpInOrder, NoCameraYet, InSetup, Setup
<1>12. StoppedOrToBe'
  <2> SUFFICES ASSUME NEW d \in Did, status[d] = "offline", Found(d)
               PROVE  lib'[cameras[d].ptr].asked = "stop"
    BY <1>4, <1>5 DEF StoppedOrToBe
  <2>1. CASE d = did
    BY <1>7, <2>1 DEF BridgeInv, FeedAgrees
  <2>2. CASE d # did
    BY <1>7, <2>2 DEF BridgeInv, StoppedOrToBe, ToBeStopped
  <2> QED
    BY <2>1, <2>2
<1> QED
  BY <1>4, <1>8, <1>9, <1>10, <1>11, <1>12 DEF BridgeInv, IInv

LEMMA StartOrStopStep ==
    ASSUME BridgeInv, StartOrStop("start", "starting") \/ StartOrStop("stop", "stopping")
    PROVE  BridgeInv'
BY LookUpPlaceStep, CallPlaceStep DEF StartOrStop, setup

\* The library's threads look on.
LEMMA LibraryStep == ASSUME BridgeInv, Library PROVE BridgeInv'
<1>1. PICK p \in Ptr : LibThread(p)
  BY DEF Library
<1>2. UNCHANGED <<status, event, registered, discovering, step, cloudDevices>>
  BY DEF Library, setup
<1>3. IInv'
  BY <1>1, LibThreadStep, BridgeInvIsClients
<1>4. cameras' = cameras /\ lib' = lib /\ call' = call
  BY <1>1 DEF LibThread, LibEmits, WalkBegins, Visit, WalkEnds
<1>5. \A d : Found(d)' <=> Found(d)
  BY <1>4 DEF Found
<1> USE <1>2, <1>4
<1>6. TypeOK'
  BY <1>3 DEF BridgeInv, TypeOK, IInv, feed!TypeOK
<1>7. FeedAgrees' /\ StepFitsEvent' /\ CallFitsStep'
  BY <1>5 DEF BridgeInv, FeedAgrees, StepFitsEvent, CallFitsStep, did, change
<1>8. KnownOnceHeard' /\ SetUpInOrder' /\ StoppedOrToBe'
  BY <1>5 DEF BridgeInv, KnownOnceHeard, SetUpInOrder, StoppedOrToBe, Pending, NoCameraYet,
         InSetup, ToBeStopped
<1> QED
  BY <1>3, <1>6, <1>7, <1>8 DEF BridgeInv, IInv

LEMMA BridgeInductive == Spec => []BridgeInv
<1>1. ASSUME BridgeInv, [Next]_bridgeVars PROVE BridgeInv'
  <2>1. CASE RegisterCallback \/ StartDiscovery
    BY <1>1, <2>1, MainStep
  <2>2. CASE Announcement
    BY <1>1, <2>2, AnnouncementStep
  <2>3. CASE Listener
    BY <1>1, <2>3, CalledStep, CloudAnswersStep, CreateCameraStep, RegisterKindStep,
       StartOrStopStep, ReturnStep DEF Listener
  <2>4. CASE Library
    BY <1>1, <2>4, LibraryStep
  <2>5. CASE UNCHANGED bridgeVars
    <3>1. UNCHANGED <<status, event, registered, discovering, step, cloudDevices, clientVars>>
      BY <2>5 DEF bridgeVars
    <3> USE <1>1, <3>1, ClientAlone
    <3>2. TypeOK'
      BY DEF BridgeInv, TypeOK, IInv, feed!TypeOK
    <3>3. FeedAgrees' /\ StepFitsEvent' /\ CallFitsStep'
      BY DEF BridgeInv, FeedAgrees, StepFitsEvent, CallFitsStep, did, change
    <3>4. KnownOnceHeard' /\ SetUpInOrder' /\ StoppedOrToBe'
      BY DEF BridgeInv, KnownOnceHeard, SetUpInOrder, StoppedOrToBe, Pending, NoCameraYet,
             InSetup, ToBeStopped
    <3> QED
      BY <3>2, <3>3, <3>4 DEF BridgeInv, IInv
  <2> QED
    BY <1>1, <2>1, <2>2, <2>3, <2>4, <2>5 DEF Next
<1> QED
  BY <1>1, InitBridgeInv, PTL DEF Spec

--------------------------------------------------------------------------------
(* What the bridge promises.                                                *)

\* Every variable of the composition keeps its type, among them cloud_devices, which
\* only holds models that get_device can return.
THEOREM BridgeTypeCorrect == Spec => []TypeOK
BY BridgeInductive, PTL DEF BridgeInv

\* device_status_changed_callback dereferences cloud_devices[did] for ONLINE, OFFLINE
\* and IP_CHANGED: the entry is there.
THEOREM NamesAreKnown == Spec => []NamesKnown
<1>1. ASSUME BridgeInv PROVE NamesKnown
  <2> SUFFICES ASSUME change \in {"ONLINE", "OFFLINE", "IP_CHANGED"}
               PROVE  cloudDevices[did] # "none"
    BY DEF NamesKnown
  <2>1. event # feed!NoEvent
    BY DEF feed!NoEvent, change
  <2>2. did \in Did /\ event = <<did, change>>
    BY <1>1, <2>1, EventShape DEF BridgeInv
  <2> QED
    BY <1>1, <2>1, <2>2 DEF BridgeInv, FeedAgrees, KnownOnceHeard, Pending
<1> QED
  BY <1>1, BridgeInductive, PTL

\* No camera streams before the bridge has registered its three listeners and asked
\* for raw data.
THEOREM ListenersComeFirst == Spec => []ListenersBeforeStream
<1>1. BridgeInv => ListenersBeforeStream
  BY DEF BridgeInv, SetUpInOrder, ListenersBeforeStream
<1> QED
  BY <1>1, BridgeInductive, PTL

\* Once the listener has returned, the camera of a device that is offline has been
\* asked to stop, and nothing else since.
THEOREM OfflineIsStopped == Spec => []OfflineCameraStopped
<1>1. BridgeInv => OfflineCameraStopped
  BY DEF BridgeInv, StoppedOrToBe, ToBeStopped, OfflineCameraStopped, Settled, feed!NoEvent
<1> QED
  BY <1>1, BridgeInductive, PTL

\* The listener uses the camera client as CameraClient describes, one call at a time
\* and about devices that exist: what is proved of the client holds in the bridge.
THEOREM BridgeUsesClient == Spec => ClientSpec
<1>1. ASSUME BridgeInv, [Next]_bridgeVars PROVE [ClientNext]_clientVars
  <2>1. CASE RegisterCallback \/ StartDiscovery \/ Announcement \/ UNCHANGED bridgeVars
    BY <2>1 DEF RegisterCallback, StartDiscovery, Announcement, bridgeVars
  <2>2. CASE Called \/ CloudAnswers \/ Return
    BY <2>2 DEF Called, CloudAnswers, Return
  <2>3. step \in {"create", "start", "stop"} \cup Setup => did \in Did
    BY <1>1, EventShape DEF BridgeInv, StepFitsEvent, Setup
  <2>4. CASE Create
    BY <2>3, <2>4 DEF Create, ClientNext
  <2>5. CASE \E k \in Kind : Register(k)
    BY <2>3, <2>5 DEF Register, ClientNext, Kind, Setup
  <2>6. CASE StartOrStop("start", "starting") \/ StartOrStop("stop", "stopping")
    BY <2>3, <2>6 DEF StartOrStop, ClientNext
  <2>7. CASE Library
    BY <2>7 DEF Library, ClientNext
  <2> QED
    BY <1>1, <2>1, <2>2, <2>4, <2>5, <2>6, <2>7 DEF Next, Listener
<1>2. Init => ClientInit
  BY DEF Init
<1> QED
  BY <1>1, <1>2, BridgeInductive, PTL DEF Spec, ClientSpec

\* The bridge hears of the devices what StatusFeed, which LanDiscovery implements,
\* lets a listener hear: it neither loses an announcement nor adds one.
THEOREM BridgeFollowsFeed == Spec => feed!Spec
<1>1. ASSUME [Next]_bridgeVars PROVE [feed!Next]_(feed!feedVars)
  <2> USE DEF feed!feedVars
  <2>1. CASE RegisterCallback \/ StartDiscovery \/ UNCHANGED bridgeVars
    BY <2>1 DEF RegisterCallback, StartDiscovery, bridgeVars
  <2>2. CASE Announcement
    BY <2>2 DEF Announcement, feed!Next
  <2>3. CASE Called \/ Return
    BY <2>3 DEF Called, Return, feed!Next
  <2>4. CASE CloudAnswers \/ Create \/ (\E k \in Kind : Register(k)) \/ Library
    BY <2>4 DEF CloudAnswers, Create, Register, Library
  <2>5. CASE StartOrStop("start", "starting") \/ StartOrStop("stop", "stopping")
    BY <2>5 DEF StartOrStop
  <2> QED
    BY <1>1, <2>1, <2>2, <2>3, <2>4, <2>5 DEF Next, Listener
<1>2. Init => feed!Init
  BY DEF Init
<1> QED
  BY <1>1, <1>2, PTL DEF Spec, feed!Spec

\* start_camera and stop_camera, as the bridge calls them, reach a live instance, and
\* no walk over cameras_ is disturbed.
COROLLARY BridgeKeepsClientSafe == Spec => []HeldPointerLive /\ MapStableDuringWalk
BY BridgeUsesClient, HeldPointerIsLive, MapIsStable, PTL
================================================================================
