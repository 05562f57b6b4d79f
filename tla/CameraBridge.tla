------------------------------ MODULE CameraBridge ------------------------------
(***************************************************************************)
(* bridge_main.cpp: main() wires discovery, cloud and camera client up and *)
(* device_status_changed_callback turns what discovery announces into      *)
(* calls of the camera client.  Composition of StatusFeed, which           *)
(* LanDiscovery implements, with CloudClient, which reads what the cloud   *)
(* answers, and CameraClient; the cloud is an external service that may    *)
(* fail to answer.                                                         *)
(*                                                                         *)
(* The listener runs between the announcement of an event and its          *)
(* delivery, on the thread that announced it.  Each of its statements that *)
(* changes state is one step, so that the threads of the camera library    *)
(* run in between.                                                         *)
(***************************************************************************)
EXTENDS CameraClient, Sequences

CONSTANT
    Supported       \* devices of the one model the bridge opens cameras for

ASSUME SupportedAssumption == Supported \subseteq Did

VARIABLES
    status, event,      \* the feed of MIoTLanDiscovery
    registered,         \* the listener is registered with discovery
    discovering,        \* discovery->start() has been called
    step,               \* where the listener stands
    cloudDevices        \* context.cloud_devices: model of each did, or no entry

feed == INSTANCE StatusFeed
cloud == INSTANCE CloudClient WITH Block <- 16

bridgeVars == <<status, event, registered, discovering, step, cloudDevices,
                clientVars>>
setup == <<registered, discovering>>

Model == {"supported", "other", "unknown"}     \* "unknown": the empty string

TypeOK ==
    /\ ClientTypeOK
    /\ feed!TypeOK
    /\ registered \in BOOLEAN /\ discovering \in BOOLEAN
    /\ step \in {"idle", "cloud", "create", "video", "status", "audio", "start",
                 "starting", "stop", "stopping", "done"}
    /\ cloudDevices \in [Did -> Model \cup {"none"}]

Init ==
    /\ ClientInit
    /\ feed!Init
    /\ registered = FALSE /\ discovering = FALSE
    /\ step = "idle"
    /\ cloudDevices = [d \in Did |-> "none"]

--------------------------------------------------------------------------------
(* main(): register the listener, then start discovery.                     *)

RegisterCallback ==
    /\ ~registered
    /\ registered' = TRUE
    /\ UNCHANGED <<discovering, status, event, step, cloudDevices, clientVars>>

MayStartMut == TRUE             \* variant: discovery starts first
MayStart == registered

StartDiscovery ==
    /\ MayStart /\ ~discovering
    /\ discovering' = TRUE
    /\ UNCHANGED <<registered, status, event, step, cloudDevices, clientVars>>

\* Discovery announces a change.
Announcement ==
    /\ discovering
    /\ \E d \in Did : feed!Appear(d) \/ feed!Return(d) \/ feed!Move(d) \/ feed!Vanish(d)
    /\ UNCHANGED <<setup, step, cloudDevices, clientVars>>

--------------------------------------------------------------------------------
(* device_status_changed_callback.                                          *)

did == event[1]
change == event[2]

\* The first statement of each case; the variant lets OFFLINE fall through.
CaseMut(c) == IF c = "NEW" THEN "cloud" ELSE IF c = "ONLINE" THEN "start" ELSE "done"
Case(c) ==
    CASE c = "NEW" -> "cloud"
      [] c = "ONLINE" -> "start"
      [] c = "OFFLINE" -> "stop"
      [] OTHER -> "done"

\* notify_callbacks calls the listener, if there is one.
Called ==
    /\ event # feed!NoEvent /\ step = "idle"
    /\ IF registered THEN step' = Case(change) /\ UNCHANGED <<status, event>>
                     ELSE feed!Delivered /\ UNCHANGED step
    /\ UNCHANGED <<setup, cloudDevices, clientVars>>

\* What http_post may return: nothing, or a reply that lists no device, or this one,
\* whose name may confuse the scanner.
CloudDevice(d, name) ==
    [did |-> <<d>>, name |-> name, extra |-> TRUE,
     model |-> <<IF d \in Supported THEN "supported" ELSE "other">>]
Bodies(d) ==
    {<<>>} \cup {cloud!WriteReply(devices, <<"did", "name", "model">>) :
                    devices \in {<<>>, <<CloudDevice(d, <<>>)>>, <<CloudDevice(d, <<"}">>)>>}}

\* cloud_client->get_device: an empty CloudDeviceInfo when the request fails or the
\* device is not found in the reply.
ModelIn(d, body) ==
    LET model == cloud!GetDevice(d, body)
    IN  IF model = <<>> THEN "unknown" ELSE model[1]

Answers == [d \in Did |-> {ModelIn(d, body) : body \in Bodies(d)} \cap Model]

CloudAnswers ==
    /\ step = "cloud"
    /\ \E m \in Answers[did] :
        /\ cloudDevices' = [cloudDevices EXCEPT ![did] = m]
        /\ step' = IF m = "supported" THEN "create" ELSE "done"
    /\ UNCHANGED <<status, event, setup, clientVars>>

\* The statements of the NEW case, in their order.  The variant starts the camera
\* before it registers the listeners.
OrderMut == <<"create", "start", "video", "status", "audio">>
Order == <<"create", "video", "status", "audio", "start">>

After(s) ==
    LET i == CHOOSE i \in 1..Len(Order) : Order[i] = s
    IN  IF change # "NEW" \/ i = Len(Order) THEN "done" ELSE Order[i + 1]

Create ==
    /\ step = "create"
    /\ CreateCamera(did)
    /\ step' = After("create")
    /\ UNCHANGED <<status, event, setup, cloudDevices>>

Register(k) ==
    /\ step = k
    /\ RegisterListener(did, k)
    /\ step' = After(k)
    /\ UNCHANGED <<status, event, setup, cloudDevices>>

\* start_camera and stop_camera: nothing looks at what they return.
StartOrStop(op, busy) ==
    \/ /\ step = op
       /\ LookUp(did, op)
       /\ step' = busy
       /\ UNCHANGED <<status, event, setup, cloudDevices>>
    \/ /\ step = busy
       /\ IF call = NoCall THEN UNCHANGED clientVars ELSE LibCall
       /\ step' = After(op)
       /\ UNCHANGED <<status, event, setup, cloudDevices>>

Return ==
    /\ step = "done"
    /\ step' = "idle"
    /\ feed!Delivered
    /\ UNCHANGED <<setup, cloudDevices, clientVars>>

Listener ==
    \/ Called \/ CloudAnswers \/ Create
    \/ \E k \in Kind : Register(k)
    \/ StartOrStop("start", "starting")
    \/ StartOrStop("stop", "stopping")
    \/ Return

Library ==
    /\ \E p \in Ptr : LibThread(p)
    /\ UNCHANGED <<status, event, setup, step, cloudDevices>>

Next ==
    \/ RegisterCallback \/ StartDiscovery \/ Announcement
    \/ Listener
    \/ Library

Spec == Init /\ [][Next]_bridgeVars

WalkGoesOn(p) ==
    /\ WalkEnds(p) \/ \E d \in Did : Visit(p, d)
    /\ UNCHANGED <<status, event, setup, step, cloudDevices>>

(***************************************************************************)
(* A walk over the cameras ends, since its listeners only push into the    *)
(* RTSP server; the listener of discovery gets cameras_mutex_ between two  *)
(* frames, which are tens of milliseconds apart.                           *)
(***************************************************************************)
Fairness ==
    /\ SF_bridgeVars(Listener)
    /\ \A p \in Ptr : WF_bridgeVars(WalkGoesOn(p))

FairSpec == Spec /\ Fairness

--------------------------------------------------------------------------------
(* Properties.                                                              *)

\* ONLINE, OFFLINE and IP_CHANGED dereference cloud_devices[did]: the entry is
\* there, because the listener was registered before discovery started and heard
\* of the device when it was NEW.
NamesKnown ==
    (registered /\ change \in {"ONLINE", "OFFLINE", "IP_CHANGED"})
        => cloudDevices[did] # "none"

\* A camera that streams has all its listeners: no frame is emitted that the
\* bridge would drop for want of a callback.
ListenersBeforeStream ==
    \A d \in Did :
        (Found(d) /\ lib[cameras[d].ptr].state = "streaming")
            => cameras[d].callbacks = Kind /\ lib[cameras[d].ptr].raw

Settled == event = feed!NoEvent

\* Once the listener is through with the news, the last thing it asked of the
\* camera of an offline device is to stop.
OfflineCameraStopped ==
    \A d \in Did : (Settled /\ status[d] = "offline" /\ Found(d))
                       => lib[cameras[d].ptr].asked = "stop"

\* The listener returns from every event, whatever the library's threads do, so
\* that discovery gets its mutexes back.
EventDelivered == (event # feed!NoEvent) ~> (event = feed!NoEvent)
================================================================================
