------------------------------ MODULE CameraClient ------------------------------
(***************************************************************************)
(* MIoTCameraClient (miot_camera_client.cpp) over libmiot_camera_lite, a   *)
(* closed library that runs threads of its own and calls back from them.   *)
(*                                                                         *)
(* cameras_ is guarded by cameras_mutex_.  A method that holds it from its *)
(* first to its last line is one action; start_camera and stop_camera look *)
(* the instance up under the mutex and call the library without it, so     *)
(* they are two.  A callback of the library holds the mutex while it walks *)
(* the whole map.                                                          *)
(*                                                                         *)
(* There is one caller at a time: the bridge calls the client only from    *)
(* the status listener, which notify_callbacks never runs twice at once.   *)
(* The library is external: an instance streams between a start and a stop *)
(* that succeed, and free does not wait for a callback under way.          *)
(***************************************************************************)
EXTENDS Naturals, FiniteSets

CONSTANTS
    Did,            \* device ids
    Ptr             \* library instances (MIoTCameraInstancePtr)

\* An instance is neither the null pointer nor a state of the mutex.
ASSUME PtrAssumption == {"none", "free"} \cap Ptr = {}

\* What the library calls back with.
Kind == {"video", "audio", "status"}

VARIABLES
    cameras,        \* cameras_: instance and registered callbacks of each did
    lib,            \* the library's instances
    call,           \* the start or stop that has looked its instance up
    flight,         \* for each instance, the callback it is in
    camerasMutex,   \* "free", or the instance whose callback walks the map
    visit,          \* cameras that walk has still to visit
    handed          \* the last frame or status given to a listener in that walk

clientVars == <<cameras, lib, call, flight, camerasMutex, visit, handed>>

NoCamera == [ptr |-> "none", callbacks |-> {}]
NoCall == [op |-> "none", ptr |-> "none"]
Nothing == [from |-> "none", to |-> "none"]
Freed == [state |-> "free", raw |-> FALSE, status |-> FALSE, asked |-> "none"]

ClientTypeOK ==
    /\ cameras \in [Did -> [ptr : Ptr \cup {"none"}, callbacks : SUBSET Kind]]
    /\ lib \in [Ptr -> [state : {"free", "idle", "streaming"}, raw : BOOLEAN,
                        status : BOOLEAN, asked : {"none", "start", "stop"}]]
    /\ call \in [op : {"start", "stop"}, ptr : Ptr] \cup {NoCall}
    /\ flight \in [Ptr -> Kind \cup {"none"}]
    /\ camerasMutex \in Ptr \cup {"free"}
    /\ visit \subseteq Did
    /\ handed \in [from : Ptr, to : Did] \cup {Nothing}

ClientInit ==
    /\ cameras = [d \in Did |-> NoCamera]
    /\ lib = [p \in Ptr |-> Freed]
    /\ call = NoCall
    /\ flight = [p \in Ptr |-> "none"]
    /\ camerasMutex = "free"
    /\ visit = {}
    /\ handed = Nothing

FoundMut(d) == TRUE             \* variant: what find returned is not looked at
Found(d) == cameras[d].ptr # "none"

MutexFreeMut == TRUE            \* variant: cameras_mutex_ not taken
MutexFree == camerasMutex = "free"

walk == <<flight, camerasMutex, visit, handed>>

--------------------------------------------------------------------------------
(* The methods of the client.                                               *)

\* "Camera already exists": false.  The variant does not look.
MayCreateMut(d) == TRUE
MayCreate(d) == ~Found(d)

\* create_camera; miot_camera_new may return null.
CreateCamera(d) ==
    /\ call = NoCall
    /\ MutexFree
    /\ \/ \E p \in Ptr :
            /\ MayCreate(d)
            /\ lib[p].state = "free" /\ flight[p] = "none"
            /\ lib' = [lib EXCEPT ![p].state = "idle"]
            /\ cameras' = [cameras EXCEPT ![d] = [ptr |-> p, callbacks |-> {}]]
       \/ UNCHANGED <<cameras, lib>>
    /\ UNCHANGED <<call, walk>>

\* What the library is told when a callback of this kind is registered: raw data
\* is asked for with the video callback only.
LibRegister(p, k) ==
    CASE k = "video" -> [lib EXCEPT ![p].raw = TRUE]
      [] k = "status" -> [lib EXCEPT ![p].status = TRUE]
      [] k = "audio" -> lib

\* register_raw_video_callback, register_raw_audio_callback and
\* register_status_callback.
RegisterListener(d, k) ==
    /\ call = NoCall
    /\ MutexFree
    /\ IF Found(d)
         THEN /\ cameras' = [cameras EXCEPT ![d].callbacks = @ \cup {k}]
              /\ lib' = LibRegister(cameras[d].ptr, k)
         ELSE UNCHANGED <<cameras, lib>>
    /\ UNCHANGED <<call, walk>>

\* start_camera and stop_camera, under the mutex: copy the instance.
LookUp(d, op) ==
    /\ call = NoCall
    /\ MutexFree
    /\ call' = IF Found(d) THEN [op |-> op, ptr |-> cameras[d].ptr] ELSE NoCall
    /\ UNCHANGED <<cameras, lib, walk>>

\* start_camera and stop_camera, after it: the library call, which may fail.
LibCall ==
    /\ call # NoCall
    /\ \E s \in {lib[call.ptr].state, IF call.op = "start" THEN "streaming" ELSE "idle"} :
          lib' = [lib EXCEPT ![call.ptr].state = s, ![call.ptr].asked = call.op]
    /\ call' = NoCall
    /\ UNCHANGED <<cameras, walk>>

\* What destroy_camera leaves of the entry; the variant keeps it.
ErasedMut(d) == cameras
Erased(d) == [cameras EXCEPT ![d] = NoCamera]

DestroyCamera(d) ==
    /\ call = NoCall
    /\ MutexFree
    /\ Found(d)
    /\ lib' = [lib EXCEPT ![cameras[d].ptr] = Freed]
    /\ cameras' = Erased(d)
    /\ UNCHANGED <<call, walk>>

--------------------------------------------------------------------------------
(* The library's threads: raw_data_callback and status_callback.            *)

\* The library enters a callback, which waits for the mutex.
LibEmits(p, k) ==
    /\ flight[p] = "none"
    /\ \/ k \in {"video", "audio"} /\ lib[p].state = "streaming" /\ lib[p].raw
       \/ k = "status" /\ lib[p].state # "free" /\ lib[p].status
    /\ flight' = [flight EXCEPT ![p] = k]
    /\ UNCHANGED <<cameras, lib, call, camerasMutex, visit, handed>>

WalkBegins(p) ==
    /\ flight[p] # "none"
    /\ MutexFree
    /\ camerasMutex' = p
    /\ visit' = {d \in Did : Found(d)}
    /\ UNCHANGED <<cameras, lib, call, flight, handed>>

\* handle_raw_data or handle_status_change for one camera of the map: it is given
\* what arrived if it listens to that kind.
Visit(p, d) ==
    /\ camerasMutex = p
    /\ d \in visit
    /\ visit' = visit \ {d}
    /\ handed' = IF flight[p] \in cameras[d].callbacks
                   THEN [from |-> p, to |-> d] ELSE Nothing
    /\ UNCHANGED <<cameras, lib, call, flight, camerasMutex>>

\* lock_guard goes out of scope; the variant forgets to unlock.
UnlockMut == UNCHANGED camerasMutex
Unlock == camerasMutex' = "free"

WalkEnds(p) ==
    /\ camerasMutex = p
    /\ visit = {}
    /\ Unlock
    /\ flight' = [flight EXCEPT ![p] = "none"]
    /\ handed' = Nothing
    /\ UNCHANGED <<cameras, lib, call, visit>>

LibThread(p) ==
    \/ \E k \in Kind : LibEmits(p, k)
    \/ WalkBegins(p)
    \/ \E d \in Did : Visit(p, d)
    \/ WalkEnds(p)

ClientNext ==
    \/ \E d \in Did :
        \/ CreateCamera(d) \/ DestroyCamera(d)
        \/ \E k \in Kind : RegisterListener(d, k)
        \/ \E op \in {"start", "stop"} : LookUp(d, op)
    \/ LibCall
    \/ \E p \in Ptr : LibThread(p)

ClientSpec == ClientInit /\ [][ClientNext]_clientVars

--------------------------------------------------------------------------------
(* Properties.                                                              *)

\* Every instance the library has allocated belongs to exactly one entry of
\* cameras_, and every entry has a live one: none leaks (nobody could free it),
\* none is freed twice, none is used after it was freed.
InstancesOwned ==
    /\ \A p \in Ptr : lib[p].state # "free" <=> \E d \in Did : cameras[d].ptr = p
    /\ \A d, e \in Did : Found(d) /\ cameras[d].ptr = cameras[e].ptr => d = e

\* The instance start_camera or stop_camera has copied is still alive when the
\* library is called with it, though the mutex has been released in between.
HeldPointerLive == call # NoCall => lib[call.ptr].state # "free"

\* raw_data_callback and status_callback walk cameras_ with a live iterator: no
\* entry appears or goes while a walk is under way.
MapStableDuringWalk ==
    [][camerasMutex # "free" => \A d \in Did : cameras'[d].ptr = cameras[d].ptr]_clientVars

\* A video listener registered for a camera is given the frames of that camera.
FramesReachOwnCamera ==
    (handed # Nothing /\ flight[handed.from] = "video")
        => cameras[handed.to].ptr = handed.from
================================================================================
