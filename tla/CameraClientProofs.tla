--------------------------- MODULE CameraClientProofs ---------------------------
(***************************************************************************)
(* Proofs about CameraClient, for any number of cameras and of library     *)
(* instances: who owns an instance, that a copied instance stays alive     *)
(* without the mutex, and that a walk over cameras_ is undisturbed.        *)
(***************************************************************************)
EXTENDS CameraClient, TLAPS

(***************************************************************************)
(* The inductive invariant.  HeldPointerLive needs InstancesOwned, because *)
(* an instance is alive when it is copied only if every entry of cameras_  *)
(* has a live one; InstancesOwned needs HeldPointerLive, because a call on *)
(* a dead instance would revive it behind the back of cameras_.            *)
(***************************************************************************)
IInv == ClientTypeOK /\ InstancesOwned /\ HeldPointerLive

Instance == [state : {"free", "idle", "streaming"}, raw : BOOLEAN,
             status : BOOLEAN, asked : {"none", "start", "stop"}]

LEMMA InitIInv == ClientInit => IInv
<1> SUFFICES ASSUME ClientInit PROVE IInv
  OBVIOUS
<1> USE DEF ClientInit
<1>1. cameras \in [Did -> [ptr : Ptr \cup {"none"}, callbacks : SUBSET Kind]]
  BY DEF NoCamera
<1>2. lib \in [Ptr -> Instance]
  BY DEF Instance, Freed
<1>3. ClientTypeOK
  BY <1>1, <1>2 DEF ClientTypeOK, Instance
<1>4. InstancesOwned /\ HeldPointerLive
  BY PtrAssumption DEF InstancesOwned, HeldPointerLive, Freed, NoCamera, Found
<1> QED
  BY <1>3, <1>4 DEF IInv

LEMMA CreateStep == ASSUME IInv, NEW d \in Did, CreateCamera(d) PROVE IInv'
<1> USE DEF IInv, ClientTypeOK, CreateCamera, walk
<1>1. CASE UNCHANGED <<cameras, lib>>
  BY <1>1 DEF InstancesOwned, HeldPointerLive, Found
<1>2. ASSUME NEW p \in Ptr, MayCreate(d), lib[p].state = "free",
             lib' = [lib EXCEPT ![p].state = "idle"],
             cameras' = [cameras EXCEPT ![d] = [ptr |-> p, callbacks |-> {}]]
      PROVE  IInv'
  <2>1. ClientTypeOK'
    BY <1>2
  <2>2. \A e \in Did : cameras[e].ptr # p
    BY <1>2 DEF InstancesOwned
  <2>3. InstancesOwned'
    BY <1>2, <2>2, PtrAssumption DEF InstancesOwned, Found, MayCreate
  <2>4. HeldPointerLive'
    BY DEF HeldPointerLive
  <2> QED
    BY <2>1, <2>3, <2>4
<1> QED
  BY <1>1, <1>2

LEMMA RegisterStep ==
    ASSUME IInv, NEW d \in Did, NEW k \in Kind, RegisterListener(d, k)
    PROVE  IInv'
<1> USE DEF IInv, ClientTypeOK, RegisterListener, walk
<1>1. CASE Found(d)
  <2>1. cameras[d].ptr \in Ptr
    BY <1>1 DEF Found
  <2>2. /\ lib' \in [Ptr -> Instance]
        /\ \A p \in Ptr : lib'[p].state = lib[p].state
    <3>1. lib[cameras[d].ptr] \in Instance
      BY <2>1 DEF Instance
    <3>2. PICK i \in Instance :
              /\ i.state = lib[cameras[d].ptr].state
              /\ lib' = [lib EXCEPT ![cameras[d].ptr] = i]
      <4>1. CASE k = "video"
        <5> DEFINE i == [lib[cameras[d].ptr] EXCEPT !.raw = TRUE]
        <5>1. i \in Instance /\ i.state = lib[cameras[d].ptr].state
          BY <3>1 DEF Instance
        <5>2. lib' = [lib EXCEPT ![cameras[d].ptr] = i]
          BY <1>1, <4>1 DEF LibRegister
        <5> QED
          BY <5>1, <5>2
      <4>2. CASE k = "status"
        <5> DEFINE i == [lib[cameras[d].ptr] EXCEPT !.status = TRUE]
        <5>1. i \in Instance /\ i.state = lib[cameras[d].ptr].state
          BY <3>1 DEF Instance
        <5>2. lib' = [lib EXCEPT ![cameras[d].ptr] = i]
          BY <1>1, <4>2 DEF LibRegister
        <5> QED
          BY <5>1, <5>2
      <4>3. CASE k = "audio"
        <5>1. lib' = [lib EXCEPT ![cameras[d].ptr] = lib[cameras[d].ptr]]
          BY <1>1, <2>1, <4>3 DEF LibRegister
        <5> QED
          BY <3>1, <5>1
      <4> QED
        BY <4>1, <4>2, <4>3 DEF Kind
    <3> QED
      BY <2>1, <3>2 DEF Instance
  <2>3. /\ cameras' \in [Did -> [ptr : Ptr \cup {"none"}, callbacks : SUBSET Kind]]
        /\ \A e \in Did : cameras'[e].ptr = cameras[e].ptr
    <3> DEFINE c == [cameras[d] EXCEPT !.callbacks = @ \cup {k}]
    <3>1. c \in [ptr : Ptr \cup {"none"}, callbacks : SUBSET Kind] /\ c.ptr = cameras[d].ptr
      OBVIOUS
    <3>2. cameras' = [cameras EXCEPT ![d] = c]
      BY <1>1
    <3> HIDE DEF c
    <3> QED
      BY <3>1, <3>2
  <2> QED
    BY <2>2, <2>3 DEF Instance, InstancesOwned, HeldPointerLive, Found
<1>2. CASE ~Found(d)
  BY <1>2 DEF InstancesOwned, HeldPointerLive, Found
<1> QED
  BY <1>1, <1>2

LEMMA LookUpStep ==
    ASSUME IInv, NEW d \in Did, NEW op \in {"start", "stop"}, LookUp(d, op)
    PROVE  IInv'
<1> USE DEF IInv, ClientTypeOK, LookUp, walk
<1>1. InstancesOwned'
  BY DEF InstancesOwned, Found
<1>2. ClientTypeOK' /\ HeldPointerLive'
  BY DEF InstancesOwned, HeldPointerLive, Found
<1> QED
  BY <1>1, <1>2

LEMMA LibCallStep == ASSUME IInv, LibCall PROVE IInv'
<1> USE DEF IInv, ClientTypeOK, LibCall, walk
<1>1. call.ptr \in Ptr /\ call.op \in {"start", "stop"}
  BY DEF NoCall
<1>2. PICK s \in {lib[call.ptr].state, IF call.op = "start" THEN "streaming" ELSE "idle"} :
          lib' = [lib EXCEPT ![call.ptr].state = s, ![call.ptr].asked = call.op]
  OBVIOUS
<1>3. s \in {"idle", "streaming"}
  BY <1>1, <1>2 DEF HeldPointerLive
<1>4. /\ lib' \in [Ptr -> Instance]
      /\ \A p \in Ptr : lib'[p].state # "free" <=> lib[p].state # "free"
  BY <1>1, <1>2, <1>3 DEF Instance, HeldPointerLive
<1> QED
  BY <1>4 DEF Instance, InstancesOwned, HeldPointerLive, Found

LEMMA DestroyStep == ASSUME IInv, NEW d \in Did, DestroyCamera(d) PROVE IInv'
<1> USE DEF IInv, ClientTypeOK, DestroyCamera, walk
<1>1. cameras[d].ptr \in Ptr
  BY DEF Found
<1>2. ClientTypeOK'
  BY <1>1 DEF Freed, Erased, NoCamera
<1>3. InstancesOwned'
  BY <1>1, PtrAssumption DEF InstancesOwned, Freed, Erased, NoCamera, Found
<1>4. HeldPointerLive'
  BY DEF HeldPointerLive
<1> QED
  BY <1>2, <1>3, <1>4

LEMMA LibThreadStep == ASSUME IInv, NEW p \in Ptr, LibThread(p) PROVE IInv'
<1> USE DEF IInv, ClientTypeOK
<1>1. cameras' = cameras /\ lib' = lib /\ call' = call
  BY DEF LibThread, LibEmits, WalkBegins, Visit, WalkEnds
<1>2. ClientTypeOK'
  BY DEF LibThread, LibEmits, WalkBegins, Visit, WalkEnds, Unlock, Nothing
<1> QED
  BY <1>1, <1>2 DEF InstancesOwned, HeldPointerLive, Found

LEMMA Inductive == ClientSpec => []IInv
<1>1. IInv /\ [ClientNext]_clientVars => IInv'
  <2> SUFFICES ASSUME IInv, [ClientNext]_clientVars PROVE IInv'
    OBVIOUS
  <2>1. CASE UNCHANGED clientVars
    BY <2>1 DEF clientVars, IInv, ClientTypeOK, InstancesOwned, HeldPointerLive, Found
  <2> QED
    BY <2>1, CreateStep, RegisterStep, LookUpStep, LibCallStep, DestroyStep,
       LibThreadStep DEF ClientNext
<1> QED
  BY InitIInv, <1>1, PTL DEF ClientSpec

\* The maps, the instances and the call under way keep their types.
THEOREM ClientTypeCorrect == ClientSpec => []ClientTypeOK
BY Inductive, PTL DEF IInv

\* create_camera, destroy_camera and everything in between keep the library's
\* instances and the entries of cameras_ in step: no leak, no double free.
THEOREM InstancesAreOwned == ClientSpec => []InstancesOwned
BY Inductive, PTL DEF IInv

\* start_camera and stop_camera use the instance after they have released
\* cameras_mutex_: with one caller at a time it is still alive.
THEOREM HeldPointerIsLive == ClientSpec => []HeldPointerLive
BY Inductive, PTL DEF IInv

\* The iterator of raw_data_callback and status_callback stays valid: no entry
\* comes or goes while the mutex is held for a walk.
THEOREM MapIsStable == ClientSpec => MapStableDuringWalk
<1>1. IInv /\ [ClientNext]_clientVars
        => [camerasMutex # "free" =>
              \A d \in Did : cameras'[d].ptr = cameras[d].ptr]_clientVars
  <2> SUFFICES ASSUME IInv, ClientNext, camerasMutex # "free"
               PROVE  \A d \in Did : cameras'[d].ptr = cameras[d].ptr
    OBVIOUS
  <2>1. cameras' = cameras
    BY DEF ClientNext, CreateCamera, DestroyCamera, RegisterListener, LookUp, LibCall,
       LibThread, LibEmits, WalkBegins, Visit, WalkEnds, MutexFree
  <2> QED
    BY <2>1
<1> QED
  BY <1>1, Inductive, PTL DEF ClientSpec, MapStableDuringWalk
================================================================================
