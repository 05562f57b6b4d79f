--------------------------- MODULE LanDiscoveryProofs ---------------------------
(***************************************************************************)
(* Proofs about LanDiscovery, for any number of devices, addresses and     *)
(* interfaces and any intervals: type correctness, the mutex discipline,   *)
(* the two promises to the listener, and the refinement of StatusFeed.     *)
(***************************************************************************)
EXTENDS LanDiscovery, TLAPS

(***************************************************************************)
(* The inductive invariant.  LockDiscipline alone is not inductive: which  *)
(* places a thread can stand at, what it carries there, and what the table *)
(* says about it come from different steps and need each other.            *)
(***************************************************************************)

\* The loop each thread runs.
Places ==
    /\ pc["disc"] \in {"off", "delay", "outer", "probe", "inner", "lock", "poll",
                       "update", "notify", "callback", "sleep", "exit"}
    /\ pc["tmo"] \in {"off", "test", "check", "scan", "notify", "callback", "sleep",
                      "exit"}

\* Outside of start() .. stop() there are no threads, so that start() finds every
\* mutex free.
NoThreadsAtRest ==
    (~running /\ ~stopping) => \A t \in Thread : pc[t] = "off"

\* update_device is called with an answer, never with the noise.
AnswerHeld ==
    pc["disc"] = "update" => answer \in [did : Did, ip : Ip, iface : Iface]

\* A notification is about a device whose entry says what changed.
SubjectTold ==
    \A t \in Thread : Notifying(t) =>
        subject[t] \in Did /\ devices[subject[t]].change \in Change

\* What the checker has still to declare offline is online: the table has been
\* locked since it looked.
DueOnline ==
    devicesMutex = "tmo" => \A d \in due : devices[d].status = "online"

Discipline ==
    /\ Places
    /\ NoThreadsAtRest
    /\ LockDiscipline
    /\ AnswerHeld
    /\ SubjectTold
    /\ DueOnline
    /\ NoCallbackAfterUnregister

IInv == TypeOK /\ Discipline

--------------------------------------------------------------------------------
(* Lemmas about the operators of update_device.                             *)

Located == [did : Did, ip : Ip, iface : Iface]

\* update_device leaves a well-formed entry, online at the place the answer came
\* from.
LEMMA UpdatedEntry ==
    ASSUME NEW e \in Entry, NEW a \in Located
    PROVE  Updated(e, a) \in Entry /\ Updated(e, a).status = "online"
<1>1. ChangeOf(e, a) \in Change \cup {"none"}
  BY DEF ChangeOf, Entry, Change, Status
<1> QED
  BY <1>1 DEF Updated, Entry, Located, Status

\* What a changed entry says depends on what it was: NEW for a device not known,
\* a move or ONLINE for one that was offline, a move for one that was online.
LEMMA ChangeFits ==
    ASSUME NEW e \in Entry, NEW a \in Located, Changed(e, a)
    PROVE  /\ Updated(e, a).change \in Change
           /\ e.status = "absent" => Updated(e, a).change = "NEW"
           /\ e.status = "offline" =>
                Updated(e, a).change \in {"IP_CHANGED", "INTERFACE_CHANGED", "ONLINE"}
           /\ e.status = "online" =>
                Updated(e, a).change \in {"IP_CHANGED", "INTERFACE_CHANGED"}
<1> USE DEF Updated
<1>1. CASE e.status = "absent"
  BY <1>1 DEF ChangeOf, Change
<1>2. CASE e.status = "offline"
  BY <1>2 DEF ChangeOf, Change
<1>3. CASE e.status = "online"
  BY <1>3 DEF ChangeOf, Changed, Change
<1> QED
  BY <1>1, <1>2, <1>3 DEF Entry, Status

\* The type invariant gives update_device an entry and an answer to work on.
LEMMA AtUpdate ==
    ASSUME IInv, pc["disc"] = "update"
    PROVE  answer \in Located /\ devices[answer.did] \in Entry
BY DEF IInv, TypeOK, Discipline, AnswerHeld, Located

--------------------------------------------------------------------------------
(* The initial state.                                                       *)

LEMMA InitIInv == Init => IInv
<1> SUFFICES ASSUME Init PROVE IInv
  OBVIOUS
<1> USE DEF Init
<1>1. devices \in [Did -> Entry]
  BY DEF Entry, Absent, Status
<1>2. inbox \in [Iface -> Seq(Datagram)]
  OBVIOUS
<1>3. scanInterval \in 1..MaxScan /\ sinceProbe \in 0..MaxScan
  BY ScanAssumption
<1>4. age \in [Did -> 0..AgeMax]
  BY TimeAssumption
<1>5. pc \in [Thread -> PC] /\ timer \in [Thread -> Nat]
  BY DEF PC
<1>6. TypeOK
  BY <1>1, <1>2, <1>3, <1>4, <1>5 DEF TypeOK, Holder
<1>7. Discipline
  BY DEF Discipline, Places, NoThreadsAtRest, LockDiscipline, AnswerHeld, SubjectTold, DueOnline,
     NoCallbackAfterUnregister, Notifying, Calling, Thread
<1> QED
  BY <1>6, <1>7 DEF IInv

--------------------------------------------------------------------------------
(* Type correctness: one step per action.                                   *)

LEMMA TypeStep == ASSUME IInv, [Next]_vars PROVE TypeOK'
<1>t. TypeOK
  BY DEF IInv
<1> USE <1>t DEF TypeOK, Goto, Sleep, control, network, table, mutexes, discLocals
<1>1. ASSUME NEW S \in SUBSET Iface, NEW n \in 0..StartDelay, Start(S, n) PROVE TypeOK'
  BY <1>1, TimeAssumption DEF Start, Thread, PC
<1>2. CASE Stop
  BY <1>2 DEF Stop
<1>3. CASE Joined
  <2>1. inbox' \in [Iface -> Seq(Datagram)]
    BY <1>3 DEF Joined
  <2>2. pc' \in [Thread -> PC]
    BY <1>3 DEF Joined, PC
  <2> QED
    BY <1>3, <2>1, <2>2 DEF Joined
<1>4. CASE RegisterCallback
  BY <1>4 DEF RegisterCallback
<1>5. CASE UnregisterCallback
  BY <1>5 DEF UnregisterCallback
<1>6. ASSUME NEW t \in Thread, NEW n \in 0..MaxCallback, NotifyListener(t, n) PROVE TypeOK'
  BY <1>6, TimeAssumption DEF NotifyListener, Holder, PC
<1>7. ASSUME NEW t \in Thread, NotifyNobody(t) PROVE TypeOK'
  BY <1>7 DEF NotifyNobody, Resume, ReleaseTable, Holder, PC
<1>8. ASSUME NEW t \in Thread, CallbackReturns(t) PROVE TypeOK'
  BY <1>8 DEF CallbackReturns, Resume, ReleaseTable, Holder, PC
<1>9. CASE DDelayOver
  BY <1>9 DEF DDelayOver, PC
<1>10. CASE DTest
  BY <1>10 DEF DTest, PC
<1>11. CASE DProbe
  <2>1. scanInterval' \in 1..MaxScan /\ sinceProbe' \in 0..MaxScan
    BY <1>11, ScanAssumption DEF DProbe, Min2
  <2>2. pc' \in [Thread -> PC]
    BY <1>11 DEF DProbe, PC
  <2> QED
    BY <1>11, <2>1, <2>2 DEF DProbe
<1>12. CASE DLock
  BY <1>12 DEF DLock, Holder, Thread, PC
<1>13. ASSUME NEW i \in Iface, DReceive(i) PROVE TypeOK'
  <2>1. inbox' \in [Iface -> Seq(Datagram)]
    BY <1>13 DEF DReceive
  <2>2. answer' \in [did : Did, ip : Ip, iface : Iface] \cup {NoAnswer}
    <3>1. CASE inbox[i] # <<>> /\ Head(inbox[i]) # Noise
      <4>1. Head(inbox[i]) \in Answer
        BY <3>1 DEF Datagram
      <4> QED
        BY <1>13, <3>1, <4>1 DEF DReceive, Answer
    <3>2. CASE ~(inbox[i] # <<>> /\ Head(inbox[i]) # Noise)
      BY <1>13, <3>2 DEF DReceive
    <3> QED
      BY <3>1, <3>2
  <2>3. pc' \in [Thread -> PC] /\ todo' \subseteq Iface
    BY <1>13 DEF DReceive, PC
  <2> QED
    BY <1>13, <2>1, <2>2, <2>3 DEF DReceive
<1>14. CASE DUpdate
  <2>1. answer \in Located /\ devices[answer.did] \in Entry
    BY <1>14, AtUpdate DEF DUpdate
  <2>2. devices' \in [Did -> Entry]
    BY <1>14, <2>1, UpdatedEntry DEF DUpdate
  <2>3. age' \in [Did -> 0..AgeMax]
    <3>1. age' = [age EXCEPT ![answer.did] = 0]
      BY <1>14 DEF DUpdate, Seen
    <3>2. 0 \in 0..AgeMax
      BY TimeAssumption
    <3> QED
      BY <3>1, <3>2
  <2>4. subject' \in [Thread -> Did \cup {"none"}]
    BY <1>14, <2>1 DEF DUpdate, Located
  <2>5. pc' \in [Thread -> PC] /\ devicesMutex' \in Holder
    BY <1>14 DEF DUpdate, PC, Holder, Thread
  <2> QED
    BY <1>14, <2>2, <2>3, <2>4, <2>5 DEF DUpdate
<1>15. CASE DBreak
  BY <1>15 DEF DBreak, Holder, PC
<1>16. CASE DSleep
  BY <1>16 DEF DSleep, PC
<1>17. CASE DWake
  BY <1>17 DEF DWake, Holder, PC
<1>18. CASE TTest
  BY <1>18 DEF TTest, PC
<1>19. CASE TCheck
  BY <1>19 DEF TCheck, Holder, Thread, PC
<1>20. ASSUME NEW d \in Did, TExpire(d) PROVE TypeOK'
  <2>1. devices' \in [Did -> Entry]
    <3>1. devices[d] \in Entry
      OBVIOUS
    <3>2. [devices[d] EXCEPT !.status = "offline", !.change = "OFFLINE"] \in Entry
      BY <3>1 DEF Entry, Status, Change
    <3> QED
      BY <1>20, <3>2 DEF TExpire
  <2>2. pc' \in [Thread -> PC] /\ subject' \in [Thread -> Did \cup {"none"}]
    BY <1>20 DEF TExpire, PC
  <2> QED
    BY <1>20, <2>1, <2>2 DEF TExpire
<1>21. CASE TDone
  BY <1>21, TimeAssumption DEF TDone, Holder, PC
<1>22. CASE TWake
  BY <1>22 DEF TWake, PC
<1>23. ASSUME NEW i \in Iface, NEW m \in Datagram, Arrive(i, m) PROVE TypeOK'
  BY <1>23 DEF Arrive
<1>24. CASE Tick
  BY <1>24, ScanAssumption, TimeAssumption DEF Tick, Min2
<1>25. CASE UNCHANGED vars
  BY <1>25 DEF vars
<1> QED
  BY <1>1, <1>2, <1>3, <1>4, <1>5, <1>6, <1>7, <1>8, <1>9, <1>10, <1>11, <1>12, <1>13,
     <1>14, <1>15, <1>16, <1>17, <1>18, <1>19, <1>20, <1>21, <1>22, <1>23, <1>24,
     <1>25 DEF Next, Main, Discovery, Checker, Notification, Thread

--------------------------------------------------------------------------------
(* The discipline of the threads: one step per action.                      *)

LEMMA DisciplineStep == ASSUME IInv, [Next]_vars PROVE Discipline'
<1>i. TypeOK /\ Discipline
  BY DEF IInv
<1> USE <1>i DEF TypeOK, Discipline, Places, NoThreadsAtRest, LockDiscipline, AnswerHeld, SubjectTold,
        DueOnline, NoCallbackAfterUnregister, Notifying, Calling, Goto, Sleep,
        control, network, table, mutexes, discLocals
<1>1. ASSUME NEW S \in SUBSET Iface, NEW n \in 0..StartDelay, Start(S, n) PROVE Discipline'
  <2>1. pc'["disc"] = "delay" /\ pc'["tmo"] = "test"
    BY <1>1 DEF Start, Thread
  <2>2. \A t \in Thread : ~Calling(t) /\ ~Notifying(t)
    BY <1>1 DEF Start, Thread
  <2> QED
    BY <1>1, <2>1, <2>2 DEF Start, Thread
<1>2. CASE Stop
  BY <1>2 DEF Stop
<1>3. CASE Joined
  BY <1>3 DEF Joined, Thread
<1>4. CASE RegisterCallback
  BY <1>4 DEF RegisterCallback
<1>5. CASE UnregisterCallback
  BY <1>5 DEF UnregisterCallback, ListenersFree, Holder, Thread
<1>6. ASSUME NEW t \in Thread, NEW n \in 0..MaxCallback, NotifyListener(t, n) PROVE Discipline'
  BY <1>6 DEF NotifyListener, ListenersFree, Thread
<1>7. ASSUME NEW t \in Thread, NotifyNobody(t) PROVE Discipline'
  BY <1>7 DEF NotifyNobody, ListenersFree, Resume, ReleaseTable, Thread
<1>8. ASSUME NEW t \in Thread, CallbackReturns(t) PROVE Discipline'
  BY <1>8 DEF CallbackReturns, Resume, ReleaseTable, Thread
<1>9. CASE DDelayOver
  BY <1>9 DEF DDelayOver, Thread
<1>10. CASE DTest
  BY <1>10 DEF DTest, Thread
<1>11. CASE DProbe
  BY <1>11 DEF DProbe, Thread
<1>12. CASE DLock
  BY <1>12 DEF DLock, Thread
<1>13. ASSUME NEW i \in Iface, DReceive(i) PROVE Discipline'
  BY <1>13 DEF DReceive, Datagram, Answer, Thread
<1>14. CASE DUpdate
  <2>1. answer \in Located /\ devices[answer.did] \in Entry
    BY <1>14, AtUpdate DEF DUpdate
  <2>2. \A t \in Thread : ~Notifying(t) /\ ~Calling(t)
    BY <1>14 DEF DUpdate, TableFree, Thread
  <2>3. CASE Changed(devices[answer.did], answer)
    <3>1. devices'[answer.did].change \in Change
      BY <1>14, <2>1, <2>3, ChangeFits DEF DUpdate, Located
    <3> QED
      BY <1>14, <2>1, <2>2, <2>3, <3>1 DEF DUpdate, TableFree, Located, Thread
  <2>4. CASE ~Changed(devices[answer.did], answer)
    BY <1>14, <2>2, <2>4 DEF DUpdate, TableFree, Thread
  <2> QED
    BY <2>3, <2>4
<1>15. CASE DBreak
  BY <1>15 DEF DBreak, Thread
<1>16. CASE DSleep
  BY <1>16 DEF DSleep, Thread
<1>17. CASE DWake
  BY <1>17 DEF DWake, Thread
<1>18. CASE TTest
  BY <1>18 DEF TTest, Thread
<1>19. CASE TCheck
  BY <1>19 DEF TCheck, TableFree, Expired, Thread
<1>20. ASSUME NEW d \in Did, TExpire(d) PROVE Discipline'
  <2>1. devices'[d].change = "OFFLINE"
    BY <1>20 DEF TExpire, Entry
  <2>2. \A e \in due' : devices'[e] = devices[e]
    BY <1>20 DEF TExpire
  <2>3. SubjectTold'
    BY <1>20, <2>1 DEF TExpire, Thread, Change
  <2>4. DueOnline'
    BY <1>20, <2>2 DEF TExpire, Thread
  <2>5. Places' /\ NoThreadsAtRest' /\ LockDiscipline' /\ AnswerHeld' /\ NoCallbackAfterUnregister'
    BY <1>20 DEF TExpire, Thread
  <2> QED
    BY <2>3, <2>4, <2>5
<1>21. CASE TDone
  BY <1>21 DEF TDone, Thread
<1>22. CASE TWake
  BY <1>22 DEF TWake, Thread
<1>23. ASSUME NEW i \in Iface, NEW m \in Datagram, Arrive(i, m) PROVE Discipline'
  BY <1>23 DEF Arrive
<1>24. CASE Tick
  BY <1>24 DEF Tick
<1>25. CASE UNCHANGED vars
  BY <1>25 DEF vars
<1> QED
  BY <1>1, <1>2, <1>3, <1>4, <1>5, <1>6, <1>7, <1>8, <1>9, <1>10, <1>11, <1>12, <1>13,
     <1>14, <1>15, <1>16, <1>17, <1>18, <1>19, <1>20, <1>21, <1>22, <1>23, <1>24,
     <1>25 DEF Next, Main, Discovery, Checker, Notification, Thread

--------------------------------------------------------------------------------
(* The invariants.                                                          *)

LEMMA Inductive == Spec => []IInv
<1>1. IInv /\ [Next]_vars => IInv'
  BY TypeStep, DisciplineStep DEF IInv
<1> QED
  BY InitIInv, <1>1, PTL DEF Spec

\* Every variable keeps its type: ages and intervals stay in their ranges, and a
\* thread only handles devices, sockets and datagrams that exist.
THEOREM TypeCorrect == Spec => []TypeOK
BY Inductive, PTL DEF IInv

\* Each of the three mutexes is held exactly while its holder stands where the
\* code holds it, so that no two threads are ever inside together.
THEOREM MutexesKept == Spec => []LockDiscipline
BY Inductive, PTL DEF IInv, Discipline

\* After unregister_callback the listener is neither running nor called again.
THEOREM UnregisteredIsNotCalled == Spec => []NoCallbackAfterUnregister
BY Inductive, PTL DEF IInv, Discipline

--------------------------------------------------------------------------------
(* What a listener is handed does not change under it.                      *)

LEMMA FrozenStep ==
    ASSUME IInv, [Next]_vars, NEW t \in Thread, Calling(t)
    PROVE  devices' = devices
<1> USE DEF IInv, Discipline, LockDiscipline, Calling, Thread, table
<1>1. CASE Main
  BY <1>1 DEF Main, Start, Stop, Joined, RegisterCallback, UnregisterCallback
<1>2. CASE Discovery
  <2>1. ~DUpdate
    BY DEF DUpdate, TableFree
  <2> QED
    BY <1>2, <2>1 DEF Discovery, DDelayOver, DTest, DProbe, DLock, DReceive, DBreak,
       DSleep, DWake, Notification, NotifyListener, NotifyNobody, CallbackReturns
<1>3. CASE Checker
  <2>1. ~\E d \in Did : TExpire(d)
    BY DEF TExpire
  <2> QED
    BY <1>3, <2>1 DEF Checker, TTest, TCheck, TDone, TWake, Notification,
       NotifyListener, NotifyNobody, CallbackReturns
<1>4. CASE \E i \in Iface, m \in Datagram : Arrive(i, m)
  BY <1>4 DEF Arrive
<1>5. CASE Tick \/ UNCHANGED vars
  BY <1>5 DEF Tick, vars
<1> QED
  BY <1>1, <1>2, <1>3, <1>4, <1>5 DEF Next

\* update_device and check_device_timeouts notify with devices_mutex_ held: while
\* the listener runs, on either thread, the other thread cannot touch the table.
THEOREM TableIsFrozen == Spec => TableFrozenDuringCallback
<1>1. IInv /\ [Next]_vars
        => [(\E t \in Thread : Calling(t)) => devices' = devices]_vars
  BY FrozenStep
<1> QED
  BY <1>1, Inductive, PTL DEF Spec, TableFrozenDuringCallback

--------------------------------------------------------------------------------
(* The refinement of StatusFeed.                                            *)

\* A step of either thread, or of the world, that neither announces nor delivers.
LEMMA Quiet ==
    ASSUME devices' = devices, UNCHANGED subject,
           \A t \in Thread : Notifying(t)' <=> Notifying(t)
    PROVE  UNCHANGED <<feedStatus, feedEvent>>
BY DEF feedStatus, feedEvent, Thread

\* Nobody else is notifying when devices_mutex_ is free or the other thread's.
LEMMA OneEvent ==
    ASSUME IInv
    PROVE  /\ devicesMutex = "free" => \A t \in Thread : ~Notifying(t)
           /\ \A t \in Thread : Notifying(t) =>
                /\ devicesMutex = t
                /\ feedEvent = <<subject[t], devices[subject[t]].change>>
                /\ feedEvent # Feed!NoEvent
           /\ (\A t \in Thread : ~Notifying(t)) => feedEvent = Feed!NoEvent
<1> USE DEF IInv, Discipline, LockDiscipline, Notifying, Thread
<1>1. \A t \in Thread : Notifying(t) => devicesMutex = t
  OBVIOUS
<1>2. ASSUME NEW t \in Thread, Notifying(t)
      PROVE  /\ feedEvent = <<subject[t], devices[subject[t]].change>>
             /\ feedEvent # Feed!NoEvent
  <2>1. feedEvent = <<subject[t], devices[subject[t]].change>>
    BY <1>2 DEF feedEvent
  <2>2. devices[subject[t]].change # "none"
    BY <1>2 DEF SubjectTold, Change
  <2> QED
    BY <2>1, <2>2 DEF Feed!NoEvent
<1>3. (\A t \in Thread : ~Notifying(t)) => feedEvent = Feed!NoEvent
  BY DEF feedEvent, Feed!NoEvent
<1> QED
  BY <1>1, <1>2, <1>3

\* notify_callbacks returns: the event is delivered.
LEMMA DeliveredStep ==
    ASSUME IInv, IInv', NEW t \in Thread, Notifying(t), devices' = devices,
           pc' = [pc EXCEPT ![t] = Resume(t)]
    PROVE  Feed!Delivered
<1>1. \A u \in Thread : ~Notifying(u)'
  BY OneEvent DEF IInv, TypeOK, Discipline, LockDiscipline, Notifying, Resume, Thread
<1>2. feedEvent' = Feed!NoEvent
  BY <1>1 DEF feedEvent, Feed!NoEvent, Thread
<1>3. feedEvent # Feed!NoEvent
  BY OneEvent
<1>4. feedStatus' = feedStatus
  BY DEF feedStatus
<1> QED
  BY <1>2, <1>3, <1>4 DEF Feed!Delivered, Feed!NoEvent

\* A thread that starts to notify announces its subject.
LEMMA AnnounceStep ==
    ASSUME IInv, IInv', NEW t \in Thread, devicesMutex = "free" \/ pc["tmo"] = "scan",
           \A u \in Thread : ~Notifying(u), Notifying(t)',
           NEW d \in Did, subject'[t] = d, NEW e \in Entry,
           devices' = [devices EXCEPT ![d] = e]
    PROVE  Feed!Announce(d, devices[d].status, e.status, e.change)
<1>1. feedEvent = Feed!NoEvent
  BY OneEvent
<1>2. devices'[d] = e
  BY DEF IInv, TypeOK
<1>3. feedEvent' = <<d, e.change>>
  <2>1. \A u \in Thread : Notifying(u)' => u = t
    BY DEF IInv, Discipline, LockDiscipline, Notifying, Thread
  <2> QED
    BY <1>2, <2>1 DEF feedEvent, Thread
<1>4. feedStatus' = [feedStatus EXCEPT ![d] = e.status]
  BY DEF feedStatus, IInv, TypeOK
<1>5. feedStatus[d] = devices[d].status
  BY DEF feedStatus
<1> QED
  BY <1>1, <1>3, <1>4, <1>5 DEF Feed!Announce, Feed!NoEvent

LEMMA UpdateRefines ==
    ASSUME IInv, IInv', DUpdate
    PROVE  [Feed!Next]_(Feed!feedVars)
<1> DEFINE d == answer.did
           e == Updated(devices[d], answer)
<1>1. answer \in Located /\ d \in Did /\ devices[d] \in Entry
  BY AtUpdate DEF DUpdate, Located
<1>2. e \in Entry /\ e.status = "online" /\ devices' = [devices EXCEPT ![d] = e]
  BY <1>1, UpdatedEntry DEF DUpdate, IInv, TypeOK
<1>3. \A u \in Thread : ~Notifying(u)
  BY OneEvent DEF DUpdate, TableFree
<1>4. CASE Changed(devices[d], answer)
  <2>1. Notifying("disc")' /\ subject'["disc"] = d
    BY <1>4 DEF DUpdate, Notifying, Goto, IInv, TypeOK, Thread
  <2>2. Feed!Announce(d, devices[d].status, "online", e.change)
    <3>1. "disc" \in Thread /\ devicesMutex = "free"
      BY DEF Thread, DUpdate, TableFree
    <3> HIDE DEF d, e
    <3> QED
      BY <1>1, <1>2, <1>3, <2>1, <3>1, AnnounceStep
  <2>3. /\ devices[d].status = "absent" => e.change = "NEW"
        /\ devices[d].status = "offline" =>
             e.change \in {"IP_CHANGED", "INTERFACE_CHANGED", "ONLINE"}
        /\ devices[d].status = "online" =>
             e.change \in {"IP_CHANGED", "INTERFACE_CHANGED"}
        /\ devices[d].status \in Status
    BY <1>1, <1>4, ChangeFits DEF Entry
  <2>4. Feed!Appear(d) \/ Feed!Return(d) \/ Feed!Move(d)
    <3> HIDE DEF d, e
    <3> QED
      BY <2>2, <2>3 DEF Feed!Appear, Feed!Return, Feed!Move, Feed!Moves, Status
  <2> QED
    BY <1>1, <2>4 DEF Feed!Next
<1>5. CASE ~Changed(devices[d], answer)
  <2>1. devices[d].status = "online"
    BY <1>5 DEF Changed
  <2>2. feedStatus' = feedStatus
    <3> HIDE DEF e, d
    <3> QED
      BY <1>1, <1>2, <2>1 DEF feedStatus, IInv, TypeOK
  <2>3. \A u \in Thread : ~Notifying(u)'
    BY <1>3, <1>5 DEF DUpdate, Goto, Notifying, IInv, TypeOK, Thread
  <2>4. feedEvent' = feedEvent
    BY <1>3, <2>3 DEF feedEvent, Thread
  <2> QED
    BY <2>2, <2>4 DEF Feed!feedVars
<1> QED
  BY <1>4, <1>5

LEMMA ExpireRefines ==
    ASSUME IInv, IInv', NEW d \in Did, TExpire(d)
    PROVE  Feed!Vanish(d)
<1> DEFINE e == [devices[d] EXCEPT !.status = "offline", !.change = "OFFLINE"]
<1>1. devices' = [devices EXCEPT ![d] = e] /\ devices[d] \in Entry
  BY DEF TExpire, IInv, TypeOK
<1>2. e \in Entry /\ e.status = "offline" /\ e.change = "OFFLINE"
  BY <1>1 DEF Entry, Status, Change
<1>3. devices[d].status = "online"
  BY DEF TExpire, IInv, Discipline, LockDiscipline, DueOnline
<1>4. \A u \in Thread : ~Notifying(u)
  BY DEF TExpire, IInv, Discipline, LockDiscipline, Notifying, Thread
<1>5. Notifying("tmo")' /\ subject'["tmo"] = d /\ pc["tmo"] = "scan" /\ "tmo" \in Thread
  BY DEF TExpire, Notifying, Goto, IInv, TypeOK, Thread
<1>6. Feed!Announce(d, devices[d].status, "offline", "OFFLINE")
  <2> HIDE DEF e
  <2> QED
    BY <1>1, <1>2, <1>4, <1>5, AnnounceStep
<1> QED
  BY <1>3, <1>6 DEF Feed!Vanish

\* The other steps announce nothing and deliver nothing.
LEMMA RefineStep == ASSUME IInv, IInv', [Next]_vars PROVE [Feed!Next]_(Feed!feedVars)
<1> USE DEF IInv, TypeOK, Goto, table
<1>q. ASSUME UNCHANGED devices, UNCHANGED subject,
             \A t \in Thread : Notifying(t)' <=> Notifying(t)
      PROVE  [Feed!Next]_(Feed!feedVars)
  BY <1>q, Quiet DEF Feed!feedVars
<1>1. CASE Main
  BY <1>1, <1>q DEF Main, Start, Stop, Joined, RegisterCallback, UnregisterCallback,
     Notifying, Thread, Discipline, NoThreadsAtRest
<1>2. ASSUME NEW t \in Thread, Notification(t)
      PROVE  [Feed!Next]_(Feed!feedVars)
  <2>1. CASE \E n \in 0..MaxCallback : NotifyListener(t, n)
    BY <1>2, <1>q, <2>1 DEF NotifyListener, Notifying, Thread
  <2>2. CASE NotifyNobody(t) \/ CallbackReturns(t)
    <3>1. Feed!Delivered
      BY <1>2, <2>2, DeliveredStep DEF NotifyNobody, CallbackReturns, Notifying
    <3> QED
      BY <3>1 DEF Feed!Next
  <2> QED
    BY <1>2, <2>1, <2>2 DEF Notification
<1>3. CASE DDelayOver \/ DTest \/ DProbe \/ DLock \/ DBreak \/ DSleep \/ DWake
  BY <1>3, <1>q DEF DDelayOver, DTest, DProbe, DLock, DBreak, DSleep, DWake, Notifying, Thread
<1>4. ASSUME NEW i \in Iface, DReceive(i) PROVE [Feed!Next]_(Feed!feedVars)
  BY <1>4, <1>q DEF DReceive, Notifying, Thread
<1>5. CASE TTest \/ TCheck \/ TDone \/ TWake
  BY <1>5, <1>q DEF TTest, TCheck, TDone, TWake, Notifying, Thread
<1>6. ASSUME NEW d \in Did, TExpire(d) PROVE [Feed!Next]_(Feed!feedVars)
  BY <1>6, ExpireRefines DEF Feed!Next
<1>7. CASE \E i \in Iface, m \in Datagram : Arrive(i, m)
  BY <1>7, <1>q DEF Arrive, Notifying
<1>8. CASE Tick \/ UNCHANGED vars
  BY <1>8, <1>q DEF Tick, vars, Notifying
<1> QED
  BY <1>1, <1>2, <1>3, <1>4, <1>5, <1>6, <1>7, <1>8, UpdateRefines
     DEF Next, Discovery, Checker, Thread

LEMMA RefineInit == Init => Feed!Init
BY DEF Init, Absent, Feed!Init, feedStatus, feedEvent, Feed!NoEvent, Notifying, Thread

\* discovery_loop and check_device_timeouts, with their sockets, mutexes, sleeps
\* and intervals, implement StatusFeed: each change of a device's status is
\* announced once, in order, as what it is.
THEOREM Refinement == Spec => ImplementsFeed
<1>1. IInv /\ IInv' /\ [Next]_vars => [Feed!Next]_(Feed!feedVars)
  BY RefineStep
<1> QED
  BY <1>1, RefineInit, Inductive, PTL DEF Spec, ImplementsFeed, Feed!Spec
================================================================================
