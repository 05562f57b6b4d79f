------------------------------ MODULE StatusFeed ------------------------------
(***************************************************************************)
(* What MIoTLanDiscovery promises the listener of register_callback, with  *)
(* no thread, mutex, socket or clock: every change of a device's status is *)
(* announced by one event, the event names the change, and the table does  *)
(* not move again before the listener has returned.  LanDiscovery          *)
(* implements this module; CameraBridge is built on top of it.             *)
(***************************************************************************)
CONSTANT Did        \* device ids

Status == {"absent", "online", "offline"}
Change == {"NEW", "ONLINE", "OFFLINE", "IP_CHANGED", "INTERFACE_CHANGED"}

\* DeviceStatusChangedType values that leave the device online.
Moves == {"IP_CHANGED", "INTERFACE_CHANGED"}

VARIABLES
    status,         \* the device table, reduced to presence and online
    event           \* <<did, change>> being announced, or NoEvent

feedVars == <<status, event>>

NoEvent == <<"none", "none">>

Init ==
    /\ status = [d \in Did |-> "absent"]
    /\ event = NoEvent

\* Only a settled feed moves, and each move is an event.
Announce(d, from, to, change) ==
    /\ event = NoEvent
    /\ status[d] = from
    /\ status' = [status EXCEPT ![d] = to]
    /\ event' = <<d, change>>

Appear(d) == Announce(d, "absent", "online", "NEW")

\* A device that answers again: from a new address it is announced as a move.
Return(d) == \E c \in Moves \cup {"ONLINE"} : Announce(d, "offline", "online", c)

Move(d) == \E c \in Moves : Announce(d, "online", "online", c)

Vanish(d) == Announce(d, "online", "offline", "OFFLINE")

\* The listener returns (or nobody listens).
Delivered ==
    /\ event # NoEvent
    /\ event' = NoEvent
    /\ UNCHANGED status

Next ==
    \/ \E d \in Did : Appear(d) \/ Return(d) \/ Move(d) \/ Vanish(d)
    \/ Delivered

Spec == Init /\ [][Next]_feedVars

TypeOK ==
    /\ status \in [Did -> Status]
    /\ event \in (Did \X Change) \cup {NoEvent}
================================================================================
