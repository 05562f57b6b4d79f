----------------------------- MODULE MCLanTiming -----------------------------
(* Small instances of LanTiming for TLC: the devices share one interface,    *)
(* so that they share its socket and the one datagram a second it is read at. *)
EXTENDS LanTiming

MCHomeIp == [d \in Did |-> CHOOSE a \in Ip : TRUE]
MCHomeIface == [d \in Did |-> CHOOSE i \in Iface : TRUE]
================================================================================
