------------------------------ MODULE HostApi ------------------------------
(***************************************************************************)
(* What the USB host stack promises to src/main.cpp, and what OutPath,     *)
(* InPath and Presence take for granted of it: an interface is mounted     *)
(* before it is used and goes away with all the others; at most one report *)
(* is asked of an interface at a time; what was asked is answered at most  *)
(* once, and not any more once the interface has gone.                     *)
(***************************************************************************)
EXTENDS Naturals

CONSTANT Itf            \* interfaces of the key

VARIABLES
    up,                 \* between tuh_hid_mount_cb and tuh_hid_umount_cb
    asked               \* interfaces a report was asked of

apiVars == <<up, asked>>

ApiInit == up = {} /\ asked = {}

\* tuh_hid_mount_cb: a fresh interface, of which nothing was asked.
Mount(i) ==
    /\ i \notin up
    /\ up' = up \cup {i}
    /\ UNCHANGED asked

\* tuh_hid_umount_cb, for every interface there is; requests go with them.
Unmount ==
    /\ up' = {} /\ asked' = {}

\* tuh_hid_receive_report returns true.
Ask(i) ==
    /\ i \in up \ asked
    /\ asked' = asked \cup {i}
    /\ UNCHANGED up

\* tuh_hid_report_received_cb
Answer(i) ==
    /\ i \in up \cap asked
    /\ asked' = asked \ {i}
    /\ UNCHANGED up

ApiNext ==
    \/ \E i \in Itf : Mount(i) \/ Ask(i) \/ Answer(i)
    \/ Unmount

ApiSpec == ApiInit /\ [][ApiNext]_apiVars
===========================================================================
