------------------------ MODULE MCNotificationOutbox ------------------------
(* Two executors, one of which may be of a version that lacks the plan. *)
EXTENDS NotificationOutbox
CONSTANTS k1, k2, o1, o2
Rollouts == {{o1, o2}, {o1}}
OneVersion == {{o1}}
===============================================================================
