--------------------------- MODULE MCNotifyQueue ---------------------------
(* Two driver threads and two queues, so that notifications of different   *)
(* queues meet in the list; the values of the registers are the indices.   *)
EXTENDS NotifyQueue
=============================================================================
