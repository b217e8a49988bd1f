----------------------------- MODULE MCPartitions -----------------------------
(* A task-service that is started on any day of a month of three days, with a *)
(* month of two days after it.                                                *)
EXTENDS TaskApi

MCMonthStarts == <<0, 3, 5, 8, 11>>

Init == TaskApiInit({{"month"}})
Spec == Init /\ [][TaskApiNext]_apiVars
===============================================================================
