------------------------------ MODULE MCCheckin ------------------------------
(* Checkin for TLC.                                                          *)
EXTENDS Checkin

\* What a process that is not at work, or a past day, still determines: nothing.
View ==
  <<now, next, IF Busy THEN since ELSE 0, disk, pc, today, csDisk,
    [p \in Processes |->
       IF pc[p] \in {"off", "sleep", "refresh"} THEN <<>>
       ELSE <<gen[p], second[p], err[p]>>],
    mem["server"], IF pc["command"] = "off" THEN 0 ELSE mem["command"],
    refused["server"], IF pc["command"] = "off" THEN {} ELSE refused["command"],
    Day(now) \in claimed, flagged, started>>
=============================================================================
