------------------------------ MODULE EventLog ------------------------------
(***************************************************************************)
(* What the record path promises, without daemon, pulls, watermarks in     *)
(* memory, crashes or restarts: records are spooled one after the other,   *)
(* and an agent's log takes them over in that order, each once and as it   *)
(* is, among the controller's own events.  Records are passed over only    *)
(* when a notice of the loss is spooled that the log has not reached yet.  *)
(***************************************************************************)
EXTENDS Naturals, Sequences

CONSTANTS Notice,   \* the record that announces a loss
          Own       \* the controller's own events

VARIABLES source,   \* everything spooled, numbered from 1
          log,      \* the log, its events numbered from 1
          taken     \* the number of the last record the log took

Init == source = <<>> /\ log = <<>> /\ taken = 0

Spools ==
  /\ Len(source) < Len(source')
  /\ \A i \in 1..Len(source) : source'[i] = source[i]
  /\ \A i \in (Len(source) + 1)..Len(source') : source'[i].id = i
  /\ UNCHANGED <<log, taken>>

Logs(origin, data) == log' = Append(log, [seq |-> Len(log) + 1, origin |-> origin, data |-> data])

Notes == \E d \in Own : Logs(0, d) /\ UNCHANGED <<source, taken>>

Takes ==
  \E k \in (taken + 1)..Len(source) :
    /\ k = taken + 1 \/ \E n \in k..Len(source) : source[n].data = Notice
    /\ Logs(k, source[k].data)
    /\ taken' = k
    /\ UNCHANGED source

Next == Spools \/ Notes \/ Takes

Spec == Init /\ [][Next]_<<source, log, taken>>
=============================================================================
