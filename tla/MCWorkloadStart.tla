-------------------------- MODULE MCWorkloadStart --------------------------
(***************************************************************************)
(* A handler with everything the operator makes for it and nothing else:   *)
(* its spec.envs only names the mounted file, or they supply every key and *)
(* the connection Secret of its memory tool is whoever else's to make, or  *)
(* a kapeproxy sidecar may come first to the port of the pod.              *)
(* Nothing is edited and nothing fails.                                    *)
(***************************************************************************)
EXTENDS Workload

Scope(start) ==
  [fields |-> {}, start |-> start, edits |-> 0, faults |-> 0, restarts |-> 0,
   edited |-> {}, reverted |-> FALSE]

Plain == [i \in Inputs |-> CASE i = "envs" -> 1 [] OTHER -> 0]

Remembering == [Plain EXCEPT !.envs = 2, !.memory = 1, !.url = 1]

Federating == [Plain EXCEPT !.envs = 2, !.mcp = 1]

Spec ==
  /\ WorkloadInit({Scope(Plain), Scope(Remembering), Scope(Federating)})
  /\ [][WorkloadNext]_wlVars
  /\ WF_wlVars(WorkloadStep) /\ WF_wlVars(PodRolls) /\ WF_wlVars(PodStarts)
=============================================================================
