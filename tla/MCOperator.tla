----------------------------- MODULE MCOperator -----------------------------
(***************************************************************************)
(* Three handlers to check: one whose schema and memory tool change, one   *)
(* (`chain` = "skill") whose skill and that skill's MCP tool do, and one   *)
(* ("grow") that is edited to refer to an MCP tool or no longer to; the    *)
(* schema of these two is there all along.                                 *)
(***************************************************************************)
EXTENDS Operator

CONSTANTS s, k, t, Chains

VARIABLE chain

SkillUsesTool == [x \in Skills |-> Tools]
WithTool == {{s, t}}

K == INSTANCE Operator WITH
       Schemas <- {}, Skills <- {k}, Memory <- {}, SkillTools <- [x \in {k} |-> {t}],
       Existing <- {k, t}, Specs <- {{k}}, MaxEdits <- 2

G == INSTANCE Operator WITH
       Schemas <- {}, Skills <- {}, Memory <- {}, SkillTools <- [x \in {} |-> {}],
       Existing <- {t, Handler}, Specs <- {{}, {t}}, MaxEdits <- 3, Faults <- {}

MCInit ==
    /\ chain \in Chains
    /\ CASE chain = "tool" -> Init [] chain = "skill" -> K!Init [] chain = "grow" -> G!Init

(* In "grow" the handler is edited, its endpoint comes and goes and its    *)
(* pod becomes ready; the dependencies are left alone.                     *)
Grows ==
    \/ G!HandlerStep \/ G!ProxyStep \/ \E d \in G!Deps : G!DepStep(d)
    \/ \E refs \in {{}, {t}}, bad \in BOOLEAN : G!ApplyHandler(refs, bad)
    \/ G!ToggleEndpoint(t)
    \/ \E health \in PodHealth : G!PodChanges(health, TRUE)

MCNext ==
    /\ UNCHANGED chain
    /\ CASE chain = "tool" -> Next [] chain = "skill" -> K!Next [] chain = "grow" -> Grows

(* The workers of the chain a behaviour is about.                          *)
HandlerWorker ==
    \/ chain = "tool" /\ HandlerStep
    \/ chain = "skill" /\ K!HandlerStep
    \/ chain = "grow" /\ G!HandlerStep

ProxyWorker ==
    \/ chain = "tool" /\ ProxyStep
    \/ chain = "skill" /\ K!ProxyStep
    \/ chain = "grow" /\ G!ProxyStep

DepWorker(d) ==
    \/ chain = "tool" /\ d \in Deps /\ DepStep(d)
    \/ chain = "skill" /\ d \in K!Deps /\ K!DepStep(d)
    \/ chain = "grow" /\ d \in G!Deps /\ G!DepStep(d)

MCSpec ==
    /\ MCInit /\ [][MCNext]_<<vars, chain>>
    /\ WF_vars(HandlerWorker) /\ WF_vars(ProxyWorker)
    /\ \A d \in {s, k, t} : WF_vars(DepWorker(d))

(* gateDependencies (handler.go): an unready dependency ends in a handler  *)
(* that is not Ready, until it is ready again (GateHolds of Operator, for  *)
(* a handler with fixed references and for one whose references change).   *)
GateStays == (chain = "tool" => GateHolds) /\ (chain = "grow" => G!GateHolds)

(* reconcileWorkload (handler.go): a changed dependency ends in a          *)
(* Deployment with the current hash (RolloutFollows of Operator, in both   *)
(* chains).                                                                *)
RolloutCatchesUp == (chain = "tool" => RolloutFollows) /\ (chain = "skill" => K!RolloutFollows)
=============================================================================
