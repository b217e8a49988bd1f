------------------------------ MODULE KapeProxy ------------------------------
(***************************************************************************)
(* kapeproxy, the MCP proxy in a handler's pod: configuration, dialling of *)
(* the upstreams, routing of a namespaced tool to an upstream, redaction,  *)
(* the audit line of a call, and the shutdown.                             *)
(*                                                                         *)
(* Names are abstracted to what the router tells apart: a tool name        *)
(* matches the allowlist or does not.  A redaction rule is one the         *)
(* redactor can apply ("plain") or one it refuses ("wild").                *)
(***************************************************************************)
EXTENDS Naturals, FiniteSets

CONSTANTS
    Upstreams,   \* the upstreams of the configuration
    ToolNames,   \* the tools an upstream may offer
    Matched,     \* the tools the globs of an allowlist match
    Callers      \* requests in flight at a time

Rules == {"none", "plain", "wild"}
Allowlists == {"unset", "empty", "globs", "malformed"}

VARIABLES
    proxyConf,   \* the configuration of each upstream, as LoadConfig leaves it
    upstream,    \* each upstream: available, tools listed when it was dialled
    proxyPhase,  \* the process: dialling, serving, draining, stopped
    call,        \* each request: step, tool asked for, what happened to it
    advertised   \* history: the tools that tools/list has named

proxyVars == <<proxyConf, upstream, proxyPhase, call, advertised>>

NoCall == [pc |-> "none", up |-> "none", tool |-> "none", redacted |-> FALSE,
           sent |-> "none", lines |-> 0, answer |-> "none"]

(* LoadConfig: audit defaults to true, an empty allowlist becomes nil.     *)
Loaded(raw) ==
    [allowed |-> IF raw.allowed = "empty" THEN "unset" ELSE raw.allowed,
     audit |-> raw.audit # "false", input |-> raw.input, output |-> raw.output]

RawConfigs == [allowed: Allowlists, audit: {"unset", "true", "false"}, input: Rules, output: Rules]

ProxyInit(raws) ==
    /\ \E raw \in [Upstreams -> raws] : proxyConf = [u \in Upstreams |-> Loaded(raw[u])]
    /\ upstream = [u \in Upstreams |-> [available |-> FALSE, tools |-> {}]]
    /\ proxyPhase = "dialling"
    /\ call = [c \in Callers |-> NoCall] /\ advertised = {}

(* NewMCPUpstream for every upstream, then NewRouter and Start.  An        *)
(* upstream that cannot be reached, or does not list its tools, stays      *)
(* unavailable, without tools, for the life of the process.                *)
Dial(tools) ==
    /\ proxyPhase = "dialling" /\ proxyPhase' = "serving"
    /\ upstream' = [u \in Upstreams |-> [available |-> tools[u] # {}, tools |-> tools[u]]]
    /\ UNCHANGED <<proxyConf, call, advertised>>

(* matchesAny: a malformed glob matches nothing.                           *)
MatchesAny(u, t) == proxyConf[u].allowed = "globs" /\ t \in Matched

(* List, and what Route accepts: the tools the upstream listed that a glob *)
(* of its allowlist matches.                                               *)
Exposed(u) == {t \in upstream[u].tools : MatchesAny(u, t)}

(* tools/list.                                                             *)
ToolsList ==
    /\ proxyPhase = "serving"
    /\ advertised' = advertised \cup {p \in Upstreams \X ToolNames : p[2] \in Exposed(p[1])}
    /\ UNCHANGED <<proxyConf, upstream, proxyPhase, call>>

CallGoes(c, rec) == call' = [call EXCEPT ![c] = rec]

(* LogIfEnabled.                                                           *)
Audits(rec, enabled) == [rec EXCEPT !.lines = @ + (IF enabled THEN 1 ELSE 0)]

Answers(rec, answer) == [rec EXCEPT !.pc = "answered", !.answer = answer]

(* handleToolsCall, up to Route: a refusal is audited whatever the         *)
(* configuration says.                                                     *)
ToolsCall(c, u, t) ==
    /\ proxyPhase = "serving" /\ call[c].pc = "none"
    /\ LET rec == [NoCall EXCEPT !.up = u, !.tool = t]
       IN CallGoes(c, IF t \in Exposed(u) THEN [rec EXCEPT !.pc = "routed"]
                  ELSE Answers(Audits(rec, TRUE), "not found"))
    /\ UNCHANGED <<proxyConf, upstream, proxyPhase, advertised>>

(* The availability check and the redaction of the input.  A rule that     *)
(* cannot be applied fails the call, and no line is written for it.        *)
RedactInput(c) ==
    /\ call[c].pc = "routed"
    /\ LET rec == call[c]
           conf == proxyConf[rec.up]
       IN CallGoes(c, IF ~upstream[rec.up].available THEN Answers(Audits(rec, conf.audit), "unavailable")
                  ELSE IF conf.input = "wild" THEN Answers(rec, "redaction failed")
                  ELSE [rec EXCEPT !.pc = "redacted", !.redacted = conf.input = "plain"])
    /\ UNCHANGED <<proxyConf, upstream, proxyPhase, advertised>>

(* CallToolCtx: the availability is read again; the upstream answers or    *)
(* fails the call.                                                         *)
CallUpstream(c, ok) ==
    /\ call[c].pc = "redacted"
    /\ LET rec == [call[c] EXCEPT !.sent = IF call[c].redacted THEN "blanked" ELSE "verbatim"]
           audit == proxyConf[rec.up].audit
       IN CallGoes(c, IF ~upstream[rec.up].available THEN Answers(Audits(call[c], audit), "unavailable")
                  ELSE IF ~ok THEN Answers(Audits(rec, audit), "failed")
                  ELSE [rec EXCEPT !.pc = "returned"])
    /\ UNCHANGED <<proxyConf, upstream, proxyPhase, advertised>>

(* The redaction of the output, and the answer.                            *)
RedactOutput(c) ==
    /\ call[c].pc = "returned"
    /\ LET conf == proxyConf[call[c].up]
       IN CallGoes(c, IF conf.output = "wild" THEN Answers(call[c], "redaction failed")
                  ELSE Answers(Audits(call[c], conf.audit), "result"))
    /\ UNCHANGED <<proxyConf, upstream, proxyPhase, advertised>>

(* SIGTERM: http.Server.Shutdown admits no further request.                *)
Terminate ==
    /\ proxyPhase = "serving" /\ proxyPhase' = "draining"
    /\ UNCHANGED <<proxyConf, upstream, call, advertised>>

InFlight == {c \in Callers : call[c].pc \notin {"none", "answered"}}

(* Mutant of ProxyDrained: the upstreams are closed without waiting.            *)
ProxyDrainedAtOnce == TRUE

(* Shutdown waits for the requests in flight.                              *)
ProxyDrained == InFlight = {}

(* Shutdown, then Close of every upstream.                                 *)
CloseUpstreams ==
    /\ proxyPhase = "draining" /\ ProxyDrained /\ proxyPhase' = "closed"
    /\ upstream' = [u \in Upstreams |-> [upstream[u] EXCEPT !.available = FALSE]]
    /\ UNCHANGED <<proxyConf, call, advertised>>

(* The 30 s of the shutdown are over: the upstreams are not closed, and    *)
(* the process exits with the requests in flight.                          *)
ShutdownTimesOut ==
    /\ proxyPhase = "draining" /\ InFlight # {} /\ proxyPhase' = "stopped"
    /\ call' = [c \in Callers |-> IF c \in InFlight THEN [call[c] EXCEPT !.pc = "cut"] ELSE call[c]]
    /\ UNCHANGED <<proxyConf, upstream, advertised>>

ProxyNext ==
    \/ \E tools \in [Upstreams -> SUBSET ToolNames] : Dial(tools)
    \/ ToolsList \/ Terminate \/ CloseUpstreams \/ ShutdownTimesOut
    \/ \E c \in Callers : \/ \E u \in Upstreams, t \in ToolNames : ToolsCall(c, u, t)
                          \/ RedactInput(c) \/ RedactOutput(c)
                          \/ \E ok \in BOOLEAN : CallUpstream(c, ok)

-----------------------------------------------------------------------------
(* Properties.                                                             *)

(* Shutdown "drains in-flight requests then closes upstream connections":  *)
(* a request that was routed never finds its upstream closed under it, at  *)
(* either of the two places that look.                                     *)
NoCallCutOff == \A c \in Callers : call[c].answer # "unavailable"

(* Route and List "compute the same exposed set": a tool that was ever     *)
(* listed is not refused as unknown afterwards, and only a tool the        *)
(* allowlist matches reaches an upstream, blanked where a rule asks for it. *)
ListedIsRoutable ==
    \A c \in Callers :
        /\ call[c].answer = "not found" => <<call[c].up, call[c].tool>> \notin advertised
        /\ call[c].sent # "none" => /\ MatchesAny(call[c].up, call[c].tool)
                                    /\ proxyConf[call[c].up].input = "plain" => call[c].sent = "blanked"

(* The proxy serves what it lists and finishes what it took on (Route, List,   *)
(* Shutdown).                                                                  *)
CallsServed == NoCallCutOff /\ ListedIsRoutable
=============================================================================
