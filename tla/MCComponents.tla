---------------------------- MODULE MCComponents ----------------------------
(***************************************************************************)
(* Instances of the components that are checked on their own, in one state  *)
(* space: `focus` names the component a behaviour is about, the others keep *)
(* their initial state, so the states add up and do not multiply.           *)
(*                                                                         *)
(* A component's scopes are its scenarios: what may happen, how often.  An  *)
(* action that changes much is bounded more tightly in the scopes that       *)
(* study another one.                                                       *)
(***************************************************************************)
EXTENDS Pi, Watch, Feed, Spawn, Policy, AgentServer, KapeProxy, Adapters, TaskApi

CONSTANTS crA, crB

VARIABLE focus

-----------------------------------------------------------------------------
(* Scopes. *)

PiScope(p, ids, t, u, g, f) ==
  [posts |-> p, ids |-> ids, types |-> t, uptimes |-> u, gens |-> g, faults |-> f]

OneId == {1}

PiScopes ==
  {PiScope(3, OneId, {"prompt"}, {"rapid"}, 3, {"exit"}),
   PiScope(2, OneId, {"prompt"}, {"rapid", "stable"}, 2, {"exit", "launch"}),
   PiScope(2, OneId, {"prompt"}, {"rapid"}, 2, {"exit", "shutdown"}),
   PiScope(3, CommandIds, {"steer", "abort"}, {"between"}, 1, {"exit"}),
   PiScope(2, CommandIds, {"steer", "abort", "clear_queue"}, {"between"}, 2, {"exit"}),
   PiScope(2, OneId, {"prompt"}, {"between"}, 2, {"exit", "pipe", "spool"})}

WatchScope(t, k, r, w, f) ==
  [turns |-> t, ticks |-> k, restarts |-> r, waiters |-> w, faults |-> f]

WatchScopes ==
  {WatchScope(2, 2, 0, {}, {"slm", "fail", "pause"}), WatchScope(2, 1, 1, {}, {}),
   WatchScope(1, 0, 1, {}, {"fail", "pause", "delete"}), WatchScope(1, 2, 0, Waiters, {}),
   WatchScope(1, 1, 0, Waiters, {"fail", "delete"})}

ReadQuery(api, after, limit, last, types, deltas) ==
  [api |-> api, after |-> after, limit |-> limit, last |-> last, types |-> types, deltas |-> deltas]

MCReadRequests ==
  {ReadQuery("rest", 0, 2, Absent, {}, FALSE), ReadQuery("rest", 0, 1, Absent, {"message"}, FALSE),
   ReadQuery("rest", Absent, Absent, 1, {"message"}, FALSE), ReadQuery("rest", 0, Absent, 1, {}, FALSE),
   ReadQuery("mcp", 0, 2, Absent, {}, FALSE), ReadQuery("mcp", 0, 0, Absent, {}, TRUE),
   ReadQuery("rest", Absent, Absent, Absent, {}, FALSE), ReadQuery("rest", Bad, Absent, Absent, {}, FALSE)}

SpawnScope(n, f, r, d, fs) ==
  [agents |-> n, failures |-> f, restarts |-> r, deletes |-> d, faults |-> fs]

SpawnScopes ==
  {SpawnScope(3, 0, 0, 1, {}), SpawnScope(2, 1, 1, 1, {"gateway", "store", "fail"}),
   SpawnScope(2, 0, 1, 2, {}), SpawnScope(3, 0, 1, 0, {})}

MCImages ==
  {{}, {Declares("image1", "h1", NoProvider, "narrow"), Declares("image2", "h1", NoProvider, "none"),
        Declares("image2", "h3", NoProvider, "narrow")},
   {Declares("image1", "h1", "p", "narrow")},
   {Declares("image1", "h1", "q", "narrow"), Declares("image1", "h2", NoProvider, "none")},
   {Declares("image1", "gateway", "p", "narrow")}}

Binds(ep, provider_) == [ep |-> ep, provider |-> provider_]

MCTables ==
  {<<>>, <<Binds("h1", "p")>>, <<Binds("h1", "p"), Binds("h2", "q"), Binds("h1", "q")>>,
   <<Binds("gateway", "p")>>}

SrvScope(cs, e, n, fs, foreign, wired) ==
  [creds |-> cs, edits |-> e, failures |-> n, faults |-> fs, foreign |-> foreign, wired |-> wired]

SrvScopes ==
  {SrvScope({crA}, 2, 0, {}, {}, TRUE),
   SrvScope({crA}, 2, 1, {"unavailable", "lost", "aborted"}, {}, TRUE),
   SrvScope({crA, crB}, 0, 1, {"unavailable"}, {}, TRUE),
   SrvScope({crA}, 1, 1, {"read", "api"}, {}, TRUE),
   SrvScope({crA}, 1, 0, {}, {"Service", "Ingress"}, TRUE),
   SrvScope({crA}, 1, 1, {"unavailable"}, {}, FALSE)}

Item_(kind, name, st) == [kind |-> kind, name |-> name, stage |-> st]

MCBatches ==
  {<<>>, <<Item_("alert", "x", "none"), Item_("unlabelled", "y", "none")>>,
   <<Item_("audit", "a", "received"), Item_("audit", "a", "complete")>>,
   <<Item_("audit", "a", "complete"), Item_("audit", "b", "complete")>>}

TaskQuery(h, st, since, asc, limit) ==
  [handler |-> h, status |-> st, since |-> since, asc |-> asc, limit |-> limit]

MCQueries ==
  {TaskQuery("", "", 0, FALSE, 1), TaskQuery("", "", 0, TRUE, 1), TaskQuery("h1", "", 0, FALSE, 2),
   TaskQuery("", "", 1, FALSE, 0), TaskQuery("", "Completed", 0, TRUE, 2)}

\* Three months, the second shorter than the others.
Calendar == <<0, 2, 3, 5, 7>>
TaskApiScopes == {{"read", "delete"}, {"read", "update"}, {"month"}, {"retry", "delete"}}

-----------------------------------------------------------------------------

Components == {"pi", "watch", "feed", "spawn", "policy", "server", "proxy", "adapters", "tasks"}

\* All scopes of the component in focus, one of any other.
Focused(component, scopes) == IF focus = component THEN scopes ELSE {CHOOSE b \in scopes : TRUE}

Init ==
  /\ focus \in Components
  /\ \E b \in Focused("pi", PiScopes) : PiInit(b)
  /\ \E b \in Focused("watch", WatchScopes) : WatchInit(b)
  /\ \E b \in Focused("spawn", SpawnScopes) : SpawnInit(b)
  /\ FeedInit /\ (focus # "feed" => poller.query = ReadQuery("rest", 0, 2, Absent, {}, FALSE))
  /\ PolicyInit /\ (focus # "policy" => image = {} /\ bindings = <<>> /\ dns /\ gateway.backfilled)
  /\ SrvInit(Focused("server", SrvScopes)) /\ (focus # "server" => \A c \in Creds : secret[c] = "absent")
  /\ ProxyInit(Focused("proxy", RawConfigs))
  /\ AdaptersInit
  /\ TaskApiInit(Focused("tasks", TaskApiScopes)) /\ (focus # "tasks" => clock = 0)

Next ==
  /\ UNCHANGED focus
  /\ IF focus = "pi" THEN PiNext ELSE UNCHANGED piVars
  /\ IF focus = "watch" THEN WatchNext ELSE UNCHANGED watchVars
  /\ IF focus = "feed" THEN FeedNext ELSE UNCHANGED feedVars
  /\ IF focus = "spawn" THEN SpawnNext ELSE UNCHANGED spawnVars
  /\ IF focus = "policy" THEN PolicyNext ELSE UNCHANGED policyVars
  /\ IF focus = "server" THEN SrvNext ELSE UNCHANGED srvVars
  /\ IF focus = "proxy" THEN ProxyNext ELSE UNCHANGED proxyVars
  /\ IF focus = "adapters" THEN AdaptersNext ELSE UNCHANGED adapterVars
  /\ IF focus = "tasks" THEN TaskApiNext ELSE UNCHANGED apiVars

Spec == Init /\ [][Next]_<<focus, piVars, watchVars, feedVars, spawnVars, policyVars,
                          srvVars, proxyVars, adapterVars, apiVars>>

=============================================================================
