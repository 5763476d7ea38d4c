--------------------------------- MODULE Api ---------------------------------
(***************************************************************************)
(* The HTTP surface: what a request is answered, through the layers that   *)
(* main.go puts around the routes, and what it does on the way.  The       *)
(* layers and handlers are functions of the request and of what the stores *)
(* say: the request brings that outcome along (how the stores come to it   *)
(* is InstanceEngine).  The loops of Heartbeat run beside the requests,    *)
(* and the probes report on them.                                          *)
(*                                                                         *)
(* An answer has its code (OK, or an error code), the status, whether it   *)
(* carries Access-Control-Allow-Origin, what it did to the stores, the     *)
(* results counted by sagawise.reports and the level of its access line.   *)
(***************************************************************************)
EXTENDS Heartbeat

CONSTANTS listDefaultLimit, listMaxLimit, Number   \* Number: integers a text may spell

ASSUME ApiAssumption ==
  /\ {listDefaultLimit, listMaxLimit} \subseteq Number \cap (Nat \ {0}) /\ Number \subseteq Int
  /\ listDefaultLimit <= listMaxLimit

VARIABLES authOff,    \* SAGAWISE_AUTH=off
          exchange    \* a request and its answer

Probe == {"/live", "/ready", "/health"}

(* What the handler of each route tells apart in a request, and what the   *)
(* stores will say: a page parameter is absent, malformed or a number.     *)
Found     == {"yes", "no", "error"}
Refusal   == {"TASK_NOT_PUBLISHED", "TASK_ALREADY_PUBLISHED", "TASK_ALREADY_COMPLETED",
              "TASK_ALREADY_FAILED", "INSTANCE_TERMINAL"}
PageText  == {<<"absent", 0>>, <<"malformed", 0>>} \cup ({"number"} \X Number)
StartAsk  == [path : {"/start_instance"}, given : BOOLEAN, found : Found, stored : BOOLEAN]
UpdateAsk == [path : {"/update_instance"}, given : BOOLEAN, retryOK : BOOLEAN,
              action : {"publish", "consume", "other"}, service : BOOLEAN,
              body : {"object", "other", "tooLarge", "broken"}, found : Found,
              targets : BOOLEAN,     \* the report names a task
              script : {"OK", "IDEMPOTENT", "NOT_FOUND", "BAD_SCHEMA", "error", "INSTANCE_TERMINAL"}]
ListAsk   == [path : {"/workflow_instances/list"}, limit : PageText, offset : PageText,
              found : Found]
GetAsk    == [path : {"/workflow_instances/get"}, given : BOOLEAN, idOK : BOOLEAN, found : Found]
ProbeAsk  == [path : Probe, healthy : BOOLEAN]
OtherAsk  == [path : {"/ping", "/workflows/list", "/nowhere"}, found : Found]
Ask       == StartAsk \cup UpdateAsk \cup ListAsk \cup GetAsk \cup ProbeAsk \cup OtherAsk

Header == [method : {"OPTIONS", "other"}, key : {"valid", "wrong", "none"},
           origin : {"listed", "unlisted", "none"}]

-----------------------------------------------------------------------------
(* Handlers.                                                               *)

codeStatus(code) ==
  CASE code \in {"OK", "IDEMPOTENT"} -> 200
    [] code \in {"MISSING_PARAM", "INVALID_PARAM", "INVALID_BODY"} -> 400
    [] code \in {"WORKFLOW_NOT_FOUND", "INSTANCE_NOT_FOUND", "TASK_NOT_FOUND", "NO_ROUTE"} -> 404
    [] code \in Refusal -> 409
    [] code = "PAYLOAD_TOO_LARGE" -> 413
    [] code = "UNAVAILABLE" -> 503
    [] OTHER -> 500

Answer(code, effect, counted) ==
  [code |-> code, status |-> codeStatus(code), cors |-> FALSE, effect |-> effect,
   counted |-> counted, page |-> <<>>, level |-> "none"]

Reply(code, effect) == Answer(code, effect, <<>>)

StartInstance(a) ==
  IF ~a.given THEN Reply("MISSING_PARAM", "none")
  ELSE IF a.found = "no" THEN Reply("WORKFLOW_NOT_FOUND", "read")
  ELSE IF a.found = "error" THEN Reply("INTERNAL", "read")
  ELSE IF a.stored THEN Reply("OK", "written") ELSE Reply("INTERNAL", "unknown")

(* The result is recorded on every exit after the parameter checks.        *)
Report(code, effect) == Answer(code, effect, <<code>>)

(* Mutant: NOT_FOUND is recorded as the script says it.                    *)
OutcomeAsScriptSays(script) ==
  CASE script \in {"OK", "IDEMPOTENT"} -> Report(script, "written")
    [] script = "error"                -> Report("INTERNAL", "unknown")
    [] script = "BAD_SCHEMA"           -> Report("INTERNAL", "read")
    [] script = "NOT_FOUND"            -> Answer("INSTANCE_NOT_FOUND", "read", <<script>>)
    [] OTHER                           -> Report(script, "read")

(* The script's code as an answer.                                         *)
ScriptOutcome(script) ==
  CASE script \in {"OK", "IDEMPOTENT"} -> Report(script, "written")
    [] script = "error"                -> Report("INTERNAL", "unknown")
    [] script = "BAD_SCHEMA"           -> Report("INTERNAL", "read")
    [] script = "NOT_FOUND"            -> Report("INSTANCE_NOT_FOUND", "read")
    [] OTHER                           -> Report(script, "read")

BodyRefused(a) == a.action = "publish" /\ a.body # "object"

(* Mutant: the body is looked at after the transition.                     *)
UpdateInstanceBodyLast(a) ==
  IF ~a.given THEN Reply("MISSING_PARAM", "none")
  ELSE IF ~a.retryOK \/ a.action = "other" THEN Reply("INVALID_PARAM", "none")
  ELSE IF a.action # "publish" /\ ~a.service THEN Reply("MISSING_PARAM", "none")
  ELSE IF a.found # "yes" \/ ~a.targets THEN Report("TASK_NOT_FOUND", "read")
  ELSE IF BodyRefused(a) THEN Report("INVALID_BODY", ScriptOutcome(a.script).effect)
  ELSE ScriptOutcome(a.script)

(* The checks in the order of the handler.                                 *)
UpdateInstance(a) ==
  IF ~a.given THEN Reply("MISSING_PARAM", "none")
  ELSE IF ~a.retryOK \/ a.action = "other" THEN Reply("INVALID_PARAM", "none")
  ELSE IF a.action # "publish" /\ ~a.service THEN Reply("MISSING_PARAM", "none")
  ELSE IF BodyRefused(a) THEN
    Report(IF a.body = "tooLarge" THEN "PAYLOAD_TOO_LARGE" ELSE "INVALID_BODY", "none")
  ELSE IF a.found = "no" THEN Report("INSTANCE_NOT_FOUND", "read")
  ELSE IF a.found = "error" THEN Report("INTERNAL", "read")
  ELSE IF ~a.targets THEN Report("TASK_NOT_FOUND", "read")
  ELSE ScriptOutcome(a.script)

(* -1 stands for the error.                                                *)
pageParam(v, def, max) ==
  IF v[1] = "absent" THEN def
  ELSE IF v[1] = "malformed" \/ v[2] < 0 \/ (max > 0 /\ v[2] > max) THEN -1
  ELSE v[2]

(* Mutant: a limit of zero is passed on to FT.SEARCH.                      *)
LimitAsGiven(v) == pageParam(v, listDefaultLimit, listMaxLimit)

Limit(v) ==
  LET n == pageParam(v, listDefaultLimit, listMaxLimit)
  IN IF n = 0 THEN listDefaultLimit ELSE n

ListWorkflowInstances(a) ==
  LET limit == Limit(a.limit)
      offset == pageParam(a.offset, 0, 0)
  IN IF limit = -1 \/ offset = -1 THEN Reply("INVALID_PARAM", "none")
     ELSE IF a.found = "error" THEN Reply("INTERNAL", "read")
     ELSE [Reply("OK", "read") EXCEPT !.page = <<offset, limit>>]

(* A key outside workflow_instance:* cannot be named.                      *)
GetWorkflowInstance(a) ==
  IF ~a.given THEN Reply("MISSING_PARAM", "none")
  ELSE IF ~a.idOK THEN Reply("INVALID_PARAM", "none")
  ELSE Reply(CASE a.found = "yes" -> "OK" [] a.found = "no" -> "INSTANCE_NOT_FOUND"
               [] OTHER -> "INTERNAL", "read")

ListWorkflows(a) == Reply(IF a.found = "error" THEN "INTERNAL" ELSE "OK", "read")

writeHealth(healthy) == Reply(IF healthy THEN "OK" ELSE "UNAVAILABLE", "none")

Route(a) ==
  CASE a.path = "/start_instance"           -> StartInstance(a)
    [] a.path = "/update_instance"          -> UpdateInstance(a)
    [] a.path = "/workflows/list"           -> ListWorkflows(a)
    [] a.path = "/workflow_instances/list"  -> ListWorkflowInstances(a)
    [] a.path = "/workflow_instances/get"   -> GetWorkflowInstance(a)
    [] a.path = "/ping"                     -> Reply("OK", "none")
    [] a.path \in Probe                     -> writeHealth(a.healthy)
    [] OTHER                                -> Reply("NO_ROUTE", "none")

-----------------------------------------------------------------------------
(* Layers, innermost first.  MaxBody only makes the reading of a body that *)
(* is too large fail, which UpdateInstance sees as "tooLarge".             *)

Unauthorized == [Reply("UNAUTHORIZED", "none") EXCEPT !.status = 401]

(* Mutant: any bearer token will do.                                       *)
APIKeysAnyToken(h, a) ==
  IF authOff \/ a.path \in Probe \/ h.key # "none" THEN Route(a) ELSE Unauthorized

APIKeys(h, a) ==
  IF authOff \/ a.path \in Probe \/ h.key = "valid" THEN Route(a) ELSE Unauthorized

Preflight(allowed) ==
  [Reply("OK", "none") EXCEPT !.status = IF allowed THEN 204 ELSE 403,
                              !.cors = allowed]

(* Mutant: authentication in front of CORS.                                *)
CORSInside(h, a) ==
  IF ~authOff /\ a.path \notin Probe /\ h.key # "valid" THEN Unauthorized
  ELSE IF h.origin # "none" /\ h.method = "OPTIONS" THEN Preflight(h.origin = "listed")
  ELSE [Route(a) EXCEPT !.cors = (h.origin = "listed")]

CORS(h, a) ==
  IF h.origin # "none" /\ h.method = "OPTIONS" THEN Preflight(h.origin = "listed")
  ELSE [APIKeys(h, a) EXCEPT !.cors = (h.origin = "listed")]

Level(status, path) ==
  CASE status >= 500 -> "error"
    [] status \in 400 .. 499 -> "warn"
    [] status < 400 -> IF path \in Probe THEN "debug" ELSE "info"

Respond(h, a) ==
  LET answer == CORS(h, a)
  IN [answer EXCEPT !.level = Level(answer.status, a.path)]

None == [path |-> "none"]

ApiInit == Init /\ authOff \in BOOLEAN /\ exchange = None

(* A request comes in and is answered.  What it makes of the loops (a      *)
(* probe) it reads at once.                                                *)
Serve(h, a) ==
  /\ exchange = None
  /\ exchange' = [path |-> a.path, header |-> h, ask |-> a, answer |-> Respond(h, a)]
  /\ UNCHANGED <<vars, authOff>>

Served ==
  /\ exchange # None
  /\ exchange' = None
  /\ UNCHANGED <<vars, authOff>>

LoopsGoOn == Next /\ UNCHANGED <<authOff, exchange>>

ApiNext == LoopsGoOn \/ Served \/ \E h \in Header, a \in Ask : Serve(h, a)

ApiSpec == ApiInit /\ [][ApiNext]_<<vars, authOff, exchange>>

-----------------------------------------------------------------------------
(* (main.go:142) Without a valid key nothing but the probes is reached,    *)
(* whatever the origin, the method or the parameters; a key makes no       *)
(* difference to a probe or a preflight.                                   *)
GuardedByKey ==
  exchange # None =>
    LET h == exchange.header  x == exchange.answer
    IN IF exchange.path \in Probe \/ (h.method = "OPTIONS" /\ h.origin # "none")
       THEN x = Respond([h EXCEPT !.key = "none"], exchange.ask)
       ELSE h.key # "valid" /\ ~authOff =>
              x.status = 401 /\ x.effect = "none" /\ x.counted = <<>>

(* (main.go:139, "so a refused preflight and a 401 both carry the right    *)
(* headers") Every answer to a listed origin, refusals of every layer      *)
(* included, can be read by the browser, no other can; and beyond that     *)
(* header and preflights the origin changes nothing.                       *)
CorsOnEveryAnswer ==
  exchange # None =>
    LET h == exchange.header  x == exchange.answer
    IN /\ x.cors <=> h.origin = "listed"
       /\ h.method # "OPTIONS" =>
            x = [Respond([h EXCEPT !.origin = "none"], exchange.ask) EXCEPT !.cors = x.cors]

(* (docs/api.md:75) A refused request has changed nothing; what has        *)
(* changed something is answered 200; only a 500 leaves it open.           *)
RefusedUnchanged ==
  exchange # None =>
    LET x == exchange.answer
    IN /\ x.status \in 400 .. 499 => x.effect \in {"none", "read"}
       /\ x.effect = "written" => x.status = 200
       /\ x.effect = "unknown" => x.status = 500

(* (instance_engine.go:263, "recorded once, whichever exit the handler     *)
(* takes") A report whose parameters are in order is counted once, under   *)
(* the code it is answered with, and every refusal has a warning or an     *)
(* error in the access log.                                                *)
RecordedAsAnswered ==
  exchange # None =>
    LET x == exchange.answer
        report == exchange.path = "/update_instance" /\ x.status \notin {204, 401, 403}
    IN /\ x.counted = IF report /\ x.code \notin {"MISSING_PARAM", "INVALID_PARAM"}
                      THEN <<x.code>> ELSE <<>>
       /\ x.status >= 400 <=> x.level \in {"warn", "error"}

(* (instance_engine.go:650) A page that is returned has between one and    *)
(* listMaxLimit places, the number asked for if one was, from the offset   *)
(* asked for; a page is refused only for a number that is no page.         *)
PageAsAsked ==
  exchange.path = "/workflow_instances/list" =>
    LET limit == exchange.ask.limit  offset == exchange.ask.offset
        x == exchange.answer
        asked(v) == v[1] = "number" /\ v[2] # 0
    IN /\ x.code = "INVALID_PARAM" =>
            \/ "malformed" \in {limit[1], offset[1]}
            \/ offset[2] < 0 \/ limit[2] \notin 0 .. listMaxLimit
       /\ x.page # <<>> =>
            /\ x.page[1] = IF asked(offset) THEN offset[2] ELSE 0
            /\ x.page[2] = IF asked(limit) THEN limit[2] ELSE listDefaultLimit
            /\ x.page[1] \in Nat /\ x.page[2] \in 1 .. listMaxLimit

(* (health.go:54, :73) What the orchestrator, which has no key, is told    *)
(* while the loops run: /live does not depend on the stores and fails only *)
(* if a loop is stuck or has not started; /ready fails, beyond that, only  *)
(* without Redis, never because of Postgres.                               *)
ProbesTellLoopsFromStores ==
  \A redisUp, postgresUp \in BOOLEAN :
    LET kubelet == [method |-> "other", key |-> "none", origin |-> "none"]
        probe(path, status) ==
          Respond(kubelet, [path |-> path, healthy |-> Healthy(status)]).status
        live  == probe("/live", Liveness)
        ready == probe("/ready", Readiness(redisUp, postgresUp))
    IN /\ (\A l \in Loop : ~hung[l] /\ at[l] # "starting") =>
            live = 200 /\ (ready = 200 <=> redisUp)
       /\ ready = 200 => live = 200
=============================================================================
