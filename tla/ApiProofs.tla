------------------------------ MODULE ApiProofs ------------------------------
(***************************************************************************)
(* The answers to every request of every caller, for any limits and        *)
(* numbers, and the probes for any loops.  The invariant on the exchange   *)
(* is that it is an answer of Respond; what an answer is like is proved of *)
(* the handlers one by one, then of each layer around them.                *)
(***************************************************************************)
EXTENDS Api, HeartbeatProofs

Code ==
  {"OK", "IDEMPOTENT", "MISSING_PARAM", "INVALID_PARAM", "INVALID_BODY", "WORKFLOW_NOT_FOUND",
   "INSTANCE_NOT_FOUND", "TASK_NOT_FOUND", "NO_ROUTE", "PAYLOAD_TOO_LARGE", "UNAVAILABLE",
   "INTERNAL", "UNAUTHORIZED"} \cup Refusal

StatusCode == {200, 204, 400, 401, 403, 404, 409, 413, 500, 503}

AnswerSet ==
  [code : Code, status : StatusCode, cors : BOOLEAN,
   effect : {"none", "read", "written", "unknown"},
   counted : {<<>>} \cup {<<c>> : c \in Code}, page : {<<>>} \cup (Int \X Int),
   level : {"none", "error", "warn", "info", "debug"}]

(* What every handler does right, before the layers have seen its answer.  *)
Honest(x, path) ==
  /\ x.code # "UNAUTHORIZED" /\ x.status = codeStatus(x.code)
  /\ x.effect = "written" => x.code \in {"OK", "IDEMPOTENT"}
  /\ x.effect = "unknown" => x.code = "INTERNAL"
  /\ x.counted = IF path = "/update_instance" /\ x.code \notin {"MISSING_PARAM", "INVALID_PARAM"}
                 THEN <<x.code>> ELSE <<>>

(* The exchange is a request and the answer to it.                         *)
Answered ==
  exchange # None =>
    \E h \in Header, a \in Ask :
      exchange = [path |-> a.path, header |-> h, ask |-> a, answer |-> Respond(h, a)]

-----------------------------------------------------------------------------
(* codeStatus of the codes that handlers use.                              *)
LEMMA CodeStatus ==
  /\ \A c \in Code : codeStatus(c) \in {200, 400, 404, 409, 413, 500, 503}
  /\ \A c \in {"OK", "IDEMPOTENT"} : codeStatus(c) = 200
  /\ codeStatus("INTERNAL") = 500
  /\ codeStatus("UNAVAILABLE") = 503
BY DEF Code, Refusal, codeStatus

(* An answer made by Answer is one.                                        *)
LEMMA AnswerTyped ==
  ASSUME NEW c \in Code, NEW e \in {"none", "read", "written", "unknown"},
         NEW n \in {<<>>, <<c>>}
  PROVE  /\ Answer(c, e, n) \in AnswerSet
         /\ Answer(c, e, n).code = c /\ Answer(c, e, n).status = codeStatus(c)
         /\ Answer(c, e, n).effect = e /\ Answer(c, e, n).counted = n
         /\ Answer(c, e, n).page = <<>> /\ Answer(c, e, n).cors = FALSE
<1>1. codeStatus(c) \in StatusCode
  BY CodeStatus DEF StatusCode
<1> QED BY <1>1 DEF Answer, AnswerSet

(* An answer that is counted under its own code, of the update route.      *)
LEMMA ReportHonest ==
  ASSUME NEW c \in Code \ {"UNAUTHORIZED", "MISSING_PARAM", "INVALID_PARAM"},
         NEW e \in {"none", "read", "written", "unknown"},
         e = "written" => c \in {"OK", "IDEMPOTENT"}, e = "unknown" => c = "INTERNAL"
  PROVE  /\ Report(c, e) \in AnswerSet /\ Honest(Report(c, e), "/update_instance")
         /\ Report(c, e).page = <<>>
<1> DEFINE x == Report(c, e)
<1>1. /\ x \in AnswerSet /\ x.code = c /\ x.status = codeStatus(c) /\ x.effect = e
      /\ x.counted = <<c>> /\ x.page = <<>>
  <2>1. <<c>> \in {<<>>, <<c>>}
    OBVIOUS
  <2> QED BY <2>1, AnswerTyped DEF Report
<1> HIDE DEF x
<1>2. Honest(x, "/update_instance")
  BY <1>1 DEF Honest
<1> QED BY <1>1, <1>2 DEF x

(* An answer that is not counted: of another route, or of a report that is *)
(* refused for its parameters.                                             *)
LEMMA ReplyHonest ==
  ASSUME NEW c \in Code \ {"UNAUTHORIZED"}, NEW e \in {"none", "read", "written", "unknown"},
         e = "written" => c \in {"OK", "IDEMPOTENT"}, e = "unknown" => c = "INTERNAL",
         NEW path, path = "/update_instance" => c \in {"MISSING_PARAM", "INVALID_PARAM"}
  PROVE  /\ Reply(c, e) \in AnswerSet /\ Honest(Reply(c, e), path)
         /\ Reply(c, e).page = <<>> /\ Reply(c, e).code = c
<1> DEFINE x == Reply(c, e)
<1>1. /\ x \in AnswerSet /\ x.code = c /\ x.status = codeStatus(c) /\ x.effect = e
      /\ x.counted = <<>> /\ x.page = <<>>
  BY AnswerTyped DEF Reply
<1> HIDE DEF x
<1>2. Honest(x, path)
  BY <1>1 DEF Honest
<1> QED BY <1>1, <1>2 DEF x

(* POST /start_instance.                                                   *)
LEMMA StartHonest ==
  ASSUME NEW a \in StartAsk
  PROVE  StartInstance(a) \in AnswerSet /\ Honest(StartInstance(a), a.path)
<1>1. a.path = "/start_instance"
  BY DEF StartAsk
<1> QED BY <1>1, ReplyHonest DEF StartInstance, Code

(* POST /update_instance: the checks, then the script's code.              *)
LEMMA UpdateHonest ==
  ASSUME NEW a \in UpdateAsk
  PROVE  UpdateInstance(a) \in AnswerSet /\ Honest(UpdateInstance(a), a.path)
<1>1. a.path = "/update_instance"
  BY DEF UpdateAsk
<1>2. ScriptOutcome(a.script) \in AnswerSet /\ Honest(ScriptOutcome(a.script), a.path)
  <2>1. a.script \in {"OK", "IDEMPOTENT", "NOT_FOUND", "BAD_SCHEMA", "error", "INSTANCE_TERMINAL"}
    BY DEF UpdateAsk
  <2> QED BY <1>1, <2>1, ReportHonest DEF ScriptOutcome, Code, Refusal
<1>3. ASSUME NEW c \in {"MISSING_PARAM", "INVALID_PARAM"}
      PROVE  Reply(c, "none") \in AnswerSet /\ Honest(Reply(c, "none"), a.path)
  BY <1>1, ReplyHonest DEF Code
<1>4. ASSUME NEW c \in {"PAYLOAD_TOO_LARGE", "INVALID_BODY", "INSTANCE_NOT_FOUND", "INTERNAL",
                        "TASK_NOT_FOUND"},
             NEW e \in {"none", "read"}
      PROVE  Report(c, e) \in AnswerSet /\ Honest(Report(c, e), a.path)
  BY <1>1, ReportHonest DEF Code
<1> QED BY <1>2, <1>3, <1>4 DEF UpdateInstance

(* GET /workflow_instances/list.                                           *)
LEMMA ListHonest ==
  ASSUME NEW a \in ListAsk
  PROVE  /\ ListWorkflowInstances(a) \in AnswerSet
         /\ Honest(ListWorkflowInstances(a), a.path)
<1>1. a.path = "/workflow_instances/list"
  BY DEF ListAsk
<1>2. Limit(a.limit) \in Int /\ pageParam(a.offset, 0, 0) \in Int
  <2>1. ASSUME NEW v \in PageText PROVE v[2] \in Int
    <3>1. CASE v \in {"number"} \X Number
      BY <3>1, ApiAssumption
    <3>2. CASE v \in {<<"absent", 0>>, <<"malformed", 0>>}
      BY <3>2
    <3> QED BY <3>1, <3>2 DEF PageText
  <2>2. \A v \in PageText, d, m \in Int : pageParam(v, d, m) \in Int
    BY <2>1 DEF pageParam
  <2>3. {0, listDefaultLimit, listMaxLimit} \subseteq Int
    BY ApiAssumption
  <2>4. a.limit \in PageText /\ a.offset \in PageText
    BY DEF ListAsk
  <2> QED BY <2>2, <2>3, <2>4 DEF Limit
<1>3. ASSUME NEW c \in {"INVALID_PARAM", "INTERNAL", "OK"}, NEW e \in {"none", "read"}
      PROVE  Reply(c, e) \in AnswerSet /\ Honest(Reply(c, e), a.path)
  BY <1>1, ReplyHonest DEF Code
<1>4. ASSUME NEW n \in Int \X Int
      PROVE  LET x == [Reply("OK", "read") EXCEPT !.page = n]
             IN  x \in AnswerSet /\ Honest(x, a.path)
  BY <1>3 DEF AnswerSet, Honest
<1> QED BY <1>2, <1>3, <1>4 DEF ListWorkflowInstances

(* GET /workflow_instances/get.                                            *)
LEMMA GetHonest ==
  ASSUME NEW a \in GetAsk
  PROVE  GetWorkflowInstance(a) \in AnswerSet /\ Honest(GetWorkflowInstance(a), a.path)
<1>1. a.path = "/workflow_instances/get"
  BY DEF GetAsk
<1> QED BY <1>1, ReplyHonest DEF GetWorkflowInstance, Code

(* The routes: every request has an honest answer.                         *)
LEMMA RouteHonest ==
  ASSUME NEW a \in Ask PROVE Route(a) \in AnswerSet /\ Honest(Route(a), a.path)
<1>1. CASE a \in StartAsk
  <2>1. a.path = "/start_instance"  BY <1>1 DEF StartAsk
  <2>2. Route(a) = StartInstance(a)  BY <2>1 DEF Route, Probe
  <2> QED BY <1>1, <2>2, StartHonest
<1>2. CASE a \in UpdateAsk
  <2>1. a.path = "/update_instance"  BY <1>2 DEF UpdateAsk
  <2>2. Route(a) = UpdateInstance(a)  BY <2>1 DEF Route, Probe
  <2> QED BY <1>2, <2>2, UpdateHonest
<1>3. CASE a \in ListAsk
  <2>1. a.path = "/workflow_instances/list"  BY <1>3 DEF ListAsk
  <2>2. Route(a) = ListWorkflowInstances(a)  BY <2>1 DEF Route, Probe
  <2> QED BY <1>3, <2>2, ListHonest
<1>4. CASE a \in GetAsk
  <2>1. a.path = "/workflow_instances/get"  BY <1>4 DEF GetAsk
  <2>2. Route(a) = GetWorkflowInstance(a)  BY <2>1 DEF Route, Probe
  <2> QED BY <1>4, <2>2, GetHonest
<1>5. CASE a \in ProbeAsk
  <2>1. a.path \in Probe  BY <1>5 DEF ProbeAsk
  <2>2. Route(a) = writeHealth(a.healthy)  BY <2>1 DEF Route, Probe
  <2> QED BY <2>1, <2>2, ReplyHonest DEF writeHealth, Probe, Code
<1>6. CASE a \in OtherAsk
  <2>1. a.path \in {"/ping", "/workflows/list", "/nowhere"}  BY <1>6 DEF OtherAsk
  <2>2. Route(a) \in {Reply("OK", "none"), ListWorkflows(a), Reply("NO_ROUTE", "none")}
    BY <2>1 DEF Route, Probe
  <2> QED BY <2>1, <2>2, ReplyHonest DEF ListWorkflows, Code
<1> QED BY <1>1, <1>2, <1>3, <1>4, <1>5, <1>6 DEF Ask

-----------------------------------------------------------------------------
(* What the layers make of an answer: the innermost that answers decides,  *)
(* then CORS and the access line add to it.                                *)
IsPreflight(h) == h.origin # "none" /\ h.method = "OPTIONS"

Inner(h, a) == IF IsPreflight(h) THEN Preflight(h.origin = "listed") ELSE APIKeys(h, a)

Dress(y, c, path) == [y EXCEPT !.cors = c, !.level = Level(y.status, path)]

(* Level is defined for every status.                                      *)
LEMMA LevelOf ==
  ASSUME NEW s \in StatusCode, NEW path
  PROVE  /\ Level(s, path) \in {"error", "warn", "info", "debug"}
         /\ s >= 400 <=> Level(s, path) \in {"warn", "error"}
BY DEF StatusCode, Level

(* The outer layers change the header and the level and nothing else.      *)
LEMMA Dressed ==
  ASSUME NEW y \in AnswerSet, NEW c \in BOOLEAN, NEW path
  PROVE  LET x == Dress(y, c, path)
         IN  /\ x \in AnswerSet /\ x.cors = c /\ x.level = Level(y.status, path)
             /\ x.code = y.code /\ x.status = y.status /\ x.effect = y.effect
             /\ x.counted = y.counted /\ x.page = y.page
<1>1. Level(y.status, path) \in {"error", "warn", "info", "debug"}
  BY LevelOf DEF AnswerSet
<1> QED BY <1>1 DEF Dress, AnswerSet

(* The answers of the layers themselves.                                   *)
LEMMA LayerAnswers ==
  /\ Unauthorized \in AnswerSet
  /\ Unauthorized.code = "UNAUTHORIZED" /\ Unauthorized.status = 401
  /\ Unauthorized.effect = "none" /\ Unauthorized.counted = <<>> /\ Unauthorized.page = <<>>
  /\ \A ok \in BOOLEAN :
       /\ Preflight(ok) \in AnswerSet /\ Preflight(ok).cors = ok
       /\ Preflight(ok).code = "OK" /\ Preflight(ok).status = IF ok THEN 204 ELSE 403
       /\ Preflight(ok).effect = "none" /\ Preflight(ok).counted = <<>>
       /\ Preflight(ok).page = <<>>
<1>1. ASSUME NEW y \in AnswerSet, NEW s \in StatusCode
      PROVE  LET x == [y EXCEPT !.status = s]
             IN  /\ x \in AnswerSet /\ x.code = y.code /\ x.status = s /\ x.effect = y.effect
                 /\ x.counted = y.counted /\ x.page = y.page
  BY DEF AnswerSet
<1>2. ASSUME NEW c \in {"OK", "UNAUTHORIZED"}
      PROVE  LET x == Reply(c, "none")
             IN  /\ x \in AnswerSet /\ x.code = c /\ x.effect = "none"
                 /\ x.counted = <<>> /\ x.page = <<>>
  BY AnswerTyped DEF Reply, Code
<1>3. 401 \in StatusCode /\ \A ok \in BOOLEAN : (IF ok THEN 204 ELSE 403) \in StatusCode
  BY DEF StatusCode
<1>4. /\ Unauthorized \in AnswerSet
      /\ Unauthorized.code = "UNAUTHORIZED" /\ Unauthorized.status = 401
      /\ Unauthorized.effect = "none" /\ Unauthorized.counted = <<>> /\ Unauthorized.page = <<>>
  <2> DEFINE y == Reply("UNAUTHORIZED", "none")
  <2>1. /\ y \in AnswerSet /\ y.code = "UNAUTHORIZED" /\ y.effect = "none"
        /\ y.counted = <<>> /\ y.page = <<>>
    BY <1>2
  <2>2. Unauthorized = [y EXCEPT !.status = 401]
    BY DEF Unauthorized
  <2> HIDE DEF y
  <2> QED BY <1>1, <1>3, <2>1, <2>2
<1>5. ASSUME NEW ok \in BOOLEAN
      PROVE  /\ Preflight(ok) \in AnswerSet /\ Preflight(ok).cors = ok
             /\ Preflight(ok).code = "OK" /\ Preflight(ok).status = IF ok THEN 204 ELSE 403
             /\ Preflight(ok).effect = "none" /\ Preflight(ok).counted = <<>>
             /\ Preflight(ok).page = <<>>
  <2> DEFINE y == Reply("OK", "none")
             s == IF ok THEN 204 ELSE 403
  <2>1. /\ y \in AnswerSet /\ y.code = "OK" /\ y.effect = "none"
        /\ y.counted = <<>> /\ y.page = <<>>
    BY <1>2
  <2>2. Preflight(ok) = [y EXCEPT !.status = s, !.cors = ok] /\ s \in StatusCode
    BY <1>3 DEF Preflight
  <2> HIDE DEF y, s
  <2>3. LET x == [y EXCEPT !.status = s, !.cors = ok]
        IN  /\ x \in AnswerSet /\ x.code = y.code /\ x.status = s /\ x.cors = ok
            /\ x.effect = y.effect /\ x.counted = y.counted /\ x.page = y.page
    BY <2>1, <2>2 DEF AnswerSet
  <2> QED BY <2>1, <2>2, <2>3 DEF s
<1> QED BY <1>4, <1>5

(* What answers is an answer.                                              *)
LEMMA InnerTyped ==
  ASSUME NEW h \in Header, NEW a \in Ask PROVE Inner(h, a) \in AnswerSet
BY RouteHonest, LayerAnswers DEF Inner, APIKeys

(* Respond as the answer of the layer that decides, dressed by the others. *)
LEMMA RespondIs ==
  ASSUME NEW h \in Header, NEW a \in Ask
  PROVE  Respond(h, a) = Dress(Inner(h, a), h.origin = "listed", a.path)
<1>1. CASE IsPreflight(h)
  <2>1. CORS(h, a) = Preflight(h.origin = "listed") /\ Inner(h, a) = CORS(h, a)
    BY <1>1 DEF IsPreflight, CORS, Inner
  <2>2. CORS(h, a) \in AnswerSet /\ CORS(h, a).cors = (h.origin = "listed")
    BY <2>1, LayerAnswers
  <2> QED BY <2>1, <2>2 DEF Respond, Dress, AnswerSet
<1>2. CASE ~IsPreflight(h)
  <2>1. /\ CORS(h, a) = [Inner(h, a) EXCEPT !.cors = (h.origin = "listed")]
    BY <1>2 DEF IsPreflight, CORS, Inner
  <2> QED BY <2>1, InnerTyped DEF Respond, Dress, AnswerSet
<1> QED BY <1>1, <1>2

(* The exchange stays an answer of Respond: only Serve makes one.          *)
LEMMA AnsweredKept ==
  ASSUME Answered, [ApiNext]_<<vars, authOff, exchange>> PROVE Answered'
<1>1. authOff' = authOff
  BY DEF ApiNext, LoopsGoOn, Served, Serve
<1>2. \A h \in Header, a \in Ask : Respond(h, a)' = Respond(h, a)
  BY <1>1 DEF Respond, CORS, APIKeys, Route
<1>3. CASE exchange' = exchange
  BY <1>2, <1>3 DEF Answered
<1>4. CASE Served
  BY <1>4 DEF Served, Answered
<1>5. ASSUME NEW h \in Header, NEW a \in Ask, Serve(h, a) PROVE Answered'
  BY <1>2, <1>5 DEF Serve, Answered
<1> QED BY <1>3, <1>4, <1>5 DEF ApiNext, LoopsGoOn

-----------------------------------------------------------------------------
(* Answer x is answer y as CORS and the access log leave it.               *)
IsDressed(x, y, h, a) ==
  /\ x = Dress(y, h.origin = "listed", a.path)
  /\ x.cors <=> h.origin = "listed"
  /\ x.code = y.code /\ x.status = y.status /\ x.effect = y.effect
  /\ x.counted = y.counted /\ x.page = y.page /\ x.level = Level(y.status, a.path)

(* The answer of an exchange, seen from the layer that gave it.            *)
LEMMA ExchangeIs ==
  ASSUME Answered, exchange # None
  PROVE  \E h \in Header, a \in Ask :
           /\ exchange.path = a.path /\ exchange.header = h /\ exchange.ask = a
           /\ IsDressed(exchange.answer, Inner(h, a), h, a)
<1>1. PICK h \in Header, a \in Ask :
        exchange = [path |-> a.path, header |-> h, ask |-> a, answer |-> Respond(h, a)]
  BY DEF Answered
<1> DEFINE c == h.origin = "listed"
<1>2. c \in BOOLEAN /\ Inner(h, a) \in AnswerSet
  BY InnerTyped
<1>3. exchange.answer = Dress(Inner(h, a), c, a.path)
  BY <1>1, RespondIs
<1> HIDE DEF c
<1>4. LET x == Dress(Inner(h, a), c, a.path)
      IN  /\ x.cors = c /\ x.level = Level(Inner(h, a).status, a.path)
          /\ x.code = Inner(h, a).code /\ x.status = Inner(h, a).status
          /\ x.effect = Inner(h, a).effect
          /\ x.counted = Inner(h, a).counted /\ x.page = Inner(h, a).page
  BY <1>2, Dressed
<1>5. IsDressed(exchange.answer, Inner(h, a), h, a)
  BY <1>3, <1>4 DEF IsDressed, c
<1> QED BY <1>1, <1>5

(* GuardedByKey follows.                                                   *)
LEMMA AnsweredGuarded == ASSUME Answered PROVE GuardedByKey
<1> SUFFICES ASSUME exchange # None PROVE GuardedByKey
  BY DEF GuardedByKey
<1>1. PICK h \in Header, a \in Ask :
        /\ exchange.path = a.path /\ exchange.header = h /\ exchange.ask = a
        /\ IsDressed(exchange.answer, Inner(h, a), h, a)
  BY ExchangeIs
<1> DEFINE k == [h EXCEPT !.key = "none"]
<1>2. k \in Header /\ k.origin = h.origin /\ k.method = h.method /\ k.key = "none"
  BY DEF Header
<1> HIDE DEF k
<1>3. Respond(k, a) = Dress(Inner(k, a), h.origin = "listed", a.path)
  BY <1>2, RespondIs
<1>4. ASSUME a.path \in Probe \/ IsPreflight(h)
      PROVE  exchange.answer = Respond(k, a)
  <2>1. Inner(k, a) = Inner(h, a)
    BY <1>2, <1>4 DEF Inner, IsPreflight, APIKeys
  <2> QED BY <1>1, <1>3, <2>1 DEF IsDressed
<1>5. ASSUME a.path \notin Probe, ~IsPreflight(h), h.key # "valid", ~authOff
      PROVE  /\ exchange.answer.status = 401 /\ exchange.answer.effect = "none"
             /\ exchange.answer.counted = <<>>
  <2>1. Inner(h, a) = Unauthorized
    BY <1>5 DEF Inner, APIKeys
  <2> QED BY <1>1, <2>1, LayerAnswers DEF IsDressed
<1> QED BY <1>1, <1>4, <1>5 DEF GuardedByKey, IsPreflight, k

(* CorsOnEveryAnswer follows.                                              *)
LEMMA AnsweredCors == ASSUME Answered PROVE CorsOnEveryAnswer
<1> SUFFICES ASSUME exchange # None PROVE CorsOnEveryAnswer
  BY DEF CorsOnEveryAnswer
<1>1. PICK h \in Header, a \in Ask :
        /\ exchange.path = a.path /\ exchange.header = h /\ exchange.ask = a
        /\ IsDressed(exchange.answer, Inner(h, a), h, a)
  BY ExchangeIs
<1> DEFINE x == exchange.answer
           o == [h EXCEPT !.origin = "none"]
<1>2. x.cors <=> h.origin = "listed"
  BY <1>1 DEF IsDressed
<1>3. ASSUME h.method # "OPTIONS"
      PROVE  x = [Respond(o, a) EXCEPT !.cors = x.cors]
  <2>1. o \in Header /\ o.origin = "none" /\ o.method = h.method /\ o.key = h.key
    BY DEF Header
  <2> HIDE DEF o
  <2>2. Inner(o, a) = Inner(h, a)
    BY <1>3, <2>1 DEF Inner, IsPreflight, APIKeys
  <2>3. Respond(o, a) = Dress(Inner(h, a), FALSE, a.path)
    BY <2>1, <2>2, RespondIs
  <2>4. x.cors = (h.origin = "listed")
    <3> DEFINE c == h.origin = "listed"
    <3>1. x = Dress(Inner(h, a), c, a.path)
      BY <1>1 DEF IsDressed
    <3>2. c \in BOOLEAN /\ Inner(h, a) \in AnswerSet
      BY InnerTyped
    <3> HIDE DEF c, x
    <3>3. x.cors = c
      BY <3>1, <3>2, Dressed
    <3> QED BY <3>3 DEF c
  <2>5. [Dress(Inner(h, a), FALSE, a.path) EXCEPT !.cors = x.cors]
          = Dress(Inner(h, a), h.origin = "listed", a.path)
    BY <2>4, InnerTyped DEF Dress, AnswerSet
  <2> QED BY <1>1, <2>3, <2>5 DEF IsDressed
<1> QED BY <1>1, <1>2, <1>3 DEF CorsOnEveryAnswer

(* What the layers leave of honesty.                                       *)
LEMMA InnerHonest ==
  ASSUME NEW h \in Header, NEW a \in Ask
  PROVE  \/ Honest(Inner(h, a), a.path)
         \/ /\ Inner(h, a).status \in {204, 401, 403}
            /\ Inner(h, a).effect = "none" /\ Inner(h, a).counted = <<>>
            /\ Inner(h, a).page = <<>> /\ Inner(h, a).code \in {"OK", "UNAUTHORIZED"}
BY RouteHonest, LayerAnswers DEF Inner, APIKeys

(* RefusedUnchanged follows.                                               *)
LEMMA AnsweredUnchanged == ASSUME Answered PROVE RefusedUnchanged
<1> SUFFICES ASSUME exchange # None PROVE RefusedUnchanged
  BY DEF RefusedUnchanged
<1>1. PICK h \in Header, a \in Ask :
        /\ exchange.path = a.path /\ exchange.header = h /\ exchange.ask = a
        /\ IsDressed(exchange.answer, Inner(h, a), h, a)
  BY ExchangeIs
<1> DEFINE y == Inner(h, a)
<1>2. y \in AnswerSet
  BY InnerTyped
<1>3. exchange.answer.status = y.status /\ exchange.answer.effect = y.effect
  BY <1>1 DEF IsDressed
<1>4. CASE Honest(y, a.path)
  <2>1. /\ y.effect = "written" => y.status = 200
        /\ y.effect = "unknown" => y.status = 500
    BY <1>4, CodeStatus DEF Honest
  <2>2. y.effect \in {"none", "read", "written", "unknown"}
    BY <1>2 DEF AnswerSet
  <2> HIDE DEF y
  <2> QED BY <1>3, <2>1, <2>2 DEF RefusedUnchanged
<1>5. CASE y.status \in {204, 401, 403} /\ y.effect = "none"
  BY <1>3, <1>5 DEF RefusedUnchanged
<1> QED BY <1>4, <1>5, InnerHonest

(* RecordedAsAnswered follows.                                             *)
LEMMA AnsweredRecorded == ASSUME Answered PROVE RecordedAsAnswered
<1> SUFFICES ASSUME exchange # None PROVE RecordedAsAnswered
  BY DEF RecordedAsAnswered
<1>1. PICK h \in Header, a \in Ask :
        /\ exchange.path = a.path /\ exchange.header = h /\ exchange.ask = a
        /\ IsDressed(exchange.answer, Inner(h, a), h, a)
  BY ExchangeIs
<1> DEFINE y == Inner(h, a)
           x == exchange.answer
<1>2. y \in AnswerSet
  BY InnerTyped
<1>3. /\ x.status = y.status /\ x.code = y.code /\ x.counted = y.counted
      /\ x.level = Level(y.status, a.path)
  BY <1>1 DEF IsDressed
<1>4. x.status >= 400 <=> x.level \in {"warn", "error"}
  BY <1>2, <1>3, LevelOf DEF AnswerSet
<1> DEFINE report == a.path = "/update_instance" /\ y.status \notin {204, 401, 403}
<1>5. y.counted = IF report /\ y.code \notin {"MISSING_PARAM", "INVALID_PARAM"}
                  THEN <<y.code>> ELSE <<>>
  <2>1. CASE Honest(y, a.path)
    <3>1. y.status \notin {204, 401, 403}
      BY <1>2, <2>1, CodeStatus DEF Honest, AnswerSet
    <3> QED BY <2>1, <3>1 DEF Honest
  <2>2. CASE y.status \in {204, 401, 403} /\ y.counted = <<>>
    BY <2>2
  <2> QED BY <2>1, <2>2, InnerHonest
<1> HIDE DEF y
<1> QED BY <1>1, <1>3, <1>4, <1>5 DEF RecordedAsAnswered

(* A page parameter is taken as it is given or refused for what it is.     *)
LEMMA PageParam ==
  ASSUME NEW v \in PageText, NEW def \in Nat, NEW max \in Nat
  PROVE  LET n == pageParam(v, def, max)
         IN  /\ n = -1 => v[1] = "malformed" \/ v[2] < 0 \/ (max > 0 /\ v[2] > max)
             /\ n # -1 => /\ n = IF v[1] = "number" THEN v[2] ELSE def
                          /\ v[1] = "number" => v[2] \in Nat /\ (max > 0 => v[2] <= max)
<1>1. /\ v[2] \in Int /\ v[1] \in {"absent", "malformed", "number"}
      /\ v[1] # "number" => v[2] = 0
  <2>1. CASE v \in {"number"} \X Number
    BY <2>1, ApiAssumption
  <2>2. CASE v \in {<<"absent", 0>>, <<"malformed", 0>>}
    BY <2>2
  <2> QED BY <2>1, <2>2 DEF PageText
<1> DEFINE t == v[1]
           i == v[2]
<1>2. pageParam(v, def, max) =
        IF t = "absent" THEN def
        ELSE IF t = "malformed" \/ i < 0 \/ (max > 0 /\ i > max) THEN -1 ELSE i
  BY DEF pageParam
<1>3. /\ i \in Int /\ t \in {"absent", "malformed", "number"}
      /\ t # "number" => i = 0
  BY <1>1
<1> HIDE DEF t, i
<1>4. LET n == pageParam(v, def, max)
      IN  /\ n = -1 => t = "malformed" \/ i < 0 \/ (max > 0 /\ i > max)
          /\ n # -1 => /\ n = IF t = "number" THEN i ELSE def
                       /\ t = "number" => i \in Nat /\ (max > 0 => i <= max)
  BY <1>2, <1>3
<1> QED BY <1>4 DEF t, i

(* The page of a list answer.                                              *)
LEMMA ListPage ==
  ASSUME NEW a \in ListAsk
  PROVE  LET x == ListWorkflowInstances(a)
             asked(v) == v[1] = "number" /\ v[2] # 0
         IN  /\ x.code = "INVALID_PARAM" =>
                  \/ "malformed" \in {a.limit[1], a.offset[1]}
                  \/ a.offset[2] < 0 \/ a.limit[2] \notin 0 .. listMaxLimit
             /\ x.page # <<>> =>
                  /\ x.page[1] = IF asked(a.offset) THEN a.offset[2] ELSE 0
                  /\ x.page[2] = IF asked(a.limit) THEN a.limit[2] ELSE listDefaultLimit
                  /\ x.page[1] \in Nat /\ x.page[2] \in 1 .. listMaxLimit
<1> DEFINE lim == a.limit
           off == a.offset
           l == Limit(lim)
           o == pageParam(off, 0, 0)
           x == ListWorkflowInstances(a)
           asked(v) == v[1] = "number" /\ v[2] # 0
<1>0. /\ listDefaultLimit \in Nat \ {0} /\ listMaxLimit \in Nat \ {0}
      /\ listDefaultLimit <= listMaxLimit
  BY ApiAssumption
<1>1. lim \in PageText /\ off \in PageText
  BY DEF ListAsk
<1>2. o = -1 => off[1] = "malformed" \/ off[2] < 0
  BY <1>1, PageParam
<1>3. o # -1 => o = (IF asked(off) THEN off[2] ELSE 0) /\ o \in Nat
  BY <1>1, PageParam
<1>4. l = -1 => lim[1] = "malformed" \/ lim[2] \notin 0 .. listMaxLimit
  BY <1>0, <1>1, PageParam DEF Limit
<1>5. l # -1 => l = (IF asked(lim) THEN lim[2] ELSE listDefaultLimit) /\ l \in 1 .. listMaxLimit
  <2> DEFINE n == pageParam(lim, listDefaultLimit, listMaxLimit)
  <2>1. n # -1 => /\ n = IF lim[1] = "number" THEN lim[2] ELSE listDefaultLimit
                  /\ lim[1] = "number" => lim[2] \in Nat /\ lim[2] <= listMaxLimit
    BY <1>0, <1>1, PageParam
  <2>2. l = IF n = 0 THEN listDefaultLimit ELSE n
    BY DEF Limit
  <2> HIDE DEF l, n, lim
  <2> QED BY <1>0, <2>1, <2>2
<1>6. \/ x = Reply("INVALID_PARAM", "none") /\ (l = -1 \/ o = -1)
      \/ x = Reply("INTERNAL", "read")
      \/ x = [Reply("OK", "read") EXCEPT !.page = <<o, l>>] /\ l # -1 /\ o # -1
  BY DEF ListWorkflowInstances
<1>7. ASSUME NEW c \in {"INVALID_PARAM", "INTERNAL", "OK"}, NEW e \in {"none", "read"}
      PROVE  Reply(c, e) \in AnswerSet /\ Reply(c, e).code = c /\ Reply(c, e).page = <<>>
  <2>1. "/workflow_instances/list" # "/update_instance" /\ c \in Code \ {"UNAUTHORIZED"}
    BY DEF Code
  <2> QED BY <2>1, ReplyHonest
<1>8. ASSUME NEW y \in AnswerSet, NEW n
      PROVE  [y EXCEPT !.page = n].page = n /\ [y EXCEPT !.page = n].code = y.code
  BY DEF AnswerSet
<1> HIDE DEF lim, off, l, o, x, asked
<1>9. /\ Reply("INVALID_PARAM", "none").page = <<>>
       /\ Reply("INTERNAL", "read").code = "INTERNAL" /\ Reply("INTERNAL", "read").page = <<>>
       /\ Reply("OK", "read") \in AnswerSet /\ Reply("OK", "read").code = "OK"
  BY <1>7
<1>10. [Reply("OK", "read") EXCEPT !.page = <<o, l>>].code = "OK"
       /\ [Reply("OK", "read") EXCEPT !.page = <<o, l>>].page = <<o, l>>
  BY <1>8, <1>9
<1>11. x.code = "INVALID_PARAM" => l = -1 \/ o = -1
  BY <1>6, <1>9, <1>10
<1>12. x.page # <<>> => x.page = <<o, l>> /\ l # -1 /\ o # -1
  BY <1>6, <1>9, <1>10
<1>13. x.code = "INVALID_PARAM" =>
         "malformed" \in {lim[1], off[1]} \/ off[2] < 0 \/ lim[2] \notin 0 .. listMaxLimit
  BY <1>2, <1>4, <1>11
<1>14. x.page # <<>> =>
         /\ x.page[1] = IF asked(off) THEN off[2] ELSE 0
         /\ x.page[2] = IF asked(lim) THEN lim[2] ELSE listDefaultLimit
         /\ x.page[1] \in Nat /\ x.page[2] \in 1 .. listMaxLimit
  BY <1>3, <1>5, <1>12
<1> QED BY <1>13, <1>14 DEF lim, off, x, asked

(* PageAsAsked follows.                                                    *)
LEMMA AnsweredPaged == ASSUME Answered PROVE PageAsAsked
<1> SUFFICES ASSUME exchange.path = "/workflow_instances/list" PROVE PageAsAsked
  BY DEF PageAsAsked
<1>0. exchange # None
  BY DEF None
<1>1. PICK h \in Header, a \in Ask :
        /\ exchange.path = a.path /\ exchange.header = h /\ exchange.ask = a
        /\ IsDressed(exchange.answer, Inner(h, a), h, a)
  BY <1>0, ExchangeIs
<1>2. a \in ListAsk
  BY <1>1 DEF Ask, StartAsk, UpdateAsk, ListAsk, GetAsk, ProbeAsk, OtherAsk, Probe
<1>3. \/ Inner(h, a) = ListWorkflowInstances(a)
      \/ Inner(h, a).code \in {"OK", "UNAUTHORIZED"} /\ Inner(h, a).page = <<>>
  <2>1. Route(a) = ListWorkflowInstances(a)
    BY <1>1 DEF Route, Probe
  <2> QED BY <2>1, LayerAnswers DEF Inner, APIKeys
<1>4. exchange.answer.code = Inner(h, a).code /\ exchange.answer.page = Inner(h, a).page
  BY <1>1 DEF IsDressed
<1> DEFINE x == exchange.answer
<1>5. CASE Inner(h, a) = ListWorkflowInstances(a)
  <2>1. x.code = ListWorkflowInstances(a).code /\ x.page = ListWorkflowInstances(a).page
    BY <1>4, <1>5
  <2> HIDE DEF x
  <2> QED BY <1>1, <1>2, <2>1, ListPage DEF PageAsAsked, x
<1>6. CASE Inner(h, a).code \in {"OK", "UNAUTHORIZED"} /\ Inner(h, a).page = <<>>
  BY <1>4, <1>6 DEF PageAsAsked
<1> QED BY <1>3, <1>5, <1>6

-----------------------------------------------------------------------------
(* The probes.                                                             *)

(* A loop that has started has a heartbeat.                                *)
Beaten == \A l \in Loop : at[l] # "starting" => age[l] # -1

(* A beat is never taken back.                                             *)
LEMMA BeatenKept == ASSUME TypeOK, Beaten, [Next]_vars PROVE Beaten'
<1> USE DEF TypeOK, Beaten
<1>1. CASE UNCHANGED vars
  BY <1>1 DEF vars
<1>2. CASE Pass
  BY <1>2, TimingAssumption DEF Pass
<1>3. ASSUME NEW l \in Loop, LoopStep(l) PROVE Beaten'
  BY <1>3 DEF LoopStep, LoopStarts, TickBegins, CallReturns, JobStarts, JobEnds, Beat
<1>4. ASSUME NEW l \in Loop, Hang(l) PROVE Beaten'
  BY <1>4 DEF Hang
<1> QED BY <1>1, <1>2, <1>3, <1>4 DEF Next

Kubelet == [method |-> "other", key |-> "none", origin |-> "none"]

(* A probe without a key: 200 or 503.                                      *)
LEMMA ProbeStatus ==
  ASSUME NEW path \in Probe, NEW ok \in BOOLEAN
  PROVE  Respond(Kubelet, [path |-> path, healthy |-> ok]).status = IF ok THEN 200 ELSE 503
<1> DEFINE a == [path |-> path, healthy |-> ok]
<1>1. a \in ProbeAsk /\ a.path = path /\ a.healthy = ok
  BY DEF ProbeAsk
<1>2. Kubelet \in Header /\ Kubelet.origin = "none" /\ a \in Ask
  BY <1>1 DEF Kubelet, Header, Ask
<1> HIDE DEF a
<1>3. Inner(Kubelet, a) = Route(a)
  BY <1>1, <1>2 DEF Inner, IsPreflight, APIKeys
<1>4. Route(a) = writeHealth(ok)
  BY <1>1 DEF Route, Probe
<1>5. writeHealth(ok).status = IF ok THEN 200 ELSE 503
  <2>1. ASSUME NEW c \in {"OK", "UNAVAILABLE"}
        PROVE  Reply(c, "none").status = codeStatus(c)
    BY AnswerTyped DEF Reply, Code
  <2> QED BY <2>1, CodeStatus DEF writeHealth
<1>6. Respond(Kubelet, a).status = Inner(Kubelet, a).status
  <2> DEFINE c == Kubelet.origin = "listed"
  <2>1. c \in BOOLEAN /\ Inner(Kubelet, a) \in AnswerSet
    BY <1>2, InnerTyped
  <2>2. Respond(Kubelet, a) = Dress(Inner(Kubelet, a), c, a.path)
    BY <1>2, RespondIs
  <2> HIDE DEF c
  <2> QED BY <2>1, <2>2, Dressed
<1> QED BY <1>3, <1>4, <1>5, <1>6 DEF a

(* ProbesTellLoopsFromStores follows from the loops' invariant.            *)
LEMMA ProbesRight ==
  ASSUME HeartInv, Beaten PROVE ProbesTellLoopsFromStores
<1> SUFFICES ASSUME NEW redisUp \in BOOLEAN, NEW postgresUp \in BOOLEAN
             PROVE  LET live == Respond(Kubelet, [path |-> "/live",
                                   healthy |-> Healthy(Liveness)]).status
                        ready == Respond(Kubelet, [path |-> "/ready",
                                   healthy |-> Healthy(Readiness(redisUp, postgresUp))]).status
                    IN  /\ (\A l \in Loop : ~hung[l] /\ at[l] # "starting") =>
                             live = 200 /\ (ready = 200 <=> redisUp)
                        /\ ready = 200 => live = 200
  BY DEF ProbesTellLoopsFromStores, Kubelet
<1> DEFINE live == Healthy(Liveness)
           ready == Healthy(Readiness(redisUp, postgresUp))
<1>1. (\A l \in Loop : ~hung[l] /\ at[l] # "starting") => Liveness = "ok"
  BY InTimeOK DEF RunningNeverStalled, loopCheck, Liveness, Beaten
<1>2. live <=> Liveness = "ok"
  BY DEF Liveness, Healthy
<1>3. ready <=> Liveness = "ok" /\ redisUp
  BY DEF Liveness, Readiness, Healthy
<1>4. live \in BOOLEAN /\ ready \in BOOLEAN /\ {"/live", "/ready"} \subseteq Probe
  BY DEF Healthy, Probe
<1> HIDE DEF live, ready
<1>5. /\ Respond(Kubelet, [path |-> "/live", healthy |-> live]).status = IF live THEN 200 ELSE 503
      /\ Respond(Kubelet, [path |-> "/ready", healthy |-> ready]).status = IF ready THEN 200 ELSE 503
  BY <1>4, ProbeStatus
<1>6. /\ (Respond(Kubelet, [path |-> "/live", healthy |-> live]).status = 200) <=> live
      /\ (Respond(Kubelet, [path |-> "/ready", healthy |-> ready]).status = 200) <=> ready
  BY <1>5
<1> QED BY <1>1, <1>2, <1>3, <1>6 DEF live, ready

-----------------------------------------------------------------------------
(* The loops of Api are those of Heartbeat, and the exchange is answered.  *)
ApiInv == HeartInv /\ Beaten /\ Answered

(* The invariant holds of every behaviour.                                 *)
THEOREM ApiInvariance == ApiSpec => []ApiInv
<1>1. ApiInit => ApiInv
  BY HeartInitInv DEF ApiInit, Init, ApiInv, Beaten, Answered
<1>2. ASSUME ApiInv, [ApiNext]_<<vars, authOff, exchange>> PROVE ApiInv'
  <2>1. [Next]_vars
    BY <1>2 DEF ApiNext, LoopsGoOn, Served, Serve
  <2>2. HeartInv' /\ Beaten'
    BY <1>2, <2>1, HeartNextInv, BeatenKept DEF ApiInv, HeartInv
  <2> QED BY <1>2, <2>2, AnsweredKept DEF ApiInv
<1> QED BY <1>1, <1>2, PTL DEF ApiSpec

(* (main.go:142) No request without a valid key gets past the API key      *)
(* layer except to a probe, and there a key makes no difference.           *)
THEOREM KeysGuard == ApiSpec => []GuardedByKey
<1>1. ApiInv => GuardedByKey  BY AnsweredGuarded DEF ApiInv
<1> QED BY <1>1, ApiInvariance, PTL

(* (main.go:139) A listed origin can read every answer, refusals of every  *)
(* layer included; the origin changes nothing else.                        *)
THEOREM CorsEverywhere == ApiSpec => []CorsOnEveryAnswer
<1>1. ApiInv => CorsOnEveryAnswer  BY AnsweredCors DEF ApiInv
<1> QED BY <1>1, ApiInvariance, PTL

(* (docs/api.md:75) A 4xx has changed nothing, a change is answered 200,   *)
(* only a 500 leaves it open.                                              *)
THEOREM RefusalsChangeNothing == ApiSpec => []RefusedUnchanged
<1>1. ApiInv => RefusedUnchanged  BY AnsweredUnchanged DEF ApiInv
<1> QED BY <1>1, ApiInvariance, PTL

(* (instance_engine.go:263) sagawise.reports counts every report once and  *)
(* under the code of its answer; refusals show in the access log.          *)
THEOREM ReportsCounted == ApiSpec => []RecordedAsAnswered
<1>1. ApiInv => RecordedAsAnswered  BY AnsweredRecorded DEF ApiInv
<1> QED BY <1>1, ApiInvariance, PTL

(* (instance_engine.go:650) Whatever numbers the limit and the offset      *)
(* spell and whatever the two configured limits are.                       *)
THEOREM PagesAsAsked == ApiSpec => []PageAsAsked
<1>1. ApiInv => PageAsAsked  BY AnsweredPaged DEF ApiInv
<1> QED BY <1>1, ApiInvariance, PTL

(* (health.go:54, :73) For any loops, slots and times of TimingAssumption: *)
(* /live follows the loops alone, /ready the loops and Redis.              *)
THEOREM ProbesTrue == ApiSpec => []ProbesTellLoopsFromStores
<1>1. ApiInv => ProbesTellLoopsFromStores  BY ProbesRight DEF ApiInv
<1> QED BY <1>1, ApiInvariance, PTL
=============================================================================
