----------------------------- MODULE AiUpstream -----------------------------
(***************************************************************************)
(* The provider's side of one forwarded request of the AI plugin           *)
(* (packages/opendweb-ext-ai/src/provider): the request to the upstream is *)
(* put together from the service's slots (rewrite.mjs), hook scripts fill  *)
(* the slots they are bound to (hooks.mjs), the answer goes to the relay's *)
(* sink piece by piece (upstream.mjs forwardRequest, forwardHttp).         *)
(*                                                                         *)
(* Between two awaits the code is alone; an action is the code from one    *)
(* await to the next.  One hook script is looked at; its user copy may be  *)
(* replaced or removed at any time, what has been loaded stays loaded.     *)
(* Credentials a subscription yields are numbered in the order of yielding.*)
(***************************************************************************)
EXTENDS Naturals, Sequences, FiniteSets
Seqs == INSTANCE SequencesExt

CONSTANTS Exchanges,      \* forwarded requests
          ServiceKinds,   \* configurations of a service
          ClientCalls,    \* what a consumer may ask for
          Modules,        \* what a hook script may export
          Builtin,        \* the built-in script of that name, or NoScript
          Increments,     \* what the headers stage may return
          MaxValues,      \* bound: credentials yielded
          MaxEdits,       \* bound: edits of scripts and secrets
          MaxPieces,      \* bound: pieces of a body
          MaxFails        \* bound: failures of scripts, upstreams and sinks

VARIABLES service,        \* the configuration of the service
          user, cached,   \* the user's copy of the script, the loaded copy
          secretSet,      \* is the referenced secret there
          sub, yields,    \* the subscription of the script, values yielded
          x,              \* the exchanges
          edits, fails    \* how many there have been
libVars == <<user, cached, secretSet>>
aiUpVars == <<service, user, cached, secretSet, sub, yields, x, edits, fails>>

NoScript == [stages |-> {}, form |-> "absent"]
Broken == [stages |-> {}, form |-> "broken"]
NoSub == [latest |-> 0, first |-> "none", waiter |-> {}]

(***************************************************************************)
(* The library of scripts.                                                 *)
(***************************************************************************)
loadHookScript ==
  CASE user = NoScript -> Builtin
    [] user # NoScript /\ cached # NoScript -> cached
    [] OTHER -> user
AfterLoad ==              \* what is loaded after a load; a broken copy is not
  IF user \in {NoScript, Broken} \/ cached # NoScript THEN cached ELSE user
stageFnsOf(module) == module.stages

effectiveLifecycleSlots(s) ==
  IF ~s.preset THEN s.slots
  ELSE LET stages == stageFnsOf(loadHookScript) IN
       [auth |-> CASE s.slots.auth # "none" -> s.slots.auth
                   [] s.slots.auth = "none" /\ "auth" \in stages -> "script"
                   [] OTHER -> "none",
        headers |-> s.slots.headers \/ "headers" \in stages,
        request |-> s.slots.request \/ "request" \in stages,
        response |-> s.slots.response \/ "response" \in stages]

(***************************************************************************)
(* Paths: segments.  The first route that fits decides; a pattern's `*`    *)
(* takes one segment, which its template may use.                          *)
(***************************************************************************)
Fits(route, path) ==
  IF route.mode = "prefix" THEN Seqs!IsPrefix(route.local, path)
  ELSE /\ Len(path) = Len(route.local)
       /\ \A k \in DOMAIN path : route.local[k] \in {"*", path[k]}
Routed(route, path) ==
  IF route.mode = "prefix"
  THEN route.up \o SubSeq(path, Len(route.local) + 1, Len(path))
  ELSE LET group == {path[k] : k \in {j \in DOMAIN path : route.local[j] = "*"}} IN
       [k \in DOMAIN route.up |->
          IF route.up[k] = "*" THEN CHOOSE g \in group : TRUE ELSE route.up[k]]
Fitting(s, path) == {k \in DOMAIN s.routes : Fits(s.routes[k], path)}
Offered(s, path) == s.routes = <<>> \/ Fitting(s, path) # {}
FinalPath(s, path) ==
  LET fits == Fitting(s, path)
      routed == IF s.routes = <<>> THEN path
                ELSE Routed(s.routes[CHOOSE k \in fits : \A j \in fits : k <= j], path)
      stripped == IF s.strip # <<>> /\ Seqs!IsPrefix(s.strip, routed)
                  THEN SubSeq(routed, Len(s.strip) + 1, Len(routed)) ELSE routed
  IN s.base \o s.append \o stripped

(***************************************************************************)
(* Headers: a value is told by where it comes from, a credential by its    *)
(* number.  What the consumer may not set is stripped first; what no one   *)
(* may set is stripped last.                                               *)
(***************************************************************************)
Guarded == {"host", "content-length"}
DefensiveStrip == Guarded \cup {"authorization", "content-type"}
From(where, n) == [from |-> where, n |-> n]
Without(headers, names) == [h \in DOMAIN headers \ names |-> headers[h]]
Inherited(call) ==
  [h \in (call.headers \ DefensiveStrip) \cup {"content-type"} |-> From("client", 0)]
WithAuth(headers, v) ==
  IF v.from = "none" THEN headers
  ELSE [h \in DOMAIN headers \cup {"authorization"} |->
          IF h = "authorization" THEN v ELSE headers[h]]
MutStatic(s, headers) ==  \* what is to be removed is removed after the setting
  Without([h \in DOMAIN headers \cup s.set |->
             IF h \in s.set THEN From("static", 0) ELSE headers[h]], s.remove)
Static(s, headers) ==
  [h \in (DOMAIN headers \ s.remove) \cup s.set |->
     IF h \in s.set THEN From("static", 0) ELSE headers[h]]
Incremented(headers, inc) ==
  [h \in (DOMAIN headers \ inc.remove) \cup inc.set |->
     IF h \in inc.set THEN From("script", 0) ELSE headers[h]]

(***************************************************************************)
(* The exchanges.                                                          *)
(***************************************************************************)
New == [phase |-> "new", call |-> CHOOSE c \in ClientCalls : TRUE, headers |-> <<>>,
        inc |-> [set |-> {}, remove |-> {}], auth |-> From("none", 0), asked |-> 0,
        slots |-> [auth |-> "none", headers |-> FALSE, request |-> FALSE, response |-> FALSE],
        code |-> "none", aborted |-> FALSE, ctrl |-> FALSE, listens |-> FALSE,
        timer |-> "none", body |-> 0, handles |-> <<>>, scripted |-> FALSE,
        settled |-> FALSE, out |-> <<>>, usage |-> 0]

AiUpstreamInit ==
  /\ service \in ServiceKinds
  /\ user \in Modules \cup {NoScript}
  /\ cached = NoScript
  /\ secretSet \in BOOLEAN
  /\ sub = NoSub /\ yields = 0
  /\ x = [r \in Exchanges |-> New]
  /\ edits = 0 /\ fails = 0

Becomes(r, e) == x' = [x EXCEPT ![r] = e]
Fail == fails < MaxFails /\ fails' = fails + 1
Refuse(e, code) == [e EXCEPT !.phase = "refusing", !.code = code]
(* finishWithError: the first outcome stands.                              *)
FinishWithError(e, code) ==
  [e EXCEPT !.phase = "erring", !.settled = TRUE, !.code = code, !.timer = "none"]
(* cancel reaches every body obtained so far that has not been read out.   *)
Cancelled(handles) ==
  [k \in DOMAIN handles |-> IF handles[k] = "open" THEN "cancelled" ELSE handles[k]]
(* classifyAbort: the caller's abort, else the timer's.                    *)
AbortCode(e) == IF e.aborted THEN "aborted" ELSE "idle_timeout"
Caught(e, code) == FinishWithError(e, IF e.ctrl THEN AbortCode(e) ELSE code)

(* forwardHttp up to its first await.  The slots are looked up again.      *)
Forward(e) ==
  LET slots == effectiveLifecycleSlots(service)
      armed == [e EXCEPT !.slots = slots, !.timer = "first", !.listens = TRUE,
                         !.ctrl = e.aborted]
  IN CASE e.call.ws -> Refuse(e, "protocol_error")
       [] ~e.call.ws /\ ~e.call.allowed -> FinishWithError(e, "protocol_error")
       [] OTHER ->
            CASE slots.request /\ "request" \notin stageFnsOf(loadHookScript) ->
                   Caught([armed EXCEPT !.listens = FALSE], "hook_failed")
              [] slots.request /\ "request" \in stageFnsOf(loadHookScript) ->
                   [armed EXCEPT !.phase = "script"]
              [] ~slots.request /\ e.aborted ->
                   Caught([armed EXCEPT !.listens = FALSE], "upstream_unreachable")
              [] OTHER -> [armed EXCEPT !.phase = "probe"]
Guard(e) == [e EXCEPT !.headers = Without(@, Guarded)]

(* The credential is known: the static headers, then the headers stage.    *)
Authorised(e, v) ==
  LET with == [e EXCEPT !.auth = v,
                        !.headers = Static(service, WithAuth(@, v))]
      stages == stageFnsOf(loadHookScript)
  IN CASE service.needsSecret /\ ~secretSet -> Refuse(e, "secret_missing")
       [] ~(service.needsSecret /\ ~secretSet) /\ ~e.slots.headers -> Forward(Guard(with))
       [] OTHER -> IF "headers" \in stages THEN [with EXCEPT !.phase = "headers"]
                   ELSE Refuse(e, "hook_failed")

(* forwardRequest, buildUpstreamRequest up to the first await; a call of   *)
(* the credential stage (resolveHookValue) opens a subscription, or takes  *)
(* the latest value of the one there is.                                   *)
BeginForward(r) ==
  /\ x[r].phase = "new"
  /\ \E call \in ClientCalls :
       LET slots == effectiveLifecycleSlots(service)
           e == [x[r] EXCEPT !.call = call, !.slots = slots, !.asked = yields,
                             !.headers = Inherited(call)]
           module == loadHookScript
           scripted == Offered(service, call.path) /\ slots.auth = "script"
       IN /\ Becomes(r,
               CASE ~Offered(service, call.path) -> Refuse(e, "path_not_offered")
                 [] scripted ->
                      CASE "auth" \notin stageFnsOf(module) -> Refuse(e, "secret_missing")
                        [] "auth" \in stageFnsOf(module) /\ module.form = "value" ->
                             [e EXCEPT !.phase = "auth"]
                        [] OTHER ->
                             CASE sub.first = "none" -> [e EXCEPT !.phase = "first"]
                               [] sub.first # "none" /\ sub.latest = 0 ->
                                    Refuse(e, "secret_missing")
                               [] OTHER -> Authorised(e, From("script", sub.latest))
                 [] ~scripted /\ slots.auth = "secret" ->
                      IF secretSet THEN Authorised(e, From("secret", 0))
                      ELSE Refuse(e, "secret_missing")
                 [] OTHER -> Authorised(e, From(slots.auth, 0)))
          /\ sub' = IF /\ scripted /\ "auth" \in stageFnsOf(module)
                       /\ module.form = "stream" /\ sub.first = "none"
                    THEN [NoSub EXCEPT !.first = "awaited", !.waiter = {r}] ELSE sub
          /\ cached' = AfterLoad
  /\ UNCHANGED <<service, user, secretSet, yields, edits, fails>>

(* The credential stage that is no stream answers, or fails.               *)
AuthAnswers(r) ==
  /\ x[r].phase = "auth"
  /\ \/ Becomes(r, Authorised(x[r], From("script", x[r].asked))) /\ UNCHANGED fails
     \/ Becomes(r, Refuse(x[r], "secret_missing")) /\ Fail
  /\ cached' = AfterLoad
  /\ UNCHANGED <<service, user, secretSet, sub, yields, edits>>

(* The subscription yields, or ends; the first settles whoever waits.      *)
MutLatest(s, n) == IF s.latest = 0 THEN n ELSE s.latest
Latest(s, n) == n
Yield ==
  /\ sub.first # "none" /\ sub.first # "over" /\ yields < MaxValues
  /\ yields' = yields + 1
  /\ sub' = [sub EXCEPT !.latest = Latest(sub, yields + 1), !.first = "settled", !.waiter = {}]
  /\ x' = [r \in Exchanges |->
             IF r \in sub.waiter THEN Authorised(x[r], From("script", yields + 1)) ELSE x[r]]
  /\ cached' = AfterLoad
  /\ UNCHANGED <<service, user, secretSet, edits, fails>>
StreamEnds ==
  /\ sub.first \in {"awaited", "settled"} /\ Fail
  /\ sub' = [sub EXCEPT !.first = "over", !.waiter = {}]
  /\ x' = [r \in Exchanges |->
             IF r \in sub.waiter THEN Refuse(x[r], "secret_missing") ELSE x[r]]
  /\ UNCHANGED <<service, user, cached, secretSet, yields, edits>>

HeadersAnswer(r) ==
  /\ x[r].phase = "headers"
  /\ \/ \E inc \in Increments :
          Becomes(r, Forward(Guard([x[r] EXCEPT !.inc = inc, !.headers = Incremented(@, inc)])))
        /\ UNCHANGED fails
     \/ Becomes(r, Refuse(x[r], "hook_failed")) /\ Fail
  /\ cached' = AfterLoad
  /\ UNCHANGED <<service, user, secretSet, sub, yields, edits>>

(* A refusal is told, and recorded after it.                               *)
RefusalTold(r) ==
  /\ x[r].phase = "refusing"
  /\ \/ Becomes(r, [x[r] EXCEPT !.phase = "over", !.out = Append(@, "error"), !.usage = @ + 1])
        /\ UNCHANGED fails
     \/ Becomes(r, [x[r] EXCEPT !.phase = "thrown"]) /\ Fail
  /\ UNCHANGED <<service, libVars, sub, yields, edits>>

(***************************************************************************)
(* The answer: of the request stage, or of the upstream after a probe.     *)
(***************************************************************************)
Unlistened(e, code) == Caught([e EXCEPT !.listens = FALSE], code)
(* A body is there: the timers stop, the response stage is called if one   *)
(* is bound.                                                               *)
BodyThere(e, scripted) ==
  LET got == [e EXCEPT !.timer = "none", !.handles = Append(@, "open"),
                       !.body = Len(e.handles) + 1, !.scripted = scripted]
  IN CASE e.slots.response /\ "response" \in stageFnsOf(loadHookScript) ->
            [got EXCEPT !.phase = "respond"]
       [] e.slots.response /\ "response" \notin stageFnsOf(loadHookScript) ->
            FinishWithError(got, "hook_failed")
       [] OTHER -> [got EXCEPT !.phase = "meta"]
ScriptAnswers(r) ==
  /\ x[r].phase = "script"
  /\ \/ Becomes(r, BodyThere(x[r], TRUE)) /\ UNCHANGED fails
     \/ Becomes(r, Unlistened(x[r], "hook_failed")) /\ Fail
  /\ cached' = AfterLoad
  /\ UNCHANGED <<service, user, secretSet, sub, yields, edits>>
ProbeAnswers(r) ==
  /\ x[r].phase = "probe"
  /\ \/ Becomes(r, [x[r] EXCEPT !.phase = "fetch"]) /\ UNCHANGED fails
     \/ Becomes(r, Unlistened(x[r], "upstream_unreachable")) /\ Fail
  /\ UNCHANGED <<service, libVars, sub, yields, edits>>
FetchAnswers(r) ==
  /\ x[r].phase = "fetch" /\ ~x[r].ctrl
  /\ \/ Becomes(r, BodyThere(x[r], FALSE)) /\ UNCHANGED fails
     \/ Becomes(r, Unlistened(x[r], "upstream_unreachable")) /\ Fail
  /\ cached' = AfterLoad
  /\ UNCHANGED <<service, user, secretSet, sub, yields, edits>>
FetchAborted(r) ==
  /\ x[r].phase = "fetch" /\ x[r].ctrl
  /\ Becomes(r, Unlistened(x[r], "upstream_unreachable"))
  /\ UNCHANGED <<service, libVars, sub, yields, edits, fails>>

(* The response stage may put a body of its own in the place of the one    *)
(* obtained, which is superseded.                                          *)
ResponseAnswers(r) ==
  /\ x[r].phase = "respond"
  /\ LET e == x[r] IN
     \/ Becomes(r, [e EXCEPT !.phase = "meta"]) /\ UNCHANGED fails
     \/ /\ Becomes(r, [e EXCEPT !.phase = "meta", !.handles = Append(@, "open"),
                                !.body = Len(e.handles) + 1, !.scripted = TRUE])
        /\ UNCHANGED fails
     \/ Becomes(r, FinishWithError(e, "hook_failed")) /\ Fail
  /\ UNCHANGED <<service, libVars, sub, yields, edits>>

StreamFailed(e) ==
  Caught(e, IF e.scripted THEN "hook_failed" ELSE "upstream_unreachable")
MetaTold(r) ==
  /\ x[r].phase = "meta"
  /\ \/ Becomes(r, [x[r] EXCEPT !.phase = "body", !.out = Append(@, "meta"), !.timer = "stall"])
        /\ UNCHANGED fails
     \/ Becomes(r, StreamFailed(x[r])) /\ Fail
  /\ UNCHANGED <<service, libVars, sub, yields, edits>>

Pieces(e) == Len(SelectSeq(e.out, LAMBDA o : o = "chunk"))
(* The body yields a piece, ends, or fails; an abort wins the race against *)
(* a body that has nothing, not always against a script's.                 *)
BodyYields(r) ==
  /\ x[r].phase = "body" /\ (x[r].ctrl => x[r].scripted)
  /\ LET e == x[r]  read == [e EXCEPT !.handles[e.body] = "drained", !.timer = "none"] IN
     \/ /\ Pieces(e) < MaxPieces
        /\ Becomes(r, [e EXCEPT !.phase = "chunk", !.timer = "stall"])
        /\ UNCHANGED fails
     \/ /\ Becomes(r, IF e.aborted THEN FinishWithError(read, "aborted")
                      ELSE [read EXCEPT !.phase = "end"])
        /\ UNCHANGED fails
     \/ Becomes(r, StreamFailed(e)) /\ Fail
  /\ UNCHANGED <<service, libVars, sub, yields, edits>>
BodyCut(r) ==
  /\ x[r].phase = "body" /\ x[r].ctrl
  /\ Becomes(r, StreamFailed(x[r]))
  /\ UNCHANGED <<service, libVars, sub, yields, edits, fails>>
ChunkTold(r) ==
  /\ x[r].phase = "chunk"
  /\ \/ Becomes(r, [x[r] EXCEPT !.phase = "body", !.out = Append(@, "chunk")])
        /\ UNCHANGED fails
     \/ Becomes(r, StreamFailed(x[r])) /\ Fail
  /\ UNCHANGED <<service, libVars, sub, yields, edits>>

(* finally: the timers, the listener, and every body that is still open.   *)
Released(e) ==
  [e EXCEPT !.phase = "over", !.timer = "none", !.listens = FALSE, !.ctrl = TRUE,
            !.handles = Cancelled(@)]
MutEndTold(r) ==         \* the success is recorded before it is told
  /\ x[r].phase = "end"
  /\ \/ /\ Becomes(r, Released([x[r] EXCEPT !.out = Append(@, "end"), !.settled = TRUE,
                                           !.usage = @ + 1, !.code = "ok"]))
        /\ UNCHANGED fails
     \/ Becomes(r, StreamFailed([x[r] EXCEPT !.usage = @ + 1])) /\ Fail
  /\ UNCHANGED <<service, libVars, sub, yields, edits>>
EndTold(r) ==
  /\ x[r].phase = "end"
  /\ \/ /\ Becomes(r, Released([x[r] EXCEPT !.out = Append(@, "end"), !.settled = TRUE,
                                           !.usage = @ + 1, !.code = "ok"]))
        /\ UNCHANGED fails
     \/ Becomes(r, StreamFailed(x[r])) /\ Fail
  /\ UNCHANGED <<service, libVars, sub, yields, edits>>
(* The error is told; a sink that fails is ignored.                        *)
ErrorTold(r) ==
  /\ x[r].phase = "erring"
  /\ \/ /\ Becomes(r, Released([x[r] EXCEPT !.out = Append(@, "error"), !.usage = @ + 1]))
        /\ UNCHANGED fails
     \/ Becomes(r, Released([x[r] EXCEPT !.usage = @ + 1])) /\ Fail
  /\ UNCHANGED <<service, libVars, sub, yields, edits>>

(***************************************************************************)
(* Timers, the caller's abort, and the operator's edits.                   *)
(***************************************************************************)
AbortWith(e) == [e EXCEPT !.ctrl = TRUE, !.timer = "none", !.handles = Cancelled(@)]
TimerFires(r) ==
  /\ x[r].timer # "none"
  /\ Becomes(r, AbortWith(x[r]))
  /\ UNCHANGED <<service, libVars, sub, yields, edits, fails>>
Abort(r) ==
  /\ x[r].phase \notin {"new", "over", "thrown"} /\ ~x[r].aborted
  /\ Becomes(r, LET e == [x[r] EXCEPT !.aborted = TRUE] IN
                IF e.listens THEN [AbortWith(e) EXCEPT !.timer = e.timer] ELSE e)
  /\ UNCHANGED <<service, libVars, sub, yields, edits, fails>>

Edit ==                   \* installUserHook, removeUserHook, or by hand
  /\ edits < MaxEdits /\ edits' = edits + 1
  /\ \/ user' \in (Modules \cup {NoScript, Broken}) \ {user} /\ UNCHANGED secretSet
     \/ secretSet' = ~secretSet /\ UNCHANGED user
  /\ UNCHANGED <<service, cached, sub, yields, x, fails>>

Step(r) ==
  \/ BeginForward(r) \/ AuthAnswers(r) \/ HeadersAnswer(r) \/ RefusalTold(r)
  \/ ScriptAnswers(r) \/ ProbeAnswers(r) \/ FetchAnswers(r) \/ FetchAborted(r)
  \/ ResponseAnswers(r) \/ MetaTold(r) \/ BodyYields(r) \/ BodyCut(r) \/ ChunkTold(r)
  \/ EndTold(r) \/ ErrorTold(r) \/ TimerFires(r) \/ Abort(r)
AiUpstreamNext == Yield \/ StreamEnds \/ Edit \/ \E r \in Exchanges : Step(r)
AiUpstreamSpec == AiUpstreamInit /\ [][AiUpstreamNext]_aiUpVars

(***************************************************************************)
(* Properties.                                                             *)
(***************************************************************************)
Over(e) == e.phase = "over"
Terminals(e) == {k \in DOMAIN e.out : e.out[k] \in {"end", "error"}}

(* A forwarded request is accounted for exactly once when it is over, and  *)
(* its sink hears at most one outcome, the last thing it hears: whatever   *)
(* timer, abort, script and sink fail together.                            *)
OneOutcome ==
  \A r \in Exchanges : LET e == x[r] IN
    /\ e.usage = IF Over(e) THEN 1 ELSE 0
    /\ Cardinality(Terminals(e)) <= 1
    /\ \A k \in Terminals(e) : k = Len(e.out)
    /\ e.out # <<>> /\ e.out[Len(e.out)] = "end" => e.code = "ok"

(* No body is left open behind a request that is over: not the one in use, *)
(* nor the one a script has superseded.                                    *)
BodiesReleased ==
  \A r \in Exchanges : x[r].phase \in {"over", "thrown"} =>
    \A k \in DOMAIN x[r].handles : x[r].handles[k] # "open"

(* A request carries no credential older than what its script had yielded  *)
(* when the request came.                                                  *)
NoOlderCredential ==
  \A r \in Exchanges : x[r].auth.from = "script" => x[r].auth.n >= x[r].asked

(* What goes upstream is what the last to set a header says: the headers   *)
(* stage over the static headers over the credential over the consumer's;  *)
(* the consumer's credential and what the transport owns never pass.       *)
HeadersRight ==
  \A r \in Exchanges : LET e == x[r] IN
    e.phase \in {"probe", "fetch", "script"} =>
      /\ DOMAIN e.headers \cap Guarded = {}
      /\ \A h \in DOMAIN e.headers : h \in DefensiveStrip \ {"content-type"} =>
           e.headers[h].from # "client"
      /\ \A h \in (e.inc.set \ Guarded) : e.headers[h].from = "script"
      /\ \A h \in service.set \ (e.inc.set \cup e.inc.remove \cup Guarded) :
           h \in DOMAIN e.headers /\ e.headers[h].from = "static"
      /\ e.auth.from # "none" /\ service.set \cup service.remove \cup e.inc.set \cup e.inc.remove = {}
           => e.headers["authorization"] = e.auth
      /\ service.slots.auth # "none" => e.auth.from = service.slots.auth

(* All of them: what the provider's exchanges with an upstream keep.       *)
UpstreamHolds == OneOutcome /\ BodiesReleased /\ NoOlderCredential /\ HeadersRight

(* A request of a preset whose script answers requests does not go to the  *)
(* upstream itself.  Refuted by TLC (README): the slots are looked up when *)
(* the headers are made and again before the request is sent, and the      *)
(* script may have gone between.                                           *)
NeverBypassed ==
  [][\A r \in Exchanges :
       x[r].slots.request /\ x'[r].phase = "probe" => x[r].phase = "probe"]_aiUpVars
=============================================================================
