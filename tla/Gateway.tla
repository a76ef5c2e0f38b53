------------------------------ MODULE Gateway ------------------------------
(***************************************************************************)
(* One POST /mcp (server.py, mcp.py, ToolRuntime.call): the checks of the  *)
(* transport, of the headers that mirror the body, of the JSON-RPC         *)
(* envelope and of the tool's arguments, in the order the code makes them, *)
(* the tool, and the answer, which is encoded and sent only afterwards.    *)
(* What goes wrong unforeseen on the way, before the tool or after it, is  *)
(* answered with HTTP 500 or not at all.  A body that names a protocol     *)
(* version in params._meta belongs to the modern era, any other to the     *)
(* legacy one, and each has its own methods, header rules and statuses.    *)
(***************************************************************************)
EXTENDS Integers

CONSTANT GatewayRequests   \* the requests that arrive

\* What the checks tell apart: `meta' is the protocol version of params._meta,
\* `params' whether params is an object, `base' what becomes of the base URL of
\* the request, and `envelope', `origin', `bearer' and `body' whether that part is
\* as it must be.  A JSON string may hold half of a surrogate pair, which no
\* answer can be encoded with: `id' is "unencodable" where the id does, and
\* `quotable' is FALSE where the method, version or argument an error quotes does.
ASSUME GatewayAssumption ==
    \A r \in GatewayRequests :
        /\ r.id \in {"absent", "null", "value", "unencodable"} /\ r.params \in {"object", "bad"}
        /\ r.meta \in {"absent", "modern", "unsupported"}
        /\ r.base \in {"known", "security", "validation"}
        /\ {r.capabilities, r.envelope, r.origin, r.bearer, r.body, r.duplicate, r.arguments,
            r.quotable} \subseteq BOOLEAN

VARIABLES gwStage, gwRequest, gwRan, gwAnswer
gatewayVars == <<gwStage, gwRequest, gwRan, gwAnswer>>

NoAnswer == [status |-> 0, kind |-> "none", code |-> 0, id |-> "none"]

ModernMethods == {"server/discover", "notifications/cancelled", "ping", "tools/list", "tools/call"}
Notices == {"notifications/initialized", "notifications/cancelled"}
LegacyMethods == Notices \cup {"initialize", "ping", "tools/list", "tools/call"}

HeaderMismatch == -32020
UnsupportedVersion == -32022

(***************************************************************************)
(* request_era, and request_era_from_envelope for a body whose params are  *)
(* not an object.                                                          *)
(***************************************************************************)
Modern(r) == r.method # "initialize" /\ r.params = "object" /\ r.meta # "absent"

(***************************************************************************)
(* modern_request_context: what is wrong with _meta, or 0.                 *)
(***************************************************************************)
ContextError(r) ==
    IF r.meta = "unsupported" THEN UnsupportedVersion
    ELSE IF ~ r.capabilities THEN -32602 ELSE 0

(***************************************************************************)
(* validate_rpc_envelope and rpc_params.                                   *)
(***************************************************************************)
EnvelopeError(r) ==
    IF ~ r.envelope THEN -32600 ELSE IF r.params = "bad" THEN -32602 ELSE 0

(***************************************************************************)
(* validate_http_mirror_headers.                                           *)
(***************************************************************************)
NamesBody(r) ==
    /\ r.versionHeader = r.meta
    /\ r.methodHeader = r.method
    /\ r.method = "tools/call" => (r.nameHeader # "absent" /\ r.nameHeader = r.tool)

\* (A wrong variant of Mirrors: the tool's name is not compared.)
NamesMethod(r) == r.versionHeader = r.meta /\ r.methodHeader = r.method

Mirrors(r) == NamesBody(r)

LegacyHeaderError(r) ==
    IF r.versionHeader = "modern" THEN HeaderMismatch
    ELSE IF r.versionHeader = "unknown" THEN -32600 ELSE 0

MirrorError(r) ==
    IF EnvelopeError(r) # 0 THEN EnvelopeError(r)
    ELSE IF ~ Modern(r) THEN LegacyHeaderError(r)
    ELSE IF ContextError(r) # 0 THEN ContextError(r)
    ELSE IF ~ Mirrors(r) THEN HeaderMismatch ELSE 0

(***************************************************************************)
(* jsonrpc_error, response_id and modern_http_status.                      *)
(***************************************************************************)
StatusOf(r, code) ==
    CASE ~ Modern(r) -> 200
      [] code = -32601 -> 404
      [] code \in {-32602, HeaderMismatch, UnsupportedVersion} -> 400
      [] OTHER -> 200

ErrorAnswer(r, code) ==
    [status |-> StatusOf(r, code), kind |-> "error", code |-> code,
     id |-> IF r.id \in {"value", "unencodable"} THEN r.id ELSE "null"]

ResultAnswer(r) == [status |-> 200, kind |-> "result", code |-> 0, id |-> r.id]

Accepted202 == [status |-> 202, kind |-> "none", code |-> 0, id |-> "none"]

(***************************************************************************)
(* _json_error: transport refusals are answered without JSON-RPC, and      *)
(* _handle_error: the status of a ReCTMError is that of its category, with *)
(* "unauthorized" for the code OAUTH_UNAUTHORIZED.                         *)
(***************************************************************************)
HttpAnswer(status) == [status |-> status, kind |-> "http", code |-> 0, id |-> "none"]

HandleError(category) ==
    HttpAnswer(CASE category = "unauthorized" -> 401
                 [] category \in {"permission", "security"} -> 403
                 [] category = "not_found" -> 404
                 [] category = "validation" -> 400
                 [] category = "conflict" -> 409
                 [] OTHER -> 500)

(***************************************************************************)
(* `except Exception' of do_POST: HTTP 500, or a closed connection when    *)
(* the event this is to be recorded with cannot be written either.         *)
(***************************************************************************)
Unhandled == {HttpAnswer(500), NoAnswer}

GatewayInit ==
    gwStage = "idle" /\ gwRequest = [id |-> "none"] /\ gwRan = FALSE /\ gwAnswer = NoAnswer

Receive(r) ==
    /\ gwStage' = "received" /\ gwRequest' = r
    /\ UNCHANGED <<gwRan, gwAnswer>>

\* The answer is decided; it is still to be encoded and sent.
Reply(answer) == gwStage' = "replying" /\ gwAnswer' = answer

(***************************************************************************)
(* do_POST up to the dispatch: origin, base URL (an argument of the check  *)
(* that follows), bearer token, body, duplicated mirror headers, mirror    *)
(* headers.                                                                *)
(***************************************************************************)
CheckRequest ==
    LET r == gwRequest
        opened == r.origin /\ r.base = "known" /\ r.bearer /\ r.body
    IN  /\ gwStage = "received"
        /\ CASE ~ r.origin -> Reply(HttpAnswer(403))
             [] r.origin /\ r.base # "known" -> Reply(HandleError(r.base))
             [] r.origin /\ r.base = "known" /\ ~ r.bearer -> Reply(HandleError("unauthorized"))
             [] r.origin /\ r.base = "known" /\ r.bearer /\ ~ r.body ->
                    Reply(HandleError("validation"))
             [] opened /\ Modern(r) /\ r.duplicate ->
                    Reply([ErrorAnswer(r, HeaderMismatch) EXCEPT !.status = 400])
             [] opened /\ ~ (Modern(r) /\ r.duplicate) /\ MirrorError(r) # 0 ->
                    Reply(ErrorAnswer(r, MirrorError(r)))
             [] OTHER -> gwStage' = "screened" /\ UNCHANGED gwAnswer
        /\ UNCHANGED <<gwRequest, gwRan>>

(***************************************************************************)
(* MCPDispatcher.dispatch, _dispatch_modern, _dispatch_legacy and the      *)
(* checks of _call_tool: the error the request is refused with, or 0.      *)
(* (-32603 is for a ReCTMError out of ToolRuntime.call: that makes a       *)
(* result of what a handler raises, and every tool has a handler.)         *)
(***************************************************************************)
DispatchError(r) ==
    CASE EnvelopeError(r) # 0 -> EnvelopeError(r)
      [] Modern(r) /\ ContextError(r) # 0 -> ContextError(r)
      [] r.method \notin (IF Modern(r) THEN ModernMethods ELSE LegacyMethods) -> -32601
      [] r.method = "tools/call" /\ (r.tool \in {"absent", "unknown"} \/ ~ r.arguments) -> -32602
      [] OTHER -> 0

\* A notification is never answered, and neither is a method without a result.
Dispatched(r, answer) == IF r.id = "absent" THEN Accepted202 ELSE answer

\* ToolRuntime.call: the tool runs, whatever becomes of its answer.
ToolRuns(r) == DispatchError(r) = 0 /\ r.method = "tools/call"

Dispatch ==
    LET r == gwRequest
        e == DispatchError(r)
    IN  /\ gwStage = "screened"
        /\ gwRan' = ToolRuns(r)
        /\ Reply(CASE e # 0 -> Dispatched(r, ErrorAnswer(r, e))
                   [] e = 0 /\ r.method \in Notices -> Accepted202
                   [] OTHER -> Dispatched(r, ResultAnswer(r)))
        /\ UNCHANGED gwRequest

(***************************************************************************)
(* _send_json encodes the answer after everything else is done.  An id     *)
(* that cannot be encoded fails it, and so does an error that quotes what  *)
(* cannot be; the result of a tool may hold such a text (a file name).     *)
(* The connection may be gone.                                             *)
(***************************************************************************)
Quotes(r, code) ==
    \/ code \in {-32601, UnsupportedVersion}
    \/ code = -32602 /\ r.params = "object" /\ (Modern(r) => r.capabilities) /\ r.tool # "absent"

Encodable(r, answer) ==
    /\ answer.id # "unencodable"
    /\ answer.kind = "error" /\ Quotes(r, answer.code) => r.quotable

Send ==
    /\ gwStage = "replying" /\ gwStage' = "answered"
    /\ \/ Encodable(gwRequest, gwAnswer) /\ UNCHANGED gwAnswer
       \/ /\ ~ Encodable(gwRequest, gwAnswer) \/ (gwAnswer.kind = "result" /\ gwRan)
          /\ gwAnswer' \in Unhandled
       \/ gwAnswer' = NoAnswer
    /\ UNCHANGED <<gwRequest, gwRan>>

(***************************************************************************)
(* An exception nobody expects: in the base URL, the token or the body     *)
(* (an event or the database cannot be written, a body nested too deeply), *)
(* or in the events ToolRuntime.call records before its handler and after. *)
(***************************************************************************)
BreakDown ==
    /\ \/ gwStage = "received" /\ gwRequest.origin /\ UNCHANGED gwRan
       \/ gwStage = "screened" /\ ToolRuns(gwRequest) /\ gwRan' \in BOOLEAN
    /\ gwStage' = "answered" /\ gwAnswer' \in Unhandled
    /\ UNCHANGED gwRequest

GatewayNext ==
    \/ gwStage = "idle" /\ \E r \in GatewayRequests : Receive(r)
    \/ CheckRequest
    \/ Dispatch
    \/ Send
    \/ BreakDown
GatewaySpec == GatewayInit /\ [][GatewayNext]_gatewayVars

-----------------------------------------------------------------------------
GatewayTypeOK ==
    /\ gwStage \in {"idle", "received", "screened", "replying", "answered"} /\ gwRan \in BOOLEAN
    /\ gwAnswer.status \in {0, 200, 202, 400, 401, 403, 404, 500}
    /\ gwAnswer.kind \in {"none", "http", "error", "result"}

(***************************************************************************)
(* What a caller may rely on.  A JSON-RPC error, or an HTTP refusal other  *)
(* than 500, means that the tool did not run, so that the call can be sent *)
(* again; a result of a tool call means that it ran.  A tool that ran for  *)
(* a request with an id is answered with that id and a result, or else     *)
(* with HTTP 500 or a closed connection, which alone tell nothing of it: a *)
(* surrogate in the id or the result is found when the tool is done.  A    *)
(* modern tool call runs only the tool its headers name, on which          *)
(* intermediaries decide.                                                  *)
(***************************************************************************)
RefusedMeansNotRun ==
    gwStage = "answered" =>
        /\ gwAnswer.kind \in {"error", "http"} /\ gwAnswer \notin Unhandled => ~ gwRan
        /\ gwAnswer.kind = "result" /\ gwRequest.method = "tools/call" => gwRan
        /\ gwRan /\ gwRequest.id # "absent" =>
               \/ gwAnswer.kind = "result" /\ gwAnswer.id = gwRequest.id
               \/ gwAnswer \in Unhandled
        /\ gwRan /\ Modern(gwRequest) =>
               gwRequest.nameHeader = gwRequest.tool /\ gwRequest.versionHeader = "modern"
=============================================================================
