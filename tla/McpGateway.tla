------------------------------ MODULE McpGateway ------------------------------
(* Task 2's Gateway.handle() (task2_mcp_gateway/proxy.py) between its clients *)
(* and one downstream MCP server.  handle() decides everything between the    *)
(* arrival of the body and the one await on the downstream, so each of its    *)
(* early returns is one action; the downstream, the connection and the        *)
(* client's 5 s timeout go on by themselves while it waits.                   *)
EXTENDS Integers, Sequences, SequencesExt, FiniteSets

CONSTANTS
  Requests,     \* the requests clients make
  Tokens,       \* the configured bearer tokens
  Roles,        \* the role of each: "admin" or "viewer"
  Headers,      \* what Authorization can hold: a token, or a case of BadHeaders
  Bodies,       \* what clients send
  Names,        \* tool names
  AdminNames,   \* those that start with "admin_"
  NoBody

BadHeaders == {"none", "malformed", "unknown", "non_ascii"}

\* A body that is JSON lists the "name" members of its params in their order.
\* "too_much" is a body json.loads gives up on: nested too deeply, a number of
\* too many digits.  "encodable" is FALSE for values JSON text can spell and
\* nobody can encode again: NaN, and half a surrogate pair, which can also
\* stand in an id ("lone").
Body == [form : {"junk", "too_much", "other", "object"},
         id : {"none", "valid", "lone", "bad"},
         version : BOOLEAN, method : {"tools/call", "tools/list", "other", "bad"},
         params : BOOLEAN, names : Seq(Names \cup {"bad"}), encodable : BOOLEAN]

ASSUME TokensAssumption ==
  /\ Roles \in [Tokens -> {"admin", "viewer"}]
  /\ Tokens \cap BadHeaders = {}
  /\ Headers \subseteq Tokens \cup BadHeaders
ASSUME BodiesAssumption ==
  /\ Bodies \subseteq Body /\ NoBody \notin Bodies
  /\ \A b \in Bodies : b.id = "lone" => ~b.encodable
ASSUME NamesAssumption == AdminNames \subseteq Names /\ Names \cap {"bad", "none"} = {}

VARIABLES
  stage,    \* where each handler is
  header,   \* the Authorization header of each request
  body,     \* the body of each request
  wire,     \* requests on their way to the downstream, as the payload sent
  ran,      \* the downstream's record of what it executed: state.methods
  reply,    \* requests the downstream has answered
  response  \* what each client has been sent

vars == <<stage, header, body, wire, ran, reply, response>>

Stages == {"idle", "body", "forwarding", "done"}
Codes == {"parse_error", "invalid_request", "invalid_params", "authentication_required",
          "unauthorized_tool_call", "downstream_unavailable", "result", "unhandled"}
Ids == {"none", "valid"}
NoPayload == [method |-> "none", name |-> "none", id |-> "none"]
NoResponse == [code |-> "none", id |-> "none"]

Init ==
  /\ stage = [r \in Requests |-> "idle"]
  /\ header = [r \in Requests |-> "none"]
  /\ body = [r \in Requests |-> NoBody]
  /\ wire = [r \in Requests |-> NoPayload]
  /\ ran = <<>>
  /\ reply = {}
  /\ response = [r \in Requests |-> NoResponse]

(******************************** jsonrpc.py *********************************)
\* parse_request: the first problem of a body, and whether its id is known.
\* Only two kinds of exception are taken for a parse error.
ParseRaises(b) == b.form = "too_much"
ParseProblem(b) == b.form = "junk"
IdProblem(b) == b.form = "other" \/ (b.form = "object" /\ b.id = "bad")
RequestProblem(b) == b.form = "object" /\ b.id # "bad" /\ (~b.version \/ b.method = "bad")
Valid(b) == ~ParseRaises(b) /\ ~ParseProblem(b) /\ ~IdProblem(b) /\ ~RequestProblem(b)

\* json.loads keeps the last of several members of one name.
Name(b) == IF b.names = <<>> THEN "bad" ELSE Last(b.names)

\* called_tool_name: its problem, and the tool it returns if there is one.
ParamsProblem(b) == b.method = "tools/call" /\ (~b.params \/ Name(b) = "bad")
CallsTool(b, tools) == b.method = "tools/call" /\ Name(b) \in tools

\* Mutant: the bytes that came are passed on; the downstream takes another of
\* several members of one name.
PayloadUnparsed(b) ==
  [method |-> b.method,
   name |-> IF b.method = "tools/call" THEN Head(b.names) ELSE "none",
   id |-> b.id]

\* What json=payload sends: the payload as parsed, not the bytes that came.
Payload(b) ==
  [method |-> b.method,
   name |-> IF b.method = "tools/call" THEN Name(b) ELSE "none",
   id |-> b.id]

(********************************** auth.py **********************************)
Authenticated(r) == header[r] \in Tokens

\* hmac.compare_digest takes no str that is not ASCII: a TypeError.
ComparisonRaises(r) == header[r] = "non_ascii"

(********************************* proxy.py **********************************)
Respond(r, code, id) ==
  /\ response' = [response EXCEPT ![r] = [code |-> code, id |-> id]]
  /\ stage' = [stage EXCEPT ![r] = "done"]

\* An exception nothing in handle() catches: Starlette's plain 500.
Unhandled(r) == Respond(r, "unhandled", "none")

\* A JSONResponse that echoes the id of the body, if UTF-8 has bytes for it.
Refuse(r, code) ==
  IF body[r].id = "lone" THEN Unhandled(r) ELSE Respond(r, code, body[r].id)

\* A client's request; handle() awaits its body.
Submit(r, h, b) ==
  /\ stage[r] = "idle"
  /\ stage' = [stage EXCEPT ![r] = "body"]
  /\ header' = [header EXCEPT ![r] = h]
  /\ body' = [body EXCEPT ![r] = b]
  /\ UNCHANGED <<wire, ran, reply, response>>

\* Mutant: the id is echoed before it has been looked at.
RejectBodyEchoesId(r) ==
  /\ stage[r] = "body"
  /\ ~Valid(body[r])
  /\ Respond(r, IF ParseProblem(body[r]) THEN "parse_error" ELSE "invalid_request", body[r].id)
  /\ UNCHANGED <<header, body, wire, ran, reply>>

RejectBody(r) ==
  /\ stage[r] = "body"
  /\ \/ ParseRaises(body[r]) /\ Unhandled(r)
     \/ ParseProblem(body[r]) /\ Respond(r, "parse_error", "none")
     \/ IdProblem(body[r]) /\ Respond(r, "invalid_request", "none")
     \/ RequestProblem(body[r]) /\ Refuse(r, "invalid_request")
  /\ UNCHANGED <<header, body, wire, ran, reply>>

\* 401; an exception of the comparison is no AuthenticationError.
RejectCaller(r) ==
  /\ stage[r] = "body"
  /\ Valid(body[r])
  /\ ~Authenticated(r)
  /\ IF ComparisonRaises(r) THEN Unhandled(r) ELSE Refuse(r, "authentication_required")
  /\ UNCHANGED <<header, body, wire, ran, reply>>

Accepted(r) == stage[r] = "body" /\ Valid(body[r]) /\ Authenticated(r)

RejectParams(r) ==
  /\ Accepted(r)
  /\ ParamsProblem(body[r])
  /\ Refuse(r, "invalid_params")
  /\ UNCHANGED <<header, body, wire, ran, reply>>

\* requires_admin, for the role of the caller's token.
Forbidden(r) == CallsTool(body[r], AdminNames) /\ Roles[header[r]] # "admin"

RejectTool(r) ==
  /\ Accepted(r)
  /\ ~ParamsProblem(body[r])
  /\ Forbidden(r)
  /\ Refuse(r, "unauthorized_tool_call")
  /\ UNCHANGED <<header, body, wire, ran, reply>>

Forward(r) ==
  /\ Accepted(r)
  /\ ~ParamsProblem(body[r])
  /\ ~Forbidden(r)
  /\ body[r].encodable
  /\ wire' = [wire EXCEPT ![r] = Payload(body[r])]
  /\ stage' = [stage EXCEPT ![r] = "forwarding"]
  /\ UNCHANGED <<header, body, ran, reply, response>>

\* The payload cannot be encoded: no HTTPError, so nothing catches it.
ForwardRaises(r) ==
  /\ Accepted(r)
  /\ ~ParamsProblem(body[r])
  /\ ~Forbidden(r)
  /\ ~body[r].encodable
  /\ Unhandled(r)
  /\ UNCHANGED <<header, body, wire, ran, reply>>

\* Mutant: a request that got no answer is sent once more.
UnavailableRetries(r) ==
  /\ stage[r] = "forwarding"
  /\ \/ wire[r] # NoPayload /\ Respond(r, "downstream_unavailable", body[r].id)
                            /\ UNCHANGED wire
     \/ /\ wire[r] = NoPayload
        /\ wire' = [wire EXCEPT ![r] = Payload(body[r])]
        /\ UNCHANGED <<stage, response>>
  /\ UNCHANGED <<header, body, ran, reply>>

\* Mutant: the HTTP client has no timeout and notices only a broken connection.
UnavailableOnLoss(r) ==
  /\ stage[r] = "forwarding"
  /\ wire[r] = NoPayload
  /\ r \notin reply
  /\ Respond(r, "downstream_unavailable", body[r].id)
  /\ UNCHANGED <<header, body, wire, ran, reply>>

\* httpx2.HTTPError, of which a timeout is one: it can come before the
\* downstream has the request, while it works, or while its answer is coming.
\* The timeout bounds each wait for the next bytes and not their number; a
\* downstream that keeps sending small pieces is not modelled: an answer
\* arrives whole or not at all.  What was sent had an encodable id.
Unavailable(r) ==
  /\ stage[r] = "forwarding"
  /\ Respond(r, "downstream_unavailable", body[r].id)
  /\ UNCHANGED <<header, body, wire, ran, reply>>

\* The downstream's answer, relayed as it came.
Relay(r) ==
  /\ stage[r] = "forwarding"
  /\ r \in reply
  /\ Respond(r, "result", body[r].id)
  /\ UNCHANGED <<header, body, wire, ran, reply>>

(******************* mock_downstream.py and the connection *******************)
\* rpc(): counted, executed and answered, whether or not anyone still waits.
Execute(r) ==
  /\ wire[r] # NoPayload
  /\ ran' = Append(ran, [request |-> r, payload |-> wire[r]])
  /\ wire' = [wire EXCEPT ![r] = NoPayload]
  /\ reply' = reply \cup {r}
  /\ UNCHANGED <<stage, header, body, response>>

\* The connection breaks, with a request or its answer on it.
Lose(r) ==
  /\ wire[r] # NoPayload \/ r \in reply
  /\ wire' = [wire EXCEPT ![r] = NoPayload]
  /\ reply' = reply \ {r}
  /\ UNCHANGED <<stage, header, body, ran, response>>

Handle(r) ==
  \/ RejectBody(r)
  \/ RejectCaller(r)
  \/ RejectParams(r)
  \/ RejectTool(r)
  \/ Forward(r)
  \/ ForwardRaises(r)
  \/ Unavailable(r)
  \/ Relay(r)

Next == \E r \in Requests :
  \/ \E h \in Headers, b \in Bodies : Submit(r, h, b)
  \/ Handle(r)
  \/ Execute(r)
  \/ Lose(r)

Spec == Init /\ [][Next]_vars

\* The event loop resumes every handler, and the client's timeout fires when
\* the downstream is silent.  It need not answer; that it does not go on
\* sending pieces of an answer for ever is assumed.
FairSpec == Spec /\ \A r \in Requests : WF_vars(Handle(r))

(******************************** Properties *********************************)
TypeOK ==
  /\ stage \in [Requests -> Stages]
  /\ header \in [Requests -> Headers \cup {"none"}]
  /\ body \in [Requests -> Bodies \cup {NoBody}]
  /\ \A r \in Requests : wire[r] # NoPayload => wire[r] = Payload(body[r])
  /\ DOMAIN wire = Requests
  /\ reply \subseteq Requests
  /\ response \in [Requests -> [code : Codes, id : Ids] \cup {NoResponse}]

RanFor(r) == {n \in 1 .. Len(ran) : ran[n].request = r}

\* Deny before forward: whatever the downstream executes, it was asked by a
\* caller with a configured token, and an admin_ tool by an admin.  The tool
\* checked is the tool executed, however often the body names one.
ExecutedWasAuthorized == \A n \in 1 .. Len(ran) :
  LET entry == ran[n] IN
  /\ Authenticated(entry.request)
  /\ entry.payload.name \in AdminNames => Roles[header[entry.request]] = "admin"

\* What a client is told fits what the downstream did: a result was executed
\* once, an error of the gateway's own was not executed at all, and
\* "unavailable" promises neither, but no request is executed twice.
AnswersFitExecutions == \A r \in Requests :
  /\ Cardinality(RanFor(r)) <= 1
  /\ response[r].code = "result" => RanFor(r) # {}
  /\ response[r].code \notin {"none", "result", "downstream_unavailable"} =>
       RanFor(r) = {} /\ wire[r] = NoPayload

\* Every request whose body has arrived is answered, if only with a plain 500,
\* though the downstream may be silent (proxy.py:69-130).
EveryRequestAnswered == \A r \in Requests : stage[r] = "body" ~> stage[r] = "done"

\* The claim of AuthenticationError: what cannot be authenticated is refused
\* as such, when the response can be encoded.
UnknownCallersAreRefused == \A r \in Requests :
  stage[r] = "done" /\ Valid(body[r]) /\ body[r].id # "lone" /\ ~Authenticated(r) =>
    response[r].code = "authentication_required"
=============================================================================
