--------------------------- MODULE McpGatewayProofs ---------------------------
(* Proofs about McpGateway for any number of requests, tokens and tool names: *)
(* deny before forward, and answers that fit what the downstream executed.    *)
EXTENDS McpGateway, FiniteSetTheorems, TLAPS

Asked == {ran[n].request : n \in 1 .. Len(ran)}
Entry == [request : Requests, payload : {Payload(b) : b \in Bodies}]

Types ==
  /\ stage \in [Requests -> Stages]
  /\ header \in [Requests -> Headers \cup {"none"}]
  /\ body \in [Requests -> Bodies \cup {NoBody}]
  /\ wire \in [Requests -> {Payload(b) : b \in Bodies} \cup {NoPayload}]
  /\ ran \in Seq(Entry)
  /\ reply \subseteq Requests
  /\ response \in [Requests -> [code : Codes, id : Ids] \cup {NoResponse}]

\* A request that has left the gateway had passed its checks.
Permitted(r) ==
  /\ stage[r] \in {"forwarding", "done"}
  /\ Authenticated(r)
  /\ ~Forbidden(r)

\* Until a request is sent it has no answer and nobody has heard of it.
Unsent == \A r \in Requests :
  /\ stage[r] # "idle" => body[r] \in Bodies
  /\ stage[r] = "forwarding" => Permitted(r) /\ Valid(body[r]) /\ body[r].encodable
  /\ stage[r] # "done" => response[r] = NoResponse
  /\ stage[r] \in {"idle", "body"} => wire[r] = NoPayload /\ r \notin Asked

Sent == \A r \in Requests : wire[r] # NoPayload =>
  Permitted(r) /\ wire[r] = Payload(body[r]) /\ r \notin Asked

Executed ==
  /\ \A n \in 1 .. Len(ran) :
       Permitted(ran[n].request) /\ ran[n].payload = Payload(body[ran[n].request])
  /\ \A m, n \in 1 .. Len(ran) : ran[m].request = ran[n].request => m = n
  /\ reply \subseteq Asked

Answered == \A r \in Requests :
  /\ response[r].code = "result" => r \in Asked
  /\ response[r].code \notin {"none", "result", "downstream_unavailable"} =>
       r \notin Asked /\ wire[r] = NoPayload

IInv == Types /\ Unsent /\ Sent /\ Executed /\ Answered

\* What a submitted body holds, as far as ids go.
LEMMA ValidId ==
  ASSUME NEW b \in Bodies
  PROVE  /\ Valid(b) \/ RequestProblem(b) => b.id \in Ids \cup {"lone"}
         /\ Valid(b) /\ b.encodable => b.id \in Ids
         /\ Payload(b) # NoPayload
BY BodiesAssumption
DEF Body, Valid, ParseRaises, ParseProblem, IdProblem, RequestProblem, Ids, Payload, NoPayload

\* An error response echoes an id that can be encoded, or none.
LEMMA RefusalId ==
  ASSUME NEW r \in Requests, body[r].id \in Ids \cup {"lone"}, NEW code, Refuse(r, code)
  PROVE  \E said \in {code, "unhandled"}, id \in Ids : Respond(r, said, id)
BY DEF Refuse, Unhandled, Ids

LEMMA EntryRequests ==
  ASSUME Types
  PROVE  \A n \in 1 .. Len(ran) : ran[n].request \in Requests
<1>1. \A n \in 1 .. Len(ran) : ran[n] \in Entry
  BY DEF Types
<1>2. \A e \in Entry : e.request \in Requests
  BY DEF Entry
<1> QED
  BY <1>1, <1>2

LEMMA InitIInv == Init => IInv
<1> SUFFICES ASSUME Init PROVE IInv
  OBVIOUS
<1>1. Types
  BY DEF Init, Types, Stages
<1>2. Asked = {}
  BY DEF Init, Asked
<1>3. Unsent /\ Sent /\ Executed /\ Answered
  BY <1>2 DEF Init, Unsent, Sent, Executed, Answered, NoResponse
<1> QED
  BY <1>1, <1>3 DEF IInv

\* The early returns before the downstream is asked.
LEMMA RefusalKeeps ==
  ASSUME IInv, NEW r \in Requests, stage[r] = "body",
         NEW code \in Codes \ {"result"}, NEW id \in Ids, Respond(r, code, id),
         UNCHANGED <<header, body, wire, ran, reply>>
  PROVE  IInv'
<1>1. /\ stage' = [stage EXCEPT ![r] = "done"]
      /\ response' = [response EXCEPT ![r] = [code |-> code, id |-> id]]
  BY DEF Respond
<1>2. Asked' = Asked
  BY DEF Asked
<1>3. Types'
  BY <1>1 DEF IInv, Types, Stages
<1>4. \A q \in Requests : Permitted(q) => Permitted(q)'
  BY <1>1 DEF IInv, Types, Permitted, Authenticated, Forbidden
<1>5. Unsent'
  BY <1>1, <1>2, <1>4 DEF IInv, Types, Unsent
<1>6. Sent'
  BY <1>2, <1>4 DEF IInv, Sent
<1>7. Executed'
  <2>1. \A n \in 1 .. Len(ran) : ran[n].request \in Requests
    BY EntryRequests DEF IInv
  <2> QED
    BY <1>2, <1>4, <2>1 DEF IInv, Executed
<1>8. Answered'
  <2>1. wire[r] = NoPayload /\ r \notin Asked
    BY DEF IInv, Unsent
  <2>2. SUFFICES ASSUME NEW q \in Requests
                 PROVE /\ response'[q].code = "result" => q \in Asked
                       /\ response'[q].code \notin {"none", "result", "downstream_unavailable"} =>
                            q \notin Asked /\ wire[q] = NoPayload
    BY <1>2 DEF Answered
  <2>3. CASE q = r
    BY <1>1, <2>1, <2>3 DEF IInv, Types
  <2>4. CASE q # r
    BY <1>1, <2>4 DEF IInv, Types, Answered
  <2> QED
    BY <2>3, <2>4
<1> QED
  BY <1>3, <1>5, <1>6, <1>7, <1>8 DEF IInv

\* Sending, and what the downstream and the connection do, in one lemma each.
LEMMA SubmitKeeps ==
  ASSUME IInv, NEW r \in Requests, NEW h \in Headers, NEW b \in Bodies, Submit(r, h, b)
  PROVE  IInv'
<1>1. Asked' = Asked
  BY DEF Asked, Submit
<1>2. Types'
  BY DEF IInv, Types, Stages, Submit
<1>3. \A q \in Requests : Permitted(q) => q # r /\ Permitted(q)'
  BY DEF IInv, Types, Permitted, Authenticated, Forbidden, Submit
<1>4. Unsent'
  BY <1>1, <1>3 DEF IInv, Types, Unsent, Submit
<1>5. Sent'
  BY <1>1, <1>3 DEF IInv, Types, Sent, Submit
<1>6. Executed'
  <2>1. \A n \in 1 .. Len(ran) : ran[n].request \in Requests
    BY EntryRequests DEF IInv
  <2> QED
    BY <1>1, <1>3, <2>1 DEF IInv, Types, Executed, Submit
<1>7. Answered'
  BY <1>1 DEF IInv, Types, Answered, Submit
<1> QED
  BY <1>2, <1>4, <1>5, <1>6, <1>7 DEF IInv

LEMMA ForwardKeeps ==
  ASSUME IInv, NEW r \in Requests, Forward(r)
  PROVE  IInv'
<1>1. Asked' = Asked
  BY DEF Asked, Forward
<1>2. body[r] \in Bodies
  BY DEF IInv, Unsent, Forward, Accepted
<1>3. Types'
  BY <1>2 DEF IInv, Types, Stages, Forward
<1>4. \A q \in Requests : Permitted(q) \/ q = r => Permitted(q)'
  BY DEF IInv, Types, Permitted, Authenticated, Forbidden, Forward, Accepted
<1>5. Unsent'
  BY <1>1, <1>4 DEF IInv, Types, Unsent, Forward, Accepted
<1>6. Sent'
  BY <1>1, <1>4 DEF IInv, Types, Unsent, Sent, Forward, Accepted
<1>7. Executed'
  <2>1. \A n \in 1 .. Len(ran) : ran[n].request \in Requests
    BY EntryRequests DEF IInv
  <2> QED
    BY <1>1, <1>4, <2>1 DEF IInv, Types, Executed, Forward
<1>8. Answered'
  BY <1>1 DEF IInv, Types, Unsent, Answered, Forward, Accepted, NoResponse
<1> QED
  BY <1>3, <1>5, <1>6, <1>7, <1>8 DEF IInv

\* Unavailable and Relay: the end of the one await.
LEMMA AnswerKeeps ==
  ASSUME IInv, NEW r \in Requests, Unavailable(r) \/ Relay(r)
  PROVE  IInv'
<1>1. PICK code \in {"downstream_unavailable", "result"} :
        /\ stage' = [stage EXCEPT ![r] = "done"]
        /\ response' = [response EXCEPT ![r] = [code |-> code, id |-> body[r].id]]
        /\ code = "result" => r \in reply
  BY DEF Unavailable, Relay, Respond
<1>2. UNCHANGED <<header, body, wire, ran, reply>> /\ stage[r] = "forwarding"
  BY DEF Unavailable, Relay
<1>3. Asked' = Asked
  BY <1>2 DEF Asked
<1>4. body[r].id \in Ids
  BY <1>2, ValidId DEF IInv, Unsent
<1>5. Types'
  BY <1>1, <1>2, <1>4 DEF IInv, Types, Stages, Codes
<1>6. \A q \in Requests : Permitted(q) => Permitted(q)'
  BY <1>1, <1>2 DEF IInv, Types, Permitted, Authenticated, Forbidden
<1>7. Unsent'
  BY <1>1, <1>2, <1>3, <1>6 DEF IInv, Types, Unsent
<1>8. Sent'
  BY <1>2, <1>3, <1>6 DEF IInv, Sent
<1>9. Executed'
  <2>1. \A n \in 1 .. Len(ran) : ran[n].request \in Requests
    BY EntryRequests DEF IInv
  <2> QED
    BY <1>2, <1>3, <1>6, <2>1 DEF IInv, Executed
<1>10. Answered'
  <2>1. code = "result" => r \in Asked
    BY <1>1 DEF IInv, Executed
  <2> QED
    BY <1>1, <1>2, <1>3, <2>1 DEF IInv, Types, Answered
<1> QED
  BY <1>5, <1>7, <1>8, <1>9, <1>10 DEF IInv

LEMMA ExecuteKeeps ==
  ASSUME IInv, NEW r \in Requests, Execute(r)
  PROVE  IInv'
<1> DEFINE entry == [request |-> r, payload |-> wire[r]]
<1>1. /\ ran' = Append(ran, entry)
      /\ wire' = [wire EXCEPT ![r] = NoPayload]
      /\ reply' = reply \cup {r}
      /\ UNCHANGED <<stage, header, body, response>>
      /\ wire[r] # NoPayload
  BY DEF Execute
<1>2. Permitted(r) /\ wire[r] = Payload(body[r]) /\ r \notin Asked
  BY <1>1 DEF IInv, Sent
<1>3. ran \in Seq(Entry) /\ entry \in Entry
  BY <1>1 DEF IInv, Types, Entry
<1>4. /\ Len(ran') = Len(ran) + 1
      /\ ran'[Len(ran) + 1] = entry
      /\ \A n \in 1 .. Len(ran) : ran'[n] = ran[n]
      /\ ran' \in Seq(Entry)
      /\ Len(ran) \in Nat
  <2> HIDE DEF entry
  <2> QED
    BY <1>1, <1>3
<1>5. Asked' = Asked \cup {r}
  BY <1>4 DEF Asked
<1>6. Types'
  BY <1>1, <1>4 DEF IInv, Types
<1>7. \A q \in Requests : Permitted(q) => Permitted(q)'
  BY <1>1 DEF Permitted, Authenticated, Forbidden
<1>8. Unsent'
  BY <1>1, <1>2, <1>5, <1>7 DEF IInv, Types, Unsent, Permitted
<1>9. Sent'
  BY <1>1, <1>5, <1>7 DEF IInv, Types, Sent
<1>10. Executed'
  <2>1. \A n \in 1 .. Len(ran) : ran[n].request \in Asked /\ ran[n].request \in Requests
    BY EntryRequests DEF Asked, IInv
  <2>2. ASSUME NEW n \in 1 .. Len(ran')
        PROVE  /\ ran'[n].request \in Requests
               /\ Permitted(ran'[n].request)
               /\ ran'[n].payload = Payload(body[ran'[n].request])
    <3>1. CASE n \in 1 .. Len(ran)
      BY <1>4, <2>1, <3>1 DEF IInv, Executed
    <3>2. CASE n = Len(ran) + 1
      BY <1>2, <1>4, <3>2
    <3> QED
      BY <1>4, <3>1, <3>2
  <2>3. \A m, n \in 1 .. Len(ran') : ran'[m].request = ran'[n].request => m = n
    BY <1>2, <1>4, <2>1 DEF IInv, Executed
  <2>4. reply' \subseteq Asked'
    BY <1>1, <1>5 DEF IInv, Executed
  <2> QED
    BY <1>1, <1>7, <2>2, <2>3, <2>4 DEF Executed
<1>11. Answered'
  BY <1>1, <1>5 DEF IInv, Types, Answered
<1> QED
  BY <1>6, <1>8, <1>9, <1>10, <1>11 DEF IInv

LEMMA LoseKeeps ==
  ASSUME IInv, NEW r \in Requests, Lose(r)
  PROVE  IInv'
<1>1. Asked' = Asked
  BY DEF Asked, Lose
<1>2. Types'
  BY DEF IInv, Types, Lose
<1>3. \A q \in Requests : Permitted(q) => Permitted(q)'
  BY DEF Permitted, Authenticated, Forbidden, Lose
<1>4. Unsent'
  BY <1>1, <1>3 DEF IInv, Types, Unsent, Lose
<1>5. Sent'
  BY <1>1, <1>3 DEF IInv, Types, Sent, Lose
<1>6. Executed'
  <2>1. \A n \in 1 .. Len(ran) : ran[n].request \in Requests
    BY EntryRequests DEF IInv
  <2> QED
    BY <1>1, <1>3, <2>1 DEF IInv, Executed, Lose
<1>7. Answered'
  BY <1>1 DEF IInv, Types, Answered, Lose
<1> QED
  BY <1>2, <1>4, <1>5, <1>6, <1>7 DEF IInv

LEMMA StepIInv == IInv /\ [Next]_vars => IInv'
<1> SUFFICES ASSUME IInv, [Next]_vars PROVE IInv'
  OBVIOUS
<1>1. CASE UNCHANGED vars
  BY <1>1 DEF vars, IInv, Types, Unsent, Sent, Executed, Answered, Asked, Permitted,
              Authenticated, Forbidden
<1>2. ASSUME NEW r \in Requests, NEW h \in Headers, NEW b \in Bodies, Submit(r, h, b)
      PROVE  IInv'
  BY <1>2, SubmitKeeps
<1>3. ASSUME NEW r \in Requests, RejectBody(r) PROVE IInv'
  <2>1. body[r] \in Bodies
    BY <1>3 DEF RejectBody, IInv, Unsent
  <2>2. RequestProblem(body[r]) => body[r].id \in Ids \cup {"lone"}
    BY <2>1, ValidId
  <2>3. PICK code \in {"unhandled", "parse_error", "invalid_request"}, id \in Ids :
          Respond(r, code, id)
    BY <1>3, <2>2, RefusalId DEF RejectBody, Unhandled, Ids
  <2> QED
    BY <1>3, <2>3, RefusalKeeps DEF RejectBody, Codes
<1>4. ASSUME NEW r \in Requests, RejectCaller(r) PROVE IInv'
  <2>1. body[r].id \in Ids \cup {"lone"}
    BY <1>4, ValidId DEF RejectCaller, IInv, Unsent
  <2>2. PICK code \in {"unhandled", "authentication_required"}, id \in Ids : Respond(r, code, id)
    BY <1>4, <2>1, RefusalId DEF RejectCaller, Unhandled, Ids
  <2> QED
    BY <1>4, <2>2, RefusalKeeps DEF RejectCaller, Codes
<1>5. ASSUME NEW r \in Requests, RejectParams(r) \/ RejectTool(r) PROVE IInv'
  <2>1. body[r].id \in Ids \cup {"lone"} /\ stage[r] = "body"
    BY <1>5, ValidId DEF RejectParams, RejectTool, Accepted, IInv, Unsent
  <2>2. PICK code \in {"unhandled", "invalid_params", "unauthorized_tool_call"}, id \in Ids :
          Respond(r, code, id)
    BY <1>5, <2>1, RefusalId DEF RejectParams, RejectTool
  <2> QED
    BY <1>5, <2>1, <2>2, RefusalKeeps DEF RejectParams, RejectTool, Codes
<1>6. ASSUME NEW r \in Requests, ForwardRaises(r) PROVE IInv'
  BY <1>6, RefusalKeeps DEF ForwardRaises, Unhandled, Accepted, Codes, Ids
<1>7. ASSUME NEW r \in Requests, Forward(r) PROVE IInv'
  BY <1>7, ForwardKeeps
<1>8. ASSUME NEW r \in Requests, Unavailable(r) \/ Relay(r) PROVE IInv'
  BY <1>8, AnswerKeeps
<1>9. ASSUME NEW r \in Requests, Execute(r) PROVE IInv'
  BY <1>9, ExecuteKeeps
<1>10. ASSUME NEW r \in Requests, Lose(r) PROVE IInv'
  BY <1>10, LoseKeeps
<1> QED
  BY <1>1, <1>2, <1>3, <1>4, <1>5, <1>6, <1>7, <1>8, <1>9, <1>10 DEF Next, Handle

LEMMA InductiveInvariant == Spec => []IInv
BY InitIInv, StepIInv, PTL DEF Spec

\* Every reachable state of proxy.py's handlers is well typed, and what is on
\* the wire is what handle() parsed of the body it checked.
THEOREM TypeCorrect == Spec => []TypeOK
<1>1. IInv => TypeOK
  BY DEF IInv, Types, Sent, TypeOK
<1> QED
  BY <1>1, InductiveInvariant, PTL

\* Deny before forward, for any set of tools and any roles: whatever the
\* downstream executed was asked for by a caller whose token permits it.
THEOREM ExecutedWasAuthorizedHolds == Spec => []ExecutedWasAuthorized
<1>1. IInv => ExecutedWasAuthorized
  <2> SUFFICES ASSUME IInv, NEW n \in 1 .. Len(ran)
               PROVE  /\ Authenticated(ran[n].request)
                      /\ ran[n].payload.name \in AdminNames =>
                           Roles[header[ran[n].request]] = "admin"
    BY DEF ExecutedWasAuthorized
  <2> DEFINE r == ran[n].request
  <2>1. Authenticated(r) /\ ~Forbidden(r) /\ ran[n].payload = Payload(body[r])
    BY DEF IInv, Executed, Permitted
  <2>2. "none" \notin AdminNames
    BY NamesAssumption
  <2> QED
    BY <2>1, <2>2 DEF Payload, Forbidden, CallsTool
<1> QED
  BY <1>1, InductiveInvariant, PTL

\* The answers of the gateway fit what the downstream did: nothing runs twice,
\* a result was run, a refusal was not.
THEOREM AnswersFitExecutionsHolds == Spec => []AnswersFitExecutions
<1>1. IInv => AnswersFitExecutions
  <2> SUFFICES ASSUME IInv, NEW r \in Requests
               PROVE  /\ Cardinality(RanFor(r)) <= 1
                      /\ response[r].code = "result" => RanFor(r) # {}
                      /\ response[r].code \notin {"none", "result", "downstream_unavailable"} =>
                           RanFor(r) = {} /\ wire[r] = NoPayload
    BY DEF AnswersFitExecutions
  <2>1. RanFor(r) = {} <=> r \notin Asked
    BY DEF RanFor, Asked
  <2>2. CASE RanFor(r) = {}
    BY <2>1, <2>2, FS_EmptySet DEF IInv, Answered
  <2>3. CASE RanFor(r) # {}
    <3>1. PICK n : RanFor(r) = {n}
      BY <2>3 DEF RanFor, IInv, Executed
    <3> QED
      <4>1. Cardinality(RanFor(r)) = 1
        BY <3>1, FS_Singleton
      <4> QED
        BY <2>1, <2>3, <4>1 DEF IInv, Answered
  <2> QED
    BY <2>2, <2>3
<1> QED
  BY <1>1, InductiveInvariant, PTL
=============================================================================
