----------------------------- MODULE McpGateway -----------------------------
(***************************************************************************)
(* The JSON-RPC reverse proxy of task2_mcp_gateway: authenticate, parse,   *)
(* classify, then answer or forward (app.py, auth.py, policy.py), for      *)
(* concurrent requests over one downstream MCP server.                     *)
(*                                                                         *)
(* The downstream is outside src/: a call that reaches it runs, its answer *)
(* may come late or never, and the connection may fail before or after.    *)
(***************************************************************************)
EXTENDS Integers, FiniteSets

CONSTANTS
  Requests,
  FilterToolList   \* GatewayConfig.filter_tool_list

ASSUME GatewayAssumption == FilterToolList \in BOOLEAN

(* The Authorization header: absent or unusable, not in the token table,   *)
(* or the token of a role.                                                 *)
Credentials == {"none", "unknown", "viewer", "admin"}

(* What json.loads makes of a body that is not a call. *)
BadBodies == {"notJson", "notText", "batch", "scalar", "noMethod"}

(* The tool named by a call's params: none that can be read, or one with   *)
(* or without the admin_ prefix.                                           *)
Tools == {"plain", "admin_"}
Methods == {"tools/call", "tools/list", "other"}

(* The id member of a body: not there; one that JSON-RPC allows (null, or  *)
(* a number, the one that is falsy in Python); a boolean; or one that no   *)
(* answer can carry (a list, an object, a number that JSON cannot write).  *)
JsonRpcIds == {"null", "0"}
Ids == JsonRpcIds \cup {"absent", "true", "unanswerable"}

(* Only tools/call has its params looked at. *)
Calls ==
  [method: {"tools/call"}, tool: Tools \cup {"unreadable"}, id: Ids] \cup
  [method: Methods \ {"tools/call"}, tool: {"unreadable"}, id: Ids]

(* A request that has not come yet, and one that is not a call. *)
NotACall(kind, id) == [method |-> kind, tool |-> "unreadable", id |-> id]

VARIABLES
  stage,       \* "new", "reading", "deciding", "forwarding", "answered"
  credential,  \* the Authorization header of each request
  call,        \* what its body holds
  posted,      \* the requests sent on to the downstream
  runs,        \* times the downstream ran it
  reply,       \* what the downstream answered, not yet relayed
  answer       \* what the client got: its status and its body

vars == <<stage, credential, call, posted, runs, reply, answer>>

NoAnswer == [status |-> 0, body |-> "none", id |-> "none"]

-----------------------------------------------------------------------------
(* auth.py and policy.py. *)

Authenticated(r) == credential[r] \in {"viewer", "admin"}
IsAdmin(r) == credential[r] = "admin"

(* Mutant: everything that names no tool is let through. *)
AllowUnreadable(r) ==
  call[r].method = "tools/call" => IsAdmin(r) \/ call[r].tool # "admin_"

(* decide(): only tools/call is gated; one that names no tool is refused.  *)
Allow(r) ==
  call[r].method = "tools/call" =>
    call[r].tool # "unreadable" /\ (IsAdmin(r) \/ call[r].tool # "admin_")

(* visible_tools() *)
VisibleTools(tools, r) == IF IsAdmin(r) THEN tools ELSE tools \ {"admin_"}

-----------------------------------------------------------------------------
(* common/jsonrpc.py. *)

(* Mutant: an id that is not there, or might as well not be. *)
IsNotificationIfFalsy(r) == call[r].id \in {"absent", "null", "0"}

(* is_notification: the member is absent. *)
IsNotification(r) == call[r].id = "absent"

(* What payload.get("id") returns, validated as RequestId: a union without *)
(* booleans, which its int member takes for numbers.                       *)
Echo(id) ==
  CASE id = "absent" -> "null"
    [] id = "true" -> "1"
    [] OTHER -> id

-----------------------------------------------------------------------------

Init ==
  /\ stage = [r \in Requests |-> "new"]
  /\ credential = [r \in Requests |-> "none"]
  /\ call = [r \in Requests |-> NotACall("notJson", "absent")]
  /\ posted = {}
  /\ runs = [r \in Requests |-> 0]
  /\ reply = [r \in Requests |-> NoAnswer]
  /\ answer = [r \in Requests |-> NoAnswer]

Goto(r, where) == stage' = [stage EXCEPT ![r] = where]

Answer(r, status, body) ==
  /\ Goto(r, "answered")
  /\ answer' = [answer EXCEPT ![r] = [status |-> status, body |-> body, id |-> "none"]]

Silence(r) == Answer(r, 204, "none")

(* error_response, in HTTP 200; an id that cannot be answered breaks it.   *)
ErrorResponse(r, id, error) ==
  IF id = "unanswerable" THEN Answer(r, 500, "none")
  ELSE /\ Goto(r, "answered")
       /\ answer' = [answer EXCEPT ![r] = [status |-> 200, body |-> error, id |-> Echo(id)]]

(* No credential, no parsing: 401 before the body is read. *)
Arrive(r) ==
  /\ stage[r] = "new"
  /\ \E c \in Credentials :
       /\ credential' = [credential EXCEPT ![r] = c]
       /\ IF c \in {"viewer", "admin"} THEN Goto(r, "reading") /\ UNCHANGED answer
          ELSE Answer(r, 401, "unauthorized")
  /\ UNCHANGED <<call, posted, runs, reply>>

(* A body that is no call is answered for what it is; bytes that are not   *)
(* text make json.loads raise what the handler does not catch.             *)
RejectBody(r) ==
  /\ stage[r] = "reading"
  /\ \E kind \in BadBodies, id \in Ids :
       /\ kind # "noMethod" => id = "absent"
       /\ call' = [call EXCEPT ![r] = NotACall(kind, id)]
       /\ CASE kind = "notText" -> Answer(r, 500, "none")
            [] kind = "notJson" -> ErrorResponse(r, id, "-32700")
            [] OTHER -> ErrorResponse(r, id, "-32600")
  /\ UNCHANGED <<credential, posted, runs, reply>>

Parse(r) ==
  /\ stage[r] = "reading"
  /\ \E c \in Calls : call' = [call EXCEPT ![r] = c]
  /\ Goto(r, "deciding")
  /\ UNCHANGED <<credential, posted, runs, reply, answer>>

Deny(r) ==
  /\ stage[r] = "deciding" /\ ~Allow(r)
  /\ IF IsNotification(r) THEN Silence(r) ELSE ErrorResponse(r, call[r].id, "-32001")
  /\ UNCHANGED <<credential, call, posted, runs, reply>>

Forward(r) ==
  /\ stage[r] = "deciding" /\ Allow(r)
  /\ Goto(r, "forwarding")
  /\ posted' = posted \cup {r}
  /\ UNCHANGED <<credential, call, runs, reply, answer>>

(* The downstream runs what was posted to it, once; a request that was     *)
(* given up may still be on its way.                                       *)
DownstreamRuns(r) ==
  /\ r \in posted /\ runs[r] = 0
  /\ runs' = [runs EXCEPT ![r] = 1]
  /\ UNCHANGED <<stage, credential, call, posted, reply, answer>>

(* Its answer, with any HTTP status: a list of tools where the filter      *)
(* looks, in result.tools; one where it does not, in a JSON array or an    *)
(* object of another shape, or in a body that is not JSON, an event stream *)
(* among them; no list; or a result that is not an object.                 *)
ToolLists == {"tools", "unreadTools"}
Replies == ToolLists \cup {"noTools", "resultNotAnObject"}
Statuses == {200, 503}

(* A server or a proxy in front of it may also answer for a call that it   *)
(* does not run, but then names no tools.                                  *)
DownstreamReplies(r) ==
  /\ stage[r] = "forwarding" /\ reply[r] = NoAnswer
  /\ \E status \in Statuses, body \in Replies :
       /\ body \in ToolLists => runs[r] > 0
       /\ reply' = [reply EXCEPT ![r] = [status |-> status, body |-> body, id |-> "none"]]
  /\ UNCHANGED <<stage, credential, call, posted, runs, answer>>

(* Mutant: the post is tried again, and what ran once runs a second time. *)
RetryForward(r) ==
  /\ stage[r] = "forwarding"
  /\ Goto(r, "deciding")
  /\ runs' = [runs EXCEPT ![r] = IF @ = 0 THEN 0 ELSE 2]
  /\ UNCHANGED <<credential, call, posted, reply, answer>>

(* httpx2.HTTPError: refused, reset, or timed out, before the call ran or  *)
(* after, and before all of an answer is in.                               *)
ForwardFails(r) ==
  /\ stage[r] = "forwarding" /\ reply[r] = NoAnswer
  /\ IF IsNotification(r) THEN Silence(r) ELSE ErrorResponse(r, call[r].id, "unreachable")
  /\ UNCHANGED <<credential, call, posted, runs, reply>>

Filtering(r) == FilterToolList /\ call[r].method = "tools/list"

(* Mutant: the filter is left to the call-time check. *)
RelayUnfiltered(r) ==
  /\ stage[r] = "forwarding" /\ reply[r] # NoAnswer
  /\ IF IsNotification(r) THEN Silence(r) ELSE Answer(r, reply[r].status, reply[r].body)
  /\ UNCHANGED <<credential, call, posted, runs, reply>>

(* _relay: as it is, unless a tools/list answer is to be filtered; one     *)
(* whose result is no object breaks the filter.                            *)
Relay(r) ==
  /\ stage[r] = "forwarding" /\ reply[r] # NoAnswer
  /\ IF IsNotification(r) THEN Silence(r)
     ELSE CASE Filtering(r) /\ reply[r].body = "tools" ->
                 Answer(r, reply[r].status,
                        IF "admin_" \in VisibleTools(Tools, r) THEN "tools" ELSE "plainTools")
            [] Filtering(r) /\ reply[r].body = "resultNotAnObject" -> Answer(r, 500, "none")
            [] OTHER -> Answer(r, reply[r].status, reply[r].body)
  /\ UNCHANGED <<credential, call, posted, runs, reply>>

Terminating ==
  /\ \A r \in Requests : stage[r] = "answered"
  /\ UNCHANGED vars

(* The handler once it has the body. *)
Handle(r) == Deny(r) \/ Forward(r) \/ ForwardFails(r) \/ Relay(r)
Gateway(r) == RejectBody(r) \/ Parse(r) \/ Handle(r)

Next ==
  \/ \E r \in Requests :
       \/ Arrive(r) \/ Gateway(r)
       \/ DownstreamRuns(r) \/ DownstreamReplies(r)
  \/ Terminating

Spec == Init /\ [][Next]_vars

(* The event loop goes on with every request it has the body of; nothing   *)
(* bounds the wait for a client that does not send the rest of it.         *)
(* request_timeout bounds each wait for the downstream, so one that falls  *)
(* silent is given up; that one which sends a little of its answer for     *)
(* ever comes to an end is assumed here.                                   *)
FairSpec == Spec /\ \A r \in Requests : WF_vars(Handle(r))
-----------------------------------------------------------------------------
(* Properties. *)

GatewayErrors == {"-32700", "-32600", "-32001", "unreachable"}
Bodies == Replies \cup GatewayErrors \cup {"none", "unauthorized", "plainTools"}

(* Requests and answers are of the kinds the code knows, and what was      *)
(* posted once runs at most once.                                          *)
TypeOK ==
  /\ stage \in [Requests -> {"new", "reading", "deciding", "forwarding", "answered"}]
  /\ credential \in [Requests -> Credentials]
  /\ call \in [Requests -> Calls \cup {NotACall(kind, id) : kind \in BadBodies, id \in Ids}]
  /\ posted \subseteq Requests
  /\ runs \in [Requests -> 0..1]
  /\ reply \in [Requests -> [status: Statuses, body: Replies, id: {"none"}] \cup {NoAnswer}]
  /\ answer \in [Requests -> [status: Statuses \cup {0, 204, 401, 500}, body: Bodies,
                           id: Ids \cup {"1", "none"}]]

(* app.py:3-9, "the order is the security property": what the downstream   *)
(* ran was sent by somebody known, and a tool call among it named a tool   *)
(* its sender is entitled to.                                              *)
OnlyEntitledCallsRun ==
  \A r \in Requests : runs[r] > 0 =>
    /\ Authenticated(r)
    /\ call[r].method \in Methods
    /\ call[r].method = "tools/call" =>
         call[r].tool = "plain" \/ (call[r].tool = "admin_" /\ IsAdmin(r))

(* jsonrpc.py:72-74, 104-106, "A notification must receive no response,    *)
(* ever": of the call itself, refused, failed or answered, its sender sees *)
(* nothing, and a request, its id 0 or null too, is never mistaken for     *)
(* one.  An error that the gateway makes up, wherever the request failed,  *)
(* carries the request's own id when that is one JSON-RPC allows, and null *)
(* when there is none.  (A boolean comes back as a number, which           *)
(* ErrorsKeepTheId is about.)                                              *)
AnswersFindTheirRequest ==
  \A r \in Requests : stage[r] = "answered" /\ Authenticated(r) =>
    /\ call[r].method \in Methods /\ call[r].id = "absent" =>
         answer[r].status = 204 /\ answer[r].body = "none"
    /\ call[r].id # "absent" => answer[r].status # 204
    /\ answer[r].body \in GatewayErrors =>
         /\ call[r].id \in JsonRpcIds => answer[r].id = call[r].id
         /\ call[r].id = "absent" => answer[r].id = "null"

(* README.md:116-117 of task 2: with the filter on, a list of tools that a *)
(* viewer gets has lost those it may not call, unless the list came in a   *)
(* form that the filter does not read and relays as it is.                 *)
ViewersSeeNoAdminTools ==
  \A r \in Requests :
    FilterToolList /\ call[r].method = "tools/list" /\ answer[r].body \in ToolLists =>
      IsAdmin(r) \/ answer[r].body = "unreadTools"

(* Every request whose call has been read is answered, though the          *)
(* downstream may fall silent before or after it ran it.                   *)
RequestsAnswered == \A r \in Requests : stage[r] = "deciding" ~> stage[r] = "answered"

(* README.md:87-88 of task 2: "The error echoes the original `id`". *)
ErrorsKeepTheId ==
  \A r \in Requests : answer[r].body \in GatewayErrors /\ call[r].id # "absent" =>
    answer[r].id = call[r].id

(* README.md:116-117 of task 2, of every form a list may come in. *)
HiddenToolsStayHidden ==
  \A r \in Requests :
    FilterToolList /\ call[r].method = "tools/list" /\ answer[r].body \in ToolLists => IsAdmin(r)

(* app.py:133: "Downstream MCP server is unreachable" -- the call did not  *)
(* get there.                                                              *)
UnreachableMeansNotRun ==
  \A r \in Requests : answer[r].body = "unreachable" => runs[r] = 0

(* README.md:68 of task 2: "Once authenticated, everything else rides on   *)
(* HTTP 200 with an `error` body, per JSON-RPC."                           *)
AuthenticatedGets200 ==
  \A r \in Requests : Authenticated(r) => answer[r].status \in {0, 200, 204}
=============================================================================
