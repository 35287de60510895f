-------------------------- MODULE McpGatewayProofs --------------------------
(***************************************************************************)
(* Theorems about McpGateway, for any set of requests and either setting   *)
(* of the filter.                                                          *)
(***************************************************************************)
EXTENDS McpGateway, TLAPS

AllCalls == Calls \cup {NotACall(kind, id) : kind \in BadBodies, id \in Ids}

-----------------------------------------------------------------------------
(* Type correctness. *)

LEMMA CallShapes ==
  /\ \A c \in Calls : /\ c.method \in Methods /\ c.id \in Ids
                      /\ c.tool \in {"plain", "admin_", "unreadable"}
  /\ \A kind \in BadBodies, id \in Ids :
       /\ NotACall(kind, id) \in AllCalls
       /\ NotACall(kind, id).method = kind /\ NotACall(kind, id).id = id
  /\ \A c \in AllCalls : c.id \in Ids
BY DEF Calls, AllCalls, NotACall, Methods, Tools, BadBodies, Ids, JsonRpcIds

Stages == {"new", "reading", "deciding", "forwarding", "answered"}

(* What a client gets. *)
AnswerType == [status: Statuses \cup {0, 204, 401, 500}, body: Bodies, id: Ids \cup {"1", "none"}]

LEMMA AnswerShapes ==
  /\ \A status \in Statuses \cup {204, 401, 500}, body \in Bodies :
       [status |-> status, body |-> body, id |-> "none"] \in AnswerType
  /\ \A id \in Ids, error \in GatewayErrors :
       [status |-> 200, body |-> error, id |-> Echo(id)] \in AnswerType
  /\ [status |-> 204, body |-> "none", id |-> "none"] \in AnswerType
  /\ [status |-> 500, body |-> "none", id |-> "none"] \in AnswerType
  /\ [status |-> 401, body |-> "unauthorized", id |-> "none"] \in AnswerType
BY DEF AnswerType, Bodies, Echo, Ids, JsonRpcIds, Statuses

(* The gateway answers a request with x. *)
Gets(r, x) ==
  /\ stage' = [stage EXCEPT ![r] = "answered"]
  /\ answer' = [answer EXCEPT ![r] = x]

LEMMA TypeInit == Init => TypeOK
<1>. SUFFICES ASSUME Init
              PROVE  TypeOK
  OBVIOUS
<1>1. NotACall("notJson", "absent") \in AllCalls
  BY CallShapes DEF BadBodies, Ids
<1>. QED
  BY <1>1 DEF Init, TypeOK, AllCalls, NoAnswer, Bodies, Credentials

LEMMA TypeStep == TypeOK /\ [Next]_vars => TypeOK'
<1>. SUFFICES ASSUME TypeOK, [Next]_vars
              PROVE  TypeOK'
  OBVIOUS
<1>0. /\ stage \in [Requests -> {"new", "reading", "deciding", "forwarding", "answered"}]
      /\ credential \in [Requests -> Credentials]
      /\ call \in [Requests -> AllCalls]
      /\ posted \subseteq Requests
      /\ runs \in [Requests -> 0..1]
      /\ reply \in [Requests -> [status: Statuses, body: Replies, id: {"none"}] \cup {NoAnswer}]
      /\ answer \in [Requests -> AnswerType]
  BY DEF TypeOK, AllCalls, AnswerType, Stages
<1>. DEFINE Typed == /\ stage' \in [Requests -> Stages]
                     /\ answer' \in [Requests -> AnswerType]
<1>1. ASSUME NEW r \in Requests, Arrive(r)
      PROVE  TypeOK'
  <2>1. PICK c \in Credentials :
          /\ credential' = [credential EXCEPT ![r] = c]
          /\ \/ stage' = [stage EXCEPT ![r] = "reading"] /\ answer' = answer
             \/ \E x \in AnswerType : Gets(r, x)
    BY <1>1, AnswerShapes DEF Arrive, Goto, Answer, Gets
  <2>2. Typed
    <3>1. CASE stage' = [stage EXCEPT ![r] = "reading"] /\ answer' = answer
      BY <1>0, <3>1 DEF Stages
    <3>2. CASE \E x \in AnswerType : Gets(r, x)
      BY <1>0, <3>2 DEF Gets, Stages
    <3>. QED
      BY <2>1, <3>1, <3>2
  <2>3. credential' \in [Requests -> Credentials]
    BY <1>0, <2>1
  <2>. QED
    BY <1>0, <1>1, <2>2, <2>3 DEF TypeOK, Arrive, AllCalls, AnswerType, Stages
<1>2. ASSUME NEW r \in Requests, RejectBody(r)
      PROVE  TypeOK'
  <2>1. PICK kind \in BadBodies, id \in Ids :
          /\ call' = [call EXCEPT ![r] = NotACall(kind, id)]
          /\ \E x \in AnswerType : Gets(r, x)
    <3>1. PICK kind \in BadBodies, id \in Ids :
            /\ call' = [call EXCEPT ![r] = NotACall(kind, id)]
            /\ \/ Answer(r, 500, "none")
               \/ ErrorResponse(r, id, "-32700")
               \/ ErrorResponse(r, id, "-32600")
      BY <1>2 DEF RejectBody
    <3>2. "-32700" \in GatewayErrors /\ "-32600" \in GatewayErrors
      BY DEF GatewayErrors
    <3>3. Answer(r, 500, "none") => \E x \in AnswerType : Gets(r, x)
      BY AnswerShapes DEF Answer, Goto, Gets
    <3>4. ErrorResponse(r, id, "-32700") => \E x \in AnswerType : Gets(r, x)
      BY <3>2, AnswerShapes DEF ErrorResponse, Answer, Goto, Gets
    <3>5. ErrorResponse(r, id, "-32600") => \E x \in AnswerType : Gets(r, x)
      BY <3>2, AnswerShapes DEF ErrorResponse, Answer, Goto, Gets
    <3>6. \E x \in AnswerType : Gets(r, x)
      BY <3>1, <3>3, <3>4, <3>5
    <3>. QED
      BY <3>1, <3>6
  <2>2. Typed
    BY <1>0, <2>1 DEF Gets, Stages
  <2>3. call' \in [Requests -> AllCalls]
    BY <1>0, <2>1, CallShapes
  <2>. QED
    BY <1>0, <1>2, <2>2, <2>3 DEF TypeOK, RejectBody, AllCalls, AnswerType, Stages
<1>3. ASSUME NEW r \in Requests, Parse(r)
      PROVE  TypeOK'
  <2>1. Typed /\ call' \in [Requests -> AllCalls]
    BY <1>0, <1>3 DEF Parse, Goto, AllCalls, Stages
  <2>. QED
    BY <1>0, <1>3, <2>1 DEF TypeOK, Parse, AllCalls, AnswerType, Stages
<1>4. ASSUME NEW r \in Requests, Deny(r) \/ ForwardFails(r)
      PROVE  TypeOK'
  <2>1. call[r].id \in Ids
    BY <1>0, CallShapes
  <2>2. \E x \in AnswerType : Gets(r, x)
    <3>1. \/ Silence(r)
          \/ ErrorResponse(r, call[r].id, "-32001")
          \/ ErrorResponse(r, call[r].id, "unreachable")
      BY <1>4 DEF Deny, ForwardFails
    <3>2. "-32001" \in GatewayErrors /\ "unreachable" \in GatewayErrors
      BY DEF GatewayErrors
    <3>3. CASE Silence(r)
      BY <3>3, AnswerShapes DEF Silence, Answer, Goto, Gets
    <3>4. CASE ErrorResponse(r, call[r].id, "-32001")
      BY <2>1, <3>2, <3>4, AnswerShapes DEF ErrorResponse, Answer, Goto, Gets
    <3>5. CASE ErrorResponse(r, call[r].id, "unreachable")
      BY <2>1, <3>2, <3>5, AnswerShapes DEF ErrorResponse, Answer, Goto, Gets
    <3>. QED
      BY <3>1, <3>3, <3>4, <3>5
  <2>3. Typed
    BY <1>0, <2>2 DEF Gets, Stages
  <2>. QED
    BY <1>0, <1>4, <2>3 DEF TypeOK, Deny, ForwardFails, AllCalls, AnswerType, Stages
<1>5. ASSUME NEW r \in Requests, Forward(r)
      PROVE  TypeOK'
  <2>1. Typed
    BY <1>0, <1>5 DEF Forward, Goto, Stages
  <2>. QED
    BY <1>0, <1>5, <2>1 DEF TypeOK, Forward, AllCalls, AnswerType, Stages
<1>6. ASSUME NEW r \in Requests, DownstreamRuns(r)
      PROVE  TypeOK'
  BY <1>0, <1>6 DEF TypeOK, DownstreamRuns, AllCalls, AnswerType, Stages
<1>7. ASSUME NEW r \in Requests, DownstreamReplies(r)
      PROVE  TypeOK'
  BY <1>0, <1>7 DEF TypeOK, DownstreamReplies, AllCalls, AnswerType, Stages
<1>8. ASSUME NEW r \in Requests, Relay(r)
      PROVE  TypeOK'
  <2>1. reply[r].status \in Statuses /\ reply[r].body \in Replies
    BY <1>0, <1>8 DEF Relay
  <2>2. /\ reply[r].status \in Statuses \cup {204, 401, 500}
        /\ reply[r].body \in Bodies /\ "plainTools" \in Bodies /\ "tools" \in Bodies
    BY <2>1 DEF Bodies, Replies, ToolLists
  <2>3. \E x \in AnswerType : Gets(r, x)
    BY <1>8, <2>2, AnswerShapes DEF Relay, Silence, Answer, Gets, Goto
  <2>4. Typed
    BY <1>0, <2>3 DEF Gets, Stages
  <2>. QED
    BY <1>0, <1>8, <2>4 DEF TypeOK, Relay, AllCalls, AnswerType, Stages
<1>9. CASE UNCHANGED vars
  BY <1>0, <1>9 DEF TypeOK, vars, AllCalls, AnswerType, Stages
<1>. QED
  BY <1>1, <1>2, <1>3, <1>4, <1>5, <1>6, <1>7, <1>8, <1>9 DEF Next, Gateway, Handle, Terminating

(* Requests, replies and answers are of the kinds the code knows, and what  *)
(* was posted once runs at most once.                                       *)
THEOREM GatewayTyping == Spec => []TypeOK
BY TypeInit, TypeStep, PTL DEF Spec

-----------------------------------------------------------------------------
(* What holds of each request at every stage of its way through the        *)
(* gateway.  The order of the checks is in it: nothing is read before the  *)
(* credential is known, nothing is decided before it is read, and what was *)
(* posted had been let through with the credential and call it still has.  *)
OrderInv(r) ==
  /\ stage[r] # "answered" => answer[r] = NoAnswer
  /\ stage[r] \in {"reading", "deciding", "forwarding"} => Authenticated(r)
  /\ stage[r] \in {"deciding", "forwarding"} => call[r] \in Calls
  /\ r \in posted => /\ stage[r] \in {"forwarding", "answered"}
                     /\ Authenticated(r) /\ call[r] \in Calls /\ Allow(r)
  /\ stage[r] = "forwarding" => r \in posted
  /\ runs[r] > 0 => r \in posted

(* Its client got what AnswersFindTheirRequest and ViewersSeeNoAdminTools  *)
(* say.                                                                    *)
FindsRequest(r) ==
  stage[r] = "answered" /\ Authenticated(r) =>
    /\ call[r].method \in Methods /\ call[r].id = "absent" =>
         answer[r].status = 204 /\ answer[r].body = "none"
    /\ call[r].id # "absent" => answer[r].status # 204
    /\ answer[r].body \in GatewayErrors =>
         /\ call[r].id \in JsonRpcIds => answer[r].id = call[r].id
         /\ call[r].id = "absent" => answer[r].id = "null"

ShowsNoAdminTools(r) ==
  FilterToolList /\ call[r].method = "tools/list" /\ answer[r].body \in ToolLists =>
    IsAdmin(r) \/ answer[r].body = "unreadTools"

RequestInv(r) == OrderInv(r) /\ FindsRequest(r) /\ ShowsNoAdminTools(r)

GatewayInv == TypeOK /\ \A r \in Requests : RequestInv(r)

LEMMA InvInit == Init => GatewayInv
<1>. SUFFICES ASSUME Init
              PROVE  GatewayInv
  OBVIOUS
<1>1. ASSUME NEW r \in Requests
      PROVE  RequestInv(r)
  BY
     DEF Init, RequestInv, OrderInv, FindsRequest, ShowsNoAdminTools, ToolLists, NoAnswer,
         Authenticated
<1>. QED
  BY <1>1, TypeInit DEF GatewayInv

(* A step of one request leaves every other as it was. *)
LEMMA OthersKeepInv ==
  ASSUME TypeOK, NEW r \in Requests, NEW q \in Requests \ {r},
         Arrive(r) \/ Gateway(r) \/ DownstreamRuns(r) \/ DownstreamReplies(r),
         RequestInv(q)
  PROVE  RequestInv(q)'
<1>1. /\ stage'[q] = stage[q]
      /\ answer'[q] = answer[q]
  BY
     DEF TypeOK, Arrive, Gateway, Handle, DownstreamRuns, DownstreamReplies, RejectBody, Parse,
         Deny,
         Forward, ForwardFails, Relay, Silence, ErrorResponse, Answer, Goto
<1>2. /\ credential'[q] = credential[q]
      /\ call'[q] = call[q]
      /\ runs'[q] = runs[q]
      /\ q \in posted' <=> q \in posted
  BY
     DEF TypeOK, Arrive, Gateway, Handle, DownstreamRuns, DownstreamReplies, RejectBody, Parse,
         Deny,
         Forward, ForwardFails, Relay
<1>. QED
  BY <1>1, <1>2
     DEF RequestInv, OrderInv, FindsRequest, ShowsNoAdminTools, ToolLists, Authenticated,
         IsAdmin, Allow

(* And a step of the request itself keeps what holds of it. *)
LEMMA OwnStepKeepsInv ==
  ASSUME TypeOK, NEW r \in Requests, RequestInv(r),
         Arrive(r) \/ Gateway(r) \/ DownstreamRuns(r) \/ DownstreamReplies(r)
  PROVE  RequestInv(r)'
<1>0. /\ stage \in [Requests -> Stages]
      /\ DOMAIN credential = Requests
      /\ DOMAIN call = Requests /\ call[r].id \in Ids
      /\ runs \in [Requests -> 0..1]
      /\ DOMAIN reply = Requests
      /\ reply[r] # NoAnswer => reply[r].status \in Statuses /\ reply[r].body \in Replies
      /\ DOMAIN answer = Requests
  BY CallShapes DEF TypeOK, Stages, AllCalls
<1>. DEFINE Same == /\ credential'[r] = credential[r] /\ call'[r] = call[r]
                    /\ r \in posted' <=> r \in posted
                    /\ runs'[r] = runs[r]
<1>1. CASE Arrive(r)
  <2>1. /\ r \notin posted /\ runs[r] = 0 /\ posted' = posted /\ runs' = runs
        /\ call' = call
    BY <1>0, <1>1 DEF Arrive, RequestInv, OrderInv
  <2>2. CASE stage' = [stage EXCEPT ![r] = "reading"] /\ answer' = answer /\ Authenticated(r)'
    BY <1>0, <1>1, <2>1, <2>2
       DEF Arrive, RequestInv, OrderInv, FindsRequest, ShowsNoAdminTools, ToolLists, NoAnswer
  <2>3. CASE Gets(r, [status |-> 401, body |-> "unauthorized", id |-> "none"]) /\ ~Authenticated(r)'
    BY <1>0, <1>1, <2>1, <2>3
       DEF Gets, RequestInv, OrderInv, FindsRequest, ShowsNoAdminTools, ToolLists
  <2>4. PICK c \in Credentials :
          /\ credential' = [credential EXCEPT ![r] = c]
          /\ IF c \in {"viewer", "admin"} THEN Goto(r, "reading") /\ UNCHANGED answer
             ELSE Answer(r, 401, "unauthorized")
    BY <1>1 DEF Arrive
  <2>5. credential'[r] = c
    BY <1>0, <2>4
  <2>. QED
    BY <2>2, <2>3, <2>4, <2>5 DEF Authenticated, Goto, Answer, Gets
<1>2. CASE RejectBody(r)
  <2>1. PICK kind \in BadBodies, id \in Ids :
          /\ kind # "noMethod" => id = "absent"
          /\ call' = [call EXCEPT ![r] = NotACall(kind, id)]
          /\ CASE kind = "notText" -> Answer(r, 500, "none")
               [] kind = "notJson" -> ErrorResponse(r, id, "-32700")
               [] OTHER -> ErrorResponse(r, id, "-32600")
    BY <1>2 DEF RejectBody
  <2>2. /\ call'[r].method \notin Methods /\ call'[r].method # "tools/list"
        /\ call'[r].id = id
    BY <1>0, <2>1 DEF NotACall, BadBodies, Methods
  <2>3. /\ r \notin posted /\ runs[r] = 0 /\ posted' = posted /\ runs' = runs
    BY <1>0, <1>2 DEF RejectBody, RequestInv, OrderInv
  <2>4. /\ stage'[r] = "answered"
        /\ \/ answer'[r] = [status |-> 500, body |-> "none", id |-> "none"] /\ (id = "unanswerable" \/ id = "absent")
           \/ \E error \in GatewayErrors : answer'[r] = [status |-> 200, body |-> error, id |-> Echo(id)]
    <3>1. CASE Answer(r, 500, "none") /\ id = "absent"
      BY <1>0, <3>1 DEF Answer, Goto
    <3>2. CASE ErrorResponse(r, id, "-32700") \/ ErrorResponse(r, id, "-32600")
      BY <1>0, <3>2 DEF ErrorResponse, Answer, Goto, GatewayErrors
    <3>. QED
      BY <2>1, <3>1, <3>2
  <2>. QED
    BY <2>2, <2>3, <2>4
       DEF RequestInv, OrderInv, FindsRequest, ShowsNoAdminTools, ToolLists, GatewayErrors, Echo,
           Ids, JsonRpcIds
<1>3. CASE Parse(r)
  BY <1>0, <1>3
     DEF Parse, Goto, RequestInv, OrderInv, FindsRequest, ShowsNoAdminTools, ToolLists,
         Authenticated, NoAnswer
<1>4. CASE Deny(r) \/ ForwardFails(r)
  <2>1. Same /\ stage[r] \in {"deciding", "forwarding"} /\ (r \in posted => stage[r] = "forwarding")
    BY <1>0, <1>4 DEF Deny, ForwardFails, RequestInv, OrderInv
  <2>2. /\ stage'[r] = "answered"
        /\ CASE call[r].id = "absent" -> answer'[r] = [status |-> 204, body |-> "none", id |-> "none"]
             [] call[r].id = "unanswerable" -> answer'[r] = [status |-> 500, body |-> "none", id |-> "none"]
             [] OTHER -> \E error \in {"-32001", "unreachable"} :
                           answer'[r] = [status |-> 200, body |-> error, id |-> Echo(call[r].id)]
    BY <1>0, <1>4 DEF Deny, ForwardFails, IsNotification, Silence, ErrorResponse, Answer, Goto, Echo
  <2>. QED
    BY <1>0, <2>1, <2>2
       DEF RequestInv, OrderInv, FindsRequest, ShowsNoAdminTools, ToolLists, Authenticated,
           IsAdmin, Allow, GatewayErrors, Echo, Ids, JsonRpcIds
<1>5. CASE Forward(r)
  <2>1. /\ stage'[r] = "forwarding" /\ r \in posted'
        /\ credential' = credential /\ call' = call /\ answer' = answer /\ runs' = runs
    BY <1>0, <1>5 DEF Forward, Goto
  <2>2. OrderInv(r) /\ Allow(r) /\ stage[r] = "deciding"
    BY <1>5 DEF Forward, RequestInv
  <2>. QED
    BY <2>1, <2>2
       DEF RequestInv, OrderInv, FindsRequest, ShowsNoAdminTools, ToolLists, Authenticated,
           IsAdmin, Allow, NoAnswer
<1>6. CASE DownstreamRuns(r) \/ DownstreamReplies(r)
  <2>1. /\ r \in posted /\ posted' = posted
        /\ stage' = stage /\ credential' = credential /\ call' = call /\ answer' = answer
    BY <1>0, <1>6 DEF DownstreamRuns, DownstreamReplies, RequestInv, OrderInv
  <2>. QED
    BY <2>1
       DEF RequestInv, OrderInv, FindsRequest, ShowsNoAdminTools, ToolLists, Authenticated,
           IsAdmin, Allow
<1>7. CASE Relay(r)
  <2>1. Same /\ stage[r] = "forwarding"
    BY <1>0, <1>7 DEF Relay
  <2>2. reply[r].status \in Statuses /\ reply[r].body \in Replies
    BY <1>0, <1>7 DEF Relay
  <2>3. /\ stage'[r] = "answered"
        /\ \/ call[r].id = "absent" /\ answer'[r] = [status |-> 204, body |-> "none", id |-> "none"]
           \/ call[r].id # "absent" /\ answer'[r] = [status |-> 500, body |-> "none", id |-> "none"]
           \/ /\ call[r].id # "absent"
              /\ \E body \in Replies \cup {"plainTools"} :
                   /\ answer'[r] = [status |-> reply[r].status, body |-> body, id |-> "none"]
                   /\ Filtering(r) /\ body = "tools" => IsAdmin(r)
    <3>1. CASE IsNotification(r)
      BY <1>0, <1>7, <3>1 DEF Relay, IsNotification, Silence, Answer, Goto
    <3>2. CASE ~IsNotification(r) /\ Filtering(r) /\ reply[r].body = "tools"
      <4>1. "admin_" \in VisibleTools(Tools, r) <=> IsAdmin(r)
        BY DEF VisibleTools, Tools
      <4>2. "tools" \in Replies
        BY DEF Replies, ToolLists
      <4>. QED
        BY <1>0, <1>7, <3>2, <4>1, <4>2 DEF Relay, IsNotification, Answer, Goto
    <3>3. CASE ~IsNotification(r) /\ ~(Filtering(r) /\ reply[r].body = "tools")
      BY <1>0, <1>7, <2>2, <3>3 DEF Relay, IsNotification, Answer, Goto
    <3>. QED
      BY <3>1, <3>2, <3>3
  <2>. QED
    BY <1>0, <2>1, <2>2, <2>3
       DEF RequestInv, OrderInv, FindsRequest, ShowsNoAdminTools, ToolLists, Authenticated,
           IsAdmin, Allow,
           Filtering, GatewayErrors, Replies, Statuses, Ids, JsonRpcIds
<1>. QED
  BY <1>1, <1>2, <1>3, <1>4, <1>5, <1>6, <1>7 DEF Gateway, Handle

LEMMA InvStep == GatewayInv /\ [Next]_vars => GatewayInv'
<1>. SUFFICES ASSUME GatewayInv, [Next]_vars
              PROVE  \A q \in Requests : RequestInv(q)'
  BY TypeStep DEF GatewayInv
<1>1. TypeOK /\ \A q \in Requests : RequestInv(q)
  BY DEF GatewayInv
<1>2. ASSUME NEW r \in Requests,
             Arrive(r) \/ Gateway(r) \/ DownstreamRuns(r) \/ DownstreamReplies(r)
      PROVE  \A q \in Requests : RequestInv(q)'
  BY <1>1, <1>2, OthersKeepInv, OwnStepKeepsInv
<1>3. CASE UNCHANGED vars
  BY <1>1, <1>3
     DEF vars, RequestInv, OrderInv, FindsRequest, ShowsNoAdminTools, ToolLists, Authenticated,
         IsAdmin, Allow
<1>. QED
  BY <1>2, <1>3 DEF Next, Terminating

-----------------------------------------------------------------------------
(* What holds of each request at every stage holds of any number of        *)
(* requests in any interleaving, of theirs and of the downstream's steps.  *)
THEOREM GatewayInductive == Spec => []GatewayInv
BY InvInit, InvStep, PTL DEF Spec

(* app.py:3-9: whatever the downstream ran was sent by somebody known, and *)
(* a tool call among it named a tool its sender may call, however late it  *)
(* ran and whatever its client had been told by then.                      *)
THEOREM EntitledCallsOnly == Spec => []OnlyEntitledCallsRun
<1>1. ASSUME GatewayInv
      PROVE  OnlyEntitledCallsRun
  <2>1. ASSUME NEW r \in Requests, runs[r] > 0
        PROVE  Authenticated(r) /\ call[r] \in Calls /\ Allow(r)
    BY <1>1, <2>1 DEF GatewayInv, RequestInv, OrderInv
  <2>. QED
    BY <2>1, CallShapes DEF OnlyEntitledCallsRun, Allow
<1>. QED
  BY <1>1, GatewayInductive, PTL

(* jsonrpc.py:72-74, 104-106: the sender of a notification never sees an   *)
(* answer, that of a request never gets a notification's silence, and an   *)
(* error of the gateway's own carries the id of the request it is about,   *)
(* for every id that JSON-RPC allows.                                      *)
THEOREM AnswersMatch == Spec => []AnswersFindTheirRequest
<1>1. GatewayInv => AnswersFindTheirRequest
  BY DEF GatewayInv, RequestInv, FindsRequest, AnswersFindTheirRequest
<1>. QED
  BY <1>1, GatewayInductive, PTL

(* With the filter on, a list that a viewer gets names no admin tool,      *)
(* unless the downstream sent it in a form that the filter does not read.  *)
THEOREM ViewersKeptFromAdminTools == Spec => []ViewersSeeNoAdminTools
<1>1. GatewayInv => ViewersSeeNoAdminTools
  BY DEF GatewayInv, RequestInv, ShowsNoAdminTools, ToolLists, ViewersSeeNoAdminTools
<1>. QED
  BY <1>1, GatewayInductive, PTL

=============================================================================
