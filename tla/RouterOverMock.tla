--------------------------- MODULE RouterOverMock ---------------------------
(***************************************************************************)
(* The router with mock_provider/llm.py as both of its providers: one      *)
(* server, told the two apart by the model name, whose failures the        *)
(* request's own body scripts (mode, failing_model, hang_seconds travel    *)
(* through the router untouched).  The body's chunk_delay, which can make  *)
(* an event stream slower than the timeouts, is left at its default of 0.  *)
(***************************************************************************)
EXTENDS CompletionRouter

CONSTANT Scripts   \* bodies' scripts, without delay: [mode, failing, hang]

Modes == {"stream", "rate_limited", "hang", "split_pii", "non_stream", "server_error"}

ASSUME MockAssumption ==
  Scripts \subseteq [mode: Modes, failing: Providers \cup {"none"}, hang: Nat]

VARIABLE script   \* the script of each request

mockVars == <<vars, script>>
-----------------------------------------------------------------------------

NonStreamModes == {"rate_limited", "hang", "server_error", "non_stream"}

(* effective: a failing_model keeps every other model healthy. *)
Effective(s, p) ==
  IF s.failing \in {"none", p} THEN s.mode
  ELSE IF s.mode \in NonStreamModes THEN "non_stream" ELSE "stream"

(* completions: what the router makes of an event stream is a body that is *)
(* not JSON; a hang that ends in time is JSON without a usage block.       *)
MockReply(s, p) ==
  LET mode == Effective(s, p)
  IN  [kind |-> CASE mode = "rate_limited" -> "429"
                  [] mode = "server_error" -> "error"
                  [] mode = "hang" -> "noUsage"
                  [] mode = "non_stream" -> "completion"
                  [] OTHER -> "notJson",
       after |-> IF mode = "hang" THEN s.hang ELSE 0]

-----------------------------------------------------------------------------

InitOverMock == Init /\ script \in [Requests -> Scripts]

MockReplies(r) == Receive(r, MockReply(script[r], task[r]))

NextOverMock ==
  /\ \/ \E r \in Requests :
          \/ Arrive(r) \/ MockReplies(r) \/ Resume(r) \/ Cancel(r) \/ Thread(r)
          \/ Limiter!Fault(r) /\ UNCHANGED taskVars
     \/ Limiter!Tick /\ UNCHANGED taskVars
     \/ CrashAndRestart
     \/ Terminating
  /\ UNCHANGED script

SpecOverMock == InitOverMock /\ [][NextOverMock]_mockVars
-----------------------------------------------------------------------------
(* Properties. *)

HangsPast(s, p, limit) == s.failing \in {"none", p} /\ s.mode = "hang" /\ s.hang > limit

(* Who a script saturates: the two failures that failover is for.          *)
Saturated(s, p) ==
  \/ s.failing \in {"none", p} /\ s.mode = "rate_limited"
  \/ TimeoutOf[p] <= ClientTimeout /\ HangsPast(s, p, TimeoutOf[p])

(* Who it breaks: a provider that the HTTP client gives up on before the   *)
(* provider's own timeout has passed is one of them.                       *)
Broken(s, p) ==
  \/ s.mode \in {"stream", "split_pii"}
  \/ s.failing \in {"none", p} /\ s.mode = "server_error"
  \/ ClientTimeout < TimeoutOf[p] /\ HangsPast(s, p, ClientTimeout)

(* router.py:3-10, test_task4_router.py:265-398: what clients see of the   *)
(* two providers is failover and nothing else, whatever the limiter, other *)
(* requests, faults and cancellations do in between.  A saturated primary  *)
(* is invisible behind a sound secondary; a broken one is not hidden; the  *)
(* secondary is asked only for a saturated primary; and an answer without  *)
(* fault has somebody sound behind it.                                     *)
FailoverMasksSaturation ==
  \A r \in Requests :
    LET s == script[r]
        sound(p) == ~Saturated(s, p) /\ ~Broken(s, p)
        upstreamError == answer[r] \in {"UPSTREAM_UNAVAILABLE", "UPSTREAM_TIMEOUT"}
    IN  /\ Saturated(s, "primary") /\ sound("secondary") => ~upstreamError
        /\ attempts[r] = <<"primary", "secondary">> => Saturated(s, "primary")
        /\ Broken(s, "primary") => answer[r] # "ok"
        /\ answer[r] = "ok" => sound(attempts[r][Len(attempts[r])])
=============================================================================
