----------------------------- MODULE ModelCalls -----------------------------
(***************************************************************************)
(* One task given to the language model: the attempts of the task          *)
(* (analyze_rps, LLMCoursePlanner.generate, _generate_week_content), the   *)
(* call of a prompt that each attempt makes (LLMService.execute_prompt),   *)
(* and the requests of that call, which are repeated while the provider    *)
(* fails in passing (retry_with_backoff).                                  *)
(*                                                                         *)
(* A reply of the provider is what post_json and the provider make of it:  *)
(* an HTTP status, a rejected credential, a body without the text that was *)
(* expected, or a text.  Prompts, tokens and waiting times are left out.   *)
(***************************************************************************)
EXTENDS Integers

CONSTANTS
  Statuses,      \* the statuses of failed requests
  Limits,        \* the values of LLM_MAX_RETRIES
  FixLimits      \* the values of the setting for attempts after the first

ASSUME ModelCallsAssumption ==
  Statuses \subseteq 300 .. 599 /\ Limits \subseteq Nat /\ FixLimits \subseteq Nat

VARIABLES
  settings,   \* the configuration of the server the task runs on
  task        \* the task

modelVars == <<settings, task>>

Tasks == {"analysis", "planning", "content"}

Texts == {"fitting", "misfit", "prose"}   \* fits the schema, is JSON, is not JSON (nor a text)

Failures ==
  [kind : {"timeout", "unreachable", "garbled"}, status : {0}]
  \cup [kind : {"refused", "rejected"}, status : Statuses]   \* rejected: so says the body

Errors == {"LLMTimeoutError", "LLMConnectionError", "LLMRateLimitError", "LLMConfigurationError",
           "LLMProviderError", "LLMRetryExhaustedError", "LLMInvalidOutputError"}

Task == [at : {"idle", "attempt", "request", "result", "done", "failed"},
         kind : Tasks,
         attempt : Nat, try : Nat,      \* of the task, and of the call
         requests : Nat,                \* what reached the provider
         result : Texts \cup Errors \cup {"none"},
         reason : {"none", "PROVIDER_TIMEOUT", "PROVIDER_RATE_LIMIT", "PROVIDER_ERROR",
                   "OUTPUT_NOT_JSON", "SCHEMA_VALIDATION_FAILED"},
         faults : SUBSET Errors]        \* what the requests failed with

NoTask == [at |-> "idle", kind |-> "analysis", attempt |-> 0, try |-> 0, requests |-> 0,
           result |-> "none", reason |-> "none", faults |-> {}]

ModelInit ==
  /\ settings = [retries |-> 0, fixes |-> 0, configured |-> FALSE]
  /\ task = NoTask

Resting == task.at \in {"idle", "done", "failed"}

\* A task, on a server that was started with some configuration.
Begins ==
  /\ Resting
  /\ \E kind \in Tasks : task' = [NoTask EXCEPT !.at = "attempt", !.kind = kind, !.attempt = 1]
  /\ settings' \in [retries : Limits, fixes : FixLimits, configured : BOOLEAN]

-----------------------------------------------------------------------------
(* A call of a prompt.                                                     *)

\* post_json and _status_error.
StatusError(status) ==
  IF status \in {401, 403} THEN "LLMConfigurationError"
  ELSE IF status = 429 THEN "LLMRateLimitError"
  ELSE IF status >= 500 THEN "LLMConnectionError"
  ELSE "LLMProviderError"

ErrorOf(reply) ==
  CASE reply.kind = "timeout" -> "LLMTimeoutError"
    [] reply.kind = "unreachable" -> "LLMConnectionError"
    [] reply.kind = "garbled" -> "LLMProviderError"
    [] reply.kind = "rejected" -> "LLMConfigurationError"
    [] reply.kind = "refused" -> StatusError(reply.status)

Retryable(error) == error \in {"LLMTimeoutError", "LLMConnectionError", "LLMRateLimitError"}

\* execute_prompt; a limit of 0 is exhausted before the first request.
Calls ==
  /\ task.at = "attempt"
  /\ task' = IF settings.retries = 0
             THEN [task EXCEPT !.at = "result", !.result = "LLMRetryExhaustedError"]
             ELSE [task EXCEPT !.at = "request", !.try = 1]
  /\ UNCHANGED settings

\* The provider is not configured: generate fails without a request.
NotConfigured ==
  /\ task.at = "request" /\ ~settings.configured
  /\ task' = [task EXCEPT !.at = "result", !.result = "LLMConfigurationError",
                          !.faults = @ \cup {"LLMConfigurationError"}]
  /\ UNCHANGED settings

\* A text ends the call; one that is not JSON is an error of the call.
TextComes(text) ==
  /\ task.at = "request" /\ settings.configured
  /\ task' = [task EXCEPT !.at = "result", !.requests = @ + 1,
                          !.result = IF text = "prose" THEN "LLMInvalidOutputError" ELSE text]
  /\ UNCHANGED settings

\* Mutated: the limit counts the tries after the first.
FaultOnceMore(reply) ==
  /\ task.at = "request" /\ settings.configured
  /\ LET error == ErrorOf(reply)
         next == [task EXCEPT !.requests = @ + 1, !.faults = @ \cup {error}] IN
     task' = IF ~Retryable(error) THEN [next EXCEPT !.at = "result", !.result = error]
             ELSE IF task.try > settings.retries
             THEN [next EXCEPT !.at = "result", !.result = "LLMRetryExhaustedError"]
             ELSE [next EXCEPT !.try = @ + 1]
  /\ UNCHANGED settings

\* retry_with_backoff: a lasting error is the result, a passing one is
\* tried again after a pause, up to the limit.
Fault(reply) ==
  /\ task.at = "request" /\ settings.configured
  /\ LET error == ErrorOf(reply)
         next == [task EXCEPT !.requests = @ + 1, !.faults = @ \cup {error}] IN
     task' = IF ~Retryable(error) THEN [next EXCEPT !.at = "result", !.result = error]
             ELSE IF task.try >= settings.retries
             THEN [next EXCEPT !.at = "result", !.result = "LLMRetryExhaustedError"]
             ELSE [next EXCEPT !.try = @ + 1]
  /\ UNCHANGED settings

-----------------------------------------------------------------------------
(* What the tasks make of it.                                              *)

\* _classify_provider_error, which goes by the name of the class.
Reason(error) ==
  CASE error = "LLMTimeoutError" -> "PROVIDER_TIMEOUT"
    [] error = "LLMRateLimitError" -> "PROVIDER_RATE_LIMIT"
    [] OTHER -> "PROVIDER_ERROR"

Fails(reason) == task' = [task EXCEPT !.at = "failed", !.reason = reason]

\* One more attempt, with the findings about the last, if there is one left.
TryAgain(reason) ==
  IF task.attempt <= settings.fixes
  THEN task' = [task EXCEPT !.at = "attempt", !.attempt = @ + 1, !.try = 0, !.result = "none"]
  ELSE Fails(reason)

\* Planning takes an output that is no JSON for one to be mended; the
\* analysis and the contents take it for an error of the provider.
Interprets ==
  /\ task.at = "result"
  /\ CASE task.result = "fitting" -> task' = [task EXCEPT !.at = "done"]
       [] task.result = "misfit" -> TryAgain("SCHEMA_VALIDATION_FAILED")
       [] task.result = "LLMInvalidOutputError" /\ task.kind = "planning" -> TryAgain("OUTPUT_NOT_JSON")
       [] OTHER -> Fails(IF task.kind = "planning" THEN "PROVIDER_ERROR" ELSE Reason(task.result))
  /\ UNCHANGED settings

-----------------------------------------------------------------------------
ModelNext ==
  \/ Begins \/ Calls \/ NotConfigured \/ Interprets
  \/ \E text \in Texts : TextComes(text)
  \/ \E reply \in Failures : Fault(reply)

ModelSpec == ModelInit /\ [][ModelNext]_modelVars

-----------------------------------------------------------------------------
(* The two loops together, the tries of a call within the attempts of a    *)
(* task, ask the provider no more often than their limits allow, and only  *)
(* if a credential is configured; and a lasting error is met at most once: *)
(* whatever attempts and tries are left, it is the end of the task         *)
(* (retry_with_backoff, its callers).                                      *)
RequestsAreBounded ==
  /\ task.requests <= (IF settings.configured THEN settings.retries * (settings.fixes + 1) ELSE 0)
  /\ \A error \in task.faults :
       ~Retryable(error) => task.at \in {"result", "failed"} /\ task.result = error
=============================================================================
