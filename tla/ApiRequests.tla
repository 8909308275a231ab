---------------------------- MODULE ApiRequests -----------------------------
(***************************************************************************)
(* A call of the playit API (api_client: http_client.rs, api.rs): attempts, *)
(* retry policy of the endpoint, delays and the credential, which others    *)
(* may replace while the call is under way.  The server is external: an     *)
(* attempt may be executed and its answer lost.  Delays are in units of     *)
(* 250 ms, RETRY_DELAY.                                                     *)
(***************************************************************************)
EXTENDS Integers

CONSTANT RetryAfter   \* delays a server may ask for (units of 250 ms)

ASSUME RetryAfterAssumption == RetryAfter \subseteq Nat

VARIABLES
    call,    \* the call: endpoint, attempt, credential sent, answer, result
    auth,    \* auth_header
    runs,    \* how often the server executed the request
    waited   \* time slept between attempts

avars == <<call, auth, runs, waited>>

MAX_REQUEST_ATTEMPTS == 3
MAX_RETRY_DELAY == 20
NoDelay == -1
Credentials == {"anonymous", "agent", "account"}

(* The endpoints called with RetryPolicy::Transient, in the order of api.rs: *)
(* the newer calls with information and login, the tunnels, the others.      *)
InfoEndpoints == {"/v1/tunnels/list", "/v1/schemas/get", "/v1/agents/rundata", "/info/pops"}
TunnelEndpoints == {"/tunnels/list"}
OtherEndpoints ==
    {"/agents/routing/get", "/agents/rundata", "/domains/list", "/shop/prices",
     "/shop/availability/custom_domain", "/charge/get", "/query/region"}
TransientEndpoints == InfoEndpoints \cup TunnelEndpoints \cup OtherEndpoints

(* The endpoints that create, change, send or hand out something. *)
Changing ==
    {"/v1/tunnels/create", "/v1/tunnels/config", "/v1/tunnels/propset", "/login/signin",
     "/login/clearcookie", "/login/create/guest", "/login/guest", "/login/reset/password",
     "/login/reset/send", "/tunnels/create", "/tunnels/update", "/tunnels/delete",
     "/tunnels/rename", "/tunnels/firewall/assign", "/tunnels/ratelimit", "/tunnels/enable",
     "/tunnels/proxy/set", "/claim/setup", "/claim/exchange", "/agents/rename",
     "/agents/routing/set", "/proto/register", "/charge/refund",
     "/login/totp", "/claim/accept", "/claim/reject", "/agents/delete"}
Endpoints == TransientEndpoints \cup Changing

(* Mutated form: every endpoint is retried. *)
RetryAll(op) == MAX_REQUEST_ATTEMPTS

max_attempts(op) == IF op \in TransientEndpoints THEN MAX_REQUEST_ATTEMPTS ELSE 1

ApiInit ==
    /\ call = [op |-> "none", attempt |-> 0, pc |-> "idle", header |-> "none", got |-> "none",
               after |-> NoDelay]
    /\ auth \in Credentials
    /\ runs = 0 /\ waited = 0

begin ==
    /\ call.pc = "idle"
    /\ \E op \in Endpoints : call' = [call EXCEPT !.op = op, !.pc = "send"]
    /\ UNCHANGED <<auth, runs, waited>>

send ==
    /\ call.pc = "send"
    /\ call' = [call EXCEPT !.pc = "wire", !.header = auth]
    /\ UNCHANGED <<auth, runs, waited>>

(* What comes back, and whether the server has executed the request: a lost  *)
(* connection and a server error do not tell.                                *)
Answers ==
    [got : {"connect", "429"}, ran : {0}] \cup [got : {"lost", "5xx", "5xx_body"}, ran : {0, 1}]
    \cup [got : {"other"}, ran : {0, 1}] \cup [got : {"json", "garbage"}, ran : {1}]

execute ==
    /\ call.pc = "wire"
    /\ \E a \in Answers, d \in RetryAfter \cup {NoDelay} :
          /\ a.got \in {"connect", "other"} => d = NoDelay
          /\ call' = [call EXCEPT !.pc = "answer", !.got = a.got, !.after = d]
          /\ runs' = runs + a.ran
    /\ UNCHANGED <<auth, waited>>

is_retryable(got) == got \in {"connect", "lost", "429", "5xx", "5xx_body"}

retry_delay(attempt, after) ==
    LET d == IF after # NoDelay THEN after ELSE attempt + 1
    IN IF d < MAX_RETRY_DELAY THEN d ELSE MAX_RETRY_DELAY

MayRetry(c) == c.attempt + 1 < max_attempts(c.op)

(* The result of the last attempt; a server error with a readable body is    *)
(* passed on like any answer.                                                *)
Result(got) ==
    CASE got \in {"connect", "lost", "other"} -> "RequestError"
      [] got = "429" -> "TooManyRequests"
      [] got \in {"garbage", "5xx"} -> "ParseError"
      [] OTHER -> "Ok"

call_with_policy ==
    /\ call.pc = "answer"
    /\ IF MayRetry(call) /\ is_retryable(call.got)
       THEN /\ call' = [call EXCEPT !.pc = "send", !.attempt = @ + 1]
            /\ waited' = waited + retry_delay(call.attempt, call.after)
       ELSE call' = [call EXCEPT !.pc = Result(call.got)] /\ UNCHANGED waited
    /\ UNCHANGED <<auth, runs>>

(* set_auth and remove_auth. *)
set_auth ==
    /\ auth' \in Credentials \ {auth}
    /\ UNCHANGED <<call, runs, waited>>

ApiNext == begin \/ send \/ execute \/ call_with_policy \/ set_auth
ApiSpec == ApiInit /\ [][ApiNext]_avars

---------------------------------------------------------------------------
(* Type correctness; attempts are numbered from 0. *)
ApiTypeOK ==
    /\ call.op \in Endpoints \cup {"none"}
    /\ call.attempt \in Nat /\ call.attempt < max_attempts(call.op)
    /\ call.header \in Credentials \cup {"none"}
    /\ runs \in 0 .. MAX_REQUEST_ATTEMPTS

(* A request that changes something reaches the server at most once, however *)
(* many answers are lost: the policy table of api.rs with the retry loop of  *)
(* call_with_policy.                                                         *)
ChangesRunOnce == call.op \in Changing => runs <= 1

(* The caller never sleeps for more than the two longest delays, whatever    *)
(* Retry-After says (retry_delay).                                           *)
WaitIsShort == waited <= (MAX_REQUEST_ATTEMPTS - 1) * MAX_RETRY_DELAY

(* Retries neither repeat a change nor hold the caller up.                   *)
RetriesAreSafe == ChangesRunOnce /\ WaitIsShort
=============================================================================
