------------------------------ MODULE ExitCode ------------------------------
(***************************************************************************)
(* How a command turns the outcome of its HTTP exchange into the exit code  *)
(* of the process: the generated client's decoding, problemToError,         *)
(* output.WrapHTTP, mapTransportError and the status checks of each run...  *)
(* function.  A problem document is its type's slug and its status member.  *)
(***************************************************************************)
EXTENDS Integers

Code == [OK |-> 0, Generic |-> 1, BadUsage |-> 2, Unauthenticated |-> 3,
         Forbidden |-> 4, TierNotEntitled |-> 5, QuotaExceeded |-> 6, NotFound |-> 7,
         Conflict |-> 8, UpstreamFailure |-> 9, ServerMinVersionRequired |-> 10]

Codes == 0..10
Running == -1    \* the command has not ended

Slugs == {"unauthenticated", "revoked", "forbidden", "tier-not-entitled",
          "quota-exceeded", "not-found", "idempotency-conflict", "cursor-expired",
          "validation-error", "invalid-org-id", "upstream-failure",
          "env-already-exists", "blank"}

Statuses == {200, 202, 400, 401, 403, 404, 409, 412, 426, 429, 500, 503}

NoMember  == 0                     \* a problem without a status member
Malformed == [slug |-> "malformed", status |-> NoMember]   \* not JSON
NoProblem == [slug |-> "no-problem", status |-> NoMember]
Problems  == [slug : Slugs, status : Statuses \cup {NoMember}]

(***************************************************************************)
(* via: "http" when the exchange produced a response; "expired" when the    *)
(* refresh behind it failed with ErrSessionExpired; "broken" on any other   *)
(* error.  content: the Content-Type, as far as the client looks at it.     *)
(***************************************************************************)
Responses == [via : {"http", "expired", "broken"}, status : Statuses,
              content : {"problem+json", "json", "other"},
              body : Problems \cup {Malformed}]

-----------------------------------------------------------------------------
(* output *)

Known(slug) == slug \in Slugs \ {"env-already-exists", "blank"}

CodeForSlug(slug) ==
  CASE slug \in {"unauthenticated", "revoked"}             -> Code.Unauthenticated
    [] slug = "forbidden"                                  -> Code.Forbidden
    [] slug = "tier-not-entitled"                          -> Code.TierNotEntitled
    [] slug = "quota-exceeded"                             -> Code.QuotaExceeded
    [] slug = "not-found"                                  -> Code.NotFound
    [] slug \in {"idempotency-conflict", "cursor-expired"} -> Code.Conflict
    [] slug \in {"validation-error", "invalid-org-id"}     -> Code.BadUsage
    [] slug = "upstream-failure"                           -> Code.UpstreamFailure
    [] OTHER                                               -> Code.Generic

CodeForStatus(status) ==
  CASE status = 401            -> Code.Unauthenticated
    [] status = 403            -> Code.Forbidden
    [] status = 404            -> Code.NotFound
    [] status = 409            -> Code.Conflict
    [] status \in {412, 426}   -> Code.ServerMinVersionRequired
    [] status = 429            -> Code.QuotaExceeded
    [] status \in 500..599     -> Code.UpstreamFailure
    [] OTHER                   -> Code.Generic

\* Bug: the status is consulted before the type.
FromStatusFirst(p) ==
  IF CodeForStatus(p.status) # Code.Generic THEN CodeForStatus(p.status)
                                       ELSE CodeForSlug(p.slug)

FromProblem(p) ==
  IF Known(p.slug) THEN CodeForSlug(p.slug) ELSE CodeForStatus(p.status)

Success(status) == status \in 200..299

\* WrapHTTP of a response that is not 2xx.
WrapHTTP(status, p) == IF p = NoProblem THEN CodeForStatus(status) ELSE FromProblem(p)

-----------------------------------------------------------------------------
(* The generated client, and problemToError *)

EnvCalls == {"env-up", "env-list", "env-status", "env-cancel", "env-down",
             "up-wait", "down-wait"}

AppCalls == {"app-build", "app-list", "app-status", "app-cancel", "app-delete",
             "app-wait"}

Commands == EnvCalls \cup AppCalls \cup {"whoami"}
Waits    == {"up-wait", "down-wait", "app-wait"}

\* Statuses whose body the generated client decodes, successes and problems.
DecodedEnvs(cmd) ==
  CASE cmd = "env-up"     -> {200, 202, 400, 403, 409, 429}
    [] cmd = "env-cancel" -> {404, 409}
    [] cmd = "env-down"   -> {404}
    [] cmd = "env-list"   -> {200}
    [] cmd \in {"env-status", "up-wait", "down-wait"} -> {200, 404}

DecodedBuilds(cmd) ==
  CASE cmd = "app-build" -> {202, 403}
    [] cmd = "app-list"  -> {200, 409}
    [] cmd \in {"app-status", "app-wait"}   -> {200, 404}
    [] cmd \in {"app-cancel", "app-delete"} -> {403}

Decoded(cmd) ==
  IF cmd \in EnvCalls THEN DecodedEnvs(cmd)
  ELSE IF cmd \in AppCalls THEN DecodedBuilds(cmd)
  ELSE {200, 401}

\* Decoded problems the command hands to problemToError.
Typed(cmd) ==
  CASE cmd = "env-up"     -> {400, 403, 409, 429}
    [] cmd = "env-cancel" -> {404, 409}
    [] cmd \in {"env-down", "up-wait", "app-status"}     -> {404}
    [] cmd \in {"app-build", "app-cancel", "app-delete"} -> {403}
    [] cmd = "app-list"   -> {409}
    [] OTHER              -> {}

IsJSON(r) == r.content \in {"json", "problem+json"}

\* The client returns an error for a body it should decode and cannot.
DecodeFails(cmd, r) == IsJSON(r) /\ r.status \in Decoded(cmd) /\ r.body = Malformed

ProblemOf(cmd, r) ==
  IF IsJSON(r) /\ r.status \in Typed(cmd) THEN r.body
  ELSE IF r.content = "problem+json" /\ r.body # Malformed THEN r.body
  ELSE NoProblem

ProblemToError(cmd, r) == WrapHTTP(r.status, ProblemOf(cmd, r))

-----------------------------------------------------------------------------
(* The commands *)

\* Bug: any answer but a description of the env says that the env is gone.
AnyErrorIsGone(status) == ~Success(status)

\* What the teardown's wait takes for the end of the env.
IsGone(status) == status = 404

\* Bug: deleting what is not there is a success.
DeleteTwice(cmd, r) ==
  r.status \in {200, 202} \/ (cmd \in {"env-down", "down-wait"} /\ r.status = 404)

\* Answers the command takes for success; where it reads the body, a decoded one.
EnvAccepts(cmd, r) ==
  CASE cmd = "env-up"    -> r.status \in {200, 202} /\ IsJSON(r)
    [] cmd = "down-wait" -> IsGone(r.status) \/ (r.status = 200 /\ IsJSON(r))
    [] cmd \in {"env-cancel", "env-down"}            -> r.status = 202
    [] cmd \in {"env-list", "env-status", "up-wait"} -> r.status = 200 /\ IsJSON(r)

\* Bug: a cancel that is answered at once counts as well.
StoppedAtOnce(r) == r.status \in {200, 202}

\* build and deploy; cancel and delete; list and status; the wait of a build.
BuildTaken(r)   == r.status = 202 /\ IsJSON(r)
BuildStopped(r) == r.status = 202
BuildRead(r)    == r.status = 200 /\ IsJSON(r)
BuildPolled(r)  == r.status = 200 /\ IsJSON(r)

AppAccepts(cmd, r) ==
  CASE cmd = "app-build"                     -> BuildTaken(r)
    [] cmd \in {"app-cancel", "app-delete"} -> BuildStopped(r)
    [] cmd \in {"app-list", "app-status"}   -> BuildRead(r)
    [] cmd = "app-wait"                      -> BuildPolled(r)

Accepts(cmd, r) ==
  IF cmd \in EnvCalls THEN EnvAccepts(cmd, r)
  ELSE IF cmd \in AppCalls THEN AppAccepts(cmd, r)
  ELSE r.status = 200 /\ IsJSON(r)

\* Bug: a transport error is returned as it came.
UnmappedExpiry(cmd) == Code.Generic

\* The wait loops return a poll's transport error unmapped.
OnExpiry(cmd) == IF cmd \in Waits THEN Code.Generic ELSE Code.Unauthenticated

\* Bug: an unexpected 2xx counts as a success.
ExitOnAny2xx(cmd, r) ==
  IF r.via = "http" /\ ~DecodeFails(cmd, r) /\ Success(r.status) THEN Code.OK
  ELSE Code.Generic

ExitOf(cmd, r) ==
  CASE r.via = "expired" -> OnExpiry(cmd)
    [] r.via = "broken"  -> Code.Generic
    [] r.via = "http"    ->
         IF DecodeFails(cmd, r) THEN Code.Generic
         ELSE IF Accepts(cmd, r) THEN Code.OK
         ELSE IF cmd = "app-wait" THEN Code.Generic
         ELSE IF r.status = 401 /\ cmd \notin Waits THEN Code.Unauthenticated
         ELSE IF r.status = 404 /\ cmd = "env-status" THEN Code.NotFound
         ELSE IF Success(r.status) THEN Code.Generic
         ELSE ProblemToError(cmd, r)
=============================================================================
