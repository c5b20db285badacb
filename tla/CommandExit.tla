---------------------------- MODULE CommandExit -----------------------------
(***************************************************************************)
(* One command meets one outcome of its HTTP exchange and exits: every      *)
(* command of the CLI that calls the API, against every response.           *)
(***************************************************************************)
EXTENDS ExitCode

CONSTANT Tried   \* the responses a run enumerates

ASSUME TriedAssumption == Tried \subseteq Responses

VARIABLES cmd, response, exit

exitVars == <<cmd, response, exit>>

ExitInit == cmd \in Commands /\ response \in Tried /\ exit = Running

Exit == exit = Running /\ exit' = ExitOf(cmd, response) /\ UNCHANGED <<cmd, response>>

ExitSpec == ExitInit /\ [][Exit]_exitVars

Exited == exit # Running

-----------------------------------------------------------------------------
(* Properties *)

\* The table of error types and exit codes the CLI documents.
Table ==
  { <<"unauthenticated", 401, 3>>, <<"revoked", 403, 3>>, <<"forbidden", 403, 4>>,
    <<"tier-not-entitled", 403, 5>>, <<"quota-exceeded", 429, 6>>,
    <<"not-found", 404, 7>>, <<"idempotency-conflict", 409, 8>>,
    <<"cursor-expired", 409, 8>>, <<"env-already-exists", 409, 8>>,
    <<"validation-error", 400, 2>>, <<"invalid-org-id", 400, 2>>,
    <<"upstream-failure", 503, 9>>, <<"blank", 426, 10>> }

\* A problem document of the table gives its exit code, whatever the command,
\* its decoded fields and the order its checks come in; but in the wait of a
\* build, which reports every failure alike, and for the 404 a teardown waits for.
TableDecides ==
  \A row \in Table :
    /\ Exited /\ response.via = "http" /\ cmd # "app-wait"
    /\ cmd = "down-wait" => row[2] # 404
    /\ response.content = "problem+json" /\ response.status = row[2]
    /\ response.body = [slug |-> row[1], status |-> row[2]]
    => exit = row[3]

\* The successes api/openapi/openapi.yaml documents (lines 120-345): those that
\* describe something, and those that only say that the request was taken.
Described ==
  { <<"whoami", 200>>, <<"env-up", 200>>, <<"env-up", 202>>, <<"env-list", 200>>,
    <<"env-status", 200>>, <<"up-wait", 200>>, <<"down-wait", 200>>,
    <<"app-build", 202>>, <<"app-list", 200>>, <<"app-status", 200>>, <<"app-wait", 200>> }

Taken ==
  { <<"env-cancel", 202>>, <<"env-down", 202>>, <<"app-cancel", 202>>, <<"app-delete", 202>> }

\* The process reports success for the answers its own endpoint documents as
\* one, with the description that belongs to it, and for nothing else but the
\* 404 with which a teardown's wait ends.
SuccessIsDocumented ==
  Exited =>
    LET answer    == <<cmd, response.status>>
        described == IsJSON(response) /\ response.body # Malformed
        garbled   == IsJSON(response) /\ response.body = Malformed
    IN  exit = Code.OK <=>
          /\ response.via = "http"
          /\ \/ answer \in Described /\ described
             \/ answer \in Taken
             \/ answer = <<"down-wait", 404>> /\ ~garbled

\* A script can tell that it has to log in: wherever a command other than a
\* wait loses its session, by a 401 or by a failed refresh, it exits with 3.
LoginNeeded ==
  /\ Exited /\ cmd \notin Waits
  /\ response.via = "expired" \/ (response.via = "http" /\ response.status = 401
                                  /\ ~DecodeFails(cmd, response))
  => exit = Code.Unauthenticated

\* "Routing every transport-error site through mapTransportError ensures
\* refresh-token expiry maps to exit code 3".
ExpiryExits3 == Exited /\ response.via = "expired" => exit = Code.Unauthenticated
=============================================================================
