---------------------------- MODULE CommandProofs ----------------------------
(***************************************************************************)
(* Theorems about how commands end: what ExitCode makes of an answer, one   *)
(* command against any set of responses (CommandExit), and any number of    *)
(* env commands against the environment service (EnvCommands), for any      *)
(* keys, bodies and bound on the environments.                              *)
(***************************************************************************)
EXTENDS EnvCommands, CommandExit, TLAPS

-----------------------------------------------------------------------------
(* What ExitCode makes of an answer *)

\* No error is reported with the code of success.
LEMMA ErrorsAreNotOK ==
  /\ \A slug : CodeForSlug(slug) \in Codes \ {Code.OK}
  /\ \A status : CodeForStatus(status) \in Codes \ {Code.OK}
BY DEF CodeForSlug, CodeForStatus, Code, Codes

LEMMA WrapIsAnError == \A status, p : WrapHTTP(status, p) \in Codes \ {Code.OK}
BY ErrorsAreNotOK DEF WrapHTTP, FromProblem

\* What a command takes for success, if it does.
LEMMA AcceptsOnlySuccess ==
  ASSUME NEW c \in Commands, NEW r \in Responses, Accepts(c, r)
  PROVE  /\ r.status \in {200, 202} \/ (c = "down-wait" /\ r.status = 404)
         /\ c = "app-build" => r.status = 202
         /\ c \in {"up-wait", "down-wait"} => r.status # 202
<1>1. CASE c \in EnvCalls
  <2>1. EnvAccepts(c, r)
    BY <1>1 DEF Accepts
  <2>2. CASE c = "env-up"
    BY <2>1, <2>2 DEF EnvAccepts
  <2>3. CASE c = "down-wait"
    BY <2>1, <2>3 DEF EnvAccepts, IsGone
  <2>4. CASE c \in {"env-cancel", "env-down"}
    BY <2>1, <2>4 DEF EnvAccepts
  <2>5. CASE c \in {"env-list", "env-status", "up-wait"}
    <3>1. r.status = 200
      BY <2>1, <2>5 DEF EnvAccepts
    <3> QED  BY <2>1, <2>5, <3>1
  <2> QED  BY <1>1, <2>2, <2>3, <2>4, <2>5 DEF EnvCalls
<1>2. CASE c \in AppCalls
  BY <1>2 DEF Accepts, AppAccepts, EnvCalls, AppCalls,
     BuildTaken, BuildStopped, BuildRead, BuildPolled
<1>3. CASE c = "whoami"
  BY <1>3 DEF Accepts, EnvCalls, AppCalls
<1> QED  BY <1>1, <1>2, <1>3 DEF Commands

\* The code is OK for an answer the command accepts and for nothing else.
LEMMA OKIsAccepted ==
  ASSUME NEW c \in Commands, NEW r \in Responses
  PROVE  ExitOf(c, r) = Code.OK <=> r.via = "http" /\ ~DecodeFails(c, r) /\ Accepts(c, r)
BY WrapIsAnError DEF ExitOf, OnExpiry, ProblemToError, Code, Responses

LEMMA ExitOfIsACode ==
  ASSUME NEW c \in Commands, NEW r \in Responses
  PROVE  ExitOf(c, r) \in Codes
BY WrapIsAnError DEF ExitOf, OnExpiry, ProblemToError, Code, Codes, Responses

\* A problem document reaches FromProblem, whatever the command decodes.
LEMMA ProblemReachesTable ==
  ASSUME NEW c \in Commands \ {"app-wait"}, NEW r \in Responses,
         r.via = "http", r.content = "problem+json", r.body \in Problems,
         ~Success(r.status), r.status # 404, r.status # 401 \/ c \in Waits
  PROVE  ExitOf(c, r) = FromProblem(r.body)
<1>1. r.body # Malformed /\ r.body # NoProblem
  BY DEF Problems, Malformed, NoProblem, Slugs
<1>2. ~DecodeFails(c, r) /\ ProblemOf(c, r) = r.body
  BY <1>1 DEF DecodeFails, ProblemOf, IsJSON
<1>3. ~Accepts(c, r)
  BY AcceptsOnlySuccess DEF Success, Waits
<1> QED  BY <1>1, <1>2, <1>3 DEF ExitOf, ProblemToError, WrapHTTP, Waits

-----------------------------------------------------------------------------
(* One command *)

ExitIsOfAnswer ==
  /\ cmd \in Commands /\ response \in Responses
  /\ exit \in {Running, ExitOf(cmd, response)}

LEMMA ExitInvariance == ExitSpec => []ExitIsOfAnswer
<1>1. ExitInit => ExitIsOfAnswer
  BY TriedAssumption DEF ExitInit, ExitIsOfAnswer
<1>2. ExitIsOfAnswer /\ [Exit]_exitVars => ExitIsOfAnswer'
  BY DEF ExitIsOfAnswer, Exit, exitVars
<1> QED  BY <1>1, <1>2, PTL DEF ExitSpec

\* The documented table of error types and exit codes holds of every command
\* but the wait of a build, and but for the 404 a teardown waits for.
THEOREM TableHolds == ExitSpec => []TableDecides
<1>1. ExitIsOfAnswer => TableDecides
  <2> SUFFICES ASSUME ExitIsOfAnswer, NEW row \in Table,
                      Exited, response.via = "http", cmd # "app-wait",
                      cmd = "down-wait" => row[2] # 404,
                      response.content = "problem+json", response.status = row[2],
                      response.body = [slug |-> row[1], status |-> row[2]]
               PROVE  exit = row[3]
    BY DEF TableDecides
  <2>1. /\ exit = ExitOf(cmd, response)
        /\ cmd \in Commands \ {"app-wait"} /\ response \in Responses
    BY DEF ExitIsOfAnswer, Exited
  <2>2. response.body \in Problems
    BY DEF Table, Problems, Slugs, Statuses
  <2>3. CASE row[2] \notin {401, 404}
    <3>1. ~Success(response.status)
      BY DEF Table, Success
    <3>2. exit = FromProblem([slug |-> row[1], status |-> row[2]])
      BY <2>1, <2>2, <2>3, <3>1, ProblemReachesTable
    <3> QED  BY <2>3, <3>2
             DEF Table, FromProblem, CodeForSlug, CodeForStatus, Known, Slugs, Code
  <2>4. CASE row[2] \in {401, 404}
    <3>1. response.body # Malformed /\ response.body # NoProblem
      BY <2>2 DEF Problems, Malformed, NoProblem, Slugs
    <3>2. ~DecodeFails(cmd, response) /\ ProblemOf(cmd, response) = response.body
      BY <3>1 DEF DecodeFails, ProblemOf, IsJSON
    <3>3. ~Accepts(cmd, response)
      BY <2>1, <2>4, AcceptsOnlySuccess
    <3>4. CASE row = <<"unauthenticated", 401, 3>>
      <4>1. CASE cmd \notin Waits
        BY <2>1, <3>2, <3>3, <3>4, <4>1 DEF ExitOf, Code
      <4>2. CASE cmd \in Waits
        <5>1. exit = FromProblem(response.body)
          BY <2>1, <2>2, <3>4, <4>2, ProblemReachesTable DEF Success
        <5> QED  BY <3>4, <5>1 DEF FromProblem, CodeForSlug, Known, Slugs, Code
      <4> QED  BY <4>1, <4>2
    <3>5. CASE row = <<"not-found", 404, 7>>
      <4>1. FromProblem(response.body) = 7
        BY <3>5 DEF FromProblem, CodeForSlug, Known, Slugs, Code
      <4> QED  BY <2>1, <3>1, <3>2, <3>3, <3>5, <4>1
               DEF ExitOf, ProblemToError, WrapHTTP, Success, Waits, Code
    <3> QED  BY <2>4, <3>4, <3>5 DEF Table
  <2> QED  BY <2>3, <2>4
<1> QED  BY <1>1, ExitInvariance, PTL

\* What a command accepts is what its endpoint documents, and conversely.
LEMMA AcceptedIsDocumented ==
  ASSUME NEW c \in Commands, NEW r \in Responses
  PROVE  (~DecodeFails(c, r) /\ Accepts(c, r)) <=>
            \/ <<c, r.status>> \in Described /\ IsJSON(r) /\ r.body # Malformed
            \/ <<c, r.status>> \in Taken
            \/ <<c, r.status>> = <<"down-wait", 404>> /\ ~(IsJSON(r) /\ r.body = Malformed)
<1>1. CASE c \in EnvCalls
  <2>1. Accepts(c, r) <=> EnvAccepts(c, r)
    BY <1>1 DEF Accepts
  <2>2. DecodeFails(c, r) <=> IsJSON(r) /\ r.status \in DecodedEnvs(c) /\ r.body = Malformed
    BY <1>1 DEF DecodeFails, Decoded
  <2>3. CASE c = "env-up"
    BY <2>1, <2>2, <2>3 DEF EnvAccepts, DecodedEnvs, Described, Taken
  <2>4. CASE c = "down-wait"
    BY <2>1, <2>2, <2>4 DEF EnvAccepts, DecodedEnvs, IsGone, Described, Taken
  <2>5. CASE c = "env-cancel"
    <3>1. (Accepts(c, r) <=> r.status = 202) /\ (DecodeFails(c, r) => r.status # 202)
      BY <2>1, <2>2, <2>5 DEF EnvAccepts, DecodedEnvs
    <3> QED  BY <2>5, <3>1 DEF Described, Taken
  <2>6. CASE c = "env-down"
    <3>1. (Accepts(c, r) <=> r.status = 202) /\ (DecodeFails(c, r) => r.status # 202)
      BY <2>1, <2>2, <2>6 DEF EnvAccepts, DecodedEnvs
    <3> QED  BY <2>6, <3>1 DEF Described, Taken
  <2>7. CASE c = "env-list"
    <3>1. /\ Accepts(c, r) <=> r.status = 200 /\ IsJSON(r)
          /\ r.status = 200 => (DecodeFails(c, r) <=> IsJSON(r) /\ r.body = Malformed)
      BY <2>1, <2>2, <2>7 DEF EnvAccepts, DecodedEnvs
    <3> QED  BY <2>7, <3>1 DEF Described, Taken
  <2>8. CASE c = "env-status"
    <3>1. /\ Accepts(c, r) <=> r.status = 200 /\ IsJSON(r)
          /\ r.status = 200 => (DecodeFails(c, r) <=> IsJSON(r) /\ r.body = Malformed)
      BY <2>1, <2>2, <2>8 DEF EnvAccepts, DecodedEnvs
    <3> QED  BY <2>8, <3>1 DEF Described, Taken
  <2>9. CASE c = "up-wait"
    <3>1. /\ Accepts(c, r) <=> r.status = 200 /\ IsJSON(r)
          /\ r.status = 200 => (DecodeFails(c, r) <=> IsJSON(r) /\ r.body = Malformed)
      BY <2>1, <2>2, <2>9 DEF EnvAccepts, DecodedEnvs
    <3> QED  BY <2>9, <3>1 DEF Described, Taken
  <2> QED  BY <1>1, <2>3, <2>4, <2>5, <2>6, <2>7, <2>8, <2>9 DEF EnvCalls
<1>2. CASE c \in AppCalls
  <2>1. Accepts(c, r) <=> AppAccepts(c, r)
    BY <1>2 DEF Accepts, AppCalls, EnvCalls
  <2>2. DecodeFails(c, r) <=> IsJSON(r) /\ r.status \in DecodedBuilds(c) /\ r.body = Malformed
    BY <1>2 DEF DecodeFails, Decoded, AppCalls, EnvCalls
  <2>3. CASE c = "app-build"
    <3>1. /\ Accepts(c, r) <=> r.status = 202 /\ IsJSON(r)
          /\ r.status = 202 => (DecodeFails(c, r) <=> IsJSON(r) /\ r.body = Malformed)
      BY <2>1, <2>2, <2>3 DEF AppAccepts,
         BuildTaken, BuildStopped, BuildRead, BuildPolled, DecodedBuilds
    <3> QED  BY <2>3, <3>1 DEF Described, Taken
  <2>4. CASE c = "app-list"
    <3>1. /\ Accepts(c, r) <=> r.status = 200 /\ IsJSON(r)
          /\ r.status = 200 => (DecodeFails(c, r) <=> IsJSON(r) /\ r.body = Malformed)
      BY <2>1, <2>2, <2>4 DEF AppAccepts,
         BuildTaken, BuildStopped, BuildRead, BuildPolled, DecodedBuilds
    <3> QED  BY <2>4, <3>1 DEF Described, Taken
  <2>5. CASE c = "app-status"
    <3>1. /\ Accepts(c, r) <=> r.status = 200 /\ IsJSON(r)
          /\ r.status = 200 => (DecodeFails(c, r) <=> IsJSON(r) /\ r.body = Malformed)
      BY <2>1, <2>2, <2>5 DEF AppAccepts,
         BuildTaken, BuildStopped, BuildRead, BuildPolled, DecodedBuilds
    <3> QED  BY <2>5, <3>1 DEF Described, Taken
  <2>6. CASE c = "app-wait"
    <3>1. /\ Accepts(c, r) <=> r.status = 200 /\ IsJSON(r)
          /\ r.status = 200 => (DecodeFails(c, r) <=> IsJSON(r) /\ r.body = Malformed)
      BY <2>1, <2>2, <2>6 DEF AppAccepts,
         BuildTaken, BuildStopped, BuildRead, BuildPolled, DecodedBuilds
    <3> QED  BY <2>6, <3>1 DEF Described, Taken
  <2>7. CASE c = "app-cancel"
    <3>1. (Accepts(c, r) <=> r.status = 202) /\ (DecodeFails(c, r) => r.status # 202)
      BY <2>1, <2>2, <2>7 DEF AppAccepts,
         BuildTaken, BuildStopped, BuildRead, BuildPolled, DecodedBuilds
    <3> QED  BY <2>7, <3>1 DEF Described, Taken
  <2>8. CASE c = "app-delete"
    <3>1. (Accepts(c, r) <=> r.status = 202) /\ (DecodeFails(c, r) => r.status # 202)
      BY <2>1, <2>2, <2>8 DEF AppAccepts,
         BuildTaken, BuildStopped, BuildRead, BuildPolled, DecodedBuilds
    <3> QED  BY <2>8, <3>1 DEF Described, Taken
  <2> QED  BY <1>2, <2>3, <2>4, <2>5, <2>6, <2>7, <2>8 DEF AppCalls
<1>3. CASE c = "whoami"
  BY <1>3 DEF Accepts, DecodeFails, Decoded, EnvCalls, AppCalls, Described, Taken
<1> QED  BY <1>1, <1>2, <1>3 DEF Commands

\* Exit code 0 means that the answer is one the command's endpoint documents as
\* a success, complete with what it describes, and such an answer gives it.
THEOREM SuccessIsReal == ExitSpec => []SuccessIsDocumented
<1>1. ExitIsOfAnswer => SuccessIsDocumented
  BY OKIsAccepted, AcceptedIsDocumented
  DEF ExitIsOfAnswer, SuccessIsDocumented, Exited
<1> QED  BY <1>1, ExitInvariance, PTL

\* Every command but a wait says with exit code 3 that one has to log in.
THEOREM LoginIsAskedFor == ExitSpec => []LoginNeeded
<1>1. ExitIsOfAnswer => LoginNeeded
  <2> SUFFICES ASSUME ExitIsOfAnswer, Exited, cmd \notin Waits,
                      response.via = "expired" \/ (response.via = "http" /\ response.status = 401
                                                   /\ ~DecodeFails(cmd, response))
               PROVE  ExitOf(cmd, response) = Code.Unauthenticated
    BY DEF ExitIsOfAnswer, LoginNeeded, Exited
  <2>1. response.status = 401 => ~Accepts(cmd, response)
    BY AcceptsOnlySuccess DEF ExitIsOfAnswer
  <2>2. CASE response.via = "expired"
    BY <2>2 DEF ExitOf, OnExpiry
  <2>3. CASE response.via = "http"
    BY <2>1, <2>3 DEF ExitOf, Waits
  <2> QED  BY <2>2, <2>3
<1> QED  BY <1>1, ExitInvariance, PTL

-----------------------------------------------------------------------------
(* The env commands: answers and the codes they give *)

LEMMA AnswerFields ==
  /\ \A status, slug :
       Answer(status, slug) = [via |-> "http", status |-> status, slug |-> slug,
                               state |-> "absent", number |-> NoEnv]
  /\ \A via : Error(via) = [via |-> via, status |-> 500, slug |-> "blank",
                            state |-> "absent", number |-> NoEnv]
BY DEF Answer, Error

LEMMA AnswersTyped ==
  /\ \A status \in Statuses, slug \in Slugs : Answer(status, slug) \in Replies
  /\ \A via \in {"expired", "broken"} : Error(via) \in Replies
  /\ \A status \in Statuses, state \in EnvStates, number \in Envs \cup {NoEnv} :
       Detail(status, state, number) \in Replies
BY AnswerFields DEF Detail, Replies, EnvStates, Statuses, Slugs

ResponseOf(c) ==
  [via |-> c.reply.via, status |-> c.reply.status,
   content |-> IF Success(c.reply.status) THEN "json" ELSE "problem+json",
   body |-> [slug |-> c.reply.slug, status |-> c.reply.status]]

LEMMA ResponseTyped ==
  ASSUME NEW c \in InvocationRecords
  PROVE  /\ ResponseOf(c) \in Responses /\ Handler(c) \in EnvCalls
         /\ CodeOf(c) = ExitOf(Handler(c), ResponseOf(c))
         /\ CodeOf(c) \in Codes
         /\ ~DecodeFails(Handler(c), ResponseOf(c))
<1>1. c.reply \in Replies /\ c.kind \in Kinds
  BY DEF InvocationRecords
<1>2. ResponseOf(c).body \in Problems /\ ResponseOf(c).body # Malformed
  BY <1>1 DEF ResponseOf, Replies, Problems, Malformed, Slugs
<1>3. ResponseOf(c) \in Responses
  BY <1>1, <1>2 DEF ResponseOf, Replies, Responses
<1>4. Handler(c) \in EnvCalls /\ Handler(c) \in Commands
  BY <1>1 DEF Handler, Kinds, EnvCalls, Commands
<1>5. CodeOf(c) = ExitOf(Handler(c), ResponseOf(c))
  BY DEF CodeOf, ResponseOf
<1> QED  BY <1>2, <1>3, <1>4, <1>5, ExitOfIsACode DEF DecodeFails

Given == Refusals \cup Consents \cup Failures

\* Exit code 0 is for a consent, or for a wait that is told of no environment.
LEMMA OKIsAConsent ==
  ASSUME NEW c \in InvocationRecords, Said(c) \in Given, CodeOf(c) = Code.OK
  PROVE  \/ Said(c) \in Consents
         \/ Said(c) \in Refusals /\ c.polling /\ c.kind # "env-up"
<1>1. /\ ResponseOf(c).via = c.reply.via /\ ResponseOf(c).status = c.reply.status
  BY DEF ResponseOf
<1>2. /\ c.reply.via = "http" /\ Accepts(Handler(c), ResponseOf(c))
  BY <1>1, ResponseTyped, OKIsAccepted DEF Commands
<1>3. c.reply.status \in {200, 202} \/ (Handler(c) = "down-wait" /\ c.reply.status = 404)
  BY <1>1, <1>2, ResponseTyped, AcceptsOnlySuccess DEF Commands
<1>4. Handler(c) = "down-wait" => c.polling /\ c.kind # "env-up"
  BY DEF Handler, InvocationRecords, Kinds
<1> QED  BY <1>2, <1>3, <1>4 DEF Said, Given, Refusals, Consents, Failures

\* "not found" and "conflict" are said of a refusal only.
LEMMA RefusalIsARefusal ==
  ASSUME NEW c \in InvocationRecords, Said(c) \in Given,
         CodeOf(c) \in {Code.NotFound, Code.Conflict}
  PROVE  Said(c) \in Refusals
<1> DEFINE h == Handler(c)
           r == ResponseOf(c)
<1>1. /\ r.via = c.reply.via /\ r.status = c.reply.status
      /\ r.body = [slug |-> c.reply.slug, status |-> c.reply.status]
      /\ r.content = IF Success(c.reply.status) THEN "json" ELSE "problem+json"
  BY DEF ResponseOf
<1>2. ExitOf(h, r) \in {7, 8} /\ h \in EnvCalls /\ h # "app-wait" /\ ~DecodeFails(h, r)
      /\ h # "env-status"
  BY ResponseTyped DEF Code, EnvCalls, Handler, InvocationRecords, Kinds
<1>3. c.reply.via = "http"
  BY <1>1, <1>2 DEF ExitOf, OnExpiry, Code, Said, Given, Refusals, Consents, Failures
<1>4. ~Success(c.reply.status)
  BY <1>1, <1>2, <1>3 DEF ExitOf, Code, Success
<1>5. CASE Said(c) = <<"http", 401, "unauthenticated">>
  <2>1. ProblemOf(h, r) = r.body /\ r.body # NoProblem
    BY <1>1, <1>4, <1>5 DEF ProblemOf, Said, Malformed, NoProblem
  <2>2. ProblemToError(h, r) = 3
    BY <1>1, <1>5, <2>1
    DEF ProblemToError, WrapHTTP, FromProblem, Known, Slugs, CodeForSlug, Said, Code
  <2> QED  BY <1>1, <1>2, <1>3, <1>4, <2>2 DEF ExitOf, Code
<1>6. CASE Said(c) = <<"http", 503, "upstream-failure">>
  <2>1. ProblemOf(h, r) = r.body /\ r.body # NoProblem
    BY <1>1, <1>4, <1>6 DEF ProblemOf, Said, Malformed, NoProblem
  <2>2. ProblemToError(h, r) = 9
    BY <1>1, <1>6, <2>1
    DEF ProblemToError, WrapHTTP, FromProblem, Known, Slugs, CodeForSlug, Said, Code
  <2> QED  BY <1>1, <1>2, <1>3, <1>4, <2>2 DEF ExitOf, Code
<1> QED  BY <1>3, <1>4, <1>5, <1>6 DEF Said, Given, Consents, Failures, Success

-----------------------------------------------------------------------------
(* The env commands: what a step leaves true *)

ServiceInv == LedgerNamesMade /\ LedgerIsPast /\ NoneMeansGone

TruthOf(c, i) == RecordIsTrue(c, i) /\ AnswerIsTrue(c, i) /\ EndIsTrue(c)

\* What the service has recorded it never takes back.
Grows ==
  /\ env.number <= env'.number
  /\ \A k \in Keys : ledger[k].env # NoEnv => ledger'[k] = ledger[k]
  /\ gone \subseteq gone'

Untouched == UNCHANGED <<env, teardown, ledger, made, gone, session>>

LEMMA KeyIsAKey == \A c : \A i \in Invocations : KeyOf(c, i) \in Keys
BY DEF KeyOf, Keys

\* What is true of a record stays true while the record does not change.
LEMMA TruthKept ==
  ASSUME TypeOK, TypeOK', Grows, NEW i \in Invocations,
         inv'[i] = inv[i], TruthOf(inv[i], i)
  PROVE  TruthOf(inv[i], i)'
<1> DEFINE c == inv[i]
           k == KeyOf(inv[i], i)
<1>1. k \in Keys /\ (ledger[k].env # NoEnv => ledger'[k] = ledger[k])
  BY KeyIsAKey DEF Grows
<1>2. c \in InvocationRecords /\ c.target \in Nat /\ env.number \in Nat /\ env'.number \in Nat
  BY EnvAssumption DEF TypeOK, InvocationRecords, Envs, NoEnv
<1>3. Accepted(inv[i], i) => Accepted(inv[i], i)'
  BY <1>1 DEF Accepted
<1>4. RecordIsTrue(inv[i], i)'
  BY <1>1, <1>2 DEF TruthOf, RecordIsTrue, Grows
<1>5. AnswerIsTrue(inv[i], i)'
  BY <1>2, <1>3 DEF TruthOf, AnswerIsTrue, Grows
<1>6. EndIsTrue(inv[i])'
  BY DEF TruthOf, EndIsTrue
<1> QED  BY <1>4, <1>5, <1>6 DEF TruthOf

\* A step of one invocation: its own record, and what the service records.
LEMMA StepOfOne ==
  ASSUME IInv, TypeOK', Grows, ServiceInv', NEW i \in Invocations,
         \A j \in Invocations \ {i} : inv'[j] = inv[j], TruthOf(inv[i], i)'
  PROVE  IInv'
<1>1. ASSUME NEW j \in Invocations
      PROVE  TruthOf(inv[j], j)'
  <2>1. CASE j = i
    BY <2>1
  <2>2. CASE j # i
    BY <2>2, TruthKept DEF IInv, TruthOf
  <2> QED  BY <2>1, <2>2
<1> QED  BY <1>1 DEF IInv, TruthOf, ServiceInv

\* A step of an invocation that the service does not notice.
LEMMA UntouchedKeeps ==
  ASSUME IInv, Untouched
  PROVE  /\ Grows /\ ServiceInv'
         /\ inv' \in [Invocations -> InvocationRecords] => TypeOK'
<1>1. ServiceInv'
  BY DEF IInv, ServiceInv, Untouched, LedgerNamesMade, LedgerIsPast, NoneMeansGone
<1>2. Grows
  BY EnvAssumption DEF IInv, TypeOK, Untouched, Grows, Envs, NoEnv
<1> QED  BY <1>1, <1>2 DEF IInv, TypeOK, Untouched

-----------------------------------------------------------------------------
(* The env commands: records *)

\* An update of one record.
LEMMA UpdateOfOne ==
  ASSUME NEW f \in [Invocations -> InvocationRecords], NEW i \in Invocations,
         NEW d \in InvocationRecords
  PROVE  /\ [f EXCEPT ![i] = d] \in [Invocations -> InvocationRecords]
         /\ [f EXCEPT ![i] = d][i] = d
         /\ \A j \in Invocations \ {i} : [f EXCEPT ![i] = d][j] = f[j]
OBVIOUS

SettledFrom(c, stage, code) == [c EXCEPT !.stage = stage, !.exit = code, !.seen = c.reply.state]

LEMMA SettleFields ==
  ASSUME TypeOK, NEW i \in Invocations, NEW stage \in Stages,
         NEW code \in Codes \cup {Running}, Settle(i, stage, code)
  PROVE  LET c == inv[i]  d == inv'[i] IN
         /\ Untouched
         /\ inv' \in [Invocations -> InvocationRecords]
         /\ \A j \in Invocations \ {i} : inv'[j] = inv[j]
         /\ d.stage = stage /\ d.exit = code /\ d.seen = c.reply.state
         /\ d.kind = c.kind /\ d.wait = c.wait /\ d.own = c.own /\ d.body = c.body
         /\ d.polling = c.polling /\ d.reply = c.reply
         /\ d.applied = c.applied /\ d.target = c.target
<1> DEFINE c == inv[i]
           d == SettledFrom(c, stage, code)
<1>1. c \in InvocationRecords /\ c.reply.state \in EnvStates
  BY DEF TypeOK, InvocationRecords, Replies
<1>2. d \in InvocationRecords
  BY <1>1 DEF SettledFrom, InvocationRecords
<1>3. inv' = [inv EXCEPT ![i] = d]
  BY DEF Settle, SettledFrom, TypeOK
<1>4. inv'[i] = d
  BY <1>2, <1>3, UpdateOfOne DEF TypeOK
<1> QED  BY <1>1, <1>2, <1>3, <1>4, UpdateOfOne
         DEF SettledFrom, InvocationRecords, Settle, Untouched, TypeOK

LEMMA ReceivedFields ==
  ASSUME TypeOK, NEW i \in Invocations, NEW r \in Replies, inv' = Received(i, r)
  PROVE  LET c == inv[i]  d == inv'[i] IN
         /\ inv' \in [Invocations -> InvocationRecords]
         /\ \A j \in Invocations \ {i} : inv'[j] = inv[j]
         /\ d.stage = "answered" /\ d.reply = r
         /\ d.kind = c.kind /\ d.wait = c.wait /\ d.own = c.own /\ d.body = c.body
         /\ d.polling = c.polling /\ d.applied = c.applied /\ d.target = c.target
<1> DEFINE d == [inv[i] EXCEPT !.stage = "answered", !.reply = r]
<1>1. inv[i] \in InvocationRecords
  BY DEF TypeOK
<1>2. d \in InvocationRecords
  BY <1>1 DEF InvocationRecords, Stages
<1>3. inv' = [inv EXCEPT ![i] = d]
  BY DEF Received, TypeOK
<1>4. inv'[i] = d
  BY <1>2, <1>3, UpdateOfOne DEF TypeOK
<1> QED  BY <1>1, <1>2, <1>3, <1>4, UpdateOfOne DEF InvocationRecords, TypeOK

LEMMA AppliedFields ==
  ASSUME TypeOK, NEW i \in Invocations, NEW r \in Replies,
         NEW number \in Envs \cup {NoEnv}, inv' = Applied(i, r, number)
  PROVE  LET c == inv[i]  d == inv'[i] IN
         /\ inv' \in [Invocations -> InvocationRecords]
         /\ \A j \in Invocations \ {i} : inv'[j] = inv[j]
         /\ d.stage = "answered" /\ d.reply = r /\ d.applied /\ d.target = number
         /\ d.kind = c.kind /\ d.wait = c.wait /\ d.own = c.own /\ d.body = c.body
         /\ d.polling = c.polling
<1> DEFINE d == [inv[i] EXCEPT !.stage = "answered", !.reply = r, !.applied = TRUE,
                               !.target = number]
<1>1. inv[i] \in InvocationRecords
  BY DEF TypeOK
<1>2. d \in InvocationRecords
  BY <1>1 DEF InvocationRecords, Stages
<1>3. inv' = [inv EXCEPT ![i] = d]
  BY DEF Applied, TypeOK
<1>4. inv'[i] = d
  BY <1>2, <1>3, UpdateOfOne DEF TypeOK
<1> QED  BY <1>1, <1>2, <1>3, <1>4, UpdateOfOne DEF InvocationRecords, TypeOK

-----------------------------------------------------------------------------
(* The env commands: the steps of a command *)

LEMMA StartKeeps ==
  ASSUME IInv, NEW i \in Invocations, NEW kind \in Kinds, NEW wait \in BOOLEAN,
         NEW own \in BOOLEAN, NEW body \in Bodies, Start(i, kind, wait, own, body)
  PROVE  IInv'
<1> DEFINE d == [Idle(body) EXCEPT !.stage = "sent", !.kind = kind, !.wait = wait,
                                   !.own = own]
<1>1. Error("broken") \in Replies
  BY AnswersTyped
<1>2. d \in InvocationRecords
  BY <1>1 DEF Idle, InvocationRecords, Stages, EnvStates, Kinds
<1>3. /\ inv' = [inv EXCEPT ![i] = d] /\ Untouched
  BY DEF Start, Untouched
<1>4. /\ inv' \in [Invocations -> InvocationRecords] /\ inv'[i] = d
      /\ \A j \in Invocations \ {i} : inv'[j] = inv[j]
  BY <1>2, <1>3, UpdateOfOne DEF IInv, TypeOK
<1>5. /\ d.stage = "sent" /\ ~d.applied /\ ~d.polling /\ d.target = NoEnv
      /\ d.reply.via = "broken" /\ d.reply.status = 500 /\ d.reply.slug = "blank"
  BY AnswerFields DEF Idle
<1>6. 0 <= env'.number
  BY <1>3, EnvAssumption DEF IInv, TypeOK, Untouched, Envs, NoEnv
<1>7. TruthOf(inv[i], i)'
  BY <1>4, <1>5, <1>6
  DEF TruthOf, RecordIsTrue, AnswerIsTrue, EndIsTrue, Said, Refusals, Consents, Failures, NoEnv
<1> QED  BY <1>3, <1>4, <1>7, StepOfOne, UntouchedKeeps

\* Concluding, timing out and waiting: only what is remembered changes.
LEMMA SettleKeeps ==
  ASSUME IInv, NEW i \in Invocations, inv[i].stage = "answered",
         NEW stage \in {"done", "waiting"}, NEW code \in Codes \cup {Running},
         Settle(i, stage, code),
         stage = "waiting" => CodeOf(inv[i]) = Code.OK,
         stage = "done" /\ code # Code.Generic => code = CodeOf(inv[i]) /\ ~StillWaiting(inv[i])
  PROVE  IInv'
<1> DEFINE c == inv[i]
           d == inv'[i]
<1>1. c \in InvocationRecords /\ TypeOK /\ TruthOf(c, i) /\ stage \in Stages
  BY DEF IInv, TypeOK, TruthOf, Stages
<1>2. /\ Untouched
      /\ inv' \in [Invocations -> InvocationRecords]
      /\ \A j \in Invocations \ {i} : inv'[j] = inv[j]
      /\ d.stage = stage /\ d.exit = code /\ d.seen = c.reply.state
      /\ d.kind = c.kind /\ d.wait = c.wait /\ d.own = c.own /\ d.body = c.body
      /\ d.polling = c.polling /\ d.reply = c.reply
      /\ d.applied = c.applied /\ d.target = c.target
  BY <1>1, SettleFields
<1>3. Grows /\ ServiceInv' /\ TypeOK'
  BY <1>2, UntouchedKeeps
<1>4. /\ KeyOf(d, i) = KeyOf(c, i) /\ Said(d) = Said(c)
      /\ CodeOf(d) = CodeOf(c) /\ StillWaiting(d) = StillWaiting(c)
  <2>1. KeyOf(d, i) = KeyOf(c, i) /\ Said(d) = Said(c)
    BY <1>2 DEF KeyOf, Said
  <2>2. Handler(d) = Handler(c)
    BY <1>2 DEF Handler
  <2>3. CodeOf(d) = CodeOf(c)
    BY <1>2, <2>2 DEF CodeOf
  <2> QED  BY <1>2, <2>1, <2>3 DEF StillWaiting
<1>5. /\ env' = env /\ ledger' = ledger /\ gone' = gone
  BY <1>2 DEF Untouched
<1>6. RecordIsTrue(inv[i], i)'
  BY <1>1, <1>2, <1>4, <1>5 DEF TruthOf, RecordIsTrue, Said
<1>7. AnswerIsTrue(inv[i], i)'
  <2>1. Accepted(inv[i], i)' <=> Accepted(c, i)
    BY <1>2, <1>4, <1>5 DEF Accepted
  <2>2. stage = "waiting" => Said(c) \in Consents \/ c.polling
    BY <1>1, OKIsAConsent DEF TruthOf, RecordIsTrue, Given
  <2>3. Said(inv[i])' = Said(c)
    BY <1>2, <1>4 DEF Said
  <2> QED  BY <1>1, <1>2, <1>5, <2>1, <2>2, <2>3 DEF TruthOf, AnswerIsTrue
<1>8. EndIsTrue(inv[i])'
  <2>1. CodeOf(inv[i])' = CodeOf(d) /\ StillWaiting(inv[i])' = StillWaiting(d)
    BY DEF CodeOf, StillWaiting, Handler
  <2> QED  BY <1>2, <1>4, <2>1 DEF EndIsTrue
<1> QED  BY <1>2, <1>3, <1>6, <1>7, <1>8, StepOfOne DEF TruthOf

LEMMA PollKeeps ==
  ASSUME IInv, NEW i \in Invocations, Poll(i)
  PROVE  IInv'
<1> DEFINE c == inv[i]
           d == [c EXCEPT !.stage = "sent", !.polling = TRUE]
<1>1. c \in InvocationRecords /\ TypeOK /\ TruthOf(c, i) /\ c.stage = "waiting"
  BY DEF IInv, TypeOK, TruthOf, Poll
<1>2. d \in InvocationRecords
  BY <1>1 DEF InvocationRecords, Stages
<1>3. /\ inv' = [inv EXCEPT ![i] = d] /\ Untouched
  BY <1>1 DEF Poll, Untouched, TypeOK
<1>4. /\ inv' \in [Invocations -> InvocationRecords] /\ inv'[i] = d
      /\ \A j \in Invocations \ {i} : inv'[j] = inv[j]
  BY <1>1, <1>2, <1>3, UpdateOfOne DEF TypeOK
<1>5. /\ d.stage = "sent" /\ d.polling /\ d.reply = c.reply /\ d.kind = c.kind
      /\ d.own = c.own /\ d.body = c.body /\ d.applied = c.applied /\ d.target = c.target
  BY <1>1 DEF InvocationRecords
<1>6. /\ env' = env /\ ledger' = ledger /\ gone' = gone
  BY <1>3 DEF Untouched
<1>7. KeyOf(inv[i], i)' = KeyOf(c, i) /\ Said(inv[i])' = Said(c)
  BY <1>4, <1>5 DEF KeyOf, Said
<1>8. TruthOf(inv[i], i)'
  BY <1>1, <1>4, <1>5, <1>6, <1>7
  DEF TruthOf, RecordIsTrue, AnswerIsTrue, EndIsTrue, Accepted
<1> QED  BY <1>3, <1>4, <1>8, StepOfOne, UntouchedKeeps

LEMMA CommandKeeps ==
  ASSUME IInv, NEW i \in Invocations, Command(i)
  PROVE  IInv'
<1>1. /\ "env-up" \in Kinds /\ "env-down" \in Kinds /\ "env-cancel" \in Kinds
      /\ (CHOOSE b \in Bodies : TRUE) \in Bodies
  BY EnvAssumption DEF Kinds
<1>2. CodeOf(inv[i]) \in Codes /\ Running \in Codes \cup {Running} /\ Code.Generic \in Codes
  BY ResponseTyped DEF IInv, TypeOK, Code, Codes
<1>3. CASE \E wait, own \in BOOLEAN, body \in Bodies : Start(i, "env-up", wait, own, body)
  BY <1>1, <1>3, StartKeeps
<1>4. CASE \E wait \in BOOLEAN : Start(i, "env-down", wait, TRUE, CHOOSE b \in Bodies : TRUE)
  BY <1>1, <1>4, StartKeeps
<1>5. CASE Start(i, "env-cancel", FALSE, TRUE, CHOOSE b \in Bodies : TRUE)
  BY <1>1, <1>5, StartKeeps
<1>6. CASE Conclude(i)
  BY <1>2, <1>6, SettleKeeps DEF Conclude
<1>7. CASE Wait(i)
  BY <1>2, <1>7, SettleKeeps DEF Wait, StillWaiting, Code, Running
<1>8. CASE TimeOut(i)
  BY <1>2, <1>8, SettleKeeps DEF TimeOut
<1>9. CASE Poll(i)
  BY <1>9, PollKeeps
<1> QED  BY <1>3, <1>4, <1>5, <1>6, <1>7, <1>8, <1>9 DEF Command

-----------------------------------------------------------------------------
(* The env commands: the steps of the network and the service *)

\* What the caller of a lemma about an answer has to show of it.
IsTrueAnswer(c, i, r) ==
  LET said == <<r.via, r.status, r.slug>> IN
  /\ said \in Given
  /\ said \in Refusals /\ ~c.polling => ~c.applied
  /\ said \in Consents => Accepted(c, i)
  /\ said \in Consents /\ c.kind = "env-up" => r.number >= c.target
  /\ /\ c.polling /\ c.kind = "env-down" /\ said \in Consents \cup Refusals
     /\ r.state \in {"absent", "Env_Torn_Down"}
     => \E e \in gone : c.target <= e

LEMMA ReceivedKeeps ==
  ASSUME IInv, NEW i \in Invocations, NEW r \in Replies,
         inv' = Received(i, r), Untouched, IsTrueAnswer(inv[i], i, r)
  PROVE  IInv'
<1> DEFINE c == inv[i]
           d == inv'[i]
<1>1. TypeOK /\ TruthOf(c, i)
  BY DEF IInv, TruthOf
<1>2. /\ inv' \in [Invocations -> InvocationRecords]
      /\ \A j \in Invocations \ {i} : inv'[j] = inv[j]
      /\ d.stage = "answered" /\ d.reply = r
      /\ d.kind = c.kind /\ d.wait = c.wait /\ d.own = c.own /\ d.body = c.body
      /\ d.polling = c.polling /\ d.applied = c.applied /\ d.target = c.target
  BY <1>1, ReceivedFields
<1>3. /\ env' = env /\ ledger' = ledger /\ gone' = gone
  BY DEF Untouched
<1>4. /\ KeyOf(inv[i], i)' = KeyOf(c, i) /\ Said(inv[i])' = <<r.via, r.status, r.slug>>
      /\ Accepted(inv[i], i)' <=> Accepted(c, i)
  BY <1>2, <1>3 DEF KeyOf, Said, Accepted
<1>5. RecordIsTrue(inv[i], i)'
  BY <1>1, <1>2, <1>3, <1>4 DEF TruthOf, RecordIsTrue, IsTrueAnswer, Given
<1>6. AnswerIsTrue(inv[i], i)'
  BY <1>1, <1>2, <1>3, <1>4 DEF TruthOf, AnswerIsTrue, IsTrueAnswer
<1>7. EndIsTrue(inv[i])'
  BY <1>2 DEF EndIsTrue
<1> QED  BY <1>2, <1>5, <1>6, <1>7, StepOfOne, UntouchedKeeps DEF TruthOf

\* An answer that neither consents nor refuses says nothing about the env.
LEMMA FailureKeeps ==
  ASSUME IInv, NEW i \in Invocations, NEW r \in Replies,
         inv' = Received(i, r), Untouched, <<r.via, r.status, r.slug>> \in Failures
  PROVE  IInv'
<1>1. IsTrueAnswer(inv[i], i, r)
  BY DEF IsTrueAnswer, Given, Failures, Consents, Refusals
<1> QED  BY <1>1, ReceivedKeeps

LEMMA NetworkKeeps ==
  ASSUME IInv, NEW i \in Invocations, Network(i)
  PROVE  IInv'
<1>1. /\ Error("broken") \in Replies /\ Error("expired") \in Replies
      /\ Answer(401, "unauthenticated") \in Replies
  BY AnswersTyped DEF Statuses, Slugs
<1>2. CASE Lost(i)
  BY <1>1, <1>2, AnswerFields, FailureKeeps DEF Lost, Untouched, Failures
<1>3. CASE SessionLost(i)
  BY <1>1, <1>3, AnswerFields, FailureKeeps DEF SessionLost, Untouched, Failures
<1>4. CASE Resend(i)
  <2> DEFINE c == inv[i]
             d == [c EXCEPT !.stage = "sent", !.resent = TRUE]
  <2>1. c \in InvocationRecords /\ TypeOK /\ TruthOf(c, i) /\ c.kind = "env-up"
    BY <1>4 DEF IInv, TypeOK, TruthOf, Resend
  <2>2. d \in InvocationRecords
    BY <2>1 DEF InvocationRecords, Stages
  <2>3. /\ inv' = [inv EXCEPT ![i] = d] /\ Untouched
    BY <1>4, <2>1 DEF Resend, Untouched, TypeOK
  <2>4. /\ inv' \in [Invocations -> InvocationRecords] /\ inv'[i] = d
        /\ \A j \in Invocations \ {i} : inv'[j] = inv[j]
    BY <2>1, <2>2, <2>3, UpdateOfOne DEF TypeOK
  <2>5. /\ d.stage = "sent" /\ d.polling = c.polling /\ d.reply = c.reply /\ d.kind = c.kind
        /\ d.own = c.own /\ d.body = c.body /\ d.applied = c.applied /\ d.target = c.target
    BY <2>1 DEF InvocationRecords
  <2>6. /\ env' = env /\ ledger' = ledger /\ gone' = gone
    BY <2>3 DEF Untouched
  <2>7. KeyOf(inv[i], i)' = KeyOf(c, i) /\ Said(inv[i])' = Said(c)
    BY <2>4, <2>5 DEF KeyOf, Said
  <2>8. TruthOf(inv[i], i)'
    BY <2>1, <2>4, <2>5, <2>6, <2>7
    DEF TruthOf, RecordIsTrue, AnswerIsTrue, EndIsTrue, Accepted
  <2> QED  BY <2>3, <2>4, <2>8, StepOfOne, UntouchedKeeps
<1> QED  BY <1>2, <1>3, <1>4 DEF Network

\* Reject gives an answer of the service and does nothing.
LEMMA RejectKeeps ==
  ASSUME IInv, NEW i \in Invocations, NEW status \in Statuses, NEW slug \in Slugs,
         Reject(i, status, slug), ~inv[i].polling,
         <<"http", status, slug>> \in Refusals \cup Failures,
         <<"http", status, slug>> \in Refusals => ~inv[i].applied
  PROVE  IInv'
<1> DEFINE r == Answer(status, slug)
<1>1. /\ inv' = Received(i, r) /\ Untouched /\ r \in Replies
      /\ r.via = "http" /\ r.status = status /\ r.slug = slug
  BY AnswersTyped, AnswerFields DEF Reject, Untouched
<1>2. <<"http", status, slug>> \notin Consents
  BY DEF Consents, Refusals, Failures
<1>3. IsTrueAnswer(inv[i], i, r)
  BY <1>1, <1>2 DEF IsTrueAnswer, Given
<1> QED  BY <1>1, <1>3, ReceivedKeeps

\* A request that was applied, and will be answered again, has its entry in
\* the ledger; cancel and down are not sent again.
LEMMA AppliedIsRecorded ==
  ASSUME IInv, NEW i \in Invocations, inv[i].stage = "sent", ~inv[i].polling, inv[i].applied
  PROVE  LET k == KeyOf(inv[i], i) IN
         /\ inv[i].kind = "env-up"
         /\ ledger[k].env = inv[i].target /\ ledger[k].env # NoEnv
         /\ ledger[k].body = inv[i].body
<1> DEFINE k == KeyOf(inv[i], i)
<1>1. RecordIsTrue(inv[i], i)
  BY DEF IInv
<1>2. ledger[k] = [body |-> inv[i].body, env |-> inv[i].target]
  BY <1>1 DEF RecordIsTrue
<1>3. inv[i].kind = "env-up" /\ inv[i].target # NoEnv
  BY <1>1 DEF RecordIsTrue
<1> QED  BY <1>2, <1>3

\* An env that was found has a number.
LEMMA FoundIsNumbered ==
  ASSUME IInv
  PROVE  /\ env.number \in Nat /\ env.number \in Envs \cup {NoEnv}
         /\ env.state # "absent" => env.number # NoEnv
         /\ \A k \in Keys : ledger[k].env \in Envs \cup {NoEnv} /\ ledger[k].env <= env.number
         /\ \A i \in Invocations : inv[i].target \in Nat /\ inv[i].target <= env.number
         /\ env = [state |-> env.state, number |-> env.number]
<1>1. /\ env \in [state : EnvStates, number : Envs \cup {NoEnv}]
      /\ ledger \in [Keys -> [body : Bodies, env : Envs \cup {NoEnv}]]
      /\ inv \in [Invocations -> InvocationRecords]
  BY DEF IInv, TypeOK
<1>2. Envs \cup {NoEnv} \subseteq Nat
  BY EnvAssumption DEF Envs, NoEnv
<1>3. \A k \in Keys : ledger[k].env \in Envs \cup {NoEnv} /\ ledger[k].env <= env.number
  BY <1>1 DEF IInv, LedgerIsPast
<1>4. ASSUME NEW i \in Invocations
      PROVE  inv[i].target \in Nat /\ inv[i].target <= env.number
  <2>1. inv[i] \in InvocationRecords /\ RecordIsTrue(inv[i], i)
    BY <1>1 DEF IInv
  <2> QED  BY <1>2, <2>1 DEF InvocationRecords, RecordIsTrue
<1>5. env.state # "absent" => env.number # NoEnv
  BY DEF IInv, NoneMeansGone
<1> QED  BY <1>1, <1>2, <1>3, <1>4, <1>5

\* The env's number and what is recorded do not change; its state may.
LEMMA StateMoves ==
  ASSUME IInv, NEW state \in EnvStates, env' = [env EXCEPT !.state = state],
         UNCHANGED <<ledger, made, session>>,
         teardown' \in BOOLEAN, gone' \in {gone, gone \cup {env.number}},
         env.state # "absent", state \in {"absent", "Env_Torn_Down"} => env.number \in gone'
  PROVE  /\ Grows /\ ServiceInv'
         /\ inv' \in [Invocations -> InvocationRecords] => TypeOK'
<1>1. env'.state = state /\ env'.number = env.number /\ env.number \in Envs
  BY FoundIsNumbered DEF IInv, TypeOK
<1>2. Grows
  BY <1>1, FoundIsNumbered DEF Grows
<1>3. ServiceInv'
  BY <1>1, FoundIsNumbered
  DEF IInv, ServiceInv, LedgerNamesMade, LedgerIsPast, NoneMeansGone
<1>4. env' \in [state : EnvStates, number : Envs \cup {NoEnv}]
  BY DEF IInv, TypeOK
<1> QED  BY <1>1, <1>2, <1>3, <1>4 DEF IInv, TypeOK

\* A request to cancel or to tear down that was taken.
LEMMA TakenKeeps ==
  ASSUME IInv, Grows, ServiceInv',
         inv' \in [Invocations -> InvocationRecords] => TypeOK',
         env'.number = env.number, env.state # "absent",
         NEW i \in Invocations, inv[i].kind # "env-up", ~inv[i].polling,
         inv' = Applied(i, Answer(202, "blank"), env.number)
  PROVE  IInv'
<1> DEFINE c == inv[i]
           d == inv'[i]
           r == Answer(202, "blank")
<1>1. /\ TypeOK /\ TruthOf(c, i) /\ r \in Replies
      /\ r.via = "http" /\ r.status = 202 /\ r.slug = "blank"
  BY AnswersTyped, AnswerFields DEF IInv, TruthOf, Statuses, Slugs
<1>2. env.number \in Envs \cup {NoEnv} /\ env.number \in Nat /\ env.number # NoEnv
  BY FoundIsNumbered
<1>3. /\ inv' \in [Invocations -> InvocationRecords]
      /\ \A j \in Invocations \ {i} : inv'[j] = inv[j]
      /\ d.stage = "answered" /\ d.reply = r /\ d.applied /\ d.target = env.number
      /\ d.kind = c.kind /\ d.polling = c.polling
  BY <1>1, <1>2, AppliedFields
<1>4. Said(inv[i])' = <<"http", 202, "blank">>
  BY <1>1, <1>3 DEF Said
<1>5. TruthOf(inv[i], i)'
  BY <1>1, <1>2, <1>3, <1>4
  DEF TruthOf, RecordIsTrue, AnswerIsTrue, EndIsTrue, Accepted, Refusals, Consents
<1> QED  BY <1>3, <1>5, StepOfOne

LEMMA CancelKeeps ==
  ASSUME IInv, NEW i \in Invocations, CancelEnv(i)
  PROVE  IInv'
<1>1. /\ inv[i].stage = "sent" /\ ~inv[i].polling /\ inv[i].kind = "env-cancel"
      /\ ~inv[i].applied
  BY AppliedIsRecorded DEF CancelEnv, Arrived
<1>2. CASE env.state \in {"absent", "Env_Torn_Down"} /\ Reject(i, 404, "not-found")
  BY <1>1, <1>2, RejectKeeps DEF Refusals, Statuses, Slugs
<1>3. CASE Reject(i, 409, "blank")
  BY <1>1, <1>3, RejectKeeps DEF Refusals, Statuses, Slugs
<1>4. CASE /\ env.state \in {"Queued", "Job_Scheduled"}
           /\ env' = [env EXCEPT !.state = "Job_Cancelled"] /\ teardown' = FALSE
           /\ inv' = Applied(i, Answer(202, "blank"), env.number)
           /\ UNCHANGED <<ledger, made, gone, session>>
  <2>1. /\ Grows /\ ServiceInv'
        /\ inv' \in [Invocations -> InvocationRecords] => TypeOK'
    BY <1>4, StateMoves DEF EnvStates, Terminal
  <2>2. env'.number = env.number
    BY <1>4, FoundIsNumbered
  <2> QED  BY <1>1, <1>4, <2>1, <2>2, TakenKeeps
<1> QED  BY <1>2, <1>3, <1>4 DEF CancelEnv

LEMMA DeleteKeeps ==
  ASSUME IInv, NEW i \in Invocations, DeleteEnv(i)
  PROVE  IInv'
<1>1. /\ inv[i].stage = "sent" /\ ~inv[i].polling /\ inv[i].kind = "env-down"
      /\ ~inv[i].applied
  BY AppliedIsRecorded DEF DeleteEnv, Arrived
<1>2. CASE Reject(i, 404, "not-found")
  BY <1>1, <1>2, RejectKeeps DEF Refusals, Statuses, Slugs
<1>3. CASE /\ env.state \notin {"absent", "Env_Torn_Down"}
           /\ teardown' = TRUE
           /\ \/ env' = [env EXCEPT !.state = "Job_Scheduled"]
              \/ UNCHANGED env
           /\ inv' = Applied(i, Answer(202, "blank"), env.number)
           /\ UNCHANGED <<ledger, made, gone, session>>
  <2>1. PICK state \in EnvStates \ {"absent", "Env_Torn_Down"} :
           env' = [env EXCEPT !.state = state]
    <3>1. env.state \in EnvStates /\ env = [env EXCEPT !.state = env.state]
      BY DEF IInv, TypeOK
    <3> QED  BY <1>3, <3>1 DEF EnvStates, Terminal
  <2>2. /\ Grows /\ ServiceInv'
        /\ inv' \in [Invocations -> InvocationRecords] => TypeOK'
    BY <1>3, <2>1, StateMoves
  <2>3. env'.number = env.number
    BY <2>1, FoundIsNumbered
  <2> QED  BY <1>1, <1>3, <2>2, <2>3, TakenKeeps
<1> QED  BY <1>2, <1>3 DEF DeleteEnv

LEMMA GetKeeps ==
  ASSUME IInv, NEW i \in Invocations, GetEnv(i)
  PROVE  IInv'
<1> DEFINE c == inv[i]
<1>1. /\ c.stage = "sent" /\ c.polling /\ Accepted(c, i)
      /\ c.applied => c.target # NoEnv
  BY DEF GetEnv, IInv, AnswerIsTrue, RecordIsTrue
<1>2. c.kind = "env-down" => 0 < c.target
  BY <1>1, FoundIsNumbered DEF Accepted, NoEnv
<1>3. c.target <= env.number /\ c.target \in Nat /\ env.number \in Nat
  BY FoundIsNumbered
<1>4. c.kind = "env-down" /\ env.state \in {"absent", "Env_Torn_Down"}
        => \E e \in gone : c.target <= e
  BY <1>2, <1>3 DEF IInv, NoneMeansGone, NoEnv
<1>5. CASE env.state = "absent" /\ Reject(i, 404, "not-found")
  <2> DEFINE r == Answer(404, "not-found")
  <2>1. /\ inv' = Received(i, r) /\ Untouched /\ r \in Replies
        /\ r.via = "http" /\ r.status = 404 /\ r.slug = "not-found"
    BY <1>5, AnswersTyped, AnswerFields DEF Reject, Untouched, Statuses, Slugs
  <2>2. IsTrueAnswer(c, i, r)
    BY <1>1, <1>4, <1>5, <2>1 DEF IsTrueAnswer, Given, Refusals, Consents
  <2> QED  BY <2>1, <2>2, ReceivedKeeps
<1>6. CASE /\ inv' = Received(i, Detail(200, env.state, env.number))
           /\ UNCHANGED <<env, teardown, ledger, made, gone, session>>
  <2> DEFINE r == Detail(200, env.state, env.number)
  <2>1. /\ r \in Replies /\ r.via = "http" /\ r.status = 200 /\ r.slug = "blank"
        /\ r.state = env.state /\ r.number = env.number
    BY AnswersTyped, FoundIsNumbered DEF Detail, IInv, TypeOK, Statuses
  <2>2. IsTrueAnswer(c, i, r)
    BY <1>1, <1>3, <1>4, <2>1 DEF IsTrueAnswer, Given, Refusals, Consents
  <2> QED  BY <1>6, <2>1, <2>2, ReceivedKeeps DEF Untouched
<1> QED  BY <1>5, <1>6 DEF GetEnv

LEMMA UnavailableKeeps ==
  ASSUME IInv, NEW i \in Invocations, Unavailable(i)
  PROVE  IInv'
<1> DEFINE r == Answer(503, "upstream-failure")
<1>1. /\ inv' = Received(i, r) /\ Untouched /\ r \in Replies
      /\ r.via = "http" /\ r.status = 503 /\ r.slug = "upstream-failure"
  BY AnswersTyped, AnswerFields DEF Unavailable, Reject, Untouched, Statuses, Slugs
<1>2. <<r.via, r.status, r.slug>> \in Failures
  BY <1>1 DEF Failures
<1> QED  BY <1>1, <1>2, FailureKeeps

Replayed(i, r, number) == [Received(i, r) EXCEPT ![i].target = number]

LEMMA ReplayedFields ==
  ASSUME TypeOK, NEW i \in Invocations, NEW r \in Replies,
         NEW number \in Envs \cup {NoEnv},
         inv' = Replayed(i, r, number)
  PROVE  LET c == inv[i]  d == inv'[i] IN
         /\ inv' \in [Invocations -> InvocationRecords]
         /\ \A j \in Invocations \ {i} : inv'[j] = inv[j]
         /\ d.stage = "answered" /\ d.reply = r /\ d.target = number
         /\ d.kind = c.kind /\ d.own = c.own /\ d.body = c.body
         /\ d.polling = c.polling /\ d.applied = c.applied
<1> DEFINE d == [inv[i] EXCEPT !.stage = "answered", !.reply = r, !.target = number]
<1>1. inv[i] \in InvocationRecords
  BY DEF TypeOK
<1>2. d \in InvocationRecords
  BY <1>1 DEF InvocationRecords, Stages
<1>3. inv' = [inv EXCEPT ![i] = d]
  BY DEF Replayed, Received, TypeOK
<1>4. inv'[i] = d
  BY <1>2, <1>3, UpdateOfOne DEF TypeOK
<1> QED  BY <1>1, <1>2, <1>3, <1>4, UpdateOfOne DEF InvocationRecords, TypeOK

\* A request the ledger remembers is answered with the env that it made.
LEMMA ReplayKeeps ==
  ASSUME IInv, NEW i \in Invocations, Arrived(i, "env-up"), Untouched,
         NEW number \in Envs, number = ledger[KeyOf(inv[i], i)].env,
         NEW r \in Replies, <<r.via, r.status, r.slug>> \in Consents, r.number = number,
         inv' = Replayed(i, r, number)
  PROVE  IInv'
<1> DEFINE c == inv[i]
           d == inv'[i]
<1>1. /\ TypeOK /\ TruthOf(c, i)
      /\ c.stage = "sent" /\ ~c.polling /\ c.kind = "env-up"
  BY DEF IInv, TruthOf, Arrived
<1>2. number # NoEnv /\ number <= env.number /\ number \in Nat
  BY FoundIsNumbered, KeyIsAKey, EnvAssumption DEF Envs, NoEnv
<1>3. /\ inv' \in [Invocations -> InvocationRecords]
      /\ \A j \in Invocations \ {i} : inv'[j] = inv[j]
      /\ d.stage = "answered" /\ d.reply = r /\ d.target = number
      /\ d.kind = c.kind /\ d.own = c.own /\ d.body = c.body
      /\ d.polling = c.polling /\ d.applied = c.applied
  BY <1>1, ReplayedFields
<1>4. /\ env' = env /\ ledger' = ledger /\ gone' = gone
  BY DEF Untouched
<1>5. KeyOf(inv[i], i)' = KeyOf(c, i) /\ Said(inv[i])' \in Consents
  BY <1>3 DEF KeyOf, Said
<1>6. c.applied => ledger[KeyOf(c, i)] = [body |-> c.body, env |-> c.target]
  BY <1>1 DEF TruthOf, RecordIsTrue
<1>7. TruthOf(inv[i], i)'
  BY <1>1, <1>2, <1>3, <1>4, <1>5, <1>6
  DEF TruthOf, RecordIsTrue, AnswerIsTrue, EndIsTrue, Accepted, Consents, Refusals
<1> QED  BY <1>3, <1>7, StepOfOne, UntouchedKeeps

\* A request with a new key makes the next environment.
LEMMA CreateKeeps ==
  ASSUME IInv, NEW i \in Invocations, Arrived(i, "env-up"),
         ledger[KeyOf(inv[i], i)].env = NoEnv, env.number < MaxEnvs,
         env' = [state |-> "Queued", number |-> env.number + 1], teardown' = FALSE,
         ledger' = [ledger EXCEPT ![KeyOf(inv[i], i)]
                                    = [body |-> inv[i].body, env |-> env.number + 1]],
         made' = [made EXCEPT ![env.number + 1] = IF inv[i].own THEN i ELSE UserKey],
         inv' = Applied(i, Detail(202, "Queued", env.number + 1), env.number + 1),
         UNCHANGED <<gone, session>>
  PROVE  IInv'
<1> DEFINE c == inv[i]
           d == inv'[i]
           k == KeyOf(c, i)
           n == env.number + 1
           r == Detail(202, "Queued", n)
<1>1. /\ TypeOK /\ TruthOf(c, i) /\ c \in InvocationRecords /\ k \in Keys
      /\ c.stage = "sent" /\ ~c.polling /\ c.kind = "env-up"
  BY KeyIsAKey DEF IInv, TypeOK, TruthOf, Arrived
<1>2. /\ env.number \in Nat /\ n \in Nat /\ n \in Envs /\ n # NoEnv
      /\ env'.number = n /\ env'.state = "Queued"
  BY FoundIsNumbered, EnvAssumption DEF Envs, NoEnv
<1>3. /\ r \in Replies /\ r.via = "http" /\ r.status = 202 /\ r.slug = "blank"
      /\ r.number = n
  BY <1>2, AnswersTyped DEF Detail, Statuses, EnvStates
<1>4. /\ inv' \in [Invocations -> InvocationRecords]
      /\ \A j \in Invocations \ {i} : inv'[j] = inv[j]
      /\ d.stage = "answered" /\ d.reply = r /\ d.applied /\ d.target = n
      /\ d.kind = c.kind /\ d.own = c.own /\ d.body = c.body /\ d.polling = c.polling
  BY <1>1, <1>2, <1>3, AppliedFields
<1>5. /\ ledger' \in [Keys -> [body : Bodies, env : Envs \cup {NoEnv}]]
      /\ ledger'[k] = [body |-> c.body, env |-> n]
      /\ \A l \in Keys \ {k} : ledger'[l] = ledger[l]
  BY <1>1, <1>2 DEF TypeOK, InvocationRecords
<1>6. /\ made' \in [Envs -> Invocations \cup {UserKey}]
      /\ made'[n] = IF c.own THEN i ELSE UserKey
      /\ \A e \in Envs \ {n} : made'[e] = made[e]
  BY <1>1, <1>2 DEF TypeOK
<1>7. TypeOK'
  BY <1>1, <1>2, <1>4, <1>5, <1>6 DEF TypeOK, EnvStates
<1>8. Grows
  BY <1>1, <1>2, <1>5 DEF Grows
<1>9. LedgerNamesMade'
  <2> SUFFICES ASSUME NEW e \in 1..n
               PROVE  ledger'[IntentKey(made'[e])].env = e
    BY <1>2 DEF LedgerNamesMade, IntentKey
  <2>1. e \in Envs
    BY <1>2, EnvAssumption DEF Envs
  <2>2. CASE e = n
    <3>1. IntentKey(made'[n]) = k
      BY <1>6, EnvAssumption DEF IntentKey, KeyOf
    <3> QED  BY <1>5, <2>2, <3>1
  <2>3. CASE e # n
    <3>1. e \in 1..env.number /\ e # NoEnv
      BY <1>2, <2>3 DEF NoEnv
    <3>2. ledger[IntentKey(made[e])].env = e /\ made'[e] = made[e]
      BY <1>6, <2>1, <2>3, <3>1 DEF IInv, LedgerNamesMade
    <3>3. IntentKey(made[e]) \in Keys
      BY <1>1, <2>1 DEF TypeOK, IntentKey, Keys
    <3>4. IntentKey(made[e]) # k
      BY <3>1, <3>2
    <3> QED  BY <1>5, <3>2, <3>3, <3>4
  <2> QED  BY <2>2, <2>3
<1>10. LedgerIsPast'
  BY <1>2, <1>5, FoundIsNumbered DEF LedgerIsPast, Envs, NoEnv
<1>11. NoneMeansGone'
  BY <1>2 DEF NoneMeansGone
<1>12. KeyOf(inv[i], i)' = k /\ Said(inv[i])' = <<"http", 202, "blank">>
  BY <1>3, <1>4 DEF KeyOf, Said
<1>13. TruthOf(inv[i], i)'
  BY <1>1, <1>2, <1>3, <1>4, <1>5, <1>12
  DEF TruthOf, RecordIsTrue, AnswerIsTrue, EndIsTrue, Accepted, Consents, Refusals
<1> QED  BY <1>4, <1>7, <1>8, <1>9, <1>10, <1>11, <1>13, StepOfOne DEF ServiceInv

LEMMA ProvisionKeeps ==
  ASSUME IInv, NEW i \in Invocations, ProvisionEnv(i)
  PROVE  IInv'
<1> DEFINE k == KeyOf(inv[i], i)
           e == ledger[k].env
<1>1. Arrived(i, "env-up") /\ inv[i].stage = "sent" /\ ~inv[i].polling
  BY DEF ProvisionEnv, Arrived
<1>2. inv[i].applied => e # NoEnv /\ ledger[k].body = inv[i].body
  BY <1>1, AppliedIsRecorded
<1>3. /\ 409 \in Statuses /\ "idempotency-conflict" \in Slugs
      /\ "env-already-exists" \in Slugs
      /\ <<"http", 409, "idempotency-conflict">> \in Refusals
      /\ <<"http", 409, "env-already-exists">> \in Refusals
  BY DEF Statuses, Slugs, Refusals
<1>4. CASE e # NoEnv /\ ledger[k].body # inv[i].body /\ Reject(i, 409, "idempotency-conflict")
  BY <1>1, <1>2, <1>3, <1>4, RejectKeeps
<1>5. CASE e = NoEnv /\ Reject(i, 409, "env-already-exists")
  BY <1>1, <1>2, <1>3, <1>5, RejectKeeps
<1>6. CASE /\ e # NoEnv
           /\ inv' = [Received(i, Detail(200, StateOf(e), e)) EXCEPT ![i].target = e]
           /\ UNCHANGED <<env, teardown, ledger, made, gone, session>>
  <2> DEFINE r == Detail(200, StateOf(e), e)
  <2>1. StateOf(e) \in EnvStates
    BY DEF StateOf, IInv, TypeOK, EnvStates, Terminal
  <2>2. e \in Envs
    BY <1>6, FoundIsNumbered, KeyIsAKey
  <2>3. /\ r \in Replies /\ r.number = e
        /\ <<r.via, r.status, r.slug>> \in Consents
    BY <2>1, <2>2, AnswersTyped DEF Detail, Statuses, Consents
  <2>4. inv' = Replayed(i, r, e) /\ Untouched
    BY <1>6 DEF Replayed, Untouched
  <2> HIDE DEF r
  <2> QED  BY <1>1, <2>2, <2>3, <2>4, ReplayKeeps
<1>7. CASE /\ e = NoEnv /\ env.number < MaxEnvs
           /\ env' = [state |-> "Queued", number |-> env.number + 1]
           /\ teardown' = FALSE
           /\ ledger' = [ledger EXCEPT ![k] = [body |-> inv[i].body, env |-> env'.number]]
           /\ made' = [made EXCEPT ![env'.number] = IF inv[i].own THEN i ELSE UserKey]
           /\ inv' = Applied(i, Detail(202, "Queued", env'.number), env'.number)
           /\ UNCHANGED <<gone, session>>
  <2>1. env'.number = env.number + 1
    BY <1>7
  <2> QED  BY <1>1, <1>7, <2>1, CreateKeeps
<1> QED  BY <1>4, <1>5, <1>6, <1>7 DEF ProvisionEnv

\* Steps that leave every invocation alone.
LEMMA WorldKeeps ==
  ASSUME IInv, Grows, ServiceInv', TypeOK', inv' = inv
  PROVE  IInv'
<1>1. ASSUME NEW i \in Invocations
      PROVE  TruthOf(inv[i], i)'
  BY TruthKept DEF IInv, TruthOf
<1> QED  BY <1>1 DEF IInv, TruthOf, ServiceInv

LEMMA ServiceKeeps ==
  ASSUME IInv, Workflow \/ TeardownEnds \/ ExpireSession \/ UNCHANGED vars
  PROVE  IInv'
<1>1. inv' = inv /\ inv \in [Invocations -> InvocationRecords]
  BY DEF IInv, TypeOK, Workflow, TeardownEnds, ExpireSession, vars
<1>2. CASE Workflow
  <2>1. PICK state \in EnvStates :
          /\ env' = [env EXCEPT !.state = state]
          /\ env.state # "absent"
          /\ state \in {"absent", "Env_Torn_Down"} => env.state = "Env_Torn_Down"
    BY <1>2 DEF Workflow, EnvStates, Terminal
  <2>2. state \in {"absent", "Env_Torn_Down"} => env.number \in gone
    BY <2>1, FoundIsNumbered DEF IInv, NoneMeansGone
  <2>3. UNCHANGED <<ledger, made, session, gone>> /\ teardown' \in BOOLEAN
    BY <1>2 DEF Workflow, IInv, TypeOK
  <2> QED  BY <1>1, <2>1, <2>2, <2>3, StateMoves, WorldKeeps
<1>3. CASE TeardownEnds
  <2>1. PICK state \in EnvStates :
          /\ env' = [env EXCEPT !.state = state]
          /\ env.state # "absent" /\ gone' \in {gone, gone \cup {env.number}}
          /\ state \in {"absent", "Env_Torn_Down"} => env.number \in gone'
    BY <1>3 DEF TeardownEnds, EnvStates, Terminal
  <2>2. UNCHANGED <<ledger, made, session>> /\ teardown' \in BOOLEAN
    BY <1>3 DEF TeardownEnds
  <2> QED  BY <1>1, <2>1, <2>2, StateMoves, WorldKeeps
<1>4. CASE ExpireSession
  <2>1. /\ UNCHANGED <<env, teardown, ledger, made, gone>> /\ session' \in BOOLEAN
    BY <1>4 DEF ExpireSession
  <2>2. TypeOK' /\ ServiceInv'
    BY <1>1, <2>1
    DEF IInv, TypeOK, ServiceInv, LedgerNamesMade, LedgerIsPast, NoneMeansGone
  <2>3. Grows
    BY <2>1, FoundIsNumbered DEF Grows
  <2> QED  BY <1>1, <2>2, <2>3, WorldKeeps
<1>5. CASE UNCHANGED vars
  BY <1>1, <1>5, UntouchedKeeps, WorldKeeps DEF vars, Untouched
<1> QED  BY <1>2, <1>3, <1>4, <1>5

-----------------------------------------------------------------------------
(* The env commands: the invariant *)

LEMMA InitIsTrue == Init => IInv
<1> SUFFICES ASSUME Init PROVE IInv
  OBVIOUS
<1> DEFINE b == CHOOSE b \in Bodies : TRUE
<1>1. b \in Bodies /\ Error("broken") \in Replies
  BY EnvAssumption, AnswersTyped
<1>2. Idle(b) \in InvocationRecords
  BY <1>1 DEF Idle, InvocationRecords, Kinds, Stages, EnvStates
<1>3. TypeOK
  BY <1>1, <1>2 DEF Init, TypeOK, EnvStates
<1>4. LedgerNamesMade /\ LedgerIsPast /\ NoneMeansGone
  BY DEF Init, LedgerNamesMade, LedgerIsPast, NoneMeansGone, NoEnv
<1>5. ASSUME NEW i \in Invocations
      PROVE  RecordIsTrue(inv[i], i) /\ AnswerIsTrue(inv[i], i) /\ EndIsTrue(inv[i])
  <2> DEFINE c == inv[i]
  <2>1. /\ c.stage = "idle" /\ ~c.applied /\ ~c.polling /\ c.target = NoEnv
        /\ c.reply.via = "broken" /\ c.reply.status = 500 /\ c.reply.slug = "blank"
    BY AnswerFields DEF Init, Idle
  <2>2. env.number = 0
    BY DEF Init, NoEnv
  <2> QED  BY <2>1, <2>2
           DEF RecordIsTrue, AnswerIsTrue, EndIsTrue, Said, Refusals, Consents, Failures, NoEnv
<1> QED  BY <1>3, <1>4, <1>5 DEF IInv

LEMMA NextKeeps == IInv /\ [Next]_vars => IInv'
<1> SUFFICES ASSUME IInv, [Next]_vars PROVE IInv'
  OBVIOUS
<1>1. ASSUME NEW i \in Invocations, Service(i)
      PROVE  IInv'
  BY <1>1, ProvisionKeeps, CancelKeeps, DeleteKeeps, GetKeeps, UnavailableKeeps DEF Service
<1>2. CASE \E i \in Invocations : Command(i) \/ Network(i) \/ Service(i)
  BY <1>1, <1>2, CommandKeeps, NetworkKeeps
<1>3. CASE ExpireSession \/ Workflow \/ TeardownEnds \/ UNCHANGED vars
  BY <1>3, ServiceKeeps
<1> QED  BY <1>2, <1>3 DEF Next

LEMMA Invariance == Spec => []IInv
BY InitIsTrue, NextKeeps, PTL DEF Spec

-----------------------------------------------------------------------------
(* The env commands: theorems *)

\* Every invocation is in one of its stages with a well-formed answer, and the
\* service's records are of its type.
THEOREM TypeCorrect == Spec => []TypeOK
<1>1. IInv => TypeOK
  BY DEF IInv
<1> QED  BY <1>1, Invariance, PTL

\* One intent makes at most one env: the entry of its key in the ledger names it.
THEOREM IntentsMakeOneEnv == Spec => []OneEnvPerIntent
<1>1. IInv => OneEnvPerIntent
  BY DEF IInv, LedgerNamesMade, OneEnvPerIntent
<1> QED  BY <1>1, Invariance, PTL

LEMMA EndIsOfAnswer ==
  ASSUME IInv, NEW i \in Invocations, Done(i), inv[i].exit # Code.Generic
  PROVE  LET c == inv[i] IN
         /\ c \in InvocationRecords /\ Said(c) \in Given /\ c.stage = "done"
         /\ c.exit = CodeOf(c) /\ ~StillWaiting(c) /\ c.seen = c.reply.state
         /\ RecordIsTrue(c, i) /\ AnswerIsTrue(c, i)
<1>1. RecordIsTrue(inv[i], i) /\ AnswerIsTrue(inv[i], i) /\ EndIsTrue(inv[i])
  BY DEF IInv
<1>2. inv[i] \in InvocationRecords
  BY DEF IInv, TypeOK
<1>3. Said(inv[i]) \in Given
  BY <1>1 DEF RecordIsTrue, Given
<1> QED  BY <1>1, <1>2, <1>3 DEF Done, EndIsTrue

LEMMA AnswerSoFar ==
  ASSUME IInv, NEW i \in Invocations
  PROVE  /\ inv[i] \in InvocationRecords /\ Said(inv[i]) \in Given
         /\ RecordIsTrue(inv[i], i) /\ AnswerIsTrue(inv[i], i)
BY DEF IInv, TypeOK, RecordIsTrue, Given

LEMMA OKWasAccepted ==
  ASSUME IInv, NEW i \in Invocations, CodeOf(inv[i]) = Code.OK
  PROVE  Accepted(inv[i], i)
<1>1. Said(inv[i]) \in Consents \/ inv[i].polling
  BY AnswerSoFar, OKIsAConsent
<1> QED  BY <1>1, AnswerSoFar DEF AnswerIsTrue

LEMMA RefusedWasNotApplied ==
  ASSUME IInv, NEW i \in Invocations, ~inv[i].polling,
         CodeOf(inv[i]) \in {Code.NotFound, Code.Conflict}
  PROVE  ~inv[i].applied
<1>1. Said(inv[i]) \in Refusals
  BY AnswerSoFar, RefusalIsARefusal
<1> QED  BY <1>1, AnswerSoFar DEF AnswerIsTrue

\* "not found" and "conflict" mean that nothing was changed.
THEOREM RefusalsChangeNothing == Spec => []RefusalIsTrue
<1>1. IInv => RefusalIsTrue
  <2> SUFFICES ASSUME IInv, NEW i \in Invocations, Done(i), ~inv[i].polling,
                      inv[i].exit \in {Code.NotFound, Code.Conflict}
               PROVE  ~inv[i].applied
    BY DEF RefusalIsTrue
  <2>1. inv[i].exit # Code.Generic
    BY DEF Code
  <2> QED  BY <2>1, EndIsOfAnswer, RefusedWasNotApplied
<1> QED  BY <1>1, Invariance, PTL

\* env up --wait ends with 0 on a terminal state of its env or of a later one.
THEOREM WaitSeesTheEnd == Spec => []WaitSawTheEnd
<1>1. IInv => WaitSawTheEnd
  <2> SUFFICES ASSUME IInv, NEW i \in Invocations, Done(i), inv[i].exit = Code.OK,
                      inv[i].kind = "env-up", inv[i].wait
               PROVE  /\ inv[i].seen \in Terminal
                      /\ inv[i].reply.number >= inv[i].target
    BY DEF WaitSawTheEnd
  <2> DEFINE c == inv[i]
  <2>1. /\ c.exit # Code.Generic /\ CodeOf(c) = Code.OK
        /\ ~StillWaiting(c) /\ c.seen = c.reply.state
    BY EndIsOfAnswer DEF Code
  <2>2. Said(c) \in Consents
    BY <2>1, EndIsOfAnswer, OKIsAConsent
  <2>3. ~IsGone(c.reply.status)
    BY <2>2 DEF Said, Consents, IsGone
  <2>4. c.reply.state \in Terminal
    BY <2>1, <2>3 DEF StillWaiting, IsTerminalState
  <2> QED  BY <2>1, <2>2, <2>4, EndIsOfAnswer DEF AnswerIsTrue
<1> QED  BY <1>1, Invariance, PTL

\* env down --wait that is told of no env is told so after a teardown of its
\* env or of one that replaced it.
THEOREM GoneIsGone == Spec => []GoneMeansGone
<1>1. IInv => GoneMeansGone
  <2> SUFFICES ASSUME IInv, NEW i \in Invocations, Done(i), inv[i].exit = Code.OK,
                      inv[i].kind = "env-down", inv[i].polling,
                      inv[i].seen \in {"absent", "Env_Torn_Down"}
               PROVE  \E e \in gone : inv[i].target <= e
    BY DEF GoneMeansGone
  <2>1. inv[i].exit # Code.Generic
    BY DEF Code
  <2>2. Said(inv[i]) \in Consents \cup Refusals
    BY <2>1, EndIsOfAnswer, OKIsAConsent
  <2> QED  BY <2>1, <2>2, EndIsOfAnswer DEF AnswerIsTrue
<1> QED  BY <1>1, Invariance, PTL

-----------------------------------------------------------------------------
(* The env commands: the promise *)

\* What a step of an invocation is to its user.  Most are nothing.
Same(i) ==
  /\ inv'[i].own = inv[i].own /\ inv'[i].kind = inv[i].kind
  /\ inv'[i].applied = inv[i].applied
  /\ inv[i].applied => inv'[i].target = inv[i].target

Silent(i) ==
  /\ Same(i) /\ ledger' = ledger
  /\ inv[i].stage \notin {"idle", "done"} /\ inv'[i].stage \notin {"idle", "done"}

Asked(i) ==
  /\ inv[i].stage = "idle" /\ inv'[i].stage = "sent" /\ ~inv'[i].applied
  /\ inv'[i].kind # "env-up" => inv'[i].own
  /\ ledger' = ledger

Served(i) ==
  /\ inv[i].stage = "sent" /\ inv'[i].stage = "answered"
  /\ ~inv[i].applied /\ inv'[i].applied /\ inv'[i].target \in Envs
  /\ inv'[i].own = inv[i].own /\ inv'[i].kind = inv[i].kind
  /\ \/ inv[i].kind # "env-up" /\ ledger' = ledger
     \/ /\ inv[i].kind = "env-up" /\ ledger[KeyOf(inv[i], i)].env = NoEnv
        /\ \A k \in Keys \ {KeyOf(inv[i], i)} : ledger'[k] = ledger[k]

Ended(i) ==
  /\ Same(i) /\ ledger' = ledger
  /\ inv[i].stage = "answered" /\ inv'[i].stage = "done"
  /\ inv'[i].polling = inv[i].polling
  /\ inv'[i].exit \in {CodeOf(inv[i]), Code.Generic}

StepKind(i) ==
  /\ \A j \in Invocations \ {i} : inv'[j] = inv[j]
  /\ Silent(i) \/ Asked(i) \/ Served(i) \/ Ended(i)

LEMMA CommandKind ==
  ASSUME TypeOK, NEW i \in Invocations, Command(i)
  PROVE  StepKind(i)
<1>1. inv[i] \in InvocationRecords /\ inv \in [Invocations -> InvocationRecords]
  BY DEF TypeOK
<1>2. ASSUME NEW kind, NEW wait, NEW own, NEW body, Start(i, kind, wait, own, body),
             kind # "env-up" => own
      PROVE  StepKind(i)
  BY <1>1, <1>2 DEF Start, Idle, StepKind, Asked
<1>3. ASSUME NEW stage, NEW code, Settle(i, stage, code), inv[i].stage = "answered",
             \/ stage = "waiting"
             \/ stage = "done" /\ code \in {CodeOf(inv[i]), Code.Generic}
      PROVE  StepKind(i)
  BY <1>1, <1>3 DEF Settle, StepKind, Ended, Silent, Same, InvocationRecords
<1>4. CASE Poll(i)
  BY <1>1, <1>4 DEF Poll, StepKind, Silent, Same, InvocationRecords
<1>5. CASE \E wait, own \in BOOLEAN, body \in Bodies : Start(i, "env-up", wait, own, body)
  BY <1>2, <1>5
<1>6. CASE \E wait \in BOOLEAN : Start(i, "env-down", wait, TRUE, CHOOSE b \in Bodies : TRUE)
  BY <1>2, <1>6
<1>7. CASE Start(i, "env-cancel", FALSE, TRUE, CHOOSE b \in Bodies : TRUE)
  BY <1>2, <1>7
<1>8. CASE Conclude(i) \/ Wait(i) \/ TimeOut(i)
  BY <1>3, <1>8 DEF Conclude, Wait, TimeOut
<1> QED  BY <1>4, <1>5, <1>6, <1>7, <1>8 DEF Command

LEMMA NetworkKind ==
  ASSUME TypeOK, NEW i \in Invocations, Network(i)
  PROVE  StepKind(i)
<1>1. inv[i] \in InvocationRecords /\ inv \in [Invocations -> InvocationRecords]
  BY DEF TypeOK
<1>2. ASSUME NEW r, inv' = Received(i, r), ledger' = ledger,
             inv[i].stage \in {"sent", "answered"}
      PROVE  StepKind(i)
  BY <1>1, <1>2 DEF Received, StepKind, Silent, Same, InvocationRecords
<1>3. CASE Resend(i)
  BY <1>1, <1>3 DEF Resend, StepKind, Silent, Same, InvocationRecords
<1>4. CASE Lost(i) \/ SessionLost(i)
  BY <1>2, <1>4 DEF Lost, SessionLost
<1> QED  BY <1>3, <1>4 DEF Network

LEMMA ServiceKind ==
  ASSUME IInv, NEW i \in Invocations, Service(i)
  PROVE  StepKind(i)
<1>1. /\ TypeOK /\ inv[i] \in InvocationRecords
      /\ inv \in [Invocations -> InvocationRecords]
  BY DEF IInv, TypeOK
<1>2. ASSUME NEW r, inv' = Received(i, r), ledger' = ledger, inv[i].stage = "sent"
      PROVE  StepKind(i)
  BY <1>1, <1>2 DEF Received, StepKind, Silent, Same, InvocationRecords
<1>3. ASSUME NEW status, NEW slug, Reject(i, status, slug), inv[i].stage = "sent"
      PROVE  StepKind(i)
  BY <1>2, <1>3 DEF Reject
<1>4. ASSUME NEW r, NEW number \in Envs, inv' = Applied(i, r, number)
      PROVE  /\ \A j \in Invocations \ {i} : inv'[j] = inv[j]
             /\ inv'[i].stage = "answered" /\ inv'[i].applied /\ inv'[i].target = number
             /\ inv'[i].own = inv[i].own /\ inv'[i].kind = inv[i].kind
  BY <1>1, <1>4 DEF Applied, InvocationRecords
<1>5. env.state # "absent" => env.number \in Envs
  BY FoundIsNumbered
<1>6. CASE CancelEnv(i)
  <2>1. inv[i].stage = "sent" /\ inv[i].kind # "env-up" /\ ~inv[i].applied
    BY <1>6, AppliedIsRecorded DEF CancelEnv, Arrived
  <2>2. CASE \E status, slug : Reject(i, status, slug)
    BY <1>3, <2>1, <2>2
  <2>3. CASE /\ inv' = Applied(i, Answer(202, "blank"), env.number) /\ ledger' = ledger
             /\ env.state \in {"Queued", "Job_Scheduled"}
    BY <1>4, <1>5, <2>1, <2>3 DEF StepKind, Served
  <2> QED  BY <1>6, <2>2, <2>3 DEF CancelEnv
<1>7. CASE DeleteEnv(i)
  <2>1. inv[i].stage = "sent" /\ inv[i].kind # "env-up" /\ ~inv[i].applied
    BY <1>7, AppliedIsRecorded DEF DeleteEnv, Arrived
  <2>2. CASE \E status, slug : Reject(i, status, slug)
    BY <1>3, <2>1, <2>2
  <2>3. CASE /\ inv' = Applied(i, Answer(202, "blank"), env.number) /\ ledger' = ledger
             /\ env.state # "absent"
    BY <1>4, <1>5, <2>1, <2>3 DEF StepKind, Served
  <2> QED  BY <1>7, <2>2, <2>3 DEF DeleteEnv
<1>8. CASE GetEnv(i)
  BY <1>2, <1>3, <1>8 DEF GetEnv
<1>9. CASE Unavailable(i)
  BY <1>3, <1>9 DEF Unavailable
<1>10. CASE ProvisionEnv(i)
  <2> DEFINE k == KeyOf(inv[i], i)
             e == ledger[k].env
  <2>1. /\ inv[i].stage = "sent" /\ inv[i].kind = "env-up" /\ k \in Keys
        /\ inv[i].applied => e # NoEnv /\ inv[i].target = e
    BY <1>10, AppliedIsRecorded, KeyIsAKey DEF ProvisionEnv, Arrived
  <2>2. CASE \E status, slug : Reject(i, status, slug)
    BY <1>3, <2>1, <2>2
  <2>3. CASE /\ inv' = [Received(i, Detail(200, StateOf(e), e)) EXCEPT ![i].target = e]
             /\ ledger' = ledger
    <3>1. PICK r : inv' = Replayed(i, r, e)
      BY <2>3 DEF Replayed
    <3>2. /\ \A j \in Invocations \ {i} : inv'[j] = inv[j]
          /\ inv'[i].stage = "answered" /\ inv'[i].applied = inv[i].applied
          /\ inv'[i].own = inv[i].own /\ inv'[i].kind = inv[i].kind /\ inv'[i].target = e
      BY <1>1, <3>1 DEF Replayed, Received, InvocationRecords
    <3> QED  BY <2>1, <2>3, <3>2 DEF StepKind, Silent, Same
  <2>4. CASE /\ e = NoEnv /\ env.number < MaxEnvs
             /\ env' = [state |-> "Queued", number |-> env.number + 1]
             /\ ledger' = [ledger EXCEPT ![k] = [body |-> inv[i].body, env |-> env'.number]]
             /\ inv' = Applied(i, Detail(202, "Queued", env'.number), env'.number)
    <3>1. env'.number \in Envs
      BY <2>4, FoundIsNumbered, EnvAssumption DEF Envs
    <3>2. \A l \in Keys \ {k} : ledger'[l] = ledger[l]
      BY <1>1, <2>4 DEF TypeOK
    <3>3. ~inv[i].applied
      BY <2>1, <2>4
    <3> QED  BY <1>4, <2>1, <2>4, <3>1, <3>2, <3>3 DEF StepKind, Served
  <2> QED  BY <1>10, <2>2, <2>3, <2>4 DEF ProvisionEnv
<1> QED  BY <1>6, <1>7, <1>8, <1>9, <1>10 DEF Service

\* The environment moves on, or the session ends: no step of an invocation.
StepOfWorld == inv' = inv /\ ledger' = ledger

LEMMA EveryStepHasAKind ==
  ASSUME IInv, [Next]_vars
  PROVE  StepOfWorld \/ \E i \in Invocations : StepKind(i)
<1>1. CASE \E i \in Invocations : Command(i) \/ Network(i) \/ Service(i)
  BY <1>1, CommandKind, NetworkKind, ServiceKind DEF IInv
<1>2. CASE ExpireSession \/ Workflow \/ TeardownEnds \/ UNCHANGED vars
  BY <1>2 DEF ExpireSession, Workflow, TeardownEnds, vars, StepOfWorld
<1> QED  BY <1>1, <1>2 DEF Next

LEMMA PromiseInvIsKept ==
  ASSUME IInv, PromiseInv, [Next]_vars
  PROVE  PromiseInv'
<1>1. CASE StepOfWorld
  BY <1>1 DEF StepOfWorld, PromiseInv, CommandsAsk, EntriesHaveAuthors
<1>2. ASSUME NEW i \in Invocations, StepKind(i)
      PROVE  PromiseInv'
  <2>1. \A j \in Invocations \ {i} : inv'[j] = inv[j]
    BY <1>2 DEF StepKind
  <2>2. CommandsAsk'
    BY <1>2, <2>1
    DEF StepKind, Silent, Asked, Served, Ended, Same, PromiseInv, CommandsAsk
  <2>3. \A j \in Invocations : inv[j].applied =>
          /\ inv'[j].applied /\ inv'[j].kind = inv[j].kind
          /\ KeyOf(inv'[j], j) = KeyOf(inv[j], j)
    BY <1>2, <2>1
    DEF StepKind, Silent, Asked, Served, Ended, Same, PromiseInv, CommandsAsk, KeyOf
  <2>4. ASSUME NEW k \in Keys, ledger'[k].env # NoEnv
        PROVE  \E j \in Invocations :
                 inv'[j].applied /\ inv'[j].kind = "env-up" /\ KeyOf(inv'[j], j) = k
    <3>1. CASE ledger[k].env # NoEnv
      BY <2>3, <3>1 DEF PromiseInv, EntriesHaveAuthors
    <3>2. CASE ledger[k].env = NoEnv
      <4>1. Served(i) /\ inv[i].kind = "env-up" /\ k = KeyOf(inv[i], i)
        BY <1>2, <2>4, <3>2 DEF StepKind, Silent, Asked, Served, Ended
      <4> QED  BY <4>1 DEF Served, KeyOf
    <3> QED  BY <3>1, <3>2
  <2>5. EntriesHaveAuthors'
    BY <2>4 DEF EntriesHaveAuthors, KeyOf
  <2> QED  BY <2>2, <2>5 DEF PromiseInv
<1> QED  BY <1>1, <1>2, EveryStepHasAKind

LEMMA PromiseInvariance == Spec => []PromiseInv
<1>1. Init => PromiseInv
  BY DEF Init, Idle, PromiseInv, CommandsAsk, EntriesHaveAuthors, NoEnv
<1> QED  BY <1>1, PromiseInvIsKept, Invariance, PTL DEF Spec

\* An intent has one key, and a key one intent.
LEMMA OneKeyPerIntent ==
  ASSUME NEW i \in Invocations, NEW j \in Invocations
  PROVE  KeyOf(inv[i], i) = KeyOf(inv[j], j) <=> IntentOf(i) = IntentOf(j)
BY EnvAssumption DEF KeyOf, IntentOf

LEMMA EffectsAre ==
  \A f : f \in Effects <=>
    \E i \in Invocations :
      inv[i].applied /\ f = [intent |-> IntentOf(i), client |-> i, thing |-> inv[i].target]
BY DEF Effects

\* The variables of the abstract specification.
Asks == [i \in Invocations |-> IF inv[i].stage = "idle" THEN {} ELSE {IntentOf(i)}]
Tells == [i \in Invocations |-> Told(i)]

LEMMA SameEffects ==
  ASSUME \A j \in Invocations :
           /\ inv'[j].applied <=> inv[j].applied
           /\ inv[j].applied => inv'[j].own = inv[j].own /\ inv'[j].target = inv[j].target
  PROVE  Effects' = Effects
BY DEF Effects, IntentOf

\* What one step of an invocation changes of the abstract variables.
LEMMA OnlyItsOwn ==
  ASSUME NEW i \in Invocations, \A j \in Invocations \ {i} : inv'[j] = inv[j]
  PROVE  /\ Asks' = [Asks EXCEPT ![i] = Asks'[i]]
         /\ Tells' = [Tells EXCEPT ![i] = Tells'[i]]
<1>1. \A j \in Invocations \ {i} : Asks'[j] = Asks[j]
  BY DEF Asks, IntentOf
<1>2. \A j \in Invocations \ {i} : Tells'[j] = Tells[j]
  BY DEF Tells, Told, Done
<1>3. /\ Asks = [j \in Invocations |-> Asks[j]] /\ Asks' = [j \in Invocations |-> Asks'[j]]
  BY DEF Asks
<1>4. /\ Tells = [j \in Invocations |-> Tells[j]] /\ Tells' = [j \in Invocations |-> Tells'[j]]
  BY DEF Tells
<1> QED  BY <1>1, <1>2, <1>3, <1>4

LEMMA SilentIsNothing ==
  ASSUME NEW i \in Invocations, StepKind(i), Silent(i)
  PROVE  UNCHANGED <<Asks, Effects, Tells>>
<1>1. \A j \in Invocations \ {i} : inv'[j] = inv[j]
  BY DEF StepKind
<1>2. Effects' = Effects
  BY <1>1, SameEffects DEF Silent, Same
<1>3. Asks'[i] = Asks[i]
  BY DEF Asks, IntentOf, Silent, Same
<1>4. Tells'[i] = Tells[i]
  BY DEF Tells, Told, Done, Silent
<1>5. /\ [Asks EXCEPT ![i] = Asks[i]] = Asks /\ [Tells EXCEPT ![i] = Tells[i]] = Tells
  BY DEF Asks, Tells
<1> QED  BY <1>1, <1>2, <1>3, <1>4, <1>5, OnlyItsOwn

LEMMA AskedIsAsk ==
  ASSUME PromiseInv, NEW i \in Invocations, StepKind(i), Asked(i)
  PROVE  /\ Asks[i] = {}
         /\ \E intent \in Invocations \cup {UserKey} : Asks' = [Asks EXCEPT ![i] = {intent}]
         /\ UNCHANGED <<Effects, Tells>>
<1>1. \A j \in Invocations \ {i} : inv'[j] = inv[j]
  BY DEF StepKind
<1>2. ~inv[i].applied /\ ~inv'[i].applied
  BY DEF PromiseInv, CommandsAsk, Asked
<1>3. Effects' = Effects
  <2>1. \A j \in Invocations :
          /\ inv'[j].applied <=> inv[j].applied
          /\ inv[j].applied => inv'[j].own = inv[j].own /\ inv'[j].target = inv[j].target
    BY <1>1, <1>2
  <2> QED  BY <2>1, SameEffects
<1>4. Asks[i] = {} /\ Asks'[i] = {IntentOf(i)'}
  BY DEF Asks, Asked, IntentOf
<1>5. Tells'[i] = Tells[i]
  BY DEF Tells, Told, Done, Asked
<1>6. [Tells EXCEPT ![i] = Tells[i]] = Tells
  BY DEF Tells
<1> QED  BY <1>1, <1>3, <1>4, <1>5, <1>6, OnlyItsOwn DEF IntentOf

LEMMA ServedIsServe ==
  ASSUME IInv, PromiseInv, NEW i \in Invocations, StepKind(i), Served(i)
  PROVE  /\ IntentOf(i) \in Asks[i] /\ IntentOf(i) \in Invocations \cup {UserKey}
         /\ Tells[i] = "nothing"
         /\ \A f \in Effects : f.intent # IntentOf(i)
         /\ Effects' = Effects \cup
              {[intent |-> IntentOf(i), client |-> i, thing |-> inv'[i].target]}
         /\ UNCHANGED <<Asks, Tells>>
<1>1. \A j \in Invocations \ {i} : inv'[j] = inv[j]
  BY DEF StepKind
<1>2. Asks'[i] = Asks[i] /\ IntentOf(i) \in Asks[i]
  BY DEF Asks, IntentOf, Served
<1>3. Tells'[i] = Tells[i] /\ Tells[i] = "nothing"
  BY DEF Tells, Told, Done, Served
<1>4. UNCHANGED <<Asks, Tells>>
  <2>1. /\ [Asks EXCEPT ![i] = Asks[i]] = Asks /\ [Tells EXCEPT ![i] = Tells[i]] = Tells
    BY DEF Asks, Tells
  <2> QED  BY <1>1, <1>2, <1>3, <2>1, OnlyItsOwn
<1>5. ASSUME NEW j \in Invocations, inv[j].applied
      PROVE  IntentOf(j) # IntentOf(i)
  <2> SUFFICES ASSUME IntentOf(j) = IntentOf(i)
               PROVE  FALSE
    OBVIOUS
  <2>1. j # i
    BY <1>5 DEF Served
  <2>2. ~inv[i].own /\ ~inv[j].own
    BY <2>1, EnvAssumption DEF IntentOf
  <2>3. inv[i].kind = "env-up" /\ inv[j].kind = "env-up"
    BY <2>2 DEF PromiseInv, CommandsAsk
  <2>4. KeyOf(inv[i], i) = KeyOf(inv[j], j)
    BY OneKeyPerIntent
  <2>5. ledger[KeyOf(inv[j], j)].env # NoEnv
    <3>1. RecordIsTrue(inv[j], j)
      BY DEF IInv
    <3> QED  BY <1>5, <2>3, <3>1 DEF RecordIsTrue
  <2> QED  BY <2>3, <2>4, <2>5 DEF Served
<1>6. \A f \in Effects : f.intent # IntentOf(i)
  BY <1>5, EffectsAre
<1>7. Effects' = Effects \cup
              {[intent |-> IntentOf(i), client |-> i, thing |-> inv'[i].target]}
  <2>1. \A j \in Invocations \ {i} :
          /\ inv'[j].applied = inv[j].applied /\ inv'[j].target = inv[j].target
          /\ IntentOf(j)' = IntentOf(j)
    BY <1>1 DEF IntentOf
  <2>2. IntentOf(i)' = IntentOf(i) /\ ~inv[i].applied /\ inv'[i].applied
    BY DEF Served, IntentOf
  <2> QED  BY <2>1, <2>2 DEF Effects
<1> QED  BY <1>2, <1>3, <1>4, <1>6, <1>7 DEF IntentOf

LEMMA EndedIsTell ==
  ASSUME IInv, PromiseInv, NEW i \in Invocations, StepKind(i), Ended(i)
  PROVE  /\ Asks[i] # {} /\ Tells[i] = "nothing"
         /\ \E answer \in {"done", "refused", "unknown"} :
              /\ answer = "done"    => \E f \in Effects : f.intent \in Asks[i]
              /\ answer = "refused" => \A f \in Effects : f.client # i
              /\ Tells' = [Tells EXCEPT ![i] = answer]
         /\ UNCHANGED <<Asks, Effects>>
<1>1. \A j \in Invocations \ {i} : inv'[j] = inv[j]
  BY DEF StepKind
<1>2. Effects' = Effects
  BY <1>1, SameEffects DEF Ended, Same
<1>3. Asks'[i] = Asks[i] /\ Asks[i] = {IntentOf(i)}
  BY DEF Asks, IntentOf, Ended, Same
<1>4. Asks' = Asks
  <2>1. [Asks EXCEPT ![i] = Asks[i]] = Asks
    BY DEF Asks
  <2> QED  BY <1>1, <1>3, <2>1, OnlyItsOwn
<1>5. Tells[i] = "nothing" /\ Tells'[i] = Told(i)'
      /\ Told(i)' \in {"done", "refused", "unknown"}
  BY DEF Tells, Told, Done, Ended
<1>6. ASSUME Told(i)' = "done"
      PROVE  \E f \in Effects : f.intent = IntentOf(i)
  <2>1. CodeOf(inv[i]) = Code.OK
    BY <1>6 DEF Told, Done, Ended, Code
  <2>2. Accepted(inv[i], i)
    BY <2>1, OKWasAccepted
  <2>3. CASE inv[i].applied
    <3>1. [intent |-> IntentOf(i), client |-> i, thing |-> inv[i].target] \in Effects
      BY <2>3, EffectsAre
    <3> QED  BY <3>1
  <2>4. CASE inv[i].kind = "env-up" /\ ledger[KeyOf(inv[i], i)].env # NoEnv
    <3>1. PICK j \in Invocations : inv[j].applied /\ KeyOf(inv[j], j) = KeyOf(inv[i], i)
      BY <2>4, KeyIsAKey DEF PromiseInv, EntriesHaveAuthors
    <3>2. IntentOf(j) = IntentOf(i)
      BY <3>1, OneKeyPerIntent
    <3>3. [intent |-> IntentOf(j), client |-> j, thing |-> inv[j].target] \in Effects
      BY <3>1, EffectsAre
    <3> QED  BY <3>2, <3>3
  <2> QED  BY <2>2, <2>3, <2>4 DEF Accepted
<1>7. ASSUME Told(i)' = "refused"
      PROVE  \A f \in Effects : f.client # i
  <2>1. ~inv[i].polling /\ CodeOf(inv[i]) \in {Code.NotFound, Code.Conflict}
    BY <1>7 DEF Told, Done, Ended, Code
  <2>2. ~inv[i].applied
    BY <2>1, RefusedWasNotApplied
  <2> QED  BY <2>2, EffectsAre
<1> QED  BY <1>1, <1>2, <1>3, <1>4, <1>5, <1>6, <1>7, OnlyItsOwn

\* Every step is one of the promise's, or changes nothing it speaks of.
LEMMA StepKeepsPromise ==
  IInv /\ PromiseInv /\ [Next]_vars => [Promise!Next]_(Promise!vars)
<1> SUFFICES ASSUME IInv, PromiseInv, [Next]_vars
             PROVE  [Promise!Next]_(Promise!vars)
  OBVIOUS
<1>1. CASE StepOfWorld
  <2>1. UNCHANGED <<Asks, Effects, Tells>>
    BY <1>1 DEF StepOfWorld, Asks, Effects, Tells, IntentOf, Told, Done
  <2> QED  BY <2>1 DEF Promise!vars, Asks, Tells
<1>2. ASSUME NEW i \in Invocations, StepKind(i)
      PROVE  [Promise!Next]_(Promise!vars)
  <2>1. CASE Silent(i)
    BY <1>2, <2>1, SilentIsNothing DEF Promise!vars, Asks, Tells
  <2>2. CASE Asked(i)
    <3>1. PICK intent \in Invocations \cup {UserKey} : Asks' = [Asks EXCEPT ![i] = {intent}]
      BY <1>2, <2>2, AskedIsAsk
    <3>2. Promise!Ask(i, intent)
      BY <1>2, <2>2, <3>1, AskedIsAsk DEF Promise!Ask, Asks, Tells
    <3> QED  BY <3>2 DEF Promise!Next
  <2>3. CASE Served(i)
    <3>1. Promise!Serve(i, IntentOf(i), inv'[i].target)
      BY <1>2, <2>3, ServedIsServe DEF Promise!Serve, Asks, Tells
    <3>2. IntentOf(i) \in Invocations \cup {UserKey} /\ inv'[i].target \in Envs
      BY <1>2, <2>3, ServedIsServe DEF Served
    <3> QED  BY <3>1, <3>2 DEF Promise!Next
  <2>4. CASE Ended(i)
    <3>1. PICK answer \in {"done", "refused", "unknown"} :
            /\ answer = "done"    => \E f \in Effects : f.intent \in Asks[i]
            /\ answer = "refused" => \A f \in Effects : f.client # i
            /\ Tells' = [Tells EXCEPT ![i] = answer]
      BY <1>2, <2>4, EndedIsTell
    <3>2. Promise!Tell(i, answer)
      BY <1>2, <2>4, <3>1, EndedIsTell DEF Promise!Tell, Asks, Tells
    <3> QED  BY <3>2 DEF Promise!Next, Promise!Answers
  <2> QED  BY <1>2, <2>1, <2>2, <2>3, <2>4 DEF StepKind
<1> QED  BY <1>1, <1>2, EveryStepHasAKind

\* Sent once or twice, with its own key or a shared one, answered or not, an
\* intent takes effect at most once, and what a command tells its user is so.
THEOREM CommandsKeepTheirPromise == Spec => KeepsPromise
<1>1. Init => Promise!Init
  BY DEF Init, Idle, Promise!Init, Effects, Told, Done
<1> QED  BY <1>1, StepKeepsPromise, Invariance, PromiseInvariance, PTL
         DEF Spec, KeepsPromise, Promise!Spec
=============================================================================
