# A TLA+ verification of cyoda-cloud-cli

TLA+ models of the `cyoda-cloud` command line tool, checked with TLC and, for
the parts below, proved with TLAPS. Every definition is a translation of the
code under `src/`; `PROJECT.json` (`map`) names the lines. Paths below are
relative to `src/`.

## 1. The system

`cyoda-cloud` is a short-lived process per command. It keeps a profile per
organization in the OS keyring or, where there is none, in one file; it obtains
access tokens from Auth0 with the profile's refresh token; and it calls a REST
API that provisions environments and builds applications. Nothing runs between
commands, and what two commands share is the disk, Auth0 and the API.

| Component | State it keeps | Operations | Talks to |
|---|---|---|---|
| Token cache `internal/auth/cache.go`, `refresh.go` | access and refresh token under a mutex | `AccessToken`, `Invalidate`, `Refresh` | Auth0 token endpoint; persist callback to the keychain |
| API transport `internal/api/transport.go`, `commands/apiclient.go` | none of its own; one retry per request | `RoundTrip`, `do` | token cache, API server |
| Debug trace `internal/api/debug.go` | none; a log around the transport | `RoundTrip` | standard error |
| Keychain `internal/keychain/keychain.go` | profile per organization; keyring or the file `credentials` | `Store`, `Load`, `Delete` | OS keyring, file system |
| Atomic file replacement: `writeCredentials`, `config.writeCache`, `config.SaveFile`, `writeMinVersionCache` | a file and a temporary file | write, close, rename | file system |
| Wait loop `internal/output/wait.go` | backoff and deadline | `PollUntilTerminal`, `IsTerminalState` | poll functions of `env` and `app` |
| Exit codes `internal/output/exitcode.go`, `commands/error.go` | none | `Exit`, `FromProblem`, `WrapHTTP`, `problemToError`, `mapTransportError` | decoders of `api/client.gen.go` |
| Environment commands `commands/env.go` | idempotency key of one invocation | `up`, `list`, `status`, `cancel`, `down` | API, wait loop, exit codes |
| Application commands `commands/app.go` | as above | `build`, `deploy`, `list`, `status`, `cancel`, `delete` | API, wait loop, exit codes |
| Session commands `commands/login.go`, `register.go`, `logout.go`, `token.go`, `whoami.go` | the profile | login, logout, print token, identity | login flows, keychain, Auth0 |
| Login flows `internal/auth/loopback.go`, `device.go`, `pkce.go` | a one-shot HTTP server; a polling loop | `LoginPKCE`, `LoginDevice` | browser, Auth0 |
| Discovery `internal/config/discovery.go` | `discovery.json`, a document with a 24h life | `ResolveDiscoveryURL`, `LoadDiscovery`, `FetchDiscovery` | HTTPS, file system |
| Configuration `internal/config/file.go`, `commands/config.go`, `resolve.go` | `config.toml`, one warning per process | get, set, list; resolution of flags, environment, file | file system |
| Version `commands/version.go`, `internal/version` | `min-cli-version.json`, with a 24h life | `version --check` | discovery, API, file system |
| Environment names `internal/envname` | none | validation, derivation | `env up` |
| Output formatting `internal/output/output.go` | none | printing | terminal |

**What is hard here.** Several goroutines share the token cache, which holds
its mutex across a network request but saves to the keychain after releasing
it. Auth0 may rotate the refresh token at each use, so an answer that is lost
or saved out of order costs the session. A 401 may be late: it may be about a
token that another goroutine has already replaced. Two terminals share one
credentials file with no lock. The wait loop has three bounds (backoff cap,
total, HTTP timeout) that interact. A request that creates an environment may
be applied and its answer lost. A login waits at once on a user, a browser, Auth0,
a timer and a signal, and the two flows look at them at different moments. Two
caches, each with a life of its own, answer one after the other by a clock that
may be set back. And the exit code, which scripts depend on, is
decided by whichever of several decoders and checks comes first.
`PROJECT.json` (`hazards`) lists these at their lines.

**What correctness means**, component by component:

- token cache: one refresh at a time; no refresh without a reason; a rotated
  token is never presented; nothing newer is replaced by something older; every
  call returns; whatever a crash leaves out of the keychain is accounted for;
- transport: a 401 is retried exactly once, with a newer token than the one
  refused, and reaches the caller otherwise;
- file replacement: a reader sees the old or the new document, whatever fails;
- keychain: a map from organization to profile with atomic operations;
- wait loop: it returns; it reports a timeout only when time is up and the job
  was running; it overshoots and lags by bounded amounts; it does not hammer;
- session: login opens it and logout closes it; commands run in turn neither
  lose it nor leave one behind at Auth0; the keychain's token, its tenant and
  Auth0's own state agree however processes overlap;
- exit codes: the documented table, for every command and every response;
- environment commands: one environment per intent of the user; a refusal and
  a success mean what they say;
- login flows: they end, in a time the user can rely on, and soon after Ctrl-C; they
  poll no faster than they were told; a session Auth0 opened is handed over, and
  a consent given in time counts;
- configuration: a setting is lost only to a write that overlaps another;
- discovery and version check: what a cache answers is no older than its life, an
  exchange and what the clock was set back, also through two caches in a row.

## 2. The modules

| Module | Models | Extends or implements |
|---|---|---|
| `TokenCache` | `TokenCache`, `Refresh`, the persist callback, Auth0 as it is used | |
| `Transport` | `Transport.RoundTrip`/`do`, HTTP timeout | extends `TokenCache` |
| `Session` | `runLogin`, `runLogout`, `Revoke`, `BuildAPIClient`, `makePersistFn` over many processes, one keychain and Auth0 | |
| `AtomicRegister` | what replacing a file promises | |
| `AtomicFile` | temporary file, writes, close, rename, error paths, crash; readers | implements `AtomicRegister` |
| `ProfileMap` | what the keychain promises | |
| `CredentialStore` | `Store`, `Load`, `Delete` over keyring or file | implements `ProfileMap` |
| `WaitPoll` | `PollUntilTerminal` with a clock | |
| `ExitCode` | decoders, checks and exit codes of every command (operators only) | |
| `CommandExit` | one command meets one response | extends `ExitCode` |
| `OncePerIntent` | what the commands promise about an intent | |
| `EnvCommands` | `env up`, `cancel`, `down` with `--wait`, resending, loss, expiry | extends `ExitCode`, implements `OncePerIntent` |
| `LoginFlow` | what the flows share: clock, context, timer, exchange | |
| `DeviceLogin` | `LoginDevice`, the user and the token endpoint | extends `LoginFlow` |
| `LoopbackLogin` | `LoginPKCE`, the callback's goroutines and channels, the browser | extends `LoginFlow` |
| `Login` | either flow with time and the signal | extends both |
| `ConfigFile` | `config set`, hand edits, `LoadFileWithWarn` over processes | |
| `Discovery` | `ResolveDiscoveryURL`, `LoadDiscovery`, its cache | extends `ConfigFile` |
| `VersionCheck` | commands that load the document, `version --check` and its cache, time | extends `Discovery` |

`MC*` modules add symmetry sets, option records, the responses tried and, once, a constraint; `*Proofs` hold theorems.
Definitions with a comment starting "Bug:" are plausible wrong versions of the
definition after them. No specification uses them; they show, replaced for the
right one, that a property can fail.

### TokenCache and Transport

Tokens are numbered in the order Auth0 issues them, so *newer* is `>` and `0`
is the empty string. A token's expiry is its membership of `aged`, the tokens
with no more than `refreshSkew` left: the clock only ever adds to the set. One
goroutine's call is `CallAccessToken`, then `AccessTokenHit` or
`AccessTokenMiss` (which takes `mu` and keeps it), the request decided at Auth0
(`Auth0Grants`, which replaces the refresh token
or omits it from the answer, and `Auth0Refuses`) or never there (`RefreshUnreachable`), the
answer read (`Adopt`, `RefreshExpired`) or lost (`LoseReply`), and the callback
outside the mutex (`Persist`, `PersistFails`). `Invalidate` is one critical
section. `Init` includes a keychain that an earlier process left one rotation
behind. `disk` at any state is what a crash at that state leaves: the process
keeps nothing else.

`Transport` drives the callers: `Start` is the request and its first
`AccessToken`, then `Serve` puts the request on the wire, `Deliver` hands the
answer up, and a first replayable 401 goes through `Drop401` and `Retry`. The
server may refuse any issued token at any time (`Refuse`). The steps inside the
cache are `TokenCache`'s own, so the cache's invariants hold of the transport.

### AtomicFile and CredentialStore

The four writers of the repository have one pattern: open `name.tmp` with
truncation, write, close, rename, and remove `name.tmp` on an error. A file is
an inode with a content of two parts, so that a write can be half done; a name
refers to an inode, and an open file keeps its inode when the name moves. A
process may fail at any step or die between any two, and the removal, whose error the
code drops, may fail as well (`RemoveFails`): `abandoned` says that a writer died or
could not remove since a write last succeeded, which takes the litter away (its
rename moves the temporary name, whoever left it). A power failure that loses
what was not synced is not modelled: the code does not sync and promises
nothing about it. `TakeTurns` says whether one process at a time is writing.

`CredentialStore` sits on top, with the replacement taken as one step (which
`AtomicFile` justifies when writers take turns): the keyring operations are
atomic, the file ones read everything, change one entry, write everything back.
The variable `fallback` says which of the two all processes use; it is chosen in
`Init` and never changes. `TakeTurns` restricts the file only.

### Session

A level up: whole processes that share one organization's profile and Auth0. A
refresh token is a session and a rotation of it, session 0 the empty token; a
profile adds the tenant, the one field of the discovery document that matters
here. `Start` loads the discovery document (any ever published, since the cache
may be old), `Load` the profile. A command refreshes (`Auth0Grants`,
`Auth0Refuses`), writes the whole profile back (`Persist`), and may do so again
while it runs (`RefreshAgain`); what goes on inside one process between the two
is `TokenCache`. A login takes tokens from its flow and stores them without
looking at what is there. A logout revokes at the profile's tenant and deletes
the profile whether or not that worked. `PersistNever`, `StoreNever`,
`DeleteNever` and `Fail` are the errors, lost answers and kills at each point.
Auth0 is external: it accepts the newest token of a live session at its own
tenant, may end a session when it sees a replaced token, and revokes a replaced
token's successors or not. `rotates` is the tenant's setting, fixed in `Init`.
The histories say who is to blame: `overlapped` (a process started while another
ran), `disturbed` (a session left half way, or ended by Auth0) and `unrevoked`
(written over by a login, or let go with a warning).

### WaitPoll

`now` is an integer clock. The loop's computations take no time; a poll takes
up to `MaxPoll` (the HTTP client's timeout) and a timer fires up to `Late` late.
The job ends at any time, the server's answer is fixed at any moment between
request and arrival, the context is cancelled at any time. `Options` holds the
option records a caller may pass, with zero for unset.

### ExitCode, CommandExit, EnvCommands

A response is the way it came (HTTP, expired session, broken transport), a
status, a content type and a body reduced to what any decoder or check looks
at: the problem's slug and its `status` member, which may be missing, or a body
that does not decode. `ExitOf(cmd, response)` follows each handler: the
decoder in `client.gen.go`, the checks in order, the conversion of problems, the
fallback on the status.

`EnvCommands` puts two invocations, a network and the environment service in
one system. The service is outside this repository and is modelled from what
the commands and their tests assume of it: an idempotency ledger, states, a
teardown that is queued. Go's `net/http` sends a request that carries an
`Idempotency-Key` again when a reused connection breaks (`Resend`). Polling is
by name, as in the code, so a poll may see another environment than the one
asked for. `OncePerIntent` is what a user may rely on without knowing any of that: a
command asks for an intent (its own, or that of the key the user gave), an intent
takes effect at most once, and a command that ends says "done" (code 0) only of
what took effect, "refused" (7 or 8 before it waits) only of what it did not
do. `KeepsPromise` maps the invocations onto it.

### LoginFlow, DeviceLogin, LoopbackLogin, Login

One login, by either flow, with a clock. A flow's own computations take no
time; time passes in an exchange (up to `MaxExchange`, the HTTP client's timeout,
and cut short by a context that is done), in a sleep or a select (whose timer may
fire `Late`), while the browser's launcher runs (`MaxOpen`) and in the server's
shutdown. `Cancel`, the signal, may come at any moment.

In `DeviceLogin`, `DeviceCode` brings an interval (or none) and a life; the head of
the loop is `ReturnCancelled`, `ReturnExpired` or `Poll`, in the order of the code;
Auth0's answer is decided at some moment of the exchange (`ServePoll`) and may still be
lost (`PollFails`); `Sleep` is `time.Sleep`, so nothing wakes it. The user decides
(`Decide`) between any two steps. In `LoopbackLogin`, any number of callbacks, ours
(`CallbackWithCode`) or not (`CallbackWithError`: another state, or an error of
Auth0), post to channels of one slot without waiting, while the main goroutine
is still in the launcher, in the select or in the exchange. The select takes any ready case.
The histories `told`, `slowedAt` and `consentAt` say what Auth0 asked for and
when the user consented.

### ConfigFile, Discovery, VersionCheck

The processes share three files of the configuration directory. `config set` is `SetRead`
and `SetSave`; whatever else writes or breaks the file in between (`HandEdit`)
marks its copy `stale`, and `intended` follows the user's settings but for what a
stale copy replaces. A command resolves its URL from the environment or the file (a
malformed file is one without settings), and loads the document: a `file:` URL is read, else the
cache answers when it is fresh by the local clock, else the URL is fetched and
the cache written, in the best case. `version --check` looks at its own cache first, which no
host is named in, and only then loads a document. A document is the URL and the
moment it was served, so *recent* is a difference; the local clock is `shift`
behind the true one, and `SetBack` moves it further. A command that ends loses its memory.

## 3. The runs

`pass` runs find no violation. Times are for two workers.

| Run | Question | Bounds |
|---|---|---|
| `transport` | Is the retry fresh, is a surfaced 401 final, are refreshes serialised, coalesced and forward only, is what a crash leaves accounted for, does every round trip end? | 2 goroutines, 2 trips, 2 access tokens, 2 Invalidates |
| `session` | Does a session survive commands in turn, end with its logout, and stay consistent under overlap? | 2 processes, 2 sessions of 3 rotations, 2 tenants |
| `atomic_file` | Is the file an atomic register? | 2 writers in turn, 1 reader, 2 contents, 4 inodes |
| `credential_store` | Is the store a map? | 2 processes (keyring at once, file in turn), 2 organizations, 2 profiles |
| `wait_poll` | Are timeouts honest, lag, overshoot and spacing bounded, and does the wait end? | options of up to 7 units set and unset, polls of up to 2, timers up to 1 late |
| `command_exit` | Does the table decide? | every command, every status, body and content type of the model; a problem's `status` member is missing or the response's |
| `env_commands` | Do the commands report what happened, and does an intent take effect once? | 2 invocations, 2 bodies, 2 environments |
| `login` | Does a login end, in time, soon after a signal, with the session that was opened, and does a consent in time count? | intervals unset (then 2), 1 or 3, codes that live 0 or 11 units, slow_down of 2, exchanges of up to 1, timeout 4, launcher 2, timers 1 late |
| `config_dir` | Is no setting lost, and what each cache answers, or both in a row, recent? | one process for commands, one for checks, 2 keys, 3 URLs, lives and exchanges of 1 unit, 6 units of time, 1 back |

Why these bounds are enough to be of interest: of two goroutines one refreshes or
saves while the other waits on the mutex, and two trips with two
tokens let one goroutine's late 401 meet another's refresh; three rotations let
one process replace, and save, a token another has already replaced and saved;
two sessions are one that a second login writes over; two tenants are one
discovery moves away from; four inodes leave one for the name, one for the
temporary file, one for the reader and one to spare (the type invariant would
be violated by a step that finds none); one environment to be replaced by
another needs two of them; a code's life of 11 units leaves room for an approval that comes before its last
interval and exchanges, and for a flow that polls too slowly to sleep through it (with an
interval of 2 that doubles at each answer, an approval at 4 is not heard of before 12);
two lives of a cache, two exchanges and the clock's step back are five units of time, so in
six a minimum whose host is of an older document can occur. In
`config_dir` the clock moves only while `config.toml` is as it first was
(`CONSTRAINT Small` of `MCVersionCheck`): its settings are changed at time 0, and later URLs
differ by the environment, which may name any of them; and in the last two units the
process for commands is idle, since only what the checks' cache answers still matters. The
proofs have no such limits. Bounds on tokens, rotations, sessions, Invalidates,
trips and environments only disable the actions that would pass them: every run
lets those counters reach the bound. Where a bound or an exit can stop the
system the configuration sets `CHECK_DEADLOCK FALSE`; `AtomicFile` and
`CredentialStore` are checked for deadlock. The longest runs are `config_dir` and `env_commands`, about two minutes each; `transport` and
`session` take about one.

Symmetry is used only in runs of invariants and of properties without fairness,
over sets whose members no definition tells apart.

### Runs that find a disagreement

| Run | What the code says of itself | What it does |
|---|---|---|
| `token_cache_rotation` | `commands/apiclient.go:114`: the rotation survives across invocations | two saves outside the mutex may land in reverse order, and the older token stays |
| `command_exit_expiry` | `error.go:80`: an expired session exits with 3 | inside `--wait` it exits with 1 |
| `env_commands_torn_down` | `env.go:526`: "env torn down." | any terminal state ends the wait, a failed teardown too |

Observations met while modelling that have no run of their own:

- The four writers of `AtomicFile` share a temporary name. With
  `TakeTurns = FALSE` two of them at once violate `NeverTorn`: one renames what
  the other has half written. `keychain.go:139` calls the replacement atomic.
- With `TakeTurns = FALSE` two processes on the credentials file also violate
  `OnlyOwnProfileChanges` of `CredentialStore`: each writes back what it read, and one reverts the
  other's organization, though `keychain.go:41` says `Store` persists one.
- With overlapping processes (`overlapped` in `Session`) a command that loaded
  the profile before a logout, or before another login, writes it back after:
  the logout's deletion, or the new login, is undone. On a rotating tenant two
  commands that start from one profile present the same token, and Auth0 may
  end the session for it. `login` over an existing profile does not revoke the
  session it replaces.
- The wait loop compares the deadline before it sleeps, so it may poll once past
  `Total` (`wait.go:23`); `Max` does not cap the first delay (`wait.go:21`); and
  no poll sets the per-iteration deadline `apiclient.go:142` speaks of. The
  bounds `WaitPoll` proves are those of the code.
- The debug trace sits outside the retry (`apiclient.go:135`): of a request that
  was retried it shows one exchange.
- A 409 for an existing environment whose problem has neither a known type nor
  its optional `status` member exits with 1, not 8 (`env.go:235`).
- `openBrowser` runs the launcher to its end before the select: the five minutes of
  `loginTimeout` begin after it and a cancellation is not seen until then, while
  `loopback.go:79` and `:85` speak of the timeout and the context as bounding the
  login. `EndsInTime` and `CancelIsNoticed` hold with the launcher's time added, for a
  launcher that takes `MaxOpen` at most; the code sets it no limit, and with one that never
  returns neither does the login, which is what `LoginEnds` excepts.
- The page of the callback says that the login is complete before the code is
  exchanged. A tab left from an earlier login that comes back to the same port
  ends the new login with a state mismatch, even when the login's own code is there too:
  the select takes either.
- A cached discovery document also answers for an `http:` URL that would not be
  fetched, and for any URL but the one it came from, `CYODA_CLOUD_DISCOVERY_URL` included,
  which `README.md:23` calls an override; and a slow fetch overwrites a newer cached
  document. `DocIsRecent` bounds all three.
- The configuration file is read once for each setting, and `discovery_url` cannot be set back to
  empty with `config set`.

## 4. Fairness

- `Transport` (`FairTransportSpec`): entering the mutex is strongly fair, because `sync.Mutex` hands
  the lock to a waiter that has starved for 1ms. The rest is weakly fair: the
  refresh uses a client with a 30s timeout, reading the answer is part of it,
  and the keychain write is local. `RefreshUnreachable` is enabled wherever
  Auth0 could answer, so no answer is ever assumed to be a good one. A request
  to the API ends by that client's 60s timeout.
- `WaitPoll`: the loop runs and time passes. The job need not end, and nobody
  has to cancel: `WaitEnds` follows from the deadline alone.

- `Login` (`FairSpec`): the flow's goroutine runs, and time passes where it may. The launcher is
  another program, which the code waits for without a context or a limit: that it returns
  (`BrowserOpened`) is not assumed, and `LoginEnds` says that the login returns or stays in
  the launch for ever. Neither the user, nor Auth0, nor a callback need ever come.

No other run assumes fairness.

## 5. What is proved

TLAPS proves the theorems below for every value of the constants (any number of
goroutines or processes, any options, both kinds of tenant), from the named assumptions of
the modules. TLC checks the inductive invariants or what they imply on small instances first.

**`TransportProofs`**, the cache. `IInv` is type correctness, `SingleRefresh`, that an
answer on its way is the newest Auth0 gave (`AnswerIsNewest`), and that a pair
being saved was issued (`SavesWhatWasIssued`); the last two are what `Adopt` and
`Persist` need for the type invariant to be inductive. From it:
`TypeCorrect`, `OneRefreshAtATime`, `NeverGoesBack`. `HoldsLiveToken` is added
for `NeverPresentsRotatedToken`: no answer lost means that Auth0's token is the
cached one or the one in the answer under way. `RefreshIsNeeded` and
`MintsAccountedFor` are added for `CallersCoalesce`: a token still usable is the
one mint nothing has paid for yet. `CrashIsBounded` is for any number of callers,
although they reorder their saves: Auth0 is one rotation ahead of the cache at
most, and every token the keychain misses is being saved, is in `unsaved` (its
write failed) or in `overtaken` (an older one landed on it).

**`TransportProofs`**, the transport. A transport's behaviour is one of the cache
(the lemma `TransportUsesCache`, by the shape of the model), so the cache's invariant is one of the
transport's. `TransportInv` adds
`StageMatchesCall` (a trip's stage says which call of the cache it is in),
`SentOncePerTry` (how many requests were sent at each stage) and
`OnlyNewerTokens`: once a trip's `Invalidate` has taken effect, every token that
can still reach its retry (cached, in an answer under way, being saved,
returned or on the wire) was minted after the refused one. That last part is why
`RetryHasNewToken` holds whatever the other goroutines do. `RetryHappensOnce`
follows from the second, `TransportTypeCorrect` from the type part.

**`SessionProofs`**, for any number of processes that overlap in any way.
`IInv` says that every copy of a profile, in the keychain or in a process, is of
a session its tenant opened and is not ahead of Auth0 (`CopiesAreSound`); that a
new login's session is in nobody else's hands until it is stored
(`LoginIsFresh`); and that what a process is about to persist is the newest token
of its session and, where tokens rotate, the only copy (`PersistsNewest`).
`ProfileIsConsistent` is the first part. `KeychainMovesForward` needs the last:
Auth0 hands the next token to the holder of the newest alone, so no second
process can be about to write. Most actions neither issue nor write a token;
`RestIsPassive` and `PassiveKeeps` treat them together.

For processes that take turns, `TurnsInv` adds that one process at most is at
work, that the profile in the keychain is good (Auth0 accepts its token, or the
session is excused) except next to a process that was just given the next token
or has just revoked this one, and what that process holds instead (`InStep`).
`Turn` is `TurnsInv` seen from the process that takes the step, and `StepTurn`
its one lemma per command. From it `TurnsKeepUsersIn`, `LogoutMeansOut` and
`ExpiryIsExplained`.

**`AtomicFileProofs`**, for writers that take turns. `IInv` says that the
temporary inode is nobody else's and that what the name and the readers refer to
is whole. From it `NobodySeesATornFile` and `FileIsARegister`: every step is
an operation of `AtomicRegister` or changes none of its state; the rename is
the write's one effect. `NothingIsLeftBehind` needs no turns: unless a writer has died
or its removal has failed since the last rename, a temporary file always has a writer that will
rename or remove it (`TmpIsTended`).

**`CredentialStoreProofs`**, assuming `TakeTurns` (which leaves the keyring
unrestricted): `StoreIsAMap` with the invariant that a process's copy is still the file
(`CopyIsFile`), and `OthersKeepTheirs` from it.

**`WaitPollProofs`.** `IInv` relates the clock to the last request, the timer
and the job's end at each stage (`AskingClock`, `SleepingClock`, `CheckClock`,
`SawItRunning`, `DelayInRange`): `HonestTimeout`, `BoundedOvershoot`,
`PromptReturn`, `NeverHammers`, for all options, defaults and timer errors.

**`LoginProofs`**, for all intervals, lifetimes, timeouts and delays. The
invariant says what each stage knows of the clock (`DeviceClock`,
`LoopbackClock`): a poll began before the code expired, a sleep ends an interval
after an exchange, a select a timeout after the launch. A step of a flow takes
no time, so only `Tick` can break a bound, and it may occur only at a stage whose
clock says how far it is. `IntervalIsAsTold` relates the interval to what Auth0
has asked for (one `slow_down` ahead while it is being read), `ConsentClock` and
`CodeWaits` how long a consent can go unheard, `TokensOnTheirWay` where an open
session is. From it `LoginEndsInTime`, `LoginCancelIsNoticed`,
`LoginHandsOverSession`, `LoginHonoursInterval`, `LoginCountsCallback` and
`LoginCountsApproval`.

**`VersionCheckProofs`**, for any processes, keys, URLs, lives and timeouts. Three
layers, each with the one before: types, with the fact that a copy about to be
written is the file unless it is stale (`CopyIsHeld`) and that the file names only
URLs (`URLIsKnown`); `SettingsAreKept`; and the ages.
A stamp is at most an exchange past the moment its content was served
(`CachesAreYoung`), since the local clock is never ahead, and an exchange is
under way no longer than its timeout (`ExchangeIsYoung`); hence
`DocumentsAreRecent`, `MinimumsAreRecent` and, through both caches, `HostsAreRecent`.

**`CommandProofs`**, the codes. What a handler accepts is what the OpenAPI document
lists as a success of its endpoint, described where it says so (`AcceptedIsDocumented`; the
tables `Described` and `Taken` are written from `api/openapi/openapi.yaml`, not from the handlers), no error is converted to code 0
(`WrapIsAnError`), and a problem document reaches `FromProblem` whichever
decoder sees it first (`ProblemReachesTable`). With them `TableHolds`,
`SuccessIsReal` and `LoginIsAskedFor`, for any set of responses tried.

**`CommandProofs`**, the env commands, for any number of invocations, keys and
bodies. The properties speak of commands that have ended, and none is inductive.
`IInv` says what the service has recorded (`LedgerNamesMade`: an intent's entry in the
ledger names the environment it made; `NoneMeansGone`: a name without an
environment is that of one that was torn down) and, of every invocation, what it has
done (`RecordIsTrue`: what was applied is in the ledger with its body, and only
`env up` is sent again), what its answer says (`AnswerIsTrue`: a refusal of
something not applied, a consent to something accepted) and that its code is that
of its answer (`EndIsTrue`). The service never takes back what it recorded (`Grows`), so a
step of one invocation leaves the others' records true (`StepOfOne`), and each
action has one lemma about its own. `OKIsAConsent` and `RefusalIsARefusal` lead
from codes back to answers. From it `IntentsMakeOneEnv`, `RefusalsChangeNothing`,
`WaitSeesTheEnd` and `GoneIsGone`. `RefusalsChangeNothing` is where
idempotency is needed: a request sent twice is answered the second time
from its entry, with 200, and not with the conflict its own environment would be.

The proof corrected one property. `GoneMeansGone` used to say that a poll told of no
environment has seen the teardown of its own. Two invocations satisfy that, and
four do not: a teardown fails, another `env up` replaces the environment
and another `env down` removes the replacement, all between two polls by name.
It now says "its own, or one that replaced it". The case needs more invocations than
`env_commands` has; the theorem is for any number.

**`CommandProofs`**, the promise. `CommandsKeepTheirPromise`: the commands
implement `OncePerIntent`. Each step of the network, the service or an invocation is of
one kind (`EveryStepHasAKind`), and each kind is a step of the promise or changes nothing it
speaks of: `Asked` is `Ask`, `Served` is `Serve`, `Ended` is `Tell`, the rest is
`Silent` or the world's (`StepKeepsPromise`). `PromiseInv` adds to `IInv` that who
has done something was asked to (`CommandsAsk`) and that an entry of the
ledger is there because an `env up` with its key was applied (`EntriesHaveAuthors`):
so "done" from a second command with the same key is the first one's effect. That an
intent is served once is the ledger's doing for a shared key, and for a key of its
own that of the invocation, which is applied once.

## 6. What is only model-checked

Liveness (`RoundTripsEnd`, `WaitEnds`, `LoginEnds`), which is out of the prover's
reach. The disagreements of section 3 are counterexamples and need no proof.

## 7. What is abstracted, and what is not modelled

- A refresh or request that times out either was decided at the other side
  before the client gave up, or never is: a grant that Auth0 makes *after* the
  client's timeout is not a separate case (to the client it is a lost answer).
- The wording of messages, output tables, JSON layout and logging (the whole
  debug trace included) are left out.
- The status poll of an application build is handled in `CommandExit`; its wait
  loop is `WaitPoll`. The two are not yet composed with a build service as
  `EnvCommands` does for environments.
- `docs/spec.md:647` names a terminal state `Job_Successful`; the code and the
  OpenAPI document use `Ready`, which the model follows.
- `Session` runs one refresh at a time in a process and takes a login flow as one
  step; goroutines in one process are `TokenCache`'s subject, and the steps of
  a flow `Login`'s.
- An answer of 200 without an `access_token`, which both flows would take for tokens
  (`device.go:184`, `exchange.go:46`), is one Auth0 is assumed not to give.
- The multiplication in the wait loop's backoff is on unbounded integers; `time.Duration` would
  overflow only for a factor or a delay no caller passes.
- The once-per-process warning of a malformed `config.toml` is output, and left out.
- Of the login flows the PKCE verifier, the state's randomness and the contents of
  URLs and pages are left out; the exchange that Auth0 accepts is one for our
  challenge. A loopback server that stops by itself posts
  nothing, which is the case of no callback.
- Of discovery, which fields a document must have is one way to fail; of the version check, the
  comparison of two versions is left out, being a function of two strings. Config
  files with the right keys and odd values are `Accepted` or refused as `config set` does.
- Not modelled: environment names (`internal/envname`, a check of one string), the debug
  trace, output formatting, flag wiring, test seams, build files, and the
  generated client other than its decoders: they keep no state and decide
  nothing the properties tell apart.

## 8. Plan

Order of importance, with what is done first.

1. `TokenCache`, `Transport` (done, proved).
2. `AtomicRegister`/`AtomicFile`, `ProfileMap`/`CredentialStore` (done, proved).
3. `WaitPoll` (done, proved).
4. `ExitCode`, `CommandExit`, `EnvCommands` (done, proved).
5. `Session` (done, proved). Left: an abstract
   specification, a session that only `login` opens and `logout` closes, which
   it implements for commands in turn.
6. `DeviceLogin`, `LoopbackLogin`, `Login` (done, proved).
7. `ConfigFile`, `Discovery`, `VersionCheck` (done, proved).
8. Left: `AppCommands`, build, cancel and delete against a build service with
   `--wait`, as `EnvCommands`; `EnvName` against a reference definition over
   bounded names.
