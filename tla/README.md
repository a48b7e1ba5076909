# A verification project for est-service

est-service is an EST (RFC 7030) front end, written in Go, to the PKI engine of an
OpenBao or Vault server. It authenticates a client, checks its certificate signing request
(CSR), has the backend sign it under the client's own token, and returns the certificate.
This directory holds TLA+ models of the parts of the program in which something can go
wrong that a unit test hardly reaches, the configurations that check them with TLC on small
instances, and proofs checked by TLAPS that hold for any instance.

Paths below are relative to `src/`.

## 1. The system: an inventory

| component | code | state | operations |
|---|---|---|---|
| enrollment handlers | `pkg/handlers/simpleenroll.go`, `simplereenroll.go`, `serverkeygen.go`, `base_enrollment.go`, `types.go` | per request only | authenticate, read and check the CSR, compare it with the client certificate, generate a key, clone the backend client, sign, encode, answer, record |
| authentication manager | `pkg/auth/manager.go` | the enabled methods | token, certificate, userpass, LDAP, AppRole, tried in that order |
| backend client | `pkg/backend/common_impl.go`, `client.go`, `openbao_impl.go` | one API client with the service's token; a clone per request | logins, token lookup, signing, key generation, identity, health |
| certificate login | `common_impl.go` 454-728, `entity_constants.go` | entities, aliases and tokens at the backend | create or update an entity, read it back, alias, token |
| server-side key generation | `serverkeygen.go` 296-422, `common_impl.go` 813-912, `transit_keygen.go` | temporary keys in the Transit engine | generate locally; create, export, allow deletion, delete |
| rate limiter | `pkg/server/ratelimit.go` | a map from address to token bucket, the times of the last visits | a request's visit, the sweep, shutdown |
| server lifecycle | `pkg/server/server.go` 466-610, `cmd/est-service/main.go` | listener, connections in progress, error channel, context | start, serve, watch the certificate, shut down, exit |
| routes and middlewares | `server.go` 143-392, 613-730 | the count of active connections | limiters, request id, logging, recovery, authentication |
| health endpoints | `server.go` 733-983 | none | health, ready, deep health |
| error mapping | `pkg/handlers/errors.go` | none | an error text becomes a status |
| CSR reading and validation | `pkg/est/csr.go` | none | size limit, parsing, signature, comparison with a certificate |
| configuration | `pkg/config` | the configuration | load, environment overrides, defaults, validation |
| cacerts, csrattrs | `pkg/handlers/cacerts.go`, `csrattrs.go`, `pkg/est/pkcs7.go` | none | read with fallback, constant answer |
| telemetry, audit | `pkg/server/telemetry.go`, `pkg/observability` | counters | records of what happened |

How they interact: `main` loads the configuration, makes the backend client and the server,
and waits in `Start`. A request passes the headers, the request id and the rate limiter, then
its handler. The handler asks the authentication manager, which calls the backend client: a
certificate login under the service's own token, all others under none. With the token it got
back the handler clones the backend client, signs under the clone and closes it.
serverkeygen has the key made by the service or by Transit, under the service's own token.
Everything shared between requests is at the backend, in the rate limiter's map, or in the
one API client they all clone.

What is hard, and which properties are about it:

- **Many clones of one client.** Signing under somebody else's token, or the service's, would
  break the whole point of the service: `SignedUnderOwnToken`.
- **Calls whose reply never comes.** The API client retries, times out or is cancelled; the
  backend may have performed the call, or perform it later: `RetriesBounded`,
  `LostOnlyToFaults`, `LoginsBounded`, `TokensAccounted`, `NoKeyLeftBehind`.
- **A chain of fallible methods.** `ChainIsComplete`.
- **Records against facts.** `RecordsAgree`.
- **A sweeper that deletes what requests hold pointers to.** `AdmittedWithinRate`,
  `RejectedOnlyWhenSpent`, `ImplementsBuckets`, `BurstPerIP`.
- **Cleanup under failure, and a crash.** `CleanupCostsNothing`, `KeyIsTransient`,
  `OwnKeyDelivered`.
- **Read after write, by two logins at once.** `OneIdentity`, `SeparateIdentities`.
- **Two shutdowns at once.** `CutOnlyWhenOverdue`, `ExitTruthful`, `AlwaysStops`,
  `AcceptedBeforeExpiry`.
- **Layers that each change a setting.** File, environment, defaults, validation, `main`, the
  backend client and the server: `StartedAsConfigured`, `InternalGuarded`.
- **Middlewares around middlewares.** Two limiters, panics, what is counted where:
  `AttemptsBounded`, `RecordsTruthful`.
- **One state of affairs, several verdicts.** `HealthAgrees`.
- **Checks in a row, on lists whose order and multiplicity matter or not.** `AskedForGood`,
  `StatusTruthful`.

`PROJECT.json` lists the components, every hazard at its line with the properties about it,
and for each definition the lines of code it models.

## 2. The modules

### EstService, Enrollment

`EstService` is what the endpoints promise: an answer is given at most once and stays,
certificates are issued only for requests that deserve one and in bounded number, and who is
told "here is your certificate" gets one that the CA issued for that very request.

`Enrollment` is the handlers. `pc[r]` is where the goroutine of request `r` is:

| pc | code |
|---|---|
| idle → auth | `ServeHTTP`, method check |
| auth → parse | `Manager.Authenticate`: `AuthAccepted`, `AuthRefused`, `AuthBroken` for each method in order, `Unauthenticated` at the end of the chain |
| parse → match, keygen, clone | `parseAndValidateCSR`, serverkeygen's own reader |
| match → clone | `ValidateCSRMatchesCertificate`, `ValidateReenrollmentSubject` |
| keygen → clone | `generateKeyPair` and the CSR made from it (see KeyGeneration) |
| clone → sign | `processCSRSigning`, `cloneWithToken` |
| sign → write, encode, done | `SignCSR`, `SignCSRVerbatim`, the deferred `Close`, the error answer |
| encode → write | `encodePrivateKey` |
| write → done | the response, `recordSuccess` |

`client` maps each backend client (the service's own and one clone per request) to the token
it holds. `issued` are the certificates of the CA with the token they were signed under,
`late` the signing calls nobody waits for that may still arrive. `log` is what telemetry and
audit recorded. A backend call that is answered is one step; a signing call that is not has
three outcomes (never arrived, performed, still under way), and may be retried. When the client
closes its connection the request's context is cancelled: `gone` is the call it was waiting for
then, if any (`Doing`), and only that call can still get to the backend (`Reaches`). `Finish` is
every return of a handler, with its status and records, so that each error path is one
action with all it writes.

What a request carries is one of a set of records (`InputType`): a CSR is what is wrong with
it first and whether its key and its names are those of the TLS certificate; how that comes
about is the module Checks. `ParseBackendError` is the set of statuses that each kind of error
usually becomes; the keywords of unusual texts are in BackendErrors.

### KeyGeneration

How serverkeygen comes by its key. `Type`, `Size`, `Feasible` are what the configuration asks
for, through the defaults of `setupRoutes`. `Create`, `Export`, `AllowDeletion`, `Delete` are
the four calls to Transit, each with its failure; `AfterExport` and `Result` are the deferred
function of `GenerateExportableKey`, which runs on every way out after the creation and has no
say in the result. The calls run under `context.Background()`, so a client that goes away
stops nothing: there is no such action. Names are readings of a clock that may not move
between two requests. Two other replicas of the service would look like two more requests.

### CertLogin

`AuthenticateCert`, one step in Enrollment, call by call: the entity (`CreateEntity`; the
backend's reply is empty if it was there, hence `ReadEntity`), the mounts, the alias, whose
failure is only logged (`AfterAlias`), and the token. The entity's name holds the first 16
digits of the fingerprint (`Prefix`), the alias all of it. The identity and token stores are
the backend's and are modelled from how they are used. The service's token may expire
(`Expire`): `StartTokenRenewal` has no caller.

### TokenBuckets, RateLimiter

`TokenBuckets` is what the limiter promises: one bucket per client for ever, a verdict by the
tokens in it, and a refill as time passes.

`RateLimiter` is that of `ratelimit.go` with buckets as `golang.org/x/time/rate` has them: `Level` is
what a bucket holds at a time, `tokens` and `used` what is stored. `GetVisitor` is the code
under the mutex, `Allow` what comes after it is released, and the sweeper's look at an entry
(`SweepLook`) and its deletion (`SweepDelete`) are two steps, because the mutex guards the map
and not the buckets. `straggler` is a history variable: a request that asked a bucket which
had been given up, or more than `MaxHold` after it got it. The refinement mapping takes what the
client can count on (`Available`) for the bucket of TokenBuckets: the level of its bucket, or a
full one when it has none or the sweeper is about to delete it. Of clients with stragglers, and
of limits under which a bucket does not refill within the period, it promises nothing.

### ServerLifecycle

`Start` and `main`: the goroutine that serves, the one that looks at the certificate every
hour, the main goroutine in its `select`, the signal, and `http.Server.Shutdown`, which may
run twice at once. When `Start` returns the process exits and cuts what is still in progress.

### Startup, Health, Front

`Startup` is how the process comes up, and every place where it may give up instead. `phase`
is `load` (`config.Load`), `main` (the look at developer mode, the log files), `connect` and
`health` (`NewClient`), `server` (`New`), `running` or `exit1`. `Effective` is what `applyDefaults`
and `main` make of file and environment; `Valid` is `validate`. A file is a record of what decides
about TLS, tokens, limits, internal endpoints and optional endpoints; the checks of single
values (waits, log outputs, labels, sizes) are one attribute, `sane`.

`Health` has the verdicts of the three health endpoints as functions of the backend's reply,
its delay and the hours the certificate has left, with the truncation to days and with the
class in which the hourly monitor puts the same certificate (`MonitorStatus`).

`Front` extends both: the requests of the service that `Startup` brought up. `todo[r]` are the
stages that `r` has yet to pass, as `New` and `setupRoutes` nest them:

| stage | code |
|---|---|
| general | `RateLimiter.Middleware` around the mux |
| route | `ServeMux`, `loggingMiddleware` on its way down |
| limit | `RateLimiter.Middleware` around the enrollment handlers |
| auth | `authMiddleware`, or the handlers' own authentication |
| method, work | a handler; health, csrattrs, and enrollment as one step |
| chain, single | `getCAChain` of cacerts and its fallback |
| close | `loggingMiddleware` on its way back: metrics, gauge |

`line` is the status that `responseWriter` has noted and `sent` the one the client sees: they
differ when a handler panics after its status line. `Panic` may strike in any stage behind
the recovery middleware, and in the routes that have none.

A limiter of Front has buckets for each client, one after the other, as numbers of requests they
still let through (`general`, `authentic`). `Visit` is `getVisitor`: under the mutex a request is
handed the bucket that its client has then. It pays in a later step, without the mutex
(`PassGeneral`, `PassAuthLimit`), and in between the sweeper may forget the client (`Forget`):
who comes next gets a new, full bucket, and who holds the old one keeps it. Front lets the
sweeper forget anybody at any time; whom it forgets, and when, is the module RateLimiter.

### BackendErrors, Checks

`BackendErrors` is `ParseBackendError`: the groups of words it looks for, in their order
(`Order`), and what it tells the client (`Advice`). An error's text is the set of groups it has
words of: the one that goes with its status code (`WordsOf`), and any others.

`Checks` is one enrollment request from its first byte to the CA's answer, which Enrollment
takes for one attribute of the request. The body comes in pieces (`ReadSome`) up to one byte
over the limit; it is wrapped in layers of base64 and PEM. Then come the algorithm, the
signature, the key (`CompareKeys`) and the names (`CompareNames`, with `StringSlicesEqual`
counting as the code's maps do). A name has a text and an encoding, which a comparison of
texts does not see; a subject has attributes of which `pkix.Name` keeps one value, a list, or
nothing it knows of (`Kept`, `SubjectString`). `Remade` is the CSR that serverkeygen writes.

## 3. What the runs check

| run | instance | shows |
|---|---|---|
| `enrollment` | 2 requests, each of 7 kinds, 1 retry, 2 faults each, 1 revoked token | tokens, clones, records, retries, the chain |
| `enrollment_service` | 2 requests of 4 kinds, 1 fault each, with or without a policy type | the handlers implement EstService; every request is answered |
| `enrollment_keygen_doc` | the same | violation: see finding 1 |
| `key_generation` | 2 requests, 9 configurations, 1 retry, 2 faulty calls each, a clock that ticks once, 1 crash | own key, nothing left in Transit without a cause |
| `key_generation_sizes_doc` | the same without faults | violation: see finding 2 |
| `cert_login` | 2 logins, 4 certificates (two that begin alike, one without a common name), 1 retry, 1 faulty call each, 1 removal | identities, aliases, tokens |
| `rate_limiter` | 2 requests, 2 sources of one header, burst 1, rate 1, sweep every 2, 4 units of time | forgetting is safe and free; the limiter implements TokenBuckets; turns, the end of the sweeper, forgetting |
| `rate_limiter_burst_doc` | 3 requests | violation: see finding 3 |
| `server_lifecycle` | 2 requests, 3 hours | draining, exit status, ending |
| `front` | 113 pairs of file and environment, 2 requests of 2 clients, limits of 0 to 2 or below, 1 tick, each client forgotten once by each limiter | from the file to the answer: configuration, limits, records, health |
| `front_health_doc` | the same | violation: see finding 4 |
| `checks` | bodies of 0 to 5 bytes, limits 1, 2 and 3 (one configured, two by default), lists of up to 3 names of 2 texts, 8 subjects, error texts with up to 2 groups of words | what reaches the CA, and what the statuses mean |

Why the bounds are enough. Two requests are all that a conflict over a token, a name, an
entity or a shutdown takes; the models treat requests alike, and the proofs cover any number
for every safety property that a run checks. One retry separates the first call, the last and the one that
is too many. A fault bound (`MaxFaults`) counts the calls of one request that fail in
transport, so two of them cover a failure during the handling of another; certificate logins
have one, since a second one ends a login that the first did not. The clock of KeyGeneration
needs two values for two names that differ or do not. The sweeper needs one period to see a
client and one to forget it. In `front` one forgetting (`MaxSweeps`) gives a client two buckets,
which two requests can hold at once; files vary in what decides about the start, alone and
in pairs that interact (`Starts`, asked nothing), and in what decides about requests; the
certificate's hours lie on both sides of each boundary between classes, and the delays of
the backend on both sides of each patience. In `checks` three names are the fewest with which a
list can repeat one and drop another at the same length, and two groups of words the fewest
that compete; a limit of one, two or three bytes has bodies below, at, one over and further over. All bounds are constants of the modules: `MaxFaults`,
`MaxRevoked`, `MaxRemoved`, `MaxTime`, `MaxHours`, `MaxTicks`, `MaxSweeps`; `Settings`, `Asked`, `CertHours`,
`Inputs` and `Messages` are the sets that a run enumerates.

In `enrollment`, `cert_login` and `rate_limiter_burst_doc` requests (and entity ids) are
symmetric and only invariants are checked. No run turns deadlock checking off: what has ended stutters in an action of its own (`Finished`, `Stopped`).

Each property of a passing run has a mutant in `PROJECT.json`: a variant of one definition,
kept beside it as `Name_Variant`, that a plausible bug in the code would amount to and that
makes TLC find the property violated.

### Fairness

A goroutine that can go on does: weak fairness of each handler's steps. This includes that
each call ends, as `newCommonBackend` gives the API client a time-out (`Timeout`, 30 s unless
configured). Nothing is assumed of clients, of faults, of calls that arrive late or of
tokens that may expire. In the limiter a visit to the map is strongly fair: `sync.Mutex` hands
itself to a waiter that has waited for a millisecond, so the sweeper cannot keep it for ever.
In the lifecycle the serving goroutine need not fail, a signal need not come and a request
need not be answered: `Shutdown` ends after 30 seconds anyway. In Front the process goes on
coming up (`ComeUp`) and each request is served (`Serve`); that anybody asks, that time passes
or that the certificate ends is not assumed.

### Findings

1. `PasswordClientGetsKey`. `api/README.md` shows serverkeygen called with a user name and a
   password and promises certificate and key. The code has the CA sign, then refuses to
   encode the key without an RSA client certificate and answers 500.
2. `SizeRestricted`. `allowed_key_sizes` restricts only the keys the service makes itself;
   with `use_openbao_transit` it is never looked at.
3. `BurstPerIP`. A request that holds a pointer to a bucket the sweeper has just forgotten, and
   one that gets the new bucket, share no budget; for a moment two bursts pass. Apart from
   such stragglers the limit holds (`AdmittedWithinRate`, proved). So what Front has of its two
   limiters is a bound for each bucket (`AttemptsBounded`): a client gets as much once more each
   time it is forgotten.
4. `DegradedIsUnavailable`. The comment of `deepHealthHandler` (`server.go`, 852) says that
   `/health/deep` answers 503 when the service is degraded or unhealthy. The code (970) makes 503
   of "unhealthy" only: with a backend that is slow or not initialized the body says "degraded"
   and the status 200, as that of `/health` is. `HealthAgrees` says what the three endpoints have
   in common as the code is.

Other things seen while reading, which no run is about: `StartTokenRenewal` has no caller;
`default_policy.type` is not validated, so that every enrollment of a configuration without it
is answered 400 (`RejectPolicy`); an elliptic curve without a size gets 2048 and is refused
(`Size`); `transit_key_name_prefix` is never used. `config.go` documents defaults that
`applyDefaults` does not give: `max_retries` 2 (it is 0), `timeout` 60 s (30 s),
`auth_requests_per_second` 0 for the general limit (10), `auth_burst` 0 for the general burst
(5); the models take what the code does. A negative rate for enrollment switches its limiter off and a negative burst turns
everybody away (`AttemptsBounded` says so); a list of algorithm names none of which is known
refuses everything (`Allowed`). `client_auth_type: require` has no effect without a
`client_ca_file`, and `none` does with one (`Demand`). The
verdict "expired" of `/health/deep` needs a certificate
that ended a day ago, and the monitor shuts the service down within the hour. `csr.go`
quotes that subject and alternative names "MUST be identical"; what is compared forgets the
order of both, the encoding of names, and kinds of names it does not know (`SameNames`).
serverkeygen drops attributes of a subject that `pkix.Name` has no field for (`Remade`). A
backend that answers 429 is told to the client as a failure, 502 (`WordsOf`).

## 4. What is proved

TLAPS checks these for all values of the constants, under the modules' named assumptions
(`EnrollmentAssumption`, `RateLimiterAssumption`, `KeyGenerationAssumption`, `CertLoginAssumption`,
`LifecycleAssumption`, `ChecksAssumption`, `StartupAssumption`, `FrontAssumption`), which say only
what kind of thing each constant is and that different tokens are different. Every safety
invariant and both refinements that a run checks have a theorem.

**EnrollmentProofs**: `TypeCorrect`, `ClonesAlwaysScrubbed`, `AlwaysSignedUnderOwnToken`.
`SignedUnderOwnToken` is not inductive: that the call about to be made is signed under the
request's own token depends on what its clone holds (`ClonesScrubbed`, which is worth a theorem: no token
stays behind in a clone, and the service's client keeps its own), which was set from
the authentication result, which must be the request's own (`HoldsOwnToken`), and a clone is
only open while the request signs (`Signing`). The conjunction `IInv` of these with `TypeOK` is
inductive: one lemma each for types, for the clones and for the calls, one step per action.

**EnrollmentServiceProofs**: `RecordsAlwaysAgree` (`RecordsAgree`), `OnlyFaultsLose`
(`LostOnlyToFaults`), `RetriesAlwaysBounded` (`RetriesBounded`), `ChainAlwaysComplete`
(`ChainIsComplete`), `LoginsAlwaysBounded` (`LoginsBounded`), `ServiceIsImplemented`
(`ImplementsService`), all from one invariant, `ServiceInv`, which says six things of each
request. What it has in the records (`Recorded`). That its signing calls have different numbers,
each below the attempt it is at, and that the attempts but the first were paid for by faults
(`Numbered`), so that calls can be counted by their numbers. That a broken connection, a call on
its way, or a certificate with no way back to the client means a fault (`Blamed`). That the methods
before the one that accepted have been tried and, without faults, still refuse (`InOrder`): for
this the backend must never come to accept later what it refuses now (`Fading`). That each token
it does not hold was paid for by a fault, where a login that was under way when the client went
may still be lost to that same fault (`LoggedIn`; `Pending` keeps the count right until the login
is over). And that it carries what its stage has asked for (`Entitled`), so that whoever has a
call at the CA deserves a certificate. A step touches one request; `HandlerApart` and `UntouchedOK`
show this once for the other requests. For the refinement, `StepServes` maps each step: the grant
and a late call issue, an error is a refusal (with a certificate at the same time if the CA
performed the call that failed), the write delivers or is cut, all others stutter. Two
certificates of a request have different numbers by `Numbered`, which is what `Issue` of EstService
asks for.

**RateLimiterProofs**: `TypeCorrect`, `ForgettingIsSafe`, `RefusedOnlyWhenSpent`,
`BucketsAreImplemented`. The argument for `AdmittedWithinRate`:
what a client may still get now is the level of its bucket, or a full burst if it has none.
In any window that ends now, the requests admitted and what is still available amount to no
more than burst and refill (`WithinRate`). The only step that could add to what is available is
the deletion of an entry. An entry is deleted when its bucket is full, so nothing is added; or
when it has been idle for a period, and then it is full as well, provided that a bucket refills
within `Cleanup - MaxHold` (`RefillsInTime`, a hypothesis of the property; with the defaults 2 s
against 5 min). That needs the time of the last visit to bound the last use of the bucket but
for stragglers (`SeenLately`), each bucket to belong to one client (`OwnBucket`), the entry
about to be deleted to be full still or used by stragglers only (`DoomedEntry`), and nothing
to lie in the future (`NoFutureTimes`). For `RejectedOnlyWhenSpent`: what a bucket lacks its own
client has taken since some moment when it was full (`Spent`). A refill keeps this as long as it
does not fill the bucket; when it does, that moment becomes the beginning. It holds of buckets
in the map and of those in the hands of requests alike, so stragglers are no exception. For
`ImplementsBuckets` the lemmas about `Available` say what each step does to the abstract bucket;
an entry that is deleted for being idle is full because, unless a straggler used it, its bucket
was last used at most `MaxHold` after the client's last visit (`UsedLately`).

**KeyGenerationProofs**: `TypeCorrect`, `KeysReachTheirOwner` (`OwnKeyDelivered`),
`CleanupIsFree` (`CleanupCostsNothing`), `KeysAreDeleted` (`NoKeyLeftBehind`), `KeysAreStrong`
(`KeyStrength`). A temporary name is the time at which its request read the clock
(`NamedFirst`), and whatever is stored under it or still on its way was made by a request
that read that time (`KeysOwned`, `LateOwned`); so a foreign key means a clash of names
(`HeldOwned`). A key is there when its request wants it, or one of the causes has already
occurred (`Exportable`); a late deletion cannot be the request's own, which has not deleted yet.
For the cleanup, the names are followed, not the requests (`Cleaned`): while a key is stored and
nothing excuses it, some request of that name has yet to allow the deletion, or has a key
that may be deleted and has yet to delete it. Neither is undone by another request's cleanup:
that removes the key.

**CertLoginProofs**: `TypeCorrect`, `IdentitiesStaySeparate` (`SeparateIdentities`),
`IdentityIsOne` (`OneIdentity`), `FailuresHaveCauses` (`FailureHasCause`), `TokensAlwaysAccounted`
(`TokensAccounted`). What stays is the owner of
an entity id, the name it was created under (`OwnersKept`): entities are removed and created
again, but ids are not used twice. Whatever holds an id has it for its own name: an entity
(`EntityOwned`), a token (`MintedOwned`), a login (`IdOwned`), a call that comes late
(`LateOwned`). So two tokens of one entity have one entity name, hence like certificates. While
nothing has been removed, an id that has an owner is still the entity of that name
(`OwnersLive`): so all tokens of a name are for one entity, and a login that holds an id
cannot find it gone, which leaves only faults to fail for. The tokens of one login are all for
the id it knows, so they differ by the attempt alone, which bounds their number; and a second
one, one that the login does not return, or one still on its way comes with a fault of the token
call (`TokenInv`).

**ServerLifecycleProofs**: `TypeCorrect`, `DrainsBeforeCutting` (`CutOnlyWhenOverdue`), `ExitIsTruthful`
(`ExitTruthful`), `AcceptedInTime` (`AcceptedBeforeExpiry`). The invariant ties what the goroutines
know to what has happened: whoever is in a Shutdown has closed the socket for a reason
(`ClosedForAReason`), the monitor reports only when its Shutdown is over
(`ReportsWhenDrained`), and an error that waits in the channel has a cause that still holds when
main reads it (`ErrorHasCause`). That the expiry is noticed in time is `Watched`: from that hour
on the socket is closed, or the monitor has a tick to act on, or main has been told to stop;
the assumption behind it (`Prompt`) is that these two run before the clock's next hour.

**ChecksProofs**: `TypeCorrect`, `AlwaysAskedForGood` (`AskedForGood`), `StatusesTruthful`
(`StatusTruthful`). Two lemmas carry the comparison of names: lists are permutations of each
other exactly if they are equally long and hold every name equally often (`CountsReorder`,
`ReorderedCounts`), where the permutation is put together from bijections between the places
of each name. `Advised` goes through the order of the words. `Passed`, `Checked` and `Silent` say
what a request that has come to a check has behind it: read to its end and within the
limit, its algorithm allowed, its signature good, its key and names compared, nothing
answered yet.

**FrontProofs**: `TypeCorrect`, `StartedRight` (`StartedAsConfigured`), `InternalStaysGuarded`
(`InternalGuarded`), `RecordsStayTruthful` (`RecordsTruthful`), `HealthStaysConsistent`
(`HealthAgrees`), for any file, environment and requests. Of the start the invariant says what
each phase has made sure of (`ConfigLoaded`, `DevModeChecked`, `TokenTaken`, `CertificateGood`). Of
a request it says where it may be (`OnItsWay`): what is ahead of it is one of a few ways, outside
the logged part (`Outer`) or in it (`Inner`), and no stage leads from one to a wrong place
in another. On a guarded route whatever comes behind authentication means that it
succeeded (`AuthFollowed`); an answer on its way back is one that logging has noted (`AnswerKnown`),
so its record is right (`RecordTruthful`); and a report is the verdict on the reply it was made
from (`ReportMade`). `GaugeOK` counts the requests in `Inner` and on their way back: each step takes
at most one request in or out. That health checks agree needs one lemma of arithmetic, that the
classes of truncated days are those of hours except below zero (`DaysAreHours`).

`AttemptsStayBounded` (`AttemptsBounded`) needs both limiters' books (`LimitsInv`), which are kept
for each bucket, since the sweeper may replace a client's at any moment. `Kept` is a pair of
inequalities about one bucket: what was taken from it and what is left are no more than was
ever in it, and what is missing is no more than was tried. The first bounds the credentials that
are checked. The second is why whoever is turned away is not alone: others were handed the
same bucket, enough to empty it (`Spent`, `Excused`). This is read at that moment, as later seconds
may fill the bucket, and it lasts because a bucket stays with whom it was handed to (`SpentStays`,
`SharingGrows`). Whoever has passed a limiter had a bucket of it (`Charged`, with `LimiterAhead` for
those who have not come to it yet). Numbers below zero count as none (`Above`). Requests in
`Admitted` have paid, those in `Tried` have been decided about; no step takes a request out of
either, and forgetting a client touches no bucket.

Only model-checked: the liveness properties (`AlwaysAnswered`, `AlwaysDecided`, `IdleForgotten`,
`KeyIsTransient`, `AlwaysStops`, `Progress`), which are beyond the prover, as are ENABLED and so
fairness; and what the violations of section 3 show. Nothing proved depends on induction over
data or on recursive operators: the modules have none.

## 5. What is not modelled

Telemetry's exporters, logging, the encodings of answers (PKCS#7, multipart, JSON), headers
and request ids are formatting without a say in what happens next. Of the configuration,
durations and single values are left out; `MCFront` takes limits and hours small. Clones are
modelled with the token only: whether the API library's `Clone` copies the namespace header
is outside this repository. `LookupToken` leaves its clone to the garbage collector, which
nothing in the models can see. `RenewToken`, `StartTokenRenewal`, `ValidateToken`, `GetIssuerPEM`,
`ReadCSRPayload` and `ExtractCSRFromPKCS7` have no callers. `docs/docs.go` is generated, the mocks
are test doubles.

## 6. What could come next

1. An abstract login (a credential yields at most one token per attempt, for one identity, and
   none after the service's token has expired) that CertLogin implements and Enrollment uses.
2. An abstract key store (whoever asks gets the key made for it, and it is gone afterwards) that
   KeyGeneration implements and Enrollment's step to `clone` stands for.
