--------------------------------- MODULE Front ---------------------------------
(***************************************************************************)
(* What a request passes on its way to a handler and back: the general     *)
(* rate limiter, the routes, logging with its metrics, the recovery from   *)
(* panics, the limiter of the endpoints that authenticate, authentication, *)
(* and the handlers themselves. Enrollment is one step here; it has a      *)
(* module of its own, and so have the choices of a limiter's sweeper and   *)
(* the end of the process. The service is the one that Startup brought up. *)
(***************************************************************************)
EXTENDS Startup, Health, Sequences, FiniteSets

CONSTANTS
  Requests,   \* HTTP requests
  Clients,    \* addresses they come from
  Delays,     \* seconds a backend may take to tell its health
  NoRequest,  \* a request that has not come yet
  Asked,      \* bound: Asked[s]: what may be asked of a service set up by s
  MaxTicks,   \* bound: seconds that pass for the limiters
  MaxSweeps   \* bound: times a limiter's sweeper forgets a client

Enrolling == {"simpleenroll", "simplereenroll", "serverkeygen"}
Internal == {"deep", "swagger", "metrics"}
Paths == Enrolling \cup Internal \cup {"cacerts", "csrattrs", "health", "ready"}
RequestType == [path : Paths, client : Clients]

(* The limiter around everything, and the one of the enrollment handlers.  *)
Limiters == {"general", "limit"}

(* The buckets that a limiter makes for one client, one after the other.   *)
Buckets == 1..(MaxSweeps + 1)

(* What a request may still have to pass.                                  *)
Stages == {"general", "route", "limit", "method", "auth", "work", "chain",
           "single", "close"}

(* 0: none. The 200, 400 and 502 of an enrollment stand for the others.    *)
Codes == {0, 200, 204, 400, 401, 404, 405, 429, 500, 502, 503}

NoReport == [reply |-> "none", seconds |-> 0, hours |-> 0]
Reports == [reply : Replies, seconds : Delays, hours : Int]

ASSUME FrontAssumption ==
  /\ IsFiniteSet(Requests)
  /\ NoRequest \notin RequestType
  /\ Asked \in [Settings -> SUBSET RequestType]
  /\ Delays \subseteq Nat
  /\ MaxTicks \in Nat
  /\ MaxSweeps \in Nat

VARIABLES
  req,       \* req[r]: what r asks for and where it comes from
  todo,      \* todo[r]: the stages ahead of r
  line,      \* line[r]: the status as the logging middleware knows it
  sent,      \* sent[r]: the status that the client is sent
  recorded,  \* recorded[r]: the status of r in the metrics
  creds,     \* creds[r]: what became of r's credentials
  report,    \* report[r]: what r learnt of the backend and the certificate
  panicked,  \* panicked[r]: the code that served r panicked
  gauge,     \* est_connections_active
  general,   \* general[c][b]: what is left in c's b-th general bucket
  authentic, \* authentic[c][b]: the same of the limiter for enrollment
  visitors,  \* visitors[l][c]: the bucket in l's table that is, or will be, c's
  limiter,   \* limiter[l][r]: the bucket that l handed to r; 0: none yet
  ticks      \* seconds that have passed for the limiters

answerVars == <<line, sent, recorded, creds, report, panicked>>
limiterVars == <<general, authentic, visitors, limiter, ticks>>
frontVars == <<req, todo, answerVars, gauge, limiterVars>>
vars == <<startupVars, frontVars>>

TypeOK ==
  /\ StartupTypeOK
  /\ req \in [Requests -> RequestType \cup {NoRequest}]
  /\ todo \in [Requests -> Seq(Stages)]
  /\ line \in [Requests -> Codes]
  /\ sent \in [Requests -> Codes]
  /\ recorded \in [Requests -> Codes]
  /\ creds \in [Requests -> {"unasked", "accepted", "refused"}]
  /\ report \in [Requests -> Reports \cup {NoReport}]
  /\ panicked \in [Requests -> BOOLEAN]
  /\ gauge \in Int
  /\ general \in [Clients -> [Buckets -> Int]]
  /\ authentic \in [Clients -> [Buckets -> Int]]
  /\ visitors \in [Limiters -> [Clients -> Buckets]]
  /\ limiter \in [Limiters -> [Requests -> Buckets \cup {0}]]
  /\ ticks \in 0..MaxTicks

Init ==
  /\ StartupInit
  /\ req = [r \in Requests |-> NoRequest]
  /\ todo = [r \in Requests |-> <<>>]
  /\ line = [r \in Requests |-> 0]
  /\ sent = [r \in Requests |-> 0]
  /\ recorded = [r \in Requests |-> 0]
  /\ creds = [r \in Requests |-> "unasked"]
  /\ report = [r \in Requests |-> NoReport]
  /\ panicked = [r \in Requests |-> FALSE]
  /\ gauge = 0
  /\ general = [c \in Clients |-> [b \in Buckets |-> 0]]
  /\ authentic = [c \in Clients |-> [b \in Buckets |-> 0]]
  /\ visitors = [l \in Limiters |-> [c \in Clients |-> 1]]
  /\ limiter = [l \in Limiters |-> [r \in Requests |-> 0]]
  /\ ticks = 0

Running == phase = "running"
At(r, stage) == todo[r] # <<>> /\ Head(todo[r]) = stage
Arrived(r) == req[r] # NoRequest
From(c) == {r \in Requests : Arrived(r) /\ req[r].client = c}
-------------------------------------------------------------------------------
(* The chain, as New and setupRoutes build it.                             *)
Limiting == cfg.limits.enabled
AuthLimiting == cfg.limits.enabled /\ cfg.limits.authRate > 0

Routed(p) ==
  /\ p = "csrattrs" => cfg.attrs # "off"
  /\ p = "serverkeygen" => cfg.keygen # "off"
  /\ p = "metrics" => cfg.metrics

(* Mutant of Guarded: /health/deep is open to everyone.                    *)
Guarded_NotDeep(p) == p \in Internal \ {"deep"} /\ cfg.internalAuth

Guarded(p) == p \in Internal /\ cfg.internalAuth

(* These routes are logged, counted, and safe from panics.                 *)
Logged(p) == p \notin Internal \cup {"health", "ready"} \/ Guarded(p)

Handler(p) ==
  CASE p \in Enrolling -> <<"method", "auth", "work">>
    [] p = "cacerts" -> <<"method", "chain">>
    [] p \in {"swagger", "metrics"} -> <<"work">>
    [] p \in {"csrattrs", "health", "ready", "deep"} -> <<"method", "work">>

(* Mutant of Chain: serverkeygen comes without the limiter.                *)
Chain_KeygenUnlimited(p) ==
  IF p \in Enrolling \ {"serverkeygen"} /\ AuthLimiting THEN <<"limit">> \o Handler(p)
  ELSE IF Guarded(p) THEN <<"auth">> \o Handler(p)
  ELSE Handler(p)

Chain(p) ==
  IF p \in Enrolling /\ AuthLimiting THEN <<"limit">> \o Handler(p)
  ELSE IF Guarded(p) THEN <<"auth">> \o Handler(p)
  ELSE Handler(p)

(* Mutant of WayBack: what authentication guards is not counted.           *)
WayBack_AuthUncounted(p) == IF Logged(p) /\ p \notin Internal THEN <<"close">> ELSE <<>>

(* An answer ends the way down; what was logged passes logging once more.  *)
WayBack(p) == IF Logged(p) THEN <<"close">> ELSE <<>>

GoOn(r) == todo' = [todo EXCEPT ![r] = Tail(@)]

(* known: what logging takes for the status; code: what the client sees.   *)
Answer(r, known, code) ==
  /\ sent' = [sent EXCEPT ![r] = code]
  /\ line' = [line EXCEPT ![r] = IF Logged(req[r].path) THEN known ELSE @]
  /\ todo' = [todo EXCEPT ![r] = WayBack(req[r].path)]

(* An answer from outside the logged part of the chain.                    *)
TurnAway(r, code) ==
  /\ sent' = [sent EXCEPT ![r] = code]
  /\ todo' = [todo EXCEPT ![r] = <<>>]
-------------------------------------------------------------------------------
(* A bucket is full when it is made, and until somebody takes from it.     *)
Begin ==
  /\ NewServer
  /\ general' = [c \in Clients |-> [b \in Buckets |-> cfg.limits.burst]]
  /\ authentic' = [c \in Clients |-> [b \in Buckets |-> cfg.limits.authBurst]]
  /\ UNCHANGED <<req, todo, answerVars, gauge, visitors, limiter, ticks>>

ComeUp ==
  \/ Begin
  \/ /\ StartupNext
     /\ phase' # "running"
     /\ UNCHANGED frontVars

Arrive(r) ==
  /\ Running
  /\ req[r] = NoRequest
  /\ \E q \in Asked[setting] :
       /\ req' = [req EXCEPT ![r] = q]
       /\ todo' = [todo EXCEPT ![r] =
                     IF Limiting THEN <<"general", "route">> ELSE <<"route">>]
  /\ UNCHANGED <<startupVars, answerVars, gauge, limiterVars>>

(* getVisitor: a request is handed the bucket of its client, under the     *)
(* mutex of the limiter. What it does with the bucket, it does without.    *)
Visit(r) ==
  /\ \E l \in Limiters :
       /\ At(r, l)
       /\ limiter[l][r] = 0
       /\ limiter' = [limiter EXCEPT ![l][r] = visitors[l][req[r].client]]
  /\ UNCHANGED <<startupVars, req, todo, answerVars, gauge, general, authentic,
                 visitors, ticks>>

(* cleanupVisitors: the limiter's sweeper forgets a client that has a      *)
(* bucket, and a new one is made for its next request; whoever holds the   *)
(* old one keeps it. Whom the sweeper forgets, and when, is RateLimiter's: *)
(* here it may be anybody at any time.                                     *)
Forget(l, c) ==
  /\ visitors[l][c] <= MaxSweeps
  /\ \E r \in From(c) : limiter[l][r] = visitors[l][c]
  /\ visitors' = [visitors EXCEPT ![l][c] = @ + 1]
  /\ UNCHANGED <<startupVars, req, todo, answerVars, gauge, general, authentic,
                 limiter, ticks>>

(* RateLimiter.Middleware around everything: every path has to pay, into   *)
(* the bucket it was handed.                                               *)
PassGeneral(r) ==
  LET c == req[r].client
      b == limiter["general"][r]
  IN  /\ At(r, "general")
      /\ b # 0
      /\ IF general[c][b] >= 1
         THEN /\ general' = [general EXCEPT ![c][b] = @ - 1]
              /\ GoOn(r)
              /\ UNCHANGED sent
         ELSE TurnAway(r, 429) /\ UNCHANGED general
      /\ UNCHANGED <<startupVars, req, line, recorded, creds, report, panicked,
                     gauge, authentic, visitors, limiter, ticks>>

(* ServeMux, then loggingMiddleware on its way down.                       *)
Route(r) ==
  LET p == req[r].path
  IN  /\ At(r, "route")
      /\ IF Routed(p)
         THEN /\ todo' = [todo EXCEPT ![r] = Chain(p)]
              /\ gauge' = IF Logged(p) /\ cfg.metrics THEN gauge + 1 ELSE gauge
              /\ UNCHANGED sent
         ELSE TurnAway(r, 404) /\ UNCHANGED gauge
      /\ UNCHANGED <<startupVars, req, line, recorded, creds, report, panicked,
                     limiterVars>>

(* RateLimiter.Middleware around the enrollment handlers.                  *)
PassAuthLimit(r) ==
  LET c == req[r].client
      b == limiter["limit"][r]
  IN  /\ At(r, "limit")
      /\ b # 0
      /\ IF authentic[c][b] >= 1
         THEN /\ authentic' = [authentic EXCEPT ![c][b] = @ - 1]
              /\ GoOn(r)
              /\ UNCHANGED <<line, sent>>
         ELSE Answer(r, 429, 429) /\ UNCHANGED authentic
      /\ UNCHANGED <<startupVars, req, recorded, creds, report, panicked, gauge,
                     general, visitors, limiter, ticks>>

(* Handlers refuse methods that are not theirs before anything else.       *)
CheckMethod(r) ==
  /\ At(r, "method")
  /\ \/ GoOn(r) /\ UNCHANGED <<line, sent>>
     \/ Answer(r, 405, 405)
  /\ UNCHANGED <<startupVars, req, recorded, creds, report, panicked, gauge,
                 limiterVars>>

(* authMiddleware, or the first thing an enrollment handler does.          *)
Authenticate(r) ==
  /\ At(r, "auth")
  /\ \/ /\ creds' = [creds EXCEPT ![r] = "accepted"]
        /\ GoOn(r)
        /\ UNCHANGED <<line, sent>>
     \/ /\ creds' = [creds EXCEPT ![r] = "refused"]
        /\ Answer(r, 401, 401)
  /\ UNCHANGED <<startupVars, req, recorded, report, panicked, gauge, limiterVars>>

(* healthHandler, readyHandler, deepHealthHandler.                         *)
TellHealth(r) ==
  /\ At(r, "work")
  /\ req[r].path \in Endpoints
  /\ \E reply \in Replies, seconds \in Delays :
       LET code == StatusCode(req[r].path, reply, seconds, cfg.tls, left)
       IN  /\ report' = [report EXCEPT ![r] =
                           [reply |-> reply, seconds |-> seconds, hours |-> left]]
           /\ Answer(r, code, code)
  /\ UNCHANGED <<startupVars, req, recorded, creds, panicked, gauge, limiterVars>>

(* The statuses of the handlers that have no state.                        *)
Outcomes(p) ==
  IF p \in Enrolling THEN {200, 400, 502}
  ELSE IF p = "csrattrs" THEN (IF cfg.attrs = "invalid" THEN {204} ELSE {200, 500})
  ELSE {200, 404}

Work(r) ==
  /\ At(r, "work")
  /\ req[r].path \notin Endpoints
  /\ \E code \in Outcomes(req[r].path) : Answer(r, code, code)
  /\ UNCHANGED <<startupVars, req, recorded, creds, report, panicked, gauge,
                 limiterVars>>

(* cacerts. A chain that cannot be read is replaced by the one certificate *)
(* of the CA; one that is read and holds nothing is not.                   *)
ReadChain(r) ==
  /\ At(r, "chain")
  /\ \/ Answer(r, 200, 200)
     \/ Answer(r, 500, 500)
     \/ /\ todo' = [todo EXCEPT ![r] = <<"single">>]
        /\ UNCHANGED <<line, sent>>
  /\ UNCHANGED <<startupVars, req, recorded, creds, report, panicked, gauge,
                 limiterVars>>

(* Mutant of ReadSingle: without a certificate the chain is read again.    *)
ReadSingle_Again(r) ==
  /\ At(r, "single")
  /\ \/ Answer(r, 200, 200)
     \/ /\ todo' = [todo EXCEPT ![r] = <<"chain">>]
        /\ UNCHANGED <<line, sent>>
  /\ UNCHANGED <<startupVars, req, recorded, creds, report, panicked, gauge,
                 limiterVars>>

ReadSingle(r) ==
  /\ At(r, "single")
  /\ \E code \in {200, 500} : Answer(r, code, code)
  /\ UNCHANGED <<startupVars, req, recorded, creds, report, panicked, gauge,
                 limiterVars>>

(* recoveryMiddleware answers 500, and if the status line is out already,  *)
(* only logging believes it. Without the middleware the connection ends.   *)
Panic(r) ==
  /\ \E stage \in {"method", "auth", "work", "chain", "single"} : At(r, stage)
  /\ panicked' = [panicked EXCEPT ![r] = TRUE]
  /\ \/ Answer(r, 500, IF Logged(req[r].path) THEN 500 ELSE 0)
     \/ /\ \E stage \in {"work", "chain", "single"} : At(r, stage)
        /\ Answer(r, 500, 200)
  /\ UNCHANGED <<startupVars, req, recorded, creds, report, gauge, limiterVars>>

(* loggingMiddleware on the way back.                                      *)
Record(r) ==
  /\ At(r, "close")
  /\ GoOn(r)
  /\ IF cfg.metrics
     THEN /\ recorded' = [recorded EXCEPT ![r] = line[r]]
          /\ gauge' = gauge - 1
     ELSE UNCHANGED <<recorded, gauge>>
  /\ UNCHANGED <<startupVars, req, line, sent, creds, report, panicked, limiterVars>>
-------------------------------------------------------------------------------
(* A second passes for the limiters. A rate below zero gives nothing.      *)
Refilled(n, rate, burst) ==
  LET more == IF rate > 0 THEN n + rate ELSE n
  IN  IF more > burst THEN burst ELSE more

Tick ==
  /\ Running
  /\ Limiting
  /\ ticks < MaxTicks
  /\ ticks' = ticks + 1
  /\ general' = [c \in Clients |-> [b \in Buckets |->
                   Refilled(general[c][b], cfg.limits.rate, cfg.limits.burst)]]
  /\ authentic' = [c \in Clients |-> [b \in Buckets |->
                   Refilled(authentic[c][b], cfg.limits.authRate, cfg.limits.authBurst)]]
  /\ UNCHANGED <<startupVars, req, todo, answerVars, gauge, visitors, limiter>>

(* Time goes by; within the hour after its certificate ended the monitor   *)
(* shuts the service down (ServerLifecycle).                               *)
Age ==
  /\ Running
  /\ cfg.tls
  /\ \E h \in CertHours[setting] :
       /\ h < left
       /\ h >= -1
       /\ left' = h
  /\ UNCHANGED <<setting, phase, cfg, held, frontVars>>

Serve(r) ==
  \/ Visit(r) \/ PassGeneral(r) \/ Route(r) \/ PassAuthLimit(r)
  \/ CheckMethod(r) \/ Authenticate(r) \/ TellHealth(r) \/ Work(r)
  \/ ReadChain(r) \/ ReadSingle(r) \/ Panic(r) \/ Record(r)

(* The process ended, or the service waits for requests.                   *)
Settled ==
  /\ phase \in {"running", "exit1"}
  /\ \A r \in Requests : todo[r] = <<>>
  /\ UNCHANGED vars

Next ==
  \/ ComeUp
  \/ \E r \in Requests : Arrive(r) \/ Serve(r)
  \/ \E l \in Limiters, c \in Clients : Forget(l, c)
  \/ Tick
  \/ Age
  \/ Settled

(* Every goroutine that can go on does. Nobody has to ask for anything.    *)
Fairness ==
  /\ WF_vars(ComeUp)
  /\ \A r \in Requests : WF_vars(Serve(r))

Spec == Init /\ [][Next]_vars /\ Fairness
-------------------------------------------------------------------------------
Ended(r) == Arrived(r) /\ todo[r] = <<>>

(* r is in the part of the chain that logging wraps.                       *)
Inside(r) ==
  /\ todo[r] # <<>>
  /\ Head(todo[r]) \notin {"general", "route"}
  /\ Logged(req[r].path)

(* The metrics against the facts, whatever panics: the gauge counts the    *)
(* requests in the logged part, and a request that went through it is      *)
(* recorded with the status its client was sent, unless the handler had    *)
(* sent a status line before it panicked. What is not logged is not        *)
(* recorded, and nobody is left without an answer but by a panic on an     *)
(* unprotected route (loggingMiddleware around recoveryMiddleware).        *)
RecordsTruthful ==
  Running =>
    /\ gauge = IF cfg.metrics THEN Cardinality({r \in Requests : Inside(r)}) ELSE 0
    /\ \A r \in Requests :
         Ended(r) =>
           LET p == req[r].path
           IN  /\ sent[r] = 0 => panicked[r] /\ ~Logged(p)
               /\ recorded[r] \in {0, sent[r], 500}
               /\ recorded[r] \notin {0, sent[r]} => panicked[r]
               /\ recorded[r] = 0 /\ cfg.metrics /\ Logged(p)
                    => ~Routed(p) \/ sent[r] = 429
               /\ recorded[r] # 0 => cfg.metrics /\ Logged(p) /\ Routed(p)

(* What is only for the operator goes to those who proved who they are,    *)
(* unless the file says otherwise or this is a confirmed developer's       *)
(* instance outside production: from the file, through defaults and main,  *)
(* to the routes (authMiddleware).                                         *)
InternalGuarded ==
  \A r \in Requests :
    Arrived(r) /\ req[r].path \in Internal /\ sent[r] \in {200, 503} =>
      \/ creds[r] = "accepted"
      \/ file.internalAuth = "off"
      \/ /\ file.internalAuth = "unset"
         /\ file.dev /\ env.confirmed /\ ~env.production

(* Enrollment requests whose credentials were checked.                     *)
Attempts == {r \in Requests :
               Arrived(r) /\ req[r].path \in Enrolling /\ creds[r] # "unasked"}

(* The requests that pay, or paid, into one bucket of a client.            *)
Sharing(l, c, b) == {r \in From(c) : limiter[l][r] = b}

(* The others that share r's bucket are enough to have emptied it.         *)
Spent(l, r, burst) ==
  /\ limiter[l][r] # 0
  /\ Cardinality(Sharing(l, req[r].client, limiter[l][r]) \ {r}) >= burst

(* The two limiters together, while their sweepers delete what they like   *)
(* between getVisitor and Allow: enrollment checks no credentials of a     *)
(* request that has not paid both of them, one bucket of a client pays for *)
(* no more checks than the limits in force allow (so a client gets at most *)
(* that much once more for each time it is forgotten), and nobody is       *)
(* turned away but by a bucket that other requests of the same client have *)
(* spent. A rate below zero for enrollment is no limit at all, and no      *)
(* burst above zero is no service at all; validate accepts both.           *)
AttemptsBounded ==
  Running /\ Limiting =>
    LET l == cfg.limits
        Most(burst, rate) == (IF burst > 0 THEN burst ELSE 0)
                               + (IF rate > 0 THEN rate * ticks ELSE 0)
    IN  /\ \A c \in Clients, b \in Buckets :
             /\ Cardinality(Attempts \cap Sharing("general", c, b))
                  <= Most(l.burst, l.rate)
             /\ AuthLimiting =>
                  Cardinality(Attempts \cap Sharing("limit", c, b))
                    <= Most(l.authBurst, l.authRate)
        /\ \A r \in Attempts :
             /\ limiter["general"][r] # 0
             /\ AuthLimiting => limiter["limit"][r] # 0
        /\ \A r \in Requests : Arrived(r) /\ sent[r] = 429 =>
             \/ Spent("general", r, l.burst)
             \/ /\ req[r].path \in Enrolling
                /\ AuthLimiting
                /\ Spent("limit", r, l.authBurst)

(* r was told of the backend and the certificate, and told its client.     *)
Told(r) == Arrived(r) /\ report[r] # NoReport /\ ~panicked[r]
Verdict(r) == Overall(report[r].reply, report[r].seconds, cfg.tls, report[r].hours)

(* The three endpoints agree about one and the same state of affairs: who  *)
(* is ready is healthy, /health/deep fails whenever /health does, it fails *)
(* only if its own verdict is not "healthy", and what is healthy there is  *)
(* ready. The days it tells, truncated, put the certificate into the class *)
(* in which the monitor puts it, except in the hour it has ended:          *)
(* "critical", never "ok" and never without a trace in the overall verdict.*)
HealthAgrees ==
  LET Is(r, p) == req[r].path = p
  IN  /\ \A r, s \in {t \in Requests : Told(t)} :
           report[r] = report[s] =>
             /\ Is(r, "ready") /\ Is(s, "health") /\ sent[r] = 200 => sent[s] = 200
             /\ Is(r, "health") /\ Is(s, "deep") /\ sent[r] = 503 => sent[s] = 503
             /\ Is(s, "ready") /\ report[r].reply # "error" /\ Verdict(r) = "healthy"
                  => sent[s] = 200
      /\ \A r \in {t \in Requests : Told(t)} :
           LET h == report[r].hours
           IN  /\ Is(r, "deep") /\ sent[r] = 503 => Verdict(r) # "healthy"
               /\ cfg.tls =>
                    /\ h >= 0 => CertStatus(h) = MonitorStatus(h)
                    /\ h < 0 => CertStatus(h) = "critical"
                    /\ h < 0 => Verdict(r) # "healthy"

(* What the comment on deepHealthHandler documents of its answer: it is    *)
(* 503 when the service is degraded, as it is when the service is          *)
(* unhealthy.                                                              *)
DegradedIsUnavailable ==
  \A r \in {t \in Requests : Told(t)} :
    req[r].path = "deep" /\ Verdict(r) \in {"degraded", "unhealthy"} => sent[r] = 503

(* The start comes to an end, and so does every request that came in.      *)
Progress ==
  /\ <>(phase \in {"running", "exit1"})
  /\ \A r \in Requests : Arrived(r) ~> Ended(r)
===============================================================================
