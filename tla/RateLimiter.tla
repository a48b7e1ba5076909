----------------------------- MODULE RateLimiter -----------------------------
(***************************************************************************)
(* The per-client rate limiter of the server: a map from client addresses  *)
(* to token buckets (x/time/rate), filled by the requests and emptied by a *)
(* sweeper goroutine that runs every `Cleanup' and forgets the clients it  *)
(* takes for idle.                                                         *)
(*                                                                         *)
(* A request takes its bucket out of the map under the mutex and asks it   *)
(* for a token after it has released the mutex, so the sweeper may forget  *)
(* the bucket between the two, or look at it just before the token goes.   *)
(* Time is counted in units in which a bucket regains Rate tokens.         *)
(***************************************************************************)
EXTENDS Integers, FiniteSets

CONSTANTS
  Requests,      \* HTTP requests, each served by one goroutine
  Addresses,     \* what may name a client
  Sources,       \* where a request may come from
  TrustedPeers,  \* addresses inside trusted_proxy_cidrs
  NoHeader,      \* the request has no X-Forwarded-For header
  NoBucket,      \* the map has no entry
  Rate,          \* tokens a bucket regains in a unit of time
  Burst,         \* size of a bucket
  Cleanup,       \* period of the sweeper, and idle time it tolerates
  MaxHold,       \* time after which a request is counted as a straggler
  MaxTime        \* bound: the clock stops here

ASSUME RateLimiterAssumption ==
  /\ Sources \subseteq [peer : Addresses, xff : Addresses \cup {NoHeader}]
  /\ TrustedPeers \subseteq Addresses
  /\ NoHeader \notin Addresses
  /\ NoBucket \notin Requests \cup Addresses
  /\ IsFiniteSet(Requests)
  /\ Rate \in Nat /\ Burst \in Nat
  /\ Cleanup \in Nat \ {0}
  /\ MaxHold \in Nat
  /\ MaxTime \in Nat

Times == 0..MaxTime

VARIABLES
  now,        \* the clock
  ticked,     \* the ticker's channel holds a tick
  source,     \* source[r]: where r comes from (fixed)
  pc,         \* pc[r]: where the goroutine of r is
  got,        \* got[r]: the bucket r holds a pointer to
  since,      \* since[r]: when it did so; 0 once r is decided
  asked,      \* asked[r]: when r asked its bucket for a token
  straggler,  \* straggler[r]: r asked late, or a bucket given up by the sweeper
  visitors,   \* visitors[ip]: the client's bucket
  lastSeen,   \* lastSeen[ip]: the client's last visit; 0 without an entry
  tokens,     \* tokens[b]: the tokens in bucket b when it was last used
  used,       \* used[b]: when bucket b was last used
  sweeper,    \* what the sweeper is doing
  rest,       \* the entries it has yet to look at
  doomed,     \* the bucket it is about to delete
  stopping    \* Shutdown was called

requestVars == <<pc, got, since, asked, straggler>>
mapVars == <<visitors, lastSeen>>
bucketVars == <<tokens, used>>
sweepVars == <<sweeper, rest, doomed>>
vars == <<now, ticked, source, requestVars, mapVars, bucketVars, sweepVars,
          stopping>>

(* A bucket is named after the request that made it.                       *)
Buckets == Requests

PCs == {"wait", "ask", "admitted", "rejected"}

TypeOK ==
  /\ now \in Times
  /\ ticked \in BOOLEAN
  /\ source \in [Requests -> Sources]
  /\ pc \in [Requests -> PCs]
  /\ got \in [Requests -> Buckets \cup {NoBucket}]
  /\ since \in [Requests -> Times]
  /\ asked \in [Requests -> Times]
  /\ straggler \in [Requests -> BOOLEAN]
  /\ visitors \in [Addresses -> Buckets \cup {NoBucket}]
  /\ lastSeen \in [Addresses -> Times]
  /\ tokens \in [Buckets -> 0..Burst]
  /\ used \in [Buckets -> Times]
  /\ sweeper \in {"idle", "sweeping", "ended"}
  /\ rest \subseteq Addresses
  /\ doomed \in Addresses \cup {NoBucket}
  /\ stopping \in BOOLEAN

Init ==
  /\ now = 0
  /\ ticked = FALSE
  /\ source \in [Requests -> Sources]
  /\ pc = [r \in Requests |-> "wait"]
  /\ got = [r \in Requests |-> NoBucket]
  /\ since = [r \in Requests |-> 0]
  /\ asked = [r \in Requests |-> 0]
  /\ straggler = [r \in Requests |-> FALSE]
  /\ visitors = [ip \in Addresses |-> NoBucket]
  /\ lastSeen = [ip \in Addresses |-> 0]
  /\ tokens = [b \in Buckets |-> 0]
  /\ used = [b \in Buckets |-> 0]
  /\ sweeper = "idle"
  /\ rest = {}
  /\ doomed = NoBucket
  /\ stopping = FALSE
-------------------------------------------------------------------------------
(* getClientIP: only a trusted proxy may name the client it speaks for.    *)
ClientIP(r) ==
  IF source[r].xff # NoHeader /\ source[r].peer \in TrustedPeers
    THEN source[r].xff
    ELSE source[r].peer

(* rate.Limiter: the tokens bucket b holds at time t.                      *)
Level(b, t) ==
  LET refilled == tokens[b] + (t - used[b]) * Rate
  IN  IF refilled > Burst THEN Burst ELSE refilled

(* The mutex is the sweeper's while it goes through the map, and nobody's  *)
(* otherwise: getVisitor is one step.                                      *)
Unlocked == sweeper # "sweeping"

(* Mutant of NewBucket: a new bucket starts empty.                         *)
NewBucket_Empty(b) ==
  /\ tokens' = [tokens EXCEPT ![b] = 0]
  /\ used' = [used EXCEPT ![b] = now]

(* Mutant of NewBucket: a new bucket holds one token too many.             *)
NewBucket_OneMore(b) ==
  /\ tokens' = [tokens EXCEPT ![b] = Burst + 1]
  /\ used' = [used EXCEPT ![b] = now]

(* rate.NewLimiter: a new bucket is full.                                  *)
NewBucket(b) ==
  /\ tokens' = [tokens EXCEPT ![b] = Burst]
  /\ used' = [used EXCEPT ![b] = now]

GetVisitor(r) ==
  /\ pc[r] = "wait"
  /\ Unlocked
  /\ pc' = [pc EXCEPT ![r] = "ask"]
  /\ since' = [since EXCEPT ![r] = now]
  /\ lastSeen' = [lastSeen EXCEPT ![ClientIP(r)] = now]
  /\ IF visitors[ClientIP(r)] # NoBucket
       THEN /\ got' = [got EXCEPT ![r] = visitors[ClientIP(r)]]
            /\ UNCHANGED <<visitors, bucketVars>>
       ELSE /\ NewBucket(r)
            /\ visitors' = [visitors EXCEPT ![ClientIP(r)] = r]
            /\ got' = [got EXCEPT ![r] = r]
  /\ UNCHANGED <<now, ticked, source, asked, straggler, sweepVars, stopping>>

(* The bucket r holds is its client's no longer, or r was held up.         *)
Straggles(r) ==
  \/ visitors[ClientIP(r)] # got[r]
  \/ doomed = ClientIP(r)
  \/ now - since[r] > MaxHold

(* limiter.Allow, and the answer: the next handler, or 429. A bucket is    *)
(* written only when it gives a token.                                     *)
Allow(r) ==
  /\ pc[r] = "ask"
  /\ asked' = [asked EXCEPT ![r] = now]
  /\ straggler' = [straggler EXCEPT ![r] = Straggles(r)]
  /\ got' = [got EXCEPT ![r] = NoBucket]
  /\ since' = [since EXCEPT ![r] = 0]
  /\ IF Level(got[r], now) >= 1
       THEN /\ pc' = [pc EXCEPT ![r] = "admitted"]
            /\ tokens' = [tokens EXCEPT ![got[r]] = Level(got[r], now) - 1]
            /\ used' = [used EXCEPT ![got[r]] = now]
       ELSE /\ pc' = [pc EXCEPT ![r] = "rejected"]
            /\ UNCHANGED bucketVars
  /\ UNCHANGED <<now, ticked, source, mapVars, sweepVars, stopping>>
-------------------------------------------------------------------------------
(* Time passes. The ticker drops a tick when the last one was not taken.   *)
Tick ==
  /\ now < MaxTime
  /\ now' = now + 1
  /\ ticked' = (ticked \/ (now + 1) % Cleanup = 0)
  /\ UNCHANGED <<source, requestVars, mapVars, bucketVars, sweepVars, stopping>>

Entries == {ip \in Addresses : visitors[ip] # NoBucket}

(* The sweeper takes a tick and the mutex.                                 *)
SweepBegin ==
  /\ sweeper = "idle"
  /\ ticked
  /\ ticked' = FALSE
  /\ sweeper' = "sweeping"
  /\ rest' = Entries
  /\ UNCHANGED <<now, source, requestVars, mapVars, bucketVars, doomed, stopping>>

(* Mutant of Forgettable: the test for a full bucket is off by one.        *)
Forgettable_NotFull(ip) ==
  \/ now - lastSeen[ip] > Cleanup
  \/ Level(visitors[ip], now) >= Burst - 1

(* Mutant of Forgettable: only the bucket is looked at.                    *)
Forgettable_FullOnly(ip) == Level(visitors[ip], now) >= Burst

(* Idle for long, or the bucket is full again.                             *)
Forgettable(ip) ==
  \/ now - lastSeen[ip] > Cleanup
  \/ Level(visitors[ip], now) >= Burst

(* The sweeper looks at one entry, in the map's random order...            *)
SweepLook(ip) ==
  /\ sweeper = "sweeping"
  /\ doomed = NoBucket
  /\ ip \in rest
  /\ rest' = rest \ {ip}
  /\ doomed' = IF Forgettable(ip) THEN ip ELSE NoBucket
  /\ UNCHANGED <<now, ticked, source, requestVars, mapVars, bucketVars, sweeper,
                 stopping>>

(* ... and deletes it. Requests may use the bucket in between: the mutex   *)
(* guards the map, not the buckets.                                        *)
SweepDelete ==
  /\ doomed # NoBucket
  /\ visitors' = [visitors EXCEPT ![doomed] = NoBucket]
  /\ lastSeen' = [lastSeen EXCEPT ![doomed] = 0]
  /\ doomed' = NoBucket
  /\ UNCHANGED <<now, ticked, source, requestVars, bucketVars, sweeper, rest,
                 stopping>>

(* Mutant of SweepOver: a sweep over an empty map never ends.              *)
SweepOver_NeedsEntry == rest = {} /\ doomed = NoBucket /\ Entries # {}

SweepOver == rest = {} /\ doomed = NoBucket

SweepEnd ==
  /\ sweeper = "sweeping"
  /\ SweepOver
  /\ sweeper' = "idle"
  /\ UNCHANGED <<now, ticked, source, requestVars, mapVars, bucketVars, rest,
                 doomed, stopping>>

(* Server.Shutdown cancels the limiter's context...                        *)
Shutdown ==
  /\ ~stopping
  /\ stopping' = TRUE
  /\ UNCHANGED <<now, ticked, source, requestVars, mapVars, bucketVars, sweepVars>>

(* ... and the sweeper ends, at the latest when it is done with the ticks  *)
(* it has taken; select may prefer a pending tick.                         *)
SweeperExit ==
  /\ sweeper = "idle"
  /\ stopping
  /\ sweeper' = "ended"
  /\ UNCHANGED <<now, ticked, source, requestVars, mapVars, bucketVars, rest,
                 doomed, stopping>>

Sweep ==
  \/ SweepBegin
  \/ \E ip \in Addresses : SweepLook(ip)
  \/ SweepDelete
  \/ SweepEnd
  \/ SweeperExit

(* The clock has reached its bound and nothing is left to do.              *)
Finished ==
  /\ now = MaxTime
  /\ stopping
  /\ sweeper = "ended"
  /\ \A r \in Requests : pc[r] \in {"admitted", "rejected"}
  /\ UNCHANGED vars

Next ==
  \/ \E r \in Requests : GetVisitor(r) \/ Allow(r)
  \/ Tick
  \/ Sweep
  \/ Shutdown
  \/ Finished

(* Goroutines run, the mutex starves nobody (sync.Mutex hands itself over  *)
(* to a waiter of more than a millisecond), and time goes on.              *)
Fairness ==
  /\ \A r \in Requests : SF_vars(GetVisitor(r)) /\ WF_vars(Allow(r))
  /\ WF_vars(Sweep)
  /\ WF_vars(Tick)

Spec == Init /\ [][Next]_vars /\ Fairness
-------------------------------------------------------------------------------
(***************************************************************************)
(* Properties.                                                             *)
(***************************************************************************)

Decided == {r \in Requests : pc[r] \in {"admitted", "rejected"}}

Admitted == {r \in Requests : pc[r] = "admitted"}

(* The requests of a client admitted from time s to time t.                *)
AdmittedIn(ip, s, t) ==
  {r \in Admitted : ClientIP(r) = ip /\ asked[r] \in s..t}

Stragglers == {r \in Requests : straggler[r]}

(* An entry that has been idle for Cleanup holds a full bucket.            *)
RefillsInTime == Burst <= Rate * (Cleanup - MaxHold)

(* However often the sweeper forgets a client and the client comes back    *)
(* with a fresh bucket: in no window of time do more of its requests pass  *)
(* than a single bucket would have let through, stragglers set aside       *)
(* (getVisitor and cleanupVisitors).                                       *)
AdmittedWithinRate ==
  RefillsInTime =>
    \A ip \in Addresses : \A s \in 0..now : \A t \in s..now :
      Cardinality(AdmittedIn(ip, s, t) \ Stragglers) <= Burst + Rate * (t - s)

(* A request is turned away only when its own client had used up, in some  *)
(* window ending now, all that one bucket grants: no other client's        *)
(* requests and no sweep ever cost a client a token.                       *)
RejectedOnlyWhenSpent ==
  \A r \in Decided \ Admitted :
    \E s \in 0..asked[r] :
      Cardinality(AdmittedIn(ClientIP(r), s, asked[r]))
        >= Burst + Rate * (asked[r] - s)

(* Every request gets its turn, whatever the sweeper does, and Shutdown    *)
(* ends the sweeper, whatever the requests do: they share one mutex.       *)
AlwaysDecided ==
  /\ \A r \in Requests : pc[r] = "wait" ~> r \in Decided
  /\ stopping ~> sweeper = "ended"

(* The map does not grow for ever: a client that stays away is forgotten   *)
(* by the second tick after its last visit, unless the limiter is stopped. *)
IdleForgotten ==
  \A ip \in Addresses : \A t \in Times :
    t + 2 * Cleanup <= MaxTime =>
      (visitors[ip] # NoBucket /\ lastSeen[ip] = t)
        ~> (visitors[ip] = NoBucket \/ lastSeen[ip] # t \/ stopping)

(***************************************************************************)
(* The abstract limiter.                                                   *)
(***************************************************************************)

(* The client's entry, unless the sweeper is about to delete it.           *)
HasEntry(ip) == visitors[ip] # NoBucket /\ doomed # ip

(* The tokens the client can count on: those of its bucket, or those of    *)
(* the full one it gets when it comes back.                                *)
Available(ip) == IF HasEntry(ip) THEN Level(visitors[ip], now) ELSE Burst

(* None of its requests has straggled, and being idle is being full.       *)
Regular(ip) == RefillsInTime /\ \A r \in Stragglers : ClientIP(r) # ip

VerdictOn(r) == IF r \in Decided THEN pc[r] ELSE "none"

Limiter == INSTANCE TokenBuckets WITH
  Clients <- Addresses,
  client  <- [r \in Requests |-> ClientIP(r)],
  verdict <- [r \in Requests |-> VerdictOn(r)],
  level   <- [ip \in Addresses |-> IF Regular(ip) THEN Available(ip) ELSE -1]

(* The map, the mutex and the sweeper cannot be told from one bucket per   *)
(* client that is never forgotten: each verdict is that of the client's    *)
(* own tokens, to the token, and only the clock adds any, as long as the   *)
(* client has no stragglers (Middleware, getVisitor, cleanupVisitors).     *)
ImplementsBuckets == Limiter!Spec

(***************************************************************************)
(* What the documentation says and the code does not do.                   *)
(***************************************************************************)

(* api/README.md, "Rate Limiting": "Per-IP rate limiting is enforced", at  *)
(* a rate and with a burst. So in no window do more requests of a client   *)
(* pass than the rate and one burst allow (Middleware).                    *)
BurstPerIP ==
  RefillsInTime =>
    \A ip \in Addresses : \A s \in 0..now : \A t \in s..now :
      Cardinality(AdmittedIn(ip, s, t)) <= Burst + Rate * (t - s)
===============================================================================
