--------------------------- MODULE RateLimiterProofs ---------------------------
(***************************************************************************)
(* Proofs about RateLimiter, for any number of requests and clients, any   *)
(* rate, burst and period: type correctness, that forgetting a client      *)
(* never lets more of its requests through than one bucket would nor costs *)
(* it any, and that the limiter implements TokenBuckets.                   *)
(***************************************************************************)
EXTENDS RateLimiter, FiniteSetTheorems, TLAPS

(* No recorded time lies ahead of the clock.                               *)
NoFutureTimes ==
  /\ \A r \in Requests : since[r] <= now /\ asked[r] <= now
  /\ \A ip \in Addresses : lastSeen[ip] <= now
  /\ \A b \in Buckets : used[b] <= now

(* A bucket serves one client, and was made by a request that is past the  *)
(* map. So no two clients share one, and a new bucket replaces none.       *)
OwnBucket ==
  /\ \A ip \in Addresses : visitors[ip] # NoBucket =>
       ClientIP(visitors[ip]) = ip /\ pc[visitors[ip]] # "wait"
  /\ \A r \in Requests : got[r] # NoBucket =>
       ClientIP(got[r]) = ClientIP(r) /\ pc[got[r]] # "wait"
  /\ \A r \in Requests : pc[r] = "ask" => got[r] # NoBucket

(* The sweeper works under the mutex, on entries that are there.           *)
DoomedEntry ==
  /\ doomed # NoBucket =>
       visitors[doomed] # NoBucket /\ doomed \notin rest /\ ~Unlocked
  /\ ~Unlocked => \A ip \in rest : visitors[ip] # NoBucket

(* The requests of a client that passed, stragglers set aside.             *)
Fresh(ip, s, t) == AdmittedIn(ip, s, t) \ Stragglers

(* A client with an entry was seen after, or not long before, each request *)
(* of it that passed.                                                      *)
SeenLately ==
  \A ip \in Addresses : HasEntry(ip) =>
    /\ \A r \in Fresh(ip, 0, now) : asked[r] <= lastSeen[ip] + MaxHold
    /\ \A r \in Requests :
         pc[r] = "ask" /\ got[r] = visitors[ip] => since[r] <= lastSeen[ip]

(* What has passed in any window up to now, and what is left, make no more *)
(* than the rate and one burst allow. The past keeps its windows.          *)
WithinRate ==
  RefillsInTime =>
    \A ip \in Addresses : \A s \in 0..now :
      Cardinality(Fresh(ip, s, now)) + Available(ip) <= Burst + Rate * (now - s)

IInv ==
  /\ TypeOK
  /\ NoFutureTimes
  /\ OwnBucket
  /\ DoomedEntry
  /\ SeenLately
  /\ WithinRate
  /\ AdmittedWithinRate

-------------------------------------------------------------------------------
(* A bucket never holds a negative number of tokens, nor more than Burst.  *)
LEMMA LevelType ==
  ASSUME TypeOK, NoFutureTimes, NEW b \in Buckets
  PROVE  Level(b, now) \in 0..Burst
<1>1. /\ tokens[b] \in 0..Burst
      /\ now - used[b] \in Nat
      /\ Burst \in Nat /\ Rate \in Nat
  BY RateLimiterAssumption DEF TypeOK, NoFutureTimes, Times, Buckets
<1>2. (now - used[b]) * Rate \in Nat
  BY <1>1
<1> QED
  BY <1>1, <1>2 DEF Level

(* A source names a client.                                                *)
LEMMA ClientIPType ==
  ASSUME TypeOK, NEW r \in Requests
  PROVE  ClientIP(r) \in Addresses
BY RateLimiterAssumption DEF TypeOK, ClientIP

LEMMA InitIInv == Init => IInv
<1> SUFFICES ASSUME Init PROVE IInv
  OBVIOUS
<1>0. /\ 0 \in Times /\ 0 \in 0..Burst /\ Burst \in Nat /\ Rate \in Nat
      /\ IsFiniteSet({})
  BY RateLimiterAssumption, FS_EmptySet DEF Times
<1>1. TypeOK
  BY <1>0 DEF Init, TypeOK, PCs, Buckets
<1>2. NoFutureTimes /\ OwnBucket /\ DoomedEntry
  BY <1>0 DEF Init, NoFutureTimes, OwnBucket, DoomedEntry, Buckets
<1>3. \A ip, s, t : Fresh(ip, s, t) = {} /\ AdmittedIn(ip, s, t) = {}
  BY DEF Init, Fresh, AdmittedIn, Admitted
<1>4. SeenLately
  BY <1>3 DEF Init, SeenLately, HasEntry
<1>5. WithinRate
  <2> SUFFICES ASSUME NEW ip \in Addresses, NEW s \in 0..now
               PROVE  Cardinality(Fresh(ip, s, now)) + Available(ip)
                        <= Burst + Rate * (now - s)
    BY DEF WithinRate
  <2>1. s = 0 /\ now = 0
    BY DEF Init
  <2>2. Available(ip) = Burst
    BY DEF Init, Available, HasEntry
  <2>3. Rate * (now - s) = 0
    BY <1>0, <2>1
  <2>4. Fresh(ip, s, now) = {}
    BY <1>3
  <2>5. Cardinality(Fresh(ip, s, now)) = 0
    BY <2>4, FS_EmptySet
  <2> QED
    BY <1>0, <2>2, <2>3, <2>5
<1>6. AdmittedWithinRate
  <2> SUFFICES ASSUME NEW ip \in Addresses, NEW s \in 0..now, NEW t \in s..now
               PROVE  Cardinality(AdmittedIn(ip, s, t) \ Stragglers)
                        <= Burst + Rate * (t - s)
    BY DEF AdmittedWithinRate
  <2>1. s = 0 /\ t = 0
    BY DEF Init
  <2>2. Rate * (t - s) = 0
    BY <1>0, <2>1
  <2>3. AdmittedIn(ip, s, t) \ Stragglers = {}
    BY <1>3
  <2> QED
    BY <1>0, <2>2, <2>3, FS_EmptySet
<1> QED
  BY <1>1, <1>2, <1>4, <1>5, <1>6 DEF IInv

-------------------------------------------------------------------------------
LEMMA TypeStep == IInv /\ [Next]_vars => TypeOK'
<1> SUFFICES ASSUME IInv, [Next]_vars PROVE TypeOK'
  OBVIOUS
<1> USE DEF requestVars, mapVars, bucketVars, sweepVars, Buckets
<1>0. TypeOK
  BY DEF IInv
<1>1. ASSUME NEW r \in Requests, GetVisitor(r) PROVE TypeOK'
  <2>1. ClientIP(r) \in Addresses /\ Burst \in 0..Burst
    BY <1>0, ClientIPType, RateLimiterAssumption
  <2>2. CASE visitors[ClientIP(r)] # NoBucket
    BY <1>0, <1>1, <2>1, <2>2 DEF GetVisitor, TypeOK, PCs
  <2>3. CASE visitors[ClientIP(r)] = NoBucket
    BY <1>0, <1>1, <2>1, <2>3 DEF GetVisitor, NewBucket, TypeOK, PCs
  <2> QED
    BY <2>2, <2>3
<1>2. ASSUME NEW r \in Requests, Allow(r) PROVE TypeOK'
  <2>1. got[r] \in Buckets
    BY <1>0, <1>2 DEF IInv, OwnBucket, Allow, TypeOK
  <2>2. Level(got[r], now) \in 0..Burst
    BY <1>0, <2>1, LevelType DEF IInv
  <2>3. 0 \in Times /\ Burst \in Nat
    BY RateLimiterAssumption DEF Times
  <2>4. CASE Level(got[r], now) >= 1
    <3>1. Level(got[r], now) - 1 \in 0..Burst
      BY <2>2, <2>3, <2>4
    <3>2. /\ tokens' \in [Buckets -> 0..Burst]
          /\ used' \in [Buckets -> Times]
      BY <1>0, <1>2, <2>4, <3>1 DEF Allow, TypeOK
    <3>3. Straggles(r) \in BOOLEAN
      BY DEF Straggles
    <3> QED
      BY <1>0, <1>2, <2>3, <2>4, <3>2, <3>3 DEF Allow, TypeOK, PCs
  <2>5. CASE ~(Level(got[r], now) >= 1)
    <3>1. Straggles(r) \in BOOLEAN
      BY DEF Straggles
    <3> QED
      BY <1>0, <1>2, <2>3, <2>5, <3>1 DEF Allow, TypeOK, PCs
  <2> QED
    BY <2>4, <2>5
<1>3. CASE Tick
  <2>1. now' \in Times
    BY <1>0, <1>3, RateLimiterAssumption DEF Tick, TypeOK, Times
  <2> QED
    BY <1>0, <1>3, <2>1 DEF Tick, TypeOK
<1>4. CASE SweepBegin
  BY <1>0, <1>4 DEF SweepBegin, Entries, TypeOK
<1>5. ASSUME NEW ip \in Addresses, SweepLook(ip) PROVE TypeOK'
  BY <1>0, <1>5 DEF SweepLook, TypeOK
<1>6. CASE SweepDelete
  <2>1. 0 \in Times
    BY RateLimiterAssumption DEF Times
  <2> QED
    BY <1>0, <1>6, <2>1 DEF SweepDelete, TypeOK
<1>7. CASE SweepEnd \/ SweeperExit \/ Shutdown
  BY <1>0, <1>7 DEF SweepEnd, SweeperExit, Shutdown, TypeOK
<1>8. CASE UNCHANGED vars
  BY <1>0, <1>8 DEF vars, TypeOK
<1> QED
  BY <1>1, <1>2, <1>3, <1>4, <1>5, <1>6, <1>7, <1>8 DEF Next, Sweep, Finished

-------------------------------------------------------------------------------
(* The clock never goes back, and nothing is stamped ahead of it.          *)
LEMMA TimesStep == IInv /\ [Next]_vars => NoFutureTimes'
<1> SUFFICES ASSUME IInv, [Next]_vars PROVE NoFutureTimes'
  OBVIOUS
<1> USE DEF requestVars, mapVars, bucketVars, sweepVars, Buckets
<1>0. TypeOK /\ NoFutureTimes /\ now \in Nat
  BY RateLimiterAssumption DEF IInv, TypeOK, Times
<1>1. ASSUME NEW r \in Requests, GetVisitor(r) PROVE NoFutureTimes'
  BY <1>0, <1>1 DEF GetVisitor, NewBucket, TypeOK, NoFutureTimes, Times
<1>2. ASSUME NEW r \in Requests, Allow(r) PROVE NoFutureTimes'
  BY <1>0, <1>2 DEF Allow, TypeOK, NoFutureTimes, Times
<1>3. CASE Tick
  BY <1>0, <1>3 DEF Tick, TypeOK, NoFutureTimes, Times
<1>4. CASE SweepDelete
  BY <1>0, <1>4 DEF SweepDelete, TypeOK, NoFutureTimes, Times
<1>5. CASE SweepBegin \/ SweepEnd \/ SweeperExit \/ Shutdown
           \/ UNCHANGED vars \/ \E ip \in Addresses : SweepLook(ip)
  BY <1>0, <1>5
  DEF SweepBegin, SweepEnd, SweeperExit, Shutdown, SweepLook, vars, NoFutureTimes
<1> QED
  BY <1>1, <1>2, <1>3, <1>4, <1>5 DEF Next, Sweep, Finished

(* No step makes two clients share a bucket.                               *)
LEMMA BucketStep == IInv /\ [Next]_vars => OwnBucket'
<1> SUFFICES ASSUME IInv, [Next]_vars PROVE OwnBucket'
  OBVIOUS
<1> USE DEF requestVars, mapVars, bucketVars, sweepVars, Buckets
<1>0. TypeOK /\ OwnBucket
  BY DEF IInv
<1>1. ASSUME NEW r \in Requests, GetVisitor(r) PROVE OwnBucket'
  <2>1. ClientIP(r) \in Addresses /\ r # NoBucket
    BY <1>0, ClientIPType, RateLimiterAssumption
  <2>2. /\ pc' = [pc EXCEPT ![r] = "ask"]
        /\ pc \in [Requests -> PCs]
        /\ UNCHANGED source
    BY <1>0, <1>1 DEF GetVisitor, TypeOK
  <2>3. CASE visitors[ClientIP(r)] # NoBucket
    <3>1. /\ UNCHANGED visitors
          /\ got' = [got EXCEPT ![r] = visitors[ClientIP(r)]]
      BY <1>1, <2>3 DEF GetVisitor
    <3>2. /\ ClientIP(visitors[ClientIP(r)]) = ClientIP(r)
          /\ pc[visitors[ClientIP(r)]] # "wait"
      BY <1>0, <2>1, <2>3 DEF OwnBucket
    <3>3. /\ \A ip : ClientIP(ip)' = ClientIP(ip)
          /\ \A q : pc[q] # "wait" => pc'[q] # "wait"
      BY <1>0, <2>2 DEF TypeOK, ClientIP
    <3> QED
      BY <1>0, <2>1, <2>2, <2>3, <3>1, <3>2, <3>3 DEF TypeOK, OwnBucket
  <2>4. CASE visitors[ClientIP(r)] = NoBucket
    <3>1. /\ visitors' = [visitors EXCEPT ![ClientIP(r)] = r]
          /\ got' = [got EXCEPT ![r] = r]
      BY <1>1, <2>4 DEF GetVisitor
    <3>2. /\ \A ip : ClientIP(ip)' = ClientIP(ip)
          /\ \A q : pc[q] # "wait" => pc'[q] # "wait"
          /\ pc'[r] # "wait"
      BY <1>0, <2>2 DEF TypeOK, ClientIP
    <3> QED
      BY <1>0, <2>1, <2>2, <3>1, <3>2 DEF TypeOK, OwnBucket
  <2> QED
    BY <2>3, <2>4
<1>2. ASSUME NEW r \in Requests, Allow(r) PROVE OwnBucket'
  <2>1. /\ pc' = [pc EXCEPT ![r] = pc'[r]]
        /\ pc'[r] \in {"admitted", "rejected"}
        /\ got' = [got EXCEPT ![r] = NoBucket]
        /\ UNCHANGED <<source, visitors>>
    BY <1>0, <1>2 DEF Allow, TypeOK
  <2> QED
    BY <1>0, <2>1 DEF TypeOK, OwnBucket, ClientIP
<1>3. CASE SweepDelete
  <2>1. /\ visitors' = [visitors EXCEPT ![doomed] = NoBucket]
        /\ UNCHANGED <<source, pc, got>>
    BY <1>3 DEF SweepDelete
  <2> QED
    BY <1>0, <2>1 DEF TypeOK, OwnBucket, ClientIP
<1>4. CASE Tick \/ SweepBegin \/ SweepEnd \/ SweeperExit \/ Shutdown
           \/ UNCHANGED vars \/ \E ip \in Addresses : SweepLook(ip)
  <2>1. UNCHANGED <<source, pc, got, visitors>>
    BY <1>4
    DEF Tick, SweepBegin, SweepEnd, SweeperExit, Shutdown, SweepLook, vars
  <2> QED
    BY <1>0, <2>1 DEF OwnBucket, ClientIP
<1> QED
  BY <1>1, <1>2, <1>3, <1>4 DEF Next, Sweep, Finished

(* The sweeper deletes only what is there.                                 *)
LEMMA DoomedStep == IInv /\ [Next]_vars => DoomedEntry'
<1> SUFFICES ASSUME IInv, [Next]_vars PROVE DoomedEntry'
  OBVIOUS
<1> USE DEF requestVars, mapVars, bucketVars, sweepVars, Buckets
<1>0. TypeOK /\ DoomedEntry
  BY DEF IInv
<1>1. ASSUME NEW r \in Requests, GetVisitor(r) PROVE DoomedEntry'
  BY <1>0, <1>1 DEF GetVisitor, DoomedEntry, Unlocked
<1>2. CASE SweepDelete
  <2>1. /\ visitors' = [visitors EXCEPT ![doomed] = NoBucket]
        /\ doomed' = NoBucket
        /\ UNCHANGED <<rest, sweeper>>
    BY <1>2 DEF SweepDelete
  <2>2. doomed \notin rest
    BY <1>0, <1>2 DEF SweepDelete, DoomedEntry
  <2> QED
    BY <1>0, <1>2, <2>1, <2>2 DEF SweepDelete, TypeOK, DoomedEntry, Unlocked
<1>3. ASSUME NEW ip \in Addresses, SweepLook(ip) PROVE DoomedEntry'
  BY <1>0, <1>3 DEF SweepLook, DoomedEntry, Unlocked
<1>4. CASE SweepBegin
  BY <1>0, <1>4 DEF SweepBegin, DoomedEntry, Unlocked, Entries
<1>5. CASE SweepEnd \/ SweeperExit
  BY <1>0, <1>5 DEF SweepEnd, SweepOver, SweeperExit, DoomedEntry, Unlocked
<1>6. CASE Tick \/ Shutdown \/ UNCHANGED vars \/ \E r \in Requests : Allow(r)
  <2>1. UNCHANGED <<visitors, doomed, rest, sweeper>>
    BY <1>6 DEF Tick, Shutdown, vars, Allow
  <2> QED
    BY <1>0, <2>1 DEF DoomedEntry, Unlocked
<1> QED
  BY <1>1, <1>2, <1>3, <1>4, <1>5, <1>6 DEF Next, Sweep, Finished

-------------------------------------------------------------------------------
(* What a request contributes to the windows changes only when it asks.    *)
SameRequests ==
  /\ UNCHANGED <<source, asked, straggler>>
  /\ Admitted' = Admitted

LEMMA FreshFrame ==
  ASSUME SameRequests, NEW ip \in Addresses, NEW s, NEW t
  PROVE  Fresh(ip, s, t)' = Fresh(ip, s, t)
BY DEF SameRequests, Fresh, AdmittedIn, Stragglers, ClientIP

(* The steps that let no request pass.                                     *)
LEMMA SameRequestsStep ==
  ASSUME IInv, [Next]_vars, \A r \in Requests : ~Allow(r)
  PROVE  SameRequests
<1> USE DEF requestVars, mapVars, bucketVars, sweepVars
<1>1. ASSUME NEW r \in Requests, GetVisitor(r) PROVE SameRequests
  BY <1>1 DEF IInv, TypeOK, GetVisitor, SameRequests, Admitted
<1>2. CASE Tick \/ Sweep \/ Shutdown \/ UNCHANGED vars
  <2>1. UNCHANGED <<source, asked, straggler, pc>>
    BY <1>2
    DEF Tick, Sweep, SweepBegin, SweepLook, SweepDelete, SweepEnd, SweeperExit,
        Shutdown, vars
  <2> QED
    BY <2>1 DEF SameRequests, Admitted
<1> QED
  BY <1>1, <1>2 DEF Next, Finished

(* A request that asks now enters the windows that reach up to now, if its *)
(* client still has its bucket; and no other window changes.               *)
LEMMA AllowFresh ==
  ASSUME IInv, NEW r \in Requests, Allow(r),
         NEW ip \in Addresses, NEW s \in 0..now, NEW t \in s..now
  PROVE  /\ Fresh(ip, s, t) \subseteq Requests \ {r}
         /\ \/ Fresh(ip, s, t)' = Fresh(ip, s, t)
            \/ /\ Fresh(ip, s, t)' = Fresh(ip, s, t) \cup {r}
               /\ ip = ClientIP(r) /\ t = now
               /\ HasEntry(ip) /\ visitors[ip] = got[r]
               /\ now - since[r] <= MaxHold
               /\ Level(got[r], now) >= 1
<1>1. /\ pc[r] = "ask" /\ pc'[r] \in {"admitted", "rejected"}
      /\ \A q \in Requests \ {r} :
           pc'[q] = pc[q] /\ asked'[q] = asked[q] /\ straggler'[q] = straggler[q]
      /\ asked'[r] = now
      /\ straggler'[r] = Straggles(r)
      /\ UNCHANGED source
      /\ pc'[r] = "admitted" => Level(got[r], now) >= 1
  BY DEF IInv, TypeOK, Allow
<1>2. Fresh(ip, s, t) \subseteq Requests \ {r}
  BY <1>1 DEF Fresh, AdmittedIn, Admitted
<1>3. \A q \in Requests \ {r} :
        q \in Fresh(ip, s, t)' <=> q \in Fresh(ip, s, t)
  BY <1>1 DEF Fresh, AdmittedIn, Admitted, Stragglers, ClientIP
<1>4. Fresh(ip, s, t)' \subseteq Requests
  BY DEF Fresh, AdmittedIn, Admitted
<1>5. CASE r \notin Fresh(ip, s, t)'
  BY <1>2, <1>3, <1>4, <1>5
<1>6. CASE r \in Fresh(ip, s, t)'
  <2>1. pc'[r] = "admitted" /\ ~Straggles(r) /\ now \in s..t
    BY <1>1, <1>6 DEF Fresh, AdmittedIn, Admitted, Stragglers
  <2>2. ip = ClientIP(r)
    BY <1>1, <1>6 DEF Fresh, AdmittedIn, ClientIP
  <2>3. t = now
    BY <2>1
  <2>4. got[r] # NoBucket
    BY <1>1 DEF IInv, OwnBucket
  <2>5. /\ visitors[ip] = got[r] /\ doomed # ip
        /\ ~(now - since[r] > MaxHold)
    BY <2>1, <2>2 DEF Straggles
  <2>6. now - since[r] <= MaxHold
    BY <2>5, RateLimiterAssumption DEF IInv, TypeOK, Times
  <2> QED
    BY <1>1, <1>2, <1>3, <1>4, <1>6, <2>1, <2>2, <2>3, <2>4, <2>5, <2>6
    DEF HasEntry
<1> QED
  BY <1>2, <1>5, <1>6

(* A client with an entry was seen lately.                                 *)
LEMMA SeenStep == IInv /\ [Next]_vars => SeenLately'
<1> SUFFICES ASSUME IInv, [Next]_vars, NEW ip \in Addresses, HasEntry(ip)'
             PROVE  /\ \A r \in Fresh(ip, 0, now)' :
                         asked'[r] <= lastSeen'[ip] + MaxHold
                    /\ \A r \in Requests :
                         pc'[r] = "ask" /\ got'[r] = visitors'[ip] =>
                           since'[r] <= lastSeen'[ip]
  BY DEF SeenLately
<1> USE DEF requestVars, mapVars, bucketVars, sweepVars, Buckets
<1> DEFINE Goal == /\ \A r \in Fresh(ip, 0, now)' :
                         asked'[r] <= lastSeen'[ip] + MaxHold
                   /\ \A r \in Requests :
                         pc'[r] = "ask" /\ got'[r] = visitors'[ip] =>
                           since'[r] <= lastSeen'[ip]
<1>0. /\ TypeOK /\ NoFutureTimes /\ OwnBucket /\ SeenLately
      /\ now \in Nat /\ MaxHold \in Nat
      /\ \A r \in Requests : asked[r] \in Nat /\ since[r] \in Nat
      /\ \A a \in Addresses : lastSeen[a] \in Nat
  BY RateLimiterAssumption DEF IInv, TypeOK, Times
<1>1. ASSUME NEW r \in Requests, GetVisitor(r) PROVE Goal
  <2>1. SameRequests /\ now' = now
    BY <1>1 DEF IInv, TypeOK, GetVisitor, SameRequests, Admitted
  <2>2. Fresh(ip, 0, now)' = Fresh(ip, 0, now) /\ UNCHANGED asked
    BY <2>1, FreshFrame DEF SameRequests
  <2>3. Fresh(ip, 0, now) \subseteq Requests
    BY DEF Fresh, AdmittedIn, Admitted
  <2>4. /\ lastSeen' = [lastSeen EXCEPT ![ClientIP(r)] = now]
        /\ since' = [since EXCEPT ![r] = now]
        /\ pc' = [pc EXCEPT ![r] = "ask"]
        /\ UNCHANGED doomed
    BY <1>1 DEF GetVisitor
  <2>5. CASE ip = ClientIP(r)
    <3>1. lastSeen'[ip] = now
      BY <1>0, <2>4, <2>5 DEF TypeOK
    <3>2. \A q \in Requests : asked[q] <= now /\ since'[q] <= now
      BY <1>0, <2>4 DEF NoFutureTimes, TypeOK
    <3> QED
      BY <1>0, <2>2, <2>3, <3>1, <3>2
  <2>6. CASE ip # ClientIP(r)
    <3>1. lastSeen'[ip] = lastSeen[ip]
      BY <1>0, <2>4, <2>6 DEF TypeOK
    <3>2. visitors'[ip] = visitors[ip] /\ HasEntry(ip)
      BY <1>0, <1>1, <2>4, <2>6 DEF GetVisitor, TypeOK, HasEntry
    <3>3. got'[r] # visitors[ip]
      <4>1. ClientIP(visitors[ip]) = ip /\ pc[visitors[ip]] # "wait"
        BY <1>0, <3>2 DEF OwnBucket, HasEntry
      <4>2. \/ got'[r] = r /\ pc[r] = "wait"
            \/ ClientIP(got'[r]) = ClientIP(r)
        BY <1>0, <1>1, ClientIPType DEF GetVisitor, TypeOK, OwnBucket
      <4> QED
        BY <2>6, <4>1, <4>2
    <3>4. \A q \in Requests \ {r} :
            pc'[q] = pc[q] /\ got'[q] = got[q] /\ since'[q] = since[q]
      BY <1>0, <1>1 DEF GetVisitor, TypeOK
    <3> QED
      BY <1>0, <2>2, <3>1, <3>2, <3>3, <3>4 DEF SeenLately
  <2> QED
    BY <2>5, <2>6
<1>2. ASSUME NEW r \in Requests, Allow(r) PROVE Goal
  <2>1. /\ UNCHANGED <<now, visitors, lastSeen, doomed>>
        /\ \A q \in Requests \ {r} :
             /\ pc'[q] = pc[q] /\ got'[q] = got[q] /\ since'[q] = since[q]
             /\ asked'[q] = asked[q]
        /\ pc[r] = "ask" /\ pc'[r] # "ask" /\ asked'[r] = now
    BY <1>0, <1>2 DEF Allow, TypeOK
  <2>2. HasEntry(ip) /\ 0 \in 0..now /\ now \in 0..now
    BY <1>0, <2>1 DEF HasEntry
  <2>3. Fresh(ip, 0, now) \subseteq Requests \ {r}
    BY <1>2, <2>2, AllowFresh
  <2>4. ASSUME NEW q \in Fresh(ip, 0, now)'
        PROVE  asked'[q] <= lastSeen'[ip] + MaxHold
    <3>1. CASE q \in Fresh(ip, 0, now)
      BY <1>0, <2>1, <2>2, <2>3, <3>1 DEF SeenLately
    <3>2. CASE q \notin Fresh(ip, 0, now)
      <4>1. q = r /\ visitors[ip] = got[r] /\ now - since[r] <= MaxHold
        BY <1>2, <2>1, <2>2, <2>4, <3>2, AllowFresh
      <4>2. since[r] <= lastSeen[ip]
        BY <1>0, <2>1, <2>2, <4>1 DEF SeenLately
      <4> QED
        BY <1>0, <2>1, <4>1, <4>2
    <3> QED
      BY <3>1, <3>2
  <2> QED
    BY <1>0, <2>1, <2>2, <2>4 DEF SeenLately
<1>3. CASE Tick
  <2>1. /\ SameRequests /\ now' = now + 1
        /\ UNCHANGED <<asked, pc, got, since, visitors, lastSeen, doomed>>
    BY <1>3 DEF Tick, SameRequests, Admitted
  <2>2. Fresh(ip, 0, now)' \subseteq Fresh(ip, 0, now)
    BY <1>0, <2>1
    DEF SameRequests, Fresh, AdmittedIn, Admitted, Stragglers, ClientIP,
        NoFutureTimes
  <2> QED
    BY <1>0, <2>1, <2>2 DEF SeenLately, HasEntry
<1>4. CASE Sweep \/ Shutdown \/ UNCHANGED vars
  <2>1. /\ SameRequests /\ now' = now
        /\ UNCHANGED <<asked, pc, got, since>>
    BY <1>4
    DEF Sweep, SweepBegin, SweepLook, SweepDelete, SweepEnd, SweeperExit,
        Shutdown, vars, SameRequests, Admitted
  <2>2. HasEntry(ip) /\ visitors'[ip] = visitors[ip]
        /\ lastSeen'[ip] = lastSeen[ip]
    BY <1>0, <1>4, RateLimiterAssumption
    DEF Sweep, SweepBegin, SweepLook, SweepDelete, SweepEnd, SweeperExit,
        Shutdown, vars, HasEntry, TypeOK
  <2>3. Fresh(ip, 0, now)' = Fresh(ip, 0, now)
    BY <2>1, FreshFrame
  <2> QED
    BY <1>0, <2>1, <2>2, <2>3 DEF SeenLately
<1> QED
  BY <1>1, <1>2, <1>3, <1>4 DEF Next, Finished

-------------------------------------------------------------------------------
(* Rate times a length of time.                                            *)
LEMMA RateTimes ==
  /\ \A x \in Int : Rate * x \in Int
  /\ \A x, y \in Int : Rate * (x + y) = Rate * x + Rate * y
  /\ \A x, y \in Int : x <= y => Rate * x <= Rate * y
<1>1. Rate \in Nat
  BY RateLimiterAssumption
<1>2. \A x \in Int : Rate * x \in Int
  BY <1>1
<1>3. \A x, y \in Int : Rate * (x + y) = Rate * x + Rate * y
  BY <1>1
<1>4. ASSUME NEW x \in Int, NEW y \in Int, x <= y PROVE Rate * x <= Rate * y
  <2>1. y - x \in Nat
    BY <1>4
  <2>2. Rate * (y - x) \in Nat
    BY <1>1, <2>1
  <2>3. Rate * y = Rate * x + Rate * (y - x)
    BY <1>1, <1>3
  <2> QED
    BY <1>2, <2>2, <2>3
<1> QED
  BY <1>2, <1>3, <1>4

LEMMA FreshCount ==
  ASSUME NEW ip \in Addresses, NEW s, NEW t
  PROVE  /\ IsFiniteSet(Fresh(ip, s, t))
         /\ Cardinality(Fresh(ip, s, t)) \in Nat
<1>1. Fresh(ip, s, t) \subseteq Requests
  BY DEF Fresh, AdmittedIn, Admitted
<1>2. IsFiniteSet(Fresh(ip, s, t))
  BY <1>1, FS_Subset, RateLimiterAssumption
<1> QED
  BY <1>2, FS_CardinalityType

LEMMA AvailableType ==
  ASSUME TypeOK, NoFutureTimes, NEW ip \in Addresses
  PROVE  Available(ip) \in 0..Burst
<1>1. CASE HasEntry(ip)
  <2>1. visitors[ip] \in Buckets
    BY <1>1 DEF HasEntry, TypeOK
  <2> QED
    BY <1>1, <2>1, LevelType DEF Available
<1>2. CASE ~HasEntry(ip)
  BY <1>2, RateLimiterAssumption DEF Available
<1> QED
  BY <1>1, <1>2

(* The client of an entry that the sweeper finds idle is owed a full       *)
(* bucket: nothing passed for so long that its own would be full by now.   *)
LEMMA IdleIsFull ==
  ASSUME IInv, RefillsInTime, NEW ip \in Addresses, HasEntry(ip),
         now - lastSeen[ip] > Cleanup, NEW s \in 0..now
  PROVE  Cardinality(Fresh(ip, s, now)) <= Rate * (now - s)
<1> DEFINE m == lastSeen[ip] + MaxHold
<1>0. /\ now \in Nat /\ lastSeen[ip] \in Nat /\ MaxHold \in Nat
      /\ Cleanup \in Nat /\ Burst \in Nat /\ m \in Nat /\ s \in Nat
      /\ Rate * (now - s) \in Int
  BY RateLimiterAssumption, RateTimes DEF IInv, TypeOK, Times
<1>1. CASE Burst = 0
  <2>1. Available(ip) = 0
    BY <1>1, AvailableType DEF IInv
  <2> QED
    BY <1>0, <1>1, <2>1, FreshCount DEF IInv, WithinRate
<1>2. CASE Burst > 0
  <2>1. Rate * (Cleanup - MaxHold) >= Burst /\ Rate * 0 = 0
    BY <1>0, RateLimiterAssumption DEF RefillsInTime
  <2>2. Cleanup - MaxHold > 0
    <3>1. SUFFICES ASSUME Cleanup - MaxHold <= 0 PROVE FALSE
      BY <1>0
    <3>2. Rate * (Cleanup - MaxHold) <= Rate * 0
      BY <1>0, <3>1, RateTimes
    <3>3. Rate * (Cleanup - MaxHold) \in Int
      BY <1>0, RateTimes
    <3> QED
      BY <1>0, <1>2, <2>1, <3>2, <3>3
  <2>3. m < now /\ Cleanup - MaxHold <= now - m
    BY <1>0, <2>2
  <2>4. \A r \in Fresh(ip, s, now) : asked[r] \in s..now /\ asked[r] <= m
    <3>1. Fresh(ip, s, now) \subseteq Fresh(ip, 0, now)
      BY <1>0 DEF Fresh, AdmittedIn, Admitted
    <3> QED
      BY <3>1 DEF IInv, SeenLately, Fresh, AdmittedIn
  <2>5. CASE s > m
    <3>1. Fresh(ip, s, now) = {}
      BY <1>0, <2>4, <2>5
    <3>2. Rate * 0 <= Rate * (now - s)
      BY <1>0, RateTimes
    <3> QED
      BY <1>0, <2>1, <3>1, <3>2, FS_EmptySet
  <2>6. CASE s <= m
    <3>1. Fresh(ip, s, now) = Fresh(ip, s, m)
      <4>1. Fresh(ip, s, m) \subseteq Fresh(ip, s, now)
        BY <1>0, <2>3 DEF Fresh, AdmittedIn, Admitted
      <4>2. Fresh(ip, s, now) \subseteq Fresh(ip, s, m)
        BY <1>0, <2>4 DEF Fresh, AdmittedIn, Admitted
      <4> QED
        BY <4>1, <4>2
    <3>2. m \in s..now
      BY <1>0, <2>3, <2>6
    <3>3. Cardinality(Fresh(ip, s, m)) <= Burst + Rate * (m - s)
      BY <3>2 DEF IInv, AdmittedWithinRate, Fresh
    <3> HIDE DEF m
    <3>4. Rate * (Cleanup - MaxHold) <= Rate * (now - m)
      BY <1>0, <2>3, RateTimes
    <3>5. Rate * (now - m) + Rate * (m - s) = Rate * (now - s)
      <4>1. (now - m) + (m - s) = now - s
        BY <1>0
      <4> QED
        BY <1>0, <4>1, RateTimes
    <3>6. /\ Rate * (now - m) \in Int /\ Rate * (m - s) \in Int
          /\ Rate * (Cleanup - MaxHold) \in Int
      <4>1. now - m \in Int /\ m - s \in Int /\ Cleanup - MaxHold \in Int
        BY <1>0
      <4> QED
        BY <4>1, RateTimes
    <3> QED
      BY <1>0, <2>1, <3>1, <3>3, <3>4, <3>5, <3>6, FreshCount
  <2> QED
    BY <1>0, <2>5, <2>6
<1> QED
  BY <1>0, <1>1, <1>2

-------------------------------------------------------------------------------
(* What is available to a client in the steps that let no request pass and *)
(* leave the clock alone: no more than before, or a full bucket to a       *)
(* client that was found idle.                                             *)
LEMMA AvailableStep ==
  ASSUME IInv, [Next]_vars, SameRequests, now' = now, NEW ip \in Addresses,
         \A r \in Requests : ~Allow(r)
  PROVE  \/ Available(ip)' = Available(ip)
         \/ /\ Available(ip)' = Burst
            /\ HasEntry(ip) /\ now - lastSeen[ip] > Cleanup
<1> USE DEF requestVars, mapVars, bucketVars, sweepVars, Buckets
<1>0. TypeOK /\ OwnBucket /\ NoFutureTimes /\ DoomedEntry /\ Burst \in Nat
  BY RateLimiterAssumption DEF IInv
<1>1. ASSUME NEW r \in Requests, GetVisitor(r)
      PROVE  Available(ip)' = Available(ip)
  <2>0. ClientIP(r) \in Addresses /\ r # NoBucket
    BY <1>0, ClientIPType, RateLimiterAssumption
  <2>1. CASE visitors[ClientIP(r)] # NoBucket
    <3>1. UNCHANGED <<visitors, doomed, tokens, used, now>>
      BY <1>1, <2>1 DEF GetVisitor
    <3> QED
      BY <3>1 DEF Available, HasEntry, Level
  <2>2. CASE visitors[ClientIP(r)] = NoBucket
    <3>1. /\ visitors' = [visitors EXCEPT ![ClientIP(r)] = r]
          /\ tokens' = [tokens EXCEPT ![r] = Burst]
          /\ used' = [used EXCEPT ![r] = now]
          /\ UNCHANGED <<doomed, now>> /\ Unlocked /\ pc[r] = "wait"
      BY <1>1, <2>2 DEF GetVisitor, NewBucket
    <3>2. doomed = NoBucket
      BY <1>0, <3>1 DEF DoomedEntry
    <3>3. CASE ip = ClientIP(r)
      <4>1. visitors'[ip] = r /\ tokens'[r] = Burst /\ used'[r] = now'
        BY <1>0, <2>0, <3>1, <3>3 DEF TypeOK
      <4>2. HasEntry(ip)' /\ ~HasEntry(ip)
        BY <2>0, <2>2, <3>1, <3>2, <3>3, <4>1, RateLimiterAssumption
        DEF HasEntry
      <4>3. now' \in Nat /\ (now' - now') * Rate = 0
        BY <1>0, <3>1, RateLimiterAssumption DEF TypeOK, Times
      <4>4. Level(r, now)' = Burst
        BY <1>0, <4>1, <4>3 DEF Level
      <4> QED
        BY <4>1, <4>2, <4>4 DEF Available
    <3>4. CASE ip # ClientIP(r)
      <4>1. visitors'[ip] = visitors[ip] /\ HasEntry(ip)' = HasEntry(ip)
        BY <1>0, <2>0, <3>1, <3>4 DEF TypeOK, HasEntry
      <4>2. CASE HasEntry(ip)
        <5>1. visitors[ip] \in Buckets /\ visitors[ip] # r
          BY <1>0, <3>1, <4>2 DEF HasEntry, TypeOK, OwnBucket
        <5>2. /\ tokens'[visitors[ip]] = tokens[visitors[ip]]
              /\ used'[visitors[ip]] = used[visitors[ip]]
          BY <1>0, <3>1, <5>1 DEF TypeOK
        <5> QED
          BY <3>1, <4>1, <4>2, <5>1, <5>2 DEF Available, Level
      <4>3. CASE ~HasEntry(ip)
        BY <4>1, <4>3 DEF Available
      <4> QED
        BY <4>2, <4>3
    <3> QED
      BY <3>3, <3>4
  <2> QED
    BY <2>1, <2>2
<1>2. ASSUME NEW a \in Addresses, SweepLook(a)
      PROVE  \/ Available(ip)' = Available(ip)
             \/ /\ Available(ip)' = Burst
                /\ HasEntry(ip) /\ now - lastSeen[ip] > Cleanup
  <2>1. /\ UNCHANGED <<visitors, tokens, used, now>>
        /\ doomed = NoBucket /\ ~Unlocked /\ a \in rest
        /\ doomed' = IF Forgettable(a) THEN a ELSE NoBucket
    BY <1>2 DEF SweepLook, Unlocked
  <2>2. HasEntry(a) /\ visitors[a] \in Buckets
    BY <1>0, <2>1, RateLimiterAssumption DEF DoomedEntry, HasEntry, TypeOK
  <2>3. CASE ip = a /\ Forgettable(a)
    <3>1. Available(ip)' = Burst
      BY <2>1, <2>3 DEF Available, HasEntry
    <3>2. CASE Level(visitors[ip], now) >= Burst
      BY <1>0, <2>2, <2>3, <3>1, <3>2, LevelType DEF Available
    <3>3. CASE now - lastSeen[ip] > Cleanup
      BY <2>2, <2>3, <3>1, <3>3
    <3> QED
      BY <2>3, <3>2, <3>3 DEF Forgettable
  <2>4. CASE ~(ip = a /\ Forgettable(a))
    <3>1. HasEntry(ip)' = HasEntry(ip)
      BY <2>1, <2>4, RateLimiterAssumption DEF HasEntry
    <3> QED
      BY <2>1, <3>1 DEF Available, Level
  <2> QED
    BY <2>3, <2>4
<1>3. CASE SweepDelete
  <2>1. /\ visitors' = [visitors EXCEPT ![doomed] = NoBucket]
        /\ doomed # NoBucket /\ doomed' = NoBucket
        /\ UNCHANGED <<tokens, used, now>>
    BY <1>3 DEF SweepDelete
  <2>2. HasEntry(ip)' = HasEntry(ip)
    BY <1>0, <2>1, RateLimiterAssumption DEF HasEntry, TypeOK
  <2>3. HasEntry(ip) => visitors'[ip] = visitors[ip]
    BY <1>0, <2>1 DEF HasEntry, TypeOK
  <2> QED
    BY <2>1, <2>2, <2>3 DEF Available, Level
<1>4. CASE SweepBegin \/ SweepEnd \/ SweeperExit \/ Shutdown \/ UNCHANGED vars
  <2>1. UNCHANGED <<visitors, doomed, tokens, used, now>>
    BY <1>4 DEF SweepBegin, SweepEnd, SweeperExit, Shutdown, vars
  <2> QED
    BY <2>1 DEF Available, HasEntry, Level
<1>5. CASE Tick
  BY <1>0, <1>5, RateLimiterAssumption DEF Tick, TypeOK, Times
<1> QED
  BY <1>1, <1>2, <1>3, <1>4, <1>5 DEF Next, Sweep, Finished

(* What is available to a client when one request asks: a token less for   *)
(* the client whose bucket gives one, and the same for the others.         *)
LEMMA AvailableAllow ==
  ASSUME IInv, NEW r \in Requests, Allow(r), NEW ip \in Addresses
  PROVE  /\ Available(ip)' <= Available(ip)
         /\ Available(ip)' =
              IF HasEntry(ip) /\ visitors[ip] = got[r] /\ Level(got[r], now) >= 1
                THEN Available(ip) - 1
                ELSE Available(ip)
<1> USE DEF requestVars, mapVars, bucketVars, sweepVars, Buckets
<1>0. TypeOK /\ OwnBucket /\ NoFutureTimes /\ Burst \in Nat
  BY RateLimiterAssumption DEF IInv
<1>1. /\ UNCHANGED <<visitors, doomed, now>> /\ got[r] \in Buckets
      /\ HasEntry(ip)' = HasEntry(ip)
  BY <1>0 DEF Allow, OwnBucket, TypeOK, HasEntry
<1>2. Available(ip) \in 0..Burst /\ Level(got[r], now) \in 0..Burst
  BY <1>0, <1>1, AvailableType, LevelType
<1>3. CASE ~HasEntry(ip)
  <2>1. Available(ip)' = Available(ip)
    BY <1>1, <1>3 DEF Available
  <2> QED
    BY <1>0, <1>2, <1>3, <2>1
<1>4. CASE HasEntry(ip) /\ visitors[ip] = got[r] /\ Level(got[r], now) >= 1
  <2>1. /\ tokens'[got[r]] = Level(got[r], now) - 1
        /\ used'[got[r]] = now
    BY <1>0, <1>1, <1>4 DEF Allow, TypeOK
  <2>2. now \in Nat /\ (now - now) * Rate = 0
    BY <1>0, RateLimiterAssumption DEF TypeOK, Times
  <2>3. Level(visitors[ip], now)' = Level(visitors[ip], now) - 1
    BY <1>0, <1>1, <1>2, <1>4, <2>1, <2>2 DEF Level
  <2> QED
    BY <1>0, <1>1, <1>2, <1>4, <2>3 DEF Available
<1>5. CASE HasEntry(ip) /\ ~(visitors[ip] = got[r] /\ Level(got[r], now) >= 1)
  <2>1. visitors[ip] \in Buckets
    BY <1>0, <1>5 DEF HasEntry, TypeOK
  <2>2. /\ tokens'[visitors[ip]] = tokens[visitors[ip]]
        /\ used'[visitors[ip]] = used[visitors[ip]]
    BY <1>0, <1>1, <1>5, <2>1 DEF Allow, TypeOK
  <2>3. Available(ip)' = Available(ip)
    BY <1>1, <1>5, <2>2 DEF Available, Level
  <2> QED
    BY <1>0, <1>2, <1>5, <2>3
<1> QED
  BY <1>3, <1>4, <1>5

(* A tick gives each bucket Rate tokens, up to Burst.                      *)
LEMMA AvailableTick ==
  ASSUME IInv, Tick, NEW ip \in Addresses
  PROVE  /\ Available(ip)' \in 0..Burst
         /\ Available(ip)' <= Available(ip) + Rate
         /\ Available(ip)' = IF Available(ip) + Rate > Burst
                               THEN Burst ELSE Available(ip) + Rate
<1>0. /\ TypeOK /\ NoFutureTimes /\ Burst \in Nat /\ Rate \in Nat
      /\ now \in Nat /\ now' = now + 1
      /\ UNCHANGED <<visitors, doomed, tokens, used>>
  BY RateLimiterAssumption
  DEF IInv, Tick, mapVars, bucketVars, sweepVars, TypeOK, Times
<1>1. CASE HasEntry(ip)
  <2> DEFINE b == visitors[ip]
  <2>1. b \in Buckets
    BY <1>0, <1>1 DEF HasEntry, TypeOK
  <2>2. tokens[b] \in Nat /\ used[b] \in Nat /\ used[b] <= now
    BY <1>0, <2>1, RateLimiterAssumption DEF TypeOK, NoFutureTimes, Times
  <2>3. /\ (now - used[b]) * Rate \in Nat
        /\ (now + 1 - used[b]) * Rate = (now - used[b]) * Rate + Rate
    <3>1. now - used[b] \in Nat
      BY <1>0, <2>2
    <3>2. now + 1 - used[b] = (now - used[b]) + 1
      BY <1>0, <2>2
    <3> HIDE DEF b
    <3> QED
      BY <1>0, <3>1, <3>2
  <2> DEFINE Capped(x) == IF x > Burst THEN Burst ELSE x
  <2>4. Available(ip)' = Capped(tokens[b] + (now + 1 - used[b]) * Rate)
    <3>1. HasEntry(ip)' /\ Available(ip)' = Level(visitors[ip], now)'
      BY <1>0, <1>1 DEF HasEntry, Available
    <3>2. /\ tokens'[visitors'[ip]] = tokens[b]
          /\ used'[visitors'[ip]] = used[b]
      BY <1>0
    <3> QED
      BY <1>0, <2>2, <3>1, <3>2 DEF Level
  <2>5. Available(ip) = Capped(tokens[b] + (now - used[b]) * Rate)
    BY <1>0, <1>1 DEF Available, HasEntry, Level
  <2> HIDE DEF b
  <2> QED
    BY <1>0, <2>2, <2>3, <2>4, <2>5
<1>2. CASE ~HasEntry(ip)
  BY <1>0, <1>2 DEF Available, HasEntry
<1> QED
  BY <1>1, <1>2

-------------------------------------------------------------------------------
(* The same of the next state.                                             *)
LEMMA AvailableStepType ==
  TypeOK' /\ NoFutureTimes' => (\A ip \in Addresses : Available(ip) \in 0..Burst)'
<1>1. TypeOK /\ NoFutureTimes => \A ip \in Addresses : Available(ip) \in 0..Burst
  BY AvailableType
<1> QED
  BY <1>1, PTL

LEMMA FreshStepCount ==
  ASSUME NEW ip \in Addresses, NEW s, NEW t
  PROVE  Cardinality(Fresh(ip, s, t)') \in Nat
<1>1. Fresh(ip, s, t)' \subseteq Requests
  BY DEF Fresh, AdmittedIn, Admitted
<1> QED
  BY <1>1, FS_Subset, FS_CardinalityType, RateLimiterAssumption

LEMMA NowStep == IInv /\ [Next]_vars => now' = now \/ now' = now + 1
BY DEF Next, Sweep, GetVisitor, Allow, Tick, SweepBegin, SweepLook, SweepDelete,
       SweepEnd, SweeperExit, Shutdown, Finished, vars

(* What has passed and what is available stay within the rate.             *)
LEMMA WindowStep == IInv /\ [Next]_vars => WithinRate'
<1> SUFFICES ASSUME IInv, [Next]_vars, RefillsInTime,
                    NEW ip \in Addresses, NEW s \in 0..now'
             PROVE  Cardinality(Fresh(ip, s, now)') + Available(ip)'
                      <= Burst + Rate * (now' - s)
  BY DEF WithinRate, RefillsInTime
<1> DEFINE Goal == Cardinality(Fresh(ip, s, now)') + Available(ip)'
                     <= Burst + Rate * (now' - s)
<1>0. /\ TypeOK /\ NoFutureTimes /\ now \in Nat /\ s \in Nat
      /\ Burst \in Nat /\ Rate \in Nat
      /\ Available(ip) \in 0..Burst
      /\ Cardinality(Fresh(ip, s, now)) \in Nat
      /\ Rate * (now - s) \in Int
  <2>1. TypeOK /\ NoFutureTimes /\ now \in Nat
    BY RateLimiterAssumption DEF IInv, TypeOK, Times
  <2>2. TypeOK'
    BY TypeStep
  <2>3. now' \in Nat /\ s \in Nat
    BY <2>2, RateLimiterAssumption DEF TypeOK, Times
  <2>4. now - s \in Int
    BY <2>1, <2>3
  <2> QED
    BY <2>1, <2>3, <2>4, AvailableType, FreshCount, RateTimes,
       RateLimiterAssumption
<1>1. s <= now => Cardinality(Fresh(ip, s, now)) + Available(ip)
                    <= Burst + Rate * (now - s)
  BY <1>0 DEF IInv, WithinRate
<1>2. CASE Tick
  <2>1. /\ SameRequests /\ now' = now + 1
    BY <1>2 DEF Tick, requestVars, SameRequests, Admitted
  <2>2. Available(ip)' \in 0..Burst /\ Available(ip)' <= Available(ip) + Rate
    BY <1>2, AvailableTick
  <2>3. CASE s <= now
    <3>1. Fresh(ip, s, now)' = Fresh(ip, s, now)
      BY <1>0, <2>1
      DEF SameRequests, Fresh, AdmittedIn, Admitted, Stragglers, ClientIP,
          NoFutureTimes, TypeOK, Times
    <3>2. Rate * (now' - s) = Rate * (now - s) + Rate
      <4>1. now' - s = (now - s) + 1 /\ now - s \in Int /\ Rate * 1 = Rate
        BY <1>0, <2>1
      <4> QED
        BY <4>1, RateTimes
    <3>3. /\ Cardinality(Fresh(ip, s, now)') = Cardinality(Fresh(ip, s, now))
          /\ Available(ip)' \in Int /\ Available(ip) \in Int
      BY <1>0, <2>2, <3>1
    <3> QED
      BY <1>0, <1>1, <2>2, <2>3, <3>2, <3>3
  <2>4. CASE s = now + 1
    <3>1. Fresh(ip, s, now)' = {}
      BY <1>0, <2>1, <2>4
      DEF SameRequests, Fresh, AdmittedIn, Admitted, NoFutureTimes, TypeOK, Times
    <3>2. now' - s = 0 /\ Rate * 0 = 0
      BY <1>0, <2>1, <2>4
    <3>3. Cardinality(Fresh(ip, s, now)') = 0
      BY <3>1, FS_EmptySet
    <3> QED
      BY <1>0, <2>2, <3>2, <3>3
  <2> QED
    BY <1>0, <2>1, <2>3, <2>4
<1>3. ASSUME NEW r \in Requests, Allow(r) PROVE Goal
  <2>1. now' = now /\ s <= now /\ s \in 0..now /\ now \in s..now
    BY <1>0, <1>3 DEF Allow
  <2>2. /\ Available(ip)' <= Available(ip)
        /\ HasEntry(ip) /\ visitors[ip] = got[r] /\ Level(got[r], now) >= 1
              => Available(ip)' = Available(ip) - 1
    BY <1>3, AvailableAllow
  <2>3. Available(ip)' \in Int
    BY TypeStep, TimesStep, AvailableStepType
  <2>4. Fresh(ip, s, now) \subseteq Requests \ {r}
    BY <1>3, <2>1, AllowFresh
  <2>5. CASE Fresh(ip, s, now)' = Fresh(ip, s, now)
    BY <1>0, <1>1, <2>1, <2>2, <2>3, <2>5
  <2>6. CASE Fresh(ip, s, now)' # Fresh(ip, s, now)
    <3>1. /\ Fresh(ip, s, now)' = Fresh(ip, s, now) \cup {r}
          /\ Available(ip)' = Available(ip) - 1
      BY <1>3, <2>1, <2>2, <2>6, AllowFresh
    <3>2. Cardinality(Fresh(ip, s, now) \cup {r})
            = Cardinality(Fresh(ip, s, now)) + 1
      BY <2>4, FreshCount, FS_AddElement
    <3> QED
      BY <1>0, <1>1, <2>1, <3>1, <3>2
  <2> QED
    BY <2>5, <2>6
<1>4. CASE ~Tick /\ \A r \in Requests : ~Allow(r)
  <2>1. SameRequests
    BY <1>4, SameRequestsStep
  <2>2. now' = now
    BY <1>4
    DEF Next, Sweep, GetVisitor, SweepBegin, SweepLook, SweepDelete, SweepEnd,
        SweeperExit, Shutdown, Finished, vars
  <2>3. /\ s <= now
        /\ Cardinality(Fresh(ip, s, now)') = Cardinality(Fresh(ip, s, now))
    BY <1>0, <2>1, <2>2, FreshFrame
  <2>4. CASE Available(ip)' = Available(ip)
    BY <1>0, <1>1, <2>2, <2>3, <2>4
  <2>5. CASE Available(ip)' = Burst /\ HasEntry(ip) /\ now - lastSeen[ip] > Cleanup
    <3>1. Cardinality(Fresh(ip, s, now)) <= Rate * (now - s)
      BY <1>0, <2>2, <2>5, IdleIsFull
    <3> QED
      BY <1>0, <2>2, <2>3, <2>5, <3>1
  <2> QED
    BY <1>4, <2>1, <2>2, <2>4, <2>5, AvailableStep
<1> QED
  BY <1>2, <1>3, <1>4

(* So no window, past or present, holds more than it may.                  *)
LEMMA PastStep == IInv /\ [Next]_vars => AdmittedWithinRate'
<1> SUFFICES ASSUME IInv, [Next]_vars, RefillsInTime,
                    NEW ip \in Addresses, NEW s \in 0..now', NEW t \in s..now'
             PROVE  Cardinality(Fresh(ip, s, t)') <= Burst + Rate * (t - s)
  BY DEF AdmittedWithinRate, RefillsInTime, Fresh
<1>0. /\ TypeOK /\ TypeOK' /\ NoFutureTimes /\ NoFutureTimes'
      /\ now \in Nat /\ now' \in Nat /\ s \in Nat /\ t \in Nat
      /\ Burst \in Nat
  BY TypeStep, TimesStep, RateLimiterAssumption DEF IInv, TypeOK, Times
<1>1. CASE t = now'
  <2>1. Cardinality(Fresh(ip, s, now)') + Available(ip)'
          <= Burst + Rate * (now' - s)
    BY WindowStep DEF WithinRate, RefillsInTime
  <2>2. Available(ip)' \in 0..Burst
    BY AvailableStepType, TypeStep, TimesStep
  <2>3. Fresh(ip, s, now)' = Fresh(ip, s, t)'
    BY <1>1 DEF Fresh, AdmittedIn
  <2>4. Cardinality(Fresh(ip, s, t)') \in Nat
    BY FreshStepCount
  <2>5. Rate * (now' - s) \in Int
    BY <1>0, RateTimes
  <2> QED
    BY <1>0, <1>1, <2>1, <2>2, <2>3, <2>4, <2>5
<1>2. CASE t < now'
  <2>1. t <= now /\ s \in 0..now /\ t \in s..now
    BY <1>0, <1>2, NowStep
  <2>2. Fresh(ip, s, t)' = Fresh(ip, s, t)
    <3>1. ASSUME NEW r \in Requests, Allow(r) PROVE Fresh(ip, s, t)' = Fresh(ip, s, t)
      <4>1. now' = now
        BY <3>1 DEF Allow
      <4> QED
        BY <1>0, <1>2, <2>1, <3>1, <4>1, AllowFresh
    <3>2. CASE \A r \in Requests : ~Allow(r)
      BY <3>2, SameRequestsStep, FreshFrame
    <3> QED
      BY <3>1, <3>2
  <2> QED
    BY <2>1, <2>2 DEF IInv, AdmittedWithinRate, Fresh
<1> QED
  BY <1>0, <1>1, <1>2

-------------------------------------------------------------------------------
LEMMA StepIInv == IInv /\ [Next]_vars => IInv'
BY TypeStep, TimesStep, BucketStep, DoomedStep, SeenStep, WindowStep, PastStep
DEF IInv

LEMMA Invariant == Spec => []IInv
BY InitIInv, StepIInv, PTL DEF Spec

(* The limiter keeps its state well typed: no bucket ever holds a negative *)
(* number of tokens or more than Burst.                                    *)
THEOREM TypeCorrect == Spec => []TypeOK
<1>1. IInv => TypeOK
  BY DEF IInv
<1> QED
  BY <1>1, Invariant, PTL

(* For any number of clients and requests, any rate, burst and period of   *)
(* the sweeper that lets an idle bucket fill: forgetting a client lets no  *)
(* more of its requests through, in any window of time, than one bucket    *)
(* would have, stragglers set aside (getVisitor, cleanupVisitors).         *)
THEOREM ForgettingIsSafe == Spec => []AdmittedWithinRate
<1>1. IInv => AdmittedWithinRate
  BY DEF IInv
<1> QED
  BY <1>1, Invariant, PTL
-------------------------------------------------------------------------------
(* What a bucket lacks its own client has taken: since some moment when it *)
(* was full, as many requests of the client have passed.                   *)
Spent(b) ==
  \E s \in 0..used[b] :
    Cardinality(AdmittedIn(ClientIP(b), s, now)) + tokens[b]
      >= Burst + Rate * (used[b] - s)

(* So it is with every bucket in the map or in the hands of a request.     *)
BucketsSpent ==
  /\ \A r \in Requests : got[r] # NoBucket => Spent(got[r])
  /\ \A ip \in Addresses : visitors[ip] # NoBucket => Spent(visitors[ip])

(* Who has passed stays so.                                                *)
LEMMA AdmittedStay ==
  ASSUME IInv, [Next]_vars, NEW ip, NEW s, NEW t \in Int, NEW u \in Int, t <= u
  PROVE  /\ AdmittedIn(ip, s, t) \subseteq AdmittedIn(ip, s, u)'
         /\ Cardinality(AdmittedIn(ip, s, t)) \in Nat
         /\ Cardinality(AdmittedIn(ip, s, u)') \in Nat
         /\ Cardinality(AdmittedIn(ip, s, t)) <= Cardinality(AdmittedIn(ip, s, u)')
<1>1. \A q \in Admitted : q \in Admitted' /\ asked'[q] = asked[q]
  <2>1. ASSUME NEW r \in Requests, Allow(r), NEW q \in Admitted
        PROVE  q \in Admitted' /\ asked'[q] = asked[q]
    BY <2>1 DEF IInv, TypeOK, Allow, Admitted
  <2> QED
    BY <2>1, SameRequestsStep DEF SameRequests
<1>2. UNCHANGED source
  BY SameRequestsStep DEF SameRequests, Allow
<1>3. \A q \in Requests : asked[q] \in Int
  BY RateLimiterAssumption DEF IInv, TypeOK, Times
<1>4. AdmittedIn(ip, s, t) \subseteq AdmittedIn(ip, s, u)'
  BY <1>1, <1>2, <1>3 DEF AdmittedIn, ClientIP, Admitted
<1>5. AdmittedIn(ip, s, t) \subseteq Requests /\ AdmittedIn(ip, s, u)' \subseteq Requests
  BY DEF AdmittedIn, Admitted
<1>6. IsFiniteSet(AdmittedIn(ip, s, t)) /\ IsFiniteSet(AdmittedIn(ip, s, u)')
  BY <1>5, FS_Subset, RateLimiterAssumption
<1> QED
  BY <1>4, <1>6, FS_Subset, FS_CardinalityType

(* A length of time in two parts.                                          *)
LEMMA RateSplit ==
  ASSUME NEW x \in Int, NEW y \in Int, NEW z \in Int
  PROVE  /\ Rate * (x - z) = Rate * (x - y) + Rate * (y - z)
         /\ Rate * (x - y) \in Int /\ Rate * (y - z) \in Int
<1> DEFINE first == x - y
           second == y - z
<1>1. first \in Int /\ second \in Int /\ x - z = first + second
  OBVIOUS
<1> HIDE DEF first, second
<1>2. /\ Rate * (first + second) = Rate * first + Rate * second
      /\ Rate * first \in Int /\ Rate * second \in Int
  BY <1>1, RateTimes
<1> QED
  BY <1>1, <1>2 DEF first, second

(* What a bucket holds and when it was used.                               *)
LEMMA BucketNumbers ==
  ASSUME IInv, NEW b \in Buckets
  PROVE  /\ tokens[b] \in Nat /\ used[b] \in Nat /\ now \in Nat /\ used[b] <= now
         /\ Burst \in Nat /\ Rate \in Nat
         /\ (now - used[b]) * Rate = Rate * (now - used[b])
BY RateLimiterAssumption DEF IInv, TypeOK, NoFutureTimes, Times

(* A bucket that a step does not touch lacks no more than before.          *)
LEMMA SpentKept ==
  ASSUME IInv, [Next]_vars, NEW b \in Buckets, Spent(b),
         tokens'[b] = tokens[b], used'[b] = used[b]
  PROVE  Spent(b)'
<1>1. /\ now' = now \/ now' = now + 1
      /\ tokens[b] \in Nat /\ used[b] \in Nat /\ now \in Nat
  BY NowStep, BucketNumbers
<1>2. ClientIP(b)' = ClientIP(b)
  BY SameRequestsStep DEF SameRequests, Allow, ClientIP
<1>3. PICK s \in 0..used[b] :
        Cardinality(AdmittedIn(ClientIP(b), s, now)) + tokens[b]
          >= Burst + Rate * (used[b] - s)
  BY DEF Spent
<1>4. /\ Cardinality(AdmittedIn(ClientIP(b), s, now)) \in Nat
      /\ Cardinality(AdmittedIn(ClientIP(b), s, now)') \in Nat
      /\ Cardinality(AdmittedIn(ClientIP(b), s, now))
           <= Cardinality(AdmittedIn(ClientIP(b), s, now)')
  <2>1. now \in Int /\ now' \in Int /\ now <= now'
    BY <1>1
  <2> QED
    BY <1>2, <2>1, AdmittedStay
<1>5. Rate * (used[b] - s) \in Int /\ Burst \in Int
  BY <1>1, RateSplit, RateLimiterAssumption
<1>6. Cardinality(AdmittedIn(ClientIP(b), s, now)') + tokens[b]
        >= Burst + Rate * (used[b] - s)
  BY <1>1, <1>3, <1>4, <1>5
<1> QED
  BY <1>2, <1>6 DEF Spent, AdmittedIn

(* A new bucket lacks nothing.                                             *)
LEMMA SpentNew ==
  ASSUME IInv, [Next]_vars, NEW b \in Buckets, tokens'[b] = Burst, used'[b] = now'
  PROVE  Spent(b)'
<1>1. now' \in Nat /\ Rate * (now' - now') = 0 /\ Burst \in Nat
  <2>1. now' \in Nat
    BY TypeStep, RateLimiterAssumption DEF TypeOK, Times
  <2>2. \A n \in Nat : Rate * (n - n) = 0
    BY RateLimiterAssumption
  <2> QED
    BY <2>1, <2>2, RateLimiterAssumption
<1>2. Cardinality(AdmittedIn(ClientIP(b), now, now)') \in Nat
  <2>1. AdmittedIn(ClientIP(b), now, now)' \subseteq Requests
    BY DEF AdmittedIn, Admitted
  <2> QED
    BY <2>1, FS_Subset, FS_CardinalityType, RateLimiterAssumption
<1>3. /\ now' \in 0..used'[b]
      /\ Cardinality(AdmittedIn(ClientIP(b), now, now)') + tokens'[b]
           >= Burst + Rate * (used'[b] - now')
  BY <1>1, <1>2
<1> QED
  BY <1>3 DEF Spent

(* A token that a bucket gives is a request that passes.                   *)
LEMMA SpentTaken ==
  ASSUME IInv, NEW r \in Requests, Allow(r), NEW b \in Buckets, got[r] = b,
         Spent(b), Level(b, now) >= 1
  PROVE  Spent(b)'
<1> DEFINE ip == ClientIP(r)
           level == Level(b, now)
<1>1. /\ pc[r] = "ask" /\ pc'[r] = "admitted" /\ asked'[r] = now
      /\ UNCHANGED <<source, now>>
      /\ tokens'[b] = level - 1 /\ used'[b] = now
  BY DEF IInv, TypeOK, Allow, bucketVars, Buckets
<1>2. ClientIP(b) = ip /\ ClientIP(b)' = ip /\ ClientIP(r)' = ip
  BY <1>1, RateLimiterAssumption DEF IInv, OwnBucket, ClientIP, Buckets
<1>3. /\ tokens[b] \in Nat /\ used[b] \in Nat /\ now \in Nat /\ used[b] <= now
      /\ Burst \in Nat /\ Rate \in Nat /\ level \in 0..Burst
      /\ (now - used[b]) * Rate = Rate * (now - used[b])
  BY BucketNumbers, LevelType DEF IInv
<1> HIDE DEF level
<1>4. ASSUME NEW s \in 0..now
      PROVE  /\ r \in AdmittedIn(ip, s, now)' /\ r \notin AdmittedIn(ip, s, now)
             /\ Cardinality(AdmittedIn(ip, s, now)) \in Nat
             /\ Cardinality(AdmittedIn(ip, s, now)') \in Nat
             /\ Cardinality(AdmittedIn(ip, s, now)')
                  >= Cardinality(AdmittedIn(ip, s, now)) + 1
  <2>1. r \in AdmittedIn(ip, s, now)' /\ r \notin AdmittedIn(ip, s, now)
    BY <1>1, <1>2, <1>3 DEF AdmittedIn, Admitted, ClientIP
  <2>2. AdmittedIn(ip, s, now) \cup {r} \subseteq AdmittedIn(ip, s, now)'
    <3>1. [Next]_vars
      BY DEF Next
    <3> QED
      BY <1>1, <1>3, <2>1, <3>1, AdmittedStay DEF ClientIP
  <2>3. /\ AdmittedIn(ip, s, now) \subseteq Requests
        /\ AdmittedIn(ip, s, now)' \subseteq Requests
    BY DEF AdmittedIn, Admitted
  <2>4. /\ IsFiniteSet(AdmittedIn(ip, s, now))
        /\ IsFiniteSet(AdmittedIn(ip, s, now)')
    BY <2>3, FS_Subset, RateLimiterAssumption
  <2>5. Cardinality(AdmittedIn(ip, s, now) \cup {r})
          = Cardinality(AdmittedIn(ip, s, now)) + 1
    BY <2>1, <2>4, FS_AddElement
  <2>6. Cardinality(AdmittedIn(ip, s, now) \cup {r})
          <= Cardinality(AdmittedIn(ip, s, now)')
    BY <2>2, <2>4, FS_Subset
  <2> QED
    BY <2>1, <2>4, <2>5, <2>6, FS_CardinalityType
<1>5. CASE tokens[b] + (now - used[b]) * Rate > Burst
  <2>1. level = Burst
    BY <1>5 DEF Level, level
  <2>2. now \in 0..now /\ Rate * (now - now) = 0
    BY <1>3
  <2>3. Cardinality(AdmittedIn(ip, now, now)') + tokens'[b]
          >= Burst + Rate * (now - now)
    BY <1>1, <1>3, <1>4, <2>1, <2>2
  <2> QED
    BY <1>1, <1>2, <2>2, <2>3 DEF Spent
<1>6. CASE ~(tokens[b] + (now - used[b]) * Rate > Burst)
  <2>1. level = tokens[b] + (now - used[b]) * Rate
    BY <1>6 DEF Level, level
  <2>2. PICK s \in 0..used[b] :
          Cardinality(AdmittedIn(ip, s, now)) + tokens[b]
            >= Burst + Rate * (used[b] - s)
    BY <1>2 DEF Spent
  <2>3. s \in 0..now /\ s \in Int
    BY <1>3
  <2>4. /\ Rate * (now - s) = Rate * (now - used[b]) + Rate * (used[b] - s)
        /\ Rate * (now - used[b]) \in Int /\ Rate * (used[b] - s) \in Int
    BY <1>3, <2>3, RateSplit
  <2>5. Cardinality(AdmittedIn(ip, s, now)') + tokens'[b]
          >= Burst + Rate * (now - s)
    BY <1>1, <1>3, <1>4, <2>1, <2>2, <2>3, <2>4
  <2> QED
    BY <1>1, <1>2, <2>3, <2>5 DEF Spent
<1> QED
  BY <1>5, <1>6

(* A bucket that gives none has been emptied by its client.                *)
LEMMA SpentOut ==
  ASSUME IInv, NEW b \in Buckets, Spent(b), Level(b, now) < 1
  PROVE  \E s \in 0..now :
           Cardinality(AdmittedIn(ClientIP(b), s, now)) >= Burst + Rate * (now - s)
<1>1. /\ tokens[b] \in Nat /\ used[b] \in Nat /\ now \in Nat /\ used[b] <= now
      /\ Burst \in Nat /\ Rate \in Nat /\ Level(b, now) = 0
      /\ (now - used[b]) * Rate = Rate * (now - used[b])
  <2>1. Level(b, now) \in 0..Burst
    BY LevelType DEF IInv
  <2> QED
    BY <2>1, BucketNumbers
<1>2. \A s : Cardinality(AdmittedIn(ClientIP(b), s, now)) \in Nat
  <2>1. \A s : AdmittedIn(ClientIP(b), s, now) \subseteq Requests
    BY DEF AdmittedIn, Admitted
  <2> QED
    BY <2>1, FS_Subset, FS_CardinalityType, RateLimiterAssumption
<1>3. CASE tokens[b] + (now - used[b]) * Rate > Burst
  <2>1. Burst = 0
    BY <1>1, <1>3 DEF Level
  <2>2. now \in 0..now /\ Rate * (now - now) = 0
    BY <1>1
  <2> QED
    BY <1>2, <2>1, <2>2
<1>4. CASE ~(tokens[b] + (now - used[b]) * Rate > Burst)
  <2>1. tokens[b] + Rate * (now - used[b]) = 0
    BY <1>1, <1>4 DEF Level
  <2>2. PICK s \in 0..used[b] :
          Cardinality(AdmittedIn(ClientIP(b), s, now)) + tokens[b]
            >= Burst + Rate * (used[b] - s)
    BY DEF Spent
  <2>3. s \in 0..now /\ s \in Int
    BY <1>1
  <2>4. /\ Rate * (now - s) = Rate * (now - used[b]) + Rate * (used[b] - s)
        /\ Rate * (now - used[b]) \in Int /\ Rate * (used[b] - s) \in Int
    BY <1>1, <2>3, RateSplit
  <2> QED
    BY <1>1, <1>2, <2>1, <2>2, <2>3, <2>4
<1> QED
  BY <1>3, <1>4

(* Every step leaves the buckets so.                                       *)
LEMMA BucketsSpentStep == IInv /\ BucketsSpent /\ [Next]_vars => BucketsSpent'
<1> SUFFICES ASSUME IInv, BucketsSpent, [Next]_vars PROVE BucketsSpent'
  OBVIOUS
<1> USE DEF requestVars, mapVars, bucketVars, sweepVars, Buckets
<1>0. TypeOK /\ OwnBucket
  BY DEF IInv
<1>1. ASSUME NEW r \in Requests, GetVisitor(r), visitors[ClientIP(r)] # NoBucket
      PROVE  BucketsSpent'
  <2>1. /\ UNCHANGED <<visitors, tokens, used>>
        /\ got' = [got EXCEPT ![r] = visitors[ClientIP(r)]]
        /\ ClientIP(r) \in Addresses
    BY <1>0, <1>1, ClientIPType DEF GetVisitor
  <2>2. \A b \in Buckets : Spent(b) => Spent(b)'
    BY <2>1, SpentKept
  <2> QED
    BY <1>0, <1>1, <2>1, <2>2 DEF BucketsSpent, TypeOK
<1>2. ASSUME NEW r \in Requests, GetVisitor(r), visitors[ClientIP(r)] = NoBucket
      PROVE  BucketsSpent'
  <2>1. /\ visitors' = [visitors EXCEPT ![ClientIP(r)] = r]
        /\ got' = [got EXCEPT ![r] = r]
        /\ tokens' = [tokens EXCEPT ![r] = Burst]
        /\ used' = [used EXCEPT ![r] = now] /\ now' = now
        /\ ClientIP(r) \in Addresses /\ pc[r] = "wait"
    BY <1>0, <1>2, ClientIPType DEF GetVisitor, NewBucket
  <2>2. \A b \in Buckets \ {r} : Spent(b) => Spent(b)'
    BY <1>0, <2>1, SpentKept DEF TypeOK
  <2>3. Spent(r)'
    BY <1>0, <2>1, SpentNew DEF TypeOK
  <2>4. /\ \A q \in Requests : got[q] # r
        /\ \A ip \in Addresses : visitors[ip] # r
    BY <1>0, <2>1, RateLimiterAssumption DEF OwnBucket
  <2> QED
    BY <1>0, <2>1, <2>2, <2>3, <2>4 DEF BucketsSpent, TypeOK
<1>3. ASSUME NEW r \in Requests, Allow(r) PROVE BucketsSpent'
  <2>1. /\ UNCHANGED visitors /\ got' = [got EXCEPT ![r] = NoBucket]
        /\ got[r] \in Requests /\ Spent(got[r])
    BY <1>0, <1>3 DEF Allow, OwnBucket, TypeOK, BucketsSpent
  <2>2. ASSUME NEW b \in Buckets, Spent(b) PROVE Spent(b)'
    <3>1. CASE b = got[r] /\ Level(b, now) >= 1
      BY <1>3, <2>2, <3>1, SpentTaken
    <3>2. CASE ~(b = got[r] /\ Level(b, now) >= 1)
      <4>1. tokens'[b] = tokens[b] /\ used'[b] = used[b]
        BY <1>0, <1>3, <3>2 DEF Allow, TypeOK
      <4> QED
        BY <2>2, <4>1, SpentKept
    <3> QED
      BY <3>1, <3>2
  <2> QED
    BY <1>0, <2>1, <2>2 DEF BucketsSpent, TypeOK
<1>4. CASE Tick \/ Sweep \/ Shutdown \/ UNCHANGED vars
  <2>1. UNCHANGED <<got, tokens, used>>
    BY <1>4
    DEF Tick, Sweep, SweepBegin, SweepLook, SweepDelete, SweepEnd, SweeperExit,
        Shutdown, vars
  <2>2. \A ip \in Addresses : visitors'[ip] \in {visitors[ip], NoBucket}
    BY <1>0, <1>4
    DEF Tick, Sweep, SweepBegin, SweepLook, SweepDelete, SweepEnd, SweeperExit,
        Shutdown, vars, TypeOK
  <2>3. \A b \in Buckets : Spent(b) => Spent(b)'
    BY <2>1, SpentKept
  <2> QED
    BY <1>0, <2>1, <2>2, <2>3 DEF BucketsSpent, TypeOK
<1> QED
  BY <1>1, <1>2, <1>3, <1>4 DEF Next, Finished

(* A refusal has its reason when it is given, and keeps it.                *)
LEMMA RejectedStep ==
  IInv /\ BucketsSpent /\ RejectedOnlyWhenSpent /\ [Next]_vars
    => RejectedOnlyWhenSpent'
<1> SUFFICES ASSUME IInv, BucketsSpent, RejectedOnlyWhenSpent, [Next]_vars,
                    NEW r \in Requests, pc'[r] = "rejected"
             PROVE  \E s \in 0..asked'[r] :
                      Cardinality(AdmittedIn(ClientIP(r), s, asked[r])')
                        >= Burst + Rate * (asked'[r] - s)
  BY DEF RejectedOnlyWhenSpent, Decided, Admitted
<1>0. /\ TypeOK /\ OwnBucket /\ Burst \in Int /\ now \in Nat
      /\ asked[r] \in Nat
      /\ ClientIP(r)' = ClientIP(r)
  BY SameRequestsStep, RateLimiterAssumption
  DEF IInv, TypeOK, Times, SameRequests, Allow, ClientIP
<1>1. ASSUME NEW t \in Nat, asked'[r] = t,
             NEW s \in 0..t,
             Cardinality(AdmittedIn(ClientIP(r), s, t)) >= Burst + Rate * (t - s)
      PROVE  Cardinality(AdmittedIn(ClientIP(r), s, asked[r])')
               >= Burst + Rate * (asked'[r] - s)
  <2>1. /\ Cardinality(AdmittedIn(ClientIP(r), s, t)) \in Nat
        /\ Cardinality(AdmittedIn(ClientIP(r), s, asked[r])') \in Nat
        /\ Cardinality(AdmittedIn(ClientIP(r), s, t))
             <= Cardinality(AdmittedIn(ClientIP(r), s, asked[r])')
    <3>1. t \in Int /\ asked'[r] \in Int /\ t <= asked'[r]
      BY <1>1
    <3> QED
      BY <1>0, <3>1, AdmittedStay
  <2>2. Rate * (t - s) \in Int
    BY RateTimes
  <2> QED
    BY <1>0, <1>1, <2>1, <2>2
<1>2. CASE pc[r] = "rejected" /\ asked'[r] = asked[r]
  <2>1. r \in Decided \ Admitted
    BY <1>2 DEF Decided, Admitted
  <2>2. PICK s \in 0..asked[r] :
          Cardinality(AdmittedIn(ClientIP(r), s, asked[r]))
            >= Burst + Rate * (asked[r] - s)
    BY <2>1 DEF RejectedOnlyWhenSpent
  <2> QED
    BY <1>0, <1>1, <1>2, <2>2
<1>3. CASE Allow(r)
  <2>1. /\ got[r] \in Requests /\ Spent(got[r]) /\ ClientIP(got[r]) = ClientIP(r)
        /\ asked'[r] = now /\ ~(Level(got[r], now) >= 1)
    <3>1. got[r] \in Requests /\ Spent(got[r]) /\ ClientIP(got[r]) = ClientIP(r)
      BY <1>0, <1>3 DEF Allow, OwnBucket, TypeOK, BucketsSpent, Buckets
    <3>2. asked'[r] = now /\ ~(Level(got[r], now) >= 1)
      BY <1>0, <1>3 DEF Allow, TypeOK
    <3> QED
      BY <3>1, <3>2
  <2>2. Level(got[r], now) < 1
    BY <2>1, LevelType, RateLimiterAssumption DEF IInv, Buckets
  <2>3. PICK s \in 0..now :
          Cardinality(AdmittedIn(ClientIP(r), s, now)) >= Burst + Rate * (now - s)
    BY <2>1, <2>2, SpentOut DEF Buckets
  <2> QED
    BY <1>0, <1>1, <2>1, <2>3
<1>4. ASSUME ~Allow(r) PROVE pc[r] = "rejected" /\ asked'[r] = asked[r]
  <2>1. ASSUME NEW q \in Requests, Allow(q)
        PROVE  pc[r] = "rejected" /\ asked'[r] = asked[r]
    BY <1>0, <1>4, <2>1 DEF Allow, TypeOK
  <2>2. ASSUME \A q \in Requests : ~Allow(q)
        PROVE  pc[r] = "rejected" /\ asked'[r] = asked[r]
    <3>1. asked'[r] = asked[r]
      BY <2>2, SameRequestsStep DEF SameRequests
    <3>2. pc[r] = "rejected"
      BY <1>0, <2>2
      DEF Next, GetVisitor, Tick, Sweep, SweepBegin, SweepLook, SweepDelete,
          SweepEnd, SweeperExit, Shutdown, Finished, vars, requestVars, TypeOK
    <3> QED
      BY <3>1, <3>2
  <2> QED
    BY <2>1, <2>2
<1> QED
  BY <1>2, <1>3, <1>4

(* For any number of clients and requests, any rate and burst, whatever    *)
(* the sweeper forgets: a client is refused only when its own requests     *)
(* have used up, in some window, all that one bucket grants (getVisitor,   *)
(* limiter.Allow).                                                         *)
THEOREM RefusedOnlyWhenSpent == Spec => []RejectedOnlyWhenSpent
<1>1. Init => BucketsSpent /\ RejectedOnlyWhenSpent
  BY DEF Init, BucketsSpent, RejectedOnlyWhenSpent, Decided
<1> QED
  BY <1>1, BucketsSpentStep, RejectedStep, Invariant, PTL DEF Spec
-------------------------------------------------------------------------------
(* The limiter implements TokenBuckets. What a client can count on changes *)
(* as its one bucket does; only that the sweeper takes an idle entry for a *)
(* full one needs an invariant: unless a straggler was there, the bucket   *)
(* was last used soon after the client's last visit.                       *)
UsedLately ==
  \A ip \in Addresses : HasEntry(ip) /\ Regular(ip) =>
    used[visitors[ip]] <= lastSeen[ip] + MaxHold

StragglersDecided == Stragglers \subseteq Decided

LimiterInv == IInv /\ UsedLately /\ StragglersDecided

LEMMA StragglersStep == LimiterInv /\ [Next]_vars => StragglersDecided'
<1> SUFFICES ASSUME LimiterInv, [Next]_vars, NEW q \in Requests, straggler'[q]
             PROVE  pc'[q] \in {"admitted", "rejected"}
  BY DEF StragglersDecided, Stragglers, Decided
<1>0. TypeOK /\ (straggler[q] => pc[q] \in {"admitted", "rejected"})
  BY DEF LimiterInv, IInv, StragglersDecided, Stragglers, Decided
<1>1. ASSUME NEW r \in Requests, GetVisitor(r)
      PROVE  pc'[q] \in {"admitted", "rejected"}
  BY <1>0, <1>1 DEF GetVisitor, TypeOK
<1>2. ASSUME NEW r \in Requests, Allow(r)
      PROVE  pc'[q] \in {"admitted", "rejected"}
  BY <1>0, <1>2 DEF Allow, TypeOK
<1>3. CASE Tick \/ Sweep \/ Shutdown \/ UNCHANGED vars
  <2>1. UNCHANGED <<straggler, pc>>
    BY <1>3
    DEF Tick, Sweep, SweepBegin, SweepLook, SweepDelete, SweepEnd, SweeperExit,
        Shutdown, vars, requestVars
  <2> QED
    BY <1>0, <2>1
<1> QED
  BY <1>1, <1>2, <1>3 DEF Next, Finished

(* Whose client has no stragglers now had none before.                     *)
LEMMA RegularBefore ==
  ASSUME LimiterInv, [Next]_vars, NEW ip, Regular(ip)'
  PROVE  Regular(ip)
<1>0. TypeOK /\ StragglersDecided
  BY DEF LimiterInv, IInv
<1>1. Stragglers \subseteq Stragglers' /\ UNCHANGED source
  <2>1. CASE \A r \in Requests : ~Allow(r)
    BY <2>1, SameRequestsStep DEF LimiterInv, SameRequests, Stragglers
  <2>2. ASSUME NEW r \in Requests, Allow(r)
        PROVE  Stragglers \subseteq Stragglers' /\ UNCHANGED source
    BY <1>0, <2>2 DEF Allow, TypeOK, Stragglers, StragglersDecided, Decided
  <2> QED
    BY <2>1, <2>2
<1> QED
  BY <1>1 DEF Regular, ClientIP, RefillsInTime

LEMMA UsedStep == LimiterInv /\ [Next]_vars => UsedLately'
<1> SUFFICES ASSUME LimiterInv, [Next]_vars, NEW ip \in Addresses,
                    HasEntry(ip)', Regular(ip)'
             PROVE  used'[visitors'[ip]] <= lastSeen'[ip] + MaxHold
  BY DEF UsedLately
<1> USE DEF requestVars, mapVars, bucketVars, sweepVars, Buckets
<1>0. /\ TypeOK /\ NoFutureTimes /\ OwnBucket /\ SeenLately /\ DoomedEntry
      /\ now \in Nat /\ MaxHold \in Nat
      /\ \A r \in Requests : since[r] \in Nat /\ used[r] \in Nat
      /\ \A a \in Addresses : lastSeen[a] \in Nat
  BY RateLimiterAssumption DEF LimiterInv, IInv, TypeOK, Times
<1>1. HasEntry(ip) => used[visitors[ip]] <= lastSeen[ip] + MaxHold
  BY RegularBefore DEF LimiterInv, UsedLately
<1>2. ASSUME NEW r \in Requests, GetVisitor(r), visitors[ClientIP(r)] # NoBucket
      PROVE  used'[visitors'[ip]] <= lastSeen'[ip] + MaxHold
  <2>1. /\ UNCHANGED <<visitors, used, doomed>>
        /\ lastSeen' = [lastSeen EXCEPT ![ClientIP(r)] = now]
    BY <1>2 DEF GetVisitor
  <2>2. HasEntry(ip) /\ visitors[ip] \in Requests
    BY <1>0, <2>1 DEF HasEntry, TypeOK
  <2>3. lastSeen[ip] <= lastSeen'[ip] /\ lastSeen'[ip] \in Nat
    BY <1>0, <2>1 DEF NoFutureTimes, TypeOK
  <2> QED
    BY <1>0, <1>1, <2>1, <2>2, <2>3
<1>3. ASSUME NEW r \in Requests, GetVisitor(r), visitors[ClientIP(r)] = NoBucket
      PROVE  used'[visitors'[ip]] <= lastSeen'[ip] + MaxHold
  <2>1. /\ visitors' = [visitors EXCEPT ![ClientIP(r)] = r]
        /\ used' = [used EXCEPT ![r] = now]
        /\ lastSeen' = [lastSeen EXCEPT ![ClientIP(r)] = now]
        /\ UNCHANGED doomed /\ pc[r] = "wait"
    BY <1>3 DEF GetVisitor, NewBucket
  <2>2. CASE ip = ClientIP(r)
    BY <1>0, <2>1, <2>2 DEF TypeOK
  <2>3. CASE ip # ClientIP(r)
    <3>1. /\ visitors'[ip] = visitors[ip] /\ lastSeen'[ip] = lastSeen[ip]
          /\ HasEntry(ip)
      BY <1>0, <2>1, <2>3 DEF TypeOK, HasEntry
    <3>2. visitors[ip] \in Requests /\ visitors[ip] # r
      BY <1>0, <2>1, <3>1 DEF HasEntry, TypeOK, OwnBucket
    <3>3. used'[visitors[ip]] = used[visitors[ip]]
      BY <1>0, <2>1, <3>2 DEF TypeOK
    <3> QED
      BY <1>1, <3>1, <3>3
  <2> QED
    BY <2>2, <2>3
<1>4. ASSUME NEW r \in Requests, Allow(r)
      PROVE  used'[visitors'[ip]] <= lastSeen'[ip] + MaxHold
  <2>1. UNCHANGED <<visitors, doomed, lastSeen, now, source>> /\ pc[r] = "ask"
    BY <1>4 DEF Allow
  <2>2. HasEntry(ip) /\ visitors[ip] \in Requests /\ got[r] \in Requests
    BY <1>0, <2>1 DEF HasEntry, TypeOK, OwnBucket
  <2>3. CASE got[r] # visitors[ip]
    <3>1. used'[visitors[ip]] = used[visitors[ip]]
      BY <1>0, <1>4, <2>2, <2>3 DEF Allow, TypeOK
    <3> QED
      BY <1>1, <2>1, <2>2, <3>1
  <2>4. CASE got[r] = visitors[ip]
    <3>1. ClientIP(r) = ip
      BY <1>0, <2>2, <2>4 DEF OwnBucket, HasEntry
    <3>2. ~Straggles(r)
      <4>1. straggler'[r] = Straggles(r) /\ ClientIP(r)' = ClientIP(r)
        BY <1>0, <1>4, <2>1 DEF Allow, TypeOK, ClientIP
      <4> QED
        BY <3>1, <4>1 DEF Regular, Stragglers
    <3>3. now <= since[r] + MaxHold
      BY <1>0, <3>2 DEF Straggles
    <3>4. since[r] <= lastSeen[ip]
      BY <1>0, <2>1, <2>2, <2>4 DEF SeenLately
    <3>5. used'[visitors[ip]] <= now /\ used'[visitors[ip]] \in Nat
      BY <1>0, <1>4, <2>2, <2>4 DEF Allow, TypeOK, NoFutureTimes
    <3> QED
      BY <1>0, <2>1, <3>3, <3>4, <3>5
  <2> QED
    BY <2>3, <2>4
<1>5. ASSUME NEW a \in Addresses, SweepLook(a)
      PROVE  used'[visitors'[ip]] <= lastSeen'[ip] + MaxHold
  <2>1. UNCHANGED <<visitors, used, lastSeen>> /\ doomed = NoBucket
    BY <1>5 DEF SweepLook
  <2>2. HasEntry(ip)
    BY <2>1, RateLimiterAssumption DEF HasEntry
  <2> QED
    BY <1>1, <2>1, <2>2
<1>6. CASE SweepDelete
  <2>1. /\ visitors' = [visitors EXCEPT ![doomed] = NoBucket]
        /\ lastSeen' = [lastSeen EXCEPT ![doomed] = 0]
        /\ doomed # NoBucket /\ UNCHANGED used
    BY <1>6 DEF SweepDelete
  <2>2. visitors'[ip] # NoBucket /\ ip # doomed
    BY <1>0, <2>1 DEF HasEntry, TypeOK
  <2>3. visitors'[ip] = visitors[ip] /\ lastSeen'[ip] = lastSeen[ip] /\ HasEntry(ip)
    BY <1>0, <2>1, <2>2 DEF HasEntry, TypeOK
  <2> QED
    BY <1>1, <2>1, <2>3
<1>7. CASE \/ Tick \/ SweepBegin \/ SweepEnd \/ SweeperExit \/ Shutdown
           \/ UNCHANGED vars
  <2>1. UNCHANGED <<visitors, used, lastSeen, doomed>>
    BY <1>7 DEF Tick, SweepBegin, SweepEnd, SweeperExit, Shutdown, vars
  <2> QED
    BY <1>1, <2>1 DEF HasEntry
<1> QED
  BY <1>2, <1>3, <1>4, <1>5, <1>6, <1>7 DEF Next, Sweep, Finished

LEMMA LimiterInvariant == Spec => []LimiterInv
<1>1. Init => UsedLately /\ StragglersDecided
  BY DEF Init, UsedLately, HasEntry, StragglersDecided, Stragglers
<1>2. LimiterInv /\ [Next]_vars => LimiterInv'
  BY StepIInv, UsedStep, StragglersStep DEF LimiterInv
<1> QED
  BY <1>1, <1>2, InitIInv, PTL DEF Spec, LimiterInv

(* An entry that has been idle for a period has a full bucket.             *)
LEMMA IdleBucketFull ==
  ASSUME LimiterInv, NEW ip \in Addresses, HasEntry(ip), Regular(ip),
         now - lastSeen[ip] > Cleanup
  PROVE  Available(ip) = Burst
<1> DEFINE b == visitors[ip]
<1>1. /\ b \in Buckets /\ used[b] <= lastSeen[ip] + MaxHold
      /\ Burst <= Rate * (Cleanup - MaxHold)
  BY DEF LimiterInv, IInv, TypeOK, HasEntry, UsedLately, Regular, RefillsInTime
<1>2. /\ tokens[b] \in Nat /\ used[b] \in Nat /\ now \in Nat
      /\ Burst \in Nat /\ Rate \in Nat
      /\ (now - used[b]) * Rate = Rate * (now - used[b])
  BY <1>1, BucketNumbers DEF LimiterInv
<1>3. lastSeen[ip] \in Nat /\ Cleanup \in Nat /\ MaxHold \in Nat
  BY RateLimiterAssumption DEF LimiterInv, IInv, TypeOK, Times
<1> HIDE DEF b
<1>4. Cleanup - MaxHold <= now - used[b]
  BY <1>1, <1>2, <1>3
<1> DEFINE tolerated == Cleanup - MaxHold
           idle == now - used[b]
<1>5. tolerated \in Int /\ idle \in Int /\ tolerated <= idle
  BY <1>2, <1>3, <1>4
<1>6. /\ Rate * tolerated \in Int /\ Rate * idle \in Int
      /\ Rate * tolerated <= Rate * idle
  <2> HIDE DEF tolerated, idle
  <2> QED
    BY <1>5, RateTimes
<1> DEFINE refilled == tokens[b] + idle * Rate
<1>7. refilled \in Int /\ refilled >= Burst
  <2>1. Burst <= Rate * tolerated /\ idle * Rate = Rate * idle
    BY <1>1, <1>2
  <2> HIDE DEF tolerated, idle
  <2> QED
    BY <1>2, <1>6, <2>1
<1>8. Level(b, now) = IF refilled > Burst THEN Burst ELSE refilled
  BY DEF Level
<1> HIDE DEF refilled
<1>9. Level(b, now) = Burst
  BY <1>2, <1>7, <1>8
<1> QED
  BY <1>9 DEF Available, b

(* The mapping.                                                            *)
clientBar == [r \in Requests |-> ClientIP(r)]
verdictBar == [r \in Requests |-> VerdictOn(r)]
LevelOf(ip) == IF Regular(ip) THEN Available(ip) ELSE -1
levelBar == [ip \in Addresses |-> LevelOf(ip)]

LEMMA LimiterStarts == Init => Limiter!Init
<1> SUFFICES ASSUME Init PROVE Limiter!Init
  OBVIOUS
<1>1. clientBar \in [Requests -> Addresses]
  BY InitIInv, ClientIPType DEF IInv, clientBar
<1>2. verdictBar = [r \in Requests |-> "none"]
  BY DEF Init, verdictBar, VerdictOn, Decided
<1>3. levelBar \in [Addresses -> {Burst, -1}]
  BY DEF Init, levelBar, LevelOf, Available, HasEntry
<1> QED
  BY <1>1, <1>2, <1>3
  DEF Limiter!Init, Limiter!Unknown, clientBar, verdictBar, levelBar, LevelOf

LEMMA LimiterStutters ==
  ASSUME UNCHANGED <<clientBar, verdictBar, levelBar>>
  PROVE  UNCHANGED Limiter!vars
BY DEF Limiter!vars, clientBar, verdictBar, levelBar, LevelOf

(* A step that leaves clock and requests alone, however the sweeper works. *)
LEMMA QuietStep ==
  ASSUME LimiterInv, [Next]_vars, SameRequests, now' = now,
         \A r \in Requests : ~Allow(r), UNCHANGED verdictBar
  PROVE  UNCHANGED Limiter!vars
<1>1. UNCHANGED clientBar
  BY DEF SameRequests, clientBar, ClientIP
<1>2. ASSUME NEW ip \in Addresses PROVE LevelOf(ip)' = LevelOf(ip)
  <2>1. Regular(ip)' <=> Regular(ip)
    BY DEF SameRequests, Regular, Stragglers, ClientIP, RefillsInTime
  <2>2. CASE ~Regular(ip)
    BY <2>1, <2>2 DEF LevelOf
  <2>3. CASE Regular(ip)
    BY <2>1, <2>3, AvailableStep, IdleBucketFull DEF LevelOf, LimiterInv
  <2> QED
    BY <2>2, <2>3
<1>3. UNCHANGED levelBar
  BY <1>2 DEF levelBar
<1> QED
  BY <1>1, <1>3, LimiterStutters

(* Time passes: every bucket is refilled.                                  *)
LEMMA TickRefills ==
  ASSUME LimiterInv, Tick PROVE Limiter!Refill
<1>1. UNCHANGED <<source, pc, straggler>>
  BY DEF Tick, requestVars
<1>2. UNCHANGED <<clientBar, verdictBar>>
  BY <1>1 DEF clientBar, verdictBar, VerdictOn, Decided, ClientIP
<1>3. ASSUME NEW ip \in Addresses
      PROVE  LevelOf(ip)' = Limiter!Refilled(levelBar[ip])
  <2>1. Regular(ip)' <=> Regular(ip)
    BY <1>1 DEF Regular, Stragglers, ClientIP, RefillsInTime
  <2>2. Available(ip) \in 0..Burst /\ Burst \in Nat /\ Rate \in Nat
    BY AvailableType, RateLimiterAssumption DEF LimiterInv, IInv
  <2>3. levelBar[ip] = LevelOf(ip)
    BY DEF levelBar
  <2>4. CASE ~Regular(ip)
    BY <2>1, <2>3, <2>4 DEF LevelOf, Limiter!Refilled, Limiter!Unknown
  <2>5. CASE Regular(ip)
    <3>1. /\ LevelOf(ip)' = IF Available(ip) + Rate > Burst
                              THEN Burst ELSE Available(ip) + Rate
          /\ levelBar[ip] = Available(ip)
      BY <2>1, <2>3, <2>5, AvailableTick DEF LevelOf, LimiterInv
    <3> QED
      BY <2>2, <3>1 DEF Limiter!Refilled, Limiter!Unknown
  <2> QED
    BY <2>4, <2>5
<1>4. levelBar' = [ip \in Addresses |-> Limiter!Refilled(levelBar[ip])]
  BY <1>3 DEF levelBar
<1> QED
  BY <1>2, <1>4
  DEF Limiter!Refill, Limiter!Refilled, Limiter!Unknown, clientBar, verdictBar,
      levelBar, LevelOf

(* A request asks: the verdict is on it alone, the price its client's.     *)
LEMMA AllowDecides ==
  ASSUME LimiterInv, NEW r \in Requests, Allow(r)
  PROVE  /\ UNCHANGED clientBar
         /\ verdictBar[r] = "none"
         /\ pc'[r] \in {"admitted", "rejected"}
         /\ verdictBar' = [verdictBar EXCEPT ![r] = pc'[r]]
<1>1. TypeOK /\ pc[r] = "ask" /\ UNCHANGED source
  BY DEF LimiterInv, IInv, Allow
<1>2. pc'[r] \in {"admitted", "rejected"} /\ \A q \in Requests \ {r} : pc'[q] = pc[q]
  BY <1>1 DEF Allow, TypeOK
<1>3. \A q \in Requests : VerdictOn(q)' = IF q = r THEN pc'[r] ELSE VerdictOn(q)
  BY <1>1, <1>2 DEF VerdictOn, Decided
<1>4. verdictBar' = [verdictBar EXCEPT ![r] = pc'[r]]
  BY <1>3 DEF verdictBar
<1> QED
  BY <1>1, <1>2, <1>4 DEF verdictBar, VerdictOn, Decided, clientBar, ClientIP

LEMMA AllowPays ==
  ASSUME LimiterInv, NEW r \in Requests, Allow(r)
  PROVE  LET c == ClientIP(r)
         IN  \/ /\ Straggles(r)
                /\ levelBar' = [levelBar EXCEPT ![c] = -1]
             \/ /\ levelBar[c] = -1
                /\ UNCHANGED levelBar
             \/ /\ pc'[r] = "admitted" /\ levelBar[c] >= 1
                /\ levelBar' = [levelBar EXCEPT ![c] = @ - 1]
             \/ /\ pc'[r] = "rejected" /\ levelBar[c] = 0
                /\ UNCHANGED levelBar
<1>1. /\ TypeOK /\ OwnBucket /\ IInv /\ StragglersDecided
      /\ pc[r] = "ask" /\ UNCHANGED source
  BY DEF LimiterInv, IInv, Allow
<1>c. PICK c \in Addresses : c = ClientIP(r)
  BY <1>1, ClientIPType
<1>b. PICK b \in Buckets : b = got[r] /\ ClientIP(b) = c /\ b # NoBucket
  BY <1>1, <1>c DEF OwnBucket, TypeOK
<1>2. /\ c = ClientIP(r) /\ b = got[r] /\ ClientIP(b) = c /\ b # NoBucket
  BY <1>b, <1>c
<1>3. /\ Stragglers' = IF Straggles(r) THEN Stragglers \cup {r} ELSE Stragglers
      /\ r \notin Stragglers
  BY <1>1 DEF Allow, TypeOK, Stragglers, StragglersDecided, Decided
<1>4. ASSUME NEW ip \in Addresses \ {c} PROVE LevelOf(ip)' = LevelOf(ip)
  <2>1. Regular(ip)' <=> Regular(ip)
    BY <1>1, <1>2, <1>3, <1>4 DEF Regular, ClientIP, RefillsInTime
  <2>2. ~(HasEntry(ip) /\ visitors[ip] = b)
    BY <1>1, <1>2, <1>4 DEF OwnBucket, HasEntry
  <2>3. Available(ip)' = Available(ip)
    BY <1>1, <1>2, <2>2, AvailableAllow
  <2> QED
    BY <2>1, <2>3 DEF LevelOf
<1>5. levelBar' = [levelBar EXCEPT ![c] = LevelOf(c)']
  BY <1>2, <1>4 DEF levelBar
<1>6. levelBar[c] = LevelOf(c)
  BY <1>2 DEF levelBar
<1>7. CASE Straggles(r)
  <2>1. ~Regular(c)'
    BY <1>1, <1>2, <1>3, <1>7 DEF Regular, ClientIP
  <2> QED
    BY <1>2, <1>5, <1>7, <2>1 DEF LevelOf
<1>8. CASE ~Straggles(r)
  <2>1. Regular(c)' <=> Regular(c)
    BY <1>1, <1>2, <1>3, <1>8 DEF Regular, ClientIP, RefillsInTime
  <2>2. HasEntry(c) /\ visitors[c] = b
    BY <1>2, <1>8 DEF Straggles, HasEntry
  <2>3. Available(c) = Level(b, now) /\ Level(b, now) \in 0..Burst
    BY <1>1, <1>2, <2>2, LevelType DEF Available, IInv
  <2>4. CASE ~Regular(c)
    <3>1. LevelOf(c)' = levelBar[c] /\ levelBar[c] = -1
      BY <1>6, <2>1, <2>4 DEF LevelOf
    <3>2. UNCHANGED levelBar
      BY <1>5, <3>1 DEF levelBar
    <3> QED
      BY <1>2, <3>1, <3>2
  <2>5. CASE Regular(c) /\ Level(b, now) >= 1
    <3>1. pc'[r] = "admitted"
      BY <1>1, <1>2, <2>5 DEF Allow, TypeOK
    <3>2. Available(c)' = Available(c) - 1
      BY <1>1, <1>2, <2>2, <2>5, AvailableAllow
    <3>3. levelBar[c] = Level(b, now) /\ LevelOf(c)' = levelBar[c] - 1
      BY <1>6, <2>1, <2>3, <2>5, <3>2 DEF LevelOf
    <3> QED
      BY <1>2, <1>5, <2>5, <3>1, <3>3
  <2>6. CASE Regular(c) /\ ~(Level(b, now) >= 1)
    <3>1. pc'[r] = "rejected" /\ Level(b, now) = 0
      BY <1>1, <1>2, <2>3, <2>6, RateLimiterAssumption DEF Allow, TypeOK
    <3>2. Available(c)' = Available(c)
      BY <1>1, <1>2, <2>2, <2>6, AvailableAllow
    <3>3. levelBar[c] = 0 /\ LevelOf(c)' = levelBar[c]
      BY <1>6, <2>1, <2>3, <2>6, <3>1, <3>2 DEF LevelOf
    <3>4. UNCHANGED levelBar
      BY <1>5, <3>3 DEF levelBar
    <3> QED
      BY <1>2, <3>1, <3>3, <3>4
  <2> QED
    BY <2>4, <2>5, <2>6
<1> QED
  BY <1>2, <1>7, <1>8

LEMMA AllowIsVerdict ==
  ASSUME LimiterInv, NEW r \in Requests, Allow(r)
  PROVE  Limiter!Admit(r) \/ Limiter!Reject(r) \/ Limiter!Stray(r)
<1> DEFINE c == ClientIP(r)
<1>1. /\ UNCHANGED clientBar /\ clientBar[r] = c
      /\ verdictBar[r] = "none" /\ pc'[r] \in {"admitted", "rejected"}
      /\ verdictBar' = [verdictBar EXCEPT ![r] = pc'[r]]
  BY AllowDecides DEF clientBar
<1> USE DEF Limiter!Unknown, clientBar, verdictBar, levelBar, LevelOf
<1> HIDE DEF clientBar, verdictBar, levelBar, c
<1>2. CASE levelBar' = [levelBar EXCEPT ![c] = -1]
  <2>1. Limiter!Stray(r)
    BY <1>1, <1>2 DEF Limiter!Stray, clientBar, verdictBar, levelBar
  <2> QED
    BY <2>1
<1>3. CASE levelBar[c] = -1 /\ UNCHANGED levelBar
  <2>1. Limiter!Admit(r) \/ Limiter!Reject(r)
    BY <1>1, <1>3
    DEF Limiter!Admit, Limiter!Reject, clientBar, verdictBar, levelBar
  <2> QED
    BY <2>1
<1>4. CASE /\ pc'[r] = "admitted" /\ levelBar[c] >= 1
           /\ levelBar' = [levelBar EXCEPT ![c] = @ - 1]
  <2>1. Limiter!Admit(r)
    BY <1>1, <1>4 DEF Limiter!Admit, clientBar, verdictBar, levelBar
  <2> QED
    BY <2>1
<1>5. CASE pc'[r] = "rejected" /\ levelBar[c] = 0 /\ UNCHANGED levelBar
  <2>1. Limiter!Reject(r)
    BY <1>1, <1>5 DEF Limiter!Reject, clientBar, verdictBar, levelBar
  <2> QED
    BY <2>1
<1> QED
  BY <1>2, <1>3, <1>4, <1>5, AllowPays DEF c

LEMMA StepLimits ==
  ASSUME LimiterInv, [Next]_vars
  PROVE  [Limiter!Next]_(Limiter!vars)
<1>1. ASSUME NEW r \in Requests, Allow(r) PROVE Limiter!Next
  BY <1>1, AllowIsVerdict DEF Limiter!Next
<1>2. ASSUME Tick PROVE Limiter!Next
  BY <1>2, TickRefills DEF Limiter!Next
<1>3. ASSUME ~Tick, \A r \in Requests : ~Allow(r)
      PROVE  UNCHANGED Limiter!vars
  <2>1. SameRequests
    BY <1>3, SameRequestsStep DEF LimiterInv
  <2>2. now' = now
    BY <1>3
    DEF Next, Sweep, GetVisitor, SweepBegin, SweepLook, SweepDelete, SweepEnd,
        SweeperExit, Shutdown, Finished, vars
  <2>3. \A q \in Requests : VerdictOn(q)' = VerdictOn(q)
    <3>1. ASSUME NEW r \in Requests, GetVisitor(r), NEW q \in Requests
          PROVE  VerdictOn(q)' = VerdictOn(q)
      BY <3>1 DEF GetVisitor, LimiterInv, IInv, TypeOK, VerdictOn, Decided
    <3>2. CASE \A r \in Requests : ~GetVisitor(r)
      <4>1. UNCHANGED pc
        BY <1>3, <3>2
        DEF Next, Sweep, SweepBegin, SweepLook, SweepDelete, SweepEnd,
            SweeperExit, Shutdown, Finished, vars, requestVars
      <4> QED
        BY <4>1 DEF VerdictOn, Decided
    <3> QED
      BY <3>1, <3>2
  <2>4. UNCHANGED verdictBar
    BY <2>3 DEF verdictBar
  <2> QED
    BY <1>3, <2>1, <2>2, <2>4, QuietStep
<1> QED
  BY <1>1, <1>2, <1>3

(* For any number of clients and requests, any rate, burst and period: the *)
(* map, the mutex and the sweeper implement one bucket per client that is  *)
(* never forgotten (ratelimit.go), which is the limiter that Front has.    *)
THEOREM BucketsAreImplemented == Spec => ImplementsBuckets
BY LimiterStarts, StepLimits, LimiterInvariant, PTL
DEF Spec, ImplementsBuckets, Limiter!Spec
===============================================================================
