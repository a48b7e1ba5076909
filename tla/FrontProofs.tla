------------------------------ MODULE FrontProofs ------------------------------
(***************************************************************************)
(* Proofs about Startup and Front, for any files and environments, any     *)
(* requests and any limits.                                                *)
(***************************************************************************)
EXTENDS Front, FiniteSetTheorems, TLAPS

(* What the phases of the start have made sure of.                         *)
ConfigLoaded ==
  phase \notin {"load", "exit1"} => cfg = Effective /\ Loadable

DevModeChecked ==
  phase \in {"connect", "health", "server", "running"} => DevModeAllowed

TokenTaken ==
  phase \in {"health", "server", "running"} =>
    IF cfg.token # "" THEN held = cfg.token ELSE held = "login" /\ cfg.clientCert

CertificateGood == phase = "running" /\ cfg.tls => left >= -1

StartInv ==
  StartupTypeOK /\ ConfigLoaded /\ DevModeChecked /\ TokenTaken /\ CertificateGood

(* What file and environment say is of the types that Startup declares.    *)
LEMMA SettingType ==
  ASSUME setting \in Settings
  PROVE  file \in FileType /\ env \in EnvType
BY StartupAssumption DEF file, env

(* A limit that a setting leaves alone or overrides is a limit.             *)
LEMMA LimitsAreLimits ==
  ASSUME NEW l \in LimitsType
  PROVE  Limits(l) \in LimitsType
<1> DEFINE rate == OrDefault(l.rate, DefaultRate)
           burst == OrDefault(l.burst, DefaultBurst)
           authRate == IF l.enabled THEN OrDefault(l.authRate, DefaultAuthRate)
                       ELSE l.authRate
           authBurst == IF l.enabled THEN OrDefault(l.authBurst, DefaultAuthBurst)
                        ELSE l.authBurst
<1>1. rate \in Int /\ burst \in Int /\ authRate \in Int /\ authBurst \in Int
  BY StartupAssumption DEF LimitsType, OrDefault
<1>2. Limits(l) = [[[[l EXCEPT !.rate = rate] EXCEPT !.burst = burst]
                      EXCEPT !.authRate = authRate] EXCEPT !.authBurst = authBurst]
  BY DEF Limits, LimitsType
<1> HIDE DEF rate, burst, authRate, authBurst
<1> QED
  BY <1>1, <1>2 DEF LimitsType

(* The token comes from one of the places that the code knows of.           *)
LEMMA TokenSourceType ==
  ASSUME setting \in Settings
  PROVE  TokenSource \in Tokens \ {"login"}
<1>1. file \in FileType /\ env \in EnvType
  BY SettingType
<1>2. file.token \in BOOLEAN /\ env.token \in BOOLEAN
  BY <1>1 DEF FileType, EnvType
<1> QED
  BY <1>2 DEF TokenSource, Tokens

(* Defaults and environment make a configuration of any setting.            *)
LEMMA EffectiveType ==
  ASSUME setting \in Settings
  PROVE  Effective \in ConfigType
<1> DEFINE Flag == BOOLEAN
           Demands == {"none", "if given", "always"}
           Sources == Tokens \ {"login"}
           KeyGens == {"off", "plain", "encrypted"}
           Attrs == {"off", "none", "listed", "invalid"}
<1>1. file \in FileType /\ env \in EnvType
  BY SettingType
<1>2. Demand \in Demands
  BY <1>1 DEF Demand, FileType
<1>3. InternalAuth \in Flag
  BY <1>1 DEF InternalAuth, FileType
<1>4. TokenSource \in Sources
  BY TokenSourceType
<1>5. Limits(file.limits) \in LimitsType
  BY <1>1, LimitsAreLimits DEF FileType
<1>6. /\ file.dev \in Flag
      /\ file.tls \in Flag
      /\ file.clientCert \in Flag
      /\ file.metrics \in Flag
      /\ file.keygen \in KeyGens
      /\ file.attrs \in Attrs
      /\ (file.address \/ env.address) \in Flag
      /\ (file.tokenFile # "none" /\ ~env.token) \in Flag
  BY <1>1 DEF FileType, EnvType
<1>7. ConfigType =
        [dev : Flag, tls : Flag, demand : Demands, internalAuth : Flag,
         limits : LimitsType, address : Flag, token : Sources, tokenFile : Flag,
         clientCert : Flag, keygen : KeyGens, attrs : Attrs, metrics : Flag]
  BY Zenon DEF ConfigType
<1> HIDE DEF Flag, Demands, Sources, KeyGens, Attrs
<1> QED
  BY <1>2, <1>3, <1>4, <1>5, <1>6, <1>7, Zenon DEF Effective

(* What a setting comes to stays as it is.                                 *)
LEMMA SettingKept ==
  ASSUME setting' = setting
  PROVE  /\ file' = file /\ env' = env
         /\ Effective' = Effective
         /\ Loadable' = Loadable
<1>1. file' = file /\ env' = env
  BY DEF file, env
<1>2. Demand' = Demand
  BY <1>1 DEF Demand
<1>3. TokenSource' = TokenSource
  BY <1>1 DEF TokenSource
<1>4. InternalAuth' = InternalAuth
  BY <1>1 DEF InternalAuth
<1>5. Effective' = Effective
  BY <1>1, <1>2, <1>3, <1>4 DEF Effective
<1>6. Loadable' = Loadable
  BY <1>1, <1>5 DEF Loadable, Valid, TokenFileRead
<1> QED
  BY <1>1, <1>5, <1>6

(* Nothing about the start depends on anything but its own variables.      *)
LEMMA StartStutters ==
  ASSUME StartInv, UNCHANGED startupVars
  PROVE  StartInv'
<1>1. /\ setting' = setting /\ phase' = phase /\ cfg' = cfg
      /\ held' = held /\ left' = left
  BY DEF startupVars
<1>2. /\ file' = file /\ env' = env
      /\ Effective' = Effective /\ Loadable' = Loadable
  BY <1>1, SettingKept
<1>3. StartupTypeOK' /\ ConfigLoaded' /\ TokenTaken' /\ CertificateGood'
  BY <1>1, <1>2
  DEF StartInv, StartupTypeOK, ConfigLoaded, TokenTaken, CertificateGood
<1>4. DevModeChecked'
  BY <1>1, <1>2 DEF StartInv, DevModeChecked, DevModeAllowed
<1> QED
  BY <1>3, <1>4 DEF StartInv

(* Before config.Load nothing is promised, so all of it holds.              *)
LEMMA StartInit == StartupAssumption /\ StartupInit => StartInv
BY DEF StartupInit, StartInv, StartupTypeOK, ConfigLoaded, DevModeChecked,
       TokenTaken, CertificateGood, Tokens

(* Hours from 0 on are no less than -1.                                     *)
LEMMA NotYetEnded == \A h \in Int : h >= 0 => h >= -1
OBVIOUS

(* A step of the start keeps what the steps before it made sure of.        *)
LEMMA StartProceeds == StartInv /\ StartupNext => StartInv'
<1> SUFFICES ASSUME StartInv, StartupNext PROVE StartInv'
  OBVIOUS
<1>1. /\ setting \in Settings /\ cfg \in ConfigType \cup {NoConfig} /\ held \in Tokens
      /\ left \in CertHours[setting] /\ left \in Int
      /\ Effective \in ConfigType
  BY StartupAssumption, EffectiveType DEF StartInv, StartupTypeOK
<1>2. setting' = setting /\ left' = left
  BY DEF StartupNext, Load, LoadFails, Check, CheckFails, TakeToken, LogIn,
         ConnectFails, Healthy, HealthFails, NewServer, NewServerFails
<1>3. env' = env /\ Effective' = Effective /\ Loadable' = Loadable
  BY <1>2, SettingKept
<1> USE DEF StartInv, StartupTypeOK, ConfigLoaded, DevModeChecked, TokenTaken,
            CertificateGood
<1>4. CASE Load
  BY <1>1, <1>2, <1>3, <1>4 DEF Load
<1>5. CASE LoadFails \/ CheckFails \/ ConnectFails \/ HealthFails \/ NewServerFails
  BY <1>1, <1>2, <1>5
  DEF LoadFails, CheckFails, ConnectFails, HealthFails, NewServerFails
<1>6. CASE Check
  BY <1>1, <1>2, <1>3, <1>6 DEF Check, DevModeAllowed
<1>7. CASE TakeToken \/ LogIn
  <2>1. /\ cfg' = cfg /\ phase = "connect" /\ phase' = "health"
        /\ cfg = Effective /\ Loadable /\ DevModeAllowed
        /\ IF cfg.token # "" THEN held' = cfg.token ELSE held' = "login" /\ cfg.clientCert
    BY <1>7 DEF TakeToken, LogIn
  <2>2. held' \in Tokens
    BY <1>1, <2>1 DEF ConfigType, Tokens
  <2> QED
    BY <1>1, <1>2, <1>3, <2>1, <2>2 DEF DevModeAllowed
<1>8. CASE Healthy
  BY <1>1, <1>2, <1>3, <1>8 DEF Healthy, DevModeAllowed
<1>9. CASE NewServer
  <2>1. /\ cfg' = cfg /\ held' = held /\ phase = "server" /\ phase' = "running"
        /\ cfg.tls => left >= 0
    BY <1>9 DEF NewServer
  <2>2. StartupTypeOK' /\ ConfigLoaded' /\ TokenTaken'
    BY <1>1, <1>2, <1>3, <2>1
  <2>3. DevModeChecked'
    BY <1>3, <2>1 DEF DevModeAllowed
  <2>4. cfg'.tls => left' >= -1
    BY <1>1, <1>2, <2>1, NotYetEnded, Zenon
  <2> QED
    BY <2>2, <2>3, <2>4
<1> QED
  BY <1>4, <1>5, <1>6, <1>7, <1>8, <1>9 DEF StartupNext

(* A running service gets older, and no older than it may.                 *)
LEMMA StartAges == StartInv /\ Age => StartInv'
<1> SUFFICES ASSUME StartInv, Age PROVE StartInv'
  OBVIOUS
<1>1. /\ setting' = setting /\ phase' = phase /\ cfg' = cfg /\ held' = held
      /\ left' \in CertHours[setting] /\ left' >= -1
  BY DEF Age
<1>2. env' = env /\ Effective' = Effective /\ Loadable' = Loadable
  BY <1>1, SettingKept
<1> QED
  BY <1>1, <1>2
  DEF StartInv, StartupTypeOK, ConfigLoaded, DevModeChecked, TokenTaken,
      CertificateGood, DevModeAllowed

(* Serving requests is no part of the start.                               *)
LEMMA ServingIsNotStarting ==
  ASSUME NEW r \in Requests, Arrive(r) \/ Serve(r)
  PROVE  UNCHANGED startupVars
BY DEF Arrive, Serve, Visit, PassGeneral, Route, PassAuthLimit, CheckMethod,
       Authenticate, TellHealth, Work, ReadChain, ReadSingle, Panic, Record

(* Coming up, ageing and serving keep what the start made sure of.          *)
LEMMA StartStep == StartInv /\ [Next]_vars => StartInv'
<1> SUFFICES ASSUME StartInv, [Next]_vars PROVE StartInv'
  OBVIOUS
<1>1. CASE ComeUp
  BY <1>1, StartProceeds DEF ComeUp, Begin, StartupNext
<1>2. ASSUME NEW r \in Requests, Arrive(r) \/ Serve(r) PROVE StartInv'
  BY <1>2, ServingIsNotStarting, StartStutters
<1>3. CASE Tick \/ \E l \in Limiters, c \in Clients : Forget(l, c)
  BY <1>3, StartStutters DEF Tick, Forget
<1>4. CASE Age
  BY <1>4, StartAges
<1>5. CASE UNCHANGED vars
  BY <1>5, StartStutters DEF vars
<1> QED
  BY <1>1, <1>2, <1>3, <1>4, <1>5 DEF Next, Settled

(* What the invariant of the start says of a service that runs.            *)
LEMMA StartInvGood == StartInv => StartedAsConfigured
<1> SUFFICES ASSUME StartInv, phase = "running" PROVE StartedAsConfigured
  BY DEF StartedAsConfigured
<1>1. /\ file \in FileType /\ env \in EnvType
      /\ cfg = Effective /\ Loadable /\ DevModeAllowed
      /\ IF cfg.token # "" THEN held = cfg.token ELSE held = "login" /\ cfg.clientCert
      /\ cfg.tls => left >= -1
  BY SettingType
  DEF StartInv, StartupTypeOK, ConfigLoaded, DevModeChecked, TokenTaken, CertificateGood
<1>2. /\ cfg.dev = file.dev /\ cfg.tls = file.tls /\ cfg.demand = Demand
      /\ cfg.internalAuth = InternalAuth /\ cfg.keygen = file.keygen
      /\ cfg.token = TokenSource /\ cfg.clientCert = file.clientCert
  BY <1>1 DEF Effective
<1>3. /\ cfg.dev \/ cfg.tls
      /\ cfg.keygen # "plain"
      /\ TokenFileRead => file.tokenFile # "unreadable"
  BY <1>1 DEF Loadable, Valid
<1>4. /\ (file.dev /\ env.confirmed /\ ~env.production) \/ (file.tls /\ left >= -1)
      /\ file.keygen \in {"off", "encrypted"}
  BY <1>1, <1>2, <1>3 DEF FileType, EnvType, DevModeAllowed
<1>5. \/ cfg.internalAuth
      \/ file.internalAuth = "off"
      \/ /\ file.dev /\ env.confirmed /\ ~env.production
         /\ file.internalAuth = "unset"
  BY <1>1, <1>2 DEF InternalAuth, FileType, DevModeAllowed
<1>6. file.tls /\ file.clientCA /\ file.clientAuth = "require" => cfg.demand = "always"
  BY <1>2 DEF Demand
<1>7. /\ held = "env" <=> env.token
      /\ held = "inline" <=> file.token /\ ~env.token
      /\ held = "file" => file.tokenFile = "filled"
      /\ held = "login" => file.clientCert /\ file.tokenFile \in {"none", "blank"}
      /\ held # ""
  BY <1>1, <1>2, <1>3 DEF TokenSource, TokenFileRead, FileType, EnvType
<1> QED
  BY <1>4, <1>5, <1>6, <1>7 DEF StartedAsConfigured

(* A service that runs is what its file and its environment ask for,       *)
(* whatever they say (Load, main, NewClient, New).                         *)
THEOREM StartedRight == Spec => []StartedAsConfigured
<1>1. Init => StartInv
  BY StartupAssumption, StartInit DEF Init
<1> QED
  BY <1>1, StartStep, StartInvGood, PTL DEF Spec

-------------------------------------------------------------------------------
(* What may be ahead of a request: outside the handlers' chain, in it.     *)
Outer == {<<"general", "route">>, <<"route">>}
Inner == {<<"limit", "method", "auth", "work">>, <<"method", "auth", "work">>,
          <<"auth", "method", "work">>, <<"auth", "work">>, <<"method", "work">>,
          <<"method", "chain">>, <<"work">>, <<"chain">>, <<"single">>}
Ways == Outer \cup Inner \cup {<<>>, <<"close">>}

(* The ways within logging: where they begin, and where a stage further is. *)
LEMMA InnerWays ==
  ASSUME NEW w \in Inner
  PROVE  /\ w # <<>> /\ w # <<"close">> /\ w \notin Outer
         /\ w \in Seq(Stages)
         /\ Head(w) \in {"limit", "method", "auth", "work", "chain", "single"}
         /\ Head(w) \in {"limit", "method", "auth"} => Tail(w) \in Inner
<1>1. CASE w = <<"limit", "method", "auth", "work">>
  BY <1>1 DEF Inner, Outer, Stages
<1>2. CASE w = <<"method", "auth", "work">>
  BY <1>2 DEF Inner, Outer, Stages
<1>3. CASE w = <<"auth", "method", "work">>
  BY <1>3 DEF Inner, Outer, Stages
<1>4. CASE w = <<"auth", "work">>
  BY <1>4 DEF Inner, Outer, Stages
<1>5. CASE w = <<"method", "work">>
  BY <1>5 DEF Inner, Outer, Stages
<1>6. CASE w = <<"method", "chain">>
  BY <1>6 DEF Inner, Outer, Stages
<1>7. CASE w = <<"work">>
  BY <1>7 DEF Inner, Outer, Stages
<1>8. CASE w = <<"chain">>
  BY <1>8 DEF Inner, Outer, Stages
<1>9. CASE w = <<"single">>
  BY <1>9 DEF Inner, Outer, Stages
<1> QED
  BY <1>1, <1>2, <1>3, <1>4, <1>5, <1>6, <1>7, <1>8, <1>9 DEF Inner

(* The ways that begin at the general limiter or the mux.                   *)
LEMMA OuterWays ==
  ASSUME NEW w \in Outer
  PROVE  /\ w # <<>> /\ w # <<"close">> /\ w \notin Inner
         /\ w \in Seq(Stages)
         /\ Head(w) \in {"general", "route"}
         /\ Head(w) = "general" => Tail(w) \in Outer
<1>1. CASE w = <<"general", "route">>
  BY <1>1 DEF Inner, Outer, Stages
<1>2. CASE w = <<"route">>
  BY <1>2 DEF Inner, Outer, Stages
<1> QED
  BY <1>1, <1>2 DEF Outer

(* The way back through logging, and the end of every way.                  *)
LEMMA LastWays ==
  /\ <<"close">> # <<>> /\ Head(<<"close">>) = "close" /\ Tail(<<"close">>) = <<>>
  /\ <<>> \notin Inner \cup Outer /\ <<"close">> \notin Inner \cup Outer
  /\ <<>> \in Seq(Stages) /\ <<"close">> \in Seq(Stages)
BY DEF Inner, Outer, Stages

(* The chain of a route lies ahead in the handlers' part, and begins with  *)
(* authentication if the route is guarded.                                 *)
LEMMA ChainFacts ==
  ASSUME NEW p \in Paths
  PROVE  /\ Chain(p) \in Inner
         /\ Guarded(p) => Head(Chain(p)) = "auth"
<1>1. CASE p \in Enrolling
  <2>1. Handler(p) = <<"method", "auth", "work">>
    BY <1>1 DEF Handler, Enrolling
  <2>2. ~Guarded(p)
    BY <1>1 DEF Guarded, Enrolling, Internal
  <2>3. Chain(p) \in {<<"limit">> \o <<"method", "auth", "work">>,
                     <<"method", "auth", "work">>}
    BY <1>1, <2>1, <2>2 DEF Chain
  <2> QED
    BY <2>2, <2>3 DEF Inner
<1>2. CASE p = "cacerts"
  <2>1. p \notin Enrolling /\ ~Guarded(p)
    BY <1>2 DEF Guarded, Enrolling, Internal
  <2>2. Handler(p) = <<"method", "chain">>
    BY <1>2, <2>1 DEF Handler
  <2> QED
    BY <2>1, <2>2 DEF Chain, Inner
<1>3. CASE p \in {"swagger", "metrics"}
  <2>1. p \notin Enrolling
    BY <1>3 DEF Enrolling
  <2>2. Handler(p) = <<"work">>
    BY <1>3, <2>1 DEF Handler
  <2>3. Guarded(p) => Chain(p) = <<"auth", "work">>
    <3>1. Guarded(p) => Chain(p) \in {<<"auth">> \o <<"work">>}
      BY <2>1, <2>2, Zenon DEF Chain
    <3> QED
      BY <3>1
  <2>4. ~Guarded(p) => Chain(p) = <<"work">>
    BY <2>1, <2>2 DEF Chain
  <2> QED
    BY <2>3, <2>4 DEF Inner
<1>4. CASE p \in {"csrattrs", "health", "ready", "deep"}
  <2>1. p \notin Enrolling
    BY <1>4 DEF Enrolling
  <2>2. Handler(p) = <<"method", "work">>
    BY <1>4, <2>1 DEF Handler
  <2>3. Guarded(p) => Chain(p) = <<"auth", "method", "work">>
    <3>1. Guarded(p) => Chain(p) \in {<<"auth">> \o <<"method", "work">>}
      BY <2>1, <2>2, Zenon DEF Chain
    <3> QED
      BY <3>1
  <2>4. ~Guarded(p) => Chain(p) = <<"method", "work">>
    BY <2>1, <2>2 DEF Chain
  <2> QED
    BY <2>3, <2>4 DEF Inner
<1> QED
  BY <1>1, <1>2, <1>3, <1>4 DEF Paths, Internal

-------------------------------------------------------------------------------
(* Nobody has answered r yet.                                              *)
Fresh(r) ==
  /\ line[r] = 0 /\ sent[r] = 0 /\ recorded[r] = 0
  /\ report[r] = NoReport /\ panicked[r] = FALSE

(* The stages ahead of r are those of a way through the chain.             *)
OnItsWay(r) ==
  /\ todo[r] \in Ways
  /\ phase # "running" => req[r] = NoRequest
  /\ req[r] = NoRequest => todo[r] = <<>> /\ creds[r] = "unasked" /\ Fresh(r)
  /\ todo[r] \in Outer \cup Inner => Fresh(r)
  /\ todo[r] \in Inner => Routed(req[r].path)

(* On a guarded route, what follows authentication follows its success.    *)
AuthFollowed(r) ==
  Arrived(r) /\ Guarded(req[r].path) =>
    /\ todo[r] \in Inner => Head(todo[r]) = "auth" \/ creds[r] = "accepted"
    /\ sent[r] \in {200, 503} => creds[r] = "accepted"

(* A report was made by an endpoint of Health, at an hour that may be.     *)
ReportMade(r) ==
  report[r] # NoReport =>
    /\ Arrived(r) /\ req[r].path \in Endpoints
    /\ todo[r] \notin Inner
    /\ sent[r] = StatusCode(req[r].path, report[r].reply, report[r].seconds,
                            cfg.tls, report[r].hours)
    /\ cfg.tls => report[r].hours >= -1

(* An answer passes logging on its way back, which knows the status, or    *)
(* takes what a panic left for 500.                                        *)
AnswerKnown(r) ==
  todo[r] = <<"close">> =>
    /\ Logged(req[r].path) /\ Routed(req[r].path)
    /\ recorded[r] = 0 /\ sent[r] # 0
    /\ line[r] = sent[r] \/ (panicked[r] /\ line[r] = 500)

(* What RecordsTruthful says of one request.                               *)
RecordTruthful(r) ==
  Ended(r) =>
    LET p == req[r].path
    IN  /\ sent[r] = 0 => panicked[r] /\ ~Logged(p)
        /\ recorded[r] \in {0, sent[r], 500}
        /\ recorded[r] \notin {0, sent[r]} => panicked[r]
        /\ recorded[r] = 0 /\ cfg.metrics /\ Logged(p)
             => ~Routed(p) \/ sent[r] = 429
        /\ recorded[r] # 0 => cfg.metrics /\ Logged(p) /\ Routed(p)

RequestOK(r) ==
  OnItsWay(r) /\ AuthFollowed(r) /\ ReportMade(r) /\ AnswerKnown(r) /\ RecordTruthful(r)

(* Of a request that nothing happens to, the same is true as before.       *)
Untouched(r) ==
  /\ req'[r] = req[r] /\ todo'[r] = todo[r] /\ line'[r] = line[r]
  /\ sent'[r] = sent[r] /\ recorded'[r] = recorded[r] /\ creds'[r] = creds[r]
  /\ report'[r] = report[r] /\ panicked'[r] = panicked[r]

(* What no step touches stays as true as it was.                            *)
LEMMA UntouchedOK ==
  ASSUME NEW r \in Requests, RequestOK(r), Untouched(r), phase' = phase, cfg' = cfg
  PROVE  RequestOK(r)'
<1>1. \A p : Guarded(p)' = Guarded(p) /\ Logged(p)' = Logged(p) /\ Routed(p)' = Routed(p)
  BY DEF Guarded, Logged, Routed
<1>2. OnItsWay(r)'
  BY <1>1 DEF RequestOK, OnItsWay, Untouched, Fresh
<1>3. AuthFollowed(r)'
  BY <1>1 DEF RequestOK, AuthFollowed, Untouched, Arrived
<1>4. ReportMade(r)'
  BY <1>1 DEF RequestOK, ReportMade, Untouched, Arrived
<1>5. AnswerKnown(r)' /\ RecordTruthful(r)'
  BY <1>1 DEF RequestOK, AnswerKnown, RecordTruthful, Untouched, Ended, Arrived
<1> QED
  BY <1>2, <1>3, <1>4, <1>5 DEF RequestOK

(* Serving one request touches no other.                                   *)
LEMMA OthersUntouched ==
  ASSUME TypeOK, NEW r \in Requests, NEW q \in Requests, q # r, Arrive(r) \/ Serve(r)
  PROVE  Untouched(q)
<1>1. CASE Arrive(r) \/ Visit(r)
  BY <1>1 DEF Arrive, Visit, TypeOK, Untouched, answerVars
<1>2. CASE PassGeneral(r) \/ PassAuthLimit(r)
  BY <1>2 DEF PassGeneral, PassAuthLimit, GoOn, TurnAway, Answer, TypeOK, Untouched
<1>3. CASE Route(r)
  BY <1>3 DEF Route, TurnAway, TypeOK, Untouched
<1>4. CASE CheckMethod(r) \/ Authenticate(r)
  BY <1>4 DEF CheckMethod, Authenticate, GoOn, Answer, TypeOK, Untouched
<1>5. CASE TellHealth(r)
  BY <1>5 DEF TellHealth, Answer, TypeOK, Untouched
<1>6. CASE Work(r)
  BY <1>6 DEF Work, Answer, TypeOK, Untouched
<1>7. CASE ReadChain(r) \/ ReadSingle(r)
  BY <1>7 DEF ReadChain, ReadSingle, Answer, TypeOK, Untouched
<1>8. CASE Panic(r)
  BY <1>8 DEF Panic, Answer, TypeOK, Untouched
<1>9. CASE Record(r)
  BY <1>9 DEF Record, GoOn, TypeOK, Untouched
<1> QED
  BY <1>1, <1>2, <1>3, <1>4, <1>5, <1>6, <1>7, <1>8, <1>9 DEF Serve

(* An answer is one of the codes, and leads back through logging or out.   *)
LEMMA AnswerType ==
  ASSUME TypeOK, NEW r \in Requests, NEW known \in Codes, NEW code \in Codes,
         Answer(r, known, code)
  PROVE  /\ sent' \in [Requests -> Codes]
         /\ line' \in [Requests -> Codes]
         /\ todo' \in [Requests -> Seq(Stages)]
         /\ todo'[r] = WayBack(req[r].path)
         /\ sent'[r] = code
         /\ line'[r] = IF Logged(req[r].path) THEN known ELSE line[r]
<1>1. WayBack(req[r].path) \in Seq(Stages)
  BY LastWays DEF WayBack
<1> QED
  BY <1>1 DEF Answer, TypeOK

(* Turning a request away keeps types.                                      *)
LEMMA TurnAwayType ==
  ASSUME TypeOK, NEW r \in Requests, NEW code \in Codes, TurnAway(r, code)
  PROVE  /\ sent' \in [Requests -> Codes]
         /\ todo' \in [Requests -> Seq(Stages)]
         /\ todo'[r] = <<>>
         /\ sent'[r] = code
BY LastWays DEF TurnAway, TypeOK

(* So does letting it pass.                                                 *)
LEMMA GoOnType ==
  ASSUME TypeOK, NEW r \in Requests, todo[r] # <<>>, GoOn(r)
  PROVE  /\ todo' \in [Requests -> Seq(Stages)]
         /\ todo'[r] = Tail(todo[r])
BY DEF GoOn, TypeOK

(* A request with stages ahead has arrived at a running service.           *)
LEMMA Ahead ==
  ASSUME TypeOK, StartInv, NEW r \in Requests, OnItsWay(r), todo[r] # <<>>
  PROVE  /\ phase = "running" /\ req[r] # NoRequest /\ req[r] \in RequestType
         /\ req[r].path \in Paths /\ req[r].client \in Clients
         /\ cfg \in ConfigType
         /\ left \in Int /\ (cfg.tls => left >= -1)
<1>1. phase = "running" /\ req[r] \in RequestType /\ req[r] # NoRequest
  BY FrontAssumption DEF OnItsWay, TypeOK
<1>2. cfg \in ConfigType
  BY <1>1, EffectiveType DEF StartInv, StartupTypeOK, ConfigLoaded
<1>3. left \in Int
  BY StartupAssumption DEF StartInv, StartupTypeOK
<1>4. cfg.tls => left >= -1
  BY <1>1 DEF StartInv, CertificateGood
<1> QED
  BY <1>1, <1>2, <1>3, <1>4 DEF RequestType

(* Every verdict of the health endpoints is a status code.                  *)
LEMMA StatusCodes ==
  ASSUME NEW e, NEW reply, NEW seconds, NEW tls, NEW hours
  PROVE  StatusCode(e, reply, seconds, tls, hours) \in {200, 503}
BY DEF StatusCode

(* Every outcome of a handler is a status code.                             *)
LEMMA OutcomeCodes ==
  ASSUME NEW p
  PROVE  Outcomes(p) \subseteq {200, 204, 400, 404, 500, 502}
BY DEF Outcomes

(* Whatever is taken from a bucket, what is left is a level.               *)
LEMMA LevelTaken ==
  ASSUME NEW f \in [Buckets -> Int], NEW b
  PROVE  [f EXCEPT ![b] = @ - 1] \in [Buckets -> Int]
<1> DEFINE g == [x \in Buckets |-> IF x = b THEN f[b] - 1 ELSE f[x]]
<1>1. [f EXCEPT ![b] = @ - 1] = g
  OBVIOUS
<1>2. ASSUME NEW x \in Buckets
      PROVE  (IF x = b THEN f[b] - 1 ELSE f[x]) \in Int
  OBVIOUS
<1>3. g \in [Buckets -> Int]
  BY <1>2
<1> QED
  BY <1>1, <1>3

LEMMA BucketTaken ==
  ASSUME NEW levels \in [Clients -> [Buckets -> Int]], NEW c \in Clients, NEW b,
         NEW next, next = [levels EXCEPT ![c][b] = @ - 1]
  PROVE  next \in [Clients -> [Buckets -> Int]]
<1> DEFINE row == [levels[c] EXCEPT ![b] = @ - 1]
<1>1. row \in [Buckets -> Int]
  BY LevelTaken
<1>2. next = [levels EXCEPT ![c] = row]
  OBVIOUS
<1> HIDE DEF row
<1> QED
  BY <1>1, <1>2

(* Serving keeps every variable within its type.                           *)
LEMMA ServeType ==
  ASSUME TypeOK, StartInv, NEW r \in Requests, OnItsWay(r), Arrive(r) \/ Serve(r)
  PROVE  TypeOK'
<1>1. UNCHANGED startupVars /\ StartupTypeOK'
  BY ServingIsNotStarting DEF TypeOK, startupVars, StartupTypeOK
<1>2. CASE Arrive(r)
  <2>1. PICK q \in Asked[setting] :
          /\ req' = [req EXCEPT ![r] = q]
          /\ todo' = [todo EXCEPT ![r] =
                        IF Limiting THEN <<"general", "route">> ELSE <<"route">>]
    BY <1>2 DEF Arrive
  <2>2. q \in RequestType
    BY FrontAssumption DEF TypeOK, StartupTypeOK
  <2>3. <<"general", "route">> \in Seq(Stages) /\ <<"route">> \in Seq(Stages)
    BY OuterWays DEF Outer
  <2> QED
    BY <1>1, <1>2, <2>1, <2>2, <2>3 DEF Arrive, TypeOK, answerVars, limiterVars
<1>3. CASE Serve(r)
  <2>1. /\ todo[r] # <<>> /\ req[r].path \in Paths /\ req[r].client \in Clients
        /\ left \in Int /\ cfg \in ConfigType
    BY <1>3, Ahead
    DEF Serve, Visit, PassGeneral, Route, PassAuthLimit, CheckMethod, Authenticate,
        TellHealth, Work, ReadChain, ReadSingle, Panic, Record, At
  <2>2. {0, 200, 401, 404, 405, 429, 500} \subseteq Codes
    BY DEF Codes
  <2>3. CASE PassGeneral(r)
    <3>1. todo' \in [Requests -> Seq(Stages)] /\ sent' \in [Requests -> Codes]
      <4>1. (GoOn(r) /\ UNCHANGED sent) \/ TurnAway(r, 429)
        BY <2>3 DEF PassGeneral
      <4> QED
        BY <2>1, <2>2, <4>1, GoOnType, TurnAwayType DEF TypeOK
    <3>2. general' \in [Clients -> [Buckets -> Int]]
      <4>1. \/ general' = [general EXCEPT ![req[r].client][limiter["general"][r]] = @ - 1]
            \/ general' = general
        BY <2>3, Zenon DEF PassGeneral
      <4> QED
        BY <2>1, <4>1, BucketTaken DEF TypeOK
    <3> QED
      BY <1>1, <2>3, <3>1, <3>2 DEF PassGeneral, TypeOK
  <2>4. CASE Route(r)
    <3>1. todo' \in [Requests -> Seq(Stages)] /\ sent' \in [Requests -> Codes]
      <4>1. CASE Routed(req[r].path)
        BY <2>1, <2>4, <4>1, ChainFacts, InnerWays DEF Route, TypeOK
      <4>2. CASE ~Routed(req[r].path)
        BY <2>2, <2>4, <4>2, TurnAwayType DEF Route
      <4> QED
        BY <4>1, <4>2
    <3>2. gauge' \in Int
      BY <2>4 DEF Route, TypeOK
    <3> QED
      BY <1>1, <2>4, <3>1, <3>2 DEF Route, TypeOK, limiterVars
  <2>5. CASE PassAuthLimit(r)
    <3>1. /\ todo' \in [Requests -> Seq(Stages)] /\ sent' \in [Requests -> Codes]
          /\ line' \in [Requests -> Codes]
      <4>1. (GoOn(r) /\ UNCHANGED <<line, sent>>) \/ Answer(r, 429, 429)
        BY <2>5 DEF PassAuthLimit
      <4> QED
        BY <2>1, <2>2, <4>1, GoOnType, AnswerType DEF TypeOK
    <3>2. authentic' \in [Clients -> [Buckets -> Int]]
      <4>1. \/ authentic' =
                 [authentic EXCEPT ![req[r].client][limiter["limit"][r]] = @ - 1]
            \/ authentic' = authentic
        BY <2>5, Zenon DEF PassAuthLimit
      <4> QED
        BY <2>1, <4>1, BucketTaken DEF TypeOK
    <3> QED
      BY <1>1, <2>5, <3>1, <3>2 DEF PassAuthLimit, TypeOK
  <2>6. CASE CheckMethod(r)
    <3>1. /\ todo' \in [Requests -> Seq(Stages)] /\ sent' \in [Requests -> Codes]
          /\ line' \in [Requests -> Codes]
      BY <2>1, <2>2, <2>6, GoOnType, AnswerType DEF CheckMethod, TypeOK
    <3> QED
      BY <1>1, <2>6, <3>1 DEF CheckMethod, TypeOK, limiterVars
  <2>7. CASE Authenticate(r)
    <3>1. /\ todo' \in [Requests -> Seq(Stages)] /\ sent' \in [Requests -> Codes]
          /\ line' \in [Requests -> Codes]
      BY <2>1, <2>2, <2>7, GoOnType, AnswerType DEF Authenticate, TypeOK
    <3>2. creds' \in [Requests -> {"unasked", "accepted", "refused"}]
      BY <2>7 DEF Authenticate, TypeOK
    <3> QED
      BY <1>1, <2>7, <3>1, <3>2 DEF Authenticate, TypeOK, limiterVars
  <2>8. CASE TellHealth(r)
    <3>1. PICK reply \in Replies, seconds \in Delays :
            LET code == StatusCode(req[r].path, reply, seconds, cfg.tls, left)
            IN  /\ report' = [report EXCEPT ![r] =
                                [reply |-> reply, seconds |-> seconds, hours |-> left]]
                /\ Answer(r, code, code)
      BY <2>8, Zenon DEF TellHealth
    <3>2. StatusCode(req[r].path, reply, seconds, cfg.tls, left) \in Codes
      BY StatusCodes DEF Codes
    <3>3. /\ todo' \in [Requests -> Seq(Stages)] /\ sent' \in [Requests -> Codes]
          /\ line' \in [Requests -> Codes]
      BY <3>1, <3>2, AnswerType
    <3>4. [reply |-> reply, seconds |-> seconds, hours |-> left] \in Reports
      BY <2>1 DEF Reports
    <3>5. report' \in [Requests -> Reports \cup {NoReport}]
      BY <3>1, <3>4 DEF TypeOK
    <3> QED
      BY <1>1, <2>8, <3>3, <3>5 DEF TellHealth, TypeOK, limiterVars
  <2>9. CASE Work(r)
    <3>1. PICK code \in Outcomes(req[r].path) : Answer(r, code, code)
      BY <2>9 DEF Work
    <3>2. code \in Codes
      BY <3>1, OutcomeCodes DEF Codes
    <3>3. /\ todo' \in [Requests -> Seq(Stages)] /\ sent' \in [Requests -> Codes]
          /\ line' \in [Requests -> Codes]
      BY <3>1, <3>2, AnswerType
    <3> QED
      BY <1>1, <2>9, <3>3 DEF Work, TypeOK, limiterVars
  <2>10. CASE ReadChain(r) \/ ReadSingle(r)
    <3>1. <<"single">> \in Seq(Stages)
      BY InnerWays DEF Inner
    <3>2. \/ \E code \in {200, 500} : Answer(r, code, code)
          \/ /\ todo' = [todo EXCEPT ![r] = <<"single">>]
             /\ UNCHANGED <<line, sent>>
      BY <2>10 DEF ReadChain, ReadSingle
    <3>3. /\ todo' \in [Requests -> Seq(Stages)] /\ sent' \in [Requests -> Codes]
          /\ line' \in [Requests -> Codes]
      <4>1. CASE \E code \in {200, 500} : Answer(r, code, code)
        BY <2>2, <4>1, AnswerType
      <4>2. CASE /\ todo' = [todo EXCEPT ![r] = <<"single">>]
                 /\ UNCHANGED <<line, sent>>
        BY <3>1, <4>2 DEF TypeOK
      <4> QED
        BY <3>2, <4>1, <4>2
    <3> QED
      BY <1>1, <2>10, <3>3 DEF ReadChain, ReadSingle, TypeOK, limiterVars
  <2>11. CASE Panic(r)
    <3>1. /\ todo' \in [Requests -> Seq(Stages)] /\ sent' \in [Requests -> Codes]
          /\ line' \in [Requests -> Codes]
      BY <2>2, <2>11, AnswerType DEF Panic
    <3>2. panicked' \in [Requests -> BOOLEAN]
      BY <2>11 DEF Panic, TypeOK
    <3> QED
      BY <1>1, <2>11, <3>1, <3>2 DEF Panic, TypeOK, limiterVars
  <2>12. CASE Record(r)
    <3>1. todo' \in [Requests -> Seq(Stages)]
      BY <2>1, <2>12, GoOnType DEF Record
    <3>2. recorded' \in [Requests -> Codes]
      <4>1. /\ recorded \in [Requests -> Codes] /\ line[r] \in Codes
            /\ recorded' \in {recorded, [recorded EXCEPT ![r] = line[r]]}
        BY <2>12 DEF Record, TypeOK
      <4> QED
        BY <4>1
    <3>3. gauge' \in Int
      BY <2>12 DEF Record, TypeOK
    <3> QED
      BY <1>1, <2>12, <3>1, <3>2, <3>3 DEF Record, TypeOK, limiterVars
  <2>13. CASE Visit(r)
    <3>1. limiter' \in [Limiters -> [Requests -> Buckets \cup {0}]]
      BY <2>1, <2>13 DEF Visit, TypeOK
    <3> QED
      BY <1>1, <2>13, <3>1 DEF Visit, TypeOK, answerVars
  <2> QED
    BY <1>3, <2>3, <2>4, <2>5, <2>6, <2>7, <2>8, <2>9, <2>10, <2>11, <2>12, <2>13
    DEF Serve
<1> QED
  BY <1>2, <1>3

(* What configuration and phase decide about routes stays as it is.        *)
LEMMA RoutesKept ==
  ASSUME cfg' = cfg
  PROVE  \A p : /\ Guarded(p)' = Guarded(p)
                /\ Logged(p)' = Logged(p)
                /\ Routed(p)' = Routed(p)
BY DEF Guarded, Logged, Routed

(* One stage further, without an answer.                                   *)
LEMMA FurtherOK ==
  ASSUME NEW r \in Requests, RequestOK(r), phase = "running", phase' = phase, cfg' = cfg,
         req'[r] # NoRequest, Fresh(r), todo'[r] \in Outer \cup Inner,
         line'[r] = line[r], sent'[r] = sent[r], recorded'[r] = recorded[r],
         report'[r] = report[r], panicked'[r] = panicked[r],
         todo'[r] \in Inner =>
           /\ Routed(req'[r].path)
           /\ Guarded(req'[r].path) => Head(todo'[r]) = "auth" \/ creds'[r] = "accepted"
  PROVE  RequestOK(r)'
<1>0. \A p : Guarded(p)' = Guarded(p) /\ Logged(p)' = Logged(p) /\ Routed(p)' = Routed(p)
  BY RoutesKept
<1>1. Fresh(r)' /\ todo'[r] # <<>> /\ todo'[r] # <<"close">>
  BY InnerWays, OuterWays DEF Fresh
<1>2. OnItsWay(r)'
  BY <1>0, <1>1 DEF OnItsWay, Ways
<1>3. AuthFollowed(r)'
  BY <1>0, <1>1 DEF AuthFollowed, Fresh
<1>4. ReportMade(r)' /\ AnswerKnown(r)' /\ RecordTruthful(r)'
  BY <1>1 DEF ReportMade, AnswerKnown, RecordTruthful, Ended, Fresh
<1> QED
  BY <1>2, <1>3, <1>4 DEF RequestOK

(* An answer from the handlers' part of the chain.                         *)
LEMMA AnswerOK ==
  ASSUME TypeOK, NEW r \in Requests, RequestOK(r), phase = "running", phase' = phase,
         cfg' = cfg, req' = req, req[r] # NoRequest, todo[r] \in Inner,
         NEW known \in Codes \ {0}, NEW code \in Codes, Answer(r, known, code),
         recorded' = recorded, ReportMade(r)',
         Guarded(req[r].path) /\ code \in {200, 503} => creds'[r] = "accepted",
         known = code \/ (panicked'[r] /\ known = 500),
         code = 0 => panicked'[r] /\ ~Logged(req[r].path)
  PROVE  RequestOK(r)'
<1>0. \A p : Guarded(p)' = Guarded(p) /\ Logged(p)' = Logged(p) /\ Routed(p)' = Routed(p)
  BY RoutesKept
<1>1. /\ todo'[r] = WayBack(req[r].path) /\ sent'[r] = code
      /\ line'[r] = IF Logged(req[r].path) THEN known ELSE line[r]
  BY AnswerType
<1>2. todo'[r] = IF Logged(req[r].path) THEN <<"close">> ELSE <<>>
  BY <1>1 DEF WayBack
<1>3. Fresh(r) /\ Routed(req[r].path)
  BY DEF RequestOK, OnItsWay
<1>4. todo'[r] \in Ways /\ todo'[r] \notin Inner \cup Outer
  BY <1>2, LastWays DEF Ways
<1>5. OnItsWay(r)'
  BY <1>4 DEF OnItsWay
<1>6. AuthFollowed(r)'
  BY <1>0, <1>1, <1>4 DEF AuthFollowed
<1>7. AnswerKnown(r)'
  <2>1. CASE Logged(req[r].path)
    <3>1. line'[r] = known /\ sent'[r] = code /\ code # 0 /\ recorded'[r] = 0
      BY <1>1, <1>3, <2>1 DEF Fresh
    <3> QED
      BY <1>0, <1>3, <2>1, <3>1 DEF AnswerKnown
  <2>2. CASE ~Logged(req[r].path)
    BY <1>2, <2>2, LastWays DEF AnswerKnown
  <2> QED
    BY <2>1, <2>2
<1>8. RecordTruthful(r)'
  <2>1. CASE Logged(req[r].path)
    BY <1>2, <2>1, LastWays DEF RecordTruthful, Ended
  <2>2. CASE ~Logged(req[r].path)
    <3>1. sent'[r] = code /\ recorded'[r] = 0 /\ req'[r] = req[r]
      BY <1>1, <1>3 DEF Fresh
    <3> QED
      BY <1>0, <2>2, <3>1 DEF RecordTruthful
  <2> QED
    BY <2>1, <2>2
<1> QED
  BY <1>5, <1>6, <1>7, <1>8 DEF RequestOK

(* The general limiter or the routes send r away.                          *)
LEMMA TurnedAwayOK ==
  ASSUME TypeOK, NEW r \in Requests, RequestOK(r), phase = "running", phase' = phase,
         cfg' = cfg, req' = req, req[r] # NoRequest, todo[r] \in Outer,
         NEW code \in {404, 429}, TurnAway(r, code),
         code = 404 => ~Routed(req[r].path),
         recorded' = recorded, report' = report, panicked' = panicked, creds' = creds
  PROVE  RequestOK(r)'
<1>0. \A p : Guarded(p)' = Guarded(p) /\ Logged(p)' = Logged(p) /\ Routed(p)' = Routed(p)
  BY RoutesKept
<1>1. todo'[r] = <<>> /\ sent'[r] = code
  BY TurnAwayType DEF Codes
<1>2. Fresh(r)
  BY DEF RequestOK, OnItsWay
<1>3. OnItsWay(r)'
  BY <1>1, LastWays DEF OnItsWay, Ways
<1>4. AuthFollowed(r)' /\ ReportMade(r)' /\ AnswerKnown(r)'
  BY <1>0, <1>1, <1>2, LastWays DEF AuthFollowed, ReportMade, AnswerKnown, Fresh
<1>5. RecordTruthful(r)'
  BY <1>0, <1>1, <1>2 DEF RecordTruthful, Fresh
<1> QED
  BY <1>3, <1>4, <1>5 DEF RequestOK

(* The way back ends with an entry in the metrics, if there are any.       *)
LEMMA RecordedOK ==
  ASSUME TypeOK, NEW r \in Requests, RequestOK(r), req[r] # NoRequest, phase = "running",
         UNCHANGED startupVars, Record(r)
  PROVE  RequestOK(r)'
<1>0. /\ \A p : /\ Guarded(p)' = Guarded(p)
               /\ Logged(p)' = Logged(p)
               /\ Routed(p)' = Routed(p)
      /\ phase' = phase /\ cfg' = cfg
  BY RoutesKept DEF startupVars
<1>1. todo[r] = <<"close">>
  BY InnerWays, OuterWays DEF Record, At, RequestOK, OnItsWay, Ways
<1>2. /\ todo'[r] = <<>>
      /\ recorded'[r] = IF cfg.metrics THEN line[r] ELSE recorded[r]
      /\ req' = req /\ line' = line /\ sent' = sent /\ creds' = creds
      /\ report' = report /\ panicked' = panicked
  BY <1>1, LastWays DEF Record, GoOn, TypeOK
<1>3. /\ Logged(req[r].path) /\ Routed(req[r].path) /\ recorded[r] = 0 /\ sent[r] # 0
      /\ line[r] = sent[r] \/ (panicked[r] /\ line[r] = 500)
  BY <1>1 DEF RequestOK, AnswerKnown
<1>4. OnItsWay(r)' /\ AnswerKnown(r)'
  BY <1>0, <1>2, LastWays DEF OnItsWay, Ways, AnswerKnown
<1>5. AuthFollowed(r)' /\ ReportMade(r)'
  BY <1>0, <1>2, LastWays DEF RequestOK, AuthFollowed, ReportMade, Arrived
<1>6. RecordTruthful(r)'
  BY <1>0, <1>2, <1>3 DEF RecordTruthful
<1> QED
  BY <1>4, <1>5, <1>6 DEF RequestOK

-------------------------------------------------------------------------------
(* What happens to r leaves all of this true of r.                         *)
LEMMA ArrivalOK ==
  ASSUME TypeOK, StartInv, NEW r \in Requests, RequestOK(r), Arrive(r)
  PROVE  RequestOK(r)'
<1>1. PICK q \in Asked[setting] :
        /\ req' = [req EXCEPT ![r] = q]
        /\ todo' = [todo EXCEPT ![r] =
                      IF Limiting THEN <<"general", "route">> ELSE <<"route">>]
  BY DEF Arrive
<1>2. q \in RequestType /\ q # NoRequest
  BY FrontAssumption DEF TypeOK, StartupTypeOK
<1>3. req'[r] = q /\ todo'[r] \in Outer
  BY <1>1 DEF TypeOK, Outer
<1>4. todo'[r] \notin Inner
  BY <1>3, OuterWays
<1>5. phase = "running" /\ phase' = phase /\ cfg' = cfg /\ Fresh(r)
  BY DEF Arrive, Running, startupVars, RequestOK, OnItsWay
<1> QED
  BY <1>2, <1>3, <1>4, <1>5, FurtherOK DEF Arrive, answerVars

(* The general limiter (RateLimiter.Middleware around the mux).             *)
LEMMA PassGeneralOK ==
  ASSUME TypeOK, StartInv, NEW r \in Requests, RequestOK(r), PassGeneral(r)
  PROVE  RequestOK(r)'
<1>1. /\ todo[r] # <<>> /\ Head(todo[r]) = "general"
      /\ phase' = phase /\ cfg' = cfg /\ req' = req /\ line' = line
      /\ recorded' = recorded /\ creds' = creds /\ report' = report
      /\ panicked' = panicked
  BY DEF PassGeneral, At, startupVars
<1>2. phase = "running" /\ req[r] # NoRequest
  BY <1>1, Ahead DEF RequestOK
<1>3. todo[r] \in Outer /\ Tail(todo[r]) \in Outer
  BY <1>1, InnerWays, OuterWays, LastWays DEF RequestOK, OnItsWay, Ways
<1>4. Fresh(r)
  BY <1>3 DEF RequestOK, OnItsWay
<1>5. CASE GoOn(r) /\ UNCHANGED sent
  <2>1. todo'[r] \in Outer
    BY <1>1, <1>3, <1>5, GoOnType
  <2>2. todo'[r] \notin Inner
    BY <2>1, OuterWays
  <2> QED
    BY <1>1, <1>2, <1>4, <1>5, <2>1, <2>2, FurtherOK
<1>6. CASE TurnAway(r, 429)
  BY <1>1, <1>2, <1>3, <1>6, TurnedAwayOK
<1> QED
  BY <1>5, <1>6 DEF PassGeneral

(* The mux chooses the way of the request (setupRoutes).                    *)
LEMMA RouteOK ==
  ASSUME TypeOK, StartInv, NEW r \in Requests, RequestOK(r), Route(r)
  PROVE  RequestOK(r)'
<1>1. /\ todo[r] # <<>> /\ Head(todo[r]) = "route"
      /\ phase' = phase /\ cfg' = cfg /\ req' = req /\ line' = line
      /\ recorded' = recorded /\ creds' = creds /\ report' = report
      /\ panicked' = panicked
  BY DEF Route, At, startupVars
<1>2. phase = "running" /\ req[r] # NoRequest /\ req[r].path \in Paths
  BY <1>1, Ahead DEF RequestOK
<1>3. todo[r] \in Outer
  BY <1>1, InnerWays, LastWays DEF RequestOK, OnItsWay, Ways
<1>4. Fresh(r)
  BY <1>3 DEF RequestOK, OnItsWay
<1>5. CASE Routed(req[r].path)
  <2>1. todo'[r] = Chain(req[r].path) /\ sent' = sent
    BY <1>5 DEF Route, TypeOK
  <2>2. /\ todo'[r] \in Inner
        /\ Guarded(req[r].path) => Head(todo'[r]) = "auth"
    BY <1>2, <2>1, ChainFacts
  <2> QED
    BY <1>1, <1>2, <1>4, <1>5, <2>1, <2>2, FurtherOK
<1>6. CASE ~Routed(req[r].path)
  <2>1. TurnAway(r, 404)
    BY <1>6 DEF Route
  <2> QED
    BY <1>1, <1>2, <1>3, <1>6, <2>1, TurnedAwayOK
<1> QED
  BY <1>5, <1>6

(* A stage of the handlers' part lies ahead.                               *)
LEMMA Within ==
  ASSUME TypeOK, StartInv, NEW r \in Requests, RequestOK(r),
         NEW stage \in {"limit", "method", "auth", "work", "chain", "single"},
         At(r, stage)
  PROVE  /\ phase = "running" /\ req[r] # NoRequest /\ req[r] \in RequestType
         /\ req[r].path \in Paths
         /\ todo[r] \in Inner /\ Head(todo[r]) = stage
         /\ stage \in {"limit", "method", "auth"} => Tail(todo[r]) \in Inner
         /\ Fresh(r) /\ Routed(req[r].path) /\ ReportMade(r)
         /\ Guarded(req[r].path) => stage = "auth" \/ creds[r] = "accepted"
<1>1. todo[r] # <<>> /\ Head(todo[r]) = stage
  BY DEF At
<1>2. todo[r] \in Inner
  BY <1>1, OuterWays, LastWays DEF RequestOK, OnItsWay, Ways
<1> QED
  BY <1>1, <1>2, Ahead, InnerWays DEF RequestOK, OnItsWay, AuthFollowed, Arrived

(* No report goes on being none.                                           *)
LEMMA NoReportKept ==
  ASSUME NEW r \in Requests, report'[r] = NoReport
  PROVE  ReportMade(r)'
BY DEF ReportMade

(* The limiter of the enrollment handlers.                                  *)
LEMMA PassAuthLimitOK ==
  ASSUME TypeOK, StartInv, NEW r \in Requests, RequestOK(r), PassAuthLimit(r)
  PROVE  RequestOK(r)'
<1>1. /\ At(r, "limit") /\ todo[r] # <<>>
      /\ phase' = phase /\ cfg' = cfg /\ req' = req
      /\ recorded' = recorded /\ creds' = creds /\ report' = report
      /\ panicked' = panicked
  BY DEF PassAuthLimit, At, startupVars
<1>2. /\ phase = "running" /\ req[r] # NoRequest /\ todo[r] \in Inner
      /\ Tail(todo[r]) \in Inner /\ Fresh(r) /\ Routed(req[r].path)
      /\ Guarded(req[r].path) => creds[r] = "accepted"
  BY <1>1, Within
<1>3. CASE GoOn(r) /\ UNCHANGED <<line, sent>>
  <2>1. todo'[r] \in Inner
    BY <1>1, <1>2, <1>3, GoOnType
  <2> QED
    BY <1>1, <1>2, <1>3, <2>1, FurtherOK
<1>4. CASE Answer(r, 429, 429)
  <2>1. ReportMade(r)'
    BY <1>1, <1>2, NoReportKept DEF Fresh
  <2>2. 429 \in Codes \ {0}
    BY DEF Codes
  <2> QED
    BY <1>1, <1>2, <1>4, <2>1, <2>2, AnswerOK
<1> QED
  BY <1>3, <1>4 DEF PassAuthLimit

(* The handlers' look at the method.                                        *)
LEMMA CheckMethodOK ==
  ASSUME TypeOK, StartInv, NEW r \in Requests, RequestOK(r), CheckMethod(r)
  PROVE  RequestOK(r)'
<1>1. /\ At(r, "method") /\ todo[r] # <<>>
      /\ phase' = phase /\ cfg' = cfg /\ req' = req
      /\ recorded' = recorded /\ creds' = creds /\ report' = report
      /\ panicked' = panicked
  BY DEF CheckMethod, At, startupVars
<1>2. /\ phase = "running" /\ req[r] # NoRequest /\ todo[r] \in Inner
      /\ Tail(todo[r]) \in Inner /\ Fresh(r) /\ Routed(req[r].path)
      /\ Guarded(req[r].path) => creds[r] = "accepted"
  BY <1>1, Within
<1>3. CASE GoOn(r) /\ UNCHANGED <<line, sent>>
  <2>1. todo'[r] \in Inner
    BY <1>1, <1>2, <1>3, GoOnType
  <2> QED
    BY <1>1, <1>2, <1>3, <2>1, FurtherOK
<1>4. CASE Answer(r, 405, 405)
  <2>1. ReportMade(r)'
    BY <1>1, <1>2, NoReportKept DEF Fresh
  <2>2. 405 \in Codes \ {0}
    BY DEF Codes
  <2> QED
    BY <1>1, <1>2, <1>4, <2>1, <2>2, AnswerOK
<1> QED
  BY <1>3, <1>4 DEF CheckMethod

(* Authentication, the middleware's and the handlers' own.                  *)
LEMMA AuthenticateOK ==
  ASSUME TypeOK, StartInv, NEW r \in Requests, RequestOK(r), Authenticate(r)
  PROVE  RequestOK(r)'
<1>1. /\ At(r, "auth") /\ todo[r] # <<>>
      /\ phase' = phase /\ cfg' = cfg /\ req' = req
      /\ recorded' = recorded /\ report' = report /\ panicked' = panicked
  BY DEF Authenticate, At, startupVars
<1>2. /\ phase = "running" /\ req[r] # NoRequest /\ todo[r] \in Inner
      /\ Tail(todo[r]) \in Inner /\ Fresh(r) /\ Routed(req[r].path)
  BY <1>1, Within
<1>3. CASE /\ creds' = [creds EXCEPT ![r] = "accepted"]
           /\ GoOn(r)
           /\ UNCHANGED <<line, sent>>
  <2>1. todo'[r] \in Inner /\ creds'[r] = "accepted"
    BY <1>1, <1>2, <1>3, GoOnType DEF TypeOK
  <2> QED
    BY <1>1, <1>2, <1>3, <2>1, FurtherOK
<1>4. CASE Answer(r, 401, 401)
  <2>1. ReportMade(r)'
    BY <1>1, <1>2, NoReportKept DEF Fresh
  <2>2. 401 \in Codes \ {0}
    BY DEF Codes
  <2> QED
    BY <1>1, <1>2, <1>4, <2>1, <2>2, AnswerOK
<1> QED
  BY <1>3, <1>4 DEF Authenticate

(* The endpoints that report on backend and certificate.                    *)
LEMMA TellHealthOK ==
  ASSUME TypeOK, StartInv, NEW r \in Requests, RequestOK(r), TellHealth(r)
  PROVE  RequestOK(r)'
<1>1. /\ At(r, "work") /\ req[r].path \in Endpoints /\ todo[r] # <<>>
      /\ phase' = phase /\ cfg' = cfg /\ req' = req /\ creds' = creds
      /\ recorded' = recorded /\ panicked' = panicked
  BY DEF TellHealth, At, startupVars
<1>2. /\ phase = "running" /\ req[r] # NoRequest /\ todo[r] \in Inner
      /\ Guarded(req[r].path) => creds[r] = "accepted"
  BY <1>1, Within
<1>3. left \in Int /\ (cfg.tls => left >= -1)
  BY <1>1, Ahead DEF RequestOK
<1>4. PICK reply \in Replies, seconds \in Delays :
        LET code == StatusCode(req[r].path, reply, seconds, cfg.tls, left)
        IN  /\ report' = [report EXCEPT ![r] =
                            [reply |-> reply, seconds |-> seconds, hours |-> left]]
            /\ Answer(r, code, code)
  BY Zenon DEF TellHealth
<1> DEFINE code == StatusCode(req[r].path, reply, seconds, cfg.tls, left)
<1>5. code \in {200, 503} /\ code \in Codes \ {0}
  BY StatusCodes DEF Codes
<1>6. /\ report'[r] = [reply |-> reply, seconds |-> seconds, hours |-> left]
      /\ Answer(r, code, code)
  BY <1>4 DEF TypeOK
<1>7. sent'[r] = code /\ todo'[r] \notin Inner
  BY <1>5, <1>6, AnswerType, LastWays DEF WayBack
<1>8. ReportMade(r)'
  BY <1>1, <1>2, <1>3, <1>6, <1>7 DEF ReportMade, Arrived
<1> HIDE DEF code
<1> QED
  BY <1>1, <1>2, <1>5, <1>6, <1>8, AnswerOK

(* The handlers that have nothing to do with the backend's health.         *)
LEMMA WorkOK ==
  ASSUME TypeOK, StartInv, NEW r \in Requests, RequestOK(r),
         Work(r) \/ ReadChain(r) \/ ReadSingle(r)
  PROVE  RequestOK(r)'
<1>1. /\ \E stage \in {"work", "chain", "single"} : At(r, stage)
      /\ todo[r] # <<>>
      /\ phase' = phase /\ cfg' = cfg /\ req' = req /\ creds' = creds
      /\ recorded' = recorded /\ report' = report /\ panicked' = panicked
  BY DEF Work, ReadChain, ReadSingle, At, startupVars
<1>2. /\ phase = "running" /\ req[r] # NoRequest /\ todo[r] \in Inner
      /\ Fresh(r) /\ Routed(req[r].path)
      /\ Guarded(req[r].path) => creds[r] = "accepted"
  BY <1>1, Within
<1>3. ReportMade(r)'
  BY <1>1, <1>2, NoReportKept DEF Fresh
<1>4. ASSUME NEW code \in {200, 204, 400, 404, 500, 502}, Answer(r, code, code)
      PROVE  RequestOK(r)'
  <2>1. code \in Codes \ {0}
    BY DEF Codes
  <2> QED
    BY <1>1, <1>2, <1>3, <1>4, <2>1, AnswerOK
<1>5. CASE Work(r)
  <2>1. PICK code \in Outcomes(req[r].path) : Answer(r, code, code)
    BY <1>5 DEF Work
  <2> QED
    BY <1>4, <2>1, OutcomeCodes
<1>6. CASE ReadChain(r) \/ ReadSingle(r)
  <2>1. \/ Answer(r, 200, 200)
        \/ Answer(r, 500, 500)
        \/ todo' = [todo EXCEPT ![r] = <<"single">>] /\ UNCHANGED <<line, sent>>
    BY <1>6 DEF ReadChain, ReadSingle
  <2>2. CASE todo' = [todo EXCEPT ![r] = <<"single">>] /\ UNCHANGED <<line, sent>>
    <3>1. todo'[r] \in Inner
      BY <2>2 DEF TypeOK, Inner
    <3> QED
      BY <1>1, <1>2, <2>2, <3>1, FurtherOK
  <2> QED
    BY <1>4, <2>1, <2>2
<1> QED
  BY <1>5, <1>6

(* A panic, recovered or not.                                               *)
LEMMA PanicOK ==
  ASSUME TypeOK, StartInv, NEW r \in Requests, RequestOK(r), Panic(r)
  PROVE  RequestOK(r)'
<1>1. /\ phase' = phase /\ cfg' = cfg /\ req' = req /\ creds' = creds
      /\ recorded' = recorded /\ report' = report /\ panicked'[r] = TRUE
  BY DEF Panic, startupVars, TypeOK
<1>2. PICK stage \in {"method", "auth", "work", "chain", "single"} : At(r, stage)
  BY DEF Panic
<1>3. /\ phase = "running" /\ req[r] # NoRequest /\ todo[r] \in Inner
      /\ Fresh(r)
  BY <1>2, Within
<1>4. ReportMade(r)'
  BY <1>1, <1>3, NoReportKept DEF Fresh
<1>5. 500 \in Codes \ {0} /\ 200 \in Codes /\ 0 \in Codes
  BY DEF Codes
<1>6. CASE Answer(r, 500, IF Logged(req[r].path) THEN 500 ELSE 0)
  <2> DEFINE code == IF Logged(req[r].path) THEN 500 ELSE 0
  <2>1. /\ code \in Codes /\ code \notin {200, 503}
        /\ code = 0 => ~Logged(req[r].path)
    BY <1>5
  <2>2. Answer(r, 500, code)
    BY <1>6
  <2> HIDE DEF code
  <2> QED
    BY <1>1, <1>3, <1>4, <1>5, <2>1, <2>2, AnswerOK
<1>7. CASE /\ \E s \in {"work", "chain", "single"} : At(r, s)
           /\ Answer(r, 500, 200)
  <2>1. Guarded(req[r].path) => creds[r] = "accepted"
    BY <1>7, Within
  <2> QED
    BY <1>1, <1>3, <1>4, <1>5, <1>7, <2>1, AnswerOK
<1> QED
  BY <1>6, <1>7 DEF Panic

(* loggingMiddleware closes the record.                                     *)
LEMMA RecordOK ==
  ASSUME TypeOK, StartInv, NEW r \in Requests, RequestOK(r), Record(r)
  PROVE  RequestOK(r)'
<1>1. todo[r] # <<>> /\ UNCHANGED startupVars
  BY DEF Record, At
<1>2. phase = "running" /\ req[r] # NoRequest
  BY <1>1, Ahead DEF RequestOK
<1> QED
  BY <1>1, <1>2, RecordedOK

(* Being handed a bucket changes nothing else about a request (getVisitor). *)
LEMMA VisitOK ==
  ASSUME NEW r \in Requests, RequestOK(r), Visit(r)
  PROVE  RequestOK(r)'
<1>1. Untouched(r) /\ phase' = phase /\ cfg' = cfg
  BY DEF Visit, Untouched, answerVars, startupVars
<1> QED
  BY <1>1, UntouchedOK

(* Whatever happens to a request keeps its part of the invariant.           *)
LEMMA ServeOK ==
  ASSUME TypeOK, StartInv, NEW r \in Requests, RequestOK(r), Arrive(r) \/ Serve(r)
  PROVE  RequestOK(r)'
BY ArrivalOK, VisitOK, PassGeneralOK, RouteOK, PassAuthLimitOK, CheckMethodOK, AuthenticateOK,
   TellHealthOK, WorkOK, PanicOK, RecordOK DEF Serve

-------------------------------------------------------------------------------
(* The requests that the gauge counts.                                     *)
Counted == {r \in Requests : Inside(r)}

GaugeOK == gauge = IF phase = "running" /\ cfg.metrics THEN Cardinality(Counted) ELSE 0

(* The gauge counts the requests inside logging's part,                     *)
LEMMA InsideIs ==
  ASSUME NEW r \in Requests, OnItsWay(r)
  PROVE  Inside(r) <=> /\ todo[r] \in Inner \cup {<<"close">>}
                       /\ Logged(req[r].path)
BY InnerWays, OuterWays, LastWays DEF Inside, OnItsWay, Ways

(* before a step as after it.                                               *)
LEMMA InsideWillBe ==
  ASSUME NEW r \in Requests, OnItsWay(r)'
  PROVE  Inside(r)' <=> /\ todo'[r] \in Inner \cup {<<"close">>}
                        /\ Logged(req[r].path)'
BY InnerWays, OuterWays, LastWays DEF Inside, OnItsWay, Ways

(* Those are finitely many.                                                 *)
LEMMA CountedFinite == IsFiniteSet(Counted) /\ Cardinality(Counted) \in Nat
BY FrontAssumption, FS_Subset, FS_CardinalityType DEF Counted

(* A step from the handlers' part leads on in it, or back.                 *)
LEMMA StaysInside ==
  ASSUME TypeOK, StartInv, NEW r \in Requests, RequestOK(r), OnItsWay(r)',
         \/ PassAuthLimit(r) \/ CheckMethod(r) \/ Authenticate(r) \/ TellHealth(r)
         \/ Work(r) \/ ReadChain(r) \/ ReadSingle(r) \/ Panic(r)
  PROVE  /\ Inside(r)' <=> Inside(r)
         /\ gauge' = gauge
<1>1. /\ gauge' = gauge /\ cfg' = cfg /\ req' = req
      /\ \E stage \in {"limit", "method", "auth", "work", "chain", "single"} : At(r, stage)
  BY DEF PassAuthLimit, CheckMethod, Authenticate, TellHealth, Work, ReadChain,
         ReadSingle, Panic, startupVars
<1>2. todo[r] \in Inner
  BY <1>1, Within
<1>3. Inside(r) <=> Logged(req[r].path)
  BY <1>2, InsideIs DEF RequestOK
<1>4. \/ todo'[r] \in Inner
      \/ todo'[r] = WayBack(req[r].path)
  <2>1. \/ At(r, "limit") /\ GoOn(r)
        \/ At(r, "method") /\ GoOn(r)
        \/ At(r, "auth") /\ GoOn(r)
        \/ todo' = [todo EXCEPT ![r] = <<"single">>]
        \/ \E known, code : Answer(r, known, code)
    BY DEF PassAuthLimit, CheckMethod, Authenticate, TellHealth, Work, ReadChain,
           ReadSingle, Panic
  <2>2. ASSUME NEW stage \in {"limit", "method", "auth"}, At(r, stage), GoOn(r)
        PROVE  todo'[r] \in Inner
    BY <2>2, Within, GoOnType DEF At
  <2>3. ASSUME NEW known, NEW code, Answer(r, known, code)
        PROVE  todo'[r] = WayBack(req[r].path)
    BY <2>3 DEF Answer, TypeOK
  <2>4. CASE todo' = [todo EXCEPT ![r] = <<"single">>]
    BY <2>4 DEF TypeOK, Inner
  <2> QED
    BY <2>1, <2>2, <2>3, <2>4
<1>5. Logged(req[r].path)' <=> Logged(req[r].path)
  BY <1>1, RoutesKept
<1>6. Inside(r)' <=> Logged(req[r].path)
  BY <1>4, <1>5, InsideWillBe, LastWays DEF WayBack
<1> QED
  BY <1>1, <1>3, <1>6

(* Serving a request keeps the gauge right.                                *)
LEMMA ServeGauge ==
  ASSUME TypeOK, StartInv, \A q \in Requests : RequestOK(q), GaugeOK,
         NEW r \in Requests, Arrive(r) \/ Serve(r), RequestOK(r)'
  PROVE  GaugeOK'
<1>1. /\ phase' = phase /\ cfg' = cfg /\ RequestOK(r) /\ OnItsWay(r) /\ OnItsWay(r)'
      /\ \A p : Logged(p)' = Logged(p)
  BY ServingIsNotStarting, RoutesKept DEF startupVars, RequestOK
<1>2. \A q \in Requests : q # r => (Inside(q)' <=> Inside(q))
  BY <1>1, OthersUntouched DEF Inside, Untouched
<1>3. CASE (Inside(r)' <=> Inside(r)) /\ gauge' = gauge
  <2>1. Counted' = Counted
    BY <1>2, <1>3 DEF Counted
  <2> QED
    BY <1>1, <1>3, <2>1 DEF GaugeOK
<1>4. CASE /\ ~Inside(r) /\ Inside(r)'
           /\ gauge' = IF cfg.metrics THEN gauge + 1 ELSE gauge
  <2>1. Counted' = Counted \cup {r} /\ r \notin Counted
    BY <1>2, <1>4 DEF Counted
  <2>2. Cardinality(Counted') = Cardinality(Counted) + 1
    BY <2>1, CountedFinite, FS_AddElement
  <2>3. phase = "running"
    BY <1>1, <1>4, LastWays DEF OnItsWay, Inside
  <2> QED
    BY <1>1, <1>4, <2>2, <2>3 DEF GaugeOK
<1>5. CASE /\ Inside(r) /\ ~Inside(r)'
           /\ gauge' = IF cfg.metrics THEN gauge - 1 ELSE gauge
  <2>1. Counted' = Counted \ {r} /\ r \in Counted
    BY <1>2, <1>5 DEF Counted
  <2>2. Cardinality(Counted') = Cardinality(Counted) - 1
    BY <2>1, CountedFinite, FS_RemoveElement
  <2>3. phase = "running"
    BY <1>1, <1>5, Ahead DEF Inside
  <2> QED
    BY <1>1, <1>5, <2>2, <2>3 DEF GaugeOK
<1>6. CASE Arrive(r) \/ PassGeneral(r)
  <2>1. todo[r] \in Outer \cup {<<>>} /\ gauge' = gauge
    BY <1>1, <1>6, InnerWays, OuterWays, LastWays
    DEF Arrive, PassGeneral, At, OnItsWay, Ways
  <2>2. todo'[r] \in Outer \cup {<<>>}
    <3>1. CASE Arrive(r)
      BY <3>1 DEF Arrive, TypeOK, Outer
    <3>2. CASE PassGeneral(r)
      <4>1. /\ todo[r] # <<>> /\ Head(todo[r]) = "general"
            /\ GoOn(r) \/ TurnAway(r, 429)
        BY <3>2 DEF PassGeneral, At
      <4>2. Tail(todo[r]) \in Outer
        BY <2>1, <4>1, OuterWays
      <4>3. CASE GoOn(r)
        BY <4>1, <4>2, <4>3, GoOnType
      <4>4. CASE TurnAway(r, 429)
        BY <4>4 DEF TurnAway, TypeOK
      <4> QED
        BY <4>1, <4>3, <4>4
    <3> QED
      BY <1>6, <3>1, <3>2
  <2>3. ~Inside(r) /\ ~Inside(r)'
    BY <1>1, <2>1, <2>2, InsideIs, InsideWillBe, OuterWays, LastWays
  <2> QED
    BY <1>3, <2>1, <2>3
<1>7. CASE Route(r)
  <2>1. /\ todo[r] \in Outer /\ todo[r] # <<>> /\ req' = req /\ req[r].path \in Paths
    BY <1>1, <1>7, Ahead, InnerWays, OuterWays, LastWays DEF Route, At, OnItsWay, Ways
  <2>2. ~Inside(r)
    BY <1>1, <2>1, InsideIs, OuterWays
  <2>3. CASE Routed(req[r].path)
    <3>1. todo'[r] \in Inner
      BY <1>7, <2>1, <2>3, ChainFacts DEF Route, TypeOK
    <3>2. Inside(r)' <=> Logged(req[r].path)
      BY <1>1, <2>1, <3>1, InsideWillBe
    <3>3. gauge' = IF Logged(req[r].path) /\ cfg.metrics THEN gauge + 1 ELSE gauge
      BY <1>7, <2>3 DEF Route
    <3> QED
      BY <1>3, <1>4, <2>2, <3>2, <3>3
  <2>4. CASE ~Routed(req[r].path)
    <3>1. todo'[r] = <<>> /\ gauge' = gauge
      BY <1>7, <2>4 DEF Route, TurnAway, TypeOK
    <3>2. ~Inside(r)'
      BY <1>1, <3>1, InsideWillBe, LastWays
    <3> QED
      BY <1>3, <2>2, <3>1, <3>2
  <2> QED
    BY <2>3, <2>4
<1>8. CASE Record(r)
  <2>1. todo[r] = <<"close">>
    <3>1. todo[r] # <<>> /\ Head(todo[r]) = "close"
      BY <1>8 DEF Record, At
    <3>2. todo[r] \notin Inner /\ todo[r] \notin Outer
      BY <3>1, InnerWays, OuterWays
    <3> QED
      BY <1>1, <3>1, <3>2 DEF OnItsWay, Ways
  <2>2. Inside(r)
    <3>1. Logged(req[r].path)
      BY <1>1, <2>1 DEF RequestOK, AnswerKnown
    <3> QED
      BY <1>1, <2>1, <3>1, InsideIs
  <2>3. todo'[r] = <<>> /\ gauge' = IF cfg.metrics THEN gauge - 1 ELSE gauge
    BY <1>8, <2>1, LastWays DEF Record, GoOn, TypeOK
  <2>4. ~Inside(r)'
    BY <1>1, <2>3, InsideWillBe, LastWays
  <2> QED
    BY <1>5, <2>2, <2>3, <2>4
<1>9. CASE \/ PassAuthLimit(r) \/ CheckMethod(r) \/ Authenticate(r) \/ TellHealth(r)
           \/ Work(r) \/ ReadChain(r) \/ ReadSingle(r) \/ Panic(r)
  BY <1>1, <1>3, <1>9, StaysInside
<1>10. CASE Visit(r)
  <2>1. gauge' = gauge /\ (Inside(r)' <=> Inside(r))
    BY <1>1, <1>10 DEF Visit, Inside
  <2> QED
    BY <1>3, <2>1
<1> QED
  BY <1>6, <1>7, <1>8, <1>9, <1>10 DEF Serve

-------------------------------------------------------------------------------
(* The inductive invariant.                                                *)
FrontInv == TypeOK /\ StartInv /\ (\A r \in Requests : RequestOK(r)) /\ GaugeOK

(* The process starts with no request and no promise.                       *)
LEMMA FrontInit == Init => FrontInv
<1> SUFFICES ASSUME Init PROVE FrontInv
  OBVIOUS
<1>1. StartInv
  BY StartupAssumption, StartInit DEF Init
<1>2. TypeOK
  <2>1. 0 \in Codes /\ <<>> \in Seq(Stages) /\ ticks \in 0..MaxTicks
    BY FrontAssumption, LastWays DEF Init, Codes
  <2>2. 1 \in Buckets
    BY FrontAssumption DEF Buckets
  <2> QED
    BY <1>1, <2>1, <2>2 DEF Init, TypeOK, StartInv
<1>3. ASSUME NEW r \in Requests PROVE RequestOK(r)
  <2>1. /\ req[r] = NoRequest /\ todo[r] = <<>> /\ creds[r] = "unasked" /\ Fresh(r)
        /\ phase = "load"
    BY DEF Init, StartupInit, Fresh
  <2> QED
    BY <2>1, LastWays
    DEF RequestOK, OnItsWay, Ways, AuthFollowed, ReportMade, AnswerKnown,
        RecordTruthful, Ended, Arrived, Fresh
<1>4. GaugeOK
  BY DEF Init, StartupInit, GaugeOK
<1> QED
  BY <1>1, <1>2, <1>3, <1>4 DEF FrontInv

(* The start touches no request: there is none yet.                        *)
LEMMA ComeUpStep == FrontInv /\ ComeUp => FrontInv'
<1> SUFFICES ASSUME FrontInv, ComeUp PROVE FrontInv'
  OBVIOUS
<1>1. StartInv'
  BY StartProceeds DEF FrontInv, ComeUp, Begin, StartupNext
<1>2. /\ phase # "running"
      /\ UNCHANGED <<req, todo, answerVars, gauge, visitors, limiter, ticks>>
  BY DEF ComeUp, Begin, StartupNext, Load, LoadFails, Check, CheckFails, TakeToken,
         LogIn, ConnectFails, Healthy, HealthFails, NewServer, NewServerFails,
         frontVars, limiterVars
<1>3. /\ general' \in [Clients -> [Buckets -> Int]]
      /\ authentic' \in [Clients -> [Buckets -> Int]]
  <2>1. CASE Begin
    <3>1. cfg \in ConfigType
      BY <2>1, EffectiveType
      DEF Begin, NewServer, FrontInv, StartInv, StartupTypeOK, ConfigLoaded
    <3>2. cfg.limits.burst \in Int /\ cfg.limits.authBurst \in Int
      BY <3>1 DEF ConfigType, LimitsType
    <3> QED
      BY <2>1, <3>2 DEF Begin
  <2>2. CASE UNCHANGED frontVars
    BY <2>2 DEF FrontInv, TypeOK, frontVars, limiterVars
  <2> QED
    BY <2>1, <2>2 DEF ComeUp
<1>4. TypeOK'
  BY <1>1, <1>2, <1>3 DEF FrontInv, TypeOK, StartInv, answerVars
<1>5. ASSUME NEW r \in Requests PROVE RequestOK(r)'
  <2>1. /\ req[r] = NoRequest /\ todo[r] = <<>> /\ creds[r] = "unasked" /\ Fresh(r)
    BY <1>2 DEF FrontInv, RequestOK, OnItsWay
  <2>2. /\ req'[r] = NoRequest /\ todo'[r] = <<>> /\ creds'[r] = "unasked" /\ Fresh(r)'
    BY <1>2, <2>1 DEF answerVars, Fresh
  <2> QED
    BY <2>2, LastWays
    DEF RequestOK, OnItsWay, Ways, AuthFollowed, ReportMade, AnswerKnown,
        RecordTruthful, Ended, Arrived, Fresh
<1>6. GaugeOK'
  <2>1. gauge' = 0
    BY <1>2 DEF FrontInv, GaugeOK
  <2>2. Counted' = {}
    BY <1>2 DEF FrontInv, RequestOK, OnItsWay, Counted, Inside
  <2> QED
    BY <2>1, <2>2, FS_EmptySet DEF GaugeOK
<1> QED
  BY <1>1, <1>4, <1>5, <1>6 DEF FrontInv

(* A step that leaves requests, configuration and phase alone.             *)
LEMMA RequestsStutter ==
  ASSUME FrontInv, StartInv', TypeOK', phase' = phase, cfg' = cfg,
         UNCHANGED <<req, todo, answerVars, gauge>>
  PROVE  FrontInv'
<1>1. ASSUME NEW r \in Requests PROVE Untouched(r)
  BY DEF answerVars, Untouched
<1>2. \A r \in Requests : RequestOK(r)'
  BY <1>1, UntouchedOK DEF FrontInv
<1>3. \A r \in Requests : Inside(r)' <=> Inside(r)
  BY RoutesKept DEF Inside
<1>4. GaugeOK'
  BY <1>3 DEF FrontInv, GaugeOK, Counted
<1> QED
  BY <1>2, <1>4 DEF FrontInv

(* Refilled buckets are levels of buckets.                                  *)
LEMMA RefilledType ==
  ASSUME NEW n \in Int, NEW rate \in Int, NEW burst \in Int
  PROVE  Refilled(n, rate, burst) \in Int
BY DEF Refilled

(* Every step of the service keeps the invariant.                           *)
LEMMA FrontStep == FrontInv /\ [Next]_vars => FrontInv'
<1> SUFFICES ASSUME FrontInv, [Next]_vars PROVE FrontInv'
  OBVIOUS
<1>0. StartInv'
  BY StartStep DEF FrontInv
<1>1. CASE ComeUp
  BY <1>1, ComeUpStep
<1>2. ASSUME NEW r \in Requests, Arrive(r) \/ Serve(r) PROVE FrontInv'
  <2>1. TypeOK /\ StartInv /\ RequestOK(r) /\ OnItsWay(r)
    BY DEF FrontInv, RequestOK
  <2>2. TypeOK'
    BY <1>2, <2>1, ServeType
  <2>3. RequestOK(r)'
    BY <1>2, <2>1, ServeOK
  <2>4. phase' = phase /\ cfg' = cfg
    BY <1>2, ServingIsNotStarting DEF startupVars
  <2>5. \A q \in Requests : q # r => RequestOK(q)'
    BY <1>2, <2>1, <2>4, OthersUntouched, UntouchedOK DEF FrontInv
  <2>6. GaugeOK'
    BY <1>2, <2>1, <2>3, ServeGauge DEF FrontInv
  <2> QED
    BY <1>0, <2>2, <2>3, <2>5, <2>6 DEF FrontInv
<1>3. CASE Tick
  <2>1. cfg \in ConfigType
    BY <1>3, EffectiveType
    DEF Tick, Running, FrontInv, StartInv, StartupTypeOK, ConfigLoaded
  <2>2. /\ cfg.limits.rate \in Int /\ cfg.limits.burst \in Int
        /\ cfg.limits.authRate \in Int /\ cfg.limits.authBurst \in Int
    BY <2>1 DEF ConfigType, LimitsType
  <2>3. /\ general' \in [Clients -> [Buckets -> Int]]
        /\ authentic' \in [Clients -> [Buckets -> Int]]
    <3>1. ASSUME NEW c \in Clients, NEW b \in Buckets
          PROVE  /\ Refilled(general[c][b], cfg.limits.rate, cfg.limits.burst) \in Int
                 /\ Refilled(authentic[c][b], cfg.limits.authRate, cfg.limits.authBurst)
                      \in Int
      BY <2>2, RefilledType DEF FrontInv, TypeOK
    <3> QED
      BY <1>3, <3>1, Zenon DEF Tick
  <2>4. ticks' \in 0..MaxTicks
    BY <1>3, FrontAssumption DEF Tick, FrontInv, TypeOK
  <2>5. TypeOK'
    BY <1>0, <1>3, <2>3, <2>4 DEF Tick, FrontInv, TypeOK, StartInv, answerVars
  <2> QED
    BY <1>0, <1>3, <2>5, RequestsStutter DEF Tick, startupVars
<1>4. CASE Age
  <2>1. TypeOK'
    BY <1>0, <1>4 DEF Age, FrontInv, TypeOK, StartInv, frontVars, answerVars, limiterVars
  <2> QED
    BY <1>0, <1>4, <2>1, RequestsStutter DEF Age, frontVars
<1>5. CASE UNCHANGED vars
  <2>1. TypeOK'
    BY <1>0, <1>5
    DEF FrontInv, TypeOK, StartInv, vars, frontVars, answerVars, limiterVars
  <2> QED
    BY <1>0, <1>5, <2>1, RequestsStutter DEF vars, frontVars, startupVars
<1>6. ASSUME NEW l \in Limiters, NEW c \in Clients, Forget(l, c) PROVE FrontInv'
  <2>1. visitors' \in [Limiters -> [Clients -> Buckets]]
    <3>1. visitors[l][c] \in Buckets /\ visitors[l][c] <= MaxSweeps
      BY <1>6 DEF Forget, FrontInv, TypeOK
    <3>2. visitors[l][c] + 1 \in Buckets
      BY <3>1, FrontAssumption DEF Buckets
    <3> QED
      BY <1>6, <3>2 DEF Forget, FrontInv, TypeOK
  <2>2. TypeOK'
    BY <1>0, <1>6, <2>1 DEF Forget, FrontInv, TypeOK, StartInv, answerVars
  <2> QED
    BY <1>0, <1>6, <2>2, RequestsStutter DEF Forget, startupVars
<1> QED
  BY <1>1, <1>2, <1>3, <1>4, <1>5, <1>6 DEF Next, Settled

(* Hence it holds of every behaviour.                                       *)
LEMMA Invariance == Spec => []FrontInv
BY FrontInit, FrontStep, PTL DEF Spec

(* Every variable keeps its type.                                          *)
THEOREM TypeCorrect == Spec => []TypeOK
<1>1. FrontInv => TypeOK
  BY DEF FrontInv
<1> QED
  BY <1>1, Invariance, PTL

(* What is internal is told to nobody unknown (authMiddleware), for any    *)
(* file and environment and whatever else the service is asked.            *)
THEOREM InternalStaysGuarded == Spec => []InternalGuarded
<1>1. FrontInv => InternalGuarded
  <2> SUFFICES ASSUME FrontInv, NEW r \in Requests, Arrived(r),
                      req[r].path \in Internal, sent[r] \in {200, 503}
               PROVE  \/ creds[r] = "accepted"
                      \/ file.internalAuth = "off"
                      \/ /\ file.internalAuth = "unset"
                         /\ file.dev /\ env.confirmed /\ ~env.production
    BY DEF InternalGuarded
  <2>1. phase = "running"
    BY DEF FrontInv, RequestOK, OnItsWay, Arrived
  <2>2. CASE cfg.internalAuth
    BY <2>2 DEF FrontInv, RequestOK, AuthFollowed, Guarded
  <2>3. CASE ~cfg.internalAuth
    <3>1. StartedAsConfigured
      BY StartInvGood DEF FrontInv
    <3>2. \/ cfg.internalAuth
          \/ file.internalAuth = "off"
          \/ /\ file.dev /\ env.confirmed /\ ~env.production
             /\ file.internalAuth = "unset"
      BY ONLY <2>1, <3>1, Zenon DEF StartedAsConfigured
    <3> QED
      BY <2>3, <3>2
  <2> QED
    BY <2>2, <2>3
<1> QED
  BY <1>1, Invariance, PTL

(* Whatever panics, and in whatever order requests are served, the metrics *)
(* tell the truth (loggingMiddleware, recoveryMiddleware).                 *)
THEOREM RecordsStayTruthful == Spec => []RecordsTruthful
<1>1. FrontInv => RecordsTruthful
  <2> SUFFICES ASSUME FrontInv, Running PROVE RecordsTruthful
    BY DEF RecordsTruthful
  <2>1. gauge = IF cfg.metrics THEN Cardinality({r \in Requests : Inside(r)}) ELSE 0
    BY DEF FrontInv, GaugeOK, Running, Counted
  <2>2. \A r \in Requests : RecordTruthful(r)
    BY DEF FrontInv, RequestOK
  <2> QED
    BY <2>1, <2>2, Zenon DEF RecordsTruthful, RecordTruthful
<1> QED
  BY <1>1, Invariance, PTL

(* The classes of days are those of hours, but for the hours below zero.   *)
LEMMA DaysAreHours ==
  ASSUME NEW h \in Int
  PROVE  /\ h >= 0 => CertStatus(h) = MonitorStatus(h)
         /\ h < 0 /\ h >= -1 => CertStatus(h) = "critical"
<1>1. CASE h >= 0
  <2>1. Days(h) = h \div 24 /\ Days(h) \in Int
    BY <1>1 DEF Days
  <2>2. /\ Days(h) >= 0
        /\ Days(h) <= 6 <=> h <= 7 * 24 - 1
        /\ Days(h) <= 29 <=> h <= 30 * 24 - 1
    BY <1>1, <2>1
  <2> QED
    BY <1>1, <2>1, <2>2 DEF CertStatus, MonitorStatus
<1>2. CASE h = -1
  <2>1. Days(h) = 0
    BY <1>2 DEF Days
  <2> QED
    BY <1>2, <2>1 DEF CertStatus
<1> QED
  BY <1>1, <1>2

(* What a reply and its delay mean to each of the endpoints.               *)
LEMMA StatusFacts ==
  ASSUME NEW reply \in Replies, NEW seconds \in Nat, NEW tls \in BOOLEAN, NEW hours \in Int
  PROVE  /\ StatusCode("ready", reply, seconds, tls, hours) = 200
              => StatusCode("health", reply, seconds, tls, hours) = 200
         /\ StatusCode("health", reply, seconds, tls, hours) = 503
              => StatusCode("deep", reply, seconds, tls, hours) = 503
         /\ StatusCode("deep", reply, seconds, tls, hours) = 503
              => Overall(reply, seconds, tls, hours) # "healthy"
         /\ reply # "error" /\ Overall(reply, seconds, tls, hours) = "healthy"
              => StatusCode("ready", reply, seconds, tls, hours) = 200
<1>1. Patience["ready"] = 2 /\ Patience["health"] = 5 /\ Patience["deep"] = 5
  BY DEF Patience, Endpoints
<1>2. BackendStatus(reply, seconds) = "unhealthy"
        <=> ~(Reached("health", reply, seconds) /\ reply # "sealed")
  BY <1>1 DEF BackendStatus, Reached, Replies
<1>3. BackendStatus(reply, seconds) = "healthy"
        => Reached("ready", reply, seconds) /\ reply # "sealed"
  BY <1>1 DEF BackendStatus, Reached, Replies
<1>4. /\ Overall(reply, seconds, tls, hours) = "unhealthy"
           <=> BackendStatus(reply, seconds) = "unhealthy"
      /\ Overall(reply, seconds, tls, hours) = "healthy"
           => BackendStatus(reply, seconds) = "healthy"
  BY DEF Overall
<1>5. Reached("ready", reply, seconds) => Reached("health", reply, seconds)
  BY <1>1 DEF Reached
<1> QED
  BY <1>2, <1>3, <1>4, <1>5 DEF StatusCode

(* With a critical certificate the deep check does not answer healthy.      *)
LEMMA CriticalSeen ==
  ASSUME NEW reply, NEW seconds, NEW hours, CertStatus(hours) = "critical"
  PROVE  Overall(reply, seconds, TRUE, hours) # "healthy"
BY DEF Overall

(* The endpoints agree with each other and with the monitor, whatever the  *)
(* backend replies and however late (healthHandler, readyHandler,          *)
(* deepHealthHandler, checkCertificateExpiry).                             *)
THEOREM HealthStaysConsistent == Spec => []HealthAgrees
<1>1. FrontInv => HealthAgrees
  <2> SUFFICES ASSUME FrontInv PROVE HealthAgrees
    OBVIOUS
  <2>1. ASSUME NEW r \in Requests, Told(r)
        PROVE  /\ report[r].reply \in Replies /\ report[r].seconds \in Nat
               /\ report[r].hours \in Int /\ cfg.tls \in BOOLEAN
               /\ cfg.tls => report[r].hours >= -1
               /\ sent[r] = StatusCode(req[r].path, report[r].reply,
                                       report[r].seconds, cfg.tls, report[r].hours)
    <3>1. phase = "running" /\ ReportMade(r) /\ report[r] \in Reports
      BY <2>1 DEF Told, FrontInv, TypeOK, RequestOK, OnItsWay, Arrived
    <3>2. cfg \in ConfigType
      BY <3>1, EffectiveType DEF FrontInv, StartInv, StartupTypeOK, ConfigLoaded
    <3> QED
      BY <2>1, <3>1, <3>2, FrontAssumption DEF Told, ReportMade, Reports, ConfigType
  <2>2. ASSUME NEW r \in Requests, NEW s \in Requests, Told(r), Told(s),
               report[r] = report[s]
        PROVE  /\ req[r].path = "ready" /\ req[s].path = "health" /\ sent[r] = 200
                    => sent[s] = 200
               /\ req[r].path = "health" /\ req[s].path = "deep" /\ sent[r] = 503
                    => sent[s] = 503
               /\ req[s].path = "ready" /\ report[r].reply # "error"
                    /\ Verdict(r) = "healthy"
                    => sent[s] = 200
    BY <2>1, <2>2, StatusFacts DEF Verdict
  <2>3. ASSUME NEW r \in Requests, Told(r)
        PROVE  LET h == report[r].hours
               IN  /\ req[r].path = "deep" /\ sent[r] = 503 => Verdict(r) # "healthy"
                   /\ cfg.tls =>
                        /\ h >= 0 => CertStatus(h) = MonitorStatus(h)
                        /\ h < 0 => CertStatus(h) = "critical"
                        /\ h < 0 => Verdict(r) # "healthy"
    <3> DEFINE h == report[r].hours
    <3>1. /\ report[r].reply \in Replies /\ report[r].seconds \in Nat
          /\ h \in Int /\ cfg.tls \in BOOLEAN /\ (cfg.tls => h >= -1)
      BY <2>1, <2>3
    <3>2. req[r].path = "deep" /\ sent[r] = 503 => Verdict(r) # "healthy"
      BY <2>1, <2>3, StatusFacts DEF Verdict
    <3>3. cfg.tls => /\ h >= 0 => CertStatus(h) = MonitorStatus(h)
                     /\ h < 0 => CertStatus(h) = "critical"
      <4> SUFFICES ASSUME cfg.tls
                   PROVE  /\ h >= 0 => CertStatus(h) = MonitorStatus(h)
                          /\ h < 0 => CertStatus(h) = "critical"
        OBVIOUS
      <4>1. h \in Int /\ h >= -1
        BY <3>1
      <4> HIDE DEF h
      <4> QED
        BY <4>1, DaysAreHours
    <3>4. cfg.tls /\ CertStatus(h) = "critical" => Verdict(r) # "healthy"
      BY <3>1, CriticalSeen DEF Verdict
    <3> QED
      BY <3>2, <3>3, <3>4
  <2> QED
    <3> DEFINE Informed == {t \in Requests : Told(t)}
    <3>1. ASSUME NEW r \in Informed, NEW s \in Informed, report[r] = report[s]
          PROVE  /\ req[r].path = "ready" /\ req[s].path = "health" /\ sent[r] = 200
                      => sent[s] = 200
                 /\ req[r].path = "health" /\ req[s].path = "deep" /\ sent[r] = 503
                      => sent[s] = 503
                 /\ req[s].path = "ready" /\ report[r].reply # "error"
                      /\ Verdict(r) = "healthy"
                      => sent[s] = 200
      BY <2>2, <3>1
    <3>2. ASSUME NEW r \in Informed
          PROVE  LET h == report[r].hours
                 IN  /\ req[r].path = "deep" /\ sent[r] = 503
                          => Verdict(r) # "healthy"
                     /\ cfg.tls =>
                          /\ h >= 0 => CertStatus(h) = MonitorStatus(h)
                          /\ h < 0 => CertStatus(h) = "critical"
                          /\ h < 0 => Verdict(r) # "healthy"
      BY <2>3
    <3> QED
      BY ONLY <3>1, <3>2, Zenon DEF HealthAgrees
<1> QED
  BY <1>1, Invariance, PTL


-------------------------------------------------------------------------------
(* The budgets of the two limiters, by what requests show of them.         *)
Above(n) == IF n > 0 THEN n ELSE 0

(* After t seconds no more was taken from a bucket than was ever in it, and *)
(* it lacks no more than was tried.                                         *)
Kept(level, burst, rate, t, taken, tried) ==
  /\ taken + Above(level) <= Above(burst) + Above(rate) * t
  /\ level >= burst - tried

(* Behind the general limiter, with credentials checked or stages ahead;   *)
(* and whatever the general limiter has decided about.                     *)
IsAdmitted(r) ==
  Arrived(r) /\ (creds[r] # "unasked" \/ (todo[r] # <<>> /\ ~At(r, "general")))
IsTried(r) == Arrived(r) /\ ~At(r, "general")

(* The same of the limiter for enrollment.                                 *)
IsChecked(r) ==
  /\ Arrived(r) /\ req[r].path \in Enrolling
  /\ creds[r] # "unasked" \/ At(r, "method") \/ At(r, "auth")
IsTriedAuth(r) ==
  /\ Arrived(r) /\ req[r].path \in Enrolling
  /\ ~At(r, "general") /\ ~At(r, "route") /\ ~At(r, "limit")

(* Of the requests that share the b-th bucket of a client.                 *)
Admitted(c, b) == {r \in Sharing("general", c, b) : IsAdmitted(r)}
Tried(c, b) == {r \in Sharing("general", c, b) : IsTried(r)}
Checked(c, b) == {r \in Sharing("limit", c, b) : IsChecked(r)}
TriedAuth(c, b) == {r \in Sharing("limit", c, b) : IsTriedAuth(r)}

GeneralKept ==
  Running /\ Limiting =>
    \A c \in Clients, b \in Buckets :
      Kept(general[c][b], cfg.limits.burst, cfg.limits.rate, ticks,
           Cardinality(Admitted(c, b)), Cardinality(Tried(c, b)))

AuthKept ==
  Running /\ AuthLimiting =>
    \A c \in Clients, b \in Buckets :
      Kept(authentic[c][b], cfg.limits.authBurst, cfg.limits.authRate, ticks,
           Cardinality(Checked(c, b)), Cardinality(TriedAuth(c, b)))

(* A limiter is ahead of r only if there is one for r, and only while      *)
(* nobody has looked at r's credentials.                                   *)
LimiterAhead(r) ==
  /\ At(r, "general") => Limiting
  /\ At(r, "limit") => AuthLimiting /\ req[r].path \in Enrolling
  /\ creds[r] # "unasked" => ~At(r, "general") /\ ~At(r, "route") /\ ~At(r, "limit")

(* Who has passed a limiter had a bucket to pay into.                      *)
Charged(r) ==
  /\ Limiting /\ IsAdmitted(r) => limiter["general"][r] # 0
  /\ AuthLimiting /\ IsChecked(r) => limiter["limit"][r] # 0

(* Who is turned away is not alone: others have spent the bucket.          *)
Excused(r) ==
  Arrived(r) /\ sent[r] = 429 =>
    \/ Spent("general", r, cfg.limits.burst)
    \/ /\ req[r].path \in Enrolling
       /\ AuthLimiting
       /\ Spent("limit", r, cfg.limits.authBurst)

LimitsInv ==
  /\ GeneralKept
  /\ AuthKept
  /\ \A r \in Requests : LimiterAhead(r) /\ Charged(r) /\ Excused(r)

(* Seconds are worth nothing or something.                                 *)
LEMMA Worth ==
  ASSUME NEW n \in Nat, NEW t \in Nat
  PROVE  /\ n * t \in Nat
         /\ n * (t + 1) = n * t + n
OBVIOUS

(* Whatever a number is, what there is of it above zero is a natural.      *)
LEMMA AboveZero ==
  ASSUME NEW n \in Int
  PROVE  Above(n) \in Nat /\ Above(n) >= n
BY DEF Above

(* A full bucket of which nobody has taken anything.                       *)
LEMMA KeptFull ==
  ASSUME NEW burst \in Int, NEW rate \in Int, NEW t \in Nat
  PROVE  Kept(burst, burst, rate, t, 0, 0)
<1>1. Above(burst) \in Nat /\ Above(rate) * t \in Nat
  BY AboveZero, Worth
<1> DEFINE b == Above(burst) w == Above(rate) * t
<1> HIDE DEF b, w
<1>2. 0 + b <= b + w
  BY <1>1 DEF b, w
<1> QED
  BY <1>2 DEF Kept, b, w

(* A second gives the bucket no more than its rate, and takes nothing but  *)
(* what is above the burst.                                                *)
LEMMA KeptTick ==
  ASSUME NEW level \in Int, NEW burst \in Int, NEW rate \in Int, NEW t \in Nat,
         NEW taken \in Nat, NEW tried \in Nat,
         Kept(level, burst, rate, t, taken, tried)
  PROVE  Kept(Refilled(level, rate, burst), burst, rate, t + 1, taken, tried)
<1> DEFINE next == Refilled(level, rate, burst)
           w == Above(rate) * t
<1>1. /\ Above(rate) * (t + 1) = w + Above(rate) /\ w \in Nat
      /\ Above(rate) \in Nat /\ Above(burst) \in Nat
  BY AboveZero, Worth
<1>2. next \in Int /\ Above(next) <= Above(level) + Above(rate)
  BY DEF Refilled, Above
<1>3. next >= burst - tried
  BY DEF Refilled, Kept
<1>4. taken + Above(level) <= Above(burst) + w /\ Above(level) \in Nat /\ Above(next) \in Nat
  BY <1>2, AboveZero DEF Kept
<1> HIDE DEF next, w
<1>5. taken + Above(next) <= Above(burst) + (w + Above(rate))
  BY <1>1, <1>2, <1>4
<1> QED
  BY <1>1, <1>3, <1>5 DEF Kept, next

(* One element more at most.                                               *)
LEMMA AtMostOneMore ==
  ASSUME NEW U, NEW V, NEW e, IsFiniteSet(U), V \subseteq U \cup {e}
  PROVE  /\ Cardinality(U) \in Nat /\ Cardinality(V) \in Nat
         /\ Cardinality(V) <= Cardinality(U) + 1
<1>1. /\ IsFiniteSet(U \cup {e})
      /\ \/ Cardinality(U \cup {e}) = Cardinality(U)
         \/ Cardinality(U \cup {e}) = Cardinality(U) + 1
  BY FS_AddElement
<1>2. Cardinality(U) \in Nat
  BY FS_CardinalityType
<1>3. /\ IsFiniteSet(V) /\ Cardinality(V) \in Nat
      /\ Cardinality(V) <= Cardinality(U \cup {e})
  BY <1>1, FS_Subset, FS_CardinalityType
<1> QED
  BY <1>1, <1>2, <1>3

(* One element more at least.                                              *)
LEMMA AtLeastOneMore ==
  ASSUME NEW L, NEW M, NEW e, IsFiniteSet(M), e \notin L, L \cup {e} \subseteq M
  PROVE  /\ Cardinality(L) \in Nat /\ Cardinality(M) \in Nat
         /\ Cardinality(L) + 1 <= Cardinality(M)
<1>1. IsFiniteSet(L) /\ Cardinality(L) \in Nat /\ Cardinality(M) \in Nat
  BY FS_Subset, FS_CardinalityType
<1>2. IsFiniteSet(L \cup {e}) /\ Cardinality(L \cup {e}) = Cardinality(L) + 1
  BY <1>1, FS_AddElement
<1> QED
  BY <1>1, <1>2, FS_Subset

(* A bucket pays one for a request that has not tried it before.           *)
LEMMA KeptPaid ==
  ASSUME NEW level \in Int, NEW burst \in Int, NEW rate \in Int, NEW t \in Nat,
         NEW taken \in Nat, NEW tried \in Nat, NEW taken2 \in Nat, NEW tried2 \in Nat,
         Kept(level, burst, rate, t, taken, tried),
         level >= 1, taken2 <= taken + 1, tried + 1 <= tried2
  PROVE  Kept(level - 1, burst, rate, t, taken2, tried2)
<1>1. Above(level - 1) = Above(level) - 1 /\ Above(level) \in Nat
  BY DEF Above
<1>2. Above(burst) + Above(rate) * t \in Nat
  BY AboveZero, Worth
<1> DEFINE most == Above(burst) + Above(rate) * t
<1> HIDE DEF most
<1>3. taken + Above(level) <= most /\ level >= burst - tried
  BY DEF Kept, most
<1>4. taken2 + Above(level - 1) <= most /\ level - 1 >= burst - tried2
  BY <1>1, <1>2, <1>3 DEF most
<1> QED
  BY <1>4 DEF Kept, most

(* A bucket that is left alone, whoever has been turned away.              *)
LEMMA KeptAlone ==
  ASSUME NEW level \in Int, NEW burst \in Int, NEW rate \in Int, NEW t \in Nat,
         NEW U, NEW V, NEW L, NEW M, IsFiniteSet(U), IsFiniteSet(M),
         Kept(level, burst, rate, t, Cardinality(U), Cardinality(L)),
         V \subseteq U, L \subseteq M
  PROVE  Kept(level, burst, rate, t, Cardinality(V), Cardinality(M))
<1>1. /\ Cardinality(U) \in Nat /\ Cardinality(V) \in Nat
      /\ Cardinality(V) <= Cardinality(U)
  BY FS_Subset, FS_CardinalityType
<1>2. /\ Cardinality(L) \in Nat /\ Cardinality(M) \in Nat
      /\ Cardinality(L) <= Cardinality(M)
  BY FS_Subset, FS_CardinalityType
<1>3. Above(burst) + Above(rate) * t \in Nat /\ Above(level) \in Nat
  BY AboveZero, Worth
<1> DEFINE most == Above(burst) + Above(rate) * t
<1> HIDE DEF most
<1>4. Cardinality(U) + Above(level) <= most /\ level >= burst - Cardinality(L)
  BY DEF Kept, most
<1>5. Cardinality(V) + Above(level) <= most /\ level >= burst - Cardinality(M)
  BY <1>1, <1>2, <1>3, <1>4 DEF most
<1> QED
  BY <1>5 DEF Kept, most

-------------------------------------------------------------------------------
(* The ways with no limiter ahead.                                         *)
Free == {w \in Inner : Head(w) # "limit"} \cup {<<>>, <<"close">>}

(* Behind the limiter of a way no other follows.                           *)
LEMMA NoLimitFollows ==
  ASSUME NEW w \in Inner, Head(w) \in {"limit", "method", "auth"}
  PROVE  Tail(w) \in Free
<1>1. CASE w = <<"limit", "method", "auth", "work">>
  BY <1>1 DEF Inner, Free
<1>2. CASE w = <<"method", "auth", "work">>
  BY <1>2 DEF Inner, Free
<1>3. CASE w = <<"auth", "method", "work">>
  BY <1>3 DEF Inner, Free
<1>4. CASE w = <<"auth", "work">>
  BY <1>4 DEF Inner, Free
<1>5. CASE w = <<"method", "work">>
  BY <1>5 DEF Inner, Free
<1>6. CASE w = <<"method", "chain">>
  BY <1>6 DEF Inner, Free
<1>7. CASE w \in {<<"work">>, <<"chain">>, <<"single">>}
  BY <1>7
<1> QED
  BY <1>1, <1>2, <1>3, <1>4, <1>5, <1>6, <1>7 DEF Inner

(* On a free way neither limiter is ahead, nor the mux.                    *)
LEMMA FreeWays ==
  ASSUME NEW w \in Free
  PROVE  w # <<>> => Head(w) \notin {"general", "route", "limit"}
<1>1. CASE w \in Inner
  BY <1>1, InnerWays DEF Free
<1>2. CASE w = <<"close">>
  BY <1>2, LastWays
<1> QED
  BY <1>1, <1>2 DEF Free

(* The limiter for enrollment comes first where it comes at all.           *)
LEMMA LimitComesFirst ==
  ASSUME NEW p \in Paths
  PROVE  /\ Head(Chain(p)) = "limit" => AuthLimiting /\ p \in Enrolling
         /\ AuthLimiting /\ p \in Enrolling => Head(Chain(p)) = "limit"
<1>1. CASE p \in Enrolling
  <2>1. Handler(p) = <<"method", "auth", "work">> /\ ~Guarded(p)
    BY <1>1 DEF Handler, Enrolling, Guarded, Internal
  <2>2. Chain(p) = IF AuthLimiting THEN <<"limit">> \o <<"method", "auth", "work">>
                   ELSE <<"method", "auth", "work">>
    BY <1>1, <2>1 DEF Chain
  <2> QED
    BY <1>1, <2>2
<1>2. CASE p \notin Enrolling /\ Guarded(p)
  BY <1>2, ChainFacts
<1>3. CASE p \notin Enrolling /\ ~Guarded(p)
  <2>1. Chain(p) = Handler(p)
    BY <1>3 DEF Chain
  <2>2. CASE p = "cacerts"
    BY <1>3, <2>1, <2>2 DEF Handler
  <2>3. CASE p \in {"swagger", "metrics"}
    BY <1>3, <2>1, <2>3 DEF Handler
  <2>4. CASE p \in {"csrattrs", "health", "ready", "deep"}
    BY <1>3, <2>1, <2>4 DEF Handler
  <2> QED
    BY <1>3, <2>2, <2>3, <2>4 DEF Paths, Internal
<1> QED
  BY <1>1, <1>2, <1>3

(* Steps in the handlers' part and behind it meet no limiter again.        *)
LEMMA BecomesFree ==
  ASSUME TypeOK, StartInv, NEW r \in Requests, RequestOK(r),
         \/ PassAuthLimit(r) \/ CheckMethod(r) \/ Authenticate(r) \/ TellHealth(r)
         \/ Work(r) \/ ReadChain(r) \/ ReadSingle(r) \/ Panic(r) \/ Record(r)
  PROVE  todo'[r] \in Free
<1>1. \/ \E stage \in {"limit", "method", "auth"} : At(r, stage) /\ GoOn(r)
      \/ todo' = [todo EXCEPT ![r] = <<"single">>]
      \/ \E known, code : Answer(r, known, code)
      \/ Record(r)
  BY DEF PassAuthLimit, CheckMethod, Authenticate, TellHealth, Work, ReadChain,
         ReadSingle, Panic
<1>2. ASSUME NEW stage \in {"limit", "method", "auth"}, At(r, stage), GoOn(r)
      PROVE  todo'[r] \in Free
  <2>1. todo[r] \in Inner /\ Head(todo[r]) = stage /\ todo[r] # <<>>
    BY <1>2, Within DEF At
  <2> QED
    BY <1>2, <2>1, NoLimitFollows, GoOnType
<1>3. CASE todo' = [todo EXCEPT ![r] = <<"single">>]
  BY <1>3 DEF TypeOK, Free, Inner
<1>4. ASSUME NEW known, NEW code, Answer(r, known, code)
      PROVE  todo'[r] \in Free
  BY <1>4 DEF Answer, TypeOK, WayBack, Free
<1>5. CASE Record(r)
  <2>1. todo[r] # <<>> /\ Head(todo[r]) = "close"
    BY <1>5 DEF Record, At
  <2>2. todo[r] = <<"close">>
    BY <2>1, InnerWays, OuterWays DEF RequestOK, OnItsWay, Ways
  <2> QED
    BY <1>5, <2>2, LastWays DEF Record, GoOn, TypeOK, Free
<1> QED
  BY <1>1, <1>2, <1>3, <1>4, <1>5

(* The general limiter leads to the mux or out.                            *)
LEMMA BehindGeneral ==
  ASSUME TypeOK, StartInv, NEW r \in Requests, RequestOK(r), PassGeneral(r)
  PROVE  /\ req[r].client \in Clients /\ Arrived(r) /\ At(r, "general")
         /\ todo'[r] \in {<<>>, <<"route">>}
         /\ limiter["general"][r] \in Buckets
<1>1. /\ todo[r] # <<>> /\ Head(todo[r]) = "general"
      /\ GoOn(r) \/ TurnAway(r, 429)
  BY DEF PassGeneral, At
<1>2. todo[r] = <<"general", "route">>
  BY <1>1, InnerWays, LastWays DEF RequestOK, OnItsWay, Ways, Outer
<1>3. req[r].client \in Clients /\ Arrived(r)
  BY <1>1, Ahead DEF RequestOK, Arrived
<1>4. todo'[r] \in {<<>>, <<"route">>}
  BY <1>1, <1>2 DEF GoOn, TurnAway, TypeOK
<1>5. limiter["general"][r] \in Buckets
  BY DEF PassGeneral, TypeOK, Limiters
<1> QED
  BY <1>1, <1>3, <1>4, <1>5 DEF At

(* The mux leads into a chain or out.                                      *)
LEMMA BehindRoute ==
  ASSUME TypeOK, StartInv, NEW r \in Requests, RequestOK(r), Route(r)
  PROVE  /\ Arrived(r) /\ At(r, "route") /\ req[r].path \in Paths
         /\ todo'[r] = <<>> \/ todo'[r] = Chain(req[r].path)
<1>1. At(r, "route") /\ todo[r] # <<>>
  BY DEF Route, At
<1>2. Arrived(r) /\ req[r].path \in Paths
  BY <1>1, Ahead DEF RequestOK, Arrived
<1>3. todo'[r] = <<>> \/ todo'[r] = Chain(req[r].path)
  BY DEF Route, TurnAway, TypeOK
<1> QED
  BY <1>1, <1>2, <1>3

(* Behind the mux a request has arrived.                                   *)
LEMMA Served ==
  ASSUME TypeOK, StartInv, NEW r \in Requests, RequestOK(r), Serve(r)
  PROVE  Arrived(r) /\ req' = req /\ todo[r] # <<>> /\ req[r].client \in Clients
<1>1. todo[r] # <<>> /\ req' = req
  BY DEF Serve, Visit, PassGeneral, Route, PassAuthLimit, CheckMethod, Authenticate,
         TellHealth, Work, ReadChain, ReadSingle, Panic, Record, At
<1> QED
  BY <1>1, Ahead DEF RequestOK, Arrived

(* Who arrives stands before everything.                                   *)
LEMMA Arrives ==
  ASSUME TypeOK, StartInv, NEW r \in Requests, RequestOK(r), Arrive(r)
  PROVE  /\ ~Arrived(r) /\ creds[r] = "unasked" /\ sent[r] = 0
         /\ todo'[r] = IF Limiting THEN <<"general", "route">> ELSE <<"route">>
         /\ UNCHANGED <<startupVars, answerVars, limiterVars>>
BY DEF Arrive, Arrived, RequestOK, OnItsWay, Fresh, TypeOK, limiterVars

(* A bucket that was handed out stays with whom it was handed to, and only *)
(* who stands before a limiter is handed one.                              *)
LEMMA BucketsStay ==
  ASSUME TypeOK, NEW r \in Requests, Arrive(r) \/ Serve(r),
         NEW q \in Requests, NEW l \in Limiters,
         q # r \/ limiter[l][q] # 0 \/ ~At(q, l)
  PROVE  limiter'[l][q] = limiter[l][q]
<1>1. CASE Visit(r)
  <2>1. PICK k \in Limiters :
          /\ At(r, k) /\ limiter[k][r] = 0
          /\ limiter' = [limiter EXCEPT ![k][r] = visitors[k][req[r].client]]
    BY <1>1, Zenon DEF Visit
  <2>2. q # r \/ l # k
    BY <2>1
  <2> QED
    BY <2>1, <2>2 DEF TypeOK
<1>2. CASE ~Visit(r)
  BY <1>2
  DEF Arrive, Serve, PassGeneral, Route, PassAuthLimit, CheckMethod, Authenticate,
      TellHealth, Work, ReadChain, ReadSingle, Panic, Record, limiterVars
<1> QED
  BY <1>1, <1>2

(* Being handed a bucket is all that happens to a request then.            *)
LEMMA Visits ==
  ASSUME NEW r \in Requests, Visit(r)
  PROVE  /\ At(r, "general") \/ At(r, "limit")
         /\ req' = req /\ todo' = todo /\ creds' = creds /\ sent' = sent
         /\ general' = general /\ authentic' = authentic
         /\ \A stage : At(r, stage)' <=> At(r, stage)
<1>1. /\ At(r, "general") \/ At(r, "limit")
      /\ req' = req /\ todo' = todo /\ creds' = creds /\ sent' = sent
      /\ general' = general /\ authentic' = authentic
  BY DEF Visit, Limiters, answerVars
<1> QED
  BY <1>1 DEF At

(* The first limiter is paid once by a request, and nothing else counts.   *)
LEMMA GeneralMoves ==
  ASSUME TypeOK, StartInv, NEW r \in Requests, RequestOK(r), LimiterAhead(r),
         Limiting, Arrive(r) \/ Serve(r)
  PROVE  \/ /\ PassGeneral(r) /\ req' = req /\ req[r].client \in Clients
            /\ limiter' = limiter /\ limiter["general"][r] \in Buckets
            /\ general[req[r].client][limiter["general"][r]] >= 1
            /\ general' = [general EXCEPT ![req[r].client][limiter["general"][r]]
                                           = @ - 1]
            /\ ~IsTried(r) /\ IsTried(r)'
         \/ /\ general' = general
            /\ IsAdmitted(r)' => IsAdmitted(r)
            /\ IsTried(r) => IsTried(r)'
            /\ \/ /\ req' = req
                  /\ limiter'["general"][r] = limiter["general"][r]
               \/ ~IsAdmitted(r)' /\ ~IsTried(r)
<1> DEFINE c == req[r].client
           b == limiter["general"][r]
<1>0. "general" \in Limiters
  BY DEF Limiters
<1>1. CASE Arrive(r)
  <2>1. At(r, "general")' /\ creds'[r] = "unasked" /\ ~Arrived(r) /\ general' = general
    BY <1>1, Arrives DEF At, answerVars, limiterVars
  <2> QED
    BY <2>1 DEF IsAdmitted, IsTried
<1>2. CASE PassGeneral(r)
  <2>1. /\ Arrived(r) /\ At(r, "general") /\ todo'[r] \in {<<>>, <<"route">>}
        /\ req' = req /\ creds' = creds /\ limiter' = limiter
        /\ c \in Clients /\ b \in Buckets
    BY <1>2, BehindGeneral DEF PassGeneral
  <2>2. ~At(r, "general")' /\ Arrived(r)'
    BY <2>1 DEF At, Arrived
  <2>3. CASE general[c][b] >= 1
    <3>1. general' = [general EXCEPT ![c][b] = @ - 1]
      BY <1>2, <2>3 DEF PassGeneral
    <3> QED
      BY <1>2, <2>1, <2>2, <2>3, <3>1 DEF IsTried
  <2>4. CASE ~(general[c][b] >= 1)
    <3>1. general' = general /\ todo'[r] = <<>>
      BY <1>2, <2>4 DEF PassGeneral, TurnAway, TypeOK
    <3> QED
      BY <2>1, <3>1 DEF IsAdmitted, IsTried
  <2> QED
    BY <2>3, <2>4
<1>3. CASE Visit(r)
  <2>1. /\ req' = req /\ todo' = todo /\ creds' = creds /\ general' = general
        /\ At(r, "general")' <=> At(r, "general")
    BY <1>3, Visits
  <2>2. (IsAdmitted(r)' <=> IsAdmitted(r)) /\ (IsTried(r)' <=> IsTried(r))
    BY <2>1 DEF IsAdmitted, IsTried, Arrived
  <2>3. CASE At(r, "general")
    <3>1. ~IsAdmitted(r) /\ ~IsTried(r)
      BY <2>3 DEF LimiterAhead, IsAdmitted, IsTried
    <3> QED
      BY <2>1, <2>2, <3>1
  <2>4. CASE ~At(r, "general")
    <3>1. limiter'["general"][r] = limiter["general"][r]
      BY <1>0, <2>4, BucketsStay
    <3> QED
      BY <2>1, <2>2, <3>1
  <2> QED
    BY <2>3, <2>4
<1>4. CASE Serve(r) /\ ~PassGeneral(r) /\ ~Visit(r)
  <2>1. /\ Arrived(r) /\ req' = req /\ todo[r] # <<>> /\ general' = general
        /\ limiter' = limiter
    BY <1>4, Served
    DEF Serve, Route, PassAuthLimit, CheckMethod, Authenticate, TellHealth, Work,
        ReadChain, ReadSingle, Panic, Record, limiterVars
  <2>2. ~At(r, "general")
    BY <1>4
    DEF Serve, Route, PassAuthLimit, CheckMethod, Authenticate, TellHealth, Work,
        ReadChain, ReadSingle, Panic, Record, At
  <2>3. ~At(r, "general")'
    <3>1. CASE Route(r)
      <4>1. todo'[r] = <<>> \/ todo'[r] \in Inner
        BY <3>1, BehindRoute, ChainFacts
      <4> QED
        BY <4>1, InnerWays DEF At
    <3>2. CASE ~Route(r)
      <4>1. todo'[r] \in Free
        BY <1>4, <3>2, BecomesFree DEF Serve
      <4> QED
        BY <4>1, FreeWays DEF At
    <3> QED
      BY <3>1, <3>2
  <2>4. IsAdmitted(r) /\ IsTried(r)'
    BY <2>1, <2>2, <2>3 DEF IsAdmitted, IsTried, Arrived
  <2> QED
    BY <2>1, <2>4
<1> QED
  BY <1>1, <1>2, <1>3, <1>4

(* So does the second, where there is one.                                 *)
LEMMA AuthMoves ==
  ASSUME TypeOK, StartInv, NEW r \in Requests, RequestOK(r), LimiterAhead(r),
         AuthLimiting, Arrive(r) \/ Serve(r)
  PROVE  \/ /\ PassAuthLimit(r) /\ req' = req /\ req[r].client \in Clients
            /\ limiter' = limiter /\ limiter["limit"][r] \in Buckets
            /\ authentic[req[r].client][limiter["limit"][r]] >= 1
            /\ authentic' = [authentic EXCEPT ![req[r].client][limiter["limit"][r]]
                                               = @ - 1]
            /\ ~IsTriedAuth(r) /\ IsTriedAuth(r)'
         \/ /\ authentic' = authentic
            /\ IsChecked(r)' => IsChecked(r)
            /\ IsTriedAuth(r) => IsTriedAuth(r)'
            /\ \/ /\ req' = req
                  /\ limiter'["limit"][r] = limiter["limit"][r]
               \/ ~IsChecked(r)' /\ ~IsTriedAuth(r)
<1> DEFINE c == req[r].client
           b == limiter["limit"][r]
<1>0. "limit" \in Limiters
  BY DEF Limiters
<1>1. CASE Arrive(r)
  <2>1. /\ todo'[r] \in Outer
        /\ creds'[r] = "unasked" /\ ~Arrived(r) /\ authentic' = authentic
    BY <1>1, Arrives DEF Outer, answerVars, limiterVars
  <2>2. ~At(r, "method")' /\ ~At(r, "auth")'
    BY <2>1, OuterWays DEF At
  <2> QED
    BY <2>1, <2>2 DEF IsChecked, IsTriedAuth
<1>2. CASE PassGeneral(r)
  <2>1. /\ At(r, "general") /\ todo'[r] \in {<<>>, <<"route">>}
        /\ req' = req /\ creds' = creds /\ authentic' = authentic
        /\ limiter' = limiter
    BY <1>2, BehindGeneral DEF PassGeneral
  <2>2. ~At(r, "method")' /\ ~At(r, "auth")'
    BY <2>1 DEF At
  <2> QED
    BY <2>1, <2>2 DEF IsChecked, IsTriedAuth, Arrived
<1>3. CASE Route(r)
  <2>1. /\ At(r, "route") /\ req[r].path \in Paths
        /\ todo'[r] = <<>> \/ todo'[r] = Chain(req[r].path)
        /\ req' = req /\ creds' = creds /\ authentic' = authentic
        /\ limiter' = limiter
    BY <1>3, BehindRoute DEF Route, limiterVars
  <2>2. req[r].path \in Enrolling => ~At(r, "method")' /\ ~At(r, "auth")'
    BY <2>1, LimitComesFirst DEF At
  <2> QED
    BY <2>1, <2>2 DEF IsChecked, IsTriedAuth, Arrived
<1>4. CASE Visit(r)
  <2>1. /\ req' = req /\ todo' = todo /\ creds' = creds /\ authentic' = authentic
        /\ \A stage : At(r, stage)' <=> At(r, stage)
    BY <1>4, Visits
  <2>2. (IsChecked(r)' <=> IsChecked(r)) /\ (IsTriedAuth(r)' <=> IsTriedAuth(r))
    BY <2>1 DEF IsChecked, IsTriedAuth, Arrived
  <2>3. CASE At(r, "limit")
    <3>1. ~IsChecked(r) /\ ~IsTriedAuth(r)
      BY <2>3 DEF LimiterAhead, IsChecked, IsTriedAuth, At
    <3> QED
      BY <2>1, <2>2, <3>1
  <2>4. CASE ~At(r, "limit")
    <3>1. limiter'["limit"][r] = limiter["limit"][r]
      BY <1>0, <2>4, BucketsStay
    <3> QED
      BY <2>1, <2>2, <3>1
  <2> QED
    BY <2>3, <2>4
<1>5. CASE Serve(r) /\ ~PassGeneral(r) /\ ~Route(r) /\ ~Visit(r)
  <2>1. Arrived(r) /\ req' = req /\ c \in Clients /\ todo'[r] \in Free
    BY <1>5, Served, BecomesFree DEF Serve
  <2>2. /\ Arrived(r)' /\ ~At(r, "general")' /\ ~At(r, "route")' /\ ~At(r, "limit")'
    BY <2>1, FreeWays DEF At, Arrived
  <2>3. req[r].path \in Enrolling => IsTriedAuth(r)'
    BY <2>1, <2>2 DEF IsTriedAuth
  <2>4. IsTriedAuth(r) => IsTriedAuth(r)'
    BY <2>3 DEF IsTriedAuth
  <2>5. limiter' = limiter
    BY <1>5
    DEF Serve, PassAuthLimit, CheckMethod, Authenticate, TellHealth, Work, ReadChain,
        ReadSingle, Panic, Record, limiterVars
  <2>6. CASE PassAuthLimit(r)
    <3>1. /\ At(r, "limit") /\ req[r].path \in Enrolling /\ ~IsTriedAuth(r)
          /\ creds' = creds
      BY <2>6 DEF PassAuthLimit, LimiterAhead, IsTriedAuth
    <3>2. b \in Buckets
      BY <1>0, <2>6 DEF PassAuthLimit, TypeOK
    <3>3. CASE authentic[c][b] >= 1
      <4>1. authentic' = [authentic EXCEPT ![c][b] = @ - 1]
        BY <2>6, <3>3 DEF PassAuthLimit
      <4> QED
        BY <2>1, <2>3, <2>5, <2>6, <3>1, <3>2, <3>3, <4>1
    <3>4. CASE ~(authentic[c][b] >= 1)
      <4>1. authentic' = authentic /\ todo'[r] \in {<<>>, <<"close">>}
        BY <2>6, <3>4 DEF PassAuthLimit, Answer, WayBack, TypeOK
      <4>2. ~At(r, "method")' /\ ~At(r, "auth")'
        BY <4>1, LastWays DEF At
      <4> QED
        BY <2>1, <2>5, <3>1, <4>1, <4>2 DEF IsChecked, Arrived
    <3> QED
      BY <3>3, <3>4
  <2>7. CASE CheckMethod(r) \/ Authenticate(r)
    <3>1. (At(r, "method") \/ At(r, "auth")) /\ authentic' = authentic
      BY <2>7 DEF CheckMethod, Authenticate, limiterVars
    <3> QED
      BY <2>1, <2>4, <2>5, <3>1 DEF IsChecked
  <2>8. CASE \/ TellHealth(r) \/ Work(r) \/ ReadChain(r) \/ ReadSingle(r) \/ Panic(r)
             \/ Record(r)
    <3>1. authentic' = authentic /\ creds' = creds
      BY <2>8
      DEF TellHealth, Work, ReadChain, ReadSingle, Panic, Record, limiterVars
    <3>2. todo'[r] \in {<<>>, <<"close">>, <<"single">>}
      <4>1. \/ todo' = [todo EXCEPT ![r] = <<"single">>]
            \/ \E known, code : Answer(r, known, code)
            \/ Record(r)
        BY <2>8 DEF TellHealth, Work, ReadChain, ReadSingle, Panic
      <4>2. CASE Record(r)
        <5>1. todo[r] # <<>> /\ Head(todo[r]) = "close"
          BY <4>2 DEF Record, At
        <5>2. todo[r] = <<"close">>
          BY <5>1, InnerWays, OuterWays DEF RequestOK, OnItsWay, Ways
        <5> QED
          BY <4>2, <5>2, LastWays DEF Record, GoOn, TypeOK
      <4> QED
        BY <4>1, <4>2 DEF Answer, WayBack, TypeOK
    <3>3. ~At(r, "method")' /\ ~At(r, "auth")'
      BY <3>2, LastWays DEF At
    <3> QED
      BY <2>1, <2>4, <2>5, <3>1, <3>3 DEF IsChecked
  <2> QED
    BY <1>5, <2>6, <2>7, <2>8 DEF Serve
<1> QED
  BY <1>1, <1>2, <1>3, <1>4, <1>5 DEF Serve

(* Nothing but an empty bucket turns a request away.                       *)
LEMMA TurnedAway ==
  ASSUME TypeOK, StartInv, NEW r \in Requests, RequestOK(r), Arrive(r) \/ Serve(r),
         sent'[r] = 429
  PROVE  \/ sent[r] = 429 /\ Arrived(r) /\ req' = req
         \/ /\ PassGeneral(r) /\ limiter["general"][r] \in Buckets
            /\ general[req[r].client][limiter["general"][r]] < 1
         \/ /\ PassAuthLimit(r) /\ limiter["limit"][r] \in Buckets
            /\ authentic[req[r].client][limiter["limit"][r]] < 1
<1>1. CASE Arrive(r)
  BY <1>1, Arrives DEF answerVars
<1>2. CASE Serve(r)
  <2>1. Arrived(r) /\ req' = req /\ req[r].client \in Clients
    BY <1>2, Served
  <2>2. \A b \in Buckets : /\ general[req[r].client][b] \in Int
                           /\ authentic[req[r].client][b] \in Int
    BY <2>1 DEF TypeOK
  <2>3. CASE PassGeneral(r)
    <3>1. limiter["general"][r] \in Buckets
      BY <2>3, BehindGeneral
    <3> QED
      BY <2>1, <2>2, <2>3, <3>1 DEF PassGeneral
  <2>4. CASE Route(r)
    BY <2>1, <2>4 DEF Route, TurnAway, TypeOK
  <2>5. CASE PassAuthLimit(r)
    <3>1. limiter["limit"][r] \in Buckets
      BY <2>5 DEF PassAuthLimit, TypeOK, Limiters
    <3> QED
      BY <2>1, <2>2, <2>5, <3>1 DEF PassAuthLimit
  <2>6. CASE CheckMethod(r) \/ Authenticate(r)
    BY <2>1, <2>6 DEF CheckMethod, Authenticate, Answer, TypeOK
  <2>7. CASE TellHealth(r)
    <3>1. PICK reply \in Replies, seconds \in Delays :
            LET code == StatusCode(req[r].path, reply, seconds, cfg.tls, left)
            IN  /\ report' = [report EXCEPT ![r] =
                                [reply |-> reply, seconds |-> seconds, hours |-> left]]
                /\ Answer(r, code, code)
      BY <2>7, Zenon DEF TellHealth
    <3> DEFINE code == StatusCode(req[r].path, reply, seconds, cfg.tls, left)
    <3>2. code \in {200, 503} /\ Answer(r, code, code)
      BY <3>1, StatusCodes
    <3> HIDE DEF code
    <3> QED
      BY <3>2 DEF Answer, TypeOK
  <2>8. CASE Work(r)
    <3>1. PICK code \in Outcomes(req[r].path) : Answer(r, code, code)
      BY <2>8 DEF Work
    <3>2. code # 429
      BY <3>1, OutcomeCodes
    <3> QED
      BY <3>1, <3>2 DEF Answer, TypeOK
  <2>9. CASE ReadChain(r) \/ ReadSingle(r)
    BY <2>1, <2>9 DEF ReadChain, ReadSingle, Answer, TypeOK
  <2>10. CASE Panic(r)
    BY <2>10 DEF Panic, Answer, TypeOK
  <2>11. CASE Record(r)
    BY <2>1, <2>11 DEF Record
  <2>12. CASE Visit(r)
    BY <2>1, <2>12, Visits
  <2> QED
    BY <1>2, <2>3, <2>4, <2>5, <2>6, <2>7, <2>8, <2>9, <2>10, <2>11, <2>12 DEF Serve
<1> QED
  BY <1>1, <1>2

(* No set of requests is infinite.                                         *)
LEMMA FiniteSets ==
  ASSUME NEW c, NEW b
  PROVE  /\ IsFiniteSet(Sharing("general", c, b)) /\ IsFiniteSet(Sharing("limit", c, b))
         /\ IsFiniteSet(Admitted(c, b)) /\ IsFiniteSet(Tried(c, b))
         /\ IsFiniteSet(Checked(c, b)) /\ IsFiniteSet(TriedAuth(c, b))
<1>1. /\ Sharing("general", c, b) \subseteq Requests
      /\ Sharing("limit", c, b) \subseteq Requests
      /\ Admitted(c, b) \subseteq Requests /\ Tried(c, b) \subseteq Requests
      /\ Checked(c, b) \subseteq Requests /\ TriedAuth(c, b) \subseteq Requests
  BY DEF From, Sharing, Admitted, Tried, Checked, TriedAuth
<1> QED
  BY <1>1, FrontAssumption, FS_Subset

(* Nor is it after a step.                                                 *)
LEMMA FiniteSetsNext ==
  ASSUME NEW c, NEW b
  PROVE  /\ IsFiniteSet(Admitted(c, b)') /\ IsFiniteSet(Tried(c, b)')
         /\ IsFiniteSet(Checked(c, b)') /\ IsFiniteSet(TriedAuth(c, b)')
<1>1. /\ Admitted(c, b)' \subseteq Requests /\ Tried(c, b)' \subseteq Requests
      /\ Checked(c, b)' \subseteq Requests /\ TriedAuth(c, b)' \subseteq Requests
  BY DEF From, Sharing, Admitted, Tried, Checked, TriedAuth
<1> QED
  BY <1>1, FrontAssumption, FS_Subset

(* Only r can come into, or leave, what is counted of a bucket.            *)
LEMMA OthersCountTheSame ==
  ASSUME TypeOK, NEW r \in Requests, NEW q \in Requests, q # r, NEW c, NEW b,
         Arrive(r) \/ Serve(r)
  PROVE  /\ \A l \in Limiters : q \in Sharing(l, c, b)' <=> q \in Sharing(l, c, b)
         /\ q \in Admitted(c, b)' <=> q \in Admitted(c, b)
         /\ q \in Tried(c, b)' <=> q \in Tried(c, b)
         /\ q \in Checked(c, b)' <=> q \in Checked(c, b)
         /\ q \in TriedAuth(c, b)' <=> q \in TriedAuth(c, b)
<1>1. Untouched(q)
  BY OthersUntouched
<1>2. /\ Arrived(q)' <=> Arrived(q)
      /\ IsAdmitted(q)' <=> IsAdmitted(q)
      /\ IsTried(q)' <=> IsTried(q)
      /\ IsChecked(q)' <=> IsChecked(q)
      /\ IsTriedAuth(q)' <=> IsTriedAuth(q)
  BY <1>1 DEF Untouched, Arrived, IsAdmitted, IsTried, IsChecked, IsTriedAuth, At
<1>3. \A l \in Limiters : limiter'[l][q] = limiter[l][q]
  BY BucketsStay
<1>4. \A l \in Limiters : q \in Sharing(l, c, b)' <=> q \in Sharing(l, c, b)
  BY <1>1, <1>2, <1>3 DEF Untouched, From, Sharing
<1> QED
  BY <1>2, <1>4 DEF Admitted, Tried, Checked, TriedAuth, Limiters

(* What the limits are, of a service that runs with limits.                *)
LEMMA LimitNumbers ==
  ASSUME StartInv, Running
  PROVE  /\ cfg.limits.burst \in Int /\ cfg.limits.rate \in Int
         /\ cfg.limits.authBurst \in Int /\ cfg.limits.authRate \in Int
<1>1. cfg \in ConfigType
  BY EffectiveType DEF Running, StartInv, StartupTypeOK, ConfigLoaded
<1> QED
  BY <1>1, Zenon DEF ConfigType, LimitsType

(* Serving a request leaves configuration and time alone.                  *)
LEMMA ServingTakesNoTime ==
  ASSUME NEW r \in Requests, Arrive(r) \/ Serve(r)
  PROVE  /\ cfg' = cfg /\ phase' = phase /\ ticks' = ticks
         /\ Running' = Running /\ Limiting' = Limiting /\ AuthLimiting' = AuthLimiting
<1>1. cfg' = cfg /\ phase' = phase
  BY ServingIsNotStarting DEF startupVars
<1>2. ticks' = ticks
  BY DEF Arrive, Serve, Visit, PassGeneral, Route, PassAuthLimit, CheckMethod,
         Authenticate, TellHealth, Work, ReadChain, ReadSingle, Panic, Record, limiterVars
<1> QED
  BY <1>1, <1>2 DEF Running, Limiting, AuthLimiting

(* What one request does to a bucket: it pays once, or nothing more counts. *)
LEMMA KeptByOne ==
  ASSUME NEW level \in Int, NEW next, NEW burst \in Int, NEW rate \in Int,
         NEW t \in Nat, NEW U, NEW V, NEW L, NEW M, NEW r,
         IsFiniteSet(U), IsFiniteSet(L), IsFiniteSet(M),
         Kept(level, burst, rate, t, Cardinality(U), Cardinality(L)),
         \A q : q # r => (q \in V <=> q \in U) /\ (q \in M <=> q \in L),
         \/ level >= 1 /\ next = level - 1 /\ r \notin L /\ r \in M
         \/ next = level /\ (r \in V => r \in U) /\ (r \in L => r \in M)
  PROVE  Kept(next, burst, rate, t, Cardinality(V), Cardinality(M))
<1>1. CASE level >= 1 /\ next = level - 1 /\ r \notin L /\ r \in M
  <2>1. V \subseteq U \cup {r} /\ L \cup {r} \subseteq M
    BY <1>1
  <2>2. /\ Cardinality(U) \in Nat /\ Cardinality(V) \in Nat
        /\ Cardinality(V) <= Cardinality(U) + 1
    BY <2>1, AtMostOneMore, Zenon
  <2>3. /\ Cardinality(L) \in Nat /\ Cardinality(M) \in Nat
        /\ Cardinality(L) + 1 <= Cardinality(M)
    BY <1>1, <2>1, AtLeastOneMore, Zenon
  <2> QED
    BY <1>1, <2>2, <2>3, KeptPaid
<1>2. CASE next = level /\ (r \in V => r \in U) /\ (r \in L => r \in M)
  <2>1. V \subseteq U /\ L \subseteq M
    BY <1>2
  <2> QED
    BY <1>2, <2>1, KeptAlone
<1> QED
  BY <1>1, <1>2

(* The budget of the general limiter, over a step of one request.          *)
LEMMA ServeGeneral ==
  ASSUME TypeOK, StartInv, NEW r \in Requests, RequestOK(r), LimiterAhead(r), GeneralKept,
         Arrive(r) \/ Serve(r)
  PROVE  GeneralKept'
<1>1. /\ cfg' = cfg /\ ticks' = ticks
      /\ Running' = Running /\ Limiting' = Limiting
  BY ServingTakesNoTime
<1> SUFFICES ASSUME Running, Limiting, NEW c \in Clients, NEW b \in Buckets
             PROVE  Kept(general'[c][b], cfg.limits.burst, cfg.limits.rate, ticks,
                         Cardinality(Admitted(c, b)'), Cardinality(Tried(c, b)'))
  BY <1>1 DEF GeneralKept
<1>2. /\ cfg.limits.burst \in Int /\ cfg.limits.rate \in Int
      /\ ticks \in Nat /\ general[c][b] \in Int
  BY LimitNumbers, FrontAssumption DEF TypeOK
<1>3. Kept(general[c][b], cfg.limits.burst, cfg.limits.rate, ticks,
           Cardinality(Admitted(c, b)), Cardinality(Tried(c, b)))
  BY DEF GeneralKept
<1>4. /\ IsFiniteSet(Admitted(c, b)) /\ IsFiniteSet(Tried(c, b))
      /\ IsFiniteSet(Tried(c, b)')
  BY FiniteSets, FiniteSetsNext
<1>5. ASSUME NEW q, q # r
      PROVE  /\ q \in Admitted(c, b)' <=> q \in Admitted(c, b)
             /\ q \in Tried(c, b)' <=> q \in Tried(c, b)
  <2>1. CASE q \in Requests
    BY <1>5, <2>1, OthersCountTheSame
  <2>2. CASE q \notin Requests
    BY <2>2 DEF Admitted, Tried, Sharing, From
  <2> QED
    BY <2>1, <2>2
<1>6. \/ /\ general[c][b] >= 1 /\ general'[c][b] = general[c][b] - 1
         /\ r \notin Tried(c, b) /\ r \in Tried(c, b)'
      \/ /\ general'[c][b] = general[c][b]
         /\ r \in Admitted(c, b)' => r \in Admitted(c, b)
         /\ r \in Tried(c, b) => r \in Tried(c, b)'
  <2>1. CASE /\ PassGeneral(r) /\ req' = req /\ req[r].client \in Clients
             /\ limiter' = limiter /\ limiter["general"][r] \in Buckets
             /\ general[req[r].client][limiter["general"][r]] >= 1
             /\ general' = [general EXCEPT ![req[r].client][limiter["general"][r]]
                                            = @ - 1]
             /\ ~IsTried(r) /\ IsTried(r)'
    <3>1. CASE req[r].client = c /\ limiter["general"][r] = b
      <4>1. general[c][b] >= 1 /\ general'[c][b] = general[c][b] - 1
        BY <2>1, <3>1 DEF TypeOK
      <4>2. r \notin Tried(c, b) /\ r \in Tried(c, b)'
        BY <2>1, <3>1 DEF Tried, Sharing, From, IsTried, Arrived
      <4> QED
        BY <4>1, <4>2
    <3>2. CASE req[r].client # c \/ limiter["general"][r] # b
      <4>1. general'[c][b] = general[c][b]
        BY <2>1, <3>2 DEF TypeOK
      <4>2. r \notin Admitted(c, b)' /\ r \notin Tried(c, b)
        BY <2>1, <3>2 DEF Admitted, Tried, Sharing, From
      <4> QED
        BY <4>1, <4>2
    <3> QED
      BY <3>1, <3>2
  <2>2. CASE /\ general' = general
             /\ IsAdmitted(r)' => IsAdmitted(r)
             /\ IsTried(r) => IsTried(r)'
             /\ \/ /\ req' = req
                   /\ limiter'["general"][r] = limiter["general"][r]
                \/ ~IsAdmitted(r)' /\ ~IsTried(r)
    BY <2>2 DEF Admitted, Tried, Sharing, From, Arrived
  <2> QED
    BY <2>1, <2>2, GeneralMoves
<1> QED
  BY <1>2, <1>3, <1>4, <1>5, <1>6, KeptByOne

(* The same of the limiter for enrollment.                                 *)
LEMMA ServeAuth ==
  ASSUME TypeOK, StartInv, NEW r \in Requests, RequestOK(r), LimiterAhead(r), AuthKept,
         Arrive(r) \/ Serve(r)
  PROVE  AuthKept'
<1>1. /\ cfg' = cfg /\ ticks' = ticks
      /\ Running' = Running /\ AuthLimiting' = AuthLimiting
  BY ServingTakesNoTime
<1> SUFFICES ASSUME Running, AuthLimiting, NEW c \in Clients, NEW b \in Buckets
             PROVE  Kept(authentic'[c][b], cfg.limits.authBurst, cfg.limits.authRate, ticks,
                         Cardinality(Checked(c, b)'), Cardinality(TriedAuth(c, b)'))
  BY <1>1 DEF AuthKept
<1>2. /\ cfg.limits.authBurst \in Int /\ cfg.limits.authRate \in Int
      /\ ticks \in Nat /\ authentic[c][b] \in Int
  BY LimitNumbers, FrontAssumption DEF TypeOK
<1>3. Kept(authentic[c][b], cfg.limits.authBurst, cfg.limits.authRate, ticks,
           Cardinality(Checked(c, b)), Cardinality(TriedAuth(c, b)))
  BY DEF AuthKept
<1>4. /\ IsFiniteSet(Checked(c, b)) /\ IsFiniteSet(TriedAuth(c, b))
      /\ IsFiniteSet(TriedAuth(c, b)')
  BY FiniteSets, FiniteSetsNext
<1>5. ASSUME NEW q, q # r
      PROVE  /\ q \in Checked(c, b)' <=> q \in Checked(c, b)
             /\ q \in TriedAuth(c, b)' <=> q \in TriedAuth(c, b)
  <2>1. CASE q \in Requests
    BY <1>5, <2>1, OthersCountTheSame
  <2>2. CASE q \notin Requests
    BY <2>2 DEF Checked, TriedAuth, Sharing, From
  <2> QED
    BY <2>1, <2>2
<1>6. \/ /\ authentic[c][b] >= 1 /\ authentic'[c][b] = authentic[c][b] - 1
         /\ r \notin TriedAuth(c, b) /\ r \in TriedAuth(c, b)'
      \/ /\ authentic'[c][b] = authentic[c][b]
         /\ r \in Checked(c, b)' => r \in Checked(c, b)
         /\ r \in TriedAuth(c, b) => r \in TriedAuth(c, b)'
  <2>1. CASE /\ PassAuthLimit(r) /\ req' = req /\ req[r].client \in Clients
             /\ limiter' = limiter /\ limiter["limit"][r] \in Buckets
             /\ authentic[req[r].client][limiter["limit"][r]] >= 1
             /\ authentic' = [authentic EXCEPT ![req[r].client][limiter["limit"][r]]
                                            = @ - 1]
             /\ ~IsTriedAuth(r) /\ IsTriedAuth(r)'
    <3>1. CASE req[r].client = c /\ limiter["limit"][r] = b
      <4>1. authentic[c][b] >= 1 /\ authentic'[c][b] = authentic[c][b] - 1
        BY <2>1, <3>1 DEF TypeOK
      <4>2. r \notin TriedAuth(c, b) /\ r \in TriedAuth(c, b)'
        BY <2>1, <3>1 DEF TriedAuth, Sharing, From, IsTriedAuth, Arrived
      <4> QED
        BY <4>1, <4>2
    <3>2. CASE req[r].client # c \/ limiter["limit"][r] # b
      <4>1. authentic'[c][b] = authentic[c][b]
        BY <2>1, <3>2 DEF TypeOK
      <4>2. r \notin Checked(c, b)' /\ r \notin TriedAuth(c, b)
        BY <2>1, <3>2 DEF Checked, TriedAuth, Sharing, From
      <4> QED
        BY <4>1, <4>2
    <3> QED
      BY <3>1, <3>2
  <2>2. CASE /\ authentic' = authentic
             /\ IsChecked(r)' => IsChecked(r)
             /\ IsTriedAuth(r) => IsTriedAuth(r)'
             /\ \/ /\ req' = req
                   /\ limiter'["limit"][r] = limiter["limit"][r]
                \/ ~IsChecked(r)' /\ ~IsTriedAuth(r)
    BY <2>2 DEF Checked, TriedAuth, Sharing, From, Arrived
  <2> QED
    BY <2>1, <2>2, AuthMoves
<1> QED
  BY <1>2, <1>3, <1>4, <1>5, <1>6, KeptByOne

(* A limiter is ahead of nobody for whom there is none.                    *)
LEMMA ServeAhead ==
  ASSUME TypeOK, StartInv, NEW r \in Requests, RequestOK(r),
         \A q \in Requests : LimiterAhead(q), Arrive(r) \/ Serve(r)
  PROVE  \A q \in Requests : LimiterAhead(q)'
<1>1. Limiting' = Limiting /\ AuthLimiting' = AuthLimiting
  BY ServingTakesNoTime
<1>2. ASSUME NEW q \in Requests, q # r PROVE LimiterAhead(q)'
  <2>1. Untouched(q) /\ LimiterAhead(q)
    BY <1>2, OthersUntouched
  <2> QED
    BY <1>1, <2>1 DEF Untouched, LimiterAhead, At
<1>3. LimiterAhead(r)'
  <2>1. CASE Arrive(r)
    <3>1. creds'[r] = "unasked"
      BY <2>1, Arrives DEF answerVars
    <3> QED
      BY <1>1, <2>1, <3>1, Arrives DEF LimiterAhead, At
  <2>2. CASE PassGeneral(r)
    <3>1. creds' = creds /\ creds[r] = "unasked"
      BY <2>2 DEF PassGeneral, LimiterAhead
    <3> QED
      BY <2>2, <3>1, BehindGeneral DEF LimiterAhead, At
  <2>3. CASE Route(r)
    <3>1. /\ req' = req /\ req[r].path \in Paths /\ creds' = creds
          /\ todo'[r] = <<>> \/ todo'[r] = Chain(req[r].path)
          /\ creds[r] = "unasked"
      BY <2>3, BehindRoute DEF Route, LimiterAhead
    <3>2. At(r, "limit")' => AuthLimiting /\ req[r].path \in Enrolling
      BY <3>1, LimitComesFirst DEF At
    <3>3. ~At(r, "general")'
      BY <3>1, ChainFacts, InnerWays DEF At
    <3> QED
      BY <1>1, <3>1, <3>2, <3>3 DEF LimiterAhead
  <2>4. CASE Visit(r)
    BY <1>1, <2>4, Visits DEF LimiterAhead
  <2>5. CASE Serve(r) /\ ~PassGeneral(r) /\ ~Route(r) /\ ~Visit(r)
    <3>1. todo'[r] \in Free
      BY <2>5, BecomesFree DEF Serve
    <3> QED
      BY <3>1, FreeWays DEF LimiterAhead, At
  <2> QED
    BY <2>1, <2>2, <2>3, <2>4, <2>5 DEF Serve
<1> QED
  BY <1>2, <1>3

(* Nobody passes a limiter without a bucket.                               *)
LEMMA ServeCharges ==
  ASSUME TypeOK, StartInv, NEW r \in Requests, RequestOK(r), LimiterAhead(r),
         \A q \in Requests : Charged(q), Arrive(r) \/ Serve(r)
  PROVE  \A q \in Requests : Charged(q)'
<1>1. Limiting' = Limiting /\ AuthLimiting' = AuthLimiting
  BY ServingTakesNoTime
<1>2. "general" \in Limiters /\ "limit" \in Limiters /\ 0 \notin Buckets
  BY DEF Limiters, Buckets
<1>3. ASSUME NEW q \in Requests, q # r PROVE Charged(q)'
  <2>1. Untouched(q) /\ Charged(q)
    BY <1>3, OthersUntouched
  <2>2. \A l \in Limiters : limiter'[l][q] = limiter[l][q]
    BY <1>3, BucketsStay
  <2>3. (IsAdmitted(q)' <=> IsAdmitted(q)) /\ (IsChecked(q)' <=> IsChecked(q))
    BY <2>1 DEF Untouched, IsAdmitted, IsChecked, Arrived, At
  <2> QED
    BY <1>1, <1>2, <2>1, <2>2, <2>3 DEF Charged
<1>4. Limiting /\ IsAdmitted(r)' => limiter'["general"][r] # 0
  <2> SUFFICES ASSUME Limiting, IsAdmitted(r)' PROVE limiter'["general"][r] # 0
    OBVIOUS
  <2>1. \/ limiter' = limiter /\ limiter["general"][r] \in Buckets
        \/ IsAdmitted(r)
    BY GeneralMoves
  <2>2. CASE IsAdmitted(r)
    <3>1. limiter["general"][r] # 0
      BY <2>2 DEF Charged
    <3> QED
      BY <1>2, <3>1, BucketsStay
  <2> QED
    BY <1>2, <2>1, <2>2
<1>5. AuthLimiting /\ IsChecked(r)' => limiter'["limit"][r] # 0
  <2> SUFFICES ASSUME AuthLimiting, IsChecked(r)' PROVE limiter'["limit"][r] # 0
    OBVIOUS
  <2>1. \/ limiter' = limiter /\ limiter["limit"][r] \in Buckets
        \/ IsChecked(r)
    BY AuthMoves
  <2>2. CASE IsChecked(r)
    <3>1. limiter["limit"][r] # 0
      BY <2>2 DEF Charged
    <3> QED
      BY <1>2, <3>1, BucketsStay
  <2> QED
    BY <1>2, <2>1, <2>2
<1>6. Charged(r)'
  BY <1>1, <1>4, <1>5 DEF Charged
<1> QED
  BY <1>3, <1>6

(* What shares a bucket goes on counting.                                  *)
LEMMA SharingGrows ==
  ASSUME TypeOK, StartInv, NEW r \in Requests, RequestOK(r), Arrive(r) \/ Serve(r),
         NEW l \in Limiters, NEW c, NEW b, b # 0, NEW q
  PROVE  /\ Cardinality(Sharing(l, c, b) \ {q}) \in Nat
         /\ Cardinality(Sharing(l, c, b)' \ {q}) \in Nat
         /\ Cardinality(Sharing(l, c, b) \ {q}) <= Cardinality(Sharing(l, c, b)' \ {q})
<1>1. Arrived(r) => req' = req
  BY Served DEF Arrive, Arrived
<1>2. ASSUME NEW p \in Requests, p \in Sharing(l, c, b)
      PROVE  p \in Sharing(l, c, b)'
  <2>1. CASE p = r
    <3>1. /\ Arrived(r) /\ req' = req /\ req[r].client = c /\ limiter[l][r] = b
      BY <1>1, <1>2, <2>1 DEF Sharing, From
    <3>2. limiter'[l][r] = b
      BY <3>1, BucketsStay
    <3> QED
      BY <2>1, <3>1, <3>2 DEF Sharing, From, Arrived
  <2>2. CASE p # r
    BY <1>2, <2>2, OthersCountTheSame
  <2> QED
    BY <2>1, <2>2
<1>3. Sharing(l, c, b) \ {q} \subseteq Sharing(l, c, b)' \ {q}
  BY <1>2 DEF Sharing, From
<1>4. Sharing(l, c, b)' \ {q} \subseteq Requests
  BY DEF Sharing, From
<1>5. IsFiniteSet(Sharing(l, c, b)' \ {q})
  BY <1>4, FrontAssumption, FS_Subset
<1>6. /\ IsFiniteSet(Sharing(l, c, b) \ {q})
      /\ Cardinality(Sharing(l, c, b) \ {q}) <= Cardinality(Sharing(l, c, b)' \ {q})
  BY <1>3, <1>5, FS_Subset, Zenon
<1> QED
  BY <1>5, <1>6, FS_CardinalityType

(* A bucket that is spent stays spent, and stays that of the request.      *)
LEMMA SpentStays ==
  ASSUME TypeOK, StartInv, NEW r \in Requests, RequestOK(r), Arrive(r) \/ Serve(r),
         NEW l \in Limiters, NEW q \in Requests, req'[q] = req[q],
         NEW burst \in Int, Spent(l, q, burst)
  PROVE  Spent(l, q, burst)'
<1>1. PICK c, b : c = req[q].client /\ b = limiter[l][q]
  OBVIOUS
<1>2. b # 0 /\ Cardinality(Sharing(l, c, b) \ {q}) >= burst
  BY <1>1 DEF Spent
<1>3. limiter'[l][q] = b
  BY <1>1, <1>2, BucketsStay
<1>4. Cardinality(Sharing(l, c, b)' \ {q}) >= burst
  <2>1. /\ Cardinality(Sharing(l, c, b) \ {q}) \in Nat
        /\ Cardinality(Sharing(l, c, b)' \ {q}) \in Nat
        /\ Cardinality(Sharing(l, c, b) \ {q}) <= Cardinality(Sharing(l, c, b)' \ {q})
    BY <1>2, SharingGrows, Zenon
  <2> QED
    BY <1>2, <2>1
<1>5. req'[q].client = c
  BY <1>1
<1> QED
  BY <1>2, <1>3, <1>4, <1>5 DEF Spent, Sharing, From, Arrived

(* Who found a bucket empty was not the one that emptied it.               *)
LEMMA EmptyBucket ==
  ASSUME NEW level \in Int, NEW burst \in Int, NEW rate, NEW t, NEW taken,
         NEW L, NEW M, Kept(level, burst, rate, t, taken, Cardinality(L)), level < 1,
         IsFiniteSet(M), L \subseteq M
  PROVE  Cardinality(M) >= burst
<1>1. /\ Cardinality(L) \in Nat /\ Cardinality(M) \in Nat
      /\ Cardinality(L) <= Cardinality(M)
  BY FS_Subset, FS_CardinalityType
<1>2. level >= burst - Cardinality(L)
  BY DEF Kept
<1> QED
  BY <1>1, <1>2

(* So nobody is turned away who had not reason to expect it.               *)
LEMMA ServeExcuses ==
  ASSUME TypeOK, StartInv, NEW r \in Requests, RequestOK(r), LimitsInv,
         Arrive(r) \/ Serve(r)
  PROVE  \A q \in Requests : Excused(q)'
<1>1. cfg' = cfg /\ Running /\ AuthLimiting' = AuthLimiting
  BY ServingTakesNoTime, Served DEF Arrive, RequestOK, OnItsWay, Arrived, Running
<1>2. /\ cfg.limits.burst \in Int /\ cfg.limits.rate \in Int
      /\ cfg.limits.authBurst \in Int /\ cfg.limits.authRate \in Int
      /\ "general" \in Limiters /\ "limit" \in Limiters /\ 0 \notin Buckets
  BY <1>1, LimitNumbers DEF Limiters, Buckets
<1>3. PICK burst \in Int, authBurst \in Int :
        cfg.limits.burst = burst /\ cfg.limits.authBurst = authBurst
  BY <1>2
<1>4. ASSUME NEW q \in Requests, req'[q] = req[q],
             \/ Spent("general", q, burst)
             \/ /\ req[q].path \in Enrolling /\ AuthLimiting
                /\ Spent("limit", q, authBurst)
      PROVE  Excused(q)'
  <2>1. CASE Spent("general", q, burst)
    <3>1. Spent("general", q, burst)'
      BY <1>2, <1>4, <2>1, SpentStays
    <3> QED
      BY <1>1, <1>3, <3>1 DEF Excused, Spent, Sharing, From, Arrived
  <2>2. CASE /\ req[q].path \in Enrolling /\ AuthLimiting
             /\ Spent("limit", q, authBurst)
    <3>1. Spent("limit", q, authBurst)'
      BY <1>2, <1>4, <2>2, SpentStays
    <3> QED
      BY <1>1, <1>3, <1>4, <2>2, <3>1 DEF Excused, Spent, Sharing, From, Arrived
  <2> QED
    BY <1>4, <2>1, <2>2
<1>5. ASSUME NEW q \in Requests, Arrived(q), sent[q] = 429, req'[q] = req[q]
      PROVE  Excused(q)'
  <2>1. \/ Spent("general", q, burst)
        \/ /\ req[q].path \in Enrolling /\ AuthLimiting
           /\ Spent("limit", q, authBurst)
    BY <1>3, <1>5 DEF LimitsInv, Excused
  <2> QED
    BY <1>4, <1>5, <2>1
<1>6. ASSUME NEW q \in Requests, q # r PROVE Excused(q)'
  <2>1. Untouched(q)
    BY <1>6, OthersUntouched
  <2>2. Arrived(q)' /\ sent'[q] = 429 => Arrived(q) /\ sent[q] = 429 /\ req'[q] = req[q]
    BY <2>1 DEF Untouched, Arrived
  <2> QED
    BY <1>5, <2>2 DEF Excused
<1>7. Excused(r)'
  <2> SUFFICES ASSUME sent'[r] = 429 PROVE Excused(r)'
    BY DEF Excused
  <2>1. CASE sent[r] = 429 /\ Arrived(r) /\ req' = req
    BY <1>5, <2>1
  <2>2. CASE /\ PassGeneral(r) /\ limiter["general"][r] \in Buckets
             /\ general[req[r].client][limiter["general"][r]] < 1
    <3>1. PICK c, b : c = req[r].client /\ b = limiter["general"][r]
      OBVIOUS
    <3>2. /\ At(r, "general") /\ c \in Clients /\ b \in Buckets /\ req' = req
          /\ Limiting
      BY <2>2, <3>1, BehindGeneral DEF PassGeneral, LimitsInv, LimiterAhead
    <3>3. Kept(general[c][b], burst, cfg.limits.rate, ticks,
               Cardinality(Admitted(c, b)), Cardinality(Tried(c, b)))
      BY <1>1, <1>3, <3>2 DEF LimitsInv, GeneralKept
    <3>4. /\ Tried(c, b) \subseteq Sharing("general", c, b) \ {r}
          /\ IsFiniteSet(Sharing("general", c, b) \ {r})
      <4>1. IsFiniteSet(Sharing("general", c, b) \ {r})
        BY FiniteSets, FS_Subset
      <4> QED
        BY <3>2, <4>1 DEF Tried, IsTried
    <3>5. general[c][b] \in Int /\ general[c][b] < 1
      BY <2>2, <3>1, <3>2 DEF TypeOK
    <3>6. Cardinality(Sharing("general", c, b) \ {r}) >= burst
      BY <3>3, <3>4, <3>5, EmptyBucket
    <3> QED
      BY <1>2, <1>4, <3>1, <3>2, <3>6 DEF Spent
  <2>3. CASE /\ PassAuthLimit(r) /\ limiter["limit"][r] \in Buckets
             /\ authentic[req[r].client][limiter["limit"][r]] < 1
    <3>1. PICK c, b : c = req[r].client /\ b = limiter["limit"][r]
      OBVIOUS
    <3>2. /\ At(r, "limit") /\ req' = req /\ AuthLimiting /\ req[r].path \in Enrolling
          /\ b \in Buckets
      BY <2>3, <3>1 DEF PassAuthLimit, LimitsInv, LimiterAhead
    <3>3. c \in Clients
      BY <2>3, <3>1, Served DEF Serve
    <3>4. Kept(authentic[c][b], authBurst, cfg.limits.authRate, ticks,
               Cardinality(Checked(c, b)), Cardinality(TriedAuth(c, b)))
      BY <1>1, <1>3, <3>2, <3>3 DEF LimitsInv, AuthKept
    <3>5. /\ TriedAuth(c, b) \subseteq Sharing("limit", c, b) \ {r}
          /\ IsFiniteSet(Sharing("limit", c, b) \ {r})
      <4>1. IsFiniteSet(Sharing("limit", c, b) \ {r})
        BY FiniteSets, FS_Subset
      <4> QED
        BY <3>2, <4>1 DEF TriedAuth, IsTriedAuth
    <3>6. authentic[c][b] \in Int /\ authentic[c][b] < 1
      BY <2>3, <3>1, <3>2, <3>3 DEF TypeOK
    <3>7. Cardinality(Sharing("limit", c, b) \ {r}) >= authBurst
      BY <3>4, <3>5, <3>6, EmptyBucket
    <3> QED
      BY <1>2, <1>4, <3>1, <3>2, <3>7 DEF Spent
  <2> QED
    BY <2>1, <2>2, <2>3, TurnedAway
<1> QED
  BY <1>6, <1>7

(* Requests as they were count for as much, and are as well excused.       *)
LEMMA SameRequests ==
  ASSUME LimitsInv, cfg' = cfg, req' = req, todo' = todo, sent' = sent, creds' = creds,
         limiter' = limiter
  PROVE  /\ Limiting' = Limiting /\ AuthLimiting' = AuthLimiting
         /\ \A c, b : /\ Admitted(c, b)' = Admitted(c, b) /\ Tried(c, b)' = Tried(c, b)
                      /\ Checked(c, b)' = Checked(c, b)
                      /\ TriedAuth(c, b)' = TriedAuth(c, b)
         /\ \A r \in Requests : LimiterAhead(r)' /\ Charged(r)' /\ Excused(r)'
<1>1. /\ Limiting' = Limiting /\ AuthLimiting' = AuthLimiting
  BY DEF Limiting, AuthLimiting
<1>2. \A r : /\ \A stage : At(r, stage)' = At(r, stage)
             /\ IsAdmitted(r)' = IsAdmitted(r) /\ IsChecked(r)' = IsChecked(r)
  BY DEF At, IsAdmitted, IsChecked, Arrived
<1>3. \A c, b : /\ Admitted(c, b)' = Admitted(c, b) /\ Tried(c, b)' = Tried(c, b)
               /\ Checked(c, b)' = Checked(c, b) /\ TriedAuth(c, b)' = TriedAuth(c, b)
  BY DEF At, From, Sharing, Admitted, Tried, Checked, TriedAuth, Arrived,
         IsAdmitted, IsTried, IsChecked, IsTriedAuth
<1>4. ASSUME NEW r \in Requests PROVE LimiterAhead(r)' /\ Charged(r)' /\ Excused(r)'
  <2>1. LimiterAhead(r)' /\ Charged(r)'
    BY <1>1, <1>2 DEF LimitsInv, LimiterAhead, Charged
  <2>2. \A l, n : Spent(l, r, n)' = Spent(l, r, n)
    BY DEF Spent, Sharing, From, Arrived
  <2>3. /\ Spent("general", r, cfg.limits.burst)'
             = Spent("general", r, cfg.limits.burst)
        /\ Spent("limit", r, cfg.limits.authBurst)'
             = Spent("limit", r, cfg.limits.authBurst)
    BY DEF Spent, Sharing, From, Arrived
  <2>4. Excused(r)
    BY DEF LimitsInv
  <2>5. Excused(r)'
    BY <1>1, <2>3, <2>4 DEF Excused, Arrived
  <2> QED
    BY <2>1, <2>5
<1> QED
  BY <1>1, <1>3, <1>4

(* Levels, requests and time as they were, all is as it was, whatever the  *)
(* sweepers have done to the tables.                                       *)
LEMMA LimitsStutter ==
  ASSUME LimitsInv, phase' = phase, cfg' = cfg,
         UNCHANGED <<req, todo, answerVars, general, authentic, limiter, ticks>>
  PROVE  LimitsInv'
<1>1. /\ Running' = Running
      /\ general' = general /\ authentic' = authentic /\ ticks' = ticks
      /\ req' = req /\ todo' = todo /\ sent' = sent /\ creds' = creds
      /\ limiter' = limiter
  BY DEF Running, answerVars
<1>2. /\ Limiting' = Limiting /\ AuthLimiting' = AuthLimiting
      /\ \A c, b : /\ Admitted(c, b)' = Admitted(c, b) /\ Tried(c, b)' = Tried(c, b)
                   /\ Checked(c, b)' = Checked(c, b)
                   /\ TriedAuth(c, b)' = TriedAuth(c, b)
      /\ \A r \in Requests : LimiterAhead(r)' /\ Charged(r)' /\ Excused(r)'
  BY <1>1, SameRequests
<1>3. GeneralKept'
  BY <1>1, <1>2 DEF LimitsInv, GeneralKept
<1>4. AuthKept'
  BY <1>1, <1>2 DEF LimitsInv, AuthKept
<1> QED
  BY <1>2, <1>3, <1>4 DEF LimitsInv

(* The server comes up with full buckets and nobody to take from them.     *)
LEMMA LimitsComeUp ==
  ASSUME FrontInv, LimitsInv, ComeUp
  PROVE  LimitsInv'
<1>1. phase # "running" /\ UNCHANGED <<req, todo, answerVars, ticks>>
  BY DEF ComeUp, Begin, StartupNext, Load, LoadFails, Check, CheckFails, TakeToken,
         LogIn, ConnectFails, Healthy, HealthFails, NewServer, NewServerFails,
         frontVars, limiterVars
<1>2. ASSUME NEW r \in Requests
      PROVE  ~Arrived(r)' /\ todo'[r] = <<>> /\ creds'[r] = "unasked"
  BY <1>1 DEF FrontInv, RequestOK, OnItsWay, Arrived, answerVars
<1>3. ASSUME NEW r \in Requests PROVE LimiterAhead(r)' /\ Charged(r)' /\ Excused(r)'
  BY <1>2 DEF LimiterAhead, Charged, Excused, At, IsAdmitted, IsChecked
<1>4. ASSUME NEW c, NEW b
      PROVE  /\ Admitted(c, b)' = {} /\ Tried(c, b)' = {}
             /\ Checked(c, b)' = {} /\ TriedAuth(c, b)' = {}
  BY <1>2 DEF Admitted, Tried, Checked, TriedAuth, Sharing, From
<1>5. Cardinality({}) = 0
  BY FS_EmptySet
<1>6. CASE Begin
  <2>1. /\ \A c \in Clients, b \in Buckets :
             /\ general'[c][b] = cfg.limits.burst
             /\ authentic'[c][b] = cfg.limits.authBurst
        /\ cfg' = cfg /\ ticks' = ticks /\ ticks \in Nat
    BY <1>6, FrontAssumption DEF Begin, NewServer, FrontInv, TypeOK
  <2>2. StartInv' /\ Running'
    BY <1>6, StartProceeds DEF Begin, StartupNext, FrontInv, NewServer, Running
  <2>3. cfg \in ConfigType
    BY <1>6, EffectiveType
    DEF Begin, NewServer, FrontInv, StartInv, StartupTypeOK, ConfigLoaded
  <2>4. /\ cfg.limits.burst \in Int /\ cfg.limits.rate \in Int
        /\ cfg.limits.authBurst \in Int /\ cfg.limits.authRate \in Int
    BY <2>3, Zenon DEF ConfigType, LimitsType
  <2>5. GeneralKept'
    <3> SUFFICES ASSUME NEW c \in Clients, NEW b \in Buckets
                 PROVE  Kept(general'[c][b], cfg.limits.burst, cfg.limits.rate, ticks,
                             Cardinality(Admitted(c, b)'), Cardinality(Tried(c, b)'))
      BY <2>1 DEF GeneralKept
    <3> QED
      BY <1>4, <1>5, <2>1, <2>4, KeptFull
  <2>6. AuthKept'
    <3> SUFFICES ASSUME NEW c \in Clients, NEW b \in Buckets
                 PROVE  Kept(authentic'[c][b], cfg.limits.authBurst,
                             cfg.limits.authRate, ticks,
                             Cardinality(Checked(c, b)'), Cardinality(TriedAuth(c, b)'))
      BY <2>1 DEF AuthKept
    <3> QED
      BY <1>4, <1>5, <2>1, <2>4, KeptFull
  <2> QED
    BY <1>3, <2>5, <2>6 DEF LimitsInv
<1>7. CASE phase' # "running"
  BY <1>3, <1>7 DEF LimitsInv, GeneralKept, AuthKept, Running
<1> QED
  BY <1>6, <1>7 DEF ComeUp

(* A second more, and as many requests.                                    *)
LEMMA LimitsTick ==
  ASSUME FrontInv, LimitsInv, Tick
  PROVE  LimitsInv'
<1>1. /\ cfg' = cfg /\ phase' = phase /\ ticks' = ticks + 1 /\ ticks \in Nat
      /\ req' = req /\ todo' = todo /\ sent' = sent /\ creds' = creds
      /\ limiter' = limiter /\ Running /\ Limiting
  BY FrontAssumption DEF Tick, startupVars, answerVars, FrontInv, TypeOK
<1>2. /\ Running' = Running /\ Limiting' = Limiting /\ AuthLimiting' = AuthLimiting
      /\ \A c, b : /\ Admitted(c, b)' = Admitted(c, b) /\ Tried(c, b)' = Tried(c, b)
                   /\ Checked(c, b)' = Checked(c, b)
                   /\ TriedAuth(c, b)' = TriedAuth(c, b)
      /\ \A r \in Requests : LimiterAhead(r)' /\ Charged(r)' /\ Excused(r)'
  BY <1>1, SameRequests DEF Running
<1>3. /\ cfg.limits.burst \in Int /\ cfg.limits.rate \in Int
      /\ cfg.limits.authBurst \in Int /\ cfg.limits.authRate \in Int
  BY <1>1, LimitNumbers DEF FrontInv
<1>4. ASSUME NEW c \in Clients, NEW b \in Buckets
      PROVE  /\ general[c][b] \in Int /\ authentic[c][b] \in Int
             /\ Cardinality(Admitted(c, b)) \in Nat /\ Cardinality(Tried(c, b)) \in Nat
             /\ Cardinality(Checked(c, b)) \in Nat
             /\ Cardinality(TriedAuth(c, b)) \in Nat
             /\ general'[c][b] =
                  Refilled(general[c][b], cfg.limits.rate, cfg.limits.burst)
             /\ authentic'[c][b] =
                  Refilled(authentic[c][b], cfg.limits.authRate, cfg.limits.authBurst)
  <2>1. general[c][b] \in Int /\ authentic[c][b] \in Int
    BY DEF FrontInv, TypeOK
  <2>2. /\ Cardinality(Admitted(c, b)) \in Nat /\ Cardinality(Tried(c, b)) \in Nat
        /\ Cardinality(Checked(c, b)) \in Nat /\ Cardinality(TriedAuth(c, b)) \in Nat
    BY FiniteSets, FS_CardinalityType
  <2>3. /\ general'[c][b] =
             Refilled(general[c][b], cfg.limits.rate, cfg.limits.burst)
        /\ authentic'[c][b] =
             Refilled(authentic[c][b], cfg.limits.authRate, cfg.limits.authBurst)
    BY DEF Tick
  <2> QED
    BY <2>1, <2>2, <2>3
<1>5. GeneralKept'
  <2> SUFFICES ASSUME NEW c \in Clients, NEW b \in Buckets
               PROVE  Kept(general'[c][b], cfg.limits.burst, cfg.limits.rate, ticks + 1,
                           Cardinality(Admitted(c, b)), Cardinality(Tried(c, b)))
    BY <1>1, <1>2 DEF GeneralKept
  <2>1. Kept(general[c][b], cfg.limits.burst, cfg.limits.rate, ticks,
             Cardinality(Admitted(c, b)), Cardinality(Tried(c, b)))
    BY <1>1 DEF LimitsInv, GeneralKept
  <2> QED
    BY <1>1, <1>3, <1>4, <2>1, KeptTick
<1>6. AuthKept'
  <2> SUFFICES ASSUME AuthLimiting, NEW c \in Clients, NEW b \in Buckets
               PROVE  Kept(authentic'[c][b], cfg.limits.authBurst, cfg.limits.authRate,
                           ticks + 1, Cardinality(Checked(c, b)),
                           Cardinality(TriedAuth(c, b)))
    BY <1>1, <1>2 DEF AuthKept
  <2>1. Kept(authentic[c][b], cfg.limits.authBurst, cfg.limits.authRate, ticks,
             Cardinality(Checked(c, b)), Cardinality(TriedAuth(c, b)))
    BY <1>1 DEF LimitsInv, AuthKept
  <2> QED
    BY <1>1, <1>3, <1>4, <2>1, KeptTick
<1> QED
  BY <1>2, <1>5, <1>6 DEF LimitsInv

(* Every step keeps the budgets.                                           *)
LEMMA LimitsStep == FrontInv /\ LimitsInv /\ [Next]_vars => LimitsInv'
<1> SUFFICES ASSUME FrontInv, LimitsInv, [Next]_vars PROVE LimitsInv'
  OBVIOUS
<1>1. CASE ComeUp
  BY <1>1, LimitsComeUp
<1>2. ASSUME NEW r \in Requests, Arrive(r) \/ Serve(r) PROVE LimitsInv'
  <2>1. TypeOK /\ StartInv /\ RequestOK(r)
    BY DEF FrontInv
  <2>2. /\ GeneralKept /\ AuthKept
        /\ \A q \in Requests : LimiterAhead(q)
        /\ \A q \in Requests : Charged(q)
    BY DEF LimitsInv
  <2>3. GeneralKept'
    BY <1>2, <2>1, <2>2, ServeGeneral
  <2>4. AuthKept'
    BY <1>2, <2>1, <2>2, ServeAuth
  <2>5. \A q \in Requests : LimiterAhead(q)'
    BY <1>2, <2>1, <2>2, ServeAhead
  <2>6. \A q \in Requests : Charged(q)'
    BY <1>2, <2>1, <2>2, ServeCharges
  <2>7. \A q \in Requests : Excused(q)'
    BY <1>2, <2>1, ServeExcuses
  <2> QED
    BY <2>3, <2>4, <2>5, <2>6, <2>7 DEF LimitsInv
<1>3. CASE Tick
  BY <1>3, LimitsTick
<1>4. CASE \E l \in Limiters, c \in Clients : Forget(l, c)
  BY <1>4, LimitsStutter DEF Forget, startupVars
<1>5. CASE Age
  BY <1>5, LimitsStutter DEF Age, frontVars, limiterVars
<1>6. CASE UNCHANGED vars
  BY <1>6, LimitsStutter DEF vars, startupVars, frontVars, limiterVars
<1> QED
  BY <1>1, <1>2, <1>3, <1>4, <1>5, <1>6 DEF Next, Settled

(* Before there is a server there is nothing to keep.                      *)
LEMMA LimitsInit == Init => LimitsInv
<1> SUFFICES ASSUME Init PROVE LimitsInv
  OBVIOUS
<1>1. phase # "running"
  BY Zenon DEF Init, StartupInit
<1>2. ASSUME NEW r \in Requests
      PROVE  todo[r] = <<>> /\ req[r] = NoRequest /\ creds[r] = "unasked"
  BY DEF Init
<1>3. ASSUME NEW r \in Requests PROVE LimiterAhead(r) /\ Charged(r) /\ Excused(r)
  BY <1>2 DEF LimiterAhead, Charged, Excused, At, Arrived, IsAdmitted, IsChecked
<1> QED
  BY <1>1, <1>3 DEF LimitsInv, GeneralKept, AuthKept, Running

(* Of a bucket that was kept nobody has taken more than it ever held.      *)
LEMMA TakenFromKept ==
  ASSUME NEW level \in Int, NEW burst \in Int, NEW rate \in Int, NEW t \in Nat,
         NEW U, NEW V, NEW tried, IsFiniteSet(U), V \subseteq U,
         Kept(level, burst, rate, t, Cardinality(U), tried)
  PROVE  Cardinality(V) <= (IF burst > 0 THEN burst ELSE 0)
                             + (IF rate > 0 THEN rate * t ELSE 0)
<1>1. Above(level) \in Nat /\ Above(burst) \in Nat /\ Above(rate) * t \in Nat
  BY AboveZero, Worth
<1>2. /\ Cardinality(U) \in Nat /\ Cardinality(V) \in Nat
      /\ Cardinality(V) <= Cardinality(U)
  BY FS_Subset, FS_CardinalityType
<1>3. Cardinality(U) + Above(level) <= Above(burst) + Above(rate) * t
  BY DEF Kept
<1>4. Above(burst) = IF burst > 0 THEN burst ELSE 0
  BY DEF Above
<1>5. Above(rate) * t = IF rate > 0 THEN rate * t ELSE 0
  BY DEF Above
<1> DEFINE w == Above(rate) * t
<1>6. Cardinality(V) <= Above(burst) + w
  <2> HIDE DEF w
  <2> QED
    BY <1>1, <1>2, <1>3 DEF w
<1> QED
  BY <1>4, <1>5, <1>6

(* Whatever the file says about limits, however requests overtake each     *)
(* other and whomever the sweepers forget between getVisitor and Allow:    *)
(* one bucket of a client pays for no more checks of credentials than its  *)
(* limiter allows, no credentials are checked without payment to both, and *)
(* a client is turned away only by a bucket that its own requests spent    *)
(* (RateLimiter.Middleware around the mux and around the handlers).        *)
THEOREM AttemptsStayBounded == Spec => []AttemptsBounded
<1>1. FrontInv /\ LimitsInv => AttemptsBounded
  <2> SUFFICES ASSUME FrontInv, LimitsInv, Running, Limiting
               PROVE  AttemptsBounded
    BY DEF AttemptsBounded
  <2> DEFINE l == cfg.limits
  <2>1. /\ l.burst \in Int /\ l.rate \in Int /\ l.authBurst \in Int /\ l.authRate \in Int
        /\ ticks \in Nat
    BY LimitNumbers, FrontAssumption DEF FrontInv, TypeOK
  <2>2. \A r \in Attempts : IsAdmitted(r) /\ IsChecked(r) /\ r \in Requests
    BY DEF Attempts, IsAdmitted, IsChecked
  <2>3. ASSUME NEW c \in Clients, NEW b \in Buckets
        PROVE  Cardinality(Attempts \cap Sharing("general", c, b))
                 <= (IF l.burst > 0 THEN l.burst ELSE 0)
                      + (IF l.rate > 0 THEN l.rate * ticks ELSE 0)
    <3>1. Kept(general[c][b], l.burst, l.rate, ticks, Cardinality(Admitted(c, b)),
               Cardinality(Tried(c, b)))
      BY DEF LimitsInv, GeneralKept
    <3>2. general[c][b] \in Int
      BY DEF FrontInv, TypeOK
    <3>3. Attempts \cap Sharing("general", c, b) \subseteq Admitted(c, b)
      BY <2>2 DEF Admitted
    <3> HIDE DEF l
    <3> QED
      BY <2>1, <3>1, <3>2, <3>3, FiniteSets, TakenFromKept
  <2>4. ASSUME AuthLimiting, NEW c \in Clients, NEW b \in Buckets
        PROVE  Cardinality(Attempts \cap Sharing("limit", c, b))
                 <= (IF l.authBurst > 0 THEN l.authBurst ELSE 0)
                      + (IF l.authRate > 0 THEN l.authRate * ticks ELSE 0)
    <3>1. Kept(authentic[c][b], l.authBurst, l.authRate, ticks,
               Cardinality(Checked(c, b)), Cardinality(TriedAuth(c, b)))
      BY <2>4 DEF LimitsInv, AuthKept
    <3>2. authentic[c][b] \in Int
      BY DEF FrontInv, TypeOK
    <3>3. Attempts \cap Sharing("limit", c, b) \subseteq Checked(c, b)
      BY <2>2 DEF Checked
    <3> HIDE DEF l
    <3> QED
      BY <2>1, <3>1, <3>2, <3>3, FiniteSets, TakenFromKept
  <2>5. ASSUME NEW r \in Attempts
        PROVE  /\ limiter["general"][r] # 0
               /\ AuthLimiting => limiter["limit"][r] # 0
    BY <2>2 DEF LimitsInv, Charged
  <2>6. ASSUME NEW r \in Requests, Arrived(r), sent[r] = 429
        PROVE  \/ Spent("general", r, l.burst)
               \/ /\ req[r].path \in Enrolling
                  /\ AuthLimiting
                  /\ Spent("limit", r, l.authBurst)
    BY <2>6 DEF LimitsInv, Excused
  <2> HIDE DEF l
  <2> QED
    BY <2>3, <2>4, <2>5, <2>6 DEF AttemptsBounded, l
<1> QED
  BY <1>1, FrontInit, LimitsInit, FrontStep, LimitsStep, PTL DEF Spec
===============================================================================
