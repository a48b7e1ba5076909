------------------------ MODULE EnrollmentServiceProofs ------------------------
(***************************************************************************)
(* More proofs about Enrollment, for any number of requests, any inputs,   *)
(* any bounds: that records, retries, logins and the order of the chain    *)
(* are what the properties say, and that the handlers implement the        *)
(* abstract service EstService.                                            *)
(***************************************************************************)
EXTENDS EnrollmentProofs, FiniteSetTheorems, FunctionTheorems

(* Where no signing call has been made yet.                                *)
Early == {"idle", "auth", "parse", "match", "keygen", "clone"}

Certified(r) == \E call \in issued : call.req = r

(* Nothing is recorded before the end. Whoever is past authentication has  *)
(* it in its log, and who is past signing has a certificate.               *)
Recorded(r) ==
  /\ pc[r] # "done" => /\ resp[r] = 0 /\ ~sent[r]
                       /\ log[r].cert = "none" /\ log[r].audit = "none"
  /\ pc[r] \notin {"idle", "auth", "done"} => log[r].auth = "success"
  /\ pc[r] \in {"encode", "write"} \/ resp[r] = 200 => Certified(r)
  /\ sent[r] <=> log[r].cert = "issued"
  /\ log[r].audit = "success" <=> sent[r] /\ input[r].op # "serverkeygen"
  /\ sent[r] => log[r].auth = "success" /\ resp[r] = 200

(* The calls of a request differ in their number, which is that of an      *)
(* attempt already made; each attempt but the first was paid for by a      *)
(* fault; and no call is both performed and on its way.                    *)
Numbered(r) ==
  /\ attempt[r] <= 1 + hurt[r]
  /\ \A call \in issued \cup late :
       call.req = r =>
         /\ pc[r] \notin Early
         /\ call.token = auth[r].token
         /\ call.try <= attempt[r]
         /\ pc[r] = "sign" => call.try < attempt[r]
  /\ \A call \in late : call.req = r => call \notin issued

(* Whatever a fault may have caused has a fault counted for it.            *)
Blamed(r) ==
  /\ gone[r] # "no" => hurt[r] > 0
  /\ \A call \in late : call.req = r => hurt[r] > 0
  /\ pc[r] = "sign" /\ Certified(r) => hurt[r] > 0
  /\ pc[r] = "encode" => input[r].op = "serverkeygen"
  /\ pc[r] = "done" /\ Certified(r) /\ ~sent[r] =>
       hurt[r] > 0 \/ (input[r].op = "serverkeygen" /\ ~CanEncode(r))

(* The methods before the one that accepted have been tried, all of them   *)
(* if none did; and without a fault each of them would still refuse.       *)
InOrder(r) ==
  /\ pc[r] \in {"idle", "auth"} \/ resp[r] = 401 =>
       auth[r].token = NoToken /\ auth[r].method = "none"
  /\ resp[r] = 401 => Applicable(r) \subseteq tried[r]
  /\ auth[r].method # "none" =>
       \A m \in Applicable(r) :
         Position(m) < Position(auth[r].method) => m \in tried[r]
  /\ hurt[r] = 0 =>
       \A m \in tried[r] : m # auth[r].method => ~Accepts(r, m)

(* The tokens minted for logins of r that r does not hold. Each was lost   *)
(* to a fault; a login on its way when the client went may still be lost   *)
(* to that one.                                                            *)
Left(r) == (LoginsOf(r) \cap minted) \ {auth[r].token}

Pending(r) == IF gone[r] \in Methods \ tried[r] THEN 1 ELSE 0

LoggedIn(r) ==
  /\ \A m \in LoginMethods : <<r, m>> \in minted => m \in tried[r]
  /\ Cardinality(Left(r)) + Pending(r) <= hurt[r]

(* What Deserves asks for, as far as the handler has come to ask for it.   *)
Credited(i) ==
  \/ "token" \in Enabled /\ i.bearer \in ValidBearers
  \/ "cert" \in Enabled \cap i.accepts /\ i.tls # "none"
  \/ i.basic /\ Enabled \cap i.accepts \cap BasicMethods # {}

Readable(i) ==
  /\ i.csr \notin {"large", "malformed"}
  /\ i.op # "serverkeygen" => i.csr \notin {"badalg", "badsig"}

Matched(i) == i.op = "reenroll" /\ i.tls # "none" => i.sameKey /\ i.sameName

Entitled(r) ==
  /\ pc[r] \notin {"idle", "done"} => input[r].post
  /\ pc[r] \notin {"idle", "auth", "done"} => Credited(input[r])
  /\ pc[r] \notin {"idle", "auth", "parse", "done"} => Readable(input[r])
  /\ pc[r] \in {"keygen", "clone", "sign", "encode", "write"} => Matched(input[r])
  /\ \A call \in issued \cup late : call.req = r => Deserves(input[r])

(* The backend holds valid what it did at the start, and logins.           *)
MintedKnown == minted \subseteq ValidBearers \cup {ServiceToken} \cup LoginTokens

RequestInv(r) ==
  /\ Recorded(r)
  /\ Numbered(r)
  /\ Blamed(r)
  /\ InOrder(r)
  /\ LoggedIn(r)
  /\ Entitled(r)

(* The inductive invariant: what EnrollmentProofs has shown, what the      *)
(* backend holds valid, and what each request has come to.                 *)
ServiceInv ==
  /\ IInv
  /\ MintedKnown
  /\ \A r \in Requests : RequestInv(r)

-------------------------------------------------------------------------------
(* What happens to the credentials.                                        *)

(* The backend accepts no credentials later that it does not accept now.   *)
Fades(r) == \A m \in Methods : Accepts(r, m)' => Accepts(r, m)

(* A step mints nothing but a token for a login.                           *)
LEMMA MintedStep ==
  ASSUME IInv, [Next]_vars
  PROVE  minted' \subseteq minted \cup LoginTokens /\ dead \subseteq dead'
<1> USE DEF backendVars, faultVars, inputVars, handlerVars
<1>1. ASSUME NEW r \in Requests, NEW m \in Methods, AuthAccepted(r, m)
      PROVE  minted' \subseteq minted \cup LoginTokens /\ dead \subseteq dead'
  BY <1>1
  DEF AuthAccepted, Accepts, TokenOf, Live, Methods, LoginTokens
<1>2. ASSUME NEW r \in Requests, NEW m \in Methods, AuthBroken(r, m)
      PROVE  minted' \subseteq minted \cup LoginTokens /\ dead \subseteq dead'
  BY <1>2 DEF AuthBroken, TokenOf, Methods, LoginTokens
<1>3. ASSUME NEW r \in Requests, HandlerStep(r),
             \A m \in Methods : ~AuthAccepted(r, m) /\ ~AuthBroken(r, m)
      PROVE  UNCHANGED <<minted, dead>>
  BY <1>3
  DEF HandlerStep, Arrive, AuthRefused, Unauthenticated, AcceptCSR, RejectBody,
      RejectSignature, MatchCertificate, GenerateKey, CloneClient,
      RejectPolicy, SignGranted, SignRefused, SignRetried, SignAbandoned,
      EncodeKey, WriteCertificate, WriteBroken
<1>4. ASSUME NEW r \in Requests, Disconnect(r) PROVE UNCHANGED <<minted, dead>>
  BY <1>4 DEF Disconnect
<1>5. ASSUME NEW call \in late, LateCall(call) PROVE UNCHANGED <<minted, dead>>
  BY <1>5 DEF LateCall
<1>6. ASSUME NEW t \in Tokens, Revoke(t)
      PROVE  UNCHANGED minted /\ dead \subseteq dead'
  BY <1>6 DEF Revoke
<1>7. CASE UNCHANGED vars
  BY <1>7 DEF vars
<1> QED
  BY <1>1, <1>2, <1>3, <1>4, <1>5, <1>6, <1>7 DEF Next, Finished

(* So a bearer token or the service's own token can only cease to be       *)
(* valid, and with it what the backend accepts.                            *)
LEMMA Fading ==
  ASSUME IInv, MintedKnown, [Next]_vars
  PROVE  MintedKnown' /\ \A r \in Requests : Fades(r)
<1>1. /\ minted' \subseteq minted \cup LoginTokens /\ dead \subseteq dead'
      /\ UNCHANGED input
  BY MintedStep, CallsStep
<1>2. MintedKnown'
  BY <1>1 DEF MintedKnown
<1>3. client[Server] = ServiceToken /\ client'[Server] = ServiceToken
  BY StepIInv DEF IInv, ClonesScrubbed
<1>4. ASSUME NEW r \in Requests, NEW m \in Methods, Accepts(r, m)'
      PROVE  Accepts(r, m)
  <2>1. CASE m = "token"
    <3>1. input[r].bearer \in BearerTokens \cup {NoToken}
      BY EnrollmentAssumption DEF IInv, TypeOK, InputType
    <3>2. input[r].bearer \in minted' \ dead'
      BY <1>1, <1>4, <2>1 DEF Accepts, Live
    <3>3. minted' \subseteq Tokens
      BY TypeStep DEF TypeOK
    <3>4. input[r].bearer \in BearerTokens /\ input[r].bearer \notin LoginTokens
      BY <3>1, <3>2, <3>3, EnrollmentAssumption
    <3>5. input[r].bearer \in minted \ dead
      BY <1>1, <3>2, <3>4
    <3> QED
      BY <2>1, <3>5 DEF Accepts, Live
  <2>2. CASE m # "token"
    <3>1. ServiceToken \in minted' \ dead' => ServiceToken \in minted \ dead
      BY <1>1, EnrollmentAssumption
    <3> QED
      BY <1>1, <1>3, <1>4, <2>2, <3>1 DEF Accepts, Live
  <2> QED
    BY <2>1, <2>2
<1> QED
  BY <1>2, <1>4 DEF Fades

-------------------------------------------------------------------------------
(* What happens to one request does not concern the others.                *)
Untouched(q) ==
  /\ pc'[q] = pc[q] /\ tried'[q] = tried[q] /\ auth'[q] = auth[q]
  /\ attempt'[q] = attempt[q] /\ resp'[q] = resp[q] /\ sent'[q] = sent[q]
  /\ log'[q] = log[q] /\ gone'[q] = gone[q] /\ hurt'[q] = hurt[q]
  /\ \A call \in Calls :
       call.req = q => /\ call \in issued' <=> call \in issued
                       /\ call \in late' <=> call \in late
  /\ LoginsOf(q) \cap minted' = LoginsOf(q) \cap minted

(* A call of one request is none of another.                               *)
LEMMA CallsApart ==
  ASSUME IInv, NEW r \in Requests, pc[r] = "sign", Unanswered(r),
         NEW q \in Requests \ {r}, NEW call \in Calls, call.req = q
  PROVE  /\ call \in issued' <=> call \in issued
         /\ call \in late' <=> call \in late
BY ThisCallOwn DEF Unanswered, Issue

(* A token of one request is none of another's logins.                     *)
LEMMA LoginsApart ==
  ASSUME TypeOK, NEW r \in Requests, NEW m \in Methods, NEW q \in Requests \ {r},
         Presented(r, m)
  PROVE  TokenOf(r, m) \notin LoginsOf(q)
<1>1. CASE m = "token"
  <2>1. input[r].bearer \in BearerTokens
    BY <1>1, EnrollmentAssumption
    DEF TypeOK, Presented, InputType, BasicMethods, LoginMethods
  <2>2. LoginsOf(q) \subseteq LoginTokens
    BY DEF LoginsOf, LoginTokens
  <2> QED
    BY <1>1, <2>1, <2>2, EnrollmentAssumption DEF TokenOf
<1>2. CASE m # "token"
  BY <1>2 DEF TokenOf, LoginsOf
<1> QED
  BY <1>1, <1>2

LEMMA HandlerApart ==
  ASSUME IInv, NEW r \in Requests, HandlerStep(r), NEW q \in Requests \ {r}
  PROVE  Untouched(q)
<1> USE DEF backendVars, faultVars, inputVars, Goto, Untouched
<1>0. TypeOK /\ q \in Requests /\ q # r
  BY DEF IInv
<1>1. CASE Arrive(r)
  BY <1>0, <1>1 DEF Arrive, Finish, TypeOK
<1>2. ASSUME NEW m \in Methods, AuthAccepted(r, m) PROVE Untouched(q)
  <2>1. TokenOf(r, m) \notin LoginsOf(q)
    BY <1>0, <1>2, LoginsApart DEF AuthAccepted, IsNext, Applicable
  <2> QED
    BY <1>0, <1>2, <2>1 DEF AuthAccepted, Tried, FirstWins, TypeOK
<1>3. ASSUME NEW m \in Methods, AuthRefused(r, m) PROVE Untouched(q)
  BY <1>0, <1>3 DEF AuthRefused, Tried, TypeOK
<1>4. ASSUME NEW m \in Methods, AuthBroken(r, m) PROVE Untouched(q)
  <2>1. TokenOf(r, m) \notin LoginsOf(q)
    BY <1>0, <1>4, LoginsApart DEF AuthBroken, IsNext, Applicable
  <2> QED
    BY <1>0, <1>4, <2>1 DEF AuthBroken, Tried, Broken, Hurt, TypeOK
<1>5. CASE Unauthenticated(r)
  BY <1>0, <1>5 DEF Unauthenticated, TypeOK
<1>6. CASE AcceptCSR(r) \/ RejectBody(r) \/ RejectSignature(r)
  BY <1>0, <1>6 DEF AcceptCSR, RejectBody, RejectSignature, Finish, TypeOK
<1>7. CASE MatchCertificate(r) \/ GenerateKey(r) \/ EncodeKey(r)
  BY <1>0, <1>7 DEF MatchCertificate, GenerateKey, EncodeKey, Finish, TypeOK
<1>8. CASE CloneClient(r)
  BY <1>0, <1>8 DEF CloneClient, Finish, TypeOK
<1>9. CASE RejectPolicy(r) \/ SignRefused(r)
  BY <1>0, <1>9 DEF RejectPolicy, SignRefused, SignFails, Finish, TypeOK
<1>10. CASE SignGranted(r)
  BY <1>0, <1>10, ThisCallOwn DEF SignGranted, Issue, TypeOK
<1>11. CASE SignRetried(r)
  BY <1>0, <1>11, CallsApart DEF SignRetried, Hurt, TypeOK
<1>12. CASE SignAbandoned(r)
  BY <1>0, <1>12, CallsApart
  DEF SignAbandoned, SignFails, Finish, Broken, Hurt, TypeOK
<1>13. CASE WriteCertificate(r) \/ WriteBroken(r)
  BY <1>0, <1>13
  DEF WriteCertificate, WriteBroken, Unrecorded, Finish, Broken, Hurt, TypeOK
<1> QED
  BY <1>1, <1>2, <1>3, <1>4, <1>5, <1>6, <1>7, <1>8, <1>9, <1>10, <1>11, <1>12,
     <1>13
  DEF HandlerStep

(* A request that a step does not touch is as well off as before.          *)
LEMMA UntouchedOK ==
  ASSUME IInv, IInv', NEW q \in Requests, RequestInv(q), Untouched(q), Fades(q),
         UNCHANGED input
  PROVE  RequestInv(q)'
<1>1. /\ issued \subseteq Calls /\ late \subseteq Calls
      /\ issued' \subseteq Calls /\ late' \subseteq Calls
  BY DEF IInv, TypeOK
<1>2. Certified(q)' <=> Certified(q)
  BY <1>1 DEF Certified, Untouched
<1>3. Recorded(q)'
  BY <1>2 DEF RequestInv, Recorded, Untouched
<1>4. Numbered(q)'
  BY <1>1 DEF RequestInv, Numbered, Untouched
<1>5. Blamed(q)'
  BY <1>1, <1>2 DEF RequestInv, Blamed, CanEncode, Untouched
<1>6. InOrder(q)'
  <2>1. Applicable(q)' = Applicable(q)
    BY DEF Applicable, Presented
  <2>2. tried[q] \subseteq Methods
    BY DEF IInv, TypeOK
  <2> QED
    BY <2>1, <2>2 DEF RequestInv, InOrder, Untouched, Fades
<1>7. LoggedIn(q)'
  <2>1. Left(q)' = Left(q) /\ Pending(q)' = Pending(q)
    BY DEF Left, Pending, LoginsOf, Untouched
  <2> QED
    BY <2>1 DEF RequestInv, LoggedIn, LoginsOf, Untouched
<1>8. Entitled(q)'
  BY <1>1 DEF RequestInv, Entitled, Untouched
<1> QED
  BY <1>3, <1>4, <1>5, <1>6, <1>7, <1>8 DEF RequestInv

-------------------------------------------------------------------------------
(* What happens to the request itself. First the parts that have to do     *)
(* with credentials only, after any step that leaves these alone.          *)
KeepsCredentials(r) ==
  /\ tried'[r] = tried[r] /\ auth'[r] = auth[r] /\ gone'[r] = gone[r]
  /\ hurt[r] <= hurt'[r]
  /\ UNCHANGED <<input, minted>>
  /\ pc'[r] \in {"idle", "auth"} => pc[r] \in {"idle", "auth"}
  /\ resp'[r] = 401 => resp[r] = 401

(* There are four logins a request can try.                                *)
LEMMA LoginsFinite == ASSUME NEW r PROVE IsFiniteSet(LoginsOf(r))
<1> DEFINE login(m) == <<r, m>>
           one == {login("cert")}
           two == one \cup {login("userpass")}
           three == two \cup {login("ldap")}
<1>0. IsFiniteSet(one)
  BY FS_Singleton
<1> HIDE DEF login, one
<1>1. IsFiniteSet(two)
  BY <1>0, FS_AddElement
<1>2. IsFiniteSet(three)
  BY <1>1, FS_AddElement
<1>3. IsFiniteSet(three \cup {login("approle")})
  BY <1>2, FS_AddElement
<1>4. LoginsOf(r) = three \cup {login("approle")}
  BY DEF LoginsOf, LoginMethods, login, one
<1> QED
  BY <1>3, <1>4

LEMMA LeftFinite ==
  ASSUME NEW r
  PROVE  IsFiniteSet(Left(r)) /\ Cardinality(Left(r)) \in Nat
<1>1. Left(r) \in SUBSET LoginsOf(r)
  BY DEF Left
<1> QED
  BY <1>1, LoginsFinite, FS_Subset, FS_CardinalityType

(* Then the order of the chain and the count of logins stay true.          *)
LEMMA CredentialsOK ==
  ASSUME IInv, IInv', NEW r \in Requests, RequestInv(r), KeepsCredentials(r),
         Fades(r)
  PROVE  InOrder(r)' /\ LoggedIn(r)'
<1>1. Applicable(r)' = Applicable(r)
  BY DEF Applicable, Presented, KeepsCredentials
<1>2. tried[r] \subseteq Methods /\ hurt[r] \in Nat /\ hurt'[r] \in Nat
  BY EnrollmentAssumption DEF IInv, TypeOK
<1>3. InOrder(r)'
  BY <1>1, <1>2 DEF RequestInv, InOrder, KeepsCredentials, Fades
<1>4. LoggedIn(r)'
  <2>1. Left(r)' = Left(r) /\ Pending(r)' = Pending(r)
    BY DEF Left, Pending, LoginsOf, KeepsCredentials
  <2>2. IsFiniteSet(Left(r)) /\ Cardinality(Left(r)) \in Nat
    BY LeftFinite
  <2>3. Pending(r) \in {0, 1}
    BY DEF Pending
  <2>4. Cardinality(Left(r)) + Pending(r) <= hurt[r] /\ hurt[r] <= hurt'[r]
    BY DEF RequestInv, LoggedIn, KeepsCredentials
  <2>5. Cardinality(Left(r)) + Pending(r) <= hurt'[r]
    BY <1>2, <2>2, <2>3, <2>4
  <2> QED
    BY <2>1, <2>5 DEF RequestInv, LoggedIn, KeepsCredentials
<1> QED
  BY <1>3, <1>4

(* What a return writes, entry by entry.                                   *)
LEMMA FinishIs ==
  ASSUME TypeOK, NEW r \in Requests, NEW status, NEW cert, NEW result,
         Finish(r, status, cert, result)
  PROVE  /\ pc'[r] = "done" /\ resp'[r] = status
         /\ log'[r].auth = log[r].auth /\ log'[r].cert = cert
         /\ log'[r].audit = Audited(r, result)
         /\ tried'[r] = tried[r] /\ auth'[r] = auth[r]
         /\ attempt'[r] = attempt[r]
BY DEF Finish, Goto, TypeOK

(* The calls of r are as before, but for one that it made in this step and *)
(* that met a fault.                                                       *)
KeepsCalls(r) ==
  /\ \A call \in issued' \cup late' :
       call.req = r =>
         \/ call \in issued \cup late
         \/ pc[r] = "sign" /\ call = ThisCall(r)
  /\ \A call \in late' : call.req = r => call \notin issued' /\ hurt'[r] > 0
  /\ Certified(r) => Certified(r)'
  /\ Certified(r)' => Certified(r) \/ hurt'[r] > 0

(* The handler returns an error, one that is not about credentials.        *)
LEMMA RefusalOK ==
  ASSUME IInv, IInv', NEW r \in Requests, RequestInv(r), Fades(r),
         NEW status \in Statuses \ {0, 200, 401},
         NEW cert \in {"none", "rejected"}, NEW result \in {"none", "denied", "error"},
         Finish(r, status, cert, result),
         UNCHANGED <<sent, gone, minted, input>>,
         hurt[r] <= hurt'[r], KeepsCalls(r),
         pc[r] \notin {"write", "done"},
         pc[r] = "encode" => ~CanEncode(r)
  PROVE  RequestInv(r)'
<1>0. TypeOK /\ TypeOK'
  BY DEF IInv
<1>1. /\ pc'[r] = "done" /\ resp'[r] = status
      /\ log'[r].cert = cert /\ log'[r].audit \in {"none", "denied", "error"}
      /\ tried'[r] = tried[r] /\ auth'[r] = auth[r] /\ attempt'[r] = attempt[r]
  BY <1>0, FinishIs DEF Audited
<1>2. hurt[r] \in Nat /\ hurt'[r] \in Nat /\ attempt[r] \in Nat
  BY <1>0, EnrollmentAssumption DEF TypeOK, Attempts
<1>3. Recorded(r)'
  BY <1>1 DEF RequestInv, Recorded
<1>4. Numbered(r)'
  <2>1. attempt'[r] <= 1 + hurt'[r]
    BY <1>1, <1>2 DEF RequestInv, Numbered
  <2>2. ASSUME NEW call \in issued' \cup late', call.req = r
        PROVE  call.token = auth'[r].token /\ call.try <= attempt'[r]
    <3>1. CASE call \in issued \cup late
      BY <1>1, <2>2, <3>1 DEF RequestInv, Numbered
    <3>2. CASE pc[r] = "sign" /\ call = ThisCall(r)
      BY <1>1, <1>2, <3>2 DEF ThisCall, IInv, ClonesScrubbed
    <3> QED
      BY <2>2, <3>1, <3>2 DEF KeepsCalls
  <2> QED
    BY <1>1, <2>1, <2>2 DEF Numbered, KeepsCalls, Early
<1>5. Blamed(r)'
  <2>1. CASE pc[r] = "encode"
    BY <1>1, <1>2, <2>1 DEF RequestInv, Blamed, KeepsCalls, CanEncode
  <2>2. CASE pc[r] # "encode"
    <3>1. Certified(r) => hurt[r] > 0
      <4>1. pc[r] \in Early \cup {"sign"}
        BY <1>0, <2>2 DEF TypeOK, PCs, Early
      <4> QED
        BY <4>1 DEF RequestInv, Blamed, Numbered, Certified
    <3> QED
      BY <1>1, <1>2, <3>1 DEF RequestInv, Blamed, KeepsCalls
  <2> QED
    BY <2>1, <2>2
<1>6. InOrder(r)' /\ LoggedIn(r)'
  BY <1>1, CredentialsOK DEF KeepsCredentials
<1>7. Entitled(r)'
  <2>1. pc[r] = "sign" => Deserves(input[r])
    BY DEF RequestInv, Entitled, Deserves, Credited, Readable, Matched
  <2> QED
    BY <1>1, <2>1 DEF RequestInv, Entitled, KeepsCalls
<1> QED
  BY <1>3, <1>4, <1>5, <1>6, <1>7 DEF RequestInv

(* The handler goes on, having looked at what Entitled asks for by now.    *)
LEMMA ProceedOK ==
  ASSUME IInv, IInv', NEW r \in Requests, RequestInv(r), Fades(r),
         NEW to \in {"auth", "match", "keygen", "clone", "write"},
         Goto(r, to),
         UNCHANGED <<tried, auth, attempt, resp, sent, log, issued, late, gone,
                     hurt, minted, input>>,
         \/ pc[r] = "idle" /\ to = "auth" /\ input[r].post
         \/ /\ pc[r] \in {"parse", "match", "keygen"}
            /\ to \in {"match", "keygen", "clone"}
            /\ Readable(input[r])
            /\ to # "match" => Matched(input[r])
         \/ pc[r] = "encode" /\ to = "write"
  PROVE  RequestInv(r)'
<1>0. TypeOK
  BY DEF IInv
<1>1. pc'[r] = to
  BY <1>0 DEF Goto, TypeOK
<1>2. hurt[r] \in Nat
  BY <1>0, EnrollmentAssumption DEF TypeOK
<1>3. Certified(r)' <=> Certified(r)
  BY DEF Certified
<1>4. Recorded(r)'
  BY <1>1, <1>3 DEF RequestInv, Recorded
<1>5. Numbered(r)'
  BY <1>1 DEF RequestInv, Numbered, Early
<1>6. Blamed(r)'
  BY <1>1, <1>3 DEF RequestInv, Blamed
<1>7. InOrder(r)' /\ LoggedIn(r)'
  BY <1>1, <1>2, CredentialsOK DEF KeepsCredentials
<1>8. Entitled(r)'
  BY <1>1 DEF RequestInv, Entitled
<1> QED
  BY <1>4, <1>5, <1>6, <1>7, <1>8 DEF RequestInv

(* Who makes no call keeps its calls.                                      *)
LEMMA CallsKept ==
  ASSUME IInv, NEW r \in Requests, RequestInv(r), UNCHANGED <<issued, late>>,
         hurt[r] <= hurt'[r], IInv'
  PROVE  KeepsCalls(r)
<1>1. hurt[r] \in Nat /\ hurt'[r] \in Nat
  BY EnrollmentAssumption DEF IInv, TypeOK
<1> QED
  BY <1>1 DEF KeepsCalls, RequestInv, Numbered, Blamed, Certified

(* The call of the current attempt has not been made before.               *)
LEMMA ThisCallNew ==
  ASSUME IInv, NEW r \in Requests, RequestInv(r), pc[r] = "sign"
  PROVE  /\ ThisCall(r) \notin issued \cup late
         /\ ThisCall(r).req = r /\ ThisCall(r).try = attempt[r]
         /\ ThisCall(r).token = auth[r].token
         /\ attempt[r] \in Attempts
BY EnrollmentAssumption
DEF ThisCall, RequestInv, Numbered, IInv, Signing, ClonesScrubbed, Attempts

(* A call that gets no reply, for which a fault has been counted.          *)
LEMMA UnansweredOK ==
  ASSUME IInv, NEW r \in Requests, RequestInv(r), pc[r] = "sign", Unanswered(r),
         hurt'[r] > 0
  PROVE  KeepsCalls(r)
<1>1. \A call \in late : call.req = r => call \notin issued
  BY DEF RequestInv, Numbered
<1> QED
  BY <1>1, ThisCallNew DEF Unanswered, Issue, KeepsCalls, Certified

(* Whatever breaks has a fault counted for it.                             *)
LEMMA BrokenHurts ==
  ASSUME TypeOK, NEW r \in Requests, RequestInv(r), Hurt(r) \/ Broken(r)
  PROVE  hurt'[r] > 0 /\ hurt[r] <= hurt'[r]
<1>1. hurt[r] \in Nat
  BY EnrollmentAssumption DEF TypeOK
<1>2. CASE Hurt(r)
  BY <1>1, <1>2 DEF Hurt, TypeOK
<1>3. CASE gone[r] # "no" /\ UNCHANGED hurt
  BY <1>1, <1>3 DEF RequestInv, Blamed
<1> QED
  BY <1>2, <1>3 DEF Broken

(* No error of the backend is told as a success or as a 401.               *)
LEMMA BackendRefuses ==
  \A kind \in {"denied", "invalid", "missing", "transport", "context"} :
    BackendStatus[kind] \subseteq Statuses \ {0, 200, 401}
BY DEF BackendStatus, Statuses

(* A signing call that fails.                                              *)
LEMMA SignFailsOK ==
  ASSUME IInv, IInv', NEW r \in Requests, RequestInv(r), Fades(r), pc[r] = "sign",
         NEW kind \in {"denied", "invalid", "missing", "transport", "context"},
         SignFails(r, kind), UNCHANGED <<sent, gone, minted, input>>,
         hurt[r] <= hurt'[r], KeepsCalls(r)
  PROVE  RequestInv(r)'
<1>1. PICK status \in Statuses \ {0, 200, 401} :
        Finish(r, status, "rejected", "error")
  BY BackendRefuses DEF SignFails
<1> QED
  BY <1>1, RefusalOK

LEMMA ArriveOK ==
  ASSUME IInv, IInv', NEW r \in Requests, RequestInv(r), Fades(r), Arrive(r)
  PROVE  RequestInv(r)'
<1> USE DEF backendVars, faultVars, inputVars
<1>1. pc[r] = "idle" /\ UNCHANGED <<sent, backendVars, faultVars, inputVars>>
  BY DEF Arrive
<1>2. hurt[r] \in Nat
  BY EnrollmentAssumption DEF IInv, TypeOK
<1>3. CASE input[r].post
  <2>1. Goto(r, "auth") /\ UNCHANGED <<tried, auth, attempt, resp, log>>
    BY <1>3 DEF Arrive
  <2> QED
    BY <1>1, <1>3, <2>1, ProceedOK
<1>4. CASE ~input[r].post
  <2>1. Finish(r, 405, "none", "none") /\ 405 \in Statuses \ {0, 200, 401}
    BY <1>4 DEF Arrive, Statuses
  <2> QED
    BY <1>1, <1>2, <2>1, CallsKept, RefusalOK
<1> QED
  BY <1>3, <1>4

(* The steps between authentication and the clone.                         *)
LEMMA ParseOK ==
  ASSUME IInv, IInv', NEW r \in Requests, RequestInv(r), Fades(r),
         \/ AcceptCSR(r) \/ RejectBody(r) \/ RejectSignature(r)
         \/ MatchCertificate(r) \/ GenerateKey(r)
  PROVE  RequestInv(r)'
<1> USE DEF backendVars, faultVars, inputVars
<1>1. /\ pc[r] \in {"parse", "match", "keygen"}
      /\ UNCHANGED <<sent, backendVars, faultVars, inputVars>>
  BY DEF AcceptCSR, RejectBody, RejectSignature, MatchCertificate, GenerateKey
<1>2. hurt[r] \in Nat
  BY EnrollmentAssumption DEF IInv, TypeOK
<1>3. CASE \E status \in {400, 413, 500}, cert \in {"none", "rejected"},
              result \in {"none", "denied"} : Finish(r, status, cert, result)
  <2>1. PICK status \in Statuses \ {0, 200, 401}, cert \in {"none", "rejected"},
             result \in {"none", "denied", "error"} : Finish(r, status, cert, result)
    BY <1>3 DEF Statuses
  <2> QED
    BY <1>1, <1>2, <2>1, CallsKept, RefusalOK
<1>4. CASE AcceptCSR(r)
  <2>1. Readable(input[r])
    BY <1>4 DEF AcceptCSR, Readable, Unreadable, BadSignature
  <2>2. /\ AfterCSR(r) \in {"match", "keygen", "clone"}
        /\ AfterCSR(r) # "match" => Matched(input[r])
    BY DEF AfterCSR, Matched
  <2>3. Goto(r, AfterCSR(r)) /\ UNCHANGED <<tried, auth, attempt, resp, log>>
    BY <1>4 DEF AcceptCSR
  <2> QED
    BY <1>1, <2>1, <2>2, <2>3, ProceedOK
<1>5. CASE pc[r] = "match" /\ Matches(r) /\ Goto(r, "clone")
           /\ UNCHANGED <<tried, auth, attempt, resp, log>>
  <2>1. Readable(input[r]) /\ Matched(input[r])
    BY <1>5 DEF RequestInv, Entitled, Matches, Matched
  <2> QED
    BY <1>1, <1>5, <2>1, ProceedOK
<1>6. CASE pc[r] = "keygen" /\ Goto(r, "clone")
           /\ UNCHANGED <<tried, auth, attempt, resp, log>>
  <2>1. Readable(input[r]) /\ Matched(input[r])
    BY <1>6 DEF RequestInv, Entitled
  <2> QED
    BY <1>1, <1>6, <2>1, ProceedOK
<1> QED
  BY <1>3, <1>4, <1>5, <1>6
  DEF RejectBody, RejectSignature, MatchCertificate, GenerateKey

LEMMA CloneOK ==
  ASSUME IInv, IInv', NEW r \in Requests, RequestInv(r), Fades(r), CloneClient(r)
  PROVE  RequestInv(r)'
<1> USE DEF backendVars, faultVars, inputVars
<1>0. TypeOK
  BY DEF IInv
<1>1. pc[r] = "clone" /\ UNCHANGED <<sent, backendVars, faultVars, inputVars>>
  BY DEF CloneClient
<1>2. hurt[r] \in Nat
  BY <1>0, EnrollmentAssumption DEF TypeOK
<1>3. CASE auth[r].token = NoToken
  <2>1. Finish(r, 502, "rejected", "error") /\ 502 \in Statuses \ {0, 200, 401}
    BY <1>3 DEF CloneClient, Statuses
  <2> QED
    BY <1>1, <1>2, <2>1, CallsKept, RefusalOK
<1>4. CASE auth[r].token # NoToken
  <2>1. /\ pc'[r] = "sign" /\ attempt'[r] = 1
        /\ UNCHANGED <<tried, auth, resp, log>>
    BY <1>0, <1>4 DEF CloneClient, Goto, TypeOK
  <2>2. ~Certified(r) /\ (Certified(r)' <=> Certified(r))
    BY <1>1 DEF RequestInv, Numbered, Certified, Early
  <2>3. Recorded(r)'
    BY <1>1, <2>1, <2>2 DEF RequestInv, Recorded
  <2>4. Numbered(r)'
    BY <1>1, <1>2, <2>1 DEF RequestInv, Numbered, Early
  <2>5. Blamed(r)'
    BY <1>1, <2>1, <2>2 DEF RequestInv, Blamed
  <2>6. InOrder(r)' /\ LoggedIn(r)'
    BY <1>1, <1>2, <2>1, CredentialsOK DEF KeepsCredentials
  <2>7. Entitled(r)'
    BY <1>1, <2>1 DEF RequestInv, Entitled
  <2> QED
    BY <2>3, <2>4, <2>5, <2>6, <2>7 DEF RequestInv
<1> QED
  BY <1>3, <1>4

(* The signing call: granted, tried again, or failed.                      *)
LEMMA GrantOK ==
  ASSUME IInv, IInv', NEW r \in Requests, RequestInv(r), Fades(r), SignGranted(r)
  PROVE  RequestInv(r)'
<1> USE DEF backendVars, faultVars, inputVars
<1>0. TypeOK
  BY DEF IInv
<1>1. /\ pc[r] = "sign" /\ issued' = issued \cup {ThisCall(r)}
      /\ UNCHANGED <<tried, auth, attempt, resp, log, sent, minted, late, gone,
                     hurt, input>>
  BY DEF SignGranted, Issue
<1>2. /\ pc'[r] \in {"encode", "write"}
      /\ pc'[r] = "encode" => input[r].op = "serverkeygen"
  BY <1>0, <1>1 DEF SignGranted, AfterGrant, Goto, TypeOK
<1>3. hurt[r] \in Nat /\ attempt[r] \in Nat
  BY <1>0, EnrollmentAssumption DEF TypeOK, Attempts
<1>4. Certified(r)'
  BY <1>1, ThisCallNew DEF Certified
<1>5. Recorded(r)'
  BY <1>1, <1>2, <1>4 DEF RequestInv, Recorded
<1>6. Numbered(r)'
  BY <1>1, <1>2, <1>3, ThisCallNew DEF RequestInv, Numbered, Early
<1>7. Blamed(r)'
  BY <1>1, <1>2 DEF RequestInv, Blamed
<1>8. InOrder(r)' /\ LoggedIn(r)'
  BY <1>1, <1>2, <1>3, CredentialsOK DEF KeepsCredentials
<1>9. Entitled(r)'
  BY <1>1, <1>2
  DEF RequestInv, Entitled, Deserves, Credited, Readable, Matched
<1> QED
  BY <1>5, <1>6, <1>7, <1>8, <1>9 DEF RequestInv

LEMMA RetryOK ==
  ASSUME IInv, IInv', NEW r \in Requests, RequestInv(r), Fades(r), SignRetried(r)
  PROVE  RequestInv(r)'
<1>0. TypeOK
  BY DEF IInv
<1>1. /\ pc[r] = "sign" /\ Hurt(r) /\ Unanswered(r)
      /\ UNCHANGED <<pc, tried, auth, resp, log, sent, minted, gone, input>>
  BY DEF SignRetried, inputVars
<1>2. /\ attempt'[r] = attempt[r] + 1 /\ hurt'[r] = hurt[r] + 1
      /\ hurt[r] \in Nat /\ attempt[r] \in Nat
  BY <1>0, <1>1, EnrollmentAssumption DEF SignRetried, Hurt, TypeOK, Attempts
<1>3. KeepsCalls(r)
  BY <1>1, <1>2, UnansweredOK
<1>4. Recorded(r)'
  BY <1>1, <1>3 DEF RequestInv, Recorded
<1>5. Numbered(r)'
  <2>1. attempt'[r] <= 1 + hurt'[r]
    BY <1>2 DEF RequestInv, Numbered
  <2>2. ASSUME NEW call \in issued' \cup late', call.req = r
        PROVE  call.token = auth[r].token /\ call.try < attempt'[r]
               /\ call.try <= attempt'[r]
    <3>1. CASE call \in issued \cup late
      <4>1. call.try < attempt[r] /\ call.try \in Nat
        BY <1>0, <1>1, <2>2, <3>1, EnrollmentAssumption
        DEF RequestInv, Numbered, TypeOK, Calls, Attempts
      <4> QED
        BY <1>2, <2>2, <3>1, <4>1 DEF RequestInv, Numbered
    <3>2. CASE call = ThisCall(r)
      BY <1>1, <1>2, <3>2, ThisCallNew
    <3> QED
      BY <1>3, <2>2, <3>1, <3>2 DEF KeepsCalls
  <2> QED
    BY <1>1, <1>3, <2>1, <2>2 DEF Numbered, KeepsCalls, Early
<1>6. Blamed(r)'
  BY <1>1, <1>2, <1>3 DEF RequestInv, Blamed, KeepsCalls
<1>7. InOrder(r)' /\ LoggedIn(r)'
  BY <1>1, <1>2, CredentialsOK DEF KeepsCredentials
<1>8. Entitled(r)'
  BY <1>1, <1>3
  DEF RequestInv, Entitled, KeepsCalls, Deserves, Credited, Readable, Matched
<1> QED
  BY <1>4, <1>5, <1>6, <1>7, <1>8 DEF RequestInv

LEMMA SignErrorOK ==
  ASSUME IInv, IInv', NEW r \in Requests, RequestInv(r), Fades(r),
         RejectPolicy(r) \/ SignRefused(r) \/ SignAbandoned(r)
  PROVE  RequestInv(r)'
<1> USE DEF backendVars, faultVars, inputVars
<1>0. TypeOK /\ hurt[r] \in Nat
  BY EnrollmentAssumption DEF IInv, TypeOK
<1>1. PICK kind \in {"denied", "invalid", "missing", "transport", "context"} :
        SignFails(r, kind)
  BY DEF RejectPolicy, SignRefused, SignAbandoned, Refusals
<1>2. pc[r] = "sign" /\ UNCHANGED <<sent, gone, minted, input>>
  BY DEF RejectPolicy, SignRefused, SignAbandoned
<1>3. hurt[r] <= hurt'[r] /\ KeepsCalls(r)
  <2>1. CASE SignAbandoned(r)
    BY <1>0, <1>2, <2>1, BrokenHurts, UnansweredOK DEF SignAbandoned
  <2>2. CASE RejectPolicy(r) \/ SignRefused(r)
    BY <1>0, <2>2, CallsKept DEF RejectPolicy, SignRefused
  <2> QED
    BY <2>1, <2>2
<1> QED
  BY <1>1, <1>2, <1>3, SignFailsOK

LEMMA EncodeOK ==
  ASSUME IInv, IInv', NEW r \in Requests, RequestInv(r), Fades(r), EncodeKey(r)
  PROVE  RequestInv(r)'
<1> USE DEF backendVars, faultVars, inputVars
<1>1. pc[r] = "encode" /\ UNCHANGED <<sent, backendVars, faultVars, inputVars>>
  BY DEF EncodeKey
<1>2. hurt[r] \in Nat
  BY EnrollmentAssumption DEF IInv, TypeOK
<1>3. CASE CanEncode(r)
  <2>1. Goto(r, "write") /\ UNCHANGED <<tried, auth, attempt, resp, log>>
    BY <1>3 DEF EncodeKey
  <2> QED
    BY <1>1, <2>1, ProceedOK
<1>4. CASE ~CanEncode(r)
  <2>1. Finish(r, 500, "rejected", "none") /\ 500 \in Statuses \ {0, 200, 401}
    BY <1>4 DEF EncodeKey, Statuses
  <2> QED
    BY <1>1, <1>2, <1>4, <2>1, CallsKept, RefusalOK
<1> QED
  BY <1>3, <1>4

LEMMA WriteOK ==
  ASSUME IInv, IInv', NEW r \in Requests, RequestInv(r), Fades(r),
         WriteCertificate(r) \/ WriteBroken(r)
  PROVE  RequestInv(r)'
<1> USE DEF backendVars, faultVars, inputVars
<1>0. TypeOK /\ hurt[r] \in Nat /\ hurt'[r] \in Nat /\ attempt[r] \in Nat
  BY EnrollmentAssumption DEF IInv, TypeOK, Attempts
<1>1. pc[r] = "write" /\ UNCHANGED <<backendVars, gone, input>>
  BY DEF WriteCertificate, WriteBroken
<1>2. /\ pc'[r] = "done" /\ resp'[r] = 200 /\ log'[r].auth = log[r].auth
      /\ tried'[r] = tried[r] /\ auth'[r] = auth[r] /\ attempt'[r] = attempt[r]
  BY <1>0, FinishIs DEF WriteCertificate, WriteBroken, Unrecorded
<1>3. \/ sent'[r] /\ log'[r].cert = "issued" /\ UNCHANGED hurt
         /\ log'[r].audit = Audited(r, "success")
      \/ /\ ~sent'[r] /\ log'[r].cert = "none" /\ log'[r].audit = "none"
         /\ hurt'[r] > 0 /\ hurt[r] <= hurt'[r]
  <2>1. CASE WriteCertificate(r)
    BY <1>0, <2>1, FinishIs DEF WriteCertificate, TypeOK
  <2>2. CASE WriteBroken(r)
    <3>1. hurt'[r] > 0 /\ hurt[r] <= hurt'[r]
      BY <1>0, <2>2, BrokenHurts DEF WriteBroken
    <3>2. log'[r].cert = "none" /\ log'[r].audit = "none"
      BY <1>0, <2>2, FinishIs DEF WriteBroken, Unrecorded, Audited
    <3>3. ~sent'[r]
      BY <1>1, <2>2 DEF WriteBroken, RequestInv, Recorded
    <3> QED
      BY <3>1, <3>2, <3>3
  <2> QED
    BY <2>1, <2>2
<1>4. Certified(r) /\ (Certified(r)' <=> Certified(r))
  BY <1>1 DEF RequestInv, Recorded, Certified
<1>5. Recorded(r)'
  BY <1>1, <1>2, <1>3, <1>4 DEF RequestInv, Recorded, Audited
<1>6. Numbered(r)'
  BY <1>0, <1>1, <1>2, <1>3 DEF RequestInv, Numbered, Early
<1>7. Blamed(r)'
  BY <1>0, <1>1, <1>2, <1>3 DEF RequestInv, Blamed
<1>8. InOrder(r)' /\ LoggedIn(r)'
  BY <1>0, <1>1, <1>2, <1>3, CredentialsOK DEF KeepsCredentials
<1>9. Entitled(r)'
  BY <1>1, <1>2 DEF RequestInv, Entitled
<1> QED
  BY <1>5, <1>6, <1>7, <1>8, <1>9 DEF RequestInv

-------------------------------------------------------------------------------
(* The chain of authentication methods.                                    *)

(* Every method has its place in the chain.                                *)
LEMMA Positions ==
  \A m \in Methods : Position(m) \in 1..5
<1>1. ASSUME NEW m \in Methods PROVE \E i \in 1..5 : Chain[i] = m
  <2>1. /\ Chain[1] = "token" /\ Chain[2] = "cert" /\ Chain[3] = "userpass"
        /\ Chain[4] = "ldap" /\ Chain[5] = "approle"
    BY DEF Chain
  <2>2. m \in {"token", "cert", "userpass", "ldap", "approle"}
    BY DEF Methods, LoginMethods
  <2> QED
    BY <2>1, <2>2
<1> QED
  BY <1>1 DEF Position

(* What comes before the next method has been tried.                       *)
LEMMA NextInChain ==
  ASSUME TypeOK, NEW r \in Requests, NEW m \in Methods, IsNext(r, m)
  PROVE  /\ m \in Enabled /\ Presented(r, m) /\ m \notin tried[r]
         /\ \A other \in Applicable(r) :
              Position(other) < Position(m) => other \in tried[r]
<1>1. Applicable(r) \subseteq Methods
  BY EnrollmentAssumption DEF Applicable
<1>2. \A other \in Applicable(r) : Position(other) \in Int /\ Position(m) \in Int
  BY <1>1, Positions
<1> QED
  BY <1>2 DEF IsNext, Applicable

(* A method that the backend accepts entitles to a certificate.            *)
LEMMA AcceptedCredits ==
  ASSUME IInv, MintedKnown, NEW r \in Requests, NEW m \in Methods,
         m \in Enabled, Presented(r, m), Accepts(r, m)
  PROVE  Credited(input[r])
<1>1. CASE m = "token"
  <2>1. input[r].bearer \in BearerTokens \cup {NoToken}
    BY EnrollmentAssumption DEF IInv, TypeOK, InputType
  <2>2. input[r].bearer # NoToken
    BY <1>1 DEF Presented, BasicMethods, LoginMethods
  <2>3. input[r].bearer \in minted
    BY <1>1 DEF Accepts, Live
  <2>4. input[r].bearer \in ValidBearers
    BY <2>1, <2>2, <2>3, EnrollmentAssumption DEF MintedKnown
  <2> QED
    BY <1>1, <2>4 DEF Credited
<1>2. CASE m = "cert"
  BY <1>2 DEF Credited, Presented, Accepts, BasicMethods
<1>3. CASE m \in BasicMethods
  <2>1. m # "token" /\ m # "cert"
    BY <1>3 DEF BasicMethods, LoginMethods
  <2>2. input[r].basic /\ m \in input[r].accepts
    BY <2>1 DEF Presented, Accepts
  <2> QED
    BY <1>3, <2>2 DEF Credited
<1> QED
  BY <1>1, <1>2, <1>3 DEF Methods, BasicMethods

(* The token of a login that was not tried is not there yet.               *)
LEMMA TokenNew ==
  ASSUME IInv, NEW r \in Requests, RequestInv(r), NEW m \in Methods, IsNext(r, m)
  PROVE  /\ TokenOf(r, m) \notin LoginsOf(r) \cap minted
         /\ NoToken \notin LoginsOf(r)
         /\ \A other \in LoginMethods : <<r, other>> = TokenOf(r, m) => other = m
         /\ m = "token" => TokenOf(r, m) \notin LoginsOf(r)
<1>1. Presented(r, m) /\ m \notin tried[r]
  BY NextInChain DEF IInv
<1>2. LoginsOf(r) \subseteq LoginTokens
  BY DEF LoginsOf, LoginTokens
<1>3. NoToken \notin LoginsOf(r)
  BY <1>2, EnrollmentAssumption DEF Tokens
<1>4. CASE m = "token"
  <2>1. TokenOf(r, m) \in BearerTokens
    BY <1>1, <1>4, EnrollmentAssumption
    DEF IInv, TypeOK, Presented, InputType, BasicMethods, LoginMethods, TokenOf
  <2>2. TokenOf(r, m) \notin LoginsOf(r)
    BY <1>2, <2>1, EnrollmentAssumption
  <2> QED
    BY <1>3, <1>4, <2>2 DEF LoginsOf
<1>5. CASE m # "token"
  <2>1. m \in LoginMethods /\ TokenOf(r, m) = <<r, m>>
    BY <1>5 DEF Methods, TokenOf
  <2>2. <<r, m>> \notin minted
    BY <1>1, <2>1 DEF RequestInv, LoggedIn
  <2> QED
    BY <1>3, <1>5, <2>1, <2>2
<1> QED
  BY <1>4, <1>5

LEMMA AcceptedOK ==
  ASSUME IInv, IInv', MintedKnown, NEW r \in Requests, RequestInv(r), Fades(r),
         NEW m \in Methods, AuthAccepted(r, m)
  PROVE  RequestInv(r)'
<1> USE DEF backendVars, faultVars, inputVars
<1>0. TypeOK /\ hurt[r] \in Nat
  BY EnrollmentAssumption DEF IInv, TypeOK
<1>1. /\ pc[r] = "auth" /\ IsNext(r, m) /\ Accepts(r, m)
      /\ minted' = minted \cup {TokenOf(r, m)}
      /\ UNCHANGED <<attempt, resp, sent, issued, late, gone, hurt, input>>
  BY DEF AuthAccepted
<1>2. /\ pc'[r] = "parse" /\ tried'[r] = tried[r] \cup {m}
      /\ auth'[r].token = TokenOf(r, m) /\ auth'[r].method = m
      /\ log'[r].auth = "success" /\ log'[r].cert = log[r].cert
      /\ log'[r].audit = log[r].audit
  BY <1>0 DEF AuthAccepted, FirstWins, Goto, Tried, TypeOK
<1>3. auth[r].token = NoToken /\ auth[r].method = "none"
  BY <1>1 DEF RequestInv, InOrder
<1>4. ~Certified(r) /\ ~Certified(r)'
  BY <1>1 DEF RequestInv, Numbered, Certified, Early
<1>5. Recorded(r)'
  BY <1>1, <1>2, <1>4 DEF RequestInv, Recorded
<1>6. Numbered(r)'
  BY <1>1, <1>2 DEF RequestInv, Numbered, Early
<1>7. Blamed(r)'
  BY <1>1, <1>2, <1>4 DEF RequestInv, Blamed
<1>8. InOrder(r)'
  <2>1. Applicable(r)' = Applicable(r)
    BY <1>1 DEF Applicable, Presented
  <2>2. \A other \in Applicable(r) : Position(other) < Position(m) => other \in tried[r]
    BY <1>0, <1>1, NextInChain
  <2>3. resp'[r] # 401
    BY <1>1 DEF RequestInv, Recorded
  <2>4. ASSUME hurt[r] = 0, NEW other \in tried[r] PROVE ~Accepts(r, other)'
    <3>1. other \in Methods /\ other # "none"
      BY <1>0 DEF TypeOK, Methods, LoginMethods
    <3> QED
      BY <1>3, <2>4, <3>1 DEF RequestInv, InOrder, Fades
  <2> QED
    BY <1>1, <1>2, <2>1, <2>2, <2>3, <2>4 DEF InOrder
<1>9. LoggedIn(r)'
  <2>1. Left(r)' = Left(r)
    BY <1>1, <1>2, <1>3, TokenNew DEF Left, LoginsOf
  <2>2. Pending(r)' \in {0, Pending(r)} /\ Pending(r) \in {0, 1}
    BY <1>1, <1>2 DEF Pending
  <2>3. Cardinality(Left(r)) + Pending(r) <= hurt[r] /\ Cardinality(Left(r)) \in Nat
    BY LeftFinite DEF RequestInv, LoggedIn
  <2>4. Cardinality(Left(r)) + Pending(r)' <= hurt[r]
    BY <1>0, <2>2, <2>3
  <2>5. \A other \in LoginMethods : <<r, other>> \in minted' => other \in tried'[r]
    BY <1>1, <1>2, TokenNew DEF RequestInv, LoggedIn
  <2> QED
    BY <1>1, <2>1, <2>4, <2>5 DEF LoggedIn
<1>10. Entitled(r)'
  <2>1. Credited(input[r])
    BY <1>0, <1>1, NextInChain, AcceptedCredits
  <2> QED
    BY <1>1, <1>2, <2>1 DEF RequestInv, Entitled
<1> QED
  BY <1>5, <1>6, <1>7, <1>8, <1>9, <1>10 DEF RequestInv

(* A method that fails, because the backend refuses or the call breaks.    *)
LEMMA FailedOK ==
  ASSUME IInv, IInv', NEW r \in Requests, RequestInv(r), Fades(r),
         NEW m \in Methods, AuthRefused(r, m) \/ AuthBroken(r, m)
  PROVE  RequestInv(r)'
<1> USE DEF backendVars, faultVars, inputVars
<1>0. TypeOK /\ hurt[r] \in Nat /\ hurt'[r] \in Nat /\ attempt[r] \in Nat
  BY EnrollmentAssumption DEF IInv, TypeOK, Attempts
<1>1. /\ pc[r] = "auth" /\ IsNext(r, m)
      /\ UNCHANGED <<pc, auth, attempt, resp, sent, log, issued, late, gone, input>>
  BY DEF AuthRefused, AuthBroken
<1>2. tried'[r] = tried[r] \cup {m}
  BY <1>0 DEF AuthRefused, AuthBroken, Tried, TypeOK
<1>3. \/ ~Accepts(r, m) /\ UNCHANGED <<minted, hurt>>
      \/ hurt'[r] > 0 /\ hurt[r] <= hurt'[r]
  BY <1>0, BrokenHurts DEF AuthRefused, AuthBroken
<1>4. auth[r].token = NoToken /\ auth[r].method = "none"
  BY <1>1 DEF RequestInv, InOrder
<1>5. ~Certified(r) /\ ~Certified(r)'
  BY <1>1 DEF RequestInv, Numbered, Certified, Early
<1>6. Recorded(r)'
  BY <1>1, <1>5 DEF RequestInv, Recorded
<1>7. Numbered(r)'
  BY <1>0, <1>1, <1>3 DEF RequestInv, Numbered
<1>8. Blamed(r)'
  BY <1>0, <1>1, <1>3, <1>5 DEF RequestInv, Blamed
<1>9. InOrder(r)'
  <2>1. Applicable(r)' = Applicable(r)
    BY <1>1 DEF Applicable, Presented
  <2>2. resp[r] # 401
    BY <1>1 DEF RequestInv, Recorded
  <2>3. ASSUME hurt'[r] = 0, NEW other \in tried'[r] PROVE ~Accepts(r, other)'
    <3>1. hurt[r] = 0 /\ ~Accepts(r, m)
      BY <1>0, <1>3, <2>3
    <3>2. other \in Methods /\ other # "none"
      BY <1>0, <1>2, <2>3 DEF TypeOK, Methods, LoginMethods
    <3> QED
      BY <1>2, <1>4, <2>3, <3>1, <3>2 DEF RequestInv, InOrder, Fades
  <2> QED
    BY <1>1, <1>4, <2>1, <2>2, <2>3 DEF InOrder
<1>10. LoggedIn(r)'
  <2>1. Cardinality(Left(r)) + Pending(r) <= hurt[r]
        /\ Cardinality(Left(r)) \in Nat /\ IsFiniteSet(Left(r))
    BY LeftFinite DEF RequestInv, LoggedIn
  <2>2. Pending(r)' \in {0, Pending(r)} /\ Pending(r) \in {0, 1}
    BY <1>1, <1>2 DEF Pending
  <2>3. CASE UNCHANGED minted
    <3>1. Left(r)' = Left(r)
      BY <1>1, <2>3 DEF Left, LoginsOf
    <3>2. Cardinality(Left(r)) + Pending(r)' <= hurt'[r]
      BY <1>0, <1>3, <2>1, <2>2
    <3> QED
      BY <1>2, <2>3, <3>1, <3>2 DEF RequestInv, LoggedIn
  <2>4. CASE AuthBroken(r, m) /\ Reaches(r, m) /\ minted' = minted \cup {TokenOf(r, m)}
    <3>1. Left(r)' \in SUBSET (Left(r) \cup {TokenOf(r, m)})
      BY <1>1, <2>4 DEF Left, LoginsOf
    <3>2. Cardinality(Left(r)') <= Cardinality(Left(r)) + 1
          /\ Cardinality(Left(r)') \in Nat
      <4>1. /\ IsFiniteSet(Left(r) \cup {TokenOf(r, m)})
            /\ Cardinality(Left(r) \cup {TokenOf(r, m)}) <= Cardinality(Left(r)) + 1
            /\ Cardinality(Left(r) \cup {TokenOf(r, m)}) \in Nat
        <5>1. /\ IsFiniteSet(Left(r) \cup {TokenOf(r, m)})
              /\ Cardinality(Left(r) \cup {TokenOf(r, m)}) =
                   IF TokenOf(r, m) \in Left(r) THEN Cardinality(Left(r))
                                                ELSE Cardinality(Left(r)) + 1
          BY <2>1, FS_AddElement
        <5> QED
          BY <2>1, <5>1
      <4>2. IsFiniteSet(Left(r)')
            /\ Cardinality(Left(r)') <= Cardinality(Left(r) \cup {TokenOf(r, m)})
        BY <3>1, <4>1, FS_Subset
      <4>3. Cardinality(Left(r)') \in Nat
        BY <4>2, FS_CardinalityType
      <4> QED
        BY <2>1, <4>1, <4>2, <4>3
    <3>3. Cardinality(Left(r)') + Pending(r)' <= hurt'[r]
      <4>1. CASE gone[r] = "no"
        <5>1. Pending(r) = 0 /\ Pending(r)' = 0
          BY <1>1, <4>1 DEF Pending, Methods, LoginMethods
        <5>2. hurt'[r] = hurt[r] + 1
          BY <1>0, <2>4, <4>1 DEF AuthBroken, Broken, Hurt, TypeOK
        <5> QED
          BY <1>0, <2>1, <3>2, <5>1, <5>2
      <4>2. CASE gone[r] # "no"
        <5>1. gone[r] = m /\ m \notin tried[r]
          BY <1>0, <1>1, <2>4, <4>2, NextInChain DEF Reaches
        <5>2. Pending(r) = 1 /\ Pending(r)' = 0
          BY <1>1, <1>2, <5>1 DEF Pending
        <5> QED
          BY <1>0, <1>3, <2>1, <3>2, <5>2
      <4> QED
        BY <4>1, <4>2
    <3>4. \A other \in LoginMethods : <<r, other>> \in minted' => other \in tried'[r]
      BY <1>1, <1>2, <2>4, TokenNew DEF RequestInv, LoggedIn
    <3> QED
      BY <3>3, <3>4 DEF LoggedIn
  <2> QED
    BY <2>3, <2>4 DEF AuthRefused, AuthBroken
<1>11. Entitled(r)'
  BY <1>1 DEF RequestInv, Entitled
<1> QED
  BY <1>6, <1>7, <1>8, <1>9, <1>10, <1>11 DEF RequestInv

LEMMA UnauthenticatedOK ==
  ASSUME IInv, IInv', NEW r \in Requests, RequestInv(r), Fades(r),
         Unauthenticated(r)
  PROVE  RequestInv(r)'
<1> USE DEF backendVars, faultVars, inputVars
<1>0. TypeOK /\ hurt[r] \in Nat
  BY EnrollmentAssumption DEF IInv, TypeOK
<1>1. /\ pc[r] = "auth" /\ NoMethodLeft(r)
      /\ UNCHANGED <<tried, auth, attempt, sent, minted, issued, late, gone, hurt,
                     input>>
  BY DEF Unauthenticated
<1>2. /\ pc'[r] = "done" /\ resp'[r] = 401 /\ log'[r].cert = log[r].cert
      /\ log'[r].audit \in {"none", "denied"}
  BY <1>0 DEF Unauthenticated, Goto, Audited, TypeOK
<1>3. auth[r].token = NoToken /\ auth[r].method = "none"
  BY <1>1 DEF RequestInv, InOrder
<1>4. ~Certified(r) /\ ~Certified(r)'
  BY <1>1 DEF RequestInv, Numbered, Certified, Early
<1>5. Recorded(r)'
  BY <1>1, <1>2, <1>4 DEF RequestInv, Recorded
<1>6. Numbered(r)'
  BY <1>1, <1>2 DEF RequestInv, Numbered, Early
<1>7. Blamed(r)'
  BY <1>1, <1>2, <1>4 DEF RequestInv, Blamed
<1>8. InOrder(r)'
  <2>1. Applicable(r)' = Applicable(r) /\ Applicable(r) \subseteq tried[r]
    BY <1>1 DEF Applicable, Presented, NoMethodLeft
  <2>2. tried[r] \subseteq Methods
    BY <1>0 DEF TypeOK
  <2> QED
    BY <1>1, <1>2, <1>3, <2>1, <2>2 DEF RequestInv, InOrder, Fades
<1>9. LoggedIn(r)'
  <2>1. Left(r)' = Left(r) /\ Pending(r)' = Pending(r)
    BY <1>1 DEF Left, Pending, LoginsOf
  <2> QED
    BY <1>1, <2>1 DEF RequestInv, LoggedIn
<1>10. Entitled(r)'
  BY <1>1, <1>2 DEF RequestInv, Entitled
<1> QED
  BY <1>5, <1>6, <1>7, <1>8, <1>9, <1>10 DEF RequestInv

(* Every step of a handler keeps its request as well off as it was.        *)
LEMMA HandlerOK ==
  ASSUME IInv, IInv', MintedKnown, NEW r \in Requests, RequestInv(r), Fades(r),
         HandlerStep(r)
  PROVE  RequestInv(r)'
BY ArriveOK, AcceptedOK, FailedOK, UnauthenticatedOK, ParseOK, CloneOK, GrantOK,
   RetryOK, SignErrorOK, EncodeOK, WriteOK
DEF HandlerStep

-------------------------------------------------------------------------------
(* The client closes its connection.                                       *)
LEMMA DisconnectOK ==
  ASSUME IInv, IInv', NEW r \in Requests, RequestInv(r), Fades(r), Disconnect(r)
  PROVE  RequestInv(r)'
<1> USE DEF backendVars, inputVars, handlerVars
<1>0. TypeOK /\ hurt[r] \in Nat /\ attempt[r] \in Nat
  BY EnrollmentAssumption DEF IInv, TypeOK, Attempts
<1>1. /\ gone[r] = "no" /\ hurt'[r] = hurt[r] + 1
      /\ UNCHANGED <<pc, tried, auth, attempt, resp, sent, log, minted, issued, late,
                     input>>
  BY <1>0 DEF Disconnect, Hurt, TypeOK
<1>2. Certified(r)' <=> Certified(r)
  BY <1>1 DEF Certified
<1>3. Recorded(r)'
  BY <1>1, <1>2 DEF RequestInv, Recorded
<1>4. Numbered(r)'
  BY <1>0, <1>1 DEF RequestInv, Numbered
<1>5. Blamed(r)'
  BY <1>0, <1>1, <1>2 DEF RequestInv, Blamed
<1>6. InOrder(r)'
  BY <1>0, <1>1 DEF RequestInv, InOrder, Applicable, Presented
<1>7. LoggedIn(r)'
  <2>1. Left(r)' = Left(r)
    BY <1>1 DEF Left, LoginsOf
  <2>2. Pending(r) = 0 /\ Pending(r)' \in {0, 1}
    BY <1>1 DEF Pending, Methods, LoginMethods
  <2>3. Cardinality(Left(r)) + Pending(r) <= hurt[r] /\ Cardinality(Left(r)) \in Nat
    BY LeftFinite DEF RequestInv, LoggedIn
  <2>4. Cardinality(Left(r)) + Pending(r)' <= hurt'[r]
    BY <1>0, <1>1, <2>2, <2>3
  <2> QED
    BY <1>1, <2>1, <2>4 DEF RequestInv, LoggedIn
<1>8. Entitled(r)'
  BY <1>1 DEF RequestInv, Entitled
<1> QED
  BY <1>3, <1>4, <1>5, <1>6, <1>7, <1>8 DEF RequestInv

LEMMA DisconnectApart ==
  ASSUME IInv, NEW r \in Requests, Disconnect(r), NEW q \in Requests \ {r}
  PROVE  Untouched(q)
<1>1. UNCHANGED <<pc, tried, auth, attempt, resp, sent, log, minted, issued, late>>
  BY DEF Disconnect, handlerVars, backendVars
<1>2. gone'[q] = gone[q] /\ hurt'[q] = hurt[q]
  BY DEF Disconnect, Hurt, IInv, TypeOK
<1> QED
  BY <1>1, <1>2 DEF Untouched

(* A call nobody waits for any more reaches the CA.                        *)
LEMMA LateOK ==
  ASSUME IInv, IInv', NEW call \in late, LateCall(call), NEW r \in Requests,
         RequestInv(r), Fades(r)
  PROVE  RequestInv(r)'
<1> USE DEF backendVars, faultVars, inputVars, handlerVars
<1>0. TypeOK /\ hurt[r] \in Nat
  BY EnrollmentAssumption DEF IInv, TypeOK
<1>1. /\ late' = late \ {call} /\ issued' \in {issued, issued \cup {call}}
      /\ UNCHANGED <<pc, tried, auth, attempt, resp, sent, log, minted, gone, hurt,
                     input>>
  BY DEF LateCall, Issue
<1>2. call \in Calls
  BY <1>0 DEF TypeOK
<1>3. CASE call.req # r
  <2>1. Untouched(r)
    BY <1>1, <1>3 DEF Untouched
  <2> QED
    BY <1>1, <2>1, UntouchedOK
<1>4. CASE call.req = r
  <2>1. hurt[r] > 0
    BY <1>4 DEF RequestInv, Blamed
  <2>2. Certified(r) => Certified(r)'
    BY <1>1 DEF Certified
  <2>3. issued' \cup late' \subseteq issued \cup late
    BY <1>1
  <2>4. Recorded(r)'
    BY <1>1, <2>2 DEF RequestInv, Recorded
  <2>5. Numbered(r)'
    BY <1>1, <2>3 DEF RequestInv, Numbered
  <2>6. Blamed(r)'
    BY <1>1, <2>1 DEF RequestInv, Blamed
  <2>7. InOrder(r)' /\ LoggedIn(r)'
    BY <1>0, <1>1, CredentialsOK DEF KeepsCredentials
  <2>8. Entitled(r)'
    BY <1>1, <2>3 DEF RequestInv, Entitled
  <2> QED
    BY <2>4, <2>5, <2>6, <2>7, <2>8 DEF RequestInv
<1> QED
  BY <1>3, <1>4

LEMMA RevokeApart ==
  ASSUME NEW q \in Requests, (\E t \in Tokens : Revoke(t)) \/ UNCHANGED vars
  PROVE  Untouched(q) /\ UNCHANGED input
BY DEF Revoke, vars, handlerVars, backendVars, faultVars, inputVars, Untouched

-------------------------------------------------------------------------------
(* Initially the invariant holds.                                          *)
LEMMA InitService == Init => ServiceInv
<1> SUFFICES ASSUME Init PROVE ServiceInv
  OBVIOUS
<1>1. MintedKnown
  BY DEF Init, MintedKnown
<1>2. ASSUME NEW r \in Requests PROVE RequestInv(r)
  <2>1. /\ pc[r] = "idle" /\ tried[r] = {} /\ auth[r].token = NoToken
        /\ auth[r].method = "none" /\ attempt[r] = 0 /\ resp[r] = 0 /\ ~sent[r]
        /\ log[r].cert = "none" /\ log[r].audit = "none"
        /\ issued = {} /\ late = {} /\ gone[r] = "no" /\ hurt[r] = 0
    BY DEF Init
  <2>2. ~Certified(r)
    BY <2>1 DEF Certified
  <2>3. Recorded(r)
    BY <2>1, <2>2 DEF Recorded
  <2>4. Numbered(r)
    BY <2>1 DEF Numbered
  <2>5. Blamed(r)
    BY <2>1, <2>2 DEF Blamed
  <2>6. InOrder(r)
    BY <2>1 DEF InOrder
  <2>7. LoggedIn(r)
    <3>1. LoginsOf(r) \cap minted = {}
      <4>1. LoginsOf(r) \subseteq LoginTokens
        BY DEF LoginsOf, LoginTokens
      <4> QED
        BY <4>1, EnrollmentAssumption DEF Init
    <3>2. Cardinality(Left(r)) = 0
      BY <3>1, FS_EmptySet DEF Left
    <3>3. Pending(r) = 0
      BY <2>1 DEF Pending, Methods, LoginMethods
    <3> QED
      BY <2>1, <3>1, <3>2, <3>3 DEF LoggedIn, LoginsOf
  <2>8. Entitled(r)
    BY <2>1 DEF Entitled
  <2> QED
    BY <2>3, <2>4, <2>5, <2>6, <2>7, <2>8 DEF RequestInv
<1> QED
  BY <1>1, <1>2, InitIInv DEF ServiceInv

(* And every step keeps it.                                                *)
LEMMA StepService == ServiceInv /\ [Next]_vars => ServiceInv'
<1> SUFFICES ASSUME ServiceInv, [Next]_vars PROVE ServiceInv'
  OBVIOUS
<1>1. IInv /\ MintedKnown /\ \A r \in Requests : RequestInv(r)
  BY DEF ServiceInv
<1>2. IInv' /\ MintedKnown' /\ (\A r \in Requests : Fades(r)) /\ UNCHANGED input
  BY <1>1, StepIInv, Fading, CallsStep
<1>3. ASSUME NEW r \in Requests, HandlerStep(r), NEW q \in Requests
      PROVE  RequestInv(q)'
  BY <1>1, <1>2, <1>3, HandlerOK, HandlerApart, UntouchedOK
<1>4. ASSUME NEW r \in Requests, Disconnect(r), NEW q \in Requests
      PROVE  RequestInv(q)'
  BY <1>1, <1>2, <1>4, DisconnectOK, DisconnectApart, UntouchedOK
<1>5. ASSUME NEW call \in late, LateCall(call), NEW q \in Requests
      PROVE  RequestInv(q)'
  BY <1>1, <1>2, <1>5, LateOK
<1>6. ASSUME (\E t \in Tokens : Revoke(t)) \/ UNCHANGED vars, NEW q \in Requests
      PROVE  RequestInv(q)'
  BY <1>1, <1>2, <1>6, RevokeApart, UntouchedOK
<1>7. \A q \in Requests : RequestInv(q)'
  BY <1>3, <1>4, <1>5, <1>6 DEF Next, Finished
<1> QED
  BY <1>2, <1>7 DEF ServiceInv

LEMMA ServiceInvariant == Spec => []ServiceInv
BY InitService, StepService, PTL DEF Spec

-------------------------------------------------------------------------------
(* Metrics, audit log and answer of each request agree with each other and *)
(* with what the CA did, whatever fails (recordSuccess, recordRejection).  *)
THEOREM RecordsAlwaysAgree == Spec => []RecordsAgree
<1>1. ServiceInv => RecordsAgree
  <2> SUFFICES ASSUME ServiceInv, NEW r \in Requests
               PROVE  /\ sent[r] <=> log[r].cert = "issued"
                      /\ log[r].audit = "success" <=>
                           sent[r] /\ input[r].op # "serverkeygen"
                      /\ sent[r] => /\ log[r].auth = "success"
                                    /\ resp[r] = 200
                                    /\ Signed(r) # {}
    BY DEF RecordsAgree
  <2>1. Recorded(r)
    BY DEF ServiceInv, RequestInv
  <2>2. Certified(r) => Signed(r) # {}
    BY DEF Certified, Signed
  <2> QED
    BY <2>1, <2>2 DEF Recorded
<1> QED
  BY <1>1, ServiceInvariant, PTL

(* Every certificate that is issued and not delivered is a fault's doing,  *)
(* but for the key that serverkeygen cannot encrypt (ServeHTTP).           *)
THEOREM OnlyFaultsLose == Spec => []LostOnlyToFaults
<1>1. ServiceInv => LostOnlyToFaults
  <2>1. \A r \in Requests : Signed(r) # {} => Certified(r)
    BY DEF Certified, Signed
  <2> QED
    BY <2>1 DEF ServiceInv, RequestInv, Blamed, LostOnlyToFaults
<1> QED
  BY <1>1, ServiceInvariant, PTL

(* A request costs the CA no more calls than one, and one for each fault   *)
(* and each retry (SignCSR under the retries of the API client).           *)
THEOREM RetriesAlwaysBounded == Spec => []RetriesBounded
<1>1. ServiceInv => RetriesBounded
  <2> SUFFICES ASSUME ServiceInv, NEW r \in Requests
               PROVE  Cardinality({call \in issued \cup late : call.req = r}) <=
                        1 + (IF hurt[r] < MaxRetries THEN hurt[r] ELSE MaxRetries)
    BY DEF RetriesBounded
  <2> DEFINE calls == {call \in issued \cup late : call.req = r}
             number == [call \in calls |-> call.try]
  <2>1. /\ attempt[r] \in 0..(MaxRetries + 1) /\ hurt[r] \in Nat
        /\ issued \cup late \subseteq Calls
    BY EnrollmentAssumption DEF ServiceInv, IInv, TypeOK, Attempts
  <2>2. attempt[r] <= 1 + (IF hurt[r] < MaxRetries THEN hurt[r] ELSE MaxRetries)
    BY <2>1, EnrollmentAssumption DEF ServiceInv, RequestInv, Numbered
  <2>3. number \in Injection(calls, 1..attempt[r])
    <3>1. ASSUME NEW call \in calls PROVE call.try \in 1..attempt[r]
      BY <2>1, EnrollmentAssumption
      DEF ServiceInv, RequestInv, Numbered, Calls, Attempts
    <3>2. ASSUME NEW a \in calls, NEW b \in calls, a.try = b.try PROVE a = b
      <4>1. a \in Calls /\ b \in Calls
        BY <2>1
      <4>2. a.req = b.req /\ a.token = b.token
        BY DEF ServiceInv, RequestInv, Numbered
      <4> QED
        BY <3>2, <4>1, <4>2 DEF Calls
    <3>3. number \in [calls -> 1..attempt[r]]
      BY <3>1
    <3>4. \A a, b \in calls : number[a] = number[b] => a = b
      BY <3>2
    <3> HIDE DEF number
    <3> QED
      BY <3>3, <3>4, Fun_IsInj
  <2>4. IsFiniteSet(1..attempt[r]) /\ Cardinality(1..attempt[r]) = attempt[r]
    <3>1. attempt[r] \in Int /\ (1 > attempt[r] => attempt[r] = 0)
      BY <2>1
    <3>2. /\ IsFiniteSet(1..attempt[r])
          /\ Cardinality(1..attempt[r]) =
               IF 1 > attempt[r] THEN 0 ELSE attempt[r] - 1 + 1
      BY <3>1, FS_Interval
    <3> QED
      BY <3>1, <3>2
  <2>5. Cardinality(calls) <= attempt[r] /\ Cardinality(calls) \in Nat
    BY <2>3, <2>4, FS_Injection, FS_CardinalityType
  <2> QED
    BY <2>1, <2>2, <2>5, EnrollmentAssumption
<1> QED
  BY <1>1, ServiceInvariant, PTL

(* Without a fault no method that would have accepted is passed over       *)
(* (Authenticate), whatever other requests do and whatever is revoked.     *)
THEOREM ChainAlwaysComplete == Spec => []ChainIsComplete
<1>1. ServiceInv => ChainIsComplete
  <2> SUFFICES ASSUME ServiceInv, NEW r \in Requests
               PROVE  /\ resp[r] = 401 /\ hurt[r] = 0 =>
                           /\ Signed(r) = {}
                           /\ \A m \in Applicable(r) : ~Accepts(r, m)
                      /\ auth[r].method # "none" /\ hurt[r] = 0 =>
                           \A m \in Applicable(r) :
                             Position(m) < Position(auth[r].method) => ~Accepts(r, m)
    BY DEF ChainIsComplete
  <2>1. InOrder(r) /\ TypeOK /\ Numbered(r)
    BY DEF ServiceInv, RequestInv, IInv
  <2>2. Applicable(r) \subseteq Methods /\ "none" \notin Methods
    BY EnrollmentAssumption DEF Applicable, Methods, LoginMethods
  <2>3. ASSUME resp[r] = 401, hurt[r] = 0
        PROVE  Signed(r) = {} /\ \A m \in Applicable(r) : ~Accepts(r, m)
    <3>1. auth[r].token = NoToken /\ auth[r].method = "none"
      BY <2>1, <2>3 DEF InOrder
    <3>2. ASSUME NEW call \in issued, call.req = r PROVE FALSE
      <4>1. call.token = NoToken
        BY <2>1, <3>1, <3>2 DEF Numbered
      <4>2. call.token \in Tokens
        BY <2>1 DEF TypeOK, Calls
      <4> QED
        BY <4>1, <4>2, EnrollmentAssumption
    <3> QED
      BY <2>1, <2>2, <2>3, <3>1, <3>2 DEF InOrder, Signed
  <2>4. ASSUME auth[r].method # "none", hurt[r] = 0, NEW m \in Applicable(r),
               Position(m) < Position(auth[r].method)
        PROVE  ~Accepts(r, m)
    <3>1. auth[r].method \in Methods
      BY <2>1, <2>4 DEF TypeOK
    <3>2. m # auth[r].method
      BY <2>4, <3>1, Positions
    <3> QED
      BY <2>1, <2>4, <3>2 DEF InOrder
  <2> QED
    BY <2>3, <2>4
<1> QED
  BY <1>1, ServiceInvariant, PTL

(* A request leaves at the backend the token it signs with, and one more   *)
(* for each fault that hit it (Authenticate; nothing revokes a token).     *)
THEOREM LoginsAlwaysBounded == Spec => []LoginsBounded
<1>1. ServiceInv => LoginsBounded
  <2> SUFFICES ASSUME ServiceInv, NEW r \in Requests
               PROVE  /\ Cardinality(LoginsOf(r) \cap minted) <= 1 + hurt[r]
                      /\ LoginsOf(r) \cap minted \subseteq {auth[r].token} \/ hurt[r] > 0
    BY DEF LoginsBounded
  <2>1. /\ hurt[r] \in Nat /\ IsFiniteSet(Left(r)) /\ Cardinality(Left(r)) \in Nat
        /\ Cardinality(Left(r)) <= hurt[r]
    <3>1. Cardinality(Left(r)) + Pending(r) <= hurt[r] /\ hurt[r] \in Nat
      BY EnrollmentAssumption
      DEF ServiceInv, RequestInv, LoggedIn, IInv, TypeOK
    <3>2. Pending(r) \in {0, 1}
      BY DEF Pending
    <3> QED
      BY <3>1, <3>2, LeftFinite
  <2>2. LoginsOf(r) \cap minted \in SUBSET (Left(r) \cup {auth[r].token})
    BY DEF Left
  <2>3. /\ IsFiniteSet(Left(r) \cup {auth[r].token})
        /\ Cardinality(Left(r) \cup {auth[r].token}) =
             IF auth[r].token \in Left(r) THEN Cardinality(Left(r))
                                          ELSE Cardinality(Left(r)) + 1
    BY <2>1, FS_AddElement
  <2>4. /\ IsFiniteSet(LoginsOf(r) \cap minted)
        /\ Cardinality(LoginsOf(r) \cap minted) <=
             Cardinality(Left(r) \cup {auth[r].token})
    BY <2>2, <2>3, FS_Subset
  <2>5. Cardinality(LoginsOf(r) \cap minted) \in Nat
    BY <2>4, FS_CardinalityType
  <2>6. Cardinality(LoginsOf(r) \cap minted) <= 1 + hurt[r]
    BY <2>1, <2>3, <2>4, <2>5
  <2>7. hurt[r] = 0 => Left(r) = {}
    BY <2>1, FS_EmptySet
  <2> QED
    BY <2>1, <2>6, <2>7 DEF Left
<1> QED
  BY <1>1, ServiceInvariant, PTL

-------------------------------------------------------------------------------
(* The refinement mapping, as Enrollment states it.                        *)
deservingBar == {r \in Requests : Deserves(input[r])}
answerBar == [r \in Requests |-> AnswerOf(r)]
certsBar == [r \in Requests |-> {call.try : call \in Signed(r)}]

Tries(r) == {call.try : call \in Signed(r)}

(* What r may do to its answer and its certificates.                       *)
GoesOn(r) == AnswerOf(r)' = AnswerOf(r) /\ UNCHANGED issued

Certifies(r) ==
  /\ pc[r] = "sign" /\ AnswerOf(r)' = AnswerOf(r)
  /\ issued' = issued \cup {ThisCall(r)}

Refuses(r) ==
  /\ AnswerOf(r) = "none" /\ AnswerOf(r)' = "refused"
  /\ UNCHANGED issued \/ (pc[r] = "sign" /\ issued' = issued \cup {ThisCall(r)})

Delivers(r) ==
  /\ AnswerOf(r) = "none" /\ AnswerOf(r)' \in {"certificate", "cut"}
  /\ pc[r] = "write" /\ UNCHANGED issued

(* An error answer refuses.                                                *)
LEMMA FinishRefuses ==
  ASSUME TypeOK, NEW r \in Requests, Recorded(r), pc[r] # "done",
         NEW status \in Statuses \ {0, 200, 401}, NEW cert, NEW result,
         Finish(r, status, cert, result), UNCHANGED sent,
         UNCHANGED issued \/ (pc[r] = "sign" /\ issued' = issued \cup {ThisCall(r)})
  PROVE  Refuses(r)
BY FinishIs DEF Recorded, Refuses, AnswerOf

LEMMA HandlerAnswers ==
  ASSUME TypeOK, NEW r \in Requests, Recorded(r), HandlerStep(r)
  PROVE  GoesOn(r) \/ Certifies(r) \/ Refuses(r) \/ Delivers(r)
<1> USE DEF backendVars, faultVars, inputVars
<1>1. CASE Arrive(r)
  <2>1. pc[r] = "idle" /\ UNCHANGED <<sent, issued>>
    BY <1>1 DEF Arrive
  <2>2. CASE input[r].post
    BY <1>1, <2>1, <2>2 DEF Arrive, Goto, TypeOK, GoesOn, AnswerOf
  <2>3. CASE ~input[r].post
    <3>1. Finish(r, 405, "none", "none") /\ 405 \in Statuses \ {0, 200, 401}
      BY <1>1, <2>3 DEF Arrive, Statuses
    <3> QED
      BY <2>1, <3>1, FinishRefuses
  <2> QED
    BY <2>2, <2>3
<1>2. ASSUME NEW m \in Methods, AuthAccepted(r, m) PROVE GoesOn(r)
  BY <1>2 DEF AuthAccepted, FirstWins, Goto, TypeOK, GoesOn, AnswerOf
<1>3. ASSUME NEW m \in Methods, AuthRefused(r, m) \/ AuthBroken(r, m)
      PROVE  GoesOn(r)
  BY <1>3 DEF AuthRefused, AuthBroken, GoesOn, AnswerOf
<1>4. CASE Unauthenticated(r)
  <2>1. /\ pc[r] = "auth" /\ pc'[r] = "done" /\ resp'[r] = 401
        /\ UNCHANGED <<sent, issued>>
    BY <1>4 DEF Unauthenticated, Goto, TypeOK
  <2> QED
    BY <2>1 DEF Recorded, Refuses, AnswerOf
<1>5. CASE AcceptCSR(r)
  <2>1. pc[r] = "parse" /\ pc'[r] = AfterCSR(r) /\ UNCHANGED <<sent, resp, issued>>
    BY <1>5 DEF AcceptCSR, Goto, TypeOK
  <2>2. AfterCSR(r) # "done"
    BY DEF AfterCSR
  <2> QED
    BY <2>1, <2>2 DEF GoesOn, AnswerOf
<1>6. CASE RejectBody(r) \/ RejectSignature(r)
  <2>1. /\ pc[r] = "parse" /\ UNCHANGED <<sent, issued>>
        /\ \E status \in {400, 413}, cert \in {"none", "rejected"},
              result \in {"none", "denied"} : Finish(r, status, cert, result)
    BY <1>6 DEF RejectBody, RejectSignature
  <2>2. {400, 413} \subseteq Statuses \ {0, 200, 401}
    BY DEF Statuses
  <2> QED
    BY <2>1, <2>2, FinishRefuses
<1>7. CASE MatchCertificate(r) \/ GenerateKey(r) \/ EncodeKey(r)
  <2>1. /\ pc[r] # "done" /\ UNCHANGED <<sent, issued>>
        /\ \/ \E to \in {"clone", "write"} : Goto(r, to) /\ UNCHANGED resp
           \/ \E status \in {400, 500}, result \in {"none", "denied"} :
                Finish(r, status, "rejected", result)
    BY <1>7 DEF MatchCertificate, GenerateKey, EncodeKey
  <2>2. {400, 500} \subseteq Statuses \ {0, 200, 401}
    BY DEF Statuses
  <2>3. CASE \E to \in {"clone", "write"} : Goto(r, to)
    BY <2>1, <2>3 DEF Goto, TypeOK, GoesOn, AnswerOf
  <2> QED
    BY <2>1, <2>2, <2>3, FinishRefuses
<1>8. CASE CloneClient(r)
  <2>1. pc[r] = "clone" /\ UNCHANGED <<sent, issued>>
    BY <1>8 DEF CloneClient
  <2>2. CASE auth[r].token = NoToken
    <3>1. Finish(r, 502, "rejected", "error") /\ 502 \in Statuses \ {0, 200, 401}
      BY <1>8, <2>2 DEF CloneClient, Statuses
    <3> QED
      BY <2>1, <3>1, FinishRefuses
  <2>3. CASE auth[r].token # NoToken
    BY <1>8, <2>1, <2>3 DEF CloneClient, Goto, TypeOK, GoesOn, AnswerOf
  <2> QED
    BY <2>2, <2>3
<1>9. CASE RejectPolicy(r) \/ SignRefused(r) \/ SignAbandoned(r)
  <2>1. PICK kind \in {"denied", "invalid", "missing", "transport", "context"} :
          SignFails(r, kind)
    BY <1>9 DEF RejectPolicy, SignRefused, SignAbandoned, Refusals
  <2>2. PICK status \in Statuses \ {0, 200, 401} :
          Finish(r, status, "rejected", "error")
    BY <2>1, BackendRefuses DEF SignFails
  <2>3. /\ pc[r] = "sign" /\ UNCHANGED sent
        /\ issued' = issued \/ issued' = issued \cup {ThisCall(r)}
    BY <1>9 DEF RejectPolicy, SignRefused, SignAbandoned, Unanswered, Issue
  <2> QED
    BY <2>2, <2>3, FinishRefuses
<1>10. CASE SignGranted(r)
  <2>1. /\ pc[r] = "sign" /\ pc'[r] = AfterGrant(r) /\ UNCHANGED <<sent, resp>>
        /\ issued' = issued \cup {ThisCall(r)}
    BY <1>10 DEF SignGranted, Issue, Goto, TypeOK
  <2>2. AfterGrant(r) # "done"
    BY DEF AfterGrant
  <2> QED
    BY <2>1, <2>2 DEF Certifies, AnswerOf
<1>11. CASE SignRetried(r)
  <2>1. /\ pc[r] = "sign" /\ UNCHANGED <<pc, sent, resp>>
        /\ issued' = issued \/ issued' = issued \cup {ThisCall(r)}
    BY <1>11 DEF SignRetried, Unanswered, Issue
  <2> QED
    BY <2>1 DEF GoesOn, Certifies, AnswerOf
<1>12. CASE WriteCertificate(r) \/ WriteBroken(r)
  <2>1. pc[r] = "write" /\ UNCHANGED issued
    BY <1>12 DEF WriteCertificate, WriteBroken
  <2>2. pc'[r] = "done" /\ resp'[r] = 200
    BY <1>12, FinishIs DEF WriteCertificate, WriteBroken, Unrecorded
  <2> QED
    BY <2>1, <2>2 DEF Delivers, AnswerOf
<1> QED
  BY <1>1, <1>2, <1>3, <1>4, <1>5, <1>6, <1>7, <1>8, <1>9, <1>10, <1>11, <1>12
  DEF HandlerStep

(* The number of the current attempt has not been used.                    *)
LEMMA AttemptNew ==
  ASSUME ServiceInv, NEW r \in Requests, pc[r] = "sign"
  PROVE  /\ r \in deservingBar
         /\ attempt[r] \in 1..(MaxRetries + 1)
         /\ attempt[r] \notin Tries(r)
         /\ ThisCall(r).req = r /\ ThisCall(r).try = attempt[r]
<1>1. IInv /\ RequestInv(r)
  BY DEF ServiceInv
<1>2. Deserves(input[r])
  BY <1>1 DEF RequestInv, Entitled, Deserves, Credited, Readable, Matched
<1>3. attempt[r] \notin Tries(r)
  <2> SUFFICES ASSUME NEW call \in issued, call.req = r PROVE call.try # attempt[r]
    BY DEF Tries, Signed
  <2>1. call.try < attempt[r] /\ attempt[r] \in Int /\ call.try \in Int
    BY <1>1, EnrollmentAssumption
    DEF RequestInv, Numbered, IInv, TypeOK, Calls, Attempts
  <2> QED
    BY <2>1
<1> QED
  BY <1>1, <1>2, <1>3, ThisCallNew DEF deservingBar, Attempts

(* One more call of r is one more certificate of r, and of nobody else.    *)
LEMMA IssuedTo ==
  ASSUME NEW call, NEW r \in Requests, call.req = r, issued' = issued \cup {call}
  PROVE  certsBar' = [certsBar EXCEPT ![r] = @ \cup {call.try}]
<1>1. \A q \in Requests : Tries(q)' = IF q = r THEN Tries(q) \cup {call.try}
                                               ELSE Tries(q)
  BY DEF Tries, Signed
<1> QED
  BY <1>1 DEF certsBar, Tries

LEMMA IssuedToNobody ==
  ASSUME UNCHANGED issued PROVE UNCHANGED certsBar
BY DEF certsBar, Signed

(* Only the answer of r changes if nobody else is touched.                 *)
LEMMA AnsweredOnly ==
  ASSUME NEW r \in Requests, \A q \in Requests \ {r} : Untouched(q)
  PROVE  answerBar' = [answerBar EXCEPT ![r] = AnswerOf(r)']
<1>1. \A q \in Requests \ {r} : AnswerOf(q)' = AnswerOf(q)
  BY DEF Untouched, AnswerOf
<1> QED
  BY <1>1 DEF answerBar

(* The steps of EstService in terms of the mapping.                        *)
LEMMA ServiceStutters ==
  ASSUME UNCHANGED <<deservingBar, answerBar, certsBar>>
  PROVE  UNCHANGED Service!vars
BY DEF Service!vars, deservingBar, answerBar, certsBar

LEMMA ServiceIssues ==
  ASSUME NEW r \in Requests, r \in deservingBar,
         NEW n \in 1..(MaxRetries + 1), n \notin Tries(r),
         certsBar' = [certsBar EXCEPT ![r] = @ \cup {n}],
         UNCHANGED <<deservingBar, answerBar>>
  PROVE  Service!Issue(r)
<1>1. certsBar[r] = Tries(r)
  BY DEF certsBar, Tries
<1>2. n \notin certsBar[r]
  BY <1>1
<1> QED
  BY <1>2 DEF Service!Issue, deservingBar, answerBar, certsBar

LEMMA ServiceRefuses ==
  ASSUME NEW r \in Requests, AnswerOf(r) = "none",
         answerBar' = [answerBar EXCEPT ![r] = "refused"],
         \/ UNCHANGED certsBar
         \/ /\ r \in deservingBar
            /\ \E n \in 1..(MaxRetries + 1) :
                 certsBar' = [certsBar EXCEPT ![r] = @ \cup {n}],
         UNCHANGED deservingBar
  PROVE  Service!Refuse(r)
<1>1. answerBar[r] = "none"
  BY DEF answerBar
<1> QED
  BY <1>1 DEF Service!Refuse, deservingBar, answerBar, certsBar

LEMMA ServiceDelivers ==
  ASSUME NEW r \in Requests, AnswerOf(r) = "none", Tries(r) # {},
         NEW answer \in {"certificate", "cut"},
         answerBar' = [answerBar EXCEPT ![r] = answer],
         UNCHANGED <<deservingBar, certsBar>>
  PROVE  Service!Deliver(r) \/ Service!Cut(r)
<1>1. answerBar[r] = "none" /\ certsBar[r] # {}
  BY DEF answerBar, certsBar, Tries
<1> QED
  BY <1>1 DEF Service!Deliver, Service!Cut, deservingBar, answerBar, certsBar

LEMMA ServiceStarts == Init => Service!Init
<1> SUFFICES ASSUME Init PROVE Service!Init
  OBVIOUS
<1>1. deservingBar \in SUBSET Requests
  BY DEF deservingBar
<1>2. answerBar = [r \in Requests |-> "none"]
  BY DEF Init, answerBar, AnswerOf
<1>3. certsBar = [r \in Requests |-> {}]
  BY DEF Init, certsBar, Signed
<1> QED
  BY <1>1, <1>2, <1>3 DEF Service!Init, deservingBar, answerBar, certsBar

(* A step of the handler of r is a step of the service for r, or none.     *)
LEMMA HandlerServes ==
  ASSUME ServiceInv, UNCHANGED input, NEW r \in Requests, HandlerStep(r)
  PROVE  [Service!Next]_(Service!vars)
<1>1. TypeOK /\ IInv /\ Recorded(r) /\ UNCHANGED deservingBar
  BY DEF ServiceInv, IInv, RequestInv, deservingBar
<1>2. answerBar' = [answerBar EXCEPT ![r] = AnswerOf(r)']
  BY <1>1, HandlerApart, AnsweredOnly
<1>3. AnswerOf(r)' = AnswerOf(r) => UNCHANGED answerBar
  BY <1>2 DEF answerBar
<1>4. CASE GoesOn(r)
  BY <1>1, <1>3, <1>4, IssuedToNobody, ServiceStutters DEF GoesOn
<1>5. CASE Certifies(r)
  <2>1. /\ r \in deservingBar /\ attempt[r] \in 1..(MaxRetries + 1)
        /\ attempt[r] \notin Tries(r)
        /\ certsBar' = [certsBar EXCEPT ![r] = @ \cup {attempt[r]}]
    BY <1>5, AttemptNew, IssuedTo DEF Certifies
  <2>2. Service!Issue(r)
    BY <1>1, <1>3, <1>5, <2>1, ServiceIssues DEF Certifies
  <2> QED
    BY <2>2 DEF Service!Next
<1>6. CASE Refuses(r)
  <2>1. \/ UNCHANGED certsBar
        \/ /\ r \in deservingBar
           /\ \E n \in 1..(MaxRetries + 1) :
                certsBar' = [certsBar EXCEPT ![r] = @ \cup {n}]
    <3>1. CASE UNCHANGED issued
      BY <3>1, IssuedToNobody
    <3>2. CASE pc[r] = "sign" /\ issued' = issued \cup {ThisCall(r)}
      BY <3>2, AttemptNew, IssuedTo
    <3> QED
      BY <1>6, <3>1, <3>2 DEF Refuses
  <2>2. Service!Refuse(r)
    BY <1>1, <1>2, <1>6, <2>1, ServiceRefuses DEF Refuses
  <2> QED
    BY <2>2 DEF Service!Next
<1>7. CASE Delivers(r)
  <2>1. Tries(r) # {}
    BY <1>1, <1>7 DEF Delivers, Recorded, Certified, Tries, Signed
  <2>2. Service!Deliver(r) \/ Service!Cut(r)
    BY <1>1, <1>2, <1>7, <2>1, IssuedToNobody, ServiceDelivers DEF Delivers
  <2> QED
    BY <2>2 DEF Service!Next
<1> QED
  BY <1>1, <1>4, <1>5, <1>6, <1>7, HandlerAnswers

(* A late call is a certificate more, for a number of its own, or none.    *)
LEMMA LateServes ==
  ASSUME ServiceInv, UNCHANGED input, NEW call \in late, LateCall(call)
  PROVE  [Service!Next]_(Service!vars)
<1> DEFINE r == call.req
<1>1. /\ call \in Calls /\ issued \subseteq Calls /\ r \in Requests
      /\ call.try \in 1..(MaxRetries + 1)
  BY DEF ServiceInv, IInv, TypeOK, Calls, Attempts
<1>2. RequestInv(r) /\ call \notin issued
  BY <1>1 DEF ServiceInv, RequestInv, Numbered
<1>3. UNCHANGED <<deservingBar, answerBar>>
  BY DEF LateCall, handlerVars, deservingBar, answerBar, AnswerOf
<1>4. CASE UNCHANGED issued
  BY <1>3, <1>4, IssuedToNobody, ServiceStutters
<1>5. CASE issued' = issued \cup {call}
  <2>1. r \in deservingBar
    BY <1>1, <1>2 DEF RequestInv, Entitled, deservingBar
  <2>2. call.try \notin Tries(r)
    <3> SUFFICES ASSUME NEW other \in issued, other.req = r, other.try = call.try
                 PROVE  FALSE
      BY DEF Tries, Signed
    <3>1. other.token = call.token
      BY <1>2 DEF RequestInv, Numbered
    <3> QED
      BY <1>1, <1>2, <3>1 DEF Calls
  <2>3. certsBar' = [certsBar EXCEPT ![r] = @ \cup {call.try}]
    BY <1>1, <1>5, IssuedTo
  <2>4. Service!Issue(r)
    BY <1>1, <1>3, <2>1, <2>2, <2>3, ServiceIssues
  <2> QED
    BY <1>1, <2>4 DEF Service!Next
<1> QED
  BY <1>4, <1>5 DEF LateCall, Issue

LEMMA StepServes ==
  ASSUME ServiceInv, [Next]_vars
  PROVE  [Service!Next]_(Service!vars)
<1>1. IInv /\ UNCHANGED input
  BY CallsStep DEF ServiceInv
<1>2. ASSUME NEW r \in Requests, HandlerStep(r)
      PROVE  [Service!Next]_(Service!vars)
  BY <1>1, <1>2, HandlerServes
<1>3. ASSUME NEW call \in late, LateCall(call)
      PROVE  [Service!Next]_(Service!vars)
  BY <1>1, <1>3, LateServes
<1>4. ASSUME UNCHANGED <<pc, resp, sent, issued>>
      PROVE  [Service!Next]_(Service!vars)
  <2>1. UNCHANGED <<deservingBar, answerBar>>
    BY <1>1, <1>4 DEF deservingBar, answerBar, AnswerOf
  <2> QED
    BY <1>4, <2>1, IssuedToNobody, ServiceStutters
<1>5. ASSUME NEW r \in Requests, Disconnect(r)
      PROVE  UNCHANGED <<pc, resp, sent, issued>>
  BY <1>5 DEF Disconnect, handlerVars, backendVars
<1>6. ASSUME NEW t \in Tokens, Revoke(t) PROVE UNCHANGED <<pc, resp, sent, issued>>
  BY <1>6 DEF Revoke, handlerVars
<1>7. UNCHANGED vars => UNCHANGED <<pc, resp, sent, issued>>
  BY DEF vars, handlerVars, backendVars
<1> QED
  BY <1>2, <1>3, <1>4, <1>5, <1>6, <1>7 DEF Next, Finished

(* The handlers implement the abstract service: whatever faults hit a      *)
(* request, it is answered once and truly, and certificates are issued     *)
(* only for requests that deserve one, each a call of its own, never more  *)
(* than the retries allow.                                                 *)
THEOREM ServiceIsImplemented == Spec => ImplementsService
BY ServiceStarts, StepServes, ServiceInvariant, PTL
DEF Spec, ImplementsService, Service!Spec
===============================================================================
