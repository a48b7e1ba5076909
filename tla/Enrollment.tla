------------------------------ MODULE Enrollment ------------------------------
(***************************************************************************)
(* The life of the requests to simpleenroll, simplereenroll and            *)
(* serverkeygen: authentication at the backend, the checks on the CSR, the *)
(* per-request clone of the backend client, the signing call with its      *)
(* retries, and the answer with its telemetry and audit records.           *)
(*                                                                         *)
(* Each request runs in a goroutine of its own; the steps below are what a *)
(* goroutine does between two calls to the backend. A backend call is one  *)
(* step (nothing the handler does between sending it and reading the reply *)
(* is visible to others), except that a signing call whose caller has      *)
(* stopped waiting may still reach the backend later: such calls are in    *)
(* `late'.                                                                 *)
(***************************************************************************)
EXTENDS Integers, FiniteSets

CONSTANTS
  Requests,          \* HTTP requests, each served by one goroutine
  Inputs,            \* what a request may carry
  Policies,          \* types of the default policy the configuration may hold
  Enabled,           \* authentication methods switched on
  BearerTokens,      \* tokens a client may put in an Authorization header
  ValidBearers,      \* those of them the backend accepts at the start
  ServiceToken,      \* the token of the service's own backend client
  Server,            \* the service's own backend client
  NoToken,           \* the empty token
  MaxRetries,        \* backend.max_retries of the configuration
  EncryptPrivateKey, \* server_key_gen.encrypt_private_key
  MaxFaults,         \* bound: faults that may hit one request
  MaxRevoked         \* bound: tokens that may be revoked or expire

LoginMethods == {"cert", "userpass", "ldap", "approle"}
BasicMethods == LoginMethods \ {"cert"}
Methods == LoginMethods \cup {"token"}

(* Authenticate tries the methods in this order.                           *)
Chain == <<"token", "cert", "userpass", "ldap", "approle">>

LoginTokens == Requests \X LoginMethods
Tokens == BearerTokens \cup LoginTokens \cup {ServiceToken}

(* post: the HTTP method is POST. bearer: the token of a Bearer header;    *)
(* basic: a well-formed Basic header is there. accepts: the methods whose  *)
(* backend would accept the credentials presented. tls: the kind of client *)
(* certificate of the connection. csr: the first thing wrong with the      *)
(* body. sameKey, sameName: how the CSR compares with the TLS certificate  *)
(* (sameName also stands for a CSR with a ChangeSubjectName attribute).    *)
InputType ==
  [op : {"enroll", "reenroll", "serverkeygen"}, post : BOOLEAN,
   bearer : BearerTokens \cup {NoToken}, basic : BOOLEAN,
   accepts : SUBSET LoginMethods, tls : {"none", "rsa", "ecdsa"},
   csr : {"large", "malformed", "badalg", "badsig", "good"},
   sameKey : BOOLEAN, sameName : BOOLEAN]

ASSUME EnrollmentAssumption ==
  /\ Inputs \subseteq InputType
  /\ \A i \in Inputs : i.bearer # NoToken => ~i.basic  \* one Authorization header
  /\ Policies \subseteq {"role", "sign-verbatim", "unset"}
  /\ Enabled \subseteq Methods
  /\ ValidBearers \subseteq BearerTokens
  /\ BearerTokens \cap LoginTokens = {}  \* a login's token is told to nobody
  /\ ServiceToken \notin BearerTokens \cup LoginTokens
  /\ NoToken \notin Tokens
  /\ Server \notin Requests
  /\ MaxRetries \in Nat
  /\ EncryptPrivateKey \in BOOLEAN
  /\ MaxFaults \in Nat
  /\ MaxRevoked \in Nat

Attempts == 1..(MaxRetries + 1)

VARIABLES
  input,      \* input[r]: what r carries (fixed)
  policy,     \* the type of the default policy (fixed)
  pc,         \* pc[r]: where the goroutine of r is
  tried,      \* tried[r]: authentication methods r has been through
  auth,       \* auth[r]: token and method of the authentication result
  client,     \* the token each backend client holds; NoToken: closed or none
  attempt,    \* attempt[r]: number of the current signing call
  resp,       \* resp[r]: HTTP status, 0 while there is none
  sent,       \* sent[r]: the whole certificate response was written
  log,        \* log[r]: the telemetry and audit records written for r
  minted,     \* tokens the backend ever held valid
  dead,       \* tokens revoked or expired
  issued,     \* certificates the CA issued, with the token they were signed under
  late,       \* signing calls nobody waits for that may still reach the CA
  gone,       \* gone[r]: "no", or the call that r was waiting for when the
              \* client closed its connection: a method, "sign", "nothing"
  hurt        \* hurt[r]: faults that hit r so far

handlerVars == <<pc, tried, auth, attempt, resp, sent, log>>
backendVars == <<minted, dead, issued, late>>
faultVars == <<gone, hurt>>
inputVars == <<input, policy>>
vars == <<handlerVars, client, backendVars, faultVars, inputVars>>

PCs == {"idle", "auth", "parse", "match", "keygen", "clone", "sign",
        "encode", "write", "done"}
Statuses == {0, 200, 400, 401, 403, 404, 405, 413, 500, 502, 503}

Calls == [req : Requests, try : Attempts, token : Tokens]

TypeOK ==
  /\ input \in [Requests -> Inputs]
  /\ policy \in Policies
  /\ pc \in [Requests -> PCs]
  /\ tried \in [Requests -> SUBSET Methods]
  /\ auth \in [Requests -> [token : Tokens \cup {NoToken},
                            method : Methods \cup {"none"}]]
  /\ client \in [Requests \cup {Server} -> Tokens \cup {NoToken}]
  /\ attempt \in [Requests -> Attempts \cup {0}]
  /\ resp \in [Requests -> Statuses]
  /\ sent \in [Requests -> BOOLEAN]
  /\ log \in [Requests -> [auth : {"none", "success", "failure"},
                           cert : {"none", "issued", "rejected"},
                           audit : {"none", "denied", "error", "success"}]]
  /\ minted \subseteq Tokens
  /\ dead \subseteq minted
  /\ issued \subseteq Calls
  /\ late \subseteq Calls
  /\ gone \in [Requests -> {"no", "nothing", "sign"} \cup Methods]
  /\ hurt \in [Requests -> 0..MaxFaults]

Init ==
  /\ input \in [Requests -> Inputs]
  /\ policy \in Policies
  /\ pc = [r \in Requests |-> "idle"]
  /\ tried = [r \in Requests |-> {}]
  /\ auth = [r \in Requests |-> [token |-> NoToken, method |-> "none"]]
  /\ client = [c \in Requests \cup {Server} |->
                 IF c = Server THEN ServiceToken ELSE NoToken]
  /\ attempt = [r \in Requests |-> 0]
  /\ resp = [r \in Requests |-> 0]
  /\ sent = [r \in Requests |-> FALSE]
  /\ log = [r \in Requests |->
              [auth |-> "none", cert |-> "none", audit |-> "none"]]
  /\ minted = ValidBearers \cup {ServiceToken}
  /\ dead = {}
  /\ issued = {}
  /\ late = {}
  /\ gone = [r \in Requests |-> "no"]
  /\ hurt = [r \in Requests |-> 0]

Live == minted \ dead
-------------------------------------------------------------------------------
(* The handler's local bookkeeping.                                        *)

Goto(r, where) == pc' = [pc EXCEPT ![r] = where]

(* serverkeygen writes no audit records.                                   *)
Audited(r, result) == IF input[r].op = "serverkeygen" THEN "none" ELSE result

(* The handler returns: status to the client, cert to telemetry, result to *)
(* the audit log ("none": no record).                                      *)
Finish(r, status, cert, result) ==
  /\ Goto(r, "done")
  /\ resp' = [resp EXCEPT ![r] = status]
  /\ log' = [log EXCEPT ![r] = [auth |-> @.auth, cert |-> cert,
                                audit |-> Audited(r, result)]]
  /\ UNCHANGED <<tried, auth, attempt>>

(* A fault hits r, within the bound.                                       *)
Hurt(r) ==
  /\ hurt[r] < MaxFaults
  /\ hurt' = [hurt EXCEPT ![r] = @ + 1]

(* A call of r fails in transport: at no cost once the client has closed   *)
(* the connection, because the request's context is then cancelled.        *)
Broken(r) == IF gone[r] = "no" THEN Hurt(r) ELSE UNCHANGED hurt

(* A call can get to the backend unless it is begun after the client has   *)
(* closed the connection: in a cancelled context nothing is sent.          *)
Reaches(r, call) == gone[r] \in {"no", call}

(* ParseBackendError: the statuses an error of each kind may be given. A   *)
(* call cut off by its context reads as a timeout or as none of the known  *)
(* errors.                                                                 *)
BackendStatus ==
  [denied |-> {403}, invalid |-> {400}, missing |-> {404},
   transport |-> {502, 503}, context |-> {502, 503}]
-------------------------------------------------------------------------------
(* A request arrives at its handler, which checks the HTTP method first.   *)
Arrive(r) ==
  /\ pc[r] = "idle"
  /\ IF input[r].post
       THEN /\ Goto(r, "auth")
            /\ UNCHANGED <<tried, auth, attempt, resp, log>>
       ELSE Finish(r, 405, "none", "none")
  /\ UNCHANGED <<sent, client, backendVars, faultVars, inputVars>>

Presented(r, m) ==
  \/ m = "token" /\ input[r].bearer # NoToken
  \/ m = "cert" /\ input[r].tls # "none"
  \/ m \in BasicMethods /\ input[r].basic

Applicable(r) == {m \in Enabled : Presented(r, m)}

Position(m) == CHOOSE i \in 1..5 : Chain[i] = m

(* Authenticate goes through the methods in the order of Chain.            *)
IsNext(r, m) ==
  /\ m \in Applicable(r) \ tried[r]
  /\ \A other \in Applicable(r) \ tried[r] : Position(m) <= Position(other)

(* What the backend says of the credentials at this moment. A certificate  *)
(* login is made of calls under the service's own token.                   *)
Accepts(r, m) ==
  IF m = "token" THEN input[r].bearer \in Live
  ELSE /\ m \in input[r].accepts
       /\ m = "cert" => client[Server] \in Live

TokenOf(r, m) == IF m = "token" THEN input[r].bearer ELSE <<r, m>>

Tried(r, m) == tried' = [tried EXCEPT ![r] = @ \cup {m}]

(* Mutant of FirstWins: the chain goes on after a method has accepted.     *)
FirstWins_TriesAll(r, m) ==
  Goto(r, IF Applicable(r) \subseteq tried[r] \cup {m} THEN "parse" ELSE "auth")

(* The first method that accepts ends the chain.                           *)
FirstWins(r, m) == Goto(r, "parse")

AuthAccepted(r, m) ==
  /\ pc[r] = "auth"
  /\ IsNext(r, m)
  /\ Reaches(r, m)
  /\ Accepts(r, m)
  /\ Tried(r, m)
  /\ minted' = minted \cup {TokenOf(r, m)}
  /\ auth' = [auth EXCEPT ![r] = [token |-> TokenOf(r, m), method |-> m]]
  /\ log' = [log EXCEPT ![r] = [auth |-> "success", cert |-> @.cert,
                                audit |-> @.audit]]
  /\ FirstWins(r, m)
  /\ UNCHANGED <<attempt, resp, sent, client, dead, issued, late, faultVars,
                 inputVars>>

AuthRefused(r, m) ==
  /\ pc[r] = "auth"
  /\ IsNext(r, m)
  /\ Reaches(r, m)
  /\ ~Accepts(r, m)
  /\ Tried(r, m)
  /\ UNCHANGED <<pc, auth, attempt, resp, log, sent, client, backendVars,
                 faultVars, inputVars>>

(* The call fails in transport: the method counts as failed and the chain  *)
(* goes on, also when the backend performed the login and minted a token.  *)
AuthBroken(r, m) ==
  /\ pc[r] = "auth"
  /\ IsNext(r, m)
  /\ Broken(r)
  /\ Tried(r, m)
  /\ \/ UNCHANGED minted
     \/ /\ m # "token"
        /\ Reaches(r, m)
        /\ Accepts(r, m)
        /\ minted' = minted \cup {TokenOf(r, m)}
  /\ UNCHANGED <<pc, auth, attempt, resp, log, sent, client, dead, issued,
                 late, gone, inputVars>>

(* Mutant of NoMethodLeft: one refusal is enough to give up.               *)
NoMethodLeft_FirstRefusal(r) == Applicable(r) = {} \/ tried[r] # {}

NoMethodLeft(r) == Applicable(r) \subseteq tried[r]

Unauthenticated(r) ==
  /\ pc[r] = "auth"
  /\ NoMethodLeft(r)
  /\ Goto(r, "done")
  /\ resp' = [resp EXCEPT ![r] = 401]
  /\ log' = [log EXCEPT ![r] = [auth |-> "failure", cert |-> @.cert,
                                audit |-> Audited(r, "denied")]]
  /\ UNCHANGED <<tried, auth, attempt, sent, client, backendVars, faultVars,
                 inputVars>>
-------------------------------------------------------------------------------
(* The size limit and the parser look at the body of every request; only   *)
(* enroll and reenroll check the signature algorithm and the signature.    *)
Unreadable(r) == input[r].csr \in {"large", "malformed"}

BadSignature(r) ==
  /\ input[r].op # "serverkeygen"
  /\ input[r].csr \in {"badalg", "badsig"}

AfterCSR(r) ==
  IF input[r].op = "serverkeygen" THEN "keygen"
  ELSE IF input[r].op = "reenroll" /\ input[r].tls # "none" THEN "match"
  ELSE "clone"

AcceptCSR(r) ==
  /\ pc[r] = "parse"
  /\ ~Unreadable(r)
  /\ ~BadSignature(r)
  /\ Goto(r, AfterCSR(r))
  /\ UNCHANGED <<tried, auth, attempt, resp, log, sent, client, backendVars,
                 faultVars, inputVars>>

(* Only serverkeygen counts a malformed body as a rejected certificate; no *)
(* endpoint counts one that is too large, or audits either.                *)
RejectBody(r) ==
  /\ pc[r] = "parse"
  /\ \/ /\ input[r].csr = "large"
        /\ Finish(r, 413, "none", "none")
     \/ /\ input[r].csr = "malformed" \/ gone[r] # "no"   \* or cannot be read
        /\ Finish(r, 400,
                  IF input[r].op = "serverkeygen" THEN "rejected" ELSE "none",
                  "none")
  /\ UNCHANGED <<sent, client, backendVars, faultVars, inputVars>>

RejectSignature(r) ==
  /\ pc[r] = "parse"
  /\ BadSignature(r)
  /\ Finish(r, 400, "none", "denied")
  /\ UNCHANGED <<sent, client, backendVars, faultVars, inputVars>>

(* Mutant of Matches: subject and alternative names are not compared.      *)
Matches_KeyOnly(r) == input[r].sameKey

(* ValidateCSRMatchesCertificate, then ValidateReenrollmentSubject.        *)
Matches(r) == input[r].sameKey /\ input[r].sameName

MatchCertificate(r) ==
  /\ pc[r] = "match"
  /\ IF Matches(r)
       THEN /\ Goto(r, "clone")
            /\ UNCHANGED <<tried, auth, attempt, resp, log>>
       ELSE Finish(r, 400, "rejected", "denied")
  /\ UNCHANGED <<sent, client, backendVars, faultVars, inputVars>>

(* The key pair and the new CSR, made locally or by Transit.               *)
GenerateKey(r) ==
  /\ pc[r] = "keygen"
  /\ \/ /\ Goto(r, "clone")
        /\ UNCHANGED <<tried, auth, attempt, resp, log>>
     \/ Finish(r, 500, "rejected", "none")
  /\ UNCHANGED <<sent, client, backendVars, faultVars, inputVars>>
-------------------------------------------------------------------------------
(* Mutant of SetCloneToken: the clone shares its client with the others.   *)
SetCloneToken_Shared(r, token) ==
  client' = [c \in DOMAIN client |->
               IF c = r \/ client[c] # NoToken THEN token ELSE NoToken]

SetCloneToken(r, token) == client' = [client EXCEPT ![r] = token]

(* processCSRSigning clones the backend client for the token of the        *)
(* request and closes the clone on every way out.                          *)
CloneClient(r) ==
  /\ pc[r] = "clone"
  /\ IF auth[r].token = NoToken
       THEN /\ Finish(r, 502, "rejected", "error")
            /\ UNCHANGED client
       ELSE /\ Goto(r, "sign")
            /\ SetCloneToken(r, auth[r].token)
            /\ attempt' = [attempt EXCEPT ![r] = 1]
            /\ UNCHANGED <<tried, auth, resp, log>>
  /\ UNCHANGED <<sent, backendVars, faultVars, inputVars>>

Close(c) == client' = [client EXCEPT ![c] = NoToken]

(* The deferred Close, and then the error answer of the handler.           *)
SignFails(r, kind) ==
  /\ Close(r)
  /\ \E status \in BackendStatus[kind] :
       Finish(r, status, "rejected", "error")

RejectPolicy(r) ==
  /\ pc[r] = "sign"
  /\ policy = "unset"
  /\ SignFails(r, "invalid")
  /\ UNCHANGED <<sent, backendVars, faultVars, inputVars>>

ThisCall(r) == [req |-> r, try |-> attempt[r], token |-> client[r]]

(* The CA performs a signing call.                                         *)
Issue(call) == issued' = issued \cup {call}

(* Mutant of AfterGrant: every endpoint goes through the key encoding.     *)
AfterGrant_EncodesAll(r) == "encode"

AfterGrant(r) == IF input[r].op = "serverkeygen" THEN "encode" ELSE "write"

SignGranted(r) ==
  /\ pc[r] = "sign"
  /\ policy # "unset"
  /\ Reaches(r, "sign")
  /\ client[r] \in Live
  /\ Issue(ThisCall(r))
  /\ Close(r)
  /\ Goto(r, AfterGrant(r))
  /\ UNCHANGED <<tried, auth, attempt, resp, log, sent, minted, dead, late,
                 faultVars, inputVars>>

(* Mutant of Refusals: the error for a dead token is not answered.         *)
Refusals_NoDeadToken(r) ==
  IF client[r] \in Live THEN {"denied", "invalid", "missing"} ELSE {}

(* The backend refuses: the token is dead, or its policies, the role or    *)
(* the CSR forbid it.                                                      *)
Refusals(r) ==
  IF client[r] \in Live THEN {"denied", "invalid", "missing"} ELSE {"denied"}

SignRefused(r) ==
  /\ pc[r] = "sign"
  /\ policy # "unset"
  /\ Reaches(r, "sign")
  /\ \E kind \in Refusals(r) : SignFails(r, kind)
  /\ UNCHANGED <<sent, backendVars, faultVars, inputVars>>

(* What may have become of a call whose reply does not come: it never      *)
(* arrives, it was performed, or it is still on its way.                   *)
Unanswered(r) ==
  \/ UNCHANGED <<issued, late>>
  \/ /\ Reaches(r, "sign")
     /\ \/ client[r] \in Live /\ Issue(ThisCall(r)) /\ UNCHANGED late
        \/ late' = late \cup {ThisCall(r)} /\ UNCHANGED issued

(* Mutant of RetriesLeft: one retry too many.                              *)
RetriesLeft_OneMore(r) == attempt[r] <= MaxRetries + 1

RetriesLeft(r) == attempt[r] <= MaxRetries

(* The connection breaks or the backend answers 5xx, and the API client    *)
(* tries again.                                                            *)
SignRetried(r) ==
  /\ pc[r] = "sign"
  /\ policy # "unset"
  /\ RetriesLeft(r)
  /\ gone[r] = "no"
  /\ Hurt(r)
  /\ Unanswered(r)
  /\ attempt' = [attempt EXCEPT ![r] = @ + 1]
  /\ UNCHANGED <<pc, tried, auth, resp, log, sent, client, minted, dead, gone,
                 inputVars>>

(* It breaks and the API client gives up: no retry is left, or the context *)
(* of the call has ended (its timeout, or the client's connection).        *)
SignAbandoned(r) ==
  /\ pc[r] = "sign"
  /\ policy # "unset"
  /\ Broken(r)
  /\ Unanswered(r)
  /\ \/ ~RetriesLeft(r) /\ SignFails(r, "transport")
     \/ SignFails(r, "context")
  /\ UNCHANGED <<sent, minted, dead, gone, inputVars>>

(* A call nobody waits for reaches the CA.                                 *)
LateCall(call) ==
  /\ call \in late
  /\ late' = late \ {call}
  /\ IF call.token \in Live THEN Issue(call) ELSE UNCHANGED issued
  /\ UNCHANGED <<handlerVars, client, minted, dead, faultVars, inputVars>>
-------------------------------------------------------------------------------
(* encodePrivateKey: an encrypted key needs an RSA client certificate.     *)
CanEncode(r) == EncryptPrivateKey => input[r].tls = "rsa"

EncodeKey(r) ==
  /\ pc[r] = "encode"
  /\ IF CanEncode(r)
       THEN /\ Goto(r, "write")
            /\ UNCHANGED <<tried, auth, attempt, resp, log>>
       ELSE Finish(r, 500, "rejected", "none")
  /\ UNCHANGED <<sent, client, backendVars, faultVars, inputVars>>

WriteCertificate(r) ==
  /\ pc[r] = "write"
  /\ sent' = [sent EXCEPT ![r] = TRUE]
  /\ Finish(r, 200, "issued", "success")
  /\ UNCHANGED <<client, backendVars, faultVars, inputVars>>

(* Mutant of Unrecorded: the success is recorded before the write.         *)
Unrecorded_TooEarly(r) == Finish(r, 200, "issued", "success")

Unrecorded(r) == Finish(r, 200, "none", "none")

(* The status line is out and the write fails: the error is only logged.   *)
WriteBroken(r) ==
  /\ pc[r] = "write"
  /\ Broken(r)
  /\ Unrecorded(r)
  /\ UNCHANGED <<sent, client, backendVars, gone, inputVars>>
-------------------------------------------------------------------------------
(* The call that r may be waiting for: of the method it tries, for its     *)
(* signature, or none.                                                     *)
Doing(r) ==
  IF pc[r] = "auth" /\ ~NoMethodLeft(r) THEN {m \in Methods : IsNext(r, m)}
  ELSE IF pc[r] = "sign" THEN {"sign"}
  ELSE {"nothing"}

(* The client closes its connection; the request's context is cancelled.   *)
Disconnect(r) ==
  /\ pc[r] \notin {"idle", "done"}
  /\ gone[r] = "no"
  /\ \E at \in Doing(r) : gone' = [gone EXCEPT ![r] = at]
  /\ Hurt(r)
  /\ UNCHANGED <<handlerVars, client, backendVars, inputVars>>

(* A token expires or is revoked at the backend.                           *)
Revoke(t) ==
  /\ t \in Live
  /\ Cardinality(dead) < MaxRevoked
  /\ dead' = dead \cup {t}
  /\ UNCHANGED <<handlerVars, client, minted, issued, late, faultVars,
                 inputVars>>

HandlerStep(r) ==
  \/ Arrive(r)
  \/ \E m \in Methods : AuthAccepted(r, m) \/ AuthRefused(r, m) \/ AuthBroken(r, m)
  \/ Unauthenticated(r)
  \/ AcceptCSR(r) \/ RejectBody(r) \/ RejectSignature(r)
  \/ MatchCertificate(r)
  \/ GenerateKey(r)
  \/ CloneClient(r) \/ RejectPolicy(r)
  \/ SignGranted(r) \/ SignRefused(r) \/ SignRetried(r) \/ SignAbandoned(r)
  \/ EncodeKey(r)
  \/ WriteCertificate(r) \/ WriteBroken(r)

(* Nothing is left to do.                                                  *)
Finished ==
  /\ \A r \in Requests : pc[r] = "done"
  /\ UNCHANGED vars

Next ==
  \/ \E r \in Requests : HandlerStep(r) \/ Disconnect(r)
  \/ \E call \in late : LateCall(call)
  \/ \E t \in Tokens : Revoke(t)
  \/ Finished

(* A goroutine keeps running, and every call it makes to the backend ends: *)
(* each has a timeout. Nothing else is bound to happen.                    *)
Fairness == \A r \in Requests : WF_vars(HandlerStep(r))

Spec == Init /\ [][Next]_vars /\ Fairness
-------------------------------------------------------------------------------
(***************************************************************************)
(* Properties.                                                             *)
(***************************************************************************)

LoginsOf(r) == {<<r, m>> : m \in LoginMethods}

(* The tokens a request can have come by: the one in its header and those  *)
(* the backend minted for its own logins.                                  *)
OwnTokens(r) == ({input[r].bearer} \cup LoginsOf(r)) \ {NoToken}

(* Every certificate was signed, and every call still on its way was sent, *)
(* under a token of the request it is for: neither under the service's own *)
(* token nor, with many clones of one client in use at once, under the     *)
(* token of another request (processCSRSigning and cloneWithToken).        *)
SignedUnderOwnToken ==
  \A call \in issued \cup late : call.token \in OwnTokens(call.req)

Signed(r) == {call \in issued : call.req = r}

(* The records agree with what happened: the metrics count a certificate   *)
(* as issued exactly when its response was written in full, such a request *)
(* was authenticated and the CA did issue a certificate for it, the audit  *)
(* log of enroll and reenroll says "success" exactly then, and an error    *)
(* status never goes with either (recordSuccess, recordRejection).         *)
RecordsAgree ==
  \A r \in Requests :
    /\ sent[r] <=> log[r].cert = "issued"
    /\ log[r].audit = "success" <=> sent[r] /\ input[r].op # "serverkeygen"
    /\ sent[r] => /\ log[r].auth = "success"
                  /\ resp[r] = 200
                  /\ Signed(r) # {}

(* A certificate the CA issued and the client never got is the work of a   *)
(* fault, but for one case: serverkeygen finds out that it cannot encrypt  *)
(* the key for the client only after the CA has signed for it.             *)
LostOnlyToFaults ==
  \A r \in Requests :
    pc[r] = "done" /\ Signed(r) # {} /\ ~sent[r] =>
      \/ hurt[r] > 0
      \/ input[r].op = "serverkeygen" /\ ~CanEncode(r)

(* Retries and delayed calls cost the CA at most one certificate more for  *)
(* each fault that hit the request, and never more than max_retries + 1.   *)
RetriesBounded ==
  \A r \in Requests :
    LET calls == {call \in issued \cup late : call.req = r}
    IN  Cardinality(calls) <= 1 + (IF hurt[r] < MaxRetries THEN hurt[r]
                                                            ELSE MaxRetries)

(* A client that met no fault is told 401 only when the backend would take *)
(* none of the credentials it presented, and the method it is known by is  *)
(* the first in the chain that accepts it: no method is skipped, and a     *)
(* refusal by one does not hide another (Authenticate).                    *)
ChainIsComplete ==
  \A r \in Requests :
    /\ resp[r] = 401 /\ hurt[r] = 0 =>
         /\ Signed(r) = {}
         /\ \A m \in Applicable(r) : ~Accepts(r, m)
    /\ auth[r].method # "none" /\ hurt[r] = 0 =>
         \A m \in Applicable(r) :
           Position(m) < Position(auth[r].method) => ~Accepts(r, m)

(* A request leaves tokens of its own behind at the backend from at most   *)
(* one login, and from one more for each login whose reply was lost; the   *)
(* one it does not hold was always left by a fault (the handlers never     *)
(* revoke a token). <<r, m>> stands for all tokens that login m minted for *)
(* r; how many one login can mint is told in CertLogin.                    *)
LoginsBounded ==
  \A r \in Requests :
    /\ Cardinality(LoginsOf(r) \cap minted) <= 1 + hurt[r]
    /\ LoginsOf(r) \cap minted \subseteq {auth[r].token} \/ hurt[r] > 0

(* Every request that reaches its handler is answered, however the calls   *)
(* to the backend end.                                                     *)
AlwaysAnswered ==
  \A r \in Requests : pc[r] # "idle" ~> pc[r] = "done"

(***************************************************************************)
(* The abstract service.                                                   *)
(***************************************************************************)

(* What a request must carry to be granted a certificate.                  *)
Deserves(i) ==
  /\ i.post
  /\ \/ "token" \in Enabled /\ i.bearer \in ValidBearers
     \/ "cert" \in Enabled \cap i.accepts /\ i.tls # "none"
     \/ i.basic /\ Enabled \cap i.accepts \cap BasicMethods # {}
  /\ i.csr \notin {"large", "malformed"}
  /\ i.op # "serverkeygen" => i.csr \notin {"badalg", "badsig"}
  /\ i.op = "reenroll" /\ i.tls # "none" => i.sameKey /\ i.sameName

AnswerOf(r) ==
  IF pc[r] # "done" THEN "none"
  ELSE IF sent[r] THEN "certificate"
  ELSE IF resp[r] = 200 THEN "cut"
  ELSE "refused"

Service == INSTANCE EstService WITH
  MaxIssued <- MaxRetries + 1,
  deserving <- {r \in Requests : Deserves(input[r])},
  answer    <- [r \in Requests |-> AnswerOf(r)],
  certs     <- [r \in Requests |-> {call.try : call \in Signed(r)}]

(* The handlers implement EstService: certificates are issued only for     *)
(* requests that carry accepted credentials and an acceptable CSR, in      *)
(* bounded number, and an answer, once given, is true and final.           *)
ImplementsService == Service!Spec

(***************************************************************************)
(* What the documentation says and the code does not do.                   *)
(***************************************************************************)

(* api/README.md, "Server-Side Key Generation": a client that             *)
(* authenticates with a user name and a password gets a multipart response *)
(* with certificate and private key. So when nothing goes wrong and the CA *)
(* signs, the response is sent (serverkeygen.go, ServeHTTP).               *)
PasswordClientGetsKey ==
  \A r \in Requests :
    /\ input[r].op = "serverkeygen" /\ input[r].tls = "none" /\ input[r].basic
    /\ pc[r] = "done" /\ hurt[r] = 0 /\ Signed(r) # {}
    => sent[r]
===============================================================================
