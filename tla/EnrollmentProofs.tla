--------------------------- MODULE EnrollmentProofs ---------------------------
(***************************************************************************)
(* Proofs about Enrollment, for any number of requests, any inputs, any    *)
(* bounds: type correctness, the scrubbing of the clones, and that every   *)
(* certificate is signed under a token of its own request.                 *)
(***************************************************************************)
EXTENDS Enrollment, TLAPS

(* A signing call has a number, and the handler has a token to make it.    *)
Signing ==
  \A r \in Requests :
    pc[r] = "sign" => auth[r].token # NoToken /\ attempt[r] \in Attempts

(* The token an authentication produced belongs to the request.            *)
HoldsOwnToken ==
  \A r \in Requests :
    auth[r].token # NoToken => auth[r].token \in OwnTokens(r)

(* Outside the signing call no clone holds a token, whichever way the call *)
(* ended; inside, it holds the token of its own request; and the service's *)
(* own client keeps its token through all the cloning and closing around   *)
(* it (the deferred Close of processCSRSigning, and Close itself).         *)
ClonesScrubbed ==
  /\ client[Server] = ServiceToken
  /\ \A r \in Requests :
       client[r] = IF pc[r] = "sign" THEN auth[r].token ELSE NoToken

(* The inductive invariant. TypeOK needs Signing and ClonesScrubbed (the   *)
(* calls in issued and late name the token of the clone and the number of  *)
(* the attempt); SignedUnderOwnToken needs HoldsOwnToken and               *)
(* ClonesScrubbed (the clone holds the token of the authentication).       *)
IInv ==
  /\ TypeOK
  /\ Signing
  /\ HoldsOwnToken
  /\ ClonesScrubbed
  /\ SignedUnderOwnToken

-------------------------------------------------------------------------------
(* The backend's errors become statuses the handlers send.                 *)
LEMMA BackendStatusType ==
  \A kind \in {"denied", "invalid", "missing", "transport", "context"} :
    BackendStatus[kind] \subseteq Statuses
BY DEF BackendStatus, Statuses

(* The token of a login or of a header belongs to the request.             *)
LEMMA TokenOfOwn ==
  ASSUME TypeOK, NEW r \in Requests, NEW m \in Methods, Presented(r, m)
  PROVE  /\ TokenOf(r, m) \in Tokens
         /\ TokenOf(r, m) # NoToken
         /\ TokenOf(r, m) \in OwnTokens(r)
<1>1. input[r] \in InputType
  BY EnrollmentAssumption DEF TypeOK
<1>2. CASE m = "token"
  <2>1. input[r].bearer \in BearerTokens
    BY <1>1, <1>2 DEF Presented, InputType, BasicMethods, LoginMethods
  <2> QED
    BY <1>2, <2>1, EnrollmentAssumption
    DEF TokenOf, Tokens, OwnTokens
<1>3. CASE m # "token"
  <2>1. m \in LoginMethods
    BY <1>3 DEF Methods
  <2>2. <<r, m>> \in LoginTokens /\ <<r, m>> \in LoginsOf(r)
    BY <2>1 DEF LoginTokens, LoginsOf
  <2>3. TokenOf(r, m) = <<r, m>>
    BY <1>3 DEF TokenOf
  <2> QED
    BY <2>2, <2>3, EnrollmentAssumption DEF Tokens, OwnTokens
<1> QED
  BY <1>2, <1>3

(* The call a handler makes in the signing step is a well-formed one, under *)
(* a token of its request.                                                 *)
LEMMA ThisCallOwn ==
  ASSUME IInv, NEW r \in Requests, pc[r] = "sign"
  PROVE  /\ ThisCall(r) \in Calls
         /\ ThisCall(r).req = r
         /\ ThisCall(r).token \in OwnTokens(r)
<1>1. client[r] = auth[r].token
  BY DEF IInv, ClonesScrubbed
<1>2. auth[r].token \in Tokens /\ attempt[r] \in Attempts
  BY DEF IInv, TypeOK, Signing
<1>3. auth[r].token \in OwnTokens(r)
  BY DEF IInv, Signing, HoldsOwnToken
<1> QED
  BY <1>1, <1>2, <1>3 DEF ThisCall, Calls

(* A return keeps the types of what it writes.                             *)
LEMMA FinishType ==
  ASSUME TypeOK, NEW r \in Requests, NEW status \in Statuses,
         NEW cert \in {"none", "issued", "rejected"},
         NEW result \in {"none", "denied", "error", "success"},
         Finish(r, status, cert, result)
  PROVE  /\ pc' = [pc EXCEPT ![r] = "done"]
         /\ pc' \in [Requests -> PCs]
         /\ resp' \in [Requests -> Statuses]
         /\ log' \in [Requests -> [auth : {"none", "success", "failure"},
                          cert : {"none", "issued", "rejected"},
                          audit : {"none", "denied", "error", "success"}]]
         /\ UNCHANGED <<tried, auth, attempt>>
<1>1. Audited(r, result) \in {"none", "denied", "error", "success"}
  BY DEF Audited
<1>2. pc' = [pc EXCEPT ![r] = "done"]
  BY DEF Finish, Goto
<1> QED
  BY <1>1, <1>2 DEF Finish, TypeOK, PCs

(* A signing call that fails scrubs the clone and returns.                 *)
LEMMA SignFailsType ==
  ASSUME TypeOK, NEW r \in Requests,
         NEW kind \in {"denied", "invalid", "missing", "transport", "context"},
         SignFails(r, kind)
  PROVE  /\ client' = [client EXCEPT ![r] = NoToken]
         /\ client' \in [Requests \cup {Server} -> Tokens \cup {NoToken}]
         /\ pc' = [pc EXCEPT ![r] = "done"]
         /\ pc' \in [Requests -> PCs]
         /\ resp' \in [Requests -> Statuses]
         /\ log' \in [Requests -> [auth : {"none", "success", "failure"},
                          cert : {"none", "issued", "rejected"},
                          audit : {"none", "denied", "error", "success"}]]
         /\ UNCHANGED <<tried, auth, attempt>>
<1>1. PICK status \in Statuses : Finish(r, status, "rejected", "error")
  BY BackendStatusType DEF SignFails
<1>2. client' = [client EXCEPT ![r] = NoToken]
  BY DEF SignFails, Close
<1>3. client' \in [Requests \cup {Server} -> Tokens \cup {NoToken}]
  BY <1>2 DEF TypeOK
<1> QED
  BY <1>1, <1>2, <1>3, FinishType

(* Faults stay within their bound.                                         *)
LEMMA HurtType ==
  ASSUME TypeOK, NEW r \in Requests, Hurt(r) \/ Broken(r)
  PROVE  hurt' \in [Requests -> 0..MaxFaults]
<1>1. CASE UNCHANGED hurt
  BY <1>1 DEF TypeOK
<1>2. CASE Hurt(r)
  <2>1. hurt[r] \in 0..MaxFaults /\ hurt[r] < MaxFaults
    BY <1>2 DEF Hurt, TypeOK
  <2>2. hurt[r] + 1 \in 0..MaxFaults
    BY <2>1, EnrollmentAssumption
  <2> QED
    BY <1>2, <2>2 DEF Hurt, TypeOK
<1> QED
  BY <1>1, <1>2 DEF Broken

(* A call whose reply does not come adds at most itself to the calls.      *)
LEMMA UnansweredCalls ==
  ASSUME IInv, NEW r \in Requests, pc[r] = "sign", Unanswered(r)
  PROVE  /\ issued' \subseteq Calls /\ late' \subseteq Calls
         /\ issued' \subseteq issued \cup {ThisCall(r)}
         /\ late' \subseteq late \cup {ThisCall(r)}
BY ThisCallOwn DEF Unanswered, Issue, IInv, TypeOK

-------------------------------------------------------------------------------
(* Initially the invariant holds.                                          *)
LEMMA InitIInv == Init => IInv
<1> SUFFICES ASSUME Init PROVE IInv
  OBVIOUS
<1>1. TypeOK
  <2>1. client \in [Requests \cup {Server} -> Tokens \cup {NoToken}]
    BY DEF Init, Tokens
  <2>2. minted \subseteq Tokens /\ dead \subseteq minted
    BY EnrollmentAssumption DEF Init, Tokens
  <2>3. 0 \in 0..MaxFaults
    BY EnrollmentAssumption
  <2> QED
    BY <2>1, <2>2, <2>3 DEF Init, TypeOK, PCs, Statuses
<1>2. Signing /\ HoldsOwnToken
  BY DEF Init, Signing, HoldsOwnToken
<1>3. ClonesScrubbed
  BY EnrollmentAssumption DEF Init, ClonesScrubbed
<1>4. SignedUnderOwnToken
  BY DEF Init, SignedUnderOwnToken
<1> QED
  BY <1>1, <1>2, <1>3, <1>4 DEF IInv

-------------------------------------------------------------------------------
(* A step keeps the types.                                                 *)
LEMMA TypeStep == IInv /\ [Next]_vars => TypeOK'
<1> SUFFICES ASSUME IInv, [Next]_vars PROVE TypeOK'
  OBVIOUS
<1> USE DEF backendVars, faultVars, inputVars, handlerVars
<1>0. TypeOK
  BY DEF IInv
<1>1. ASSUME NEW r \in Requests, Arrive(r) PROVE TypeOK'
  <2>1. CASE input[r].post
    BY <1>0, <1>1, <2>1 DEF Arrive, Goto, TypeOK, PCs
  <2>2. CASE ~input[r].post
    <3>1. Finish(r, 405, "none", "none")
      BY <1>1, <2>2 DEF Arrive
    <3>2. 405 \in Statuses
      BY DEF Statuses
    <3> QED
      BY <1>0, <1>1, <3>1, <3>2, FinishType DEF Arrive, TypeOK
  <2> QED
    BY <2>1, <2>2
<1>2. ASSUME NEW r \in Requests, NEW m \in Methods, AuthAccepted(r, m)
      PROVE  TypeOK'
  <2>1. TokenOf(r, m) \in Tokens
    BY <1>0, <1>2, TokenOfOwn DEF AuthAccepted, IsNext, Applicable
  <2>2. log' \in [Requests -> [auth : {"none", "success", "failure"},
                              cert : {"none", "issued", "rejected"},
                              audit : {"none", "denied", "error", "success"}]]
    BY <1>0, <1>2 DEF AuthAccepted, TypeOK
  <2>3. auth' \in [Requests -> [token : Tokens \cup {NoToken},
                               method : Methods \cup {"none"}]]
    BY <1>0, <1>2, <2>1 DEF AuthAccepted, TypeOK
  <2> QED
    BY <1>0, <1>2, <2>1, <2>2, <2>3
    DEF AuthAccepted, Tried, FirstWins, Goto, TypeOK, PCs
<1>3. ASSUME NEW r \in Requests, NEW m \in Methods, AuthRefused(r, m)
      PROVE  TypeOK'
  BY <1>0, <1>3 DEF AuthRefused, Tried, TypeOK
<1>4. ASSUME NEW r \in Requests, NEW m \in Methods, AuthBroken(r, m)
      PROVE  TypeOK'
  <2>1. TokenOf(r, m) \in Tokens
    BY <1>0, <1>4, TokenOfOwn DEF AuthBroken, IsNext, Applicable
  <2>2. hurt' \in [Requests -> 0..MaxFaults]
    BY <1>0, <1>4, HurtType DEF AuthBroken
  <2> QED
    BY <1>0, <1>4, <2>1, <2>2 DEF AuthBroken, Tried, TypeOK
<1>5. ASSUME NEW r \in Requests, Unauthenticated(r) PROVE TypeOK'
  <2>1. log' \in [Requests -> [auth : {"none", "success", "failure"},
                              cert : {"none", "issued", "rejected"},
                              audit : {"none", "denied", "error", "success"}]]
    BY <1>0, <1>5 DEF Unauthenticated, Audited, TypeOK
  <2> QED
    BY <1>0, <1>5, <2>1 DEF Unauthenticated, Goto, TypeOK, PCs, Statuses
<1>6. ASSUME NEW r \in Requests, AcceptCSR(r) PROVE TypeOK'
  BY <1>0, <1>6 DEF AcceptCSR, AfterCSR, Goto, TypeOK, PCs
<1>7. ASSUME NEW r \in Requests, RejectBody(r) PROVE TypeOK'
  <2>1. PICK status \in Statuses, cert \in {"none", "rejected"} :
          Finish(r, status, cert, "none")
    BY <1>7 DEF RejectBody, Statuses
  <2> QED
    BY <1>0, <1>7, <2>1, FinishType DEF RejectBody, TypeOK
<1>8. ASSUME NEW r \in Requests, RejectSignature(r) PROVE TypeOK'
  <2>1. 400 \in Statuses
    BY DEF Statuses
  <2> QED
    BY <1>0, <1>8, <2>1, FinishType DEF RejectSignature, TypeOK
<1>9. ASSUME NEW r \in Requests, MatchCertificate(r) PROVE TypeOK'
  <2>1. CASE Matches(r)
    BY <1>0, <1>9, <2>1 DEF MatchCertificate, Goto, TypeOK, PCs
  <2>2. CASE ~Matches(r)
    <3>1. 400 \in Statuses /\ Finish(r, 400, "rejected", "denied")
      BY <1>9, <2>2 DEF MatchCertificate, Statuses
    <3> QED
      BY <1>0, <1>9, <3>1, FinishType DEF MatchCertificate, TypeOK
  <2> QED
    BY <2>1, <2>2
<1>10. ASSUME NEW r \in Requests, GenerateKey(r) PROVE TypeOK'
  <2>1. CASE Goto(r, "clone") /\ UNCHANGED <<tried, auth, attempt, resp, log>>
    BY <1>0, <1>10, <2>1 DEF GenerateKey, Goto, TypeOK, PCs
  <2>2. CASE Finish(r, 500, "rejected", "none")
    <3>1. 500 \in Statuses
      BY DEF Statuses
    <3> QED
      BY <1>0, <1>10, <2>2, <3>1, FinishType DEF GenerateKey, TypeOK
  <2> QED
    BY <1>10, <2>1, <2>2 DEF GenerateKey
<1>11. ASSUME NEW r \in Requests, CloneClient(r) PROVE TypeOK'
  <2>1. CASE auth[r].token = NoToken
    <3>1. 502 \in Statuses /\ Finish(r, 502, "rejected", "error")
      BY <1>11, <2>1 DEF CloneClient, Statuses
    <3> QED
      BY <1>0, <1>11, <2>1, <3>1, FinishType DEF CloneClient, TypeOK
  <2>2. CASE auth[r].token # NoToken
    <3>1. attempt' \in [Requests -> Attempts \cup {0}]
      <4>1. 1 \in Attempts
        BY EnrollmentAssumption DEF Attempts
      <4>2. attempt' = [attempt EXCEPT ![r] = 1]
        BY <1>11, <2>2 DEF CloneClient
      <4> QED
        BY <1>0, <4>1, <4>2 DEF TypeOK
    <3>2. client' \in [Requests \cup {Server} -> Tokens \cup {NoToken}]
      BY <1>0, <1>11, <2>2 DEF CloneClient, SetCloneToken, TypeOK
    <3> QED
      BY <1>0, <1>11, <2>2, <3>1, <3>2 DEF CloneClient, Goto, TypeOK, PCs
  <2> QED
    BY <2>1, <2>2
<1>12. ASSUME NEW r \in Requests, RejectPolicy(r) PROVE TypeOK'
  BY <1>0, <1>12, SignFailsType DEF RejectPolicy, TypeOK
<1>13. ASSUME NEW r \in Requests, SignGranted(r) PROVE TypeOK'
  <2>1. issued' \subseteq Calls
    BY <1>0, <1>13, ThisCallOwn DEF SignGranted, Issue, TypeOK
  <2>2. client' \in [Requests \cup {Server} -> Tokens \cup {NoToken}]
    BY <1>0, <1>13 DEF SignGranted, Close, TypeOK
  <2> QED
    BY <1>0, <1>13, <2>1, <2>2
    DEF SignGranted, AfterGrant, Goto, TypeOK, PCs
<1>14. ASSUME NEW r \in Requests, SignRefused(r) PROVE TypeOK'
  <2>1. PICK kind \in {"denied", "invalid", "missing"} : SignFails(r, kind)
    BY <1>14 DEF SignRefused, Refusals
  <2> QED
    BY <1>0, <1>14, <2>1, SignFailsType DEF SignRefused, TypeOK
<1>15. ASSUME NEW r \in Requests, SignRetried(r) PROVE TypeOK'
  <2>1. issued' \subseteq Calls /\ late' \subseteq Calls
    BY <1>0, <1>15, UnansweredCalls DEF SignRetried, TypeOK
  <2>2. attempt[r] \in Attempts /\ attempt[r] <= MaxRetries
    BY <1>15 DEF SignRetried, RetriesLeft, IInv, Signing
  <2>3. attempt' \in [Requests -> Attempts \cup {0}]
    BY <1>0, <1>15, <2>2, EnrollmentAssumption
    DEF SignRetried, Attempts, TypeOK
  <2>4. hurt' \in [Requests -> 0..MaxFaults]
    BY <1>0, <1>15, HurtType DEF SignRetried
  <2> QED
    BY <1>0, <1>15, <2>1, <2>3, <2>4 DEF SignRetried, TypeOK
<1>16. ASSUME NEW r \in Requests, SignAbandoned(r) PROVE TypeOK'
  <2>1. issued' \subseteq Calls /\ late' \subseteq Calls
    BY <1>0, <1>16, UnansweredCalls DEF SignAbandoned, TypeOK
  <2>2. PICK kind \in {"transport", "context"} : SignFails(r, kind)
    BY <1>16 DEF SignAbandoned
  <2>3. hurt' \in [Requests -> 0..MaxFaults]
    BY <1>0, <1>16, HurtType DEF SignAbandoned
  <2> QED
    BY <1>0, <1>16, <2>1, <2>2, <2>3, SignFailsType DEF SignAbandoned, TypeOK
<1>17. ASSUME NEW r \in Requests, EncodeKey(r) PROVE TypeOK'
  <2>1. CASE CanEncode(r)
    <3>1. /\ Goto(r, "write")
          /\ UNCHANGED <<tried, auth, attempt, resp, log, sent, client,
                         backendVars, faultVars, inputVars>>
      BY <1>17, <2>1 DEF EncodeKey
    <3>2. pc' \in [Requests -> PCs]
      BY <1>0, <3>1 DEF Goto, TypeOK, PCs
    <3> QED
      BY <1>0, <3>1, <3>2 DEF TypeOK
  <2>2. CASE ~CanEncode(r)
    <3>1. 500 \in Statuses /\ Finish(r, 500, "rejected", "none")
      BY <1>17, <2>2 DEF EncodeKey, Statuses
    <3> QED
      BY <1>0, <1>17, <3>1, FinishType DEF EncodeKey, TypeOK
  <2> QED
    BY <2>1, <2>2
<1>18. ASSUME NEW r \in Requests, WriteCertificate(r) PROVE TypeOK'
  <2>1. 200 \in Statuses
    BY DEF Statuses
  <2> QED
    BY <1>0, <1>18, <2>1, FinishType DEF WriteCertificate, TypeOK
<1>19. ASSUME NEW r \in Requests, WriteBroken(r) PROVE TypeOK'
  <2>1. 200 \in Statuses
    BY DEF Statuses
  <2>2. hurt' \in [Requests -> 0..MaxFaults]
    BY <1>0, <1>19, HurtType DEF WriteBroken
  <2> QED
    BY <1>0, <1>19, <2>1, <2>2, FinishType DEF WriteBroken, Unrecorded, TypeOK
<1>20. ASSUME NEW r \in Requests, Disconnect(r) PROVE TypeOK'
  <2>1. PICK at \in {"nothing", "sign"} \cup Methods : gone' = [gone EXCEPT ![r] = at]
    BY <1>0, <1>20 DEF Disconnect, Doing, TypeOK
  <2>2. gone' \in [Requests -> {"no", "nothing", "sign"} \cup Methods]
    BY <1>0, <2>1 DEF TypeOK
  <2>3. hurt' \in [Requests -> 0..MaxFaults]
    BY <1>0, <1>20, HurtType DEF Disconnect
  <2> QED
    BY <1>0, <1>20, <2>2, <2>3 DEF Disconnect, TypeOK
<1>21. ASSUME NEW call \in late, LateCall(call) PROVE TypeOK'
  BY <1>0, <1>21 DEF LateCall, Issue, TypeOK
<1>22. ASSUME NEW t \in Tokens, Revoke(t) PROVE TypeOK'
  BY <1>0, <1>22 DEF Revoke, Live, TypeOK
<1>23. CASE UNCHANGED vars
  BY <1>0, <1>23 DEF vars, TypeOK
<1> QED
  BY <1>1, <1>2, <1>3, <1>4, <1>5, <1>6, <1>7, <1>8, <1>9, <1>10, <1>11,
     <1>12, <1>13, <1>14, <1>15, <1>16, <1>17, <1>18, <1>19, <1>20, <1>21,
     <1>22, <1>23
  DEF Next, HandlerStep, Finished

-------------------------------------------------------------------------------
(* What a step does to the goroutines, their tokens and their clones: it   *)
(* leaves all of them alone, or moves one goroutine by one of the ways     *)
(* below. This is all the next two lemmas need to know of the actions.     *)
Still(r) ==
  /\ pc[r] # "sign" /\ pc'[r] # "sign"
  /\ UNCHANGED client

Signs(r) ==
  /\ pc[r] = "clone" /\ pc'[r] = "sign"
  /\ auth[r].token # NoToken
  /\ client' = [client EXCEPT ![r] = auth[r].token]
  /\ attempt'[r] = 1

Stays(r) ==
  /\ pc[r] = "sign" /\ pc'[r] = "sign"
  /\ UNCHANGED client
  /\ attempt'[r] = attempt[r] + 1
  /\ attempt[r] <= MaxRetries

Leaves(r) ==
  /\ pc[r] = "sign" /\ pc'[r] # "sign"
  /\ client' = [client EXCEPT ![r] = NoToken]

Others(r) ==
  \A q \in Requests \ {r} :
    pc'[q] = pc[q] /\ auth'[q] = auth[q] /\ attempt'[q] = attempt[q]

KeepsToken(r) ==
  \/ auth'[r] = auth[r]
  \/ /\ pc[r] = "auth"
     /\ auth'[r].token \in OwnTokens(r) /\ auth'[r].token # NoToken

Moves(r) ==
  /\ Others(r)
  /\ KeepsToken(r)
  /\ Still(r) \/ Signs(r) \/ Stays(r) \/ Leaves(r)

(* Every step of a handler is such a move.                                 *)
LEMMA HandlerMoves ==
  ASSUME IInv, NEW r \in Requests, HandlerStep(r)
  PROVE  Moves(r) /\ UNCHANGED input
<1> USE DEF backendVars, faultVars, inputVars, Goto
<1>0. TypeOK
  BY DEF IInv
<1>1. CASE Arrive(r)
  BY <1>0, <1>1 DEF Arrive, Finish, TypeOK, Moves, Others, KeepsToken, Still
<1>2. ASSUME NEW m \in Methods, AuthAccepted(r, m)
      PROVE  Moves(r) /\ UNCHANGED input
  <2>1. TokenOf(r, m) # NoToken /\ TokenOf(r, m) \in OwnTokens(r)
    BY <1>0, <1>2, TokenOfOwn DEF AuthAccepted, IsNext, Applicable
  <2> QED
    BY <1>0, <1>2, <2>1
    DEF AuthAccepted, FirstWins, TypeOK, Moves, Others, KeepsToken, Still
<1>3. ASSUME NEW m \in Methods, AuthRefused(r, m) \/ AuthBroken(r, m)
      PROVE  Moves(r) /\ UNCHANGED input
  BY <1>0, <1>3
  DEF AuthRefused, AuthBroken, TypeOK, Moves, Others, KeepsToken, Still
<1>4. CASE Unauthenticated(r)
  BY <1>0, <1>4
  DEF Unauthenticated, TypeOK, Moves, Others, KeepsToken, Still
<1>5. CASE AcceptCSR(r)
  BY <1>0, <1>5
  DEF AcceptCSR, AfterCSR, TypeOK, Moves, Others, KeepsToken, Still
<1>6. CASE RejectBody(r) \/ RejectSignature(r)
  BY <1>0, <1>6
  DEF RejectBody, RejectSignature, Finish, TypeOK, Moves, Others, KeepsToken,
      Still
<1>7. CASE MatchCertificate(r) \/ GenerateKey(r) \/ EncodeKey(r)
  BY <1>0, <1>7
  DEF MatchCertificate, GenerateKey, EncodeKey, Finish, TypeOK, Moves, Others,
      KeepsToken, Still
<1>8. CASE CloneClient(r)
  BY <1>0, <1>8
  DEF CloneClient, SetCloneToken, Finish, TypeOK, Moves, Others, KeepsToken,
      Still, Signs
<1>9. CASE RejectPolicy(r) \/ SignRefused(r) \/ SignAbandoned(r)
  <2>1. pc[r] = "sign" /\ UNCHANGED input
    BY <1>9 DEF RejectPolicy, SignRefused, SignAbandoned
  <2>2. PICK kind \in {"denied", "invalid", "missing", "transport", "context"} :
          SignFails(r, kind)
    BY <1>9 DEF RejectPolicy, SignRefused, SignAbandoned, Refusals
  <2>3. /\ client' = [client EXCEPT ![r] = NoToken]
        /\ pc' = [pc EXCEPT ![r] = "done"]
        /\ UNCHANGED <<auth, attempt>>
    BY <1>0, <2>2, SignFailsType
  <2> QED
    BY <1>0, <2>1, <2>3 DEF TypeOK, Moves, Others, KeepsToken, Leaves
<1>10. CASE SignGranted(r)
  BY <1>0, <1>10
  DEF SignGranted, AfterGrant, Close, TypeOK, Moves, Others, KeepsToken, Leaves
<1>11. CASE SignRetried(r)
  BY <1>0, <1>11
  DEF SignRetried, RetriesLeft, TypeOK, Moves, Others, KeepsToken, Stays
<1>12. CASE WriteCertificate(r) \/ WriteBroken(r)
  BY <1>0, <1>12
  DEF WriteCertificate, WriteBroken, Unrecorded, Finish, TypeOK, Moves, Others,
      KeepsToken, Still
<1> QED
  BY <1>1, <1>2, <1>3, <1>4, <1>5, <1>6, <1>7, <1>8, <1>9, <1>10, <1>11, <1>12
  DEF HandlerStep

(* All other steps leave goroutines, tokens and clones alone.              *)
LEMMA OthersStand ==
  ASSUME IInv, [Next]_vars, \A r \in Requests : ~HandlerStep(r)
  PROVE  UNCHANGED <<pc, auth, attempt, client, input>>
BY DEF Next, Disconnect, LateCall, Revoke, Finished, vars, handlerVars,
       backendVars, faultVars, inputVars

(* The clones are scrubbed, whatever step is taken.                        *)
LEMMA CloneStep ==
  ASSUME IInv, NEW r \in Requests, Moves(r), UNCHANGED input, TypeOK'
  PROVE  ClonesScrubbed' /\ Signing' /\ HoldsOwnToken'
<1>0. TypeOK
  BY DEF IInv
<1>1. ClonesScrubbed'
  <2>1. client'[Server] = ServiceToken
    BY <1>0, EnrollmentAssumption
    DEF IInv, TypeOK, ClonesScrubbed, Moves, Still, Signs, Stays, Leaves
  <2>2. ASSUME NEW q \in Requests
        PROVE  client'[q] = IF pc'[q] = "sign" THEN auth'[q].token ELSE NoToken
    <3>1. client[q] = IF pc[q] = "sign" THEN auth[q].token ELSE NoToken
      BY DEF IInv, ClonesScrubbed
    <3>2. CASE q # r
      BY <1>0, <2>2, <3>1, <3>2
      DEF TypeOK, Moves, Others, Still, Signs, Stays, Leaves
    <3>3. CASE q = r
      BY <1>0, <3>1, <3>3
      DEF TypeOK, Moves, KeepsToken, Still, Signs, Stays, Leaves
    <3> QED
      BY <3>2, <3>3
  <2> QED
    BY <2>1, <2>2 DEF ClonesScrubbed
<1>2. Signing'
  <2> SUFFICES ASSUME NEW q \in Requests, pc'[q] = "sign"
               PROVE  auth'[q].token # NoToken /\ attempt'[q] \in Attempts
    BY DEF Signing
  <2>1. CASE q # r
    BY <2>1 DEF IInv, Signing, Moves, Others
  <2>2. CASE q = r
    <3>1. CASE Signs(r)
      <4>1. 1 \in Attempts
        BY EnrollmentAssumption DEF Attempts
      <4> QED
        BY <2>2, <3>1, <4>1 DEF Moves, KeepsToken, Signs
    <3>2. CASE Stays(r)
      <4>1. attempt[r] \in Attempts /\ auth[r].token # NoToken
        BY <3>2 DEF IInv, Signing, Stays
      <4>2. attempt[r] + 1 \in Attempts
        BY <3>2, <4>1, EnrollmentAssumption DEF Stays, Attempts
      <4> QED
        BY <2>2, <3>2, <4>1, <4>2 DEF Moves, KeepsToken, Stays
    <3> QED
      BY <2>2, <3>1, <3>2 DEF Moves, Still, Leaves
  <2> QED
    BY <2>1, <2>2
<1>3. HoldsOwnToken'
  <2> SUFFICES ASSUME NEW q \in Requests, auth'[q].token # NoToken
               PROVE  auth'[q].token \in OwnTokens(q)'
    BY DEF HoldsOwnToken
  <2>1. OwnTokens(q)' = OwnTokens(q)
    BY DEF OwnTokens, LoginsOf
  <2> QED
    BY <2>1 DEF IInv, HoldsOwnToken, Moves, Others, KeepsToken
<1> QED
  BY <1>1, <1>2, <1>3

(* A step adds no call but one of its own request, under its own token.    *)
LEMMA CallsStep ==
  ASSUME IInv, [Next]_vars
  PROVE  /\ UNCHANGED input
         /\ \/ issued' \cup late' \subseteq issued \cup late
            \/ \E r \in Requests :
                 /\ pc[r] = "sign"
                 /\ issued' \cup late' \subseteq
                      issued \cup late \cup {ThisCall(r)}
<1> USE DEF backendVars, faultVars, inputVars, handlerVars
<1>1. ASSUME NEW r \in Requests, SignGranted(r)
      PROVE  pc[r] = "sign" /\ UNCHANGED <<input, late>>
             /\ issued' = issued \cup {ThisCall(r)}
  BY <1>1 DEF SignGranted, Issue
<1>2. ASSUME NEW r \in Requests, SignRetried(r) \/ SignAbandoned(r)
      PROVE  pc[r] = "sign" /\ UNCHANGED input
             /\ issued' \subseteq issued \cup {ThisCall(r)}
             /\ late' \subseteq late \cup {ThisCall(r)}
  BY <1>2, UnansweredCalls DEF SignRetried, SignAbandoned
<1>3. ASSUME NEW call \in late, LateCall(call)
      PROVE  UNCHANGED input /\ issued' \cup late' \subseteq issued \cup late
  BY <1>3 DEF LateCall, Issue
<1>4. CASE UNCHANGED vars
  BY <1>4 DEF vars
<1>5. CASE \E r \in Requests : Disconnect(r)
  BY <1>5 DEF Disconnect
<1>6. CASE \E t \in Tokens : Revoke(t)
  BY <1>6 DEF Revoke
<1>7. ASSUME NEW r \in Requests, HandlerStep(r),
             ~SignGranted(r), ~SignRetried(r), ~SignAbandoned(r)
      PROVE  UNCHANGED <<input, issued, late>>
  BY <1>7
  DEF HandlerStep, Arrive, AuthAccepted, AuthRefused, AuthBroken,
      Unauthenticated, AcceptCSR, RejectBody, RejectSignature, MatchCertificate,
      GenerateKey, CloneClient, RejectPolicy, SignRefused, EncodeKey,
      WriteCertificate, WriteBroken
<1> QED
  BY <1>1, <1>2, <1>3, <1>4, <1>5, <1>6, <1>7 DEF Next, Finished

-------------------------------------------------------------------------------
(* The invariant is inductive.                                             *)
LEMMA StepIInv == IInv /\ [Next]_vars => IInv'
<1> SUFFICES ASSUME IInv, [Next]_vars PROVE IInv'
  OBVIOUS
<1>1. TypeOK'
  BY TypeStep
<1>2. ClonesScrubbed' /\ Signing' /\ HoldsOwnToken'
  <2>1. CASE \E r \in Requests : HandlerStep(r)
    BY <1>1, <2>1, HandlerMoves, CloneStep
  <2>2. CASE \A r \in Requests : ~HandlerStep(r)
    <3>1. UNCHANGED <<pc, auth, attempt, client, input>>
      BY <2>2, OthersStand
    <3> QED
      BY <3>1
      DEF IInv, ClonesScrubbed, Signing, HoldsOwnToken, OwnTokens, LoginsOf
  <2> QED
    BY <2>1, <2>2
<1>3. SignedUnderOwnToken'
  <2> SUFFICES ASSUME NEW call \in issued' \cup late'
               PROVE  call.token \in OwnTokens(call.req)'
    BY DEF SignedUnderOwnToken
  <2>1. OwnTokens(call.req)' = OwnTokens(call.req)
    BY CallsStep DEF OwnTokens, LoginsOf
  <2>2. CASE call \in issued \cup late
    BY <2>1, <2>2 DEF IInv, SignedUnderOwnToken
  <2>3. CASE call \notin issued \cup late
    <3>1. PICK r \in Requests : pc[r] = "sign" /\ call = ThisCall(r)
      BY <2>3, CallsStep
    <3> QED
      BY <2>1, <3>1, ThisCallOwn
  <2> QED
    BY <2>2, <2>3
<1> QED
  BY <1>1, <1>2, <1>3 DEF IInv

(* The invariant holds in every behaviour.                                 *)
LEMMA Invariant == Spec => []IInv
BY InitIInv, StepIInv, PTL DEF Spec

(* The handlers keep their state well typed: every status is one of those  *)
(* the code sends, no call is made without a token or beyond the attempts. *)
THEOREM TypeCorrect == Spec => []TypeOK
<1>1. IInv => TypeOK
  BY DEF IInv
<1> QED
  BY <1>1, Invariant, PTL

(* However many requests are in flight, whatever fails and is retried: no  *)
(* clone holds a token outside its signing call, none ever holds the token *)
(* of another request, and the service's own client keeps its token        *)
(* (processCSRSigning, cloneWithToken, Close).                             *)
THEOREM ClonesAlwaysScrubbed == Spec => []ClonesScrubbed
<1>1. IInv => ClonesScrubbed
  BY DEF IInv
<1> QED
  BY <1>1, Invariant, PTL

(* Every certificate the CA issues, also for a call that comes late, is    *)
(* signed under a token of the request it is for (processCSRSigning).      *)
THEOREM AlwaysSignedUnderOwnToken == Spec => []SignedUnderOwnToken
<1>1. IInv => SignedUnderOwnToken
  BY DEF IInv
<1> QED
  BY <1>1, Invariant, PTL
===============================================================================
