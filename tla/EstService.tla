------------------------------ MODULE EstService ------------------------------
(***************************************************************************)
(* What the enrollment endpoints promise, without saying how: a request is *)
(* answered at most once, a certificate is only ever issued for a request  *)
(* that deserves one, each request costs the CA a bounded number of        *)
(* certificates, and a client that is told "here is your certificate"      *)
(* gets one that the CA really issued for that very request.               *)
(*                                                                         *)
(* A certificate may be issued for a request that was already refused: the *)
(* CA may perform a call the service has stopped waiting for.              *)
(***************************************************************************)
EXTENDS Integers

CONSTANTS
  Requests,      \* HTTP requests to the enrollment endpoints
  MaxIssued      \* certificates one request may cost the CA

VARIABLES
  deserving,     \* the requests that may be granted a certificate (fixed)
  answer,        \* answer[r]: what the client of r was told
  certs          \* certs[r]: serial numbers the CA issued for r

Answers == {"none", "certificate", "refused", "cut"}

vars == <<deserving, answer, certs>>

TypeOK ==
  /\ deserving \subseteq Requests
  /\ answer \in [Requests -> Answers]
  /\ certs \in [Requests -> SUBSET (1..MaxIssued)]

Init ==
  /\ deserving \in SUBSET Requests
  /\ answer = [r \in Requests |-> "none"]
  /\ certs = [r \in Requests |-> {}]

(* The CA issues one more certificate for r.                               *)
Issue(r) ==
  /\ r \in deserving
  /\ \E n \in 1..MaxIssued : /\ n \notin certs[r]
                             /\ certs' = [certs EXCEPT ![r] = @ \cup {n}]
  /\ UNCHANGED <<deserving, answer>>

Deliver(r) ==
  /\ answer[r] = "none"
  /\ certs[r] # {}
  /\ answer' = [answer EXCEPT ![r] = "certificate"]
  /\ UNCHANGED <<deserving, certs>>

(* An error status. The last call to the CA may have issued a certificate  *)
(* in the same step that the service learns of its failure.                *)
Refuse(r) ==
  /\ answer[r] = "none"
  /\ answer' = [answer EXCEPT ![r] = "refused"]
  /\ \/ UNCHANGED certs
     \/ /\ r \in deserving
        /\ \E n \in 1..MaxIssued : certs' = [certs EXCEPT ![r] = @ \cup {n}]
  /\ UNCHANGED deserving

(* The answer was begun and the connection failed under it.                *)
Cut(r) ==
  /\ answer[r] = "none"
  /\ certs[r] # {}
  /\ answer' = [answer EXCEPT ![r] = "cut"]
  /\ UNCHANGED <<deserving, certs>>

Next == \E r \in Requests : Issue(r) \/ Deliver(r) \/ Refuse(r) \/ Cut(r)

Spec == Init /\ [][Next]_vars
===============================================================================
