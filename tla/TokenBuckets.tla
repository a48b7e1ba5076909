----------------------------- MODULE TokenBuckets -----------------------------
(***************************************************************************)
(* What the rate limiter promises, without a map, a mutex or a sweeper:    *)
(* every client has one bucket for ever. A request is admitted if it finds *)
(* a token in the bucket of its own client, and rejected only if there is  *)
(* none; in a unit of time each bucket regains Rate tokens, up to Burst.   *)
(*                                                                         *)
(* The limiter promises less to a client with stragglers, requests that    *)
(* were held up on their way to their bucket: what that client has left is *)
(* Unknown from then on.                                                   *)
(***************************************************************************)
EXTENDS Integers

CONSTANTS
  Requests,      \* HTTP requests
  Clients,       \* what may name a client
  Rate,          \* tokens a bucket regains in a unit of time
  Burst          \* size of a bucket

VARIABLES
  client,        \* client[r]: who sent r (fixed)
  verdict,       \* verdict[r]: what became of r
  level          \* level[c]: the tokens in the bucket of c, or Unknown

vars == <<client, verdict, level>>

Unknown == -1

TypeOK ==
  /\ client \in [Requests -> Clients]
  /\ verdict \in [Requests -> {"none", "admitted", "rejected"}]
  /\ level \in [Clients -> 0..Burst \cup {Unknown}]

Init ==
  /\ client \in [Requests -> Clients]
  /\ verdict = [r \in Requests |-> "none"]
  /\ level \in [Clients -> {Burst, Unknown}]

Admit(r) ==
  LET c == client[r]
  IN  /\ verdict[r] = "none"
      /\ verdict' = [verdict EXCEPT ![r] = "admitted"]
      /\ \/ level[c] = Unknown /\ UNCHANGED level
         \/ level[c] >= 1 /\ level' = [level EXCEPT ![c] = @ - 1]
      /\ UNCHANGED client

Reject(r) ==
  /\ verdict[r] = "none"
  /\ level[client[r]] \in {0, Unknown}
  /\ verdict' = [verdict EXCEPT ![r] = "rejected"]
  /\ UNCHANGED <<client, level>>

(* A straggler may find any bucket its client ever had.                    *)
Stray(r) ==
  /\ verdict[r] = "none"
  /\ \E v \in {"admitted", "rejected"} : verdict' = [verdict EXCEPT ![r] = v]
  /\ level' = [level EXCEPT ![client[r]] = Unknown]
  /\ UNCHANGED client

Refilled(n) ==
  IF n = Unknown THEN Unknown
  ELSE IF n + Rate > Burst THEN Burst ELSE n + Rate

Refill ==
  /\ level' = [c \in Clients |-> Refilled(level[c])]
  /\ UNCHANGED <<client, verdict>>

Next ==
  \/ \E r \in Requests : Admit(r) \/ Reject(r) \/ Stray(r)
  \/ Refill

Spec == Init /\ [][Next]_vars
===============================================================================
