--------------------------------- MODULE Health --------------------------------
(***************************************************************************)
(* What /health, /ready and /health/deep make of one reply of the backend  *)
(* and of the server's certificate.                                        *)
(***************************************************************************)
EXTENDS Integers

Endpoints == {"health", "ready", "deep"}

(* What the backend is: it does not answer, it is sealed, it was never     *)
(* initialized, or it is at work.                                          *)
Replies == {"error", "sealed", "uninitialized", "active"}

(* Seconds an endpoint waits for the backend.                              *)
Patience == [e \in Endpoints |-> IF e = "ready" THEN 2 ELSE 5]

Reached(e, reply, seconds) == reply # "error" /\ seconds <= Patience[e]

(* Whole days until the certificate ends, truncated towards zero.          *)
Days(hours) == IF hours >= 0 THEN hours \div 24 ELSE -((-hours) \div 24)

(* Mutant of CertStatus: the days are rounded up.                          *)
CertStatus_RoundedUp(hours) ==
  LET days == Days(hours + 23)
  IN  CASE days < 0 -> "expired"
        [] days \in 0..6 -> "critical"
        [] days \in 7..29 -> "warning"
        [] days >= 30 -> "ok"

CertStatus(hours) ==
  CASE Days(hours) < 0 -> "expired"
    [] Days(hours) \in 0..6 -> "critical"
    [] Days(hours) \in 7..29 -> "warning"
    [] Days(hours) >= 30 -> "ok"

(* checkCertificateExpiry works with fractions of days.                    *)
MonitorStatus(hours) ==
  CASE hours < 0 -> "expired"
    [] hours \in 0..(7 * 24 - 1) -> "critical"
    [] hours \in (7 * 24)..(30 * 24 - 1) -> "warning"
    [] hours >= 30 * 24 -> "ok"

(* The verdict of /health/deep on the backend ...                          *)
BackendStatus(reply, seconds) ==
  CASE ~Reached("deep", reply, seconds) \/ reply = "sealed" -> "unhealthy"
    [] Reached("deep", reply, seconds) /\ reply = "uninitialized" -> "degraded"
    [] Reached("deep", reply, seconds) /\ reply = "active" ->
         IF seconds > 1 THEN "degraded" ELSE "healthy"

(* ... and on the service as a whole.                                      *)
Overall(reply, seconds, tls, hours) ==
  LET backend == BackendStatus(reply, seconds)
  IN  IF backend = "healthy" /\ tls /\ CertStatus(hours) \in {"expired", "critical"}
      THEN "degraded"
      ELSE backend

(* Mutant of StatusCode: a degraded service has a status of its own.       *)
StatusCode_Degraded(e, reply, seconds, tls, hours) ==
  IF e = "deep" /\ Overall(reply, seconds, tls, hours) = "degraded" THEN 207
  ELSE IF Reached(e, reply, seconds) /\ reply # "sealed" THEN 200
  ELSE 503

(* /health and /ready need a backend that answers and is not sealed;       *)
(* /health/deep says 503 only if it is unhealthy.                          *)
StatusCode(e, reply, seconds, tls, hours) ==
  LET good == IF e = "deep"
              THEN Overall(reply, seconds, tls, hours) # "unhealthy"
              ELSE Reached(e, reply, seconds) /\ reply # "sealed"
  IN  IF good THEN 200 ELSE 503
===============================================================================
