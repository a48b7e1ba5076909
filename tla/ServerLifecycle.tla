---------------------------- MODULE ServerLifecycle ----------------------------
(***************************************************************************)
(* How the process lives and dies: the main goroutine waits in             *)
(* Server.Start for a cancelled context or an error, one goroutine serves, *)
(* one looks at the server's certificate every hour and shuts down once it *)
(* has expired, and one waits for a signal. http.Server.Shutdown waits for *)
(* the requests in progress, for 30 seconds at most, and may be called     *)
(* twice at once. When Start returns, the process exits.                   *)
(***************************************************************************)
EXTENDS Integers

CONSTANTS
  Requests,   \* HTTP requests
  MaxHours    \* bound: the clock stops here

ASSUME LifecycleAssumption == MaxHours \in Nat

Hours == 0..MaxHours

VARIABLES
  tls,        \* TLS is configured (fixed)
  expires,    \* the hour at which the server's certificate expires (fixed)
  hour,       \* the clock
  ticked,     \* the monitor's ticker holds a tick
  cancelled,  \* a signal came and Start's context was cancelled
  main,       \* the main goroutine: in Start, or how the process ended
  serve,      \* the goroutine that serves
  monitor,    \* the goroutine that watches the certificate
  errChan,    \* the number of errors waiting for Start
  closing,    \* Shutdown was called
  overdue,    \* a Shutdown gave up on requests in progress
  request     \* request[r]: what became of r

fixedVars == <<tls, expires>>
clockVars == <<hour, ticked>>
vars == <<fixedVars, clockVars, cancelled, main, serve, monitor, errChan,
          closing, overdue, request>>

TypeOK ==
  /\ tls \in BOOLEAN
  /\ expires \in Hours
  /\ hour \in Hours
  /\ ticked \in BOOLEAN
  /\ cancelled \in BOOLEAN
  /\ main \in {"waiting", "draining", "exit0", "exit1"}
  /\ serve \in {"starting", "serving", "failing", "broken", "ended"}
  /\ monitor \in {"none", "waiting", "draining", "reporting", "ended"}
  /\ errChan \in 0..1
  /\ closing \in BOOLEAN
  /\ overdue \in BOOLEAN
  /\ request \in [Requests -> {"none", "active", "answered", "cut"}]

(* New refuses a certificate that has expired already.                     *)
Init ==
  /\ tls \in BOOLEAN
  /\ expires \in Hours \ {0}
  /\ hour = 0
  /\ ticked = FALSE
  /\ cancelled = FALSE
  /\ main = "waiting"
  /\ serve = "starting"
  /\ monitor = IF tls THEN "waiting" ELSE "none"
  /\ errChan = 0
  /\ closing = FALSE
  /\ overdue = FALSE
  /\ request = [r \in Requests |-> "none"]

Running == main \in {"waiting", "draining"}

Busy == \E r \in Requests : request[r] = "active"
-------------------------------------------------------------------------------
(* The serving goroutine. It opens its socket, or cannot...                *)
Listen ==
  /\ Running
  /\ serve = "starting"
  /\ \/ serve' = IF closing THEN "ended" ELSE "serving"
     \/ serve' = "failing"
  /\ UNCHANGED <<fixedVars, clockVars, cancelled, main, monitor, errChan,
                 closing, overdue, request>>

(* ... and serves until the socket fails or Shutdown closes it.            *)
ServeEnds ==
  /\ Running
  /\ serve = "serving"
  /\ serve' = IF closing THEN "ended" ELSE "failing"
  /\ UNCHANGED <<fixedVars, clockVars, cancelled, main, monitor, errChan,
                 closing, overdue, request>>

(* The error goes to Start; the channel holds one.                         *)
ReportServe ==
  /\ Running
  /\ serve = "failing"
  /\ errChan = 0
  /\ errChan' = 1
  /\ serve' = "broken"
  /\ UNCHANGED <<fixedVars, clockVars, cancelled, main, monitor, closing,
                 overdue, request>>

Accept(r) ==
  /\ Running
  /\ serve = "serving"
  /\ ~closing
  /\ request[r] = "none"
  /\ request' = [request EXCEPT ![r] = "active"]
  /\ UNCHANGED <<fixedVars, clockVars, cancelled, main, serve, monitor,
                 errChan, closing, overdue>>

Answer(r) ==
  /\ Running
  /\ request[r] = "active"
  /\ request' = [request EXCEPT ![r] = "answered"]
  /\ UNCHANGED <<fixedVars, clockVars, cancelled, main, serve, monitor,
                 errChan, closing, overdue>>
-------------------------------------------------------------------------------
(* The main goroutine. The process exits; requests in progress are cut.    *)
Exit(status) ==
  /\ main' = status
  /\ request' = [r \in Requests |->
                   IF request[r] = "active" THEN "cut" ELSE request[r]]

(* The first signal; nobody looks at a second one.                         *)
Signal ==
  /\ Running
  /\ ~cancelled
  /\ cancelled' = TRUE
  /\ UNCHANGED <<fixedVars, clockVars, main, serve, monitor, errChan, closing,
                 overdue, request>>

MainCancelled ==
  /\ main = "waiting"
  /\ cancelled
  /\ main' = "draining"
  /\ closing' = TRUE
  /\ UNCHANGED <<fixedVars, clockVars, cancelled, serve, monitor, errChan,
                 overdue, request>>

(* Mutant of Drained: Shutdown does not wait for anything.                 *)
Drained_AtOnce == TRUE

(* http.Server.Shutdown has waited for the requests in progress.           *)
Drained == ~Busy

MainDrained ==
  /\ main = "draining"
  /\ Drained
  /\ Exit("exit0")
  /\ UNCHANGED <<fixedVars, clockVars, cancelled, serve, monitor, errChan,
                 closing, overdue>>

(* Mutant of OverdueExit: the error of Shutdown is dropped.                *)
OverdueExit_Ignored == Exit("exit0")

OverdueExit == Exit("exit1")

(* 30 seconds are over: Shutdown returns an error, and so does Start.      *)
MainOverdue ==
  /\ main = "draining"
  /\ Busy
  /\ overdue' = TRUE
  /\ OverdueExit
  /\ UNCHANGED <<fixedVars, clockVars, cancelled, serve, monitor, errChan,
                 closing>>

(* select may prefer the error to the cancelled context.                   *)
MainError ==
  /\ main = "waiting"
  /\ errChan > 0
  /\ errChan' = errChan - 1
  /\ Exit("exit1")
  /\ UNCHANGED <<fixedVars, clockVars, cancelled, serve, monitor, closing,
                 overdue>>
-------------------------------------------------------------------------------
(* The certificate monitor.                                                *)

(* Mutant of Expired: the certificate is taken for good for an hour more.  *)
Expired_Late == hour > expires

(* checkCertificateExpiry                                                  *)
Expired == hour >= expires

MonitorCheck ==
  /\ Running
  /\ monitor = "waiting"
  /\ ticked
  /\ ticked' = FALSE
  /\ IF Expired
       THEN /\ monitor' = "draining"
            /\ closing' = TRUE
       ELSE UNCHANGED <<monitor, closing>>
  /\ UNCHANGED <<fixedVars, hour, cancelled, main, serve, errChan, overdue,
                 request>>

(* Its Shutdown returns: all is drained, or 30 seconds are over.           *)
MonitorDrained ==
  /\ Running
  /\ monitor = "draining"
  /\ \/ Drained /\ UNCHANGED overdue
     \/ Busy /\ overdue' = TRUE
  /\ monitor' = "reporting"
  /\ UNCHANGED <<fixedVars, clockVars, cancelled, main, serve, errChan,
                 closing, request>>

(* Mutant of Tell: the monitor leaves it at closing the socket.            *)
Tell_Nobody == UNCHANGED errChan

(* Mutant of Tell: the channel is taken to have room for one more.         *)
Tell_Always == errChan' = errChan + 1

(* The error is dropped when another one is waiting.                       *)
Tell == errChan' = 1

MonitorReport ==
  /\ Running
  /\ monitor = "reporting"
  /\ Tell
  /\ monitor' = "ended"
  /\ UNCHANGED <<fixedVars, clockVars, cancelled, main, serve, closing,
                 overdue, request>>

MonitorCancelled ==
  /\ Running
  /\ monitor = "waiting"
  /\ cancelled
  /\ monitor' = "ended"
  /\ UNCHANGED <<fixedVars, clockVars, cancelled, main, serve, errChan,
                 closing, overdue, request>>

(* What a goroutine need not wait for, it does within the hour: the        *)
(* monitor looks at the tick, Start at the cancelled context.              *)
Prompt ==
  /\ ~(ticked /\ monitor = "waiting")
  /\ ~(cancelled /\ main = "waiting")

(* An hour passes.                                                         *)
Tick ==
  /\ Running
  /\ hour < MaxHours
  /\ Prompt
  /\ hour' = hour + 1
  /\ ticked' = TRUE
  /\ UNCHANGED <<fixedVars, cancelled, main, serve, monitor, errChan, closing,
                 overdue, request>>
-------------------------------------------------------------------------------
Serving == Listen \/ ServeEnds \/ ReportServe

Start == MainCancelled \/ MainDrained \/ MainOverdue \/ MainError

Monitoring == MonitorCheck \/ MonitorDrained \/ MonitorReport \/ MonitorCancelled

Stopped == ~Running /\ UNCHANGED vars

Next ==
  \/ Serving
  \/ \E r \in Requests : Accept(r) \/ Answer(r)
  \/ Signal
  \/ Start
  \/ Monitoring
  \/ Tick
  \/ Stopped

(* Goroutines run, a Shutdown ends after 30 seconds, and time goes on. The *)
(* socket need not fail, no signal need come, no request need be answered. *)
Fairness ==
  /\ WF_vars(Listen \/ ReportServe)
  /\ WF_vars(Start)
  /\ WF_vars(Monitoring)
  /\ WF_vars(Tick)

Spec == Init /\ [][Next]_vars /\ Fairness
-------------------------------------------------------------------------------
(***************************************************************************)
(* Properties.                                                             *)
(***************************************************************************)

(* README.md, "Graceful Shutdown - Clean connection draining": whether a   *)
(* signal, the certificate or both at once stop the server, a request in   *)
(* progress is cut only after a Shutdown has waited its 30 seconds, or     *)
(* when the socket fails: then Start returns without a Shutdown.           *)
CutOnlyWhenOverdue ==
  (\E r \in Requests : request[r] = "cut") =>
    overdue \/ serve \in {"failing", "broken"}

(* The exit status tells the truth: 0 only if a signal stopped the process *)
(* and every request was answered, 1 only if the socket failed, the        *)
(* certificate expired or requests were cut (Start, main).                 *)
ExitTruthful ==
  /\ main = "exit0" =>
       /\ cancelled
       /\ \A r \in Requests : request[r] \in {"none", "answered"}
  /\ main = "exit1" =>
       overdue \/ serve \in {"failing", "broken"} \/ (tls /\ hour >= expires)

(* No request is accepted under a certificate that has been invalid for    *)
(* more than an hour (the monitor in Start).                               *)
AcceptedBeforeExpiry ==
  [][\A r \in Requests :
       request[r] = "none" /\ request'[r] = "active" /\ tls => hour <= expires]_vars

(* A signal stops the process, whatever else is going on, and so does the  *)
(* end of the certificate (Start, Shutdown).                               *)
AlwaysStops == (cancelled \/ (tls /\ hour >= expires)) ~> ~Running
===============================================================================
