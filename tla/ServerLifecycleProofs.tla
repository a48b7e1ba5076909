------------------------- MODULE ServerLifecycleProofs -------------------------
(***************************************************************************)
(* What holds of the server's life for any requests and any certificate.   *)
(* The invariant relates what the goroutines know to what has happened:    *)
(* an error that waits for Start has a cause, and the Shutdown behind it,  *)
(* if there was one, is over.                                              *)
(***************************************************************************)
EXTENDS ServerLifecycle, TLAPS

(* Only the end of the process cuts requests.                              *)
NoneCutYet == Running => \A r \in Requests : request[r] # "cut"

(* Whoever is in a Shutdown has closed the socket, for a reason.           *)
ClosedForAReason ==
  /\ main = "draining" => closing /\ cancelled
  /\ monitor \in {"draining", "reporting"} => closing /\ tls /\ hour >= expires
  /\ monitor = "none" <=> ~tls
  /\ monitor = "ended" => closing \/ cancelled

(* The monitor's Shutdown has drained the requests, or given up.           *)
ReportsWhenDrained == monitor = "reporting" => overdue \/ ~Busy

(* So has the one behind an error, unless it is the socket's.              *)
ErrorHasCause ==
  errChan > 0 =>
    \/ serve = "broken"
    \/ tls /\ hour >= expires /\ closing /\ (overdue \/ ~Busy)

(* The end of the certificate is not missed for longer than an hour.       *)
Watched ==
  Running /\ tls /\ hour >= expires =>
    closing \/ (ticked /\ monitor = "waiting") \/ (cancelled /\ main = "waiting")

NotLate == Running /\ tls /\ hour > expires => closing

IInv ==
  /\ TypeOK
  /\ NoneCutYet
  /\ ClosedForAReason
  /\ ReportsWhenDrained
  /\ ErrorHasCause
  /\ Watched
  /\ NotLate
  /\ CutOnlyWhenOverdue
  /\ ExitTruthful
-------------------------------------------------------------------------------
LEMMA InitIInv == Init => IInv
<1> SUFFICES ASSUME Init PROVE IInv
  OBVIOUS
<1> USE LifecycleAssumption DEF Init, Running
<1>1. TypeOK
  <2>1. hour \in Hours /\ expires \in Hours
    BY DEF Hours
  <2>2. monitor \in {"waiting", "none"}
    OBVIOUS
  <2>3. /\ tls \in BOOLEAN
        /\ ticked \in BOOLEAN /\ cancelled \in BOOLEAN
        /\ closing \in BOOLEAN /\ overdue \in BOOLEAN
    BY Zenon
  <2>4. request \in [Requests -> {"none", "active", "answered", "cut"}]
    OBVIOUS
  <2> QED
    BY <2>1, <2>2, <2>3, <2>4 DEF TypeOK
<1>2. NoneCutYet /\ ClosedForAReason /\ ReportsWhenDrained
  BY DEF NoneCutYet, ClosedForAReason, ReportsWhenDrained
<1>3. ErrorHasCause
  BY DEF ErrorHasCause
<1>4. Watched /\ NotLate
  BY DEF Watched, NotLate, Hours
<1>5. CutOnlyWhenOverdue /\ ExitTruthful
  BY DEF CutOnlyWhenOverdue, ExitTruthful
<1> QED
  BY <1>1, <1>2, <1>3, <1>4, <1>5 DEF IInv

LEMMA TypeStep == TypeOK /\ [Next]_vars => TypeOK'
<1> SUFFICES ASSUME TypeOK, [Next]_vars PROVE TypeOK'
  OBVIOUS
<1> USE LifecycleAssumption DEF TypeOK, Hours
<1>1. CASE Serving
  BY <1>1 DEF Serving, Listen, ServeEnds, ReportServe, fixedVars, clockVars
<1>2. ASSUME NEW r \in Requests, Accept(r) \/ Answer(r) PROVE TypeOK'
  BY <1>2 DEF Accept, Answer, fixedVars, clockVars
<1>3. CASE Signal
  BY <1>3 DEF Signal, fixedVars, clockVars
<1>4. CASE Start
  <2>1. CASE MainCancelled
    BY <2>1 DEF MainCancelled, fixedVars, clockVars
  <2>2. CASE MainDrained
    BY <2>2 DEF MainDrained, Exit, fixedVars, clockVars
  <2>3. CASE MainOverdue
    BY <2>3 DEF MainOverdue, OverdueExit, Exit, fixedVars, clockVars
  <2>4. CASE MainError
    BY <2>4 DEF MainError, Exit, fixedVars, clockVars
  <2> QED
    BY <1>4, <2>1, <2>2, <2>3, <2>4 DEF Start
<1>5. CASE Monitoring
  <2>1. CASE MonitorCheck
    BY <2>1 DEF MonitorCheck, fixedVars, clockVars
  <2>2. CASE MonitorDrained
    BY <2>2 DEF MonitorDrained, fixedVars, clockVars
  <2>3. CASE MonitorReport
    BY <2>3 DEF MonitorReport, Tell, fixedVars, clockVars
  <2>4. CASE MonitorCancelled
    BY <2>4 DEF MonitorCancelled, fixedVars, clockVars
  <2> QED
    BY <1>5, <2>1, <2>2, <2>3, <2>4 DEF Monitoring
<1>6. CASE Tick
  BY <1>6 DEF Tick, fixedVars
<1>7. CASE UNCHANGED vars
  BY <1>7 DEF vars, fixedVars, clockVars
<1> QED
  BY <1>1, <1>2, <1>3, <1>4, <1>5, <1>6, <1>7 DEF Next, Stopped

(* Only Exit cuts, and it ends the process.                                *)
LEMMA NoneCutStep == IInv /\ [Next]_vars => NoneCutYet'
<1> SUFFICES ASSUME IInv, [Next]_vars PROVE NoneCutYet'
  OBVIOUS
<1> USE DEF IInv, TypeOK, NoneCutYet, Running, Busy, fixedVars, clockVars
<1>1. CASE Listen
  BY <1>1 DEF Listen
<1>2. CASE ServeEnds
  BY <1>2 DEF ServeEnds
<1>3. CASE ReportServe
  BY <1>3 DEF ReportServe
<1>4. CASE Signal
  BY <1>4 DEF Signal
<1>5. CASE MainCancelled
  BY <1>5 DEF MainCancelled
<1>6. CASE MainDrained
  BY <1>6 DEF MainDrained, Drained, Exit
<1>7. CASE MainOverdue
  BY <1>7 DEF MainOverdue, OverdueExit, Exit
<1>8. CASE MainError
  BY <1>8 DEF MainError, Exit
<1>9. CASE MonitorCheck
  BY <1>9 DEF MonitorCheck, Expired
<1>10. CASE MonitorDrained
  BY <1>10 DEF MonitorDrained, Drained
<1>11. CASE MonitorReport
  BY <1>11 DEF MonitorReport, Tell
<1>12. CASE MonitorCancelled
  BY <1>12 DEF MonitorCancelled
<1>13. CASE Tick
  BY <1>13 DEF Tick, Prompt, Hours
<1>14. ASSUME NEW r \in Requests, Accept(r) PROVE NoneCutYet'
  BY <1>14 DEF Accept
<1>15. ASSUME NEW r \in Requests, Answer(r) PROVE NoneCutYet'
  BY <1>15 DEF Answer
<1>16. CASE UNCHANGED vars
  BY <1>16 DEF vars
<1> QED
  BY <1>1, <1>2, <1>3, <1>4, <1>5, <1>6, <1>7, <1>8, <1>9, <1>10, <1>11, <1>12, <1>13, <1>14, <1>15, <1>16 DEF Next, Serving, Start, Monitoring, Stopped

(* A Shutdown begins by closing the socket, and the clock does not go back. *)
LEMMA ReasonStep == IInv /\ [Next]_vars => ClosedForAReason'
<1> SUFFICES ASSUME IInv, [Next]_vars PROVE ClosedForAReason'
  OBVIOUS
<1> USE DEF IInv, TypeOK, ClosedForAReason, Running, Busy, fixedVars, clockVars
<1>1. CASE Listen
  BY <1>1 DEF Listen
<1>2. CASE ServeEnds
  BY <1>2 DEF ServeEnds
<1>3. CASE ReportServe
  BY <1>3 DEF ReportServe
<1>4. CASE Signal
  BY <1>4 DEF Signal
<1>5. CASE MainCancelled
  BY <1>5 DEF MainCancelled
<1>6. CASE MainDrained
  BY <1>6 DEF MainDrained, Drained, Exit
<1>7. CASE MainOverdue
  BY <1>7 DEF MainOverdue, OverdueExit, Exit
<1>8. CASE MainError
  BY <1>8 DEF MainError, Exit
<1>9. CASE MonitorCheck
  BY <1>9 DEF MonitorCheck, Expired
<1>10. CASE MonitorDrained
  BY <1>10 DEF MonitorDrained, Drained
<1>11. CASE MonitorReport
  BY <1>11 DEF MonitorReport, Tell
<1>12. CASE MonitorCancelled
  BY <1>12 DEF MonitorCancelled
<1>13. CASE Tick
  BY <1>13 DEF Tick, Prompt, Hours
<1>14. ASSUME NEW r \in Requests, Accept(r) PROVE ClosedForAReason'
  BY <1>14 DEF Accept
<1>15. ASSUME NEW r \in Requests, Answer(r) PROVE ClosedForAReason'
  BY <1>15 DEF Answer
<1>16. CASE UNCHANGED vars
  BY <1>16 DEF vars
<1> QED
  BY <1>1, <1>2, <1>3, <1>4, <1>5, <1>6, <1>7, <1>8, <1>9, <1>10, <1>11, <1>12, <1>13, <1>14, <1>15, <1>16 DEF Next, Serving, Start, Monitoring, Stopped

(* No request is accepted once the socket is closed.                       *)
LEMMA ReportStep == IInv /\ [Next]_vars => ReportsWhenDrained'
<1> SUFFICES ASSUME IInv, [Next]_vars PROVE ReportsWhenDrained'
  OBVIOUS
<1> USE DEF IInv, TypeOK, ReportsWhenDrained, Running, Busy, fixedVars, clockVars, ClosedForAReason
<1>1. CASE Listen
  BY <1>1 DEF Listen
<1>2. CASE ServeEnds
  BY <1>2 DEF ServeEnds
<1>3. CASE ReportServe
  BY <1>3 DEF ReportServe
<1>4. CASE Signal
  BY <1>4 DEF Signal
<1>5. CASE MainCancelled
  BY <1>5 DEF MainCancelled
<1>6. CASE MainDrained
  BY <1>6 DEF MainDrained, Drained, Exit
<1>7. CASE MainOverdue
  BY <1>7 DEF MainOverdue, OverdueExit, Exit
<1>8. CASE MainError
  BY <1>8 DEF MainError, Exit
<1>9. CASE MonitorCheck
  BY <1>9 DEF MonitorCheck, Expired
<1>10. CASE MonitorDrained
  BY <1>10 DEF MonitorDrained, Drained
<1>11. CASE MonitorReport
  BY <1>11 DEF MonitorReport, Tell
<1>12. CASE MonitorCancelled
  BY <1>12 DEF MonitorCancelled
<1>13. CASE Tick
  BY <1>13 DEF Tick, Prompt, Hours
<1>14. ASSUME NEW r \in Requests, Accept(r) PROVE ReportsWhenDrained'
  BY <1>14 DEF Accept
<1>15. ASSUME NEW r \in Requests, Answer(r) PROVE ReportsWhenDrained'
  BY <1>15 DEF Answer
<1>16. CASE UNCHANGED vars
  BY <1>16 DEF vars
<1> QED
  BY <1>1, <1>2, <1>3, <1>4, <1>5, <1>6, <1>7, <1>8, <1>9, <1>10, <1>11, <1>12, <1>13, <1>14, <1>15, <1>16 DEF Next, Serving, Start, Monitoring, Stopped

(* An error is sent by the socket's goroutine or by the monitor.           *)
LEMMA ErrorStep == IInv /\ [Next]_vars => ErrorHasCause'
<1> SUFFICES ASSUME IInv, [Next]_vars PROVE ErrorHasCause'
  OBVIOUS
<1> USE DEF IInv, TypeOK, ErrorHasCause, Running, Busy, fixedVars, clockVars, ClosedForAReason, ReportsWhenDrained
<1>1. CASE Listen
  BY <1>1 DEF Listen
<1>2. CASE ServeEnds
  BY <1>2 DEF ServeEnds
<1>3. CASE ReportServe
  BY <1>3 DEF ReportServe
<1>4. CASE Signal
  BY <1>4 DEF Signal
<1>5. CASE MainCancelled
  BY <1>5 DEF MainCancelled
<1>6. CASE MainDrained
  BY <1>6 DEF MainDrained, Drained, Exit
<1>7. CASE MainOverdue
  BY <1>7 DEF MainOverdue, OverdueExit, Exit
<1>8. CASE MainError
  BY <1>8 DEF MainError, Exit
<1>9. CASE MonitorCheck
  BY <1>9 DEF MonitorCheck, Expired
<1>10. CASE MonitorDrained
  BY <1>10 DEF MonitorDrained, Drained
<1>11. CASE MonitorReport
  BY <1>11 DEF MonitorReport, Tell
<1>12. CASE MonitorCancelled
  BY <1>12 DEF MonitorCancelled
<1>13. CASE Tick
  BY <1>13 DEF Tick, Prompt, Hours
<1>14. ASSUME NEW r \in Requests, Accept(r) PROVE ErrorHasCause'
  BY <1>14 DEF Accept
<1>15. ASSUME NEW r \in Requests, Answer(r) PROVE ErrorHasCause'
  BY <1>15 DEF Answer
<1>16. CASE UNCHANGED vars
  BY <1>16 DEF vars
<1> QED
  BY <1>1, <1>2, <1>3, <1>4, <1>5, <1>6, <1>7, <1>8, <1>9, <1>10, <1>11, <1>12, <1>13, <1>14, <1>15, <1>16 DEF Next, Serving, Start, Monitoring, Stopped

(* Each hour leaves a tick, which the monitor takes before the next.       *)
LEMMA WatchedStep == IInv /\ [Next]_vars => Watched'
<1> SUFFICES ASSUME IInv, [Next]_vars PROVE Watched'
  OBVIOUS
<1> USE DEF IInv, TypeOK, Watched, Running, Busy, fixedVars, clockVars, ClosedForAReason
<1>1. CASE Listen
  BY <1>1 DEF Listen
<1>2. CASE ServeEnds
  BY <1>2 DEF ServeEnds
<1>3. CASE ReportServe
  BY <1>3 DEF ReportServe
<1>4. CASE Signal
  BY <1>4 DEF Signal
<1>5. CASE MainCancelled
  BY <1>5 DEF MainCancelled
<1>6. CASE MainDrained
  BY <1>6 DEF MainDrained, Drained, Exit
<1>7. CASE MainOverdue
  BY <1>7 DEF MainOverdue, OverdueExit, Exit
<1>8. CASE MainError
  BY <1>8 DEF MainError, Exit
<1>9. CASE MonitorCheck
  BY <1>9 DEF MonitorCheck, Expired
<1>10. CASE MonitorDrained
  BY <1>10 DEF MonitorDrained, Drained
<1>11. CASE MonitorReport
  BY <1>11 DEF MonitorReport, Tell
<1>12. CASE MonitorCancelled
  BY <1>12 DEF MonitorCancelled
<1>13. CASE Tick
  BY <1>13 DEF Tick, Prompt, Hours
<1>14. ASSUME NEW r \in Requests, Accept(r) PROVE Watched'
  BY <1>14 DEF Accept
<1>15. ASSUME NEW r \in Requests, Answer(r) PROVE Watched'
  BY <1>15 DEF Answer
<1>16. CASE UNCHANGED vars
  BY <1>16 DEF vars
<1> QED
  BY <1>1, <1>2, <1>3, <1>4, <1>5, <1>6, <1>7, <1>8, <1>9, <1>10, <1>11, <1>12, <1>13, <1>14, <1>15, <1>16 DEF Next, Serving, Start, Monitoring, Stopped

(* An hour after the end of the certificate the tick has been taken.       *)
LEMMA NotLateStep == IInv /\ [Next]_vars => NotLate'
<1> SUFFICES ASSUME IInv, [Next]_vars PROVE NotLate'
  OBVIOUS
<1> USE DEF IInv, TypeOK, NotLate, Running, Busy, fixedVars, clockVars, Watched, ClosedForAReason
<1>1. CASE Listen
  BY <1>1 DEF Listen
<1>2. CASE ServeEnds
  BY <1>2 DEF ServeEnds
<1>3. CASE ReportServe
  BY <1>3 DEF ReportServe
<1>4. CASE Signal
  BY <1>4 DEF Signal
<1>5. CASE MainCancelled
  BY <1>5 DEF MainCancelled
<1>6. CASE MainDrained
  BY <1>6 DEF MainDrained, Drained, Exit
<1>7. CASE MainOverdue
  BY <1>7 DEF MainOverdue, OverdueExit, Exit
<1>8. CASE MainError
  BY <1>8 DEF MainError, Exit
<1>9. CASE MonitorCheck
  BY <1>9 DEF MonitorCheck, Expired
<1>10. CASE MonitorDrained
  BY <1>10 DEF MonitorDrained, Drained
<1>11. CASE MonitorReport
  BY <1>11 DEF MonitorReport, Tell
<1>12. CASE MonitorCancelled
  BY <1>12 DEF MonitorCancelled
<1>13. CASE Tick
  BY <1>13 DEF Tick, Prompt, Hours
<1>14. ASSUME NEW r \in Requests, Accept(r) PROVE NotLate'
  BY <1>14 DEF Accept
<1>15. ASSUME NEW r \in Requests, Answer(r) PROVE NotLate'
  BY <1>15 DEF Answer
<1>16. CASE UNCHANGED vars
  BY <1>16 DEF vars
<1> QED
  BY <1>1, <1>2, <1>3, <1>4, <1>5, <1>6, <1>7, <1>8, <1>9, <1>10, <1>11, <1>12, <1>13, <1>14, <1>15, <1>16 DEF Next, Serving, Start, Monitoring, Stopped

(* What Exit cuts was in progress when no Shutdown had drained it.         *)
LEMMA CutStep == IInv /\ [Next]_vars => CutOnlyWhenOverdue'
<1> SUFFICES ASSUME IInv, [Next]_vars PROVE CutOnlyWhenOverdue'
  OBVIOUS
<1> USE DEF IInv, TypeOK, CutOnlyWhenOverdue, Running, Busy, fixedVars, clockVars, ErrorHasCause, NoneCutYet
<1>1. CASE Listen
  BY <1>1 DEF Listen
<1>2. CASE ServeEnds
  BY <1>2 DEF ServeEnds
<1>3. CASE ReportServe
  BY <1>3 DEF ReportServe
<1>4. CASE Signal
  BY <1>4 DEF Signal
<1>5. CASE MainCancelled
  BY <1>5 DEF MainCancelled
<1>6. CASE MainDrained
  BY <1>6 DEF MainDrained, Drained, Exit
<1>7. CASE MainOverdue
  BY <1>7 DEF MainOverdue, OverdueExit, Exit
<1>8. CASE MainError
  BY <1>8 DEF MainError, Exit
<1>9. CASE MonitorCheck
  BY <1>9 DEF MonitorCheck, Expired
<1>10. CASE MonitorDrained
  BY <1>10 DEF MonitorDrained, Drained
<1>11. CASE MonitorReport
  BY <1>11 DEF MonitorReport, Tell
<1>12. CASE MonitorCancelled
  BY <1>12 DEF MonitorCancelled
<1>13. CASE Tick
  BY <1>13 DEF Tick, Prompt, Hours
<1>14. ASSUME NEW r \in Requests, Accept(r) PROVE CutOnlyWhenOverdue'
  BY <1>14 DEF Accept
<1>15. ASSUME NEW r \in Requests, Answer(r) PROVE CutOnlyWhenOverdue'
  BY <1>15 DEF Answer
<1>16. CASE UNCHANGED vars
  BY <1>16 DEF vars
<1> QED
  BY <1>1, <1>2, <1>3, <1>4, <1>5, <1>6, <1>7, <1>8, <1>9, <1>10, <1>11, <1>12, <1>13, <1>14, <1>15, <1>16 DEF Next, Serving, Start, Monitoring, Stopped

(* The process exits with the status that fits the reason.                *)
LEMMA ExitStep == IInv /\ [Next]_vars => ExitTruthful'
<1> SUFFICES ASSUME IInv, [Next]_vars PROVE ExitTruthful'
  OBVIOUS
<1> USE DEF IInv, TypeOK, ExitTruthful, Running, Busy, fixedVars, clockVars, ErrorHasCause, ClosedForAReason, NoneCutYet, Drained, Hours
<1>1. CASE Listen
  BY <1>1 DEF Listen
<1>2. CASE ServeEnds
  BY <1>2 DEF ServeEnds
<1>3. CASE ReportServe
  BY <1>3 DEF ReportServe
<1>4. CASE Signal
  BY <1>4 DEF Signal
<1>5. CASE MainCancelled
  BY <1>5 DEF MainCancelled
<1>6. CASE MainDrained
  BY <1>6 DEF MainDrained, Drained, Exit
<1>7. CASE MainOverdue
  BY <1>7 DEF MainOverdue, OverdueExit, Exit
<1>8. CASE MainError
  BY <1>8 DEF MainError, Exit
<1>9. CASE MonitorCheck
  BY <1>9 DEF MonitorCheck, Expired
<1>10. CASE MonitorDrained
  BY <1>10 DEF MonitorDrained, Drained
<1>11. CASE MonitorReport
  BY <1>11 DEF MonitorReport, Tell
<1>12. CASE MonitorCancelled
  BY <1>12 DEF MonitorCancelled
<1>13. CASE Tick
  BY <1>13 DEF Tick, Prompt, Hours
<1>14. ASSUME NEW r \in Requests, Accept(r) PROVE ExitTruthful'
  BY <1>14 DEF Accept
<1>15. ASSUME NEW r \in Requests, Answer(r) PROVE ExitTruthful'
  BY <1>15 DEF Answer
<1>16. CASE UNCHANGED vars
  BY <1>16 DEF vars
<1> QED
  BY <1>1, <1>2, <1>3, <1>4, <1>5, <1>6, <1>7, <1>8, <1>9, <1>10, <1>11, <1>12, <1>13, <1>14, <1>15, <1>16 DEF Next, Serving, Start, Monitoring, Stopped

LEMMA StepIInv == IInv /\ [Next]_vars => IInv'
<1> SUFFICES ASSUME IInv, [Next]_vars PROVE IInv'
  OBVIOUS
<1> QED
  BY TypeStep, NoneCutStep, ReasonStep, ReportStep, ErrorStep, WatchedStep,
     NotLateStep, CutStep, ExitStep DEF IInv

LEMMA Invariant == Spec => []IInv
BY InitIInv, StepIInv, PTL DEF Spec

(* The lifecycle keeps its state well typed: the error channel never holds *)
(* more than one error.                                                    *)
THEOREM TypeCorrect == Spec => []TypeOK
<1>1. IInv => TypeOK
  BY DEF IInv
<1> QED
  BY <1>1, Invariant, PTL

(* For any requests: however signal, expiry and a failing socket meet, a   *)
(* request is cut only when a Shutdown has waited in vain or the socket    *)
(* has failed (Start, Shutdown).                                           *)
THEOREM DrainsBeforeCutting == Spec => []CutOnlyWhenOverdue
<1>1. IInv => CutOnlyWhenOverdue
  BY DEF IInv
<1> QED
  BY <1>1, Invariant, PTL

(* The exit status is 0 only after a signal and with every request         *)
(* answered, and 1 only for one of its reasons (main, Start).              *)
THEOREM ExitIsTruthful == Spec => []ExitTruthful
<1>1. IInv => ExitTruthful
  BY DEF IInv
<1> QED
  BY <1>1, Invariant, PTL

(* No request is accepted more than an hour after the certificate's end    *)
(* (the monitor in Start).                                                 *)
THEOREM AcceptedInTime == Spec => AcceptedBeforeExpiry
<1>1. IInv /\ [Next]_vars =>
        [\A r \in Requests :
           request[r] = "none" /\ request'[r] = "active" /\ tls => hour <= expires]_vars
  <2> SUFFICES ASSUME IInv, Next, NEW r \in Requests,
                      request[r] = "none", request'[r] = "active", tls
               PROVE  hour <= expires
    OBVIOUS
  <2> USE DEF IInv, TypeOK, Hours
  <2>1. PICK q \in Requests : Accept(q)
    BY DEF Next, Serving, Listen, ServeEnds, ReportServe, Answer, Signal, Start,
           MainCancelled, MainDrained, MainOverdue, OverdueExit, MainError, Exit,
           Monitoring, MonitorCheck, MonitorDrained, MonitorReport,
           MonitorCancelled, Tick, Stopped, vars
  <2> QED
    BY <2>1, LifecycleAssumption DEF Accept, NotLate
<1> QED
  BY <1>1, Invariant, PTL DEF Spec, AcceptedBeforeExpiry
===============================================================================
