----------------------------- MODULE BackendErrors -----------------------------
(***************************************************************************)
(* ParseBackendError: the status and the waiting time that a client is     *)
(* told, read from the words in the text of a backend's error.             *)
(***************************************************************************)
EXTENDS Integers

(* Groups of words that mean the same to ParseBackendError: "permission    *)
(* denied" and "code: 403", "sealed" and "standby", and so on.             *)
Words == {"denied", "unauthorized", "invalid", "missing", "unreachable",
          "sealed", "failed"}

(* 0: no answer came; what the text says then is the transport's.          *)
ErrorCodes == {0, 400, 401, 403, 404, 429, 500, 503}

(* The API client puts the status code into the text. 429 is in no group.  *)
WordsOf(code) ==
  CASE code = 403 -> {"denied"}
    [] code = 401 -> {"unauthorized"}
    [] code = 400 -> {"invalid"}
    [] code = 404 -> {"missing"}
    [] code \in {500, 503} -> {"failed"}
    [] OTHER -> {}

(* Mutant of Order: transient causes are looked for first.                 *)
Order_TransientFirst == <<"unreachable", "sealed", "denied", "unauthorized",
                          "invalid", "missing", "failed">>

(* In this order the groups are looked for.                                *)
Order == <<"denied", "unauthorized", "invalid", "missing", "unreachable",
           "sealed", "failed">>

Advice ==
  [denied |-> [status |-> 403, retry |-> 0],
   unauthorized |-> [status |-> 401, retry |-> 0],
   invalid |-> [status |-> 400, retry |-> 0],
   missing |-> [status |-> 404, retry |-> 0],
   unreachable |-> [status |-> 503, retry |-> 30],
   sealed |-> [status |-> 503, retry |-> 120],
   failed |-> [status |-> 502, retry |-> 0]]

(* The group found first decides; an unknown text is a failed backend's.   *)
ParseBackendError(words) ==
  IF words = {} THEN Advice["failed"]
  ELSE LET first == CHOOSE i \in 1..7 : /\ Order[i] \in words
                                        /\ \A j \in 1..(i - 1) : Order[j] \notin words
       IN  Advice[Order[first]]
===============================================================================
