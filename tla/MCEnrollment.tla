----------------------------- MODULE MCEnrollment -----------------------------
(* A small instance of Enrollment: two requests at once.                   *)
EXTENDS Enrollment, TLC

CONSTANTS r1, r2, bearer, expired, service, server, none

MCRequests == {r1, r2}
MCEnabled == Methods
MCBearerTokens == {bearer, expired}
MCValidBearers == {bearer}

Plain == [op |-> "enroll", post |-> TRUE, bearer |-> none, basic |-> FALSE,
          accepts |-> {}, tls |-> "none", csr |-> "good",
          sameKey |-> TRUE, sameName |-> TRUE]

(* Each differs from the others in the way it takes through a handler.     *)
MCInputs == {
  [Plain EXCEPT !.bearer = bearer],
  [Plain EXCEPT !.basic = TRUE, !.accepts = {"userpass", "ldap", "approle"},
                !.csr = "large"],
  [Plain EXCEPT !.post = FALSE],
  [Plain EXCEPT !.op = "reenroll", !.bearer = expired, !.tls = "ecdsa",
                !.accepts = {"cert"}],
  [Plain EXCEPT !.op = "reenroll", !.bearer = bearer, !.tls = "rsa",
                !.sameName = FALSE],
  [Plain EXCEPT !.op = "serverkeygen", !.basic = TRUE,
                !.accepts = {"userpass"}],
  [Plain EXCEPT !.op = "serverkeygen", !.bearer = bearer, !.tls = "rsa",
                !.csr = "badsig"] }

(* For the refinement and the liveness property: fewer ways to fail early. *)
MCFewInputs == {
  [Plain EXCEPT !.bearer = bearer],
  [Plain EXCEPT !.basic = TRUE, !.accepts = {"ldap"}, !.csr = "badsig"],
  [Plain EXCEPT !.op = "reenroll", !.tls = "ecdsa", !.sameName = FALSE,
                !.accepts = {"cert"}],
  [Plain EXCEPT !.op = "serverkeygen", !.basic = TRUE,
                !.accepts = {"approle"}] }

(* The requests are alike.                                                 *)
Symmetry == Permutations(MCRequests)
===============================================================================
