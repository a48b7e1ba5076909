-------------------------------- MODULE MCChecks --------------------------------
(* A small instance of Checks: limits of one, two and three bytes, lists   *)
(* of up to three names.                                                   *)
EXTENDS Checks

CONSTANTS a, b, k1, k2

MCValues == {a, b}
MCKeys == {k1, k2}

Lists == UNION {[1..n -> [text : {a, b}, form : {"short"}]] : n \in 0..3}

Dns(l) == [kind \in SanKinds |-> IF kind = "dns" THEN l ELSE <<>>]
Ip(form, n) ==
  [kind \in SanKinds |->
     IF kind = "ip" THEN [i \in 1..n |-> [text |-> a, form |-> form]] ELSE <<>>]

Simple == [single |-> <<a>>, listed |-> <<>>, unknown |-> <<>>, order |-> "usual"]
Subjects == {Simple, [Simple EXCEPT !.order = "other"], [Simple EXCEPT !.single = <<>>],
             [Simple EXCEPT !.single = <<b, a>>], [Simple EXCEPT !.single = <<a, b>>],
             [Simple EXCEPT !.listed = <<a, b>>], [Simple EXCEPT !.listed = <<b, a>>],
             [Simple EXCEPT !.unknown = <<a>>]}

Plain == [alg |-> "sha256rsa", signed |-> TRUE, key |-> k1, subject |-> Simple,
          sans |-> Dns(<<>>), change |-> FALSE]
Known1 == [key |-> k1, subject |-> Simple, sans |-> Dns(<<>>)]
Enroll == [op |-> "enroll", length |-> 2, declared |-> 2, layers |-> <<>>,
           holds |-> Plain, cert |-> NoCert]
Renewal == [Enroll EXCEPT !.op = "reenroll", !.cert = Known1]

Cases ==
  \* bytes
  {[Enroll EXCEPT !.length = l, !.declared = -1] : l \in 0..5} \cup
  {[Enroll EXCEPT !.length = l, !.declared = 2] : l \in 0..2} \cup
  {[Enroll EXCEPT !.length = l, !.declared = 4] : l \in 3..4} \cup
  {[Enroll EXCEPT !.op = "serverkeygen", !.length = l, !.declared = -1] : l \in 0..3} \cup
  \* wrapping and contents
  {[Enroll EXCEPT !.op = o, !.layers = l, !.holds = h] :
     o \in {"enroll", "serverkeygen"},
     l \in {<<>>, <<"pem">>, <<"base64", "pem">>, <<"base64", "base64">>,
            <<"pem", "base64">>},
     h \in {Plain, NoCSR}} \cup
  {[Enroll EXCEPT !.op = o, !.holds = [Plain EXCEPT !.alg = g, !.signed = s]] :
     o \in {"enroll", "serverkeygen"}, g \in Algorithms, s \in BOOLEAN} \cup
  \* names
  {[Enroll EXCEPT !.op = "serverkeygen", !.holds.subject = s] : s \in Subjects} \cup
  {[Renewal EXCEPT !.holds.subject = s, !.cert.subject = t, !.holds.change = c] :
     s, t \in Subjects, c \in BOOLEAN} \cup
  {[Renewal EXCEPT !.holds.sans = Dns(l), !.cert.sans = Dns(m)] : l, m \in Lists} \cup
  {[Renewal EXCEPT !.holds.sans = Ip(f, n), !.cert.sans = Ip("short", 1)] :
     f \in {"short", "long"}, n \in 1..2} \cup
  {[Renewal EXCEPT !.holds.key = k2, !.cert = c] : c \in {Known1, NoCert}}

(* As one set that TLC lists once.                                         *)
MCInputs == {i \in Cases : TRUE}

MCSettings ==
  {[limit |-> l, allowed |-> Known] : l \in {-1, 0}} \cup
  {[limit |-> 3, allowed |-> n] : n \in {Known, {"sha256rsa", "pss"}, {"typo"}}}

MCMessages == {w \in SUBSET Words : Cardinality(w) \leq 2}
===============================================================================
