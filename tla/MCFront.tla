-------------------------------- MODULE MCFront --------------------------------
(* A small instance of Front: two requests of two clients. Files and       *)
(* environments vary in what decides about the start, and apart from it in *)
(* what decides about the requests.                                        *)
EXTENDS Front

CONSTANTS r1, r2, near, far

MCRequests == {r1, r2}
MCClients == {near, far}
MCDelays == {1, 3, 6}

NoLimits == [enabled |-> FALSE, rate |-> 0, burst |-> 0, authRate |-> 0,
             authBurst |-> 0]

PlainFile ==
  [readable |-> TRUE, sane |-> TRUE, dev |-> FALSE, tls |-> TRUE,
   clientCA |-> FALSE, clientAuth |-> "", internalAuth |-> "unset",
   limits |-> NoLimits, address |-> TRUE, token |-> TRUE, tokenFile |-> "none",
   clientCert |-> FALSE, keygen |-> "off", attrs |-> "off", metrics |-> TRUE]

PlainEnv == [address |-> FALSE, token |-> FALSE, production |-> FALSE,
             confirmed |-> FALSE]

(* Nobody asks anything: these are about the start.                        *)
Starts ==
  {[file |-> [PlainFile EXCEPT !.token = t, !.tokenFile = f, !.clientCert = c],
    env |-> [PlainEnv EXCEPT !.token = e]] :
     t, c, e \in BOOLEAN, f \in {"none", "unreadable", "blank", "filled"}}
  \cup
  {[file |-> [PlainFile EXCEPT !.dev = d, !.tls = t, !.internalAuth = i],
    env |-> [PlainEnv EXCEPT !.production = p, !.confirmed = c]] :
     d, t, p, c \in BOOLEAN, i \in {"unset", "on", "off"}}
  \cup
  {[file |-> [PlainFile EXCEPT !.clientCA = c, !.clientAuth = a], env |-> PlainEnv] :
     c \in BOOLEAN, a \in {"", "none", "request", "require"}}
  \cup
  {[file |-> [PlainFile EXCEPT !.address = a, !.readable = x, !.sane = y],
    env |-> [PlainEnv EXCEPT !.address = e]] : a, x, y, e \in BOOLEAN}
  \cup
  {[file |-> [PlainFile EXCEPT !.keygen = "plain"], env |-> PlainEnv]}

(* Who may see what is internal, with or without metrics.                  *)
Open ==
  {[file |-> [PlainFile EXCEPT !.internalAuth = i, !.metrics = m], env |-> PlainEnv] :
     i \in {"unset", "off"}, m \in BOOLEAN}
  \cup
  {[file |-> [PlainFile EXCEPT !.dev = TRUE, !.tls = FALSE],
    env |-> [PlainEnv EXCEPT !.confirmed = TRUE]]}

(* How it is that the service is.                                          *)
Watched == {[file |-> [PlainFile EXCEPT !.token = FALSE], env |-> [PlainEnv EXCEPT !.token = TRUE]]}

(* What the handlers say.                                                  *)
Handlers ==
  {[file |-> [PlainFile EXCEPT !.keygen = k, !.attrs = a], env |-> PlainEnv] :
     k \in {"off", "encrypted"}, a \in {"off", "none", "invalid"}}

WithLimits(rate, burst, authRate, authBurst) ==
  [file |-> [PlainFile EXCEPT !.keygen = "encrypted",
               !.limits = [enabled |-> TRUE, rate |-> rate, burst |-> burst,
                           authRate |-> authRate, authBurst |-> authBurst]],
   env |-> PlainEnv]

(* Both limiters, by default; and the general one alone, or either of them *)
(* with a burst below zero, or a rate.                                     *)
Limited == {WithLimits(0, 0, 0, 0)}
Crowded == {WithLimits(0, 1, -1, 0), WithLimits(-1, 0, 0, -1), WithLimits(0, -1, 0, 0)}

(* As one set that TLC lists once.                                         *)
MCSettings ==
  {s \in Starts \cup Open \cup Watched \cup Handlers \cup Limited \cup Crowded : TRUE}

Ask(paths, clients) == [path : paths, client : clients]

MCAsked ==
  [s \in MCSettings |->
     CASE s \in Open -> Ask({"deep", "swagger", "metrics", "cacerts"}, {near})
       [] s \in Watched -> Ask({"health", "ready", "deep"}, {near})
       [] s \in Handlers \ Open ->
            Ask({"simpleenroll", "serverkeygen", "csrattrs"}, {near})
       [] s \in Limited -> Ask({"serverkeygen"}, {near})
       [] s \in Crowded -> Ask({"serverkeygen"}, {near, far})
       [] OTHER -> {}]

MCCertHours ==
  [s \in MCSettings |->
     CASE s \in Watched -> {-1, 167, 168, 720}
       [] s \in Open -> {-1, 0}
       [] s \in Handlers \cup Limited \cup Crowded -> {720}
       [] OTHER -> {-1, 720}]
===============================================================================
