---------------------------- MODULE MCKeyGeneration ----------------------------
(* A small instance of KeyGeneration.                                      *)
EXTENDS KeyGeneration

CONSTANTS k1, k2, none

MCRequests == {k1, k2}

Local == [type |-> "", size |-> 0, types |-> {}, sizes |-> {},
          transit |-> FALSE]
Transit == [Local EXCEPT !.transit = TRUE]

(* Each is decided by another of the tests.                                *)
MCConfigs == {
  [Transit EXCEPT !.type = "ecdsa", !.size = 384, !.types = {"ecdsa"},
                  !.sizes = {256}],
  [Transit EXCEPT !.type = "RSA", !.size = 1024],
  Local,
  [Local EXCEPT !.type = "RSA", !.size = 1024, !.types = {"rsa"}],
  [Local EXCEPT !.type = "ec"],
  [Local EXCEPT !.type = "ec", !.size = 256, !.types = {"ecdsa"}],
  [Local EXCEPT !.type = "ecdsa", !.size = 384, !.sizes = {256}],
  [Local EXCEPT !.type = "ec", !.size = 521, !.sizes = {384, 521}],
  [Local EXCEPT !.type = "dsa", !.size = 2048] }
===============================================================================
