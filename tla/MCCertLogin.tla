------------------------------ MODULE MCCertLogin ------------------------------
(* A small instance of CertLogin: two logins at once.                      *)
EXTENDS CertLogin, TLC

CONSTANTS l1, l2, e1, e2, e3, p1, p2, p3, device, unknown, noCN, none

MCLogins == {l1, l2}
MCIds == {e1, e2, e3}
MCPrints == {p1, p2, p3}
MCCommonNames == {device, unknown}

(* p1 and p2 begin alike.                                                  *)
MCPrefix == [p \in MCPrints |-> IF p = p3 THEN 3 ELSE 1]

MCCerts == {
  [cn |-> device, print |-> p1],
  [cn |-> device, print |-> p2],
  [cn |-> device, print |-> p3],
  [cn |-> noCN, print |-> p3] }

Symmetry == Permutations(MCLogins) \cup Permutations(MCIds)
===============================================================================
