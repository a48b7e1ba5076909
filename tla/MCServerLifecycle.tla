--------------------------- MODULE MCServerLifecycle ---------------------------
(* A small instance of ServerLifecycle: two requests, three hours.         *)
EXTENDS ServerLifecycle

CONSTANTS h1, h2

MCRequests == {h1, h2}
===============================================================================
