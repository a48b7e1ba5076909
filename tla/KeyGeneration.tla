----------------------------- MODULE KeyGeneration -----------------------------
(***************************************************************************)
(* How serverkeygen comes by a key pair: made by the service itself, or by *)
(* the backend's Transit engine, where the service creates an exportable   *)
(* key under a temporary name, exports it, allows its deletion and deletes *)
(* it. Any of the four calls may fail, be performed without its reply      *)
(* coming back, or reach the backend after the service has given it up;    *)
(* and the process may die between two of them.                            *)
(*                                                                         *)
(* The calls run under a context of their own: a client that closes its    *)
(* connection stops none of them.                                          *)
(***************************************************************************)
EXTENDS Integers, FiniteSets

CONSTANTS
  Requests,     \* requests to serverkeygen, each served by one goroutine
  Configs,      \* server_key_gen sections the configuration may hold
  NoKey,        \* no key
  MaxRetries,   \* backend.max_retries of the configuration
  MaxFaults,    \* bound: calls of one request that faults may hit
  MaxTime       \* bound: the clock stops here

KeyTypes == {"", "rsa", "RSA", "ecdsa", "ec", "dsa"}

(* size 0, type "": not set. types, sizes empty: no restriction.           *)
ConfigType == [type : KeyTypes, size : Nat, types : SUBSET KeyTypes,
               sizes : SUBSET Nat, transit : BOOLEAN]

ASSUME KeyGenerationAssumption ==
  /\ Configs \subseteq ConfigType
  /\ NoKey \notin Requests
  /\ MaxRetries \in Nat
  /\ MaxFaults \in Nat
  /\ MaxTime \in Nat

Times == 0..MaxTime
Calls == {"create", "export", "config", "delete"}

VARIABLES
  config,     \* the server_key_gen section (fixed)
  now,        \* the clock, in units that it can tell apart
  pc,         \* pc[r]: the call r is at, or how it ended
  born,       \* born[r]: when r took its temporary name
  name,       \* name[r]: that name, a number read from the clock
  key,        \* key[r]: the private key r holds
  attempt,    \* attempt[r]: number of the current call
  hurt,       \* hurt[r]: the calls of r that a fault hit
  crashed,    \* the process died once
  keys,       \* keys[n]: the key Transit holds under name n
  deletable,  \* deletable[n]: it may be deleted
  late        \* calls nobody waits for that may still reach Transit

handlerVars == <<pc, born, name, key, attempt>>
engineVars == <<keys, deletable>>
vars == <<config, now, handlerVars, hurt, crashed, engineVars, late>>

PCs == Calls \cup {"start", "done", "failed", "dead"}
LateCalls == [call : Calls \ {"export"}, req : Requests, name : Times]

(* A key is named after the request whose call created it.                 *)
TypeOK ==
  /\ config \in Configs
  /\ now \in Times
  /\ pc \in [Requests -> PCs]
  /\ born \in [Requests -> Times]
  /\ name \in [Requests -> Times]
  /\ key \in [Requests -> Requests \cup {NoKey}]
  /\ attempt \in [Requests -> 1..(MaxRetries + 1)]
  /\ hurt \in [Requests -> SUBSET Calls]
  /\ crashed \in BOOLEAN
  /\ keys \in [Times -> Requests \cup {NoKey}]
  /\ deletable \in [Times -> BOOLEAN]
  /\ late \subseteq LateCalls

Init ==
  /\ config \in Configs
  /\ now = 0
  /\ pc = [r \in Requests |-> "start"]
  /\ born = [r \in Requests |-> 0]
  /\ name = [r \in Requests |-> 0]
  /\ key = [r \in Requests |-> NoKey]
  /\ attempt = [r \in Requests |-> 1]
  /\ hurt = [r \in Requests |-> {}]
  /\ crashed = FALSE
  /\ keys = [n \in Times |-> NoKey]
  /\ deletable = [n \in Times |-> FALSE]
  /\ late = {}
-------------------------------------------------------------------------------
(* What kind of key the configuration asks for.                            *)

(* setupRoutes fills in what is not set, the size without a look at the    *)
(* type: the handler's own default for elliptic curves is never reached.   *)
Type(c) == IF c.type = "" THEN "rsa" ELSE c.type

Size(c) == IF c.size = 0 THEN 2048 ELSE c.size

Lower(t) == IF t = "RSA" THEN "rsa" ELSE t

IsRSA(c) == Lower(Type(c)) = "rsa"

IsEC(c) == Lower(Type(c)) \in {"ecdsa", "ec"}

TypeAllowed(c) ==
  c.types = {} \/ \E t \in c.types : Lower(t) = Lower(Type(c))

SizeAllowed(c) == c.sizes = {} \/ Size(c) \in c.sizes

(* generateRSAKeyPair and generateECDSAKeyPair                             *)
LocalKind(c) ==
  /\ SizeAllowed(c)
  /\ \/ IsRSA(c) /\ Size(c) >= 2048
     \/ IsEC(c) /\ Size(c) \in {256, 384, 521}

(* mapToTransitKeyType: the kinds of key Transit is asked for.             *)
TransitKind(c) ==
  \/ IsRSA(c) /\ Size(c) \in {2048, 3072, 4096}
  \/ IsEC(c) /\ Size(c) \in {256, 384, 521}

(* generateKeyPair: the configuration asks for a key that can be made.     *)
Feasible(c) == TypeAllowed(c) /\ IF c.transit THEN TransitKind(c) ELSE LocalKind(c)
-------------------------------------------------------------------------------
(* The Transit engine. Creating a key under a name that is taken changes   *)
(* nothing and succeeds; a key is only deleted once that is allowed.       *)
Perform(call, r, n) ==
  \/ /\ call = "create"
     /\ keys' = [keys EXCEPT ![n] = IF @ = NoKey THEN r ELSE @]
     /\ UNCHANGED deletable
  \/ /\ call = "config"
     /\ deletable' = [deletable EXCEPT ![n] = keys[n] # NoKey]
     /\ UNCHANGED keys
  \/ /\ call = "delete"
     /\ keys' = [keys EXCEPT ![n] = IF deletable[n] THEN NoKey ELSE @]
     /\ deletable' = [deletable EXCEPT ![n] = FALSE]

(* What may have become of a call whose reply does not come: it never      *)
(* arrives, it was performed, or it is still on its way.                   *)
Unanswered(r) ==
  \/ UNCHANGED <<engineVars, late>>
  \/ Perform(pc[r], r, name[r]) /\ UNCHANGED late
  \/ /\ pc[r] # "export"
     /\ late' = late \cup {[call |-> pc[r], req |-> r, name |-> name[r]]}
     /\ UNCHANGED engineVars

(* A fault hits the current call of r, within the bound.                   *)
Hurt(r) ==
  /\ hurt' = [hurt EXCEPT ![r] = @ \cup {pc[r]}]
  /\ Cardinality(hurt[r] \cup {pc[r]}) <= MaxFaults

(* r goes on to the next call, or ends.                                    *)
Goto(r, where) ==
  /\ pc' = [pc EXCEPT ![r] = where]
  /\ attempt' = [attempt EXCEPT ![r] = 1]
-------------------------------------------------------------------------------
(* generateKeyPair, where nothing has to be asked of the backend.          *)
Refuse(r) ==
  /\ pc[r] = "start"
  /\ ~Feasible(config)
  /\ Goto(r, "failed")
  /\ UNCHANGED <<config, now, born, name, key, hurt, crashed, engineVars, late>>

GenerateLocally(r) ==
  /\ pc[r] = "start"
  /\ Feasible(config)
  /\ ~config.transit
  /\ key' = [key EXCEPT ![r] = r]
  /\ Goto(r, "done")
  /\ UNCHANGED <<config, now, born, name, hurt, crashed, engineVars, late>>

(* Mutant of NewName: the name holds nothing but the prefix.               *)
NewName_Fixed(r) == name' = [name EXCEPT ![r] = 0]

NewName(r) == name' = [name EXCEPT ![r] = now]

(* GenerateExportableKey takes its name from the clock.                    *)
TakeName(r) ==
  /\ pc[r] = "start"
  /\ Feasible(config)
  /\ config.transit
  /\ NewName(r)
  /\ born' = [born EXCEPT ![r] = now]
  /\ Goto(r, "create")
  /\ UNCHANGED <<config, now, key, hurt, crashed, engineVars, late>>

Create(r) ==
  /\ pc[r] = "create"
  /\ Perform("create", r, name[r])
  /\ Goto(r, "export")
  /\ UNCHANGED <<config, now, born, name, key, hurt, crashed, late>>

(* The function returns before the deletion is deferred.                   *)
CreateFails(r) ==
  /\ pc[r] = "create"
  /\ Hurt(r)
  /\ Unanswered(r)
  /\ Goto(r, "failed")
  /\ UNCHANGED <<config, now, born, name, key, crashed>>

Export(r) ==
  /\ pc[r] = "export"
  /\ keys[name[r]] # NoKey
  /\ key' = [key EXCEPT ![r] = keys[name[r]]]
  /\ Goto(r, "config")
  /\ UNCHANGED <<config, now, born, name, hurt, crashed, engineVars, late>>

(* Mutant of AfterExport: a failed export returns at once.                 *)
AfterExport_NoCleanup(r) == Goto(r, "failed")

(* The deferred function runs.                                             *)
AfterExport(r) == Goto(r, "config")

(* There is no such key, or a fault hits the call.                         *)
ExportFails(r) ==
  /\ pc[r] = "export"
  /\ \/ keys[name[r]] = NoKey /\ UNCHANGED hurt
     \/ Hurt(r)
  /\ AfterExport(r)
  /\ UNCHANGED <<config, now, born, name, key, crashed, engineVars, late>>

AllowDeletion(r) ==
  /\ pc[r] = "config"
  /\ Perform("config", r, name[r])
  /\ Goto(r, "delete")
  /\ UNCHANGED <<config, now, born, name, key, hurt, crashed, late>>

(* The error is not looked at.                                             *)
AllowDeletionFails(r) ==
  /\ pc[r] = "config"
  /\ Hurt(r)
  /\ Unanswered(r)
  /\ Goto(r, "delete")
  /\ UNCHANGED <<config, now, born, name, key, crashed>>

(* Mutant of Result: the key is not handed out when its deletion failed.   *)
Result_ChecksDeletion(r) ==
  IF key[r] # NoKey /\ "delete" \notin hurt[r] THEN "done" ELSE "failed"

(* The deferred deletion has no say in what is returned.                   *)
Result(r) == IF key[r] # NoKey THEN "done" ELSE "failed"

Delete(r) ==
  /\ pc[r] = "delete"
  /\ Perform("delete", r, name[r])
  /\ Goto(r, Result(r))
  /\ UNCHANGED <<config, now, born, name, key, hurt, crashed, late>>

(* The error is only logged.                                               *)
DeleteFails(r) ==
  /\ pc[r] = "delete"
  /\ Hurt(r)
  /\ Unanswered(r)
  /\ Goto(r, Result(r))
  /\ UNCHANGED <<config, now, born, name, key, crashed>>

(* Mutant of RetriesLeft: one retry too many.                              *)
RetriesLeft_OneMore(r) == attempt[r] <= MaxRetries + 1

RetriesLeft(r) == attempt[r] <= MaxRetries

(* The API client tries again.                                             *)
Retry(r) ==
  /\ pc[r] \in Calls
  /\ RetriesLeft(r)
  /\ Hurt(r)
  /\ Unanswered(r)
  /\ attempt' = [attempt EXCEPT ![r] = @ + 1]
  /\ UNCHANGED <<config, now, pc, born, name, key, crashed>>

HandlerStep(r) ==
  \/ Refuse(r) \/ GenerateLocally(r) \/ TakeName(r)
  \/ Create(r) \/ CreateFails(r)
  \/ Export(r) \/ ExportFails(r)
  \/ AllowDeletion(r) \/ AllowDeletionFails(r)
  \/ Delete(r) \/ DeleteFails(r)
  \/ Retry(r)
-------------------------------------------------------------------------------
(* A call nobody waits for reaches Transit.                                *)
LateCall(c) ==
  /\ late' = late \ {c}
  /\ Perform(c.call, c.req, c.name)
  /\ UNCHANGED <<config, now, handlerVars, hurt, crashed>>

Tick ==
  /\ now < MaxTime
  /\ now' = now + 1
  /\ UNCHANGED <<config, handlerVars, hurt, crashed, engineVars, late>>

(* The process dies, and with it all goroutines in the middle of a call.   *)
Crash ==
  /\ ~crashed
  /\ \E r \in Requests : pc[r] \in Calls
  /\ crashed' = TRUE
  /\ pc' = [r \in Requests |-> IF pc[r] \in Calls THEN "dead" ELSE pc[r]]
  /\ UNCHANGED <<config, now, born, name, key, attempt, hurt, engineVars, late>>

(* Nothing is left to do.                                                  *)
Finished ==
  /\ \A r \in Requests : pc[r] \in {"done", "failed", "dead"}
  /\ UNCHANGED vars

Next ==
  \/ \E r \in Requests : HandlerStep(r)
  \/ \E c \in late : LateCall(c)
  \/ Tick
  \/ Crash
  \/ Finished

(* A goroutine keeps running and each of its calls ends: they have a       *)
(* timeout.                                                                *)
Fairness == \A r \in Requests : WF_vars(HandlerStep(r))

Spec == Init /\ [][Next]_vars /\ Fairness
-------------------------------------------------------------------------------
(***************************************************************************)
(* Properties.                                                             *)
(***************************************************************************)

(* The requests that have a temporary name.                                *)
Named == {r \in Requests : config.transit /\ pc[r] # "start" /\ Feasible(config)}

(* Another request read the same time from the clock.                      *)
Clash(r) == \E other \in Named \ {r} : born[other] = born[r]

ActiveAt(n) == {r \in Named : pc[r] \in Calls /\ name[r] = n}

(* A request hands out no key but its own, unless another one took its     *)
(* name at the same time: neither a late call nor the cleanup of another   *)
(* request puts a foreign key under its name (GenerateExportableKey).      *)
OwnKeyDelivered ==
  \A r \in Requests : key[r] \notin {r, NoKey} => Clash(r)

(* Only the calls that make and fetch the key can cost the client its key: *)
(* whatever happens to the cleanup, a key once exported is handed out.     *)
CleanupCostsNothing ==
  \A r \in Requests :
    pc[r] = "failed" /\ Feasible(config) =>
      hurt[r] \cap {"create", "export"} # {} \/ Clash(r)

(* What can leave a private key behind in Transit under the name n: a      *)
(* fault in one of the calls that write to it, or the end of the process.  *)
Excused(n) ==
  \E r \in Named :
    /\ name[r] = n
    /\ hurt[r] \cap {"create", "config", "delete"} # {} \/ pc[r] = "dead"

(* No private key stays in Transit when the requests that use its name are *)
(* through, but for these causes: a failed export is cleaned up after, and *)
(* requests with the same name do not get in the way of each other's       *)
(* cleanup (the deferred function of GenerateExportableKey).               *)
NoKeyLeftBehind ==
  \A n \in Times : keys[n] # NoKey => ActiveAt(n) # {} \/ Excused(n)

(* Whatever makes the key, an RSA key has 2048 bits at least and any other *)
(* is on one of the three curves (MinRSAKeySize, mapToTransitKeyType).     *)
KeyStrength ==
  \A r \in Requests :
    key[r] # NoKey =>
      IF IsRSA(config) THEN Size(config) >= 2048
                       ELSE Size(config) \in {256, 384, 521}

(* A private key does not stay in Transit.                                 *)
KeyIsTransient ==
  \A n \in Times : keys[n] # NoKey ~> (keys[n] = NoKey \/ Excused(n))

(***************************************************************************)
(* What the documentation says and the code does not do.                   *)
(***************************************************************************)

(* pkg/config/config.go on allowed_key_sizes: "Restrict key sizes (empty = *)
(* all allowed)". So no key of another size is handed out                  *)
(* (generateKeyPair).                                                      *)
SizeRestricted ==
  \A r \in Requests : key[r] # NoKey => SizeAllowed(config)
===============================================================================
