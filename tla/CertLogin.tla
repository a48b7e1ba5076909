------------------------------ MODULE CertLogin ------------------------------
(***************************************************************************)
(* AuthenticateCert: how the service logs a client in by its TLS           *)
(* certificate. Under its own token it creates or updates an identity      *)
(* entity named for the certificate, reads it back if it was there before, *)
(* looks up the accessor of the token auth mount, ties an alias to the     *)
(* entity and creates a token for it. In Enrollment all this is one step.  *)
(*                                                                         *)
(* Any of the calls may fail, be performed without its reply coming back,  *)
(* or reach the backend after the service has given it up; logins with the *)
(* same certificate may run at once; and an operator may remove an entity  *)
(* at any time.                                                            *)
(***************************************************************************)
EXTENDS Integers, FiniteSets

CONSTANTS
  Logins,       \* certificate logins, each run by one goroutine
  Certs,        \* the certificates clients may present
  Prints,       \* SHA-256 fingerprints
  CommonNames,  \* common names a certificate may have
  NoCN,         \* a certificate without one
  Unknown,      \* the name "unknown"
  Prefix,       \* Prefix[p]: the first 16 digits of fingerprint p
  Ids,          \* entity ids the backend may give out
  NoId,         \* no entity
  MaxRetries,   \* backend.max_retries of the configuration
  MaxFaults,    \* bound: calls of one login that faults may hit
  MaxRemoved    \* bound: entities the operator removes

ASSUME CertLoginAssumption ==
  /\ Certs \subseteq [cn : CommonNames \cup {NoCN}, print : Prints]
  /\ Unknown \in CommonNames
  /\ NoCN \notin CommonNames
  /\ DOMAIN Prefix = Prints
  /\ NoId \notin Ids
  /\ MaxRetries \in Nat
  /\ MaxFaults \in Nat
  /\ MaxRemoved \in Nat

(* FormatEntityName, FormatEntityAlias: the prefix of the configuration    *)
(* and the fixed parts of the formats are the same for all.                *)
CN(c) == IF c.cn = NoCN THEN Unknown ELSE c.cn

(* Mutant of EntityName: nothing of the fingerprint is in the name.        *)
EntityName_NoPrint(c) == <<CN(c)>>

EntityName(c) == <<CN(c), Prefix[c.print]>>

AliasName(c) == <<c.print, CN(c)>>

Names == {EntityName(c) : c \in Certs}
Aliases == {AliasName(c) : c \in Certs}
Calls == {"entity", "read", "mounts", "alias", "token"}
Writes == {"entity", "alias", "token"}

VARIABLES
  cert,      \* cert[l]: the certificate of login l (fixed)
  mounted,   \* the backend lists a token auth mount (fixed)
  pc,        \* pc[l]: the call l is at, or how it ended
  id,        \* id[l]: the entity id l has learnt
  token,     \* token[l]: the entity the token returned by l is for
  attempt,   \* attempt[l]: number of the current call
  hurt,      \* hurt[l]: the calls of l that a fault hit
  entity,    \* entity[n]: id of the entity named n
  owner,     \* owner[i]: the name entity i was created under, once it was
  alias,     \* alias[a]: the entity alias a belongs to
  minted,    \* tokens created at the backend: for which login and entity
  revoked,   \* the service's own token is dead
  removed,   \* number of entities removed by the operator
  late       \* calls nobody waits for that may still reach the backend

loginVars == <<pc, id, token, attempt>>
storeVars == <<entity, owner, alias, minted>>
envVars == <<revoked, removed>>
vars == <<cert, mounted, loginVars, hurt, storeVars, envVars, late>>

PCs == Calls \cup {"done", "failed"}
NoName == <<>>

TypeOK ==
  /\ cert \in [Logins -> Certs]
  /\ mounted \in BOOLEAN
  /\ pc \in [Logins -> PCs]
  /\ id \in [Logins -> Ids \cup {NoId}]
  /\ token \in [Logins -> Ids \cup {NoId}]
  /\ attempt \in [Logins -> 1..(MaxRetries + 1)]
  /\ hurt \in [Logins -> SUBSET Calls]
  /\ entity \in [Names -> Ids \cup {NoId}]
  /\ owner \in [Ids -> Names \cup {NoName}]
  /\ alias \in [Aliases -> Ids \cup {NoId}]
  /\ minted \subseteq [login : Logins, try : 1..(MaxRetries + 1), entity : Ids]
  /\ revoked \in BOOLEAN
  /\ removed \in 0..MaxRemoved
  /\ late \subseteq [call : Writes, login : Logins,
                     try : 1..(MaxRetries + 1), id : Ids \cup {NoId}]

Init ==
  /\ cert \in [Logins -> Certs]
  /\ mounted \in BOOLEAN
  /\ pc = [l \in Logins |-> "entity"]
  /\ id = [l \in Logins |-> NoId]
  /\ token = [l \in Logins |-> NoId]
  /\ attempt = [l \in Logins |-> 1]
  /\ hurt = [l \in Logins |-> {}]
  /\ entity = [n \in Names |-> NoId]
  /\ owner = [i \in Ids |-> NoName]
  /\ alias = [a \in Aliases |-> NoId]
  /\ minted = {}
  /\ revoked = FALSE
  /\ removed = 0
  /\ late = {}

Name(l) == EntityName(cert[l])
-------------------------------------------------------------------------------
(* The identity store and the token store of the backend.                  *)

(* A new entity; its id is in the reply.                                   *)
NewEntity(n, i) ==
  /\ entity[n] = NoId
  /\ owner[i] = NoName
  /\ entity' = [entity EXCEPT ![n] = i]
  /\ owner' = [owner EXCEPT ![i] = n]
  /\ UNCHANGED <<alias, minted>>

(* An entity of that name is there: the reply is empty.                    *)
UpdateEntity(n) == entity[n] # NoId /\ UNCHANGED storeVars

Exists(i) == \E n \in Names : entity[n] = i

SetAlias(l, i) ==
  /\ Exists(i)
  /\ alias' = [alias EXCEPT ![AliasName(cert[l])] = i]
  /\ UNCHANGED <<entity, owner, minted>>

Mint(l, try, i) ==
  /\ Exists(i)
  /\ minted' = minted \cup {[login |-> l, try |-> try, entity |-> i]}
  /\ UNCHANGED <<entity, owner, alias>>

Perform(call, l, try, i) ==
  \/ call = "entity" /\ \/ \E new \in Ids : NewEntity(Name(l), new)
                        \/ UpdateEntity(Name(l))
  \/ call = "alias" /\ SetAlias(l, i)
  \/ call = "token" /\ Mint(l, try, i)

(* What may have become of a call whose reply does not come: it never      *)
(* arrives, it was performed, or it is still on its way.                   *)
Unanswered(l) ==
  \/ UNCHANGED <<storeVars, late>>
  \/ ~revoked /\ Perform(pc[l], l, attempt[l], id[l]) /\ UNCHANGED late
  \/ /\ pc[l] \in Writes
     /\ late' = late \cup {[call |-> pc[l], login |-> l, try |-> attempt[l],
                            id |-> id[l]]}
     /\ UNCHANGED storeVars

(* A fault hits the current call of l, within the bound.                   *)
Hurt(l) ==
  /\ hurt' = [hurt EXCEPT ![l] = @ \cup {pc[l]}]
  /\ Cardinality(hurt[l] \cup {pc[l]}) <= MaxFaults

(* l goes on to the next call, or ends.                                    *)
Goto(l, where) ==
  /\ pc' = [pc EXCEPT ![l] = where]
  /\ attempt' = [attempt EXCEPT ![l] = 1]
-------------------------------------------------------------------------------
(* CreateOrUpdateEntity: an empty reply means that the entity was there... *)
CreateEntity(l) ==
  /\ pc[l] = "entity"
  /\ ~revoked
  /\ \/ \E i \in Ids : /\ NewEntity(Name(l), i)
                       /\ id' = [id EXCEPT ![l] = i]
                       /\ Goto(l, "mounts")
     \/ UpdateEntity(Name(l)) /\ Goto(l, "read") /\ UNCHANGED id
  /\ UNCHANGED <<cert, mounted, token, hurt, envVars, late>>

(* Mutant of ReadEntity: the id is taken from some other entity.           *)
ReadEntity_Any(l) ==
  /\ pc[l] = "read"
  /\ ~revoked
  /\ \E n \in Names : /\ entity[n] # NoId
                      /\ id' = [id EXCEPT ![l] = entity[n]]
  /\ Goto(l, "mounts")
  /\ UNCHANGED <<cert, mounted, token, hurt, storeVars, envVars, late>>

(* ... and its id must be read. It may be gone again.                      *)
ReadEntity(l) ==
  /\ pc[l] = "read"
  /\ ~revoked
  /\ entity[Name(l)] # NoId
  /\ id' = [id EXCEPT ![l] = entity[Name(l)]]
  /\ Goto(l, "mounts")
  /\ UNCHANGED <<cert, mounted, token, hurt, storeVars, envVars, late>>

EntityGone(l) ==
  /\ pc[l] = "read"
  /\ entity[Name(l)] = NoId
  /\ Goto(l, "failed")
  /\ UNCHANGED <<cert, mounted, id, token, hurt, storeVars, envVars, late>>

ListMounts(l) ==
  /\ pc[l] = "mounts"
  /\ ~revoked
  /\ Goto(l, IF mounted THEN "alias" ELSE "failed")
  /\ UNCHANGED <<cert, mounted, id, token, hurt, storeVars, envVars, late>>

CreateAlias(l) ==
  /\ pc[l] = "alias"
  /\ ~revoked
  /\ SetAlias(l, id[l])
  /\ Goto(l, "token")
  /\ UNCHANGED <<cert, mounted, id, token, hurt, envVars, late>>

(* Mutant of AfterAlias: a failure to set the alias ends the login.        *)
AfterAlias_Fails(l) == Goto(l, "failed")

(* The error is only logged.                                               *)
AfterAlias(l) == Goto(l, "token")

(* The backend finds a conflict, the entity is gone, or the token is dead. *)
AliasRefused(l) ==
  /\ pc[l] = "alias"
  /\ AfterAlias(l)
  /\ UNCHANGED <<cert, mounted, id, token, hurt, storeVars, envVars, late>>

(* Mutant of Returned: a token without an alias is thrown away.            *)
Returned_NeedsAlias(l) ==
  token' = [token EXCEPT ![l] = IF "alias" \in hurt[l] THEN NoId ELSE id[l]]

Returned(l) == token' = [token EXCEPT ![l] = id[l]]

CreateToken(l) ==
  /\ pc[l] = "token"
  /\ ~revoked
  /\ Mint(l, attempt[l], id[l])
  /\ Returned(l)
  /\ Goto(l, "done")
  /\ UNCHANGED <<cert, mounted, id, hurt, envVars, late>>

(* There is no token for an entity that is gone.                           *)
TokenRefused(l) ==
  /\ pc[l] = "token"
  /\ ~Exists(id[l])
  /\ Goto(l, "failed")
  /\ UNCHANGED <<cert, mounted, id, token, hurt, storeVars, envVars, late>>

(* All calls are made under the service's own token.                       *)
Denied(l) ==
  /\ pc[l] \in Calls \ {"alias"}
  /\ revoked
  /\ Goto(l, "failed")
  /\ UNCHANGED <<cert, mounted, id, token, hurt, storeVars, envVars, late>>

(* The call fails in transport.                                            *)
Broken(l) ==
  /\ pc[l] \in Calls
  /\ Hurt(l)
  /\ Unanswered(l)
  /\ IF pc[l] = "alias" THEN AfterAlias(l) ELSE Goto(l, "failed")
  /\ UNCHANGED <<cert, mounted, id, token, envVars>>

(* Mutant of RetriesLeft: one retry too many.                              *)
RetriesLeft_OneMore(l) == attempt[l] <= MaxRetries + 1

RetriesLeft(l) == attempt[l] <= MaxRetries

(* It fails in transport, and the API client tries again.                  *)
Retry(l) ==
  /\ pc[l] \in Calls
  /\ RetriesLeft(l)
  /\ Hurt(l)
  /\ Unanswered(l)
  /\ attempt' = [attempt EXCEPT ![l] = @ + 1]
  /\ UNCHANGED <<cert, mounted, pc, id, token, envVars>>

LoginStep(l) ==
  \/ CreateEntity(l) \/ ReadEntity(l) \/ EntityGone(l)
  \/ ListMounts(l)
  \/ CreateAlias(l) \/ AliasRefused(l)
  \/ CreateToken(l) \/ TokenRefused(l)
  \/ Denied(l) \/ Broken(l) \/ Retry(l)
-------------------------------------------------------------------------------
(* A call nobody waits for reaches the backend.                            *)
LateCall(c) ==
  /\ late' = late \ {c}
  /\ \/ ~revoked /\ Perform(c.call, c.login, c.try, c.id)
     \/ UNCHANGED storeVars
  /\ UNCHANGED <<cert, mounted, loginVars, hurt, envVars>>

(* The operator removes an entity, and with it its aliases.                *)
Remove(n) ==
  /\ entity[n] # NoId
  /\ removed < MaxRemoved
  /\ removed' = removed + 1
  /\ entity' = [entity EXCEPT ![n] = NoId]
  /\ alias' = [a \in Aliases |-> IF alias[a] = entity[n] THEN NoId ELSE alias[a]]
  /\ UNCHANGED <<cert, mounted, loginVars, hurt, owner, minted, revoked, late>>

(* The service's own token expires: nothing renews it.                     *)
Expire ==
  /\ ~revoked
  /\ revoked' = TRUE
  /\ UNCHANGED <<cert, mounted, loginVars, hurt, storeVars, removed, late>>

(* Nothing is left to do.                                                  *)
Finished ==
  /\ \A l \in Logins : pc[l] \in {"done", "failed"}
  /\ UNCHANGED vars

Next ==
  \/ \E l \in Logins : LoginStep(l)
  \/ \E c \in late : LateCall(c)
  \/ \E n \in Names : Remove(n)
  \/ Expire
  \/ Finished

Spec == Init /\ [][Next]_vars /\ \A l \in Logins : WF_vars(LoginStep(l))
-------------------------------------------------------------------------------
(***************************************************************************)
(* Properties.                                                             *)
(***************************************************************************)

(* What the entity name tells apart.                                       *)
Alike(c, d) == CN(c) = CN(d) /\ Prefix[c.print] = Prefix[d.print]

(* The comment before AuthenticateCert: "each client has a unique          *)
(* identity". Tokens are only ever made for an entity that the same        *)
(* certificate, or one with the same name and the same first digits of the *)
(* fingerprint, was given: also the tokens made by calls that come late.   *)
SeparateIdentities ==
  \A t, u \in minted :
    t.entity = u.entity => Alike(cert[t.login], cert[u.login])

(* An alias leads to the entity of the certificate it names.               *)
AliasTruthful ==
  \A c \in Certs :
    alias[AliasName(c)] # NoId => owner[alias[AliasName(c)]] = EntityName(c)

(* A certificate has one identity: every token is for the entity that the  *)
(* backend has under the name of the certificate, also when logins run at  *)
(* once, find the entity missing at the same time or read back what        *)
(* another has made, unless an operator removes it; and its alias leads    *)
(* nowhere else (CreateOrUpdateEntity, CreateOrUpdateEntityAlias).         *)
OneIdentity ==
  /\ removed = 0 => \A t \in minted : t.entity = entity[Name(t.login)]
  /\ AliasTruthful

(* A client with a certificate is turned away only because of a fault in   *)
(* one of the calls that matter, a dead service token, a missing mount or  *)
(* an operator: the alias never costs a login (AuthenticateCert).          *)
FailureHasCause ==
  \A l \in Logins :
    pc[l] = "failed" =>
      \/ hurt[l] \ {"alias"} # {}
      \/ revoked
      \/ ~mounted
      \/ removed > 0

TokensOf(l) == {t \in minted : t.login = l}

(* A token that no request holds is left at the backend only by a call     *)
(* whose reply was lost, and never more than one for each retry.           *)
TokensAccounted ==
  \A l \in Logins :
    /\ Cardinality(TokensOf(l)) <= MaxRetries + 1
    /\ TokensOf(l) # {} =>
         \/ "token" \in hurt[l]
         \/ /\ Cardinality(TokensOf(l)) = 1
            /\ \A t \in TokensOf(l) : token[l] = t.entity
===============================================================================
