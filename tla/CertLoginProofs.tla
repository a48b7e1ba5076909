---------------------------- MODULE CertLoginProofs ----------------------------
(***************************************************************************)
(* Proofs about CertLogin, for any certificates, any number of logins, any *)
(* faults, retries and late calls. The argument follows the owner of an    *)
(* entity id, the name it was created under: it never changes, so whoever  *)
(* holds an id (a login, a call on its way, a token, an alias) has come by *)
(* it through that name.                                                   *)
(***************************************************************************)
EXTENDS CertLogin, FiniteSetTheorems, FunctionTheorems, TLAPS

Attempts == 1..(MaxRetries + 1)

LocalType ==
  /\ cert \in [Logins -> Certs]
  /\ mounted \in BOOLEAN
  /\ pc \in [Logins -> PCs]
  /\ id \in [Logins -> Ids \cup {NoId}]
  /\ token \in [Logins -> Ids \cup {NoId}]
  /\ attempt \in [Logins -> Attempts]
  /\ hurt \in [Logins -> SUBSET Calls]
  /\ revoked \in BOOLEAN
  /\ removed \in 0..MaxRemoved
  /\ late \subseteq [call : Writes, login : Logins, try : Attempts,
                     id : Ids \cup {NoId}]

StoreType ==
  /\ entity \in [Names -> Ids \cup {NoId}]
  /\ owner \in [Ids -> Names \cup {NoName}]
  /\ alias \in [Aliases -> Ids \cup {NoId}]
  /\ minted \subseteq [login : Logins, try : Attempts, entity : Ids]

(* Each is an id that was created under the name of its login.             *)
Has(i, l) == i \in Ids /\ owner[i] = Name(l)

EntityOwned == \A n \in Names : entity[n] # NoId => owner[entity[n]] = n

MintedOwned == \A t \in minted : Has(t.entity, t.login)

IdOwned ==
  \A l \in Logins :
    /\ pc[l] \in {"mounts", "alias", "token", "done"} => Has(id[l], l)
    /\ token[l] # NoId => Has(token[l], l)

LateOwned == \A c \in late : c.call \in {"alias", "token"} => Has(c.id, c.login)

StoreOK == StoreType /\ EntityOwned /\ MintedOwned /\ AliasTruthful

(* As long as no operator removes anything, an entity once created is      *)
(* there, and the read after an empty reply finds it.                      *)
OwnersLive ==
  removed = 0 =>
    /\ \A i \in Ids : owner[i] # NoName => entity[owner[i]] = i
    /\ \A l \in Logins : pc[l] = "read" => entity[Name(l)] # NoId

IInv ==
  LocalType /\ StoreOK /\ IdOwned /\ LateOwned /\ OwnersLive /\ FailureHasCause

(* What an id was created under stays.                                     *)
OwnersKept == \A i \in Ids : owner[i] # NoName => owner'[i] = owner[i]
-------------------------------------------------------------------------------
(* Certificates with one alias have one entity name, and no name is empty. *)
LEMMA NameFacts ==
  ASSUME NEW c \in Certs
  PROVE  /\ EntityName(c) \in Names
         /\ AliasName(c) \in Aliases
         /\ EntityName(c) # NoName
         /\ \A d \in Certs : AliasName(c) = AliasName(d) => EntityName(c) = EntityName(d)
<1>1. EntityName(c) \in Names /\ AliasName(c) \in Aliases
  BY DEF Names, Aliases
<1>2. EntityName(c) # NoName
  BY DEF EntityName, NoName
<1>3. ASSUME NEW d \in Certs, AliasName(c) = AliasName(d)
      PROVE  EntityName(c) = EntityName(d)
  BY <1>3 DEF AliasName, EntityName
<1> QED
  BY <1>1, <1>2, <1>3

(* A name is the name of a certificate, so it is not empty.                *)
LEMMA NamesFull == NoName \notin Names
BY NameFacts DEF Names

LEMMA InitIInv == Init => IInv
<1> SUFFICES ASSUME Init PROVE IInv
  OBVIOUS
<1> USE CertLoginAssumption DEF Init
<1>1. LocalType
  <2>1. attempt \in [Logins -> Attempts]
    BY DEF Attempts
  <2>2. removed \in 0..MaxRemoved
    OBVIOUS
  <2>3. pc \in [Logins -> PCs] /\ hurt \in [Logins -> SUBSET Calls]
    BY DEF PCs, Calls
  <2>4. revoked \in BOOLEAN
    BY Zenon
  <2> QED
    BY <2>1, <2>2, <2>3, <2>4 DEF LocalType
<1>2. StoreType
  BY DEF StoreType
<1>3. EntityOwned /\ MintedOwned /\ AliasTruthful
  BY NameFacts DEF EntityOwned, MintedOwned, AliasTruthful
<1>4. IdOwned /\ LateOwned
  BY DEF IdOwned, LateOwned
<1>5. OwnersLive /\ FailureHasCause
  BY DEF OwnersLive, FailureHasCause
<1> QED
  BY <1>1, <1>2, <1>3, <1>4, <1>5 DEF IInv, StoreOK

(* A call the backend performs for a login that has come by its id keeps   *)
(* the stores in order, and takes no id away from its owner.               *)
LEMMA PerformStore ==
  ASSUME LocalType, StoreOK, cert' = cert,
         NEW call \in Writes, NEW l \in Logins, NEW try \in Attempts,
         NEW i \in Ids \cup {NoId},
         call \in {"alias", "token"} => Has(i, l),
         Perform(call, l, try, i)
  PROVE  StoreOK' /\ OwnersKept
<1> USE DEF StoreOK, StoreType
<1> DEFINE c == cert[l]
<1>0. c \in Certs /\ Name(l) = EntityName(c) /\ Name(l) \in Names /\ Name(l) # NoName
  BY NameFacts DEF LocalType, Name
<1>00. \A k \in Logins : Name(k)' = Name(k)
  BY DEF Name
<1>1. ASSUME NEW new \in Ids, NewEntity(Name(l), new)
      PROVE  StoreOK' /\ OwnersKept
  <2>1. OwnersKept
    BY <1>1 DEF NewEntity, OwnersKept
  <2>2. StoreType'
    BY <1>0, <1>1 DEF NewEntity
  <2>3. EntityOwned'
    BY <1>0, <1>1, NamesFull DEF NewEntity, EntityOwned
  <2>4. MintedOwned'
    BY <1>00, <1>1, <2>1, NameFacts DEF NewEntity, MintedOwned, Has, LocalType, OwnersKept, Name
  <2>5. AliasTruthful'
    BY <1>1, <2>1, NameFacts DEF NewEntity, AliasTruthful, OwnersKept
  <2> QED
    BY <2>1, <2>2, <2>3, <2>4, <2>5
<1>2. CASE UNCHANGED storeVars
  BY <1>2, <1>00 DEF storeVars, OwnersKept, EntityOwned, MintedOwned, AliasTruthful, Has, Name
<1>3. CASE call = "alias" /\ SetAlias(l, i)
  <2>1. AliasName(c) \in Aliases /\ Has(i, l)
    BY <1>0, <1>3, NameFacts
  <2>2. OwnersKept /\ StoreType'
    BY <1>3, <2>1 DEF SetAlias, OwnersKept, Has
  <2>3. EntityOwned' /\ MintedOwned'
    BY <1>3, <1>00 DEF SetAlias, EntityOwned, MintedOwned, Has, Name
  <2>4. AliasTruthful'
    <3> SUFFICES ASSUME NEW d \in Certs, alias'[AliasName(d)] # NoId
                 PROVE  owner'[alias'[AliasName(d)]] = EntityName(d)
      BY DEF AliasTruthful
    <3>1. CASE AliasName(d) = AliasName(c)
      BY <1>0, <1>3, <2>1, <3>1, NameFacts DEF SetAlias, Has
    <3>2. CASE AliasName(d) # AliasName(c)
      BY <1>3, <3>2, NameFacts DEF SetAlias, AliasTruthful
    <3> QED
      BY <3>1, <3>2
  <2> QED
    BY <2>2, <2>3, <2>4
<1>4. CASE call = "token" /\ Mint(l, try, i)
  <2>1. Has(i, l)
    BY <1>4
  <2>2. OwnersKept /\ StoreType'
    BY <1>4, <2>1 DEF Mint, OwnersKept, Has
  <2>3. MintedOwned'
    BY <1>4, <2>1, <1>00 DEF Mint, MintedOwned, Has, Name
  <2>4. EntityOwned' /\ AliasTruthful'
    BY <1>4 DEF Mint, EntityOwned, AliasTruthful
  <2> QED
    BY <2>2, <2>3, <2>4
<1> QED
  BY <1>1, <1>2, <1>3, <1>4 DEF Perform, UpdateEntity

(* A write of the service's own is performed under the id it has learnt.   *)
LEMMA OwnCall ==
  ASSUME IInv, NEW l \in Logins, pc[l] \in Writes
  PROVE  /\ attempt[l] \in Attempts
         /\ id[l] \in Ids \cup {NoId}
         /\ pc[l] \in {"alias", "token"} => Has(id[l], l)
BY DEF IInv, LocalType, IdOwned, Writes

(* Whatever became of a call without a reply, the stores are in order.     *)
LEMMA UnansweredStore ==
  ASSUME IInv, NEW l \in Logins, pc[l] \in Calls, Unanswered(l), cert' = cert
  PROVE  StoreOK' /\ OwnersKept
<1>1. CASE UNCHANGED storeVars
  BY <1>1 DEF IInv, StoreOK, StoreType, storeVars, OwnersKept, EntityOwned,
              MintedOwned, AliasTruthful, Has, Name
<1>2. CASE Perform(pc[l], l, attempt[l], id[l])
  <2>1. pc[l] \in Writes
    BY <1>2 DEF Perform, Writes
  <2> QED
    BY <1>2, <2>1, OwnCall, PerformStore DEF IInv
<1> QED
  BY <1>1, <1>2 DEF Unanswered

(* Every step of the system leaves the stores in order.                    *)
LEMMA StoreStep == IInv /\ [Next]_vars => StoreOK' /\ OwnersKept
<1> SUFFICES ASSUME IInv, [Next]_vars PROVE StoreOK' /\ OwnersKept
  OBVIOUS
<1>0. cert' = cert
  BY DEF Next, LoginStep, CreateEntity, ReadEntity, EntityGone, ListMounts,
         CreateAlias, AliasRefused, CreateToken, TokenRefused, Denied, Broken,
         Retry, LateCall, Remove, Expire, Finished, vars
<1>1. CASE UNCHANGED storeVars
  BY <1>0, <1>1 DEF IInv, StoreOK, StoreType, storeVars, OwnersKept, EntityOwned,
              MintedOwned, AliasTruthful, Has, Name
<1>2. ASSUME NEW l \in Logins, LoginStep(l) PROVE StoreOK' /\ OwnersKept
  <2>1. CASE CreateEntity(l)
    <3>1. /\ Perform("entity", l, attempt[l], id[l])
          /\ "entity" \in Writes /\ pc[l] \in Writes
      BY <2>1 DEF CreateEntity, Perform, Writes
    <3> QED
      BY <1>0, <3>1, OwnCall, PerformStore DEF IInv
  <2>2. CASE CreateAlias(l)
    <3>1. /\ Perform("alias", l, attempt[l], id[l])
          /\ "alias" \in Writes /\ pc[l] \in Writes /\ pc[l] = "alias"
      BY <2>2 DEF CreateAlias, Perform, Writes
    <3> QED
      BY <1>0, <3>1, OwnCall, PerformStore DEF IInv
  <2>3. CASE CreateToken(l)
    <3>1. /\ Perform("token", l, attempt[l], id[l])
          /\ "token" \in Writes /\ pc[l] \in Writes /\ pc[l] = "token"
      BY <2>3 DEF CreateToken, Perform, Writes
    <3> QED
      BY <1>0, <3>1, OwnCall, PerformStore DEF IInv
  <2>4. CASE Broken(l) \/ Retry(l)
    BY <1>0, <2>4, UnansweredStore DEF Broken, Retry
  <2>5. CASE \/ ReadEntity(l) \/ EntityGone(l) \/ ListMounts(l) \/ AliasRefused(l)
            \/ TokenRefused(l) \/ Denied(l)
    BY <1>1, <2>5 DEF ReadEntity, EntityGone, ListMounts, AliasRefused, TokenRefused, Denied
  <2> QED
    BY <1>2, <2>1, <2>2, <2>3, <2>4, <2>5 DEF LoginStep
<1>3. ASSUME NEW c \in late, LateCall(c) PROVE StoreOK' /\ OwnersKept
  <2>1. CASE Perform(c.call, c.login, c.try, c.id)
    <3>1. /\ c.call \in Writes /\ c.login \in Logins /\ c.try \in Attempts
          /\ c.id \in Ids \cup {NoId}
          /\ c.call \in {"alias", "token"} => Has(c.id, c.login)
      BY DEF IInv, LocalType, LateOwned
    <3> QED
      BY <1>0, <2>1, <3>1, PerformStore DEF IInv
  <2> QED
    BY <1>1, <1>3, <2>1 DEF LateCall
<1>4. ASSUME NEW n \in Names, Remove(n) PROVE StoreOK' /\ OwnersKept
  <2> USE DEF IInv, StoreOK, StoreType
  <2>1. StoreType' /\ OwnersKept
    BY <1>4 DEF Remove, OwnersKept
  <2>2. EntityOwned' /\ MintedOwned'
    BY <1>4 DEF Remove, EntityOwned, MintedOwned, Has, Name
  <2>3. AliasTruthful'
    BY <1>4, NameFacts DEF Remove, AliasTruthful
  <2> QED
    BY <2>1, <2>2, <2>3
<1>5. CASE Expire \/ Finished \/ UNCHANGED vars
  BY <1>1, <1>5 DEF Expire, Finished, vars, storeVars
<1> QED
  BY <1>2, <1>3, <1>4, <1>5 DEF Next

(* A login that has been through the call for its entity holds its id.     *)
LEMMA IdStep == IInv /\ [Next]_vars => IdOwned'
<1> SUFFICES ASSUME IInv, [Next]_vars, NEW l \in Logins
             PROVE  /\ pc'[l] \in {"mounts", "alias", "token", "done"} => Has(id[l], l)'
                    /\ token'[l] # NoId => Has(token[l], l)'
  BY DEF IdOwned
<1> USE DEF IInv, LocalType, StoreOK, StoreType, Writes, Calls, Goto
<1>0. OwnersKept /\ cert' = cert /\ NoName \notin Names /\ Name(l) \in Names
  BY StoreStep, NamesFull, NameFacts DEF Next, LoginStep, CreateEntity,
     ReadEntity, EntityGone, ListMounts, CreateAlias, AliasRefused, CreateToken,
     TokenRefused, Denied, Broken, Retry, LateCall, Remove, Expire, Finished,
     vars, Name
<1>1. \A i : Has(i, l) => i \in Ids /\ owner'[i] = Name(l) /\ Name(l)' = Name(l)
  BY <1>0 DEF Has, OwnersKept, Name
<1>2. CASE /\ id'[l] = id[l] /\ token'[l] = token[l]
           /\ pc'[l] \in {"mounts", "alias", "token", "done"} =>
                pc[l] \in {"mounts", "alias", "token", "done"}
  BY <1>1, <1>2 DEF IdOwned, Has
<1>3. CASE CreateEntity(l)
  <2>1. CASE UpdateEntity(Name(l)) /\ Goto(l, "read") /\ UNCHANGED id
    BY <1>2, <1>3, <2>1 DEF CreateEntity
  <2>2. ASSUME NEW i \in Ids, NewEntity(Name(l), i), id' = [id EXCEPT ![l] = i]
        PROVE  Has(id[l], l)' /\ token'[l] = token[l]
    BY <1>0, <1>3, <2>2 DEF CreateEntity, NewEntity, Has, Name
  <2> QED
    BY <1>1, <1>3, <2>1, <2>2 DEF CreateEntity, IdOwned, Has
<1>4. CASE ReadEntity(l)
  BY <1>0, <1>1, <1>4 DEF ReadEntity, EntityOwned, Has, IdOwned, storeVars, Name
<1>5. CASE CreateToken(l)
  BY <1>1, <1>5 DEF CreateToken, Returned, IdOwned, Has
<1>6. CASE \/ EntityGone(l) \/ ListMounts(l) \/ CreateAlias(l) \/ AliasRefused(l)
          \/ TokenRefused(l) \/ Denied(l) \/ Broken(l) \/ Retry(l)
  BY <1>2, <1>6 DEF EntityGone, ListMounts, CreateAlias, AliasRefused, AfterAlias,
                    TokenRefused, Denied, Broken, Retry
<1>7. ASSUME NEW k \in Logins, k # l, LoginStep(k)
      PROVE  id'[l] = id[l] /\ token'[l] = token[l] /\ pc'[l] = pc[l]
  BY <1>7 DEF LoginStep, CreateEntity, ReadEntity, EntityGone, ListMounts,
     CreateAlias, AliasRefused, AfterAlias, CreateToken, Returned, TokenRefused,
     Denied, Broken, Retry
<1>8. ASSUME \/ \E c \in late : LateCall(c)
             \/ \E n \in Names : Remove(n)
             \/ Expire \/ Finished \/ UNCHANGED vars
      PROVE  id'[l] = id[l] /\ token'[l] = token[l] /\ pc'[l] = pc[l]
  BY <1>8 DEF LateCall, Remove, Expire, Finished, vars, loginVars
<1> QED
  BY <1>2, <1>3, <1>4, <1>5, <1>6, <1>7, <1>8 DEF Next, LoginStep

(* A call that is given up carries the id of its login.                    *)
LEMMA LateStep == IInv /\ [Next]_vars => LateOwned'
<1> SUFFICES ASSUME IInv, [Next]_vars, NEW c \in late', c.call \in {"alias", "token"}
             PROVE  Has(c.id, c.login)'
  BY DEF LateOwned
<1>0. OwnersKept /\ cert' = cert /\ NoName \notin Names /\ \A l \in Logins : Name(l) \in Names
  BY StoreStep, NamesFull, NameFacts DEF Next, LoginStep, CreateEntity,
     ReadEntity, EntityGone, ListMounts, CreateAlias, AliasRefused, CreateToken,
     TokenRefused, Denied, Broken, Retry, LateCall, Remove, Expire, Finished,
     vars, Name, IInv, LocalType
<1>1. \A i : \A l \in Logins : Has(i, l) => i \in Ids /\ owner'[i] = Name(l) /\ Name(l)' = Name(l)
  BY <1>0 DEF Has, OwnersKept, Name
<1>2. CASE c \in late
  BY <1>1, <1>2 DEF IInv, LocalType, LateOwned, Has
<1>3. ASSUME NEW l \in Logins, pc[l] \in Calls, Unanswered(l), c \notin late
      PROVE  Has(c.id, c.login)'
  <2>1. c.call = pc[l] /\ c.login = l /\ c.id = id[l]
    BY <1>3 DEF Unanswered
  <2> QED
    BY <1>1, <2>1 DEF IInv, IdOwned, Has
<1>4. c \in late \/ \E l \in Logins : pc[l] \in Calls /\ Unanswered(l)
  BY DEF Next, LoginStep, CreateEntity, ReadEntity, EntityGone, ListMounts,
     CreateAlias, AliasRefused, CreateToken, TokenRefused, Denied, Broken, Retry,
     LateCall, Remove, Expire, Finished, vars
<1> QED
  BY <1>2, <1>3, <1>4

(* What a call without a reply leaves on its way is a call.                *)
LEMMA UnansweredLate ==
  ASSUME IInv, NEW l \in Logins, pc[l] \in Calls, Unanswered(l)
  PROVE  late' \subseteq [call : Writes, login : Logins, try : Attempts,
                          id : Ids \cup {NoId}]
<1>1. /\ attempt[l] \in Attempts /\ id[l] \in Ids \cup {NoId}
      /\ late \subseteq [call : Writes, login : Logins, try : Attempts,
                         id : Ids \cup {NoId}]
  BY DEF IInv, LocalType
<1> QED
  BY <1>1 DEF Unanswered

(* The variables of the logins stay well typed.                            *)
LEMMA LocalStep == IInv /\ [Next]_vars => LocalType'
<1> SUFFICES ASSUME IInv, [Next]_vars PROVE LocalType'
  OBVIOUS
<1> USE CertLoginAssumption DEF LocalType, Goto, PCs, Calls, Writes
<1>0. LocalType /\ 1 \in Attempts
  BY DEF IInv, Attempts
<1>1. ASSUME NEW l \in Logins, LoginStep(l) PROVE LocalType'
  <2>1. CASE CreateEntity(l)
    <3>1. UNCHANGED <<cert, mounted, token, hurt, revoked, removed, late>>
      BY <2>1 DEF CreateEntity, envVars
    <3>2. id' \in [Logins -> Ids \cup {NoId}]
      BY <1>0, <2>1 DEF CreateEntity
    <3>3. /\ pc' \in [Logins -> PCs]
          /\ attempt' \in [Logins -> Attempts]
      BY <1>0, <2>1 DEF CreateEntity
    <3> QED
      BY <1>0, <3>1, <3>2, <3>3
  <2>2. CASE ReadEntity(l)
    <3>1. entity[Name(l)] \in Ids \cup {NoId}
      BY <1>0, NameFacts DEF IInv, StoreOK, StoreType, Name
    <3> QED
      BY <1>0, <2>2, <3>1 DEF ReadEntity, envVars
  <2>3. CASE EntityGone(l) \/ ListMounts(l) \/ TokenRefused(l) \/ Denied(l)
    BY <1>0, <2>3 DEF EntityGone, ListMounts, TokenRefused, Denied, envVars
  <2>4. CASE CreateAlias(l) \/ AliasRefused(l)
    BY <1>0, <2>4 DEF CreateAlias, AliasRefused, AfterAlias, envVars
  <2>5. CASE CreateToken(l)
    BY <1>0, <2>5 DEF CreateToken, Returned, envVars
  <2>6. CASE Broken(l)
    <3>1. pc[l] \in Calls /\ Unanswered(l)
      BY <2>6 DEF Broken
    <3> QED
      BY <1>0, <2>6, <3>1, UnansweredLate DEF Broken, Hurt, AfterAlias, envVars
  <2>7. CASE Retry(l)
    <3>1. pc[l] \in Calls /\ Unanswered(l)
      BY <2>7 DEF Retry
    <3>2. attempt' \in [Logins -> Attempts]
      BY <1>0, <2>7 DEF Retry, RetriesLeft, Attempts
    <3> QED
      BY <1>0, <2>7, <3>1, <3>2, UnansweredLate DEF Retry, Hurt, envVars
  <2> QED
    BY <1>1, <2>1, <2>2, <2>3, <2>4, <2>5, <2>6, <2>7 DEF LoginStep
<1>2. ASSUME NEW c \in late, LateCall(c) PROVE LocalType'
  BY <1>0, <1>2 DEF LateCall, loginVars, envVars
<1>3. ASSUME NEW n \in Names, Remove(n) PROVE LocalType'
  BY <1>0, <1>3 DEF Remove, loginVars
<1>4. CASE Expire
  BY <1>0, <1>4 DEF Expire, loginVars
<1>5. CASE UNCHANGED vars
  BY <1>0, <1>5 DEF vars, loginVars, envVars
<1> QED
  BY <1>1, <1>2, <1>3, <1>4, <1>5 DEF Next, Finished

(* A call the backend performs takes no name from an entity, and gives a   *)
(* new entity a name that had none.                                        *)
LEMMA PerformLive ==
  ASSUME StoreType, NEW call \in Writes, NEW l \in Logins, NEW try \in Attempts,
         NEW i \in Ids \cup {NoId}, Name(l) \in Names, Perform(call, l, try, i)
  PROVE  \/ entity' = entity /\ owner' = owner
         \/ \E n \in Names, j \in Ids :
              /\ entity[n] = NoId /\ owner[j] = NoName
              /\ entity' = [entity EXCEPT ![n] = j]
              /\ owner' = [owner EXCEPT ![j] = n]
BY DEF Perform, NewEntity, UpdateEntity, SetAlias, Mint, storeVars

(* What a step does to entities: nothing, it makes one under a free name,  *)
(* or an operator removes one.                                             *)
LEMMA EntityStep ==
  ASSUME IInv, [Next]_vars
  PROVE  \/ entity' = entity /\ owner' = owner /\ removed' = removed
         \/ /\ \E n \in Names, j \in Ids :
                  /\ entity[n] = NoId /\ owner[j] = NoName
                  /\ entity' = [entity EXCEPT ![n] = j]
                  /\ owner' = [owner EXCEPT ![j] = n]
            /\ removed' = removed
         \/ removed' > 0 /\ removed' >= removed
<1>1. StoreType /\ \A l \in Logins : Name(l) \in Names
  BY NameFacts DEF IInv, StoreOK, LocalType, Name
<1>2. removed \in Nat
  BY CertLoginAssumption DEF IInv, LocalType
<1> DEFINE Made == \E n \in Names, j \in Ids :
                     /\ entity[n] = NoId /\ owner[j] = NoName
                     /\ entity' = [entity EXCEPT ![n] = j]
                     /\ owner' = [owner EXCEPT ![j] = n]
<1>3. ASSUME NEW l \in Logins, pc[l] \in Calls, Unanswered(l)
      PROVE  (entity' = entity /\ owner' = owner) \/ Made
  <2>1. CASE UNCHANGED storeVars
    BY <2>1 DEF storeVars
  <2>2. CASE Perform(pc[l], l, attempt[l], id[l])
    <3>1. pc[l] \in Writes
      BY <2>2 DEF Perform, Writes
    <3>2. attempt[l] \in Attempts /\ id[l] \in Ids \cup {NoId}
      BY <3>1, OwnCall
    <3> QED
      BY <1>1, <2>2, <3>1, <3>2, PerformLive
  <2> QED
    BY <1>3, <2>1, <2>2 DEF Unanswered
<1>4. ASSUME NEW l \in Logins, LoginStep(l)
      PROVE  /\ (entity' = entity /\ owner' = owner) \/ Made
             /\ removed' = removed
  <2>1. CASE CreateEntity(l)
    BY <1>1, <2>1 DEF CreateEntity, NewEntity, UpdateEntity, storeVars, envVars
  <2>2. CASE Broken(l) \/ Retry(l)
    <3>1. pc[l] \in Calls /\ Unanswered(l) /\ removed' = removed
      BY <2>2 DEF Broken, Retry, envVars
    <3> HIDE DEF Made
    <3> QED
      BY <1>3, <3>1
  <2>3. CASE \/ ReadEntity(l) \/ EntityGone(l) \/ ListMounts(l) \/ CreateAlias(l)
            \/ AliasRefused(l) \/ CreateToken(l) \/ TokenRefused(l) \/ Denied(l)
    BY <2>3 DEF ReadEntity, EntityGone, ListMounts, CreateAlias, SetAlias,
       AliasRefused, CreateToken, Mint, TokenRefused, Denied, storeVars, envVars
  <2> QED
    BY <1>4, <2>1, <2>2, <2>3 DEF LoginStep
<1>5. ASSUME NEW c \in late, LateCall(c)
      PROVE  /\ (entity' = entity /\ owner' = owner) \/ Made
             /\ removed' = removed
  <2>1. CASE Perform(c.call, c.login, c.try, c.id)
    <3>1. /\ c.call \in Writes /\ c.login \in Logins /\ c.try \in Attempts
          /\ c.id \in Ids \cup {NoId}
      BY DEF IInv, LocalType
    <3> QED
      BY <1>1, <1>5, <2>1, <3>1, PerformLive DEF LateCall, envVars
  <2> QED
    BY <1>5, <2>1 DEF LateCall, storeVars, envVars
<1>6. ASSUME NEW n \in Names, Remove(n) PROVE removed' > 0 /\ removed' >= removed
  BY <1>2, <1>6 DEF Remove
<1>7. CASE Expire \/ Finished \/ UNCHANGED vars
  BY <1>7 DEF Expire, Finished, vars, storeVars, envVars
<1> HIDE DEF Made
<1>8. QED
  BY <1>4, <1>5, <1>6, <1>7 DEF Next, Made

(* Entities that nobody removes stay.                                      *)
LEMMA LiveStep == IInv /\ [Next]_vars => OwnersLive'
<1> SUFFICES ASSUME IInv, [Next]_vars, removed' = 0
             PROVE  /\ \A i \in Ids : owner'[i] # NoName => entity'[owner'[i]] = i
                    /\ \A l \in Logins : pc'[l] = "read" => entity'[Name(l)'] # NoId
  BY DEF OwnersLive
<1> USE CertLoginAssumption DEF IInv, LocalType, StoreOK, StoreType
<1>1. removed = 0 /\ cert' = cert /\ \A l \in Logins : Name(l)' = Name(l) /\ Name(l) \in Names
  <2>1. cert' = cert
    BY DEF Next, LoginStep, CreateEntity, ReadEntity, EntityGone, ListMounts,
       CreateAlias, AliasRefused, CreateToken, TokenRefused, Denied, Broken, Retry,
       LateCall, Remove, Expire, Finished, vars
  <2>2. removed = 0
    BY EntityStep
  <2> QED
    BY <2>1, <2>2, NameFacts DEF Name
<1>2. /\ \A i \in Ids : owner[i] # NoName => entity[owner[i]] = i
      /\ \A l \in Logins : pc[l] = "read" => entity[Name(l)] # NoId
  BY <1>1 DEF OwnersLive
<1>3. \/ entity' = entity /\ owner' = owner
      \/ \E n \in Names, j \in Ids :
           /\ entity[n] = NoId /\ owner[j] = NoName
           /\ entity' = [entity EXCEPT ![n] = j]
           /\ owner' = [owner EXCEPT ![j] = n]
  BY EntityStep
<1>4. \A i \in Ids : owner'[i] # NoName => entity'[owner'[i]] = i
  <2>1. CASE entity' = entity /\ owner' = owner
    BY <1>2, <2>1
  <2>2. ASSUME NEW n \in Names, NEW j \in Ids, entity[n] = NoId, owner[j] = NoName,
               entity' = [entity EXCEPT ![n] = j], owner' = [owner EXCEPT ![j] = n],
               NEW i \in Ids, owner'[i] # NoName
        PROVE  entity'[owner'[i]] = i
    <3>1. CASE i = j
      BY <2>2, <3>1
    <3>2. CASE i # j
      <4>1. owner'[i] = owner[i] /\ owner[i] \in Names /\ entity[owner[i]] = i
        BY <1>2, <2>2, <3>2
      <4> QED
        BY <2>2, <4>1
    <3> QED
      BY <3>1, <3>2
  <2> QED
    BY <1>3, <2>1, <2>2
<1>5. \A n \in Names : entity[n] # NoId => entity'[n] # NoId
  BY <1>3
<1>6. ASSUME NEW l \in Logins, pc'[l] = "read"
      PROVE  pc[l] = "read" \/ entity[Name(l)] # NoId
  <2>1. CASE CreateEntity(l)
    BY <1>6, <2>1 DEF CreateEntity, UpdateEntity, Goto
  <2>2. ASSUME NEW k \in Logins, LoginStep(k), ~CreateEntity(k) PROVE pc[l] = "read"
    BY <1>6, <2>2 DEF LoginStep, ReadEntity, EntityGone, ListMounts, CreateAlias,
       AliasRefused, AfterAlias, CreateToken, TokenRefused, Denied, Broken, Retry, Goto
  <2>3. ASSUME NEW k \in Logins, k # l, CreateEntity(k) PROVE pc[l] = "read"
    BY <1>6, <2>3 DEF CreateEntity, Goto
  <2>4. ASSUME \/ \E c \in late : LateCall(c)
               \/ \E n \in Names : Remove(n)
               \/ Expire \/ Finished \/ UNCHANGED vars
        PROVE  pc[l] = "read"
    BY <1>6, <2>4 DEF LateCall, Remove, Expire, Finished, vars, loginVars
  <2> QED
    BY <2>1, <2>2, <2>3, <2>4 DEF Next
<1> QED
  BY <1>1, <1>2, <1>4, <1>5, <1>6

(* A login that fails has a cause, and causes do not go away.              *)
LEMMA CauseStep == IInv /\ [Next]_vars => FailureHasCause'
<1> SUFFICES ASSUME IInv, [Next]_vars, NEW l \in Logins, pc'[l] = "failed"
             PROVE  \/ hurt'[l] \ {"alias"} # {} \/ revoked' \/ ~mounted' \/ removed' > 0
  BY DEF FailureHasCause
<1> USE CertLoginAssumption DEF IInv, LocalType
<1>1. /\ removed \in Nat /\ removed' \in Nat /\ removed' >= removed
      /\ mounted' = mounted
      /\ revoked => revoked'
      /\ hurt[l] \subseteq hurt'[l]
  <2>1. removed \in Nat /\ removed' \in Nat /\ removed' >= removed
    BY EntityStep, LocalStep
  <2>2. mounted' = mounted
    BY DEF Next, LoginStep, CreateEntity, ReadEntity, EntityGone, ListMounts,
       CreateAlias, AliasRefused, CreateToken, TokenRefused, Denied, Broken, Retry,
       LateCall, Remove, Expire, Finished, vars
  <2>3. revoked => revoked'
    BY Zenon DEF Next, LoginStep, CreateEntity, ReadEntity, EntityGone, ListMounts,
       CreateAlias, AliasRefused, CreateToken, TokenRefused, Denied, Broken, Retry,
       LateCall, Remove, Expire, Finished, vars, envVars
  <2>4. hurt[l] \subseteq hurt'[l]
    <3>1. ASSUME NEW k \in Logins, Broken(k) \/ Retry(k) PROVE hurt[l] \subseteq hurt'[l]
      BY <3>1 DEF Broken, Retry, Hurt
    <3>2. CASE hurt' = hurt
      BY <3>2
    <3> QED
      BY <3>1, <3>2 DEF Next, LoginStep, CreateEntity, ReadEntity, EntityGone,
         ListMounts, CreateAlias, AliasRefused, CreateToken, TokenRefused, Denied,
         LateCall, Remove, Expire, Finished, vars
  <2> QED
    BY <2>1, <2>2, <2>3, <2>4
<1>2. CASE pc[l] = "failed"
  BY <1>1, <1>2 DEF FailureHasCause
<1>3. CASE EntityGone(l)
  BY <1>1, <1>3 DEF EntityGone, OwnersLive
<1>4. CASE ListMounts(l)
  BY <1>1, <1>4 DEF ListMounts, Goto
<1>5. CASE TokenRefused(l)
  <2>1. Has(id[l], l) /\ Name(l) \in Names /\ Name(l) # NoName
    BY <1>5, NameFacts DEF TokenRefused, IdOwned, Name
  <2>2. entity[Name(l)] # id[l]
    BY <1>5, <2>1 DEF TokenRefused, Exists
  <2>3. removed # 0
    BY <2>1, <2>2 DEF OwnersLive, Has
  <2> QED
    BY <1>1, <2>3
<1>6. CASE Denied(l)
  BY <1>1, <1>6 DEF Denied
<1>7. CASE Broken(l)
  <2>1. pc[l] # "alias" /\ hurt'[l] = hurt[l] \cup {pc[l]}
    BY <1>7 DEF Broken, Hurt, AfterAlias, Goto
  <2> QED
    BY <2>1
<1>8. CASE CreateEntity(l) \/ ReadEntity(l) \/ CreateAlias(l) \/ AliasRefused(l)
             \/ CreateToken(l) \/ Retry(l)
  BY <1>2, <1>8 DEF CreateEntity, ReadEntity, CreateAlias, AliasRefused, AfterAlias,
     CreateToken, Retry, Goto
<1>9. ASSUME NEW k \in Logins, k # l, LoginStep(k) PROVE pc'[l] = pc[l]
  BY <1>9 DEF LoginStep, CreateEntity, ReadEntity, EntityGone, ListMounts,
     CreateAlias, AliasRefused, AfterAlias, CreateToken, TokenRefused, Denied,
     Broken, Retry, Goto
<1>10. ASSUME \/ \E c \in late : LateCall(c)
              \/ \E n \in Names : Remove(n)
              \/ Expire \/ Finished \/ UNCHANGED vars
       PROVE  pc'[l] = pc[l]
  BY <1>10 DEF LateCall, Remove, Expire, Finished, vars, loginVars
<1> QED
  BY <1>2, <1>3, <1>4, <1>5, <1>6, <1>7, <1>8, <1>9, <1>10 DEF Next, LoginStep

LEMMA StepIInv == IInv /\ [Next]_vars => IInv'
BY LocalStep, StoreStep, IdStep, LateStep, LiveStep, CauseStep DEF IInv

LEMMA Invariant == Spec => []IInv
BY InitIInv, StepIInv, PTL DEF Spec
-------------------------------------------------------------------------------
(* Logins, entities, aliases and tokens stay well typed.                   *)
THEOREM TypeCorrect == Spec => []TypeOK
<1>1. IInv => TypeOK
  BY DEF IInv, LocalType, StoreOK, StoreType, TypeOK, Attempts
<1> QED
  BY <1>1, Invariant, PTL

(* For any certificates and logins, with any calls lost, repeated or late: *)
(* tokens for one entity were made for certificates that have the same     *)
(* common name and the same first digits of the fingerprint                *)
(* (AuthenticateCert, FormatEntityName).                                   *)
THEOREM IdentitiesStaySeparate == Spec => []SeparateIdentities
<1>1. IInv => SeparateIdentities
  <2> SUFFICES ASSUME IInv, NEW t \in minted, NEW u \in minted,
                      t.entity = u.entity
               PROVE  Alike(cert[t.login], cert[u.login])
    BY DEF SeparateIdentities
  <2>1. EntityName(cert[t.login]) = EntityName(cert[u.login])
    BY DEF IInv, StoreOK, MintedOwned, Has, Name
  <2> QED
    BY <2>1 DEF EntityName, Alike
<1> QED
  BY <1>1, Invariant, PTL

(* A certificate has one identity, unless an operator removes it: all its  *)
(* tokens are for the entity under its name, and an alias leads to the     *)
(* entity of the certificate it names, whatever logins run at once         *)
(* (CreateOrUpdateEntity, CreateOrUpdateEntityAlias).                      *)
THEOREM IdentityIsOne == Spec => []OneIdentity
<1>1. IInv => OneIdentity
  <2> SUFFICES ASSUME IInv, removed = 0, NEW t \in minted
               PROVE  t.entity = entity[Name(t.login)]
    BY DEF OneIdentity, IInv, StoreOK
  <2>1. t.login \in Logins /\ Has(t.entity, t.login)
    BY DEF IInv, StoreOK, StoreType, MintedOwned
  <2>2. Name(t.login) # NoName
    BY <2>1, NameFacts DEF IInv, LocalType, Name
  <2> QED
    BY <2>1, <2>2 DEF IInv, OwnersLive, Has
<1> QED
  BY <1>1, Invariant, PTL

(* No login with a certificate fails without a cause: a fault in a call    *)
(* that matters, a dead service token, a missing mount or an operator.     *)
THEOREM FailuresHaveCauses == Spec => []FailureHasCause
<1>1. IInv => FailureHasCause
  BY DEF IInv
<1> QED
  BY <1>1, Invariant, PTL
-------------------------------------------------------------------------------
(* The tokens of a login. All are for the entity it knows, so one differs  *)
(* from another only by the attempt that made it; a second one, or one it  *)
(* did not return, or one still to come, means that a fault hit the call.  *)
Late == {"token", "done", "failed"}

TokenInv(l) ==
  /\ \A t \in minted : t.login = l => t.entity = id[l] /\ pc[l] \in Late
  /\ \A c \in late : c.call = "token" /\ c.login = l =>
       c.id = id[l] /\ pc[l] \in Late /\ "token" \in hurt[l]
  /\ "token" \notin hurt[l] =>
       /\ \A t \in minted : t.login = l => pc[l] = "done" /\ token[l] = id[l]
       /\ \A t \in minted : \A u \in minted : t.login = l /\ u.login = l => t = u

(* The step makes no token for l and leaves no call for one on its way.    *)
NoNewToken(l) ==
  /\ \A t \in minted' : t.login = l => t \in minted
  /\ \A c \in late' : c.call = "token" /\ c.login = l => c \in late

(* It leaves l alone altogether.                                           *)
Aside(l) ==
  /\ id'[l] = id[l] /\ pc'[l] = pc[l] /\ token'[l] = token[l] /\ hurt'[l] = hurt[l]
  /\ NoNewToken(l)

LEMMA PerformMints ==
  ASSUME NEW call, NEW l, NEW try, NEW i, Perform(call, l, try, i)
  PROVE  \/ minted' = minted
         \/ /\ call = "token"
            /\ minted' = minted \cup {[login |-> l, try |-> try, entity |-> i]}
BY DEF Perform, NewEntity, UpdateEntity, SetAlias, Mint, storeVars

(* A call without a reply makes a token only when it was meant to.         *)
LEMMA UnansweredMints ==
  ASSUME NEW l, Unanswered(l)
  PROVE  /\ \/ minted' = minted
            \/ /\ pc[l] = "token"
               /\ minted' = minted \cup {[login |-> l, try |-> attempt[l],
                                          entity |-> id[l]]}
         /\ \/ late' = late
            \/ late' = late \cup {[call |-> pc[l], login |-> l,
                                   try |-> attempt[l], id |-> id[l]]}
BY PerformMints DEF Unanswered, storeVars

(* Logins do not meddle with each other.                                   *)
LEMMA LoginAside ==
  ASSUME LocalType, NEW k \in Logins, LoginStep(k), NEW l \in Logins, l # k
  PROVE  Aside(l)
<1> USE DEF Aside, NoNewToken, Goto, LocalType, storeVars, envVars
<1>1. CASE CreateEntity(k)
  BY <1>1 DEF CreateEntity, NewEntity, UpdateEntity
<1>2. CASE ReadEntity(k) \/ EntityGone(k) \/ ListMounts(k)
  BY <1>2 DEF ReadEntity, EntityGone, ListMounts
<1>3. CASE CreateAlias(k) \/ AliasRefused(k)
  BY <1>3 DEF CreateAlias, SetAlias, AliasRefused, AfterAlias
<1>4. CASE CreateToken(k)
  BY <1>4 DEF CreateToken, Mint, Returned
<1>5. CASE TokenRefused(k) \/ Denied(k)
  BY <1>5 DEF TokenRefused, Denied
<1>6. CASE Broken(k) \/ Retry(k)
  <2>1. NoNewToken(l)
    BY <1>6, UnansweredMints DEF Broken, Retry
  <2> QED
    BY <1>6, <2>1 DEF Broken, Retry, Hurt, AfterAlias
<1> QED
  BY <1>1, <1>2, <1>3, <1>4, <1>5, <1>6 DEF LoginStep

(* What a step of the login itself does to its tokens.                     *)
LEMMA OwnTokens ==
  ASSUME LocalType, NEW l \in Logins, TokenInv(l), LoginStep(l)
  PROVE  TokenInv(l)'
<1> USE DEF Goto, LocalType, storeVars, envVars
<1>1. ASSUME pc[l] \notin Late, NoNewToken(l) PROVE TokenInv(l)'
  BY <1>1 DEF TokenInv, NoNewToken
<1>2. CASE CreateEntity(l)
  BY <1>1, <1>2 DEF CreateEntity, NewEntity, UpdateEntity, NoNewToken, Late
<1>3. CASE ReadEntity(l) \/ EntityGone(l) \/ ListMounts(l)
  BY <1>1, <1>3 DEF ReadEntity, EntityGone, ListMounts, NoNewToken, Late
<1>4. CASE CreateAlias(l) \/ AliasRefused(l)
  BY <1>1, <1>4 DEF CreateAlias, SetAlias, AliasRefused, NoNewToken, Late
<1>5. CASE CreateToken(l)
  <2>1. /\ pc[l] = "token" /\ pc'[l] = "done" /\ token'[l] = id[l]
        /\ UNCHANGED <<id, hurt, late>>
        /\ minted' = minted \cup {[login |-> l, try |-> attempt[l],
                                   entity |-> id[l]]}
    BY <1>5 DEF CreateToken, Mint, Returned
  <2> QED
    BY <2>1 DEF TokenInv, Late
<1>6. CASE TokenRefused(l) \/ (Denied(l) /\ pc[l] = "token")
  <2>1. /\ pc[l] = "token" /\ pc'[l] = "failed"
        /\ UNCHANGED <<id, hurt, token, late, minted>>
    BY <1>6 DEF TokenRefused, Denied
  <2> QED
    BY <2>1 DEF TokenInv, Late
<1>7. CASE Denied(l) /\ pc[l] # "token"
  BY <1>1, <1>7 DEF Denied, Calls, NoNewToken, Late
<1>8. CASE Broken(l) \/ Retry(l)
  <2>1. pc[l] \in Calls /\ Unanswered(l)
    BY <1>8 DEF Broken, Retry
  <2>2. CASE pc[l] # "token"
    BY <1>1, <2>1, <2>2, UnansweredMints DEF NoNewToken, Calls, Late
  <2>3. CASE pc[l] = "token"
    <3>1. /\ pc'[l] \in Late /\ "token" \in hurt'[l] /\ UNCHANGED id
      BY <1>8, <2>3 DEF Broken, Retry, Hurt, Late
    <3> QED
      BY <2>1, <2>3, <3>1, UnansweredMints DEF TokenInv
  <2> QED
    BY <2>2, <2>3
<1> QED
  BY <1>2, <1>3, <1>4, <1>5, <1>6, <1>7, <1>8 DEF LoginStep

LEMMA AsideOK ==
  ASSUME NEW l \in Logins, TokenInv(l), Aside(l)
  PROVE  TokenInv(l)'
BY DEF TokenInv, Aside, NoNewToken

(* A late call for a token is one that a fault hit.                        *)
LEMMA LateTokens ==
  ASSUME NEW c \in late, LateCall(c), NEW l \in Logins, TokenInv(l)
  PROVE  TokenInv(l)'
<1>1. UNCHANGED <<id, pc, token, hurt>> /\ late' \subseteq late
  BY DEF LateCall, loginVars
<1>2. CASE minted' = minted
  BY <1>1, <1>2, AsideOK DEF Aside, NoNewToken
<1>3. CASE /\ c.call = "token"
           /\ minted' = minted \cup {[login |-> c.login, try |-> c.try,
                                      entity |-> c.id]}
  <2>1. CASE c.login = l
    BY <1>1, <1>3, <2>1 DEF TokenInv
  <2>2. CASE c.login # l
    BY <1>1, <1>3, <2>2, AsideOK DEF Aside, NoNewToken
  <2> QED
    BY <2>1, <2>2
<1> QED
  BY <1>2, <1>3, PerformMints DEF LateCall, storeVars

TokensOK == \A l \in Logins : TokenInv(l)

LEMMA TokenStep == IInv /\ TokensOK /\ [Next]_vars => TokensOK'
<1> SUFFICES ASSUME IInv, [Next]_vars, NEW l \in Logins, TokenInv(l)
             PROVE  TokenInv(l)'
  BY DEF TokensOK
<1>1. ASSUME NEW k \in Logins, LoginStep(k) PROVE TokenInv(l)'
  BY <1>1, LoginAside, OwnTokens, AsideOK DEF IInv
<1>2. ASSUME NEW c \in late, LateCall(c) PROVE TokenInv(l)'
  BY <1>2, LateTokens
<1>3. ASSUME \/ \E n \in Names : Remove(n)
             \/ Expire \/ Finished \/ UNCHANGED vars
      PROVE  Aside(l)
  BY <1>3 DEF Remove, Expire, Finished, vars, loginVars, storeVars, Aside, NoNewToken
<1> QED
  BY <1>1, <1>2, <1>3, AsideOK DEF Next

LEMMA TokenInvariant == Spec => []TokensOK
<1>1. Init => TokensOK
  BY DEF Init, TokensOK, TokenInv
<1> QED
  BY <1>1, TokenStep, Invariant, PTL DEF Spec

(* However many calls are lost, repeated or late: a login leaves at most   *)
(* one token for each attempt, and none but the one it returns unless a    *)
(* fault hit the call that creates it (CreateToken of AuthenticateCert).   *)
THEOREM TokensAlwaysAccounted == Spec => []TokensAccounted
<1>1. IInv /\ TokensOK => TokensAccounted
  <2> SUFFICES ASSUME IInv, NEW l \in Logins, TokenInv(l)
               PROVE  /\ Cardinality(TokensOf(l)) <= MaxRetries + 1
                      /\ TokensOf(l) # {} =>
                           \/ "token" \in hurt[l]
                           \/ /\ Cardinality(TokensOf(l)) = 1
                              /\ \A t \in TokensOf(l) : token[l] = t.entity
    BY DEF TokensAccounted, TokensOK
  <2>1. Cardinality(TokensOf(l)) <= MaxRetries + 1
    <3> DEFINE number == [t \in TokensOf(l) |-> t.try]
    <3>1. ASSUME NEW t \in TokensOf(l)
          PROVE  t \in [login : Logins, try : Attempts, entity : Ids]
                 /\ t.login = l /\ t.entity = id[l]
      BY <3>1 DEF IInv, StoreOK, StoreType, TokensOf, TokenInv
    <3>2. number \in [TokensOf(l) -> Attempts]
      BY <3>1
    <3>3. \A t, u \in TokensOf(l) : number[t] = number[u] => t = u
      BY <3>1
    <3>4. number \in Injection(TokensOf(l), Attempts)
      <4> HIDE DEF number
      <4> QED
        BY <3>2, <3>3, Fun_IsInj
    <3>5. IsFiniteSet(Attempts) /\ Cardinality(Attempts) = MaxRetries + 1
      <4>1. MaxRetries + 1 \in Int /\ ~(1 > MaxRetries + 1)
        BY CertLoginAssumption
      <4> QED
        BY <4>1, FS_Interval, CertLoginAssumption DEF Attempts
    <3> QED
      BY <3>4, <3>5, FS_Injection
  <2>2. ASSUME NEW t \in TokensOf(l), "token" \notin hurt[l]
        PROVE  /\ Cardinality(TokensOf(l)) = 1
               /\ \A u \in TokensOf(l) : token[l] = u.entity
    <3>1. TokensOf(l) = {t} /\ \A u \in TokensOf(l) : token[l] = u.entity
      BY <2>2 DEF TokensOf, TokenInv
    <3> QED
      BY <3>1, FS_Singleton
  <2> QED
    BY <2>1, <2>2
<1> QED
  BY <1>1, Invariant, TokenInvariant, PTL
===============================================================================
