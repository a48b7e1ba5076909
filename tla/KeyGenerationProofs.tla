-------------------------- MODULE KeyGenerationProofs --------------------------
(***************************************************************************)
(* Proofs about KeyGeneration, for any requests and configurations, any    *)
(* retries, faults and late calls, and a crash anywhere. The invariant     *)
(* follows the temporary name: whatever is stored or still on its way      *)
(* under a name belongs to a request that read that name from the clock,   *)
(* and a key that is stored has a request that will delete it, or an       *)
(* excuse.                                                                 *)
(***************************************************************************)
EXTENDS KeyGeneration, TLAPS

(* A request makes calls only after it has taken a name, which is the time *)
(* it read.                                                                *)
NamedFirst ==
  \A r \in Requests :
    /\ name[r] = born[r]
    /\ pc[r] \in Calls \cup {"dead"} => r \in Named

(* What is stored under a name was made by a request of that name.         *)
KeysOwned ==
  \A n \in Times : keys[n] # NoKey => keys[n] \in Named /\ born[keys[n]] = n

Cleaning(r) == pc[r] \in {"delete", "done", "failed", "dead"}

(* So is a call nobody waits for, and a fault has hit it. It does not      *)
(* delete before its request has exported the key.                         *)
LateOwned ==
  \A c \in late :
    /\ c.req \in Named
    /\ name[c.req] = c.name
    /\ c.call \in hurt[c.req]
    /\ c.call = "delete" => Cleaning(c.req)

(* A key that a request holds was made here, or under the request's name.  *)
HeldOwned ==
  \A r \in Requests :
    key[r] # NoKey =>
      /\ Feasible(config)
      /\ key[r] = r \/ (r \in Named /\ key[r] \in Named /\ born[key[r]] = born[r])

(* Why a request's key may be missing when it wants to export it, or after.*)
Missing(r) == hurt[r] \cap {"create", "export"} # {} \/ Clash(r)

Exportable ==
  \A r \in Requests :
    /\ pc[r] = "export" => keys[name[r]] # NoKey \/ Missing(r)
    /\ pc[r] \in {"config", "delete"} => key[r] # NoKey \/ Missing(r)

Cleanable(n) ==
  \/ Excused(n)
  \/ \E r \in ActiveAt(n) :
       pc[r] \in {"export", "config"} \/ (pc[r] = "delete" /\ deletable[n])

(* Some request is going to delete each key.                               *)
Cleaned == \A n \in Times : keys[n] # NoKey => Cleanable(n)

IInv ==
  /\ TypeOK
  /\ NamedFirst
  /\ KeysOwned
  /\ LateOwned
  /\ HeldOwned
  /\ Exportable
  /\ CleanupCostsNothing
  /\ Cleaned
-------------------------------------------------------------------------------
LEMMA InitIInv == Init => IInv
<1> SUFFICES ASSUME Init PROVE IInv
  OBVIOUS
<1> USE KeyGenerationAssumption DEF Init, Times, Calls
<1>1. TypeOK
  <2>1. 0 \in Times /\ 1 \in 1..(MaxRetries + 1)
    OBVIOUS
  <2>2. hurt \in [Requests -> SUBSET Calls]
    OBVIOUS
  <2>3. crashed \in BOOLEAN /\ deletable \in [Times -> BOOLEAN]
    BY Zenon
  <2> QED
    BY <2>1, <2>2, <2>3 DEF TypeOK, PCs
<1>2. NamedFirst /\ KeysOwned /\ LateOwned /\ HeldOwned
  BY DEF NamedFirst, KeysOwned, LateOwned, HeldOwned
<1>3. Exportable /\ CleanupCostsNothing /\ Cleaned
  BY DEF Exportable, CleanupCostsNothing, Cleaned
<1> QED
  BY <1>1, <1>2, <1>3 DEF IInv

(* One call on the engine changes the state as follows.                    *)
LEMMA PerformFacts ==
  ASSUME TypeOK, NEW call \in Calls, NEW r \in Requests, NEW n \in Times,
         Perform(call, r, n)
  PROVE  /\ call # "export"
         /\ keys' \in [Times -> Requests \cup {NoKey}]
         /\ deletable' \in [Times -> BOOLEAN]
         /\ \A m \in Times \ {n} : keys'[m] = keys[m] /\ deletable'[m] = deletable[m]
         /\ keys'[n] \in {keys[n], NoKey, r}
         /\ keys'[n] = r => keys[n] = r \/ call = "create"
         /\ call # "delete" /\ keys[n] # NoKey => keys'[n] # NoKey
         /\ call = "create" => keys'[n] # NoKey /\ deletable'[n] = deletable[n]
         /\ call = "config" /\ keys[n] # NoKey => deletable'[n]
         /\ call = "delete" /\ keys'[n] # NoKey => ~deletable[n]
         /\ call # "create" /\ keys[n] = NoKey => keys'[n] = NoKey
BY KeyGenerationAssumption DEF Perform, TypeOK, Calls

LEMMA TypeStep == TypeOK /\ [Next]_vars => TypeOK'
<1> SUFFICES ASSUME TypeOK, [Next]_vars PROVE TypeOK'
  OBVIOUS
<1> USE KeyGenerationAssumption DEF handlerVars, engineVars
<1>1. ASSUME NEW r \in Requests, Unanswered(r), pc[r] \in Calls
      PROVE  /\ keys' \in [Times -> Requests \cup {NoKey}]
             /\ deletable' \in [Times -> BOOLEAN]
             /\ late' \subseteq LateCalls
  <2>1. name[r] \in Times
    BY DEF TypeOK
  <2> QED
    BY <1>1, <2>1, PerformFacts DEF Unanswered, TypeOK, LateCalls
<1>2. ASSUME NEW r \in Requests, Hurt(r), pc[r] \in Calls
      PROVE  hurt' \in [Requests -> SUBSET Calls]
  BY <1>2 DEF Hurt, TypeOK
<1>3. ASSUME NEW r \in Requests, NEW where \in PCs, Goto(r, where)
      PROVE  pc' \in [Requests -> PCs] /\ attempt' \in [Requests -> 1..(MaxRetries + 1)]
  BY <1>3 DEF Goto, TypeOK
<1>4. \A r \in Requests : Result(r) \in PCs
  BY DEF Result, PCs
<1>5. \A r \in Requests : name[r] \in Times
  BY DEF TypeOK
<1>6. ASSUME NEW r \in Requests, HandlerStep(r) PROVE TypeOK'
  <2>1. CASE Refuse(r)
    BY <2>1, <1>3 DEF Refuse, TypeOK, PCs
  <2>2. CASE GenerateLocally(r)
    BY <2>2, <1>3 DEF GenerateLocally, TypeOK, PCs
  <2>3. CASE TakeName(r)
    BY <2>3, <1>3 DEF TakeName, NewName, TypeOK, PCs, Calls
  <2>4. CASE Create(r)
    BY <2>4, <1>3, <1>5, PerformFacts DEF Create, TypeOK, PCs, Calls
  <2>5. CASE CreateFails(r)
    BY <2>5, <1>1, <1>2, <1>3 DEF CreateFails, TypeOK, PCs, Calls
  <2>6. CASE Export(r)
    BY <2>6, <1>3, <1>5 DEF Export, TypeOK, PCs, Calls
  <2>7. CASE ExportFails(r)
    <3>1. hurt' \in [Requests -> SUBSET Calls]
      BY <2>7, <1>2 DEF ExportFails, TypeOK, Calls
    <3> QED
      BY <2>7, <3>1, <1>3 DEF ExportFails, AfterExport, TypeOK, PCs, Calls
  <2>8. CASE AllowDeletion(r)
    BY <2>8, <1>3, <1>5, PerformFacts DEF AllowDeletion, TypeOK, PCs, Calls
  <2>9. CASE AllowDeletionFails(r)
    BY <2>9, <1>1, <1>2, <1>3 DEF AllowDeletionFails, TypeOK, PCs, Calls
  <2>10. CASE Delete(r)
    BY <2>10, <1>3, <1>4, <1>5, PerformFacts DEF Delete, TypeOK, Calls
  <2>11. CASE DeleteFails(r)
    BY <2>11, <1>1, <1>2, <1>3, <1>4 DEF DeleteFails, TypeOK, Calls
  <2>12. CASE Retry(r)
    BY <2>12, <1>1, <1>2 DEF Retry, RetriesLeft, TypeOK
  <2> QED
    BY <1>6, <2>1, <2>2, <2>3, <2>4, <2>5, <2>6, <2>7, <2>8, <2>9, <2>10, <2>11, <2>12 DEF HandlerStep
<1>7. ASSUME NEW c \in late, LateCall(c) PROVE TypeOK'
  <2>1. c.call \in Calls /\ c.req \in Requests /\ c.name \in Times
    BY DEF TypeOK, LateCalls
  <2> QED
    BY <1>7, <2>1, PerformFacts DEF LateCall, TypeOK
<1>8. CASE Tick
  BY <1>8 DEF Tick, TypeOK, Times
<1>9. CASE Crash
  BY <1>9 DEF Crash, TypeOK, PCs
<1>10. CASE UNCHANGED vars
  BY <1>10 DEF vars, TypeOK
<1> QED
  BY <1>6, <1>7, <1>8, <1>9, <1>10 DEF Next, Finished
-------------------------------------------------------------------------------
(* A handler's step concerns its own request.                              *)
LEMMA HandlerFacts ==
  ASSUME TypeOK, NEW r \in Requests, HandlerStep(r)
  PROVE  /\ config' = config
         /\ pc[r] \notin {"done", "failed", "dead"}
         /\ \E where \in PCs \ {"start", "dead"} : pc' = [pc EXCEPT ![r] = where]
         /\ pc[r] = "delete" => pc'[r] \in {"delete", "done", "failed"}
         /\ pc[r] # "start" => UNCHANGED <<born, name>>
         /\ pc[r] = "start" /\ pc'[r] \in Calls =>
              config.transit /\ Feasible(config) /\ born'[r] = name'[r]
         /\ pc[r] = "start" /\ pc'[r] \notin Calls => UNCHANGED <<born, name>>
         /\ \A q \in Requests \ {r} :
              born'[q] = born[q] /\ name'[q] = name[q] /\ key'[q] = key[q]
         /\ hurt' = hurt \/ hurt' = [hurt EXCEPT ![r] = @ \cup {pc[r]}]
<1> USE DEF Goto, Hurt, TypeOK, PCs, Calls
<1>1. CASE Refuse(r)
  BY <1>1 DEF Refuse
<1>2. CASE GenerateLocally(r)
  BY <1>2 DEF GenerateLocally
<1>3. CASE TakeName(r)
  BY <1>3 DEF TakeName, NewName
<1>4. CASE Create(r)
  BY <1>4 DEF Create
<1>5. CASE CreateFails(r)
  BY <1>5 DEF CreateFails
<1>6. CASE Export(r)
  BY <1>6 DEF Export
<1>7. CASE ExportFails(r)
  BY <1>7 DEF ExportFails, AfterExport
<1>8. CASE AllowDeletion(r)
  BY <1>8 DEF AllowDeletion
<1>9. CASE AllowDeletionFails(r)
  BY <1>9 DEF AllowDeletionFails
<1>10. CASE Delete(r)
  BY <1>10 DEF Delete, Result
<1>11. CASE DeleteFails(r)
  BY <1>11 DEF DeleteFails, Result
<1>12. CASE Retry(r)
  BY <1>12 DEF Retry
<1> QED
  BY <1>1, <1>2, <1>3, <1>4, <1>5, <1>6, <1>7, <1>8, <1>9, <1>10, <1>11, <1>12 DEF HandlerStep

(* What no step undoes: a request keeps its name, and what has gone wrong  *)
(* with it.                                                                *)
Kept ==
  /\ config' = config
  /\ \A r \in Requests :
       /\ pc[r] # "start" =>
            pc'[r] # "start" /\ born'[r] = born[r] /\ name'[r] = name[r]
       /\ hurt[r] \subseteq hurt'[r]
       /\ pc[r] = "dead" => pc'[r] = "dead"
       /\ Cleaning(r) => Cleaning(r)'

LEMMA KeptStep == TypeOK /\ [Next]_vars => Kept /\ Named \subseteq Named'
<1> SUFFICES ASSUME TypeOK, [Next]_vars PROVE Kept
  BY DEF Kept, Named
<1>1. ASSUME NEW r \in Requests, HandlerStep(r) PROVE Kept
  <2> SUFFICES ASSUME NEW q \in Requests
               PROVE  /\ pc[q] # "start" =>
                           pc'[q] # "start" /\ born'[q] = born[q] /\ name'[q] = name[q]
                      /\ hurt[q] \subseteq hurt'[q]
                      /\ pc[q] = "dead" => pc'[q] = "dead"
                      /\ Cleaning(q) => Cleaning(q)'
    BY <1>1, HandlerFacts DEF Kept
  <2>1. hurt[q] \subseteq hurt'[q]
    BY <1>1, HandlerFacts DEF TypeOK
  <2>2. CASE q = r
    BY <1>1, <2>1, <2>2, HandlerFacts DEF TypeOK, Cleaning
  <2>3. CASE q # r
    BY <1>1, <2>1, <2>3, HandlerFacts DEF TypeOK, Cleaning
  <2> QED
    BY <2>2, <2>3
<1>2. ASSUME NEW c \in late, LateCall(c) PROVE Kept
  BY <1>2 DEF LateCall, Kept, Cleaning, handlerVars
<1>3. CASE Tick
  BY <1>3 DEF Tick, Kept, Cleaning, handlerVars
<1>4. CASE Crash
  BY <1>4 DEF Crash, Kept, Cleaning, TypeOK, Calls
<1>5. CASE UNCHANGED vars
  BY <1>5 DEF vars, handlerVars, Kept, Cleaning
<1> QED
  BY <1>1, <1>2, <1>3, <1>4, <1>5 DEF Next, Finished

(* So an excuse stays one.                                                 *)
LEMMA ExcusesKept ==
  ASSUME TypeOK, [Next]_vars
  PROVE  /\ \A r \in Requests : pc[r] # "start" /\ Clash(r) => Clash(r)'
         /\ \A r \in Requests : pc[r] # "start" /\ Missing(r) => Missing(r)'
         /\ \A n \in Times : Excused(n) => Excused(n)'
<1>1. Kept /\ Named \subseteq Named'
  BY KeptStep
<1>2. \A r \in Requests : pc[r] # "start" /\ Clash(r) => Clash(r)'
  BY <1>1 DEF Kept, Clash, Named
<1>3. \A r \in Requests : pc[r] # "start" /\ Missing(r) => Missing(r)'
  BY <1>1, <1>2 DEF Kept, Missing
<1>4. \A n \in Times : Excused(n) => Excused(n)'
  <2> SUFFICES ASSUME NEW n \in Times, NEW r \in Named, name[r] = n,
                      hurt[r] \cap {"create", "config", "delete"} # {} \/ pc[r] = "dead"
               PROVE  Excused(n)'
    BY DEF Excused
  <2>1. r \in Requests /\ pc[r] # "start"
    BY DEF Named
  <2>2. r \in Named' /\ name'[r] = n
    BY <1>1, <2>1 DEF Kept
  <2>3. hurt'[r] \cap {"create", "config", "delete"} # {} \/ pc'[r] = "dead"
    BY <1>1, <2>1 DEF Kept
  <2> QED
    BY <2>2, <2>3 DEF Excused
<1> QED
  BY <1>2, <1>3, <1>4
-------------------------------------------------------------------------------
LEMMA NamedStep == TypeOK /\ NamedFirst /\ [Next]_vars => NamedFirst'
<1> SUFFICES ASSUME TypeOK, NamedFirst, [Next]_vars, NEW q \in Requests
             PROVE  /\ name'[q] = born'[q]
                    /\ pc'[q] \in Calls \cup {"dead"} => q \in Named'
  BY DEF NamedFirst
<1>1. Kept /\ Named \subseteq Named'
  BY KeptStep
<1>2. ASSUME NEW r \in Requests, HandlerStep(r)
      PROVE  /\ name'[q] = born'[q]
             /\ pc'[q] \in Calls \cup {"dead"} => q \in Named'
  <2>1. CASE q # r
    BY <1>1, <1>2, <2>1, HandlerFacts DEF TypeOK, NamedFirst
  <2>2. CASE q = r /\ pc[q] # "start"
    BY <1>1, <1>2, <2>2, HandlerFacts DEF TypeOK, NamedFirst, PCs
  <2>3. CASE q = r /\ pc[q] = "start"
    BY <1>2, <2>3, HandlerFacts DEF TypeOK, NamedFirst, Named, PCs
  <2> QED
    BY <2>1, <2>2, <2>3
<1>3. ASSUME NEW c \in late, LateCall(c)
      PROVE  UNCHANGED <<config, handlerVars>>
  BY <1>3 DEF LateCall
<1>4. CASE Tick \/ UNCHANGED vars \/ UNCHANGED <<config, handlerVars>>
  BY <1>4 DEF Tick, vars, handlerVars, NamedFirst, Named
<1>5. CASE Crash
  BY <1>1, <1>5 DEF Crash, NamedFirst, TypeOK
<1> QED
  BY <1>2, <1>3, <1>4, <1>5 DEF Next, Finished

(* What a step does to the engine is one call, made under the name of its  *)
(* request.                                                                *)
LEMMA EngineFacts ==
  ASSUME TypeOK, NamedFirst, LateOwned, [Next]_vars
  PROVE  \/ UNCHANGED engineVars
         \/ \E r \in Named, call \in Calls :
              /\ Perform(call, r, name[r])
              /\ call = "delete" => Cleaning(r)
<1> USE DEF Calls, NamedFirst, engineVars
<1>1. ASSUME NEW r \in Requests, Unanswered(r), pc[r] \in Calls
      PROVE  UNCHANGED engineVars \/ Perform(pc[r], r, name[r])
  BY <1>1 DEF Unanswered
<1>2. ASSUME NEW r \in Requests, HandlerStep(r)
      PROVE  \/ UNCHANGED engineVars
             \/ pc[r] \in Calls /\ Perform(pc[r], r, name[r])
  <2>1. CASE Refuse(r)
    BY <2>1, <1>1 DEF Refuse
  <2>2. CASE GenerateLocally(r)
    BY <2>2, <1>1 DEF GenerateLocally
  <2>3. CASE TakeName(r)
    BY <2>3, <1>1 DEF TakeName, NewName
  <2>4. CASE Create(r)
    BY <2>4, <1>1 DEF Create
  <2>5. CASE CreateFails(r)
    BY <2>5, <1>1 DEF CreateFails
  <2>6. CASE Export(r)
    BY <2>6, <1>1 DEF Export
  <2>7. CASE ExportFails(r)
    BY <2>7, <1>1 DEF ExportFails, AfterExport
  <2>8. CASE AllowDeletion(r)
    BY <2>8, <1>1 DEF AllowDeletion
  <2>9. CASE AllowDeletionFails(r)
    BY <2>9, <1>1 DEF AllowDeletionFails
  <2>10. CASE Delete(r)
    BY <2>10, <1>1 DEF Delete, Result
  <2>11. CASE DeleteFails(r)
    BY <2>11, <1>1 DEF DeleteFails, Result
  <2>12. CASE Retry(r)
    BY <2>12, <1>1 DEF Retry
  <2> QED
    BY <1>2, <2>1, <2>2, <2>3, <2>4, <2>5, <2>6, <2>7, <2>8, <2>9, <2>10, <2>11, <2>12 DEF HandlerStep
<1>3. ASSUME NEW c \in late, LateCall(c)
      PROVE  Perform(c.call, c.req, name[c.req])
  BY <1>3 DEF LateCall, LateOwned
<1>4. \A c \in late : c.req \in Named /\ c.call \in Calls /\ (c.call = "delete" => Cleaning(c.req))
  BY DEF LateOwned, TypeOK, LateCalls
<1>5. CASE Tick \/ Crash \/ UNCHANGED vars
  BY <1>5 DEF Tick, Crash, vars
<1>6. ASSUME NEW r \in Requests, pc[r] \in Calls, Perform(pc[r], r, name[r])
      PROVE  /\ r \in Named
             /\ pc[r] = "delete" => Cleaning(r)
  BY <1>6 DEF Cleaning
<1> QED
  BY <1>2, <1>3, <1>4, <1>5, <1>6 DEF Next, Finished

LEMMA KeysStep ==
  TypeOK /\ NamedFirst /\ LateOwned /\ KeysOwned /\ [Next]_vars => KeysOwned'
<1> SUFFICES ASSUME TypeOK, NamedFirst, LateOwned, KeysOwned, [Next]_vars,
                    NEW n \in Times, keys'[n] # NoKey
             PROVE  keys'[n] \in Named' /\ born'[keys'[n]] = n
  BY DEF KeysOwned
<1>1. Kept /\ Named \subseteq Named'
  BY KeptStep
<1>2. keys'[n] = keys[n] \/ (keys'[n] \in Named /\ name[keys'[n]] = n)
  <2>1. CASE UNCHANGED engineVars
    BY <2>1 DEF engineVars
  <2>2. ASSUME NEW r \in Named, NEW call \in Calls, Perform(call, r, name[r])
        PROVE  keys'[n] = keys[n] \/ (keys'[n] \in Named /\ name[keys'[n]] = n)
    <3>1. r \in Requests /\ name[r] \in Times
      BY DEF Named, TypeOK
    <3> QED
      BY <2>2, <3>1, PerformFacts
  <2> QED
    BY <2>1, <2>2, EngineFacts
<1>3. keys'[n] \in Named /\ born[keys'[n]] = n
  BY <1>2 DEF KeysOwned, NamedFirst, Named
<1> QED
  BY <1>1, <1>3 DEF Kept, Named

(* A call that is given up is the current one of its request.              *)
LEMMA LateStep == TypeOK /\ NamedFirst /\ LateOwned /\ [Next]_vars => LateOwned'
<1> SUFFICES ASSUME TypeOK, NamedFirst, LateOwned, [Next]_vars, NEW c \in late'
             PROVE  /\ c.req \in Named'
                    /\ name'[c.req] = c.name
                    /\ c.call \in hurt'[c.req]
                    /\ c.call = "delete" => Cleaning(c.req)'
  BY DEF LateOwned
<1>1. Kept /\ Named \subseteq Named'
  BY KeptStep
<1>2. CASE c \in late
  BY <1>1, <1>2 DEF Kept, LateOwned, Named
<1>3. ASSUME NEW r \in Requests, pc[r] \in Calls, Hurt(r),
             c = [call |-> pc[r], req |-> r, name |-> name[r]]
      PROVE  /\ c.req \in Named'
             /\ name'[c.req] = c.name
             /\ c.call \in hurt'[c.req]
             /\ c.call = "delete" => Cleaning(c.req)'
  <2>1. r \in Named /\ c.call = pc[r] /\ c.req = r /\ c.name = name[r]
    BY <1>3 DEF NamedFirst
  <2>2. name'[r] = name[r] /\ (pc[r] = "delete" => Cleaning(r)')
    BY <1>1, <2>1 DEF Kept, Named, Cleaning
  <2>3. pc[r] \in hurt'[r]
    BY <1>3 DEF Hurt, TypeOK
  <2> QED
    BY <1>1, <2>1, <2>2, <2>3
<1>4. ASSUME NEW r \in Requests, HandlerStep(r), c \notin late
      PROVE  /\ pc[r] \in Calls
             /\ Hurt(r)
             /\ c = [call |-> pc[r], req |-> r, name |-> name[r]]
  <2> USE <1>4 DEF Calls, Unanswered
  <2>1. CASE Refuse(r)
    BY <2>1 DEF Refuse
  <2>2. CASE GenerateLocally(r)
    BY <2>2 DEF GenerateLocally
  <2>3. CASE TakeName(r)
    BY <2>3 DEF TakeName, NewName
  <2>4. CASE Create(r)
    BY <2>4 DEF Create
  <2>5. CASE CreateFails(r)
    BY <2>5 DEF CreateFails
  <2>6. CASE Export(r)
    BY <2>6 DEF Export
  <2>7. CASE ExportFails(r)
    BY <2>7 DEF ExportFails, AfterExport
  <2>8. CASE AllowDeletion(r)
    BY <2>8 DEF AllowDeletion
  <2>9. CASE AllowDeletionFails(r)
    BY <2>9 DEF AllowDeletionFails
  <2>10. CASE Delete(r)
    BY <2>10 DEF Delete, Result
  <2>11. CASE DeleteFails(r)
    BY <2>11 DEF DeleteFails, Result
  <2>12. CASE Retry(r)
    BY <2>12 DEF Retry
  <2> QED
    BY <1>4, <2>1, <2>2, <2>3, <2>4, <2>5, <2>6, <2>7, <2>8, <2>9, <2>10, <2>11, <2>12 DEF HandlerStep
<1>5. ASSUME NEW d \in late, LateCall(d) PROVE c \in late
  BY <1>5 DEF LateCall
<1>6. CASE Tick \/ Crash \/ UNCHANGED vars
  BY <1>2, <1>6 DEF Tick, Crash, vars
<1> QED
  BY <1>2, <1>3, <1>4, <1>5, <1>6 DEF Next, Finished
-------------------------------------------------------------------------------
(* A key comes from the service itself or from the request's name.         *)
LEMMA HeldStep ==
  TypeOK /\ NamedFirst /\ KeysOwned /\ HeldOwned /\ [Next]_vars => HeldOwned'
<1> SUFFICES ASSUME TypeOK, NamedFirst, KeysOwned, HeldOwned, [Next]_vars,
                    NEW q \in Requests, key'[q] # NoKey
             PROVE  /\ Feasible(config')
                    /\ \/ key'[q] = q
                       \/ /\ q \in Named' /\ key'[q] \in Named'
                          /\ born'[key'[q]] = born'[q]
  BY DEF HeldOwned
<1>1. Kept /\ Named \subseteq Named'
  BY KeptStep
<1>2. \/ key'[q] = key[q]
      \/ Feasible(config) /\ key'[q] = q
      \/ q \in Named /\ key'[q] = keys[name[q]]
  <2>1. ASSUME NEW r \in Requests, HandlerStep(r), q = r
        PROVE  \/ key'[r] = key[r]
               \/ Feasible(config) /\ key'[r] = r
               \/ r \in Named /\ key'[r] = keys[name[r]]
    <3> USE <2>1 DEF TypeOK, NamedFirst, Calls
    <3>1. CASE Refuse(r)
      BY <3>1 DEF Refuse
    <3>2. CASE GenerateLocally(r)
      BY <3>2 DEF GenerateLocally
    <3>3. CASE TakeName(r)
      BY <3>3 DEF TakeName, NewName
    <3>4. CASE Create(r)
      BY <3>4 DEF Create
    <3>5. CASE CreateFails(r)
      BY <3>5 DEF CreateFails
    <3>6. CASE Export(r)
      BY <3>6 DEF Export
    <3>7. CASE ExportFails(r)
      BY <3>7 DEF ExportFails, AfterExport
    <3>8. CASE AllowDeletion(r)
      BY <3>8 DEF AllowDeletion
    <3>9. CASE AllowDeletionFails(r)
      BY <3>9 DEF AllowDeletionFails
    <3>10. CASE Delete(r)
      BY <3>10 DEF Delete, Result
    <3>11. CASE DeleteFails(r)
      BY <3>11 DEF DeleteFails, Result
    <3>12. CASE Retry(r)
      BY <3>12 DEF Retry
    <3> QED
      BY <3>1, <3>2, <3>3, <3>4, <3>5, <3>6, <3>7, <3>8, <3>9, <3>10, <3>11, <3>12 DEF HandlerStep
  <2>2. ASSUME NEW r \in Requests, HandlerStep(r), q # r PROVE key'[q] = key[q]
    BY <2>2, HandlerFacts
  <2>3. ASSUME NEW c \in late, LateCall(c) PROVE key'[q] = key[q]
    BY <2>3 DEF LateCall, handlerVars
  <2>4. CASE Tick \/ Crash \/ UNCHANGED vars
    BY <2>4 DEF Tick, Crash, vars, handlerVars
  <2> QED
    BY <2>1, <2>2, <2>3, <2>4 DEF Next, Finished
<1>3. Feasible(config) /\ (key'[q] = q \/ (q \in Named /\ key'[q] \in Named /\ born[key'[q]] = born[q]))
  <2>1. CASE q \in Named /\ key'[q] = keys[name[q]]
    <3>1. name[q] \in Times /\ name[q] = born[q] /\ Feasible(config)
      BY <2>1 DEF TypeOK, NamedFirst, Named
    <3> QED
      BY <2>1, <3>1 DEF KeysOwned
  <2> QED
    BY <1>2, <2>1 DEF HeldOwned
<1> QED
  BY <1>1, <1>3 DEF Kept, Named

(* The key is there when its request wants to export it.                   *)
LEMMA ExportableStep ==
  TypeOK /\ NamedFirst /\ LateOwned /\ Exportable /\ [Next]_vars => Exportable'
<1> SUFFICES ASSUME TypeOK, NamedFirst, LateOwned, Exportable, [Next]_vars,
                    NEW q \in Requests
             PROVE  /\ pc'[q] = "export" => keys'[name'[q]] # NoKey \/ Missing(q)'
                    /\ pc'[q] \in {"config", "delete"} => key'[q] # NoKey \/ Missing(q)'
  BY DEF Exportable
<1>1. Kept /\ Named \subseteq Named'
  BY KeptStep
<1>2. pc[q] # "start" /\ Missing(q) => Missing(q)'
  BY ExcusesKept
<1>3. name[q] \in Times
  BY DEF TypeOK
<1>4. CASE pc'[q] = pc[q] /\ key'[q] = key[q]
  <2>1. ASSUME pc[q] = "export", keys[name[q]] # NoKey
        PROVE  keys'[name[q]] # NoKey \/ Clash(q)
    <3>1. ASSUME NEW r \in Named, NEW call \in Calls, Perform(call, r, name[r]),
                 call = "delete" => Cleaning(r)
          PROVE  keys'[name[q]] # NoKey \/ Clash(q)
      <4>1. r \in Requests /\ name[r] \in Times
        BY DEF Named, TypeOK
      <4>2. CASE r = q
        BY <2>1, <3>1, <4>1, <4>2, PerformFacts DEF Cleaning
      <4>3. CASE r # q /\ name[r] = name[q]
        BY <4>1, <4>3 DEF Clash, NamedFirst
      <4>4. CASE name[r] # name[q]
        BY <1>3, <2>1, <3>1, <4>1, <4>4, PerformFacts
      <4> QED
        BY <4>2, <4>3, <4>4
    <3> QED
      BY <2>1, <3>1, EngineFacts DEF engineVars
  <2>2. pc[q] # "start" => name'[q] = name[q]
    BY <1>1 DEF Kept
  <2>3. Clash(q) => Missing(q)
    BY DEF Missing
  <2> QED
    BY <1>2, <1>4, <2>1, <2>2, <2>3 DEF Exportable
<1>5. ASSUME NEW r \in Requests, HandlerStep(r), r = q
      PROVE  \/ pc'[r] \notin {"export", "config", "delete"}
             \/ pc'[r] = pc[r] /\ key'[r] = key[r]
             \/ pc'[r] = "export" /\ keys'[name'[r]] # NoKey
             \/ pc[r] = "export" /\ pc'[r] = "config" /\ (key'[r] # NoKey \/ Missing(r) \/ Missing(r)')
             \/ pc[r] = "config" /\ pc'[r] = "delete" /\ key'[r] = key[r]
  <2> USE <1>5 DEF TypeOK, Goto
  <2>1. CASE Refuse(r)
    BY <2>1 DEF Refuse
  <2>2. CASE GenerateLocally(r)
    BY <2>2 DEF GenerateLocally
  <2>3. CASE TakeName(r)
    BY <2>3 DEF TakeName, NewName
  <2>4. CASE Create(r)
    BY <2>4, <1>3, PerformFacts, KeyGenerationAssumption DEF Create, Calls
  <2>5. CASE CreateFails(r)
    BY <2>5 DEF CreateFails
  <2>6. CASE Export(r)
    BY <2>6 DEF Export
  <2>7. CASE ExportFails(r)
    <3>1. CASE keys[name[r]] = NoKey
      BY <2>7, <3>1 DEF ExportFails, AfterExport, Exportable
    <3>2. CASE Hurt(r)
      BY <2>7, <3>2 DEF ExportFails, AfterExport, Hurt, Missing
    <3> QED
      BY <2>7, <3>1, <3>2 DEF ExportFails
  <2>8. CASE AllowDeletion(r)
    BY <2>8 DEF AllowDeletion
  <2>9. CASE AllowDeletionFails(r)
    BY <2>9 DEF AllowDeletionFails
  <2>10. CASE Delete(r)
    BY <2>10 DEF Delete, Result
  <2>11. CASE DeleteFails(r)
    BY <2>11 DEF DeleteFails, Result
  <2>12. CASE Retry(r)
    BY <2>12 DEF Retry
  <2> QED
    BY <1>5, <2>1, <2>2, <2>3, <2>4, <2>5, <2>6, <2>7, <2>8, <2>9, <2>10, <2>11, <2>12 DEF HandlerStep
<1>6. ASSUME NEW r \in Requests, HandlerStep(r), r # q
      PROVE  pc'[q] = pc[q] /\ key'[q] = key[q]
  BY <1>6, HandlerFacts DEF TypeOK
<1>7. ASSUME NEW c \in late, LateCall(c) PROVE pc'[q] = pc[q] /\ key'[q] = key[q]
  BY <1>7 DEF LateCall, handlerVars
<1>8. CASE Tick \/ UNCHANGED vars
  BY <1>4, <1>8 DEF Tick, vars, handlerVars
<1>9. CASE Crash
  <2>1. pc'[q] \notin {"export", "config", "delete"}
    BY <1>9 DEF Crash, TypeOK, Calls
  <2> QED
    BY <2>1
<1>10. ASSUME NEW r \in Requests, HandlerStep(r), r = q
       PROVE  /\ pc'[q] = "export" => keys'[name'[q]] # NoKey \/ Missing(q)'
              /\ pc'[q] \in {"config", "delete"} => key'[q] # NoKey \/ Missing(q)'
  BY <1>2, <1>4, <1>5, <1>10 DEF Exportable
<1> QED
  BY <1>4, <1>6, <1>7, <1>8, <1>9, <1>10 DEF Next, Finished

(* A request that fails has lost its key before the cleanup.               *)
LEMMA CleanupStep ==
  TypeOK /\ Exportable /\ CleanupCostsNothing /\ [Next]_vars => CleanupCostsNothing'
<1> SUFFICES ASSUME TypeOK, Exportable, CleanupCostsNothing, [Next]_vars,
                    NEW q \in Requests, pc'[q] = "failed", Feasible(config')
             PROVE  Missing(q)'
  BY DEF CleanupCostsNothing, Missing
<1>1. Kept
  BY KeptStep
<1>2. pc[q] # "start" /\ Missing(q) => Missing(q)'
  BY ExcusesKept
<1>3. Feasible(config)
  BY <1>1 DEF Kept
<1>4. CASE pc[q] = "failed"
  BY <1>2, <1>3, <1>4 DEF CleanupCostsNothing, Missing
<1>5. ASSUME NEW r \in Requests, HandlerStep(r), r = q, pc[q] # "failed"
      PROVE  \/ Missing(q) /\ pc[q] # "start"
             \/ Missing(q)'
  <2> USE <1>3, <1>5 DEF TypeOK, Goto
  <2>1. CASE Refuse(r)
    BY <2>1 DEF Refuse
  <2>2. CASE GenerateLocally(r)
    BY <2>2 DEF GenerateLocally
  <2>3. CASE TakeName(r)
    BY <2>3 DEF TakeName, NewName
  <2>4. CASE Create(r)
    BY <2>4 DEF Create
  <2>5. CASE CreateFails(r)
    BY <2>5 DEF CreateFails, Hurt, Missing
  <2>6. CASE Export(r)
    BY <2>6 DEF Export
  <2>7. CASE ExportFails(r)
    BY <2>7 DEF ExportFails, AfterExport
  <2>8. CASE AllowDeletion(r)
    BY <2>8 DEF AllowDeletion
  <2>9. CASE AllowDeletionFails(r)
    BY <2>9 DEF AllowDeletionFails
  <2>10. CASE Delete(r)
    BY <2>10 DEF Delete, Result, Exportable
  <2>11. CASE DeleteFails(r)
    BY <2>11 DEF DeleteFails, Result, Exportable
  <2>12. CASE Retry(r)
    BY <2>12 DEF Retry, Calls
  <2> QED
    BY <1>5, <2>1, <2>2, <2>3, <2>4, <2>5, <2>6, <2>7, <2>8, <2>9, <2>10, <2>11, <2>12 DEF HandlerStep
<1>6. ASSUME NEW r \in Requests, HandlerStep(r), r # q PROVE pc'[q] = pc[q]
  BY <1>6, HandlerFacts DEF TypeOK
<1>7. ASSUME NEW c \in late, LateCall(c) PROVE pc'[q] = pc[q]
  BY <1>7 DEF LateCall, handlerVars
<1>8. CASE Tick \/ UNCHANGED vars
  BY <1>4, <1>8 DEF Tick, vars, handlerVars
<1>9. CASE Crash
  BY <1>4, <1>9 DEF Crash, TypeOK
<1> QED
  BY <1>2, <1>4, <1>5, <1>6, <1>7, <1>8, <1>9 DEF Next, Finished

(* While a key is stored, somebody is there to delete it.                  *)
LEMMA CleanedStep ==
  TypeOK /\ NamedFirst /\ LateOwned /\ Cleaned /\ [Next]_vars => Cleaned'
<1> SUFFICES ASSUME TypeOK, NamedFirst, LateOwned, Cleaned, [Next]_vars,
                    NEW n \in Times, keys'[n] # NoKey, ~Excused(n), ~Excused(n)'
             PROVE  \E r \in ActiveAt(n)' :
                      pc'[r] \in {"export", "config"} \/ (pc'[r] = "delete" /\ deletable'[n])
  BY ExcusesKept DEF Cleaned, Cleanable
<1> DEFINE Engine == keys'[n] = keys[n] /\ deletable'[n] = deletable[n]
           Cleaner(r) ==
             /\ r \in ActiveAt(n)
             /\ pc[r] \in {"export", "config"} \/ (pc[r] = "delete" /\ deletable[n])
<1>1. Kept /\ Named \subseteq Named'
  BY KeptStep
<1>2. keys[n] # NoKey => \E s \in Requests : Cleaner(s)
  BY DEF Cleaned, Cleanable, ActiveAt, Named
<1>3. ASSUME NEW s \in Requests, Cleaner(s), pc'[s] = pc[s], pc[s] = "delete" => deletable'[n]
      PROVE  Cleaner(s)'
  BY <1>1, <1>3 DEF Kept, ActiveAt, Named
<1>4. SUFFICES \E s \in Requests : Cleaner(s)'
  BY DEF ActiveAt, Named
<1>5. ASSUME NEW r \in Requests, Unanswered(r), Hurt(r), pc[r] \in Calls
      PROVE  Engine /\ (name[r] = n => pc[r] = "export")
  <2>1. r \in Named /\ name[r] \in Times
    BY <1>5 DEF NamedFirst, TypeOK
  <2>2. ASSUME name[r] = n PROVE pc[r] = "export"
    <3>1. r \in Named' /\ name'[r] = n
      BY <1>1, <2>1, <2>2 DEF Kept, Named
    <3>2. pc[r] \in hurt'[r]
      BY <1>5 DEF Hurt, TypeOK
    <3> QED
      BY <1>5, <3>1, <3>2 DEF Excused, Calls
  <2>3. Engine
    BY <1>5, <2>1, <2>2, PerformFacts DEF Unanswered, engineVars
  <2> QED
    BY <2>2, <2>3
<1>6. ASSUME NEW r \in Requests, HandlerStep(r) PROVE \E s \in Requests : Cleaner(s)'
  <2>1. ASSUME NEW s \in Requests \ {r} PROVE pc'[s] = pc[s]
    BY <1>6, <2>1, HandlerFacts DEF TypeOK
  <2>2. ASSUME NEW s \in Requests, Cleaner(s), s # r, pc[s] = "delete" => deletable'[n]
        PROVE  Cleaner(s)'
    BY <1>3, <2>1, <2>2
  <2>3. CASE Engine /\ (name[r] # n \/ pc[r] \notin {"export", "config", "delete"})
    BY <1>2, <2>2, <2>3 DEF ActiveAt
  <2>4. CASE Refuse(r) \/ GenerateLocally(r) \/ TakeName(r)
    BY <2>3, <2>4 DEF Refuse, GenerateLocally, TakeName, engineVars
  <2>5. CASE Create(r)
    <3>1. CASE name[r] = n
      <4>1. r \in Named' /\ name'[r] = n /\ pc'[r] = "export"
        BY <1>1, <2>5, <3>1 DEF Create, Goto, TypeOK, NamedFirst, Calls
      <4> QED
        BY <4>1 DEF ActiveAt, Calls
    <3>2. CASE name[r] # n
      <4>1. Engine
        BY <2>5, <3>2, PerformFacts DEF Create, TypeOK, Calls
      <4> QED
        BY <2>3, <3>2, <4>1
    <3> QED
      BY <3>1, <3>2
  <2>6. CASE CreateFails(r) \/ AllowDeletionFails(r) \/ DeleteFails(r)
    BY <1>5, <2>3, <2>6 DEF CreateFails, AllowDeletionFails, DeleteFails, Calls
  <2>7. CASE Export(r) \/ ExportFails(r)
    <3>1. Engine /\ pc[r] = "export" /\ pc'[r] = "config" /\ name'[r] = name[r]
      BY <2>7 DEF Export, ExportFails, AfterExport, Goto, engineVars, TypeOK
    <3>2. r \in Named'
      BY <1>1, <3>1 DEF NamedFirst, Calls
    <3>3. CASE name[r] = n
      BY <3>1, <3>2, <3>3 DEF ActiveAt, Calls
    <3> QED
      BY <2>3, <3>1, <3>3
  <2>8. CASE AllowDeletion(r)
    <3>1. Perform("config", r, name[r]) /\ pc[r] = "config" /\ pc'[r] = "delete" /\ name'[r] = name[r]
      BY <2>8 DEF AllowDeletion, Goto, TypeOK
    <3>2. r \in Named' /\ name[r] \in Times
      BY <1>1, <3>1 DEF NamedFirst, Calls, TypeOK
    <3>3. CASE name[r] = n
      <4>1. deletable'[n]
        BY <3>1, <3>2, <3>3, PerformFacts DEF Calls
      <4> QED
        BY <3>1, <3>2, <3>3, <4>1 DEF ActiveAt, Calls
    <3>4. CASE name[r] # n
      <4>1. Engine
        BY <3>1, <3>2, <3>4, PerformFacts DEF Calls
      <4> QED
        BY <2>3, <3>4, <4>1
    <3> QED
      BY <3>3, <3>4
  <2>9. CASE Delete(r)
    <3>1. Perform("delete", r, name[r]) /\ pc[r] = "delete" /\ name[r] \in Times
      BY <2>9 DEF Delete, TypeOK
    <3>2. CASE name[r] = n
      <4>1. ~deletable[n] /\ keys[n] # NoKey
        BY <3>1, <3>2, PerformFacts DEF Calls
      <4>2. PICK s \in Requests : Cleaner(s)
        BY <1>2, <4>1
      <4> QED
        BY <2>2, <3>1, <4>1, <4>2
    <3>3. CASE name[r] # n
      <4>1. Engine
        BY <3>1, <3>3, PerformFacts DEF Calls
      <4> QED
        BY <2>3, <3>3, <4>1
    <3> QED
      BY <3>2, <3>3
  <2>10. CASE Retry(r)
    <3>1. Engine /\ pc' = pc
      BY <1>5, <2>10 DEF Retry
    <3> QED
      BY <1>2, <1>3, <3>1
  <2> QED
    BY <1>6, <2>4, <2>5, <2>6, <2>7, <2>8, <2>9, <2>10 DEF HandlerStep
<1>7. ASSUME NEW c \in late, LateCall(c) PROVE \E s \in Requests : Cleaner(s)'
  <2>1. /\ c.req \in Named /\ name[c.req] = c.name
        /\ c.call \in hurt[c.req]
        /\ c.call \in {"create", "config", "delete"}
        /\ c.req \in Requests /\ c.name \in Times
    BY DEF LateOwned, TypeOK, LateCalls, Calls
  <2>2. c.name # n
    BY <2>1 DEF Excused
  <2>3. Engine /\ pc' = pc
    BY <1>7, <2>1, <2>2, PerformFacts DEF LateCall, handlerVars, Calls
  <2> QED
    BY <1>2, <1>3, <2>3
<1>8. CASE Tick \/ UNCHANGED vars
  <2>1. Engine /\ pc' = pc
    BY <1>8 DEF Tick, vars, handlerVars, engineVars
  <2> QED
    BY <1>2, <1>3, <2>1
<1>9. CASE Crash
  <2>1. PICK s \in Requests : Cleaner(s)
    BY <1>2, <1>9 DEF Crash, engineVars
  <2>2. s \in Named' /\ name'[s] = n /\ pc'[s] = "dead"
    BY <1>1, <1>9, <2>1 DEF Crash, ActiveAt, TypeOK
  <2> QED
    BY <2>2 DEF Excused
<1> QED
  BY <1>6, <1>7, <1>8, <1>9 DEF Next, Finished

LEMMA StepIInv == IInv /\ [Next]_vars => IInv'
BY TypeStep, NamedStep, KeysStep, LateStep, HeldStep, ExportableStep,
   CleanupStep, CleanedStep DEF IInv

LEMMA Invariant == Spec => []IInv
BY InitIInv, StepIInv, PTL DEF Spec
-------------------------------------------------------------------------------
(* Key generation keeps its state well typed.                              *)
THEOREM TypeCorrect == Spec => []TypeOK
<1>1. IInv => TypeOK
  BY DEF IInv
<1> QED
  BY <1>1, Invariant, PTL

(* No request gets the key of another one, unless both read the same time  *)
(* from the clock (GenerateExportableKey).                                 *)
THEOREM KeysReachTheirOwner == Spec => []OwnKeyDelivered
<1>1. IInv => OwnKeyDelivered
  BY DEF IInv, HeldOwned, OwnKeyDelivered, Clash
<1> QED
  BY <1>1, Invariant, PTL

(* Only lost calls that make or fetch the key, or such a clash, cost a     *)
(* client its key (the deferred function of GenerateExportableKey).        *)
THEOREM CleanupIsFree == Spec => []CleanupCostsNothing
<1>1. IInv => CleanupCostsNothing
  BY DEF IInv
<1> QED
  BY <1>1, Invariant, PTL

(* No private key stays in Transit but for a fault in a call that writes,  *)
(* or a crash (the deferred function of GenerateExportableKey).            *)
THEOREM KeysAreDeleted == Spec => []NoKeyLeftBehind
<1>1. IInv => NoKeyLeftBehind
  BY DEF IInv, Cleaned, Cleanable, NoKeyLeftBehind
<1> QED
  BY <1>1, Invariant, PTL

(* Every key handed out is as strong as MinRSAKeySize and the list of      *)
(* curves say, wherever it is made (generateKeyPair, mapToTransitKeyType). *)
THEOREM KeysAreStrong == Spec => []KeyStrength
<1>1. IInv => KeyStrength
  <2> SUFFICES ASSUME TypeOK, HeldOwned, NEW r \in Requests, key[r] # NoKey
               PROVE  IF IsRSA(config) THEN Size(config) >= 2048
                                       ELSE Size(config) \in {256, 384, 521}
    BY DEF IInv, KeyStrength
  <2>1. TransitKind(config) \/ LocalKind(config)
    BY DEF HeldOwned, Feasible
  <2> QED
    BY <2>1 DEF TransitKind, LocalKind, IsRSA, IsEC
<1> QED
  BY <1>1, Invariant, PTL
===============================================================================
