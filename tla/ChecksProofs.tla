------------------------------ MODULE ChecksProofs ------------------------------
(***************************************************************************)
(* Proofs about Checks, for every body, list of names and configuration.   *)
(***************************************************************************)
EXTENDS Checks, FiniteSetTheorems, FunctionTheorems, TLAPS

(* Counting the elements of two lists tells whether they are reordered.    *)
LEMMA CountsReorder ==
  ASSUME NEW S, NEW a \in Seq(S), NEW b \in Seq(S), StringSlicesEqual(a, b)
  PROVE  Reordered(a, b)
<1> DEFINE A(v) == {i \in DOMAIN a : a[i] = v}
           B(v) == {i \in DOMAIN b : b[i] = v}
<1>1. /\ DOMAIN a = 1..Len(a)
      /\ DOMAIN b = DOMAIN a
      /\ IsFiniteSet(DOMAIN a)
  <2>1. Len(a) \in Nat /\ DOMAIN a = 1..Len(a) /\ DOMAIN b = 1..Len(b)
    OBVIOUS
  <2>2. Len(a) = Len(b)
    BY DEF StringSlicesEqual
  <2>3. IsFiniteSet(1..Len(a))
    BY <2>1, FS_Interval
  <2> QED BY <2>1, <2>2, <2>3
<1>2. \A v \in Elements(a) : Bijection(A(v), B(v)) # {}
  <2> SUFFICES ASSUME NEW v \in Elements(a) PROVE Bijection(A(v), B(v)) # {}
    OBVIOUS
  <2>1. IsFiniteSet(A(v)) /\ IsFiniteSet(B(v))
    BY <1>1, FS_Subset
  <2>2. Cardinality(A(v)) = Cardinality(B(v))
    BY DEF StringSlicesEqual, Count
  <2>3. ExistsBijection(A(v), B(v))
    BY <2>1, <2>2, FS_SameCardinalityBij
  <2> QED BY <2>3, Fun_ExistsBij
<1> DEFINE g(v) == CHOOSE h \in Bijection(A(v), B(v)) : TRUE
           f == [i \in DOMAIN a |-> g(a[i])[i]]
<1>3. ASSUME NEW v \in Elements(a)
      PROVE  /\ g(v) \in [A(v) -> B(v)]
             /\ \A i, j \in A(v) : g(v)[i] = g(v)[j] => i = j
  <2>1. g(v) \in Bijection(A(v), B(v))
    BY <1>2
  <2> HIDE DEF g
  <2> QED BY <2>1, Fun_BijectionProperties
<1> HIDE DEF g
<1>4. ASSUME NEW i \in DOMAIN a
      PROVE  f[i] \in DOMAIN b /\ b[f[i]] = a[i]
  <2>1. a[i] \in Elements(a) /\ i \in A(a[i])
    BY DEF Elements
  <2>2. f[i] = g(a[i])[i]
    OBVIOUS
  <2>3. g(a[i]) \in [A(a[i]) -> B(a[i])]
    BY <2>1, <1>3
  <2>4. f[i] \in B(a[i])
    BY <2>1, <2>2, <2>3
  <2> QED BY <2>4
<1>5. ASSUME NEW i \in DOMAIN a, NEW j \in DOMAIN a, f[i] = f[j]
      PROVE  i = j
  <2>1. a[i] = a[j]
    BY <1>4, <1>5
  <2>2. a[i] \in Elements(a) /\ i \in A(a[i]) /\ j \in A(a[i])
    BY <2>1 DEF Elements
  <2>3. g(a[i])[i] = g(a[i])[j]
    BY <2>1, <1>5
  <2> QED BY <2>2, <2>3, <1>3
<1>6. f \in Injection(DOMAIN a, DOMAIN b)
  <2>1. f \in [DOMAIN a -> DOMAIN b]
    BY <1>4
  <2> HIDE DEF f
  <2> QED BY <2>1, <1>5, Fun_IsInj
<1> HIDE DEF f
<1>7. f \in Surjection(DOMAIN a, DOMAIN b)
  BY <1>1, <1>6, FS_Injection
<1>8. f \in Bijection(DOMAIN a, DOMAIN b)
  BY <1>6, <1>7, Fun_IsBij
<1> QED BY <1>4, <1>8 DEF Reordered

LEMMA IntervalCard ==
  ASSUME NEW n \in Nat PROVE Cardinality(1..n) = n
BY FS_Interval

(* And reordering a list does not change the counts.                       *)
LEMMA ReorderedCounts ==
  ASSUME NEW S, NEW a \in Seq(S), NEW b \in Seq(S), Reordered(a, b)
  PROVE  StringSlicesEqual(a, b)
<1>1. PICK f \in Bijection(DOMAIN a, DOMAIN b) : \A i \in DOMAIN a : a[i] = b[f[i]]
  BY DEF Reordered
<1>2. /\ f \in [DOMAIN a -> DOMAIN b]
      /\ \A i, j \in DOMAIN a : f[i] = f[j] => i = j
      /\ \A k \in DOMAIN b : \E i \in DOMAIN a : f[i] = k
  BY Fun_BijectionProperties, Fun_SurjectionProperties
<1>3. /\ Len(a) \in Nat /\ Len(b) \in Nat
      /\ DOMAIN a = 1..Len(a) /\ DOMAIN b = 1..Len(b)
  OBVIOUS
<1>4. IsFiniteSet(DOMAIN a) /\ IsFiniteSet(DOMAIN b)
  BY <1>3, FS_Interval
<1>5. Len(a) = Len(b)
  <2>1. ExistsBijection(DOMAIN a, DOMAIN b)
    BY <1>1, Fun_ExistsBij
  <2>2. Cardinality(DOMAIN a) = Cardinality(DOMAIN b)
    BY <1>4, <2>1, FS_Bijection
  <2>3. Cardinality(1..Len(a)) = Len(a) /\ Cardinality(1..Len(b)) = Len(b)
    BY <1>3, IntervalCard
  <2> QED BY <1>3, <2>2, <2>3
<1>6. Elements(a) = Elements(b)
  BY <1>1, <1>2 DEF Elements
<1>7. ASSUME NEW v PROVE Count(b, v) = Count(a, v)
  <2> DEFINE A == {i \in DOMAIN a : a[i] = v}
             B == {i \in DOMAIN b : b[i] = v}
             h == [i \in A |-> f[i]]
  <2>1. h \in [A -> B]
    BY <1>1, <1>2
  <2>2. \A i, j \in A : h[i] = h[j] => i = j
    BY <1>2
  <2>3. \A k \in B : \E i \in A : h[i] = k
    BY <1>1, <1>2
  <2>4. h \in Bijection(A, B)
    <3> HIDE DEF h, A, B
    <3> QED BY <2>1, <2>2, <2>3, Fun_IsBij
  <2>5. IsFiniteSet(A)
    BY <1>4, FS_Subset
  <2>6. Cardinality(B) = Cardinality(A)
    BY <2>4, <2>5, Fun_ExistsBij, FS_Bijection
  <2> QED BY <2>6 DEF Count
<1> QED BY <1>5, <1>6, <1>7 DEF StringSlicesEqual
-------------------------------------------------------------------------------
(* What ParseBackendError can say; and what the client did wrong is found  *)
(* before anything else.                                                   *)
LEMMA Advised ==
  ASSUME NEW words \in SUBSET Words
  PROVE  LET error == ParseBackendError(words)
         IN  /\ error.status \in {400, 401, 403, 404, 502, 503}
             /\ error.retry \in {0, 30, 120}
             /\ error.status = 503 <=> error.retry > 0
             /\ words \cap {"denied", "unauthorized", "invalid", "missing"} # {}
                  => error.status \in {400, 401, 403, 404}
<1> DEFINE error == ParseBackendError(words)
           First(i) == Order[i] \in words /\ \A j \in 1..(i - 1) : Order[j] \notin words
<1>1. CASE words = {}
  BY <1>1 DEF ParseBackendError, Advice
<1>2. CASE words # {}
  <2>1. \E i \in 1..7 : First(i)
    <3>1. \E i \in 1..7 : Order[i] \in words
      <4>1. PICK w \in words : TRUE
        BY <1>2
      <4>2. \E i \in 1..7 : Order[i] = w
        <5>1. /\ Order[1] = "denied" /\ Order[2] = "unauthorized" /\ Order[3] = "invalid"
              /\ Order[4] = "missing" /\ Order[5] = "unreachable"
              /\ Order[6] = "sealed" /\ Order[7] = "failed"
          BY DEF Order
        <5> QED BY <4>1, <5>1 DEF Words
      <4> QED BY <4>2
    <3>2. CASE Order[1] \in words
      <4>1. First(1)
        BY <3>2
      <4> QED BY <4>1
    <3>3. CASE Order[1] \notin words /\ Order[2] \in words
      <4>1. First(2)
        BY <3>3
      <4> QED BY <4>1
    <3>4. CASE (\A j \in 1..2 : Order[j] \notin words) /\ Order[3] \in words
      <4>1. First(3)
        BY <3>4
      <4> QED BY <4>1
    <3>5. CASE (\A j \in 1..3 : Order[j] \notin words) /\ Order[4] \in words
      <4>1. First(4)
        BY <3>5
      <4> QED BY <4>1
    <3>6. CASE (\A j \in 1..4 : Order[j] \notin words) /\ Order[5] \in words
      <4>1. First(5)
        BY <3>6
      <4> QED BY <4>1
    <3>7. CASE (\A j \in 1..5 : Order[j] \notin words) /\ Order[6] \in words
      <4>1. First(6)
        BY <3>7
      <4> QED BY <4>1
    <3>8. CASE \A j \in 1..6 : Order[j] \notin words
      <4>1. First(7)
        BY <3>1, <3>8
      <4> QED BY <4>1
    <3> HIDE DEF First
    <3> QED BY <3>2, <3>3, <3>4, <3>5, <3>6, <3>7, <3>8
  <2> DEFINE first == CHOOSE i \in 1..7 : First(i)
  <2>2. first \in 1..7 /\ First(first)
    <3> HIDE DEF First
    <3> QED BY <2>1
  <2>3. error = Advice[Order[first]]
    BY <1>2 DEF ParseBackendError
  <2> HIDE DEF first, error
  <2>4. /\ error.status \in {400, 401, 403, 404, 502, 503}
        /\ error.retry \in {0, 30, 120}
        /\ error.status = 503 <=> error.retry > 0
        /\ first \in 1..4 => error.status \in {400, 401, 403, 404}
    BY <2>2, <2>3 DEF Advice, Order
  <2>5. words \cap {"denied", "unauthorized", "invalid", "missing"} # {}
          => first \in 1..4
    BY <2>2 DEF Order
  <2> QED BY <2>4, <2>5 DEF error
<1> QED BY <1>1, <1>2

LEMMA SigningFailsAdvice ==
  ASSUME NEW code \in ErrorCodes, NEW words \in Messages
  PROVE  LET error == ParseBackendError(WordsOf(code) \cup words)
         IN  /\ error.status \in {400, 401, 403, 404, 502, 503}
             /\ error.retry \in {0, 30, 120}
             /\ error.status = 503 <=> error.retry > 0
             /\ code \in {400, 401, 403, 404}
                  => error.status \in {400, 401, 403, 404}
<1>1. words \in SUBSET Words
  BY ChecksAssumption
<1>2. WordsOf(code) \in SUBSET Words
  BY DEF WordsOf, Words, ErrorCodes
<1>3. code \in {400, 401, 403, 404}
        => WordsOf(code) \cap {"denied", "unauthorized", "invalid", "missing"} # {}
  BY DEF WordsOf
<1> QED BY <1>1, <1>2, <1>3, Advised
-------------------------------------------------------------------------------
LEMMA KeptType ==
  ASSUME NEW s \in Seq(Values)
  PROVE  Kept(s) \in Seq(Values) /\ Kept(Kept(s)) = Kept(s)
BY DEF Kept

LEMMA RemadeType ==
  ASSUME NEW c \in CSRType, NEW key \in Keys
  PROVE  Remade(c, key) \in CSRType
<1>1. c.subject \in SubjectType /\ c.sans \in SansType
  BY DEF CSRType
<1>2. Kept(c.subject.single) \in Seq(Values) /\ c.subject.listed \in Seq(Values)
  BY <1>1, KeptType DEF SubjectType
<1>3. <<>> \in Seq(Values)
  OBVIOUS
<1>4. Remade(c, key).subject \in SubjectType
  BY <1>2, <1>3 DEF Remade, SubjectType
<1> QED BY <1>1, <1>4 DEF Remade, CSRType, Algorithms, Known

LEMMA InputTypes ==
  ASSUME input \in Inputs, setting \in Settings
  PROVE  /\ input.op \in {"enroll", "reenroll", "serverkeygen"}
         /\ input.length \in Nat
         /\ input.declared \in Nat \cup {-1}
         /\ input.holds \in CSRType \cup {NoCSR}
         /\ input.cert \in CertType \cup {NoCert}
         /\ Limit \in Nat \ {0}
BY ChecksAssumption DEF InputType, SettingType, Limit, MaxCSRSize

(* The texts of two lists of names are lists of texts.                     *)
LEMMA TextsType ==
  ASSUME NEW c \in CSRType, NEW cert \in CertType, NEW kind \in SanKinds
  PROVE  Texts(c.sans[kind]) \in Seq(Values) /\ Texts(cert.sans[kind]) \in Seq(Values)
<1>1. c.sans[kind] \in Seq(NameType) /\ cert.sans[kind] \in Seq(NameType)
  BY DEF CSRType, CertType, SansType
<1>2. ASSUME NEW s \in Seq(NameType) PROVE Texts(s) \in Seq(Values)
  <2>1. s \in [1..Len(s) -> NameType] /\ Len(s) \in Nat /\ DOMAIN s = 1..Len(s)
    OBVIOUS
  <2>2. Texts(s) \in [1..Len(s) -> Values]
    BY <2>1 DEF Texts, NameType
  <2> QED BY <2>1, <2>2
<1> QED BY <1>1, <1>2
-------------------------------------------------------------------------------
(* How far the request has come, and what that says of it.                 *)
Parsed == {"algorithm", "signature", "key", "names", "ask", "sign"}

Passed ==
  /\ got <= input.length
  /\ csr # NoCSR => csr = input.holds /\ got = input.length /\ got <= Limit
  /\ at \in {"length", "read", "decode"} => csr = NoCSR
  /\ at = "decode" => got = input.length /\ got <= Limit
  /\ at \in Parsed => csr # NoCSR
  /\ at \in Parsed \ {"ask", "sign"} => input.op # "serverkeygen"
  /\ at \in {"key", "names"} => input.op = "reenroll" /\ input.cert # NoCert

Checked ==
  /\ at \in Parsed \ {"algorithm"} /\ input.op # "serverkeygen" => Allowed(csr.alg)
  /\ at \in Parsed \ {"algorithm", "signature"} /\ input.op # "serverkeygen"
       => csr.signed
  /\ at \in {"names", "ask", "sign"} /\ input.op = "reenroll" /\ input.cert # NoCert
       => csr.key = input.cert.key
  /\ at \in {"ask", "sign"} /\ input.op = "reenroll" /\ input.cert # NoCert
       => SameNames(csr, input.cert)

Silent ==
  /\ at # "done" => status = 0 /\ retry = 0 /\ reply = NoReply
  /\ at \notin {"sign", "done"} => asked = NoCSR
  /\ at = "sign" => asked # NoCSR

IInv == TypeOK /\ Passed /\ Checked /\ Silent /\ AskedForGood /\ StatusTruthful

LEMMA InitInv == Init => IInv
<1> SUFFICES ASSUME Init PROVE IInv
  OBVIOUS
<1> USE DEF Init
<1>1. TypeOK
  BY InputTypes DEF TypeOK, Steps, NoReply, ErrorCodes
<1>2. Passed /\ Checked /\ Silent
  BY InputTypes DEF Passed, Checked, Silent, Parsed
<1>3. AskedForGood /\ StatusTruthful
  BY DEF AskedForGood, StatusTruthful, NoReply
<1> QED BY <1>1, <1>2, <1>3 DEF IInv

(* The texts of a renewal that is let through are a reordering of those in *)
(* the certificate, and so is nothing that is refused.                     *)
LEMMA SameNamesReorder ==
  ASSUME NEW c \in CSRType, NEW cert \in CertType
  PROVE  SameNames(c, cert) <=>
           \/ c.change
           \/ /\ SubjectString(c.subject) = SubjectString(cert.subject)
              /\ \A kind \in SanKinds :
                   Reordered(Texts(c.sans[kind]), Texts(cert.sans[kind]))
<1>1. ASSUME NEW kind \in SanKinds
      PROVE  StringSlicesEqual(Texts(c.sans[kind]), Texts(cert.sans[kind]))
             <=> Reordered(Texts(c.sans[kind]), Texts(cert.sans[kind]))
  BY TextsType, CountsReorder, ReorderedCounts
<1> QED BY <1>1 DEF SameNames

(* AskedForGood is what the checks passed by "ask" say of the CSR.         *)
LEMMA AskGood == IInv /\ Ask => AskedForGood'
<1> SUFFICES ASSUME IInv, Ask PROVE AskedForGood'
  OBVIOUS
<1> USE DEF IInv, TypeOK
<1>1. /\ csr \in CSRType /\ csr = input.holds /\ got = input.length /\ got <= Limit
      /\ input' = input /\ setting' = setting /\ got' = got
  BY DEF Ask, Passed, Parsed
<1>2. csr.subject.single \in Seq(Values)
  BY <1>1 DEF CSRType, SubjectType
<1>3. Limit' = Limit
  BY <1>1 DEF Limit, MaxCSRSize
<1>4. CASE input.op = "serverkeygen"
  <2>1. PICK key \in Keys : asked' = Remade(csr, key)
    BY <1>4 DEF Ask
  <2>2. /\ Kept(asked'.subject.single) = Kept(csr.subject.single)
        /\ asked'.subject.listed = csr.subject.listed
        /\ asked'.sans = csr.sans
    BY <1>2, <2>1, KeptType DEF Remade
  <2> QED BY <1>1, <1>3, <1>4, <2>2 DEF AskedForGood
<1>5. CASE input.op # "serverkeygen"
  <2>1. asked' = csr
    BY <1>5 DEF Ask
  <2>2. csr.signed /\ Allowed(csr.alg)
    BY <1>5 DEF Ask, Checked, Parsed
  <2>3. ASSUME input.op = "reenroll", input.cert # NoCert
        PROVE  /\ csr.key = input.cert.key
               /\ \/ csr.change
                  \/ /\ Kept(csr.subject.single) = Kept(input.cert.subject.single)
                     /\ csr.subject.listed = input.cert.subject.listed
                     /\ \A kind \in SanKinds :
                          Reordered(Texts(csr.sans[kind]), Texts(input.cert.sans[kind]))
    <3>1. input.cert \in CertType
      BY <2>3, InputTypes
    <3>2. csr.key = input.cert.key /\ SameNames(csr, input.cert)
      BY <2>3 DEF Ask, Checked
    <3> QED BY <1>1, <3>1, <3>2, SameNamesReorder DEF SubjectString
  <2> QED BY <1>1, <1>3, <1>5, <2>1, <2>2, <2>3 DEF AskedForGood, Allowed
<1> QED BY <1>4, <1>5

(* A renewal that CompareNames refuses is Faulty.                          *)
LEMMA RefusedFaulty ==
  IInv /\ (CheckAlgorithm \/ CheckSignature \/ CompareKeys \/ CompareNames)
       /\ status' = 400 => Faulty
<1> SUFFICES ASSUME IInv, status' = 400,
                    CheckAlgorithm \/ CheckSignature \/ CompareKeys \/ CompareNames
             PROVE  Faulty
  OBVIOUS
<1> USE DEF IInv, TypeOK
<1>1. /\ csr \in CSRType /\ csr = input.holds /\ input.op # "serverkeygen"
      /\ status = 0
  BY DEF CheckAlgorithm, CheckSignature, CompareKeys, CompareNames, Passed, Silent, Parsed
<1>2. CASE CheckAlgorithm
  BY <1>1, <1>2 DEF CheckAlgorithm, Goto, Faulty
<1>3. CASE CheckSignature
  BY <1>1, <1>3 DEF CheckSignature, Goto, Faulty
<1>4. CASE CompareKeys
  BY <1>1, <1>4 DEF CompareKeys, Goto, Faulty, Passed
<1>5. CASE CompareNames
  <2>1. input.op = "reenroll" /\ input.cert \in CertType
    BY <1>5, InputTypes DEF CompareNames, Passed
  <2>2. ~SameNames(csr, input.cert)
    BY <1>1, <1>5 DEF CompareNames, Goto
  <2> QED BY <1>1, <2>1, <2>2, SameNamesReorder, InputTypes, ChecksAssumption DEF Faulty
<1> QED BY <1>2, <1>3, <1>4, <1>5
-------------------------------------------------------------------------------
(* What the steps before the CA is asked do to the invariant.              *)
LEMMA BodyStep ==
  IInv /\ (CheckLength \/ ReadSome \/ EndRead \/ ReadFails \/ Decode) => IInv'
<1> SUFFICES ASSUME IInv, CheckLength \/ ReadSome \/ EndRead \/ ReadFails \/ Decode
             PROVE  IInv'
  OBVIOUS
<1> USE DEF IInv, TypeOK, Goto, Refuse
<1>1. /\ input \in Inputs /\ setting \in Settings
      /\ input' = input /\ setting' = setting /\ asked' = asked /\ reply' = reply
      /\ Limit' = Limit /\ retry' = retry
  BY DEF CheckLength, ReadSome, EndRead, ReadFails, Decode, Limit, MaxCSRSize
<1>2. /\ asked = NoCSR /\ reply = NoReply /\ status = 0 /\ retry = 0 /\ csr = NoCSR
      /\ at \in {"length", "read", "decode"}
  BY DEF CheckLength, ReadSome, EndRead, ReadFails, Decode, Silent, Passed
<1>3. /\ input.length \in Nat /\ Limit \in Nat \ {0}
      /\ input.declared \in Nat \cup {-1}
      /\ input.holds \in CSRType \cup {NoCSR}
  BY <1>1, InputTypes
<1>4. got' \in 0..(Limit + 1) /\ got' <= input.length
  <2>1. CASE ReadSome
    <3>1. PICK n \in 1..(Limit + 1 - got) : n <= input.length - got /\ got' = got + n
      BY <2>1 DEF ReadSome, Room
    <3> QED BY <1>3, <3>1
  <2>2. CASE got' = got
    BY <1>1, <2>2 DEF Passed
  <2> QED BY <2>1, <2>2 DEF CheckLength, EndRead, ReadFails, Decode
<1>5. /\ status' \in {0, 400, 413}
      /\ status' = 413 => input.length > Limit \/ input.declared > Limit
      /\ at' # "done" => status' = 0
      /\ at' = "done" => status' \in {400, 413}
  <2>1. CASE EndRead
    <3>1. got \in Int /\ got <= input.length
      BY <1>3 DEF Passed
    <3>2. got > Limit => input.length > Limit
      BY <1>3, <3>1
    <3> QED BY <1>2, <2>1, <3>2 DEF EndRead
  <2> QED BY <1>2, <1>3, <2>1 DEF CheckLength, ReadSome, ReadFails, Decode
<1>6. /\ csr' \in CSRType \cup {NoCSR}
      /\ csr' # NoCSR => /\ csr' = input.holds /\ got' = input.length /\ got' <= Limit
                         /\ at' \in {"ask", "algorithm"}
      /\ at' \in {"length", "read", "decode"} => csr' = NoCSR
      /\ at' = "decode" => got' = input.length /\ got' <= Limit
      /\ at' \in {"length", "read", "decode", "algorithm", "ask", "done"}
      /\ at' \in {"ask", "algorithm"} => csr' # NoCSR
      /\ at' = "algorithm" => input.op # "serverkeygen"
      /\ at' = "ask" => input.op = "serverkeygen"
  <2>1. CASE EndRead
    <3>1. got = input.length \/ got = Limit + 1
      BY <2>1 DEF EndRead
    <3>2. got \in Int
      BY <1>3
    <3>3. at' = "decode" => got = input.length /\ got <= Limit
      BY <1>3, <2>1, <3>1, <3>2 DEF EndRead
    <3>4. at' \in {"decode", "done"} /\ csr' = csr /\ got' = got
      BY <2>1 DEF EndRead
    <3> QED BY <1>2, <3>3, <3>4
  <2>2. CASE Decode
    BY <1>2, <1>3, <2>2 DEF Decode, Passed
  <2> QED BY <1>2, <1>3, <2>1, <2>2 DEF CheckLength, ReadSome, ReadFails
<1>7. TypeOK'
  BY <1>1, <1>4, <1>5, <1>6 DEF Steps
<1>8. Passed' /\ Checked' /\ Silent'
  BY <1>1, <1>2, <1>4, <1>5, <1>6 DEF Passed, Checked, Silent, Parsed
<1>9. AskedForGood' /\ StatusTruthful'
  <2>1. at' \notin {"length", "read"} /\ input.length > Limit => status' \in {400, 413}
    BY <1>3, <1>4, <1>5, <1>6
  <2>2. csr' # NoCSR => status' # 400
    BY <1>5, <1>6
  <2> QED BY <1>1, <1>2, <1>3, <1>5, <2>1, <2>2 DEF AskedForGood, StatusTruthful, NoReply
<1> QED BY <1>7, <1>8, <1>9

LEMMA CheckStep ==
  IInv /\ (CheckAlgorithm \/ CheckSignature \/ CompareKeys \/ CompareNames) => IInv'
<1> SUFFICES ASSUME IInv, CheckAlgorithm \/ CheckSignature \/ CompareKeys \/ CompareNames
             PROVE  IInv'
  OBVIOUS
<1>1. status' = 400 => Faulty
  BY RefusedFaulty
<1> USE DEF IInv, TypeOK, Goto, Refuse
<1>2. /\ input' = input /\ setting' = setting /\ asked' = asked /\ reply' = reply
      /\ Limit' = Limit /\ retry' = retry /\ got' = got /\ csr' = csr
      /\ input \in Inputs /\ setting \in Settings
  BY DEF CheckAlgorithm, CheckSignature, CompareKeys, CompareNames, Limit, MaxCSRSize
<1>3. /\ asked = NoCSR /\ reply = NoReply /\ status = 0 /\ retry = 0
      /\ at \in Parsed \ {"ask", "sign"}
      /\ csr = input.holds /\ csr # NoCSR /\ input.length <= Limit
      /\ input.op # "serverkeygen"
  BY DEF CheckAlgorithm, CheckSignature, CompareKeys, CompareNames, Silent, Passed, Parsed
<1>4. /\ at' \in {"signature", "key", "names", "ask", "done"}
      /\ status' \in {0, 400}
      /\ at' # "done" <=> status' = 0
      /\ at' \in {"key", "names"} => input.op = "reenroll" /\ input.cert # NoCert
  BY <1>3 DEF CheckAlgorithm, CheckSignature, CompareKeys, CompareNames, Passed
<1>5. /\ at' # "done" => Allowed(csr.alg)
      /\ at' \notin {"signature", "done"} => csr.signed
      /\ at' = "names" => csr.key = input.cert.key
      /\ at' = "ask" /\ input.op = "reenroll" /\ input.cert # NoCert
           => csr.key = input.cert.key /\ SameNames(csr, input.cert)
  <2>1. CASE CheckAlgorithm
    BY <2>1 DEF CheckAlgorithm
  <2>2. CASE CheckSignature
    BY <1>3, <2>2 DEF CheckSignature, Checked, Parsed
  <2>3. CASE CompareKeys
    BY <1>3, <2>3 DEF CompareKeys, Checked, Parsed
  <2>4. CASE CompareNames
    BY <1>3, <2>4 DEF CompareNames, Checked, Passed, Parsed
  <2> QED BY <2>1, <2>2, <2>3, <2>4
<1>6. /\ Allowed(csr.alg) <=> Allowed(csr.alg)'
      /\ SameNames(csr, input.cert) <=> SameNames(csr, input.cert)'
  BY <1>2 DEF Allowed
<1>7. TypeOK'
  BY <1>2, <1>4 DEF Steps
<1>8. Passed'
  BY <1>2, <1>3, <1>4 DEF Passed, Parsed
<1>9. Checked'
  BY <1>2, <1>3, <1>4, <1>5, <1>6 DEF Checked, Parsed
<1>10. Silent'
  BY <1>2, <1>3, <1>4 DEF Silent, NoReply
<1>11. AskedForGood'
  BY <1>2, <1>3 DEF AskedForGood
<1>12. StatusTruthful'
  <2>1. Faulty <=> Faulty'
    BY <1>2 DEF Faulty, Allowed
  <2>2. ~(input.length > Limit)
    BY <1>2, <1>3, InputTypes
  <2> QED BY <1>1, <1>2, <1>3, <1>4, <2>1, <2>2 DEF StatusTruthful, NoReply
<1> QED BY <1>7, <1>8, <1>9, <1>10, <1>11, <1>12

LEMMA AskStep == IInv /\ Ask => IInv'
<1> SUFFICES ASSUME IInv, Ask PROVE IInv'
  OBVIOUS
<1>1. AskedForGood'
  BY AskGood
<1> USE DEF IInv, TypeOK, Goto
<1>2. /\ input' = input /\ setting' = setting /\ reply' = reply /\ Limit' = Limit
      /\ retry' = retry /\ got' = got /\ csr' = csr /\ status' = status
      /\ at = "ask" /\ at' = "sign"
  BY DEF Ask, Limit, MaxCSRSize
<1>3. csr \in CSRType /\ status = 0 /\ retry = 0 /\ reply = NoReply
  BY <1>2 DEF Passed, Parsed, Silent
<1>4. asked' \in CSRType
  BY <1>3, RemadeType DEF Ask
<1>5. TypeOK'
  BY <1>2, <1>4 DEF Steps
<1>6. Passed' /\ Silent'
  BY <1>2, <1>3, <1>4, ChecksAssumption DEF Passed, Silent, Parsed, NoReply
<1>7. Checked'
  BY <1>2 DEF Checked, Parsed, Allowed
<1>8. StatusTruthful'
  BY <1>2, <1>3, InputTypes DEF StatusTruthful, NoReply, Passed, Parsed
<1> QED BY <1>1, <1>5, <1>6, <1>7, <1>8

LEMMA AnswerStep == IInv /\ (Signed \/ SigningFails) => IInv'
<1> SUFFICES ASSUME IInv, Signed \/ SigningFails PROVE IInv'
  OBVIOUS
<1> USE DEF IInv, TypeOK
<1>1. /\ input' = input /\ setting' = setting /\ asked' = asked /\ Limit' = Limit
      /\ got' = got /\ csr' = csr /\ at = "sign" /\ at' = "done"
      /\ input \in Inputs /\ setting \in Settings
  BY DEF Signed, SigningFails, Limit, MaxCSRSize
<1>2. /\ asked # NoCSR /\ status = 0 /\ retry = 0
      /\ csr # NoCSR /\ got = input.length /\ got <= Limit
  BY <1>1 DEF Silent, Passed, Parsed
<1>3. /\ reply' \in [code : ErrorCodes \cup {200}, words : SUBSET Words]
      /\ status' \in {200, 400, 401, 403, 404, 502, 503}
      /\ retry' \in {0, 30, 120}
      /\ status' = 503 <=> retry' > 0
      /\ reply'.code \in {400, 401, 403, 404} => status' \in {400, 401, 403, 404}
  <2>1. CASE Signed
    BY <1>2, <2>1 DEF Signed
  <2>2. CASE SigningFails
    <3> DEFINE error(c, w) == ParseBackendError(WordsOf(c) \cup w)
    <3>0. \E code \in ErrorCodes, words \in Messages :
            /\ reply' = [code |-> code, words |-> words]
            /\ status' = error(code, words).status
            /\ retry' = error(code, words).retry
      BY ONLY <2>2, Zenon DEF SigningFails
    <3>1. PICK code \in ErrorCodes, words \in Messages :
            /\ reply' = [code |-> code, words |-> words]
            /\ status' = error(code, words).status
            /\ retry' = error(code, words).retry
      BY ONLY <3>0, Zenon
    <3>2. words \in SUBSET Words
      BY ChecksAssumption
    <3>3. /\ error(code, words).status \in {400, 401, 403, 404, 502, 503}
          /\ error(code, words).retry \in {0, 30, 120}
          /\ error(code, words).status = 503 <=> error(code, words).retry > 0
          /\ code \in {400, 401, 403, 404} => error(code, words).status \in {400, 401, 403, 404}
      BY <3>2, SigningFailsAdvice
    <3>4. reply'.code = code /\ status' = error(code, words).status /\ retry' = error(code, words).retry
      BY <3>1
    <3>5. reply' \in [code : ErrorCodes \cup {200}, words : SUBSET Words]
      BY <3>1, <3>2
    <3> QED BY <3>3, <3>4, <3>5
  <2> QED BY <2>1, <2>2
<1>4. TypeOK'
  BY <1>1, <1>3 DEF Steps
<1>5. Passed' /\ Checked' /\ Silent'
  BY <1>1, <1>2 DEF Passed, Checked, Silent, Parsed
<1>6. AskedForGood'
  BY <1>1 DEF AskedForGood
<1>7. StatusTruthful'
  BY <1>1, <1>2, <1>3, InputTypes DEF StatusTruthful
<1> QED BY <1>4, <1>5, <1>6, <1>7

LEMMA KeyFailsStep == IInv /\ KeyFails => IInv'
<1> SUFFICES ASSUME IInv, KeyFails PROVE IInv'
  OBVIOUS
<1> USE DEF IInv, TypeOK, Refuse
<1>1. /\ input' = input /\ setting' = setting /\ asked' = asked /\ Limit' = Limit
      /\ got' = got /\ csr' = csr /\ reply' = reply /\ retry' = retry
      /\ at = "ask" /\ at' = "done" /\ status' = 500
      /\ input \in Inputs /\ setting \in Settings
  BY DEF KeyFails, Limit, MaxCSRSize
<1>2. /\ asked = NoCSR /\ reply = NoReply /\ retry = 0
      /\ csr # NoCSR /\ csr = input.holds /\ got = input.length /\ got <= Limit
  BY <1>1 DEF Silent, Passed, Parsed
<1>3. TypeOK'
  BY <1>1 DEF Steps
<1>4. Passed' /\ Checked' /\ Silent'
  BY <1>1, <1>2 DEF Passed, Checked, Silent, Parsed
<1>5. AskedForGood' /\ StatusTruthful'
  BY <1>1, <1>2, InputTypes DEF AskedForGood, StatusTruthful, NoReply
<1> QED BY <1>3, <1>4, <1>5

LEMMA StepInv == IInv /\ [Next]_vars => IInv'
<1> SUFFICES ASSUME IInv, [Next]_vars PROVE IInv'
  OBVIOUS
<1>1. CASE CheckLength \/ ReadSome \/ EndRead \/ ReadFails \/ Decode
  BY <1>1, BodyStep
<1>2. CASE CheckAlgorithm \/ CheckSignature \/ CompareKeys \/ CompareNames
  BY <1>2, CheckStep
<1>3. CASE Ask
  BY <1>3, AskStep
<1>4. CASE Signed \/ SigningFails
  BY <1>4, AnswerStep
<1>5. CASE KeyFails
  BY <1>5, KeyFailsStep
<1>6. CASE UNCHANGED vars
  BY <1>6 DEF vars, IInv, TypeOK, Passed, Checked, Silent, Parsed, AskedForGood,
              StatusTruthful, Faulty, Limit, MaxCSRSize, Allowed
<1> QED BY <1>1, <1>2, <1>3, <1>4, <1>5, <1>6 DEF Next, Answered

LEMMA Invariant == Spec => []IInv
BY InitInv, StepInv, PTL DEF Spec

(* Every value keeps its type, and no more is read than one byte over the  *)
(* limit.                                                                  *)
THEOREM TypeCorrect == Spec => []TypeOK
<1>1. IInv => TypeOK
  BY DEF IInv
<1> QED BY <1>1, Invariant, PTL

(* Whatever the body, the connection and the configuration: the CA is      *)
(* asked to sign only what was read whole and within the limit, and proved *)
(* by the client; and a renewal only for the key and names, in any order,  *)
(* of its certificate.                                                     *)
THEOREM AlwaysAskedForGood == Spec => []AskedForGood
<1>1. IInv => AskedForGood
  BY DEF IInv
<1> QED BY <1>1, Invariant, PTL

(* No status misleads: 413, 400, 503 and the backend's own refusals mean   *)
(* what they say, whatever words the backend's error holds.                *)
THEOREM StatusesTruthful == Spec => []StatusTruthful
<1>1. IInv => StatusTruthful
  BY DEF IInv
<1> QED BY <1>1, Invariant, PTL
===============================================================================
