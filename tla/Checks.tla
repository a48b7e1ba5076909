--------------------------------- MODULE Checks ---------------------------------
(***************************************************************************)
(* What an enrollment request's body goes through, byte by byte and check  *)
(* by check, until the CA is asked to sign: the size limit, the decoding,  *)
(* the algorithm, the signature, and for a renewal the comparison with the *)
(* certificate of the connection; and what becomes of the CA's answer. It  *)
(* is what Enrollment knows as input[r].csr, sameKey and sameName.         *)
(***************************************************************************)
EXTENDS BackendErrors, Sequences, FiniteSets, Functions

CONSTANTS
  Inputs,             \* bound: what may come, and over what connection
  Settings,           \* bound: size limits and algorithms configured
  Messages,           \* bound: words that a backend's error may hold
  Values,             \* texts of names
  Keys,               \* public keys
  NoCSR,
  NoCert,             \* the connection has no client certificate
  DefaultLimit,       \* bytes: 64 KiB
  DefaultKeygenLimit  \* bytes: 4 KiB

SanKinds == {"dns", "email", "ip", "uri"}

(* form: how a name is encoded, which String() does not tell; an IPv4      *)
(* address, say, in four bytes or in sixteen.                              *)
NameType == [text : Values, form : {"short", "long"}]
SansType == [SanKinds -> Seq(NameType)]

(* A subject's attributes: those pkix.Name keeps one value of, like CN;    *)
(* those it keeps a list of, like O; and those it does not know. order:    *)
(* whether they come in the order in which pkix.Name writes them.          *)
SubjectType == [single : Seq(Values), listed : Seq(Values), unknown : Seq(Values),
                order : {"usual", "other"}]

Known == {"sha256rsa", "sha384ecdsa"}  \* to parseSignatureAlgorithm
Weak == {"sha1"}
Algorithms == Known \cup Weak \cup {"pss"}

CSRType == [alg : Algorithms, signed : BOOLEAN, key : Keys, subject : SubjectType,
            sans : SansType, change : BOOLEAN]  \* ChangeSubjectName
CertType == [key : Keys, subject : SubjectType, sans : SansType]

(* length: bytes that arrive; declared: Content-Length, -1 if there is     *)
(* none; layers: what the CSR is wrapped in, from outside.                 *)
InputType ==
  [op : {"enroll", "reenroll", "serverkeygen"}, length : Nat,
   declared : Nat \cup {-1}, layers : Seq({"base64", "pem"}),
   holds : CSRType \cup {NoCSR}, cert : CertType \cup {NoCert}]

(* allowed: names of algorithms. The loader fills in an empty list and lets *)
(* no weak name pass; one that is not known is no error.                   *)
SettingType ==
  [limit : Int, allowed : SUBSET ((Algorithms \ Weak) \cup {"typo"}) \ {{}}]

ASSUME ChecksAssumption ==
  /\ Inputs \subseteq InputType
  /\ \A i \in Inputs : i.declared # -1 => i.length <= i.declared
  /\ Settings \subseteq SettingType
  /\ Messages \subseteq SUBSET Words
  /\ NoCSR \notin CSRType
  /\ NoCert \notin CertType
  /\ {DefaultLimit, DefaultKeygenLimit} \subseteq Nat \ {0}

VARIABLES
  input,    \* fixed
  setting,  \* fixed
  at,       \* the check that is next
  got,      \* bytes read
  csr,      \* what was parsed
  asked,    \* the CSR that the CA is asked to sign
  reply,    \* status code and words of the CA's error; 200: it signed
  status,   \* HTTP status, 0: none; 200: the CA has signed
  retry     \* Retry-After, 0: none

vars == <<input, setting, at, got, csr, asked, reply, status, retry>>

(* setupRoutes, of serverkeygen: only there may a limit not be set.        *)
MaxCSRSize == IF setting.limit = 0 THEN DefaultKeygenLimit ELSE setting.limit

Limit == IF MaxCSRSize <= 0 THEN DefaultLimit ELSE MaxCSRSize

NoReply == [code |-> 0, words |-> {}]

Steps == {"length", "read", "decode", "algorithm", "signature", "key", "names",
          "ask", "sign", "done"}

TypeOK ==
  /\ input \in Inputs
  /\ setting \in Settings
  /\ at \in Steps
  /\ got \in 0..(Limit + 1)
  /\ csr \in CSRType \cup {NoCSR}
  /\ asked \in CSRType \cup {NoCSR}
  /\ reply \in [code : ErrorCodes \cup {200}, words : SUBSET Words]
  /\ status \in {0, 200, 400, 401, 403, 404, 413, 500, 502, 503}
  /\ retry \in {0, 30, 120}

(* The loader looks at the limit of enrollment, not at max_csr_size.        *)
Init ==
  /\ input \in Inputs
  /\ setting \in Settings
  /\ setting.limit <= 0 => input.op = "serverkeygen"
  /\ at = "length"
  /\ got = 0
  /\ csr = NoCSR
  /\ asked = NoCSR
  /\ reply = NoReply
  /\ status = 0
  /\ retry = 0

Goto(step) == at' = step /\ UNCHANGED <<status, retry>>

Refuse(code) ==
  /\ at' = "done"
  /\ status' = code
  /\ UNCHANGED retry
-------------------------------------------------------------------------------
(* ReadCSRPayloadWithLimit.                                                *)
CheckLength ==
  /\ at = "length"
  /\ IF input.declared > Limit THEN Refuse(413) ELSE Goto("read")
  /\ UNCHANGED <<input, setting, got, csr, asked, reply>>

(* Mutant of Room: what was read before does not count.                    *)
Room_Forgetful == Limit + 1

(* What the LimitedReader still lets through.                              *)
Room == Limit + 1 - got

(* However the bytes arrive.                                               *)
ReadSome ==
  /\ at = "read"
  /\ \E n \in 1..Room :
       /\ n <= input.length - got
       /\ got' = got + n
  /\ UNCHANGED <<input, setting, at, csr, asked, reply, status, retry>>

(* The end: of the body, or of what is read of it. A body shorter than it  *)
(* was declared is an error.                                               *)
EndRead ==
  /\ at = "read"
  /\ got = input.length \/ got = Limit + 1
  /\ IF got > Limit THEN Refuse(413)
     ELSE IF got < input.declared THEN Refuse(400)
     ELSE Goto("decode")
  /\ UNCHANGED <<input, setting, got, csr, asked, reply>>

(* The connection breaks, or ReadTimeout has passed.                       *)
ReadFails ==
  /\ at = "read"
  /\ Refuse(400)
  /\ UNCHANGED <<input, setting, got, csr, asked, reply>>

(* At most one layer of base64 is taken off, and then at most one of PEM.  *)
Readable == input.layers \in {<<>>, <<"base64">>, <<"pem">>, <<"base64", "pem">>}

Decode ==
  /\ at = "decode"
  /\ IF Readable /\ input.holds # NoCSR
     THEN /\ csr' = input.holds
          /\ Goto(IF input.op = "serverkeygen" THEN "ask" ELSE "algorithm")
     ELSE Refuse(400) /\ UNCHANGED csr
  /\ UNCHANGED <<input, setting, got, asked, reply>>
-------------------------------------------------------------------------------
(* An empty list allows what is not weak; one without a known name allows  *)
(* nothing.                                                                *)
Allowed(alg) ==
  /\ alg \notin Weak
  /\ setting.allowed # {} => alg \in setting.allowed \cap Known

CheckAlgorithm ==
  /\ at = "algorithm"
  /\ IF Allowed(csr.alg) THEN Goto("signature") ELSE Refuse(400)
  /\ UNCHANGED <<input, setting, got, csr, asked, reply>>

CheckSignature ==
  /\ at = "signature"
  /\ IF ~csr.signed THEN Refuse(400)
     ELSE Goto(IF input.op = "reenroll" /\ input.cert # NoCert THEN "key" ELSE "ask")
  /\ UNCHANGED <<input, setting, got, csr, asked, reply>>

CompareKeys ==
  /\ at = "key"
  /\ IF csr.key = input.cert.key THEN Goto("names") ELSE Refuse(400)
  /\ UNCHANGED <<input, setting, got, csr, asked, reply>>

Texts(s) == [i \in DOMAIN s |-> s[i].text]

Elements(s) == {s[i] : i \in DOMAIN s}
Count(s, v) == Cardinality({i \in DOMAIN s : s[i] = v})

(* Mutant of StringSlicesEqual: the same names, however often.             *)
StringSlicesEqual_AsSets(a, b) == Elements(a) = Elements(b)

StringSlicesEqual(a, b) ==
  /\ Len(a) = Len(b)
  /\ Cardinality(Elements(a)) = Cardinality(Elements(b))
  /\ \A v \in Elements(a) : Count(b, v) = Count(a, v)

(* pkix.Name keeps the last one.                                           *)
Kept(s) == IF s = <<>> THEN <<>> ELSE <<s[Len(s)]>>

(* Subject.String() knows nothing of the order the attributes came in.     *)
SubjectString(subject) ==
  <<Kept(subject.single), subject.listed, subject.unknown>>

(* ValidateReenrollmentSubject.                                            *)
SameNames(c, cert) ==
  \/ c.change
  \/ /\ SubjectString(c.subject) = SubjectString(cert.subject)
     /\ \A kind \in SanKinds :
          StringSlicesEqual(Texts(c.sans[kind]), Texts(cert.sans[kind]))

CompareNames ==
  /\ at = "names"
  /\ IF SameNames(csr, input.cert) THEN Goto("ask") ELSE Refuse(400)
  /\ UNCHANGED <<input, setting, got, csr, asked, reply>>
-------------------------------------------------------------------------------
(* serverkeygen makes a CSR of its own: of the subject it takes over what  *)
(* pkix.Name has fields for, and no attribute.                             *)
Remade(c, key) ==
  [alg |-> "sha256rsa", signed |-> TRUE, key |-> key,
   subject |-> [single |-> Kept(c.subject.single), listed |-> c.subject.listed,
                unknown |-> <<>>, order |-> "usual"],
   sans |-> c.sans, change |-> FALSE]

Ask ==
  /\ at = "ask"
  /\ IF input.op = "serverkeygen"
     THEN \E key \in Keys : asked' = Remade(csr, key)
     ELSE asked' = csr
  /\ Goto("sign")
  /\ UNCHANGED <<input, setting, got, csr, reply>>

(* generateKeyPair, or making a CSR of the key, fails (KeyGeneration).      *)
KeyFails ==
  /\ at = "ask"
  /\ input.op = "serverkeygen"
  /\ Refuse(500)
  /\ UNCHANGED <<input, setting, got, csr, asked, reply>>

Signed ==
  /\ at = "sign"
  /\ reply' = [code |-> 200, words |-> {}]
  /\ at' = "done"
  /\ status' = 200
  /\ UNCHANGED <<input, setting, got, csr, asked, retry>>

(* SendBackendError. Besides its code, an error holds words of any kind.   *)
SigningFails ==
  /\ at = "sign"
  /\ \E code \in ErrorCodes, words \in Messages :
       LET error == ParseBackendError(WordsOf(code) \cup words)
       IN  /\ reply' = [code |-> code, words |-> words]
           /\ status' = error.status
           /\ retry' = error.retry
  /\ at' = "done"
  /\ UNCHANGED <<input, setting, got, csr, asked>>

Answered == at = "done" /\ UNCHANGED vars

Next ==
  \/ CheckLength \/ ReadSome \/ EndRead \/ ReadFails \/ Decode
  \/ CheckAlgorithm \/ CheckSignature \/ CompareKeys \/ CompareNames
  \/ Ask \/ KeyFails \/ Signed \/ SigningFails
  \/ Answered

Spec == Init /\ [][Next]_vars
-------------------------------------------------------------------------------
(* b lists what a lists, in another order.                                 *)
Reordered(a, b) ==
  \E f \in Bijection(DOMAIN a, DOMAIN b) : \A i \in DOMAIN a : a[i] = b[f[i]]

(* What the CA is asked to sign was small enough and read to its end, and  *)
(* the client proved that it has the key, with an algorithm that is both   *)
(* allowed and strong. Over a connection with a certificate a renewal is   *)
(* for its key and, unless ChangeSubjectName says otherwise, for its       *)
(* alternative names, one by one in some order, and for the subject that   *)
(* pkix.Name knows. Where the service makes the key, the names are still   *)
(* those the client asked for (ReadCSRPayloadWithLimit,                    *)
(* parseAndValidateCSR, ServeHTTP of simplereenroll and serverkeygen).     *)
AskedForGood ==
  asked # NoCSR =>
    /\ got = input.length /\ got <= Limit
    /\ Kept(asked.subject.single) = Kept(input.holds.subject.single)
    /\ asked.subject.listed = input.holds.subject.listed
    /\ asked.sans = input.holds.sans
    /\ input.op # "serverkeygen" =>
         /\ asked = input.holds
         /\ asked.signed
         /\ asked.alg \notin Weak
         /\ setting.allowed # {} => asked.alg \in setting.allowed
    /\ input.op = "reenroll" /\ input.cert # NoCert =>
         /\ asked.key = input.cert.key
         /\ \/ asked.change
            \/ /\ Kept(asked.subject.single) = Kept(input.cert.subject.single)
               /\ asked.subject.listed = input.cert.subject.listed
               /\ \A kind \in SanKinds :
                    Reordered(Texts(asked.sans[kind]), Texts(input.cert.sans[kind]))

(* What is wrong with a CSR: its signature, or for a renewal that it       *)
(* differs from the certificate in more than the order of its names.       *)
Faulty ==
  LET c == input.holds
      k == input.cert
  IN  \/ input.op # "serverkeygen" /\ (~c.signed \/ ~Allowed(c.alg))
      \/ /\ input.op = "reenroll" /\ k # NoCert
         /\ \/ c.key # k.key
            \/ /\ ~c.change
               /\ \/ SubjectString(c.subject) # SubjectString(k.subject)
                  \/ \E kind \in SanKinds :
                       ~Reordered(Texts(c.sans[kind]), Texts(k.sans[kind]))

(* The status tells the truth. 413: the body is longer than the limit, or  *)
(* was said to be, and one that is longer gets no further. 400, once the   *)
(* CSR is parsed: there is something wrong with it (Faulty); the order of  *)
(* names is not. What the backend refuses is never called a failure of the *)
(* backend, nor is the client told to come back for it: Retry-After goes   *)
(* with 503 and only with it (parseAndValidateCSR, SendBackendError).      *)
StatusTruthful ==
  /\ status = 413 => input.length > Limit \/ input.declared > Limit
  /\ at \notin {"length", "read"} /\ input.length > Limit => status \in {400, 413}
  /\ status = 400 /\ csr # NoCSR /\ asked = NoCSR => Faulty
  /\ status = 503 <=> retry > 0
  /\ reply.code \in {400, 401, 403, 404} => status \in {400, 401, 403, 404}
===============================================================================
