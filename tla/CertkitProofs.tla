---------------------------- MODULE CertkitProofs ---------------------------
(***************************************************************************)
(* Proofs about certkit: the certificates pki issues, for any number of    *)
(* issuers, any validity and any clock, and the keys keyloader and mtls    *)
(* handle, for any providers and contents.                                 *)
(***************************************************************************)
EXTENDS Keyloader, Pki, TLAPS

----------------------------------------------------------------------------
(* pki *)

(* What generateCert has checked holds while the key is generated: the CA  *)
(* stays, and so does its end.                                             *)
TemplateInv ==
    \A i \in Issuers :
        /\ ipc[i] = "caKey" => template[i].usage = "ca"
        /\ ipc[i] = "leafKey" =>
             /\ template[i].usage \in {"server", "peer"} => template[i].named
             /\ parseCA(template[i].issuer)
             /\ template[i].notAfter <= certs[template[i].issuer].notAfter

(* The issuer of a leaf is a certificate.                                  *)
IssuerInv == \A n \in DOMAIN certs : certs[n].usage \notin CAs => certs[n].issuer \in DOMAIN certs

PkiInv == PkiType /\ TemplateInv /\ IssuerInv /\ LeafInsideCA

(* A time in a certificate is not later than the time it stands for.       *)
LEMMA EncodedFacts == \A t \in Int : Encoded(t) \in Int /\ Encoded(t) <= t
<1>1. Second \in Nat \ {0}
  BY PkiAssumption
<1>2. \A t \in Int : t % Second \in Nat
  BY <1>1
<1> QED
  BY <1>2 DEF Encoded

(* A certificate that is added changes none of the others.                 *)
LEMMA Added ==
    ASSUME PkiType, NEW x \in Certificates, certs' = Append(certs, x)
    PROVE  /\ certs' \in Seq(Certificates) /\ DOMAIN certs' = DOMAIN certs \cup {Len(certs) + 1}
           /\ Len(certs) + 1 \notin DOMAIN certs /\ certs'[Len(certs) + 1] = x
           /\ \A n \in DOMAIN certs : certs'[n] = certs[n]
<1>1. certs \in Seq(Certificates)
  BY DEF PkiType
<1>2. DOMAIN certs = 1..Len(certs) /\ Len(certs) \in Nat
  BY <1>1
<1>3. certs' \in Seq(Certificates) /\ Len(certs') = Len(certs) + 1 /\ DOMAIN certs' = 1..(Len(certs) + 1)
  BY <1>1
<1>4. certs'[Len(certs) + 1] = x /\ \A n \in 1..Len(certs) : certs'[n] = certs[n]
  BY <1>1
<1> QED
  BY <1>2, <1>3, <1>4

(* The certificate of a call that returns one.                             *)
Issued(i, s, notAfter) ==
    [usage |-> template[i].usage, named |-> template[i].named, issuer |-> template[i].issuer,
     serial |-> s, notBefore |-> Encoded(time - Minute), notAfter |-> Encoded(notAfter)]

(* A call that returns a CA, or a leaf whose template was checked, keeps   *)
(* the invariant.                                                          *)
LEMMA ReturnedStep ==
    ASSUME PkiInv, NEW i \in Issuers, NEW end \in Int, Returned(i, end),
           \/ template[i].usage = "ca"
           \/ ipc[i] = "leafKey" /\ end = template[i].notAfter
    PROVE  PkiInv'
<1>0. PkiType /\ TemplateInv /\ IssuerInv /\ LeafInsideCA
  BY DEF PkiInv
<1>1. /\ time \in Nat /\ Minute \in Nat /\ certs \in Seq(Certificates) /\ template[i] \in Templates
      /\ time - Minute \in Int /\ UNCHANGED time
      /\ ipc' = [ipc EXCEPT ![i] = "idle"] /\ template' = [template EXCEPT ![i] = NoTemplate]
  BY <1>0, PkiAssumption DEF PkiType, Returned
<1>2. /\ ipc' \in [Issuers -> {"idle", "caKey", "leafKey"}] /\ template' \in [Issuers -> Templates]
      /\ \A j \in Issuers : ipc'[j] # "idle" => ipc'[j] = ipc[j] /\ template'[j] = template[j]
  <2>1. NoTemplate \in Templates
    BY DEF NoTemplate, Templates, Usages, CAs
  <2> QED
    BY <1>0, <1>1, <2>1 DEF PkiType
<1>3. ASSUME NEW s \in resolveSerial(template[i].serial), certs' = Append(certs, Issued(i, s, end))
      PROVE  PkiInv'
  <2> DEFINE x == Issued(i, s, end)
             n == Len(certs) + 1
  <2>1. s \in Int /\ s \in 1..MaxSerial
    BY <1>1, <1>3, PkiAssumption DEF resolveSerial, randomSerial, Templates
  <2>2. Encoded(time - Minute) \in Int /\ Encoded(end) \in Int /\ Encoded(end) <= end
    BY <1>1, EncodedFacts
  <2>3. x \in Certificates
    BY <1>1, <2>1, <2>2 DEF Issued, Templates, Certificates
  <2>4. /\ x.serial = s /\ x.usage = template[i].usage /\ x.named = template[i].named
        /\ x.issuer = template[i].issuer /\ x.notBefore = Encoded(time - Minute)
        /\ x.notAfter = Encoded(end)
    BY DEF Issued
  <2> HIDE DEF x
  <2>5. /\ certs' \in Seq(Certificates) /\ DOMAIN certs' = DOMAIN certs \cup {n}
        /\ n \notin DOMAIN certs /\ certs'[n] = x
        /\ \A k \in DOMAIN certs : certs'[k] = certs[k]
    BY <1>0, <1>3, <2>3, Added DEF x
  <2> HIDE DEF n
  <2>6. PkiType'
    BY <1>1, <1>2, <2>5 DEF PkiType
  <2>7. TemplateInv'
    <3>1. \A ca : parseCA(ca) => parseCA(ca)' /\ certs'[ca] = certs[ca]
      BY <2>5 DEF parseCA
    <3> QED
      BY <1>0, <1>2, <3>1 DEF TemplateInv
  <2>8. x.usage \notin CAs =>
          /\ x.issuer \in DOMAIN certs /\ certs[x.issuer].usage \in CAs
          /\ x.usage \in {"server", "peer"} => x.named
          /\ end <= certs[x.issuer].notAfter
    BY <1>0, <2>4 DEF TemplateInv, parseCA, CAs
  <2>9. IssuerInv'
    BY <1>0, <2>5, <2>8 DEF IssuerInv
  <2>10. x.usage \notin CAs => x.notAfter <= certs[x.issuer].notAfter
    <3>1. SUFFICES ASSUME x.usage \notin CAs PROVE x.notAfter <= certs[x.issuer].notAfter
      OBVIOUS
    <3>2. certs[x.issuer] \in Certificates
      BY <1>1, <2>8, <3>1
    <3>3. certs[x.issuer].notAfter \in Int
      BY <3>2 DEF Certificates
    <3> QED
      BY <2>2, <2>4, <2>8, <3>1, <3>3
  <2>11. LeafInsideCA'
    BY <1>0, <2>1, <2>4, <2>5, <2>8, <2>10 DEF LeafInsideCA, IssuerInv
  <2> QED
    BY <2>6, <2>7, <2>9, <2>11 DEF PkiInv
<1>4. CASE UNCHANGED certs
  <2>1. PkiType' /\ TemplateInv'
    BY <1>0, <1>1, <1>2, <1>4 DEF PkiType, TemplateInv, parseCA
  <2> QED
    BY <1>0, <1>1, <1>4, <2>1 DEF PkiInv, IssuerInv, LeafInsideCA
<1> QED
  BY <1>3, <1>4 DEF Returned, Issued

(* Every step keeps the invariant of pki.                                  *)
LEMMA PkiStep == PkiInv /\ [PkiNext]_pkiVars => PkiInv'
<1> SUFFICES ASSUME PkiInv, [PkiNext]_pkiVars PROVE PkiInv'
  OBVIOUS
<1>0. PkiType /\ TemplateInv /\ IssuerInv /\ LeafInsideCA
  BY DEF PkiInv
<1>1. time \in Nat /\ Minute \in Nat
  BY <1>0, PkiAssumption DEF PkiType
<1>2. CASE PkiAdvance
  <2>1. time' = time + 1 /\ UNCHANGED <<ipc, template, certs>>
    BY <1>2 DEF PkiAdvance
  <2>2. PkiType'
    BY <1>0, <1>1, <2>1 DEF PkiType
  <2>3. TemplateInv' /\ IssuerInv' /\ LeafInsideCA'
    BY <1>0, <2>1 DEF TemplateInv, parseCA, IssuerInv, LeafInsideCA
  <2> QED
    BY <2>2, <2>3 DEF PkiInv
<1>3. ASSUME NEW i \in Issuers, CreateCA(i) PROVE PkiInv'
  <2>1. template[i].usage = "ca" /\ time + template[i].validity \in Int
    BY <1>0, <1>1, <1>3 DEF CreateCA, TemplateInv, PkiType, Templates
  <2> QED
    BY <1>3, <2>1, ReturnedStep DEF CreateCA
<1>4. ASSUME NEW i \in Issuers, CreateLeaf(i) PROVE PkiInv'
  <2>1. template[i].notAfter \in Int
    BY <1>0 DEF PkiType, Templates
  <2> QED
    BY <1>4, <2>1, ReturnedStep DEF CreateLeaf, leafNotAfter
<1>5. ASSUME NEW i \in Issuers, NEW label \in {"caKey", "leafKey"}, NEW t \in Templates,
             Prepared(i, label, t),
             label = "caKey" => t.usage = "ca",
             label = "leafKey" =>
               /\ t.usage \in {"server", "peer"} => t.named
               /\ parseCA(t.issuer) /\ t.notAfter <= certs[t.issuer].notAfter
      PROVE  PkiInv'
  <2>1. /\ UNCHANGED <<time, certs>> /\ ipc'[i] = label /\ template'[i] = t
        /\ \A j \in Issuers \ {i} : ipc'[j] = ipc[j] /\ template'[j] = template[j]
    BY <1>0, <1>5 DEF Prepared, PkiType
  <2>2. PkiType'
    BY <1>0, <1>5 DEF Prepared, PkiType
  <2>3. TemplateInv'
    BY <1>0, <1>5, <2>1 DEF TemplateInv, parseCA
  <2> QED
    BY <1>0, <2>1, <2>2, <2>3 DEF PkiInv, IssuerInv, LeafInsideCA
<1>6. ASSUME NEW i \in Issuers, NEW s \in Serials \cup {Random}, NEW v \in Validities, GenerateCA(i, s, v)
      PROVE  PkiInv'
  <2> DEFINE t == [usage |-> "ca", named |-> FALSE, issuer |-> 0, serial |-> s, validity |-> v, notAfter |-> 0]
  <2>1. v \in Int
    BY PkiAssumption
  <2>2. t \in Templates /\ t.usage = "ca"
    BY <2>1 DEF Templates, Usages, CAs
  <2>3. Prepared(i, "caKey", t)
    BY <1>6 DEF GenerateCA
  <2> HIDE DEF t
  <2> QED
    BY <1>5, <2>2, <2>3
<1>7. ASSUME NEW i \in Issuers, NEW s \in Serials \cup {Random}, NEW v \in Validities,
             NEW usage \in Usages \ CAs, NEW names \in BOOLEAN, NEW uris \in {"none", "good", "bad"},
             NEW ca \in 0..MaxCerts, generateCert(i, usage, names, uris, s, v, ca)
      PROVE  PkiInv'
  <2> DEFINE t == [usage |-> usage, named |-> names \/ uris = "good", issuer |-> ca,
                   serial |-> s, validity |-> v, notAfter |-> time + v]
  <2>1. v \in Int /\ time + v \in Int /\ ca \in Nat
    BY <1>1, PkiAssumption
  <2>2. (names \/ uris = "good") \in BOOLEAN
    OBVIOUS
  <2>3. t \in Templates
    BY <2>1, <2>2 DEF Templates
  <2>4. /\ t.usage \in {"server", "peer"} => t.named
        /\ parseCA(t.issuer) /\ t.notAfter <= certs[t.issuer].notAfter
    BY <1>7 DEF generateCert
  <2>5. Prepared(i, "leafKey", t)
    BY <1>7 DEF generateCert
  <2> HIDE DEF t
  <2> QED
    BY <1>5, <2>3, <2>4, <2>5
<1>8. ASSUME NEW from \in ForeignTimes, NEW to \in ForeignTimes, ForeignCA(from, to) PROVE PkiInv'
  <2> DEFINE x == [usage |-> "foreign", named |-> FALSE, issuer |-> 0, serial |-> 0,
                   notBefore |-> from, notAfter |-> to]
             n == Len(certs) + 1
  <2>1. x \in Certificates /\ x.usage = "foreign"
    BY PkiAssumption DEF Certificates, Usages, CAs
  <2>2. certs' = Append(certs, x) /\ UNCHANGED <<time, ipc, template>>
    BY <1>8 DEF ForeignCA
  <2> HIDE DEF x
  <2>3. /\ certs' \in Seq(Certificates) /\ DOMAIN certs' = DOMAIN certs \cup {n}
        /\ n \notin DOMAIN certs /\ certs'[n] = x
        /\ \A k \in DOMAIN certs : certs'[k] = certs[k]
    BY <1>0, <2>1, <2>2, Added
  <2> HIDE DEF n
  <2>4. PkiType'
    BY <1>0, <2>2, <2>3 DEF PkiType
  <2>5. TemplateInv'
    <3>1. \A ca : parseCA(ca) => parseCA(ca)' /\ certs'[ca] = certs[ca]
      BY <2>3 DEF parseCA
    <3> QED
      BY <1>0, <2>2, <3>1 DEF TemplateInv
  <2>6. IssuerInv' /\ LeafInsideCA'
    BY <1>0, <2>1, <2>3 DEF IssuerInv, LeafInsideCA, CAs
  <2> QED
    BY <2>4, <2>5, <2>6 DEF PkiInv
<1>9. CASE UNCHANGED pkiVars
  BY <1>0, <1>9 DEF pkiVars, PkiInv, PkiType, TemplateInv, parseCA, IssuerInv, LeafInsideCA
<1> QED
  BY <1>2, <1>3, <1>4, <1>6, <1>7, <1>8, <1>9 DEF PkiNext

(* pki keeps its inductive invariant.                                      *)
THEOREM PkiInvariance == PkiSpec => []PkiInv
<1>1. PkiInit => PkiInv
  <2> SUFFICES ASSUME PkiInit PROVE PkiInv
    OBVIOUS
  <2>1. NoTemplate \in Templates
    BY DEF NoTemplate, Templates, Usages, CAs
  <2>2. certs = << >> /\ << >> \in Seq(Certificates) /\ DOMAIN certs = {}
    BY DEF PkiInit
  <2>3. PkiType
    BY <2>1, <2>2, PkiAssumption DEF PkiInit, PkiType
  <2>4. TemplateInv
    BY DEF PkiInit, TemplateInv
  <2> QED
    BY <2>2, <2>3, <2>4 DEF PkiInv, IssuerInv, LeafInsideCA
<1> QED
  BY <1>1, PkiStep, PTL DEF PkiSpec

(* No leaf outlives its CA, made by this package or elsewhere, however     *)
(* long its key took to generate; a serial is positive and fits 20 octets. *)
THEOREM LeavesInsideCA == PkiSpec => []LeafInsideCA
<1>1. PkiInv => LeafInsideCA
  BY DEF PkiInv
<1> QED
  BY <1>1, PkiInvariance, PTL

----------------------------------------------------------------------------
(* keyloader and mtls *)

(* The forms of a slice that holds no key.                                 *)
Clean == {None, "empty", "zeros"}

(* NewTLSConfig loads the three keys in their order, and holds those it    *)
(* has loaded.                                                             *)
OrderInv ==
    /\ pc = "idle" => \A r \in Roles : held[r] = None
    /\ pc # "idle" =>
         /\ held[role] = None <=> pc \in {"stat", "read", "process"}
         /\ role = "cert" => held["cert"] = None /\ held["key"] = None /\ held["ca"] = None
         /\ role = "key" => held["cert"] # None /\ held["ca"] = None
         /\ role = "ca" => held["cert"] # None /\ held["key"] # None
         /\ pc = "pair" => role = "key"
         /\ pc = "pool" => role = "ca"
         /\ config = "none"
    /\ pc = "stat" => setup[role].source \in {"file", "mockfile"} /\ setup[role].check

(* Nothing of this role has been read.                                     *)
Untouched(r) == held[r] = None /\ ~(r = role /\ pc = "process")

(* Of a key that is held every other slice is cleared already.             *)
SliceInv ==
    /\ pc # "idle" =>
         \A r \in Roles :
             /\ Untouched(r) => \A x \in Slices : slice[r][x] = None
             /\ held[r] # None => \A x \in Slices \ {held[r]} : slice[r][x] \in Clean
    /\ pc = "process" =>
         /\ setup[role].source \notin {"static", "error"}
         /\ slice[role]["read"] \in Forms \ {"missing", "empty"}
         /\ slice[role]["trimmed"] = None /\ slice[role]["decoded"] = None

(* The pair was made before the CA is loaded, and while no file has        *)
(* changed a key that is held is a PEM block exactly when its file suits   *)
(* its provider.                                                           *)
JustInv ==
    /\ pc # "idle" /\ role = "ca" => bundle["cert"] = bundle["key"]
    /\ calm /\ pc # "idle" =>
         /\ \A r \in Roles :
              /\ Untouched(r) => file[r] = begun[r]
              /\ held[r] # None => /\ bundle[r] = begun[r].id
                                   /\ Key(r) = "pem" <=> Suits(setup[r], begun[r])
         /\ pc = "process" => bundle[role] = begun[role].id /\ slice[role]["read"] = begun[role].form
         /\ pc \in {"read", "process"} /\ setup[role].source \in {"file", "mockfile"} /\ setup[role].check
              => begun[role].secure
         /\ role = "ca" => /\ Suits(setup["cert"], begun["cert"]) /\ Suits(setup["key"], begun["key"])
                           /\ begun["cert"].id = begun["key"].id

KeyInv == TypeOK /\ OrderInv /\ SliceInv /\ JustInv /\ KeyMaterialCleared /\ ConfigIsJust

----------------------------------------------------------------------------
SliceForms == [Slices -> {None, "partial"} \cup Forms]

(* clear turns some slices of one load to zeros and leaves the rest alone. *)
LEMMA ClearedSlices ==
    ASSUME NEW s \in [Roles -> SliceForms], NEW r \in Roles, NEW gone
    PROVE  /\ Cleared(s, r, gone) \in [Roles -> SliceForms]
           /\ \A q \in Roles \ {r} : Cleared(s, r, gone)[q] = s[q]
           /\ \A x \in Slices : Cleared(s, r, gone)[r][x] =
                IF x \in gone /\ s[r][x] \notin {None, "empty"} THEN "zeros" ELSE s[r][x]
<1> DEFINE new == [x \in Slices |-> IF x \in gone /\ s[r][x] \notin {None, "empty"} THEN "zeros" ELSE s[r][x]]
<1>1. Cleared(s, r, gone) = [s EXCEPT ![r] = new]
  BY DEF Cleared
<1>2. \A x \in Slices : s[r][x] \in {None, "partial"} \cup Forms
  BY DEF SliceForms
<1>3. new \in SliceForms
  BY <1>2 DEF SliceForms, Forms
<1>4. \A x \in Slices : new[x] = IF x \in gone /\ s[r][x] \notin {None, "empty"} THEN "zeros" ELSE s[r][x]
  OBVIOUS
<1> HIDE DEF new
<1> QED
  BY <1>1, <1>3, <1>4

(* In the mock it does so to the file; only to the file of that role.      *)
LEMMA ZeroedFiles ==
    ASSUME NEW f \in [Roles -> Content], NEW r \in Roles, NEW gone
    PROVE  /\ Zeroed(f, r, gone) \in [Roles -> Content]
           /\ \A q \in Roles \ {r} : Zeroed(f, r, gone)[q] = f[q]
<1>1. f[r] \in Content
  OBVIOUS
<1>2. [f[r] EXCEPT !.form = "zeros"] \in Content
  BY <1>1 DEF Content, Forms
<1> DEFINE zero == [f[r] EXCEPT !.form = "zeros"]
<1>3. [f EXCEPT ![r].form = "zeros"] = [f EXCEPT ![r] = zero]
  OBVIOUS
<1> HIDE DEF zero
<1> QED
  BY <1>2, <1>3 DEF Zeroed, zero

(* What free leaves of the key of a role.                                  *)
LEMMA Freed ==
    ASSUME NEW s \in [Roles -> SliceForms], NEW f \in [Roles -> Content]
    PROVE  /\ FreeAll(s) \in [Roles -> SliceForms] /\ FreedFiles(f) \in [Roles -> Content]
           /\ \A r \in Roles : setup[r].source # "static" =>
                \A x \in Slices :
                    /\ x # held[r] => FreeAll(s)[r][x] = s[r][x]
                    /\ x = held[r] => FreeAll(s)[r][x] \in Clean
<1>1. ASSUME NEW r \in Roles
      PROVE  FreeAll(s)[r] \in SliceForms /\ FreedFiles(f)[r] \in Content
  BY ClearedSlices, ZeroedFiles DEF FreeAll, FreedFiles
<1>2. ASSUME NEW r \in Roles, setup[r].source # "static", NEW x \in Slices
      PROVE  FreeAll(s)[r][x] = IF x \in {held[r]} /\ s[r][x] \notin {None, "empty"} THEN "zeros" ELSE s[r][x]
  BY <1>2, ClearedSlices DEF FreeAll
<1>3. FreeAll(s) \in [Roles -> SliceForms] /\ FreedFiles(f) \in [Roles -> Content]
  BY <1>1 DEF FreeAll, FreedFiles
<1> QED
  BY <1>2, <1>3 DEF Clean

(* What trimming makes of each form.                                       *)
LEMMA TrimTable ==
    /\ Trim("spaced") = "compact" /\ Trim("blank") = "empty" /\ Trim("pem") = "junk"
    /\ \A form \in Forms \ {"spaced", "blank", "pem"} : Trim(form) = form
BY Zenon DEF Trim

(* What a decoder returns.                                                 *)
LEMMA DecodeTable ==
    /\ Decode("compact") = "pem" /\ Decode("blank") = "empty"
    /\ \A form \in Forms \ {"compact", "blank"} : Decode(form) = "partial"
BY Zenon DEF Decode

(* What a provider makes of the slice it has read, as processKey does.     *)
Data(p, form) == IF p.trim THEN Trim(form) ELSE form
Result(p, form) == IF p.decode /\ Data(p, form) # "empty" THEN Decode(Data(p, form)) ELSE Data(p, form)

(* The result is a PEM block exactly when the slice suits the provider.    *)
LEMMA ResultSuits ==
    ASSUME NEW p \in Providers, p.source \notin {"static", "error"},
           NEW form \in Forms \ {"missing", "empty"},
           NEW f \in Content, f.form = form,
           p.source \in {"file", "mockfile"} /\ p.check => f.secure
    PROVE  Result(p, form) = "pem" <=> Suits(p, f)
<1>1. p.trim \in BOOLEAN /\ p.decode \in BOOLEAN
  BY DEF Providers
<1>2. CASE ~p.trim /\ ~p.decode
  BY <1>2 DEF Result, Data, Suits
<1>3. CASE p.trim /\ ~p.decode
  <2>1. Trim(form) # "pem"
    BY TrimTable
  <2> QED
    BY <1>3, <2>1 DEF Result, Data, Suits
<1>4. CASE ~p.trim /\ p.decode
  <2>1. Decode(form) = "pem" <=> form = "compact"
    BY DecodeTable
  <2> QED
    BY <1>4, <2>1 DEF Result, Data, Suits
<1>5. CASE p.trim /\ p.decode
  <2>1. Trim(form) \in Forms /\ (Trim(form) = "compact" <=> form \in {"compact", "spaced"})
    BY TrimTable DEF Forms
  <2>2. Decode(Trim(form)) = "pem" <=> Trim(form) = "compact"
    BY <2>1, DecodeTable
  <2> QED
    BY <1>5, <2>1, <2>2 DEF Result, Data, Suits
<1> QED
  BY <1>1, <1>2, <1>3, <1>4, <1>5

(* It is a form, or the partial output of a decoder.                       *)
LEMMA ResultTyped ==
    ASSUME NEW p \in Providers, NEW form \in Forms
    PROVE  Data(p, form) \in Forms /\ Result(p, form) \in {"partial"} \cup Forms
<1>1. Data(p, form) \in Forms
  BY TrimTable DEF Data, Forms
<1>2. Decode(Data(p, form)) \in {"partial"} \cup Forms
  BY <1>1, DecodeTable DEF Forms
<1> QED
  BY <1>1, <1>2 DEF Result

(* The files a call found suit their providers, and belong together.       *)
Suitable ==
    /\ \A r \in Roles : Suits(setup[r], begun[r])
    /\ begun["cert"].id = begun["key"].id

(* A return that frees the keys keeps the invariant, if what it leaves     *)
(* behind besides the keys is clean and what it returns is just.           *)
LEMMA ReturnsStep ==
    ASSUME KeyInv, NEW result \in {"config", "error"},
           NEW s \in [Roles -> SliceForms], NEW f \in [Roles -> Content],
           Returns(result, s, f), UNCHANGED <<setup, writes, bundle, begun, calm>>,
           \A r \in Roles : \A x \in Slices \ {held[r]} :
               s[r][x] \in Clean \/ (x = "decoded" /\ s[r][x] = "partial"),
           result = "config" => bundle["cert"] = bundle["key"],
           calm => (result = "config" <=> Suitable)
    PROVE  KeyInv'
<1>1. /\ pc' = "idle" /\ role' = "cert" /\ config' = result
      /\ slice' = FreeAll(s) /\ file' = FreedFiles(f) /\ held' = [r \in Roles |-> None]
  BY DEF Returns
<1>2. /\ slice' \in [Roles -> SliceForms] /\ file' \in [Roles -> Content]
      /\ \A r \in Roles : setup[r].source # "static" =>
           \A x \in Slices : /\ x # held[r] => slice'[r][x] = s[r][x]
                             /\ x = held[r] => slice'[r][x] \in Clean
  BY <1>1, Freed
<1>3. TypeOK'
  BY <1>1, <1>2 DEF KeyInv, TypeOK, SliceForms, Roles
<1>4. OrderInv' /\ SliceInv' /\ JustInv'
  BY <1>1 DEF OrderInv, SliceInv, JustInv
<1>5. KeyMaterialCleared'
  BY <1>1, <1>2 DEF KeyMaterialCleared, Clean
<1>6. ConfigIsJust'
  BY <1>1 DEF ConfigIsJust, Suitable
<1> QED
  BY <1>3, <1>4, <1>5, <1>6 DEF KeyInv

(* A provider is called: the permissions are checked, or the file is read. *)
LEMMA Calls ==
    ASSUME NEW r, Call(r)
    PROVE  /\ role' = r /\ pc' \in {"stat", "read"}
           /\ pc' = "stat" => setup[r].source \in {"file", "mockfile"} /\ setup[r].check
           /\ pc' = "read" => ~(setup[r].source \in {"file", "mockfile"} /\ setup[r].check)
BY DEF Call

(* A provider that has loaded its key keeps the invariant, if the key is   *)
(* its only slice with contents and is a PEM block as its file promised.   *)
LEMMA LoadedStep ==
    ASSUME KeyInv, NEW key \in Slices, Loaded(key), pc \in {"read", "process"},
           UNCHANGED <<setup, writes, begun, calm>>,
           slice' \in [Roles -> SliceForms], file' \in [Roles -> Content], bundle' \in [Roles -> Ids],
           \A r \in Roles \ {role} : slice'[r] = slice[r] /\ file'[r] = file[r] /\ bundle'[r] = bundle[r],
           \A x \in Slices \ {key} : slice'[role][x] \in Clean,
           calm => /\ bundle'[role] = begun[role].id
                   /\ slice'[role][key] = "pem" <=> Suits(setup[role], begun[role])
    PROVE  KeyInv'
<1>0. TypeOK /\ OrderInv /\ SliceInv /\ JustInv
  BY DEF KeyInv
<1>1. held' = [held EXCEPT ![role] = key] /\ UNCHANGED config
  BY Zenon DEF Loaded
<1>2. role \in Roles /\ held \in [Roles -> {None} \cup Slices] /\ None \notin Slices /\ key # None
  BY <1>0 DEF TypeOK, None, Slices
<1>3. /\ held' \in [Roles -> {None} \cup Slices] /\ held'[role] = key
      /\ \A r \in Roles \ {role} : held'[r] = held[r]
  BY <1>1, <1>2
<1>4. /\ held[role] = None /\ config' = "none"
      /\ role = "cert" => held["key"] = None /\ held["ca"] = None
      /\ role = "key" => held["cert"] # None /\ held["ca"] = None
      /\ role = "ca" => held["cert"] # None /\ held["key"] # None
  BY <1>0, <1>1 DEF OrderInv
<1>5. /\ role' \in Roles /\ pc' \in {"stat", "read", "pair", "pool"}
      /\ \/ role = "cert" /\ role' = "key" /\ pc' \in {"stat", "read"}
         \/ role = "key" /\ role' = "key" /\ pc' = "pair"
         \/ role = "ca" /\ role' = "ca" /\ pc' = "pool"
      /\ pc' = "stat" => setup[role'].source \in {"file", "mockfile"} /\ setup[role'].check
      /\ pc' = "read" => ~(setup[role'].source \in {"file", "mockfile"} /\ setup[role'].check)
  <2>1. CASE role = "cert"
    <3>1. Call("key")
      BY <2>1, Zenon DEF Loaded
    <3> QED
      BY <2>1, <3>1, Calls DEF Roles
  <2>2. CASE role = "key"
    <3>1. pc' = "pair" /\ UNCHANGED role
      BY <2>2, Zenon DEF Loaded
    <3> QED
      BY <2>2, <3>1 DEF Roles
  <2>3. CASE role = "ca"
    <3>1. pc' = "pool" /\ UNCHANGED role
      BY <2>3, Zenon DEF Loaded
    <3> QED
      BY <2>3, <3>1 DEF Roles
  <2> QED
    BY <1>2, <2>1, <2>2, <2>3 DEF Roles
<1>6. TypeOK'
  BY <1>0, <1>1, <1>3, <1>5 DEF TypeOK, SliceForms
<1>7. OrderInv'
  BY <1>2, <1>3, <1>4, <1>5 DEF OrderInv, Roles
<1>8. \A r \in Roles : /\ Untouched(r)' => r # role /\ Untouched(r)
                       /\ held'[r] # None => r = role \/ held[r] # None
  BY <1>2, <1>3 DEF Untouched
<1>9. SliceInv'
  BY <1>0, <1>2, <1>3, <1>5, <1>8 DEF SliceInv
<1>10. JustInv'
  <2>1. pc' # "idle" /\ role' = "ca" => bundle'["cert"] = bundle'["key"]
    BY <1>0, <1>5 DEF JustInv, Roles
  <2>2. ASSUME calm, NEW r \in Roles
        PROVE  /\ Untouched(r)' => file'[r] = begun'[r]
               /\ held'[r] # None => /\ bundle'[r] = begun'[r].id
                                     /\ Key(r)' = "pem" <=> Suits(setup[r], begun[r])
    <3>1. CASE r = role
      BY <1>3, <1>8, <2>2, <3>1 DEF Key
    <3>2. CASE r # role
      BY <1>0, <1>3, <1>8, <2>2, <3>2 DEF JustInv, Key
    <3> QED
      BY <3>1, <3>2
  <2>3. calm /\ role = "ca" => /\ Suits(setup["cert"], begun["cert"]) /\ Suits(setup["key"], begun["key"])
                               /\ begun["cert"].id = begun["key"].id
    BY <1>0 DEF JustInv
  <2>4. \A r : Suits(setup'[r], begun'[r]) <=> Suits(setup[r], begun[r])
    OBVIOUS
  <2> QED
    BY <1>5, <2>1, <2>2, <2>3, <2>4 DEF JustInv
<1> QED
  BY <1>5, <1>6, <1>7, <1>9, <1>10 DEF KeyInv, KeyMaterialCleared, ConfigIsJust

(* Stat: a file that is missing or too open does not suit its provider.    *)
LEMMA StatStep == KeyInv /\ Stat => KeyInv'
<1> SUFFICES ASSUME KeyInv, Stat PROVE KeyInv'
  OBVIOUS
<1>0. TypeOK /\ OrderInv /\ SliceInv /\ JustInv
  BY DEF KeyInv
<1>1. /\ role \in Roles /\ held[role] = None /\ pc = "stat" /\ Untouched(role)
      /\ setup[role].source \in {"file", "mockfile"} /\ setup[role].check
  BY <1>0 DEF Stat, TypeOK, OrderInv, Untouched
<1>2. calm => file[role] = begun[role]
  BY <1>0, <1>1 DEF JustInv
<1>3. CASE Returns("error", slice, file)
  <2>1. file[role].form = "missing" \/ ~file[role].secure
    BY <1>3 DEF Stat, Returns
  <2>2. calm => ~Suitable
    BY <1>1, <1>2, <2>1 DEF Suitable, Suits
  <2>3. \A r \in Roles : \A x \in Slices \ {held[r]} : slice[r][x] \in Clean
    BY <1>0, <1>1 DEF SliceInv, Untouched, Clean
  <2>4. slice \in [Roles -> SliceForms] /\ file \in [Roles -> Content]
        /\ UNCHANGED <<setup, writes, bundle, begun, calm>>
    BY <1>0 DEF TypeOK, SliceForms, Stat
  <2> QED
    BY <1>3, <2>2, <2>3, <2>4, ReturnsStep
<1>4. CASE /\ file[role].secure /\ pc' = "read"
           /\ UNCHANGED <<file, role, slice, held, config, setup, writes, bundle, begun, calm>>
  <2>1. TypeOK'
    BY <1>0, <1>4 DEF TypeOK
  <2>2. OrderInv'
    BY <1>0, <1>1, <1>4 DEF OrderInv
  <2>3. \A r : Untouched(r)' <=> Untouched(r)
    BY <1>1, <1>4 DEF Untouched
  <2>4. SliceInv'
    BY <1>0, <1>1, <1>4, <2>3 DEF SliceInv
  <2>5. JustInv'
    BY <1>0, <1>1, <1>2, <1>4, <2>3 DEF JustInv, Key, Suits
  <2> QED
    BY <1>4, <2>1, <2>2, <2>4, <2>5 DEF KeyInv, KeyMaterialCleared, ConfigIsJust
<1> QED
  BY <1>3, <1>4 DEF Stat

(* ReadFile or the getter: what is read is what the call found.            *)
LEMMA ReadStep == KeyInv /\ Read => KeyInv'
<1> SUFFICES ASSUME KeyInv, Read PROVE KeyInv'
  OBVIOUS
<1>0. TypeOK /\ OrderInv /\ SliceInv /\ JustInv
  BY DEF KeyInv
<1>1. /\ role \in Roles /\ held[role] = None /\ pc = "read" /\ Untouched(role)
      /\ UNCHANGED <<setup, writes, begun, calm>>
  BY <1>0 DEF Read, TypeOK, OrderInv, Untouched
<1>2. /\ calm => file[role] = begun[role]
      /\ calm /\ setup[role].source \in {"file", "mockfile"} /\ setup[role].check => begun[role].secure
  BY <1>0, <1>1 DEF JustInv
<1>3. /\ slice \in [Roles -> SliceForms] /\ file \in [Roles -> Content] /\ bundle \in [Roles -> Ids]
      /\ file[role] \in Content /\ file[role].form \in Forms /\ file[role].id \in Ids
      /\ \A x \in Slices : slice[role][x] = None
  <2>1. file[role] \in Content
    BY <1>0, <1>1 DEF TypeOK
  <2> QED
    BY <1>0, <1>1, <2>1 DEF TypeOK, SliceForms, SliceInv, Content
<1>4. CASE Unread(setup[role], file[role].form) /\ Returns("error", slice, file) /\ UNCHANGED bundle
  <2>1. calm => ~Suitable
    BY <1>1, <1>2, <1>4 DEF Suitable, Suits, Unread
  <2>2. \A r \in Roles : \A x \in Slices \ {held[r]} : slice[r][x] \in Clean
    BY <1>0, <1>1 DEF SliceInv, Untouched, Clean
  <2> QED
    BY <1>1, <1>3, <1>4, <2>1, <2>2, ReturnsStep
<1>5. CASE /\ ~Unread(setup[role], file[role].form)
           /\ slice' = [slice EXCEPT ![role]["read"] = file[role].form]
           /\ bundle' = [bundle EXCEPT ![role] = file[role].id]
           /\ UNCHANGED file
           /\ \/ setup[role].source = "static" /\ Loaded("read")
              \/ setup[role].source # "static" /\ pc' = "process" /\ UNCHANGED <<role, held, config>>
  <2> DEFINE load == [slice[role] EXCEPT !["read"] = file[role].form]
  <2>1. slice' = [slice EXCEPT ![role] = load]
    BY <1>5
  <2>2. /\ load \in SliceForms /\ load["read"] = file[role].form
        /\ load["trimmed"] = None /\ load["decoded"] = None
    <3>1. slice[role] \in SliceForms /\ "read" \in Slices
      BY <1>1, <1>3 DEF Slices
    <3> QED
      BY <1>3, <3>1 DEF SliceForms, Slices
  <2> HIDE DEF load
  <2>3. /\ slice' \in [Roles -> SliceForms] /\ slice'[role] = load
        /\ \A r \in Roles \ {role} : slice'[r] = slice[r]
    BY <1>1, <1>3, <2>1, <2>2
  <2>4. /\ bundle' \in [Roles -> Ids] /\ bundle'[role] = file[role].id
        /\ \A r \in Roles \ {role} : bundle'[r] = bundle[r]
    BY <1>1, <1>3, <1>5
  <2>5. CASE setup[role].source = "static" /\ Loaded("read")
    <3>1. calm => (load["read"] = "pem" <=> Suits(setup[role], begun[role]))
      BY <1>2, <2>2, <2>5 DEF Suits
    <3>2. \A x \in Slices \ {"read"} : slice'[role][x] \in Clean
      BY <2>2, <2>3 DEF Slices, Clean
    <3>3. "read" \in Slices
      BY DEF Slices
    <3> QED
      BY <1>1, <1>2, <1>3, <1>5, <2>2, <2>3, <2>4, <2>5, <3>1, <3>2, <3>3, LoadedStep
  <2>6. CASE setup[role].source # "static" /\ pc' = "process" /\ UNCHANGED <<role, held, config>>
    <3>1. TypeOK'
      BY <1>0, <1>1, <1>5, <2>3, <2>4, <2>6 DEF TypeOK, SliceForms
    <3>2. OrderInv'
      BY <1>0, <1>1, <2>6 DEF OrderInv
    <3>3. \A r \in Roles : Untouched(r)' <=> Untouched(r) /\ r # role
      BY <1>1, <2>6 DEF Untouched
    <3>4. setup[role].source \notin {"static", "error"} /\ file[role].form \notin {"missing", "empty"}
      BY <1>5, <2>6 DEF Unread
    <3>5. SliceInv'
      BY <1>0, <1>1, <1>3, <2>2, <2>3, <2>6, <3>3, <3>4 DEF SliceInv
    <3>6. JustInv'
      <4>1. pc' # "idle" /\ role' = "ca" => bundle'["cert"] = bundle'["key"]
        BY <1>0, <1>1, <2>4, <2>6 DEF JustInv, Roles
      <4>2. ASSUME calm, NEW r \in Roles
            PROVE  /\ Untouched(r)' => file'[r] = begun'[r]
                   /\ held'[r] # None => /\ bundle'[r] = begun'[r].id
                                         /\ Key(r)' = "pem" <=> Suits(setup[r], begun[r])
        <5>1. held[r] # None => r # role
          BY <1>1
        <5> QED
          BY <1>0, <1>1, <1>5, <2>3, <2>4, <2>6, <3>3, <4>2, <5>1 DEF JustInv, Key
      <4>3. calm => /\ bundle'[role] = begun[role].id /\ slice'[role]["read"] = begun[role].form
                    /\ role = "ca" => /\ Suits(setup["cert"], begun["cert"])
                                      /\ Suits(setup["key"], begun["key"])
                                      /\ begun["cert"].id = begun["key"].id
        BY <1>0, <1>1, <1>2, <2>2, <2>3, <2>4 DEF JustInv
      <4>4. \A r : Suits(setup'[r], begun'[r]) <=> Suits(setup[r], begun[r])
        BY <1>1
      <4> QED
        BY <1>1, <1>2, <2>6, <4>1, <4>2, <4>3, <4>4 DEF JustInv
    <3> QED
      BY <2>6, <3>1, <3>2, <3>5, <3>6 DEF KeyInv, KeyMaterialCleared, ConfigIsJust
  <2> QED
    BY <1>5, <2>5, <2>6
<1> QED
  BY <1>4, <1>5 DEF Read

(* processKey leaves contents in the key it returns, in no other slice     *)
(* of the load, and, when it fails, in what a decoder returned.            *)
LEMMA ProcessStep == KeyInv /\ processKey => KeyInv'
<1> SUFFICES ASSUME KeyInv, processKey PROVE KeyInv'
  OBVIOUS
<1>0. TypeOK /\ OrderInv /\ SliceInv /\ JustInv
  BY DEF KeyInv
<1> DEFINE p       == setup[role]
           form    == slice[role]["read"]
           data    == IF p.trim THEN Trim(form) ELSE form
           decodes == p.decode /\ data # "empty"
           result  == IF decodes THEN Decode(data) ELSE data
           key     == IF p.decode THEN "decoded" ELSE Undecoded(p)
           load    == [x \in Slices |-> IF x = "trimmed" /\ p.trim THEN data
                                        ELSE IF x = "decoded" /\ decodes THEN result
                                        ELSE slice[role][x]]
           filled  == [slice EXCEPT ![role] = load]
           after   == Cleared(filled, role, Deferred(p))
           ok      == result \notin {"empty", "partial"}
<1>1. /\ UNCHANGED <<setup, writes, bundle, begun, calm>> /\ pc = "process"
      /\ \/ /\ ~ok
            /\ Returns("error", after, Zeroed(file, role, Deferred(p)))
         \/ /\ ok
            /\ slice' = after
            /\ file' = Zeroed(file, role, Deferred(p))
            /\ Loaded(key)
  BY DEF processKey
<1>2. data = Data(p, form) /\ result = Result(p, form)
  BY DEF Data, Result
<1>3. /\ role \in Roles /\ held[role] = None /\ p \in Providers
      /\ p.source \notin {"static", "error"} /\ form \in Forms \ {"missing", "empty"}
      /\ slice[role] \in SliceForms /\ slice \in [Roles -> SliceForms] /\ file \in [Roles -> Content]
      /\ bundle \in [Roles -> Ids]
      /\ slice[role]["trimmed"] = None /\ slice[role]["decoded"] = None
  BY <1>0, <1>1, KeyloaderAssumption DEF TypeOK, OrderInv, SliceInv, SliceForms
<1>4. data \in Forms /\ result \in {"partial"} \cup Forms
  BY <1>2, <1>3, ResultTyped
<1>5. /\ load \in SliceForms /\ load["read"] = form
      /\ load["trimmed"] = IF p.trim THEN data ELSE None
      /\ load["decoded"] = IF decodes THEN result ELSE None
  <2> HIDE DEF data, result, p
  <2> QED
    BY <1>3, <1>4 DEF SliceForms, Slices
<1>6. p.trim \in BOOLEAN /\ p.decode \in BOOLEAN
  BY <1>3 DEF Providers
<1> HIDE DEF load, data, result, p, form
<1>7. filled \in [Roles -> SliceForms] /\ filled[role] = load /\ \A r \in Roles \ {role} : filled[r] = slice[r]
  BY <1>3, <1>5
<1> HIDE DEF filled
<1>8. /\ after \in [Roles -> SliceForms] /\ \A r \in Roles \ {role} : after[r] = slice[r]
      /\ \A x \in Slices : after[role][x] =
           IF x \in Deferred(p) /\ load[x] \notin {None, "empty"} THEN "zeros" ELSE load[x]
  BY <1>3, <1>7, ClearedSlices
<1>9. /\ Zeroed(file, role, Deferred(p)) \in [Roles -> Content]
      /\ \A r \in Roles \ {role} : Zeroed(file, role, Deferred(p))[r] = file[r]
  BY <1>3, ZeroedFiles
<1> HIDE DEF after
<1>10. calm => (result = "pem" <=> Suits(setup[role], begun[role]))
  <2> SUFFICES ASSUME calm PROVE result = "pem" <=> Suits(setup[role], begun[role])
    OBVIOUS
  <2>1. begun[role] \in Content /\ begun[role].form = form
        /\ (p.source \in {"file", "mockfile"} /\ p.check => begun[role].secure)
    BY <1>0, <1>1, <1>3 DEF TypeOK, JustInv, p, form
  <2> QED
    BY <1>2, <1>3, <2>1, ResultSuits DEF p
<1>11. CASE ~ok /\ Returns("error", after, Zeroed(file, role, Deferred(p)))
  <2>1. calm => ~Suitable
    BY <1>3, <1>10, <1>11 DEF Suitable
  <2>2. ASSUME NEW x \in Slices PROVE after[role][x] \in Clean \/ (x = "decoded" /\ after[role][x] = "partial")
    <3>1. decodes => p.decode /\ Deferred(p) = (IF p.trim THEN {"read"} ELSE {}) \cup {Undecoded(p)}
      BY DEF Deferred
    <3>2. ~decodes => data = "empty" /\ result = "empty"
      BY <1>4, <1>11 DEF result, Forms
    <3>3. CASE x = "read"
      <4>1. "read" \in Deferred(p) \/ form = "empty"
        BY <1>6, <3>1, <3>2 DEF Deferred, Undecoded, data
      <4> QED
        BY <1>3, <1>5, <1>8, <3>3, <4>1 DEF Clean
    <3>4. CASE x = "trimmed"
      <4>1. p.trim => "trimmed" \in Deferred(p) \/ data = "empty"
        BY <1>6, <3>1, <3>2 DEF Deferred, Undecoded
      <4> QED
        BY <1>5, <1>6, <1>8, <3>4, <4>1 DEF Clean
    <3>5. CASE x = "decoded"
      <4>1. load["decoded"] \in {None, "empty", "partial"}
        BY <1>5, <1>11
      <4> QED
        BY <1>8, <3>5, <4>1 DEF Clean
    <3> QED
      BY <3>3, <3>4, <3>5 DEF Slices
  <2>3. ASSUME NEW r \in Roles, NEW x \in Slices \ {held[r]}
        PROVE  after[r][x] \in Clean \/ (x = "decoded" /\ after[r][x] = "partial")
    <3>1. CASE r = role
      BY <2>2, <3>1
    <3>2. CASE r # role
      BY <1>0, <1>1, <1>8, <3>2 DEF SliceInv, Untouched, Clean
    <3> QED
      BY <3>1, <3>2
  <2> QED
    BY <1>1, <1>8, <1>9, <1>11, <2>1, <2>3, ReturnsStep
<1>12. CASE ok /\ slice' = after /\ file' = Zeroed(file, role, Deferred(p)) /\ Loaded(key)
  <2>1. p.decode => decodes
    BY <1>12 DEF result
  <2>2. key \in Slices /\ key \notin Deferred(p) /\ load[key] = result
    BY <1>3, <1>5, <1>6, <1>12, <2>1 DEF Slices, Deferred, Undecoded, result, data
  <2>3. slice'[role][key] = result
    BY <1>8, <1>12, <2>2
  <2>4. ASSUME NEW x \in Slices \ {key} PROVE slice'[role][x] \in Clean
    <3>1. x \in Deferred(p) \/ load[x] = None
      BY <1>5, <1>6, <2>1 DEF Slices, Deferred, Undecoded
    <3> QED
      BY <1>8, <1>12, <3>1 DEF Clean
  <2>5. calm => bundle[role] = begun[role].id
    BY <1>0, <1>1 DEF JustInv
  <2> HIDE DEF key
  <2> QED
    BY <1>1, <1>3, <1>8, <1>9, <1>10, <1>12, <2>2, <2>3, <2>4, <2>5, LoadedStep
<1> QED
  BY <1>1, <1>11, <1>12

(* X509KeyPair: of two blocks that belong together, or the call fails.     *)
LEMMA PairStep == KeyInv /\ Pair => KeyInv'
<1> SUFFICES ASSUME KeyInv, Pair PROVE KeyInv'
  OBVIOUS
<1>0. TypeOK /\ OrderInv /\ SliceInv /\ JustInv
  BY DEF KeyInv
<1>1. /\ role = "key" /\ pc = "pair" /\ held["key"] # None /\ held["cert"] # None /\ held["ca"] = None
      /\ config = "none" /\ UNCHANGED <<setup, writes, bundle, begun, calm>>
      /\ slice \in [Roles -> SliceForms] /\ file \in [Roles -> Content]
  BY <1>0 DEF Pair, OrderInv, TypeOK, SliceForms
<1>2. calm => /\ X509KeyPair => /\ Suits(setup["cert"], begun["cert"]) /\ Suits(setup["key"], begun["key"])
                                /\ begun["cert"].id = begun["key"].id
              /\ ~X509KeyPair => ~Suitable
  BY <1>0, <1>1 DEF JustInv, X509KeyPair, Suitable, Roles
<1>3. CASE ~X509KeyPair /\ Returns("error", slice, file)
  <2>1. \A r \in Roles : \A x \in Slices \ {held[r]} : slice[r][x] \in Clean
    BY <1>0, <1>1 DEF SliceInv, Untouched, Clean
  <2> QED
    BY <1>1, <1>2, <1>3, <2>1, ReturnsStep
<1>4. CASE X509KeyPair /\ Call("ca") /\ UNCHANGED <<file, slice, held, config>>
  <2>1. /\ role' = "ca" /\ pc' \in {"stat", "read"}
        /\ pc' = "stat" => setup["ca"].source \in {"file", "mockfile"} /\ setup["ca"].check
        /\ pc' = "read" => ~(setup["ca"].source \in {"file", "mockfile"} /\ setup["ca"].check)
    BY <1>4, Calls
  <2>2. TypeOK'
    BY <1>0, <1>1, <1>4, <2>1 DEF TypeOK, Roles
  <2>3. OrderInv'
    BY <1>1, <1>4, <2>1 DEF OrderInv
  <2>4. \A r : Untouched(r)' <=> Untouched(r)
    BY <1>1, <1>4, <2>1 DEF Untouched
  <2>5. SliceInv'
    BY <1>0, <1>1, <1>4, <2>1, <2>4 DEF SliceInv
  <2>6. JustInv'
    <3>1. bundle["cert"] = bundle["key"]
      BY <1>4 DEF X509KeyPair
    <3>2. \A r : Key(r)' = Key(r) /\ (Suits(setup'[r], begun'[r]) <=> Suits(setup[r], begun[r]))
      BY <1>1, <1>4 DEF Key
    <3> QED
      BY <1>0, <1>1, <1>2, <1>4, <2>1, <2>4, <3>1, <3>2 DEF JustInv
  <2> QED
    BY <2>1, <2>2, <2>3, <2>5, <2>6 DEF KeyInv, KeyMaterialCleared, ConfigIsJust
<1> QED
  BY <1>3, <1>4 DEF Pair

(* AppendCertsFromPEM: the last step decides what is returned.             *)
LEMMA PoolStep == KeyInv /\ Pool => KeyInv'
<1> SUFFICES ASSUME KeyInv, Pool PROVE KeyInv'
  OBVIOUS
<1>0. TypeOK /\ OrderInv /\ SliceInv /\ JustInv
  BY DEF KeyInv
<1>1. /\ role = "ca" /\ pc = "pool" /\ held["ca"] # None /\ bundle["cert"] = bundle["key"]
      /\ UNCHANGED <<setup, writes, bundle, begun, calm>>
      /\ slice \in [Roles -> SliceForms] /\ file \in [Roles -> Content]
  BY <1>0 DEF Pool, OrderInv, JustInv, TypeOK, SliceForms
<1>2. calm => (Key("ca") = "pem" <=> Suitable)
  BY <1>0, <1>1 DEF JustInv, Suitable, Roles
<1>3. \A r \in Roles : \A x \in Slices \ {held[r]} : slice[r][x] \in Clean
  BY <1>0, <1>1 DEF SliceInv, Untouched, Clean
<1>4. CASE Key("ca") = "pem" /\ Returns("config", slice, file)
  BY <1>1, <1>2, <1>3, <1>4, ReturnsStep
<1>5. CASE Key("ca") # "pem" /\ Returns("error", slice, file)
  BY <1>1, <1>2, <1>3, <1>5, ReturnsStep
<1> QED
  BY <1>4, <1>5 DEF Pool

(* A new call finds the files as they are and holds nothing.               *)
LEMMA NewTLSConfigStep == KeyInv /\ NewTLSConfig => KeyInv'
<1> SUFFICES ASSUME KeyInv, NewTLSConfig PROVE KeyInv'
  OBVIOUS
<1>0. TypeOK /\ OrderInv
  BY DEF KeyInv
<1>1. /\ \A r \in Roles : held[r] = None
      /\ slice' = [r \in Roles |-> [x \in Slices |-> None]] /\ config' = "none"
      /\ begun' = file /\ calm' = TRUE /\ UNCHANGED <<setup, file, writes, bundle, held>>
  BY <1>0 DEF NewTLSConfig, OrderInv
<1>2. /\ role' = "cert" /\ pc' \in {"stat", "read"}
      /\ pc' = "stat" => setup["cert"].source \in {"file", "mockfile"} /\ setup["cert"].check
      /\ pc' = "read" => ~(setup["cert"].source \in {"file", "mockfile"} /\ setup["cert"].check)
  BY Calls DEF NewTLSConfig
<1>3. TypeOK'
  BY <1>0, <1>1, <1>2 DEF TypeOK, Roles
<1>4. OrderInv' /\ SliceInv'
  BY <1>1, <1>2 DEF OrderInv, SliceInv, Roles
<1>5. JustInv'
  BY <1>1, <1>2 DEF JustInv
<1> QED
  BY <1>2, <1>3, <1>4, <1>5 DEF KeyInv, KeyMaterialCleared, ConfigIsJust

(* A rotation disturbs a call, and nothing but its files.                  *)
LEMMA WriteStep ==
    ASSUME KeyInv, NEW r \in Roles, NEW content \in Contents[r], Write(r, content)
    PROVE  KeyInv'
<1>0. TypeOK /\ OrderInv /\ SliceInv /\ JustInv /\ KeyMaterialCleared /\ ConfigIsJust
  BY DEF KeyInv
<1>1. /\ file' = [file EXCEPT ![r] = content] /\ writes' = writes + 1 /\ writes < MaxWrites /\ calm' = FALSE
      /\ UNCHANGED <<setup, pc, role, slice, bundle, held, config, begun>>
  BY DEF Write, loadVars
<1>2. content \in Content
  BY KeyloaderAssumption
<1>3. TypeOK'
  <2>1. file' \in [Roles -> Content]
    BY <1>0, <1>1, <1>2 DEF TypeOK
  <2>2. writes' \in 0..MaxWrites
    <3>1. writes \in 0..MaxWrites /\ MaxWrites \in Nat
      BY <1>0, KeyloaderAssumption DEF TypeOK
    <3> QED
      BY <1>1, <3>1
  <2>3. calm' \in BOOLEAN
    BY <1>1
  <2> QED
    BY <1>0, <1>1, <2>1, <2>2, <2>3 DEF TypeOK
<1>4. OrderInv' /\ SliceInv' /\ KeyMaterialCleared'
  BY <1>0, <1>1 DEF OrderInv, SliceInv, Untouched, KeyMaterialCleared
<1>5. JustInv' /\ ConfigIsJust'
  BY <1>0, <1>1 DEF JustInv, ConfigIsJust
<1> QED
  BY <1>3, <1>4, <1>5 DEF KeyInv

(* Every step of NewTLSConfig, and every rotation of a file, keeps the     *)
(* invariant.                                                              *)
LEMMA KeyStep == KeyInv /\ [Next]_vars => KeyInv'
<1> SUFFICES ASSUME KeyInv, [Next]_vars PROVE KeyInv'
  OBVIOUS
<1>1. CASE UNCHANGED vars
  BY <1>1 DEF vars, KeyInv, TypeOK, OrderInv, SliceInv, Untouched, JustInv, Key, Suits,
              KeyMaterialCleared, ConfigIsJust
<1> QED
  BY <1>1, NewTLSConfigStep, StatStep, ReadStep, ProcessStep, PairStep, PoolStep, WriteStep DEF Next

(* NewTLSConfig keeps its inductive invariant, for any providers and any   *)
(* contents of their files, rotated at any time.                           *)
THEOREM KeyInvariance == Spec => []KeyInv
<1>1. Init => KeyInv
  <2> SUFFICES ASSUME Init PROVE KeyInv
    OBVIOUS
  <2>1. file \in [Roles -> Content]
    BY KeyloaderAssumption DEF Init, Roles
  <2>2. \A r \in Roles : file[r].id \in Ids
    BY <2>1 DEF Content
  <2>3. TypeOK
    BY <2>1, <2>2, KeyloaderAssumption DEF Init, TypeOK, Roles
  <2>4. OrderInv /\ SliceInv /\ JustInv /\ KeyMaterialCleared /\ ConfigIsJust
    BY DEF Init, OrderInv, SliceInv, JustInv, KeyMaterialCleared, ConfigIsJust
  <2> QED
    BY <2>3, <2>4 DEF KeyInv
<1> QED
  BY <1>1, KeyStep, PTL DEF Spec

(* However NewTLSConfig returns, no slice that its providers made still    *)
(* holds a key.                                                            *)
THEOREM KeysAreCleared == Spec => []KeyMaterialCleared
<1>1. KeyInv => KeyMaterialCleared
  BY DEF KeyInv
<1> QED
  BY <1>1, KeyInvariance, PTL

(* A config holds a pair that belongs together, and a call that no         *)
(* rotation disturbs succeeds exactly when its files suit its providers.   *)
THEOREM ConfigsAreJust == Spec => []ConfigIsJust
<1>1. KeyInv => ConfigIsJust
  BY DEF KeyInv
<1> QED
  BY <1>1, KeyInvariance, PTL
=============================================================================
