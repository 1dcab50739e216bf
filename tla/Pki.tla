--------------------------------- MODULE Pki --------------------------------
(***************************************************************************)
(* certkit/pki: GenerateCA and the three leaf generators, which share      *)
(* generateCert.                                                           *)
(*                                                                         *)
(* Time is counted in ticks, Second of them to a second, and a certificate *)
(* holds times in whole seconds.  Generating a key takes any time, so the  *)
(* clock is read on both sides of it.  Keys, PEM and DER are external: a   *)
(* bundle is its certificate.                                              *)
(***************************************************************************)
EXTENDS Integers, Sequences

CONSTANTS Issuers,     \* goroutines that call the generators
          Second,      \* ticks in a second
          Minute,      \* ticks in the minute a certificate is back-dated by
          Validities,  \* the validity of a call, in ticks
          Serials,     \* the serials passed to WithSerial
          ForeignTimes,\* the times in the certificates of CAs made elsewhere
          MaxSerial,   \* the largest integer of 20 octets
          MaxRandom,   \* 2^128
          MaxCerts,    \* bound: the certificates
          MaxTime      \* bound: the clock

ASSUME PkiAssumption ==
    /\ Second \in Nat \ {0} /\ Minute \in Nat
    /\ Validities \subseteq Int /\ Serials \subseteq Int /\ ForeignTimes \subseteq Int
    /\ MaxRandom \in Nat \ {0} /\ MaxSerial \in Nat /\ MaxRandom <= MaxSerial
    /\ MaxCerts \in Nat /\ MaxTime \in Nat

Random == -100   \* no WithSerial

VARIABLES
    time,      \* the clock, from Minute on
    ipc,       \* control state of each issuer
    template,  \* the part of the template each issuer has fixed before the key
    certs      \* the certificates, in the order of their creation

pkiVars == <<time, ipc, template, certs>>

(* A CA made elsewhere is "foreign": parseCA does not tell it from a "ca". *)
CAs == {"ca", "foreign"}
Usages == CAs \cup {"server", "client", "peer"}

Templates ==
    [usage : Usages, named : BOOLEAN, issuer : Nat, serial : Serials \cup {Random},
     validity : Int, notAfter : Int]

Certificates ==
    [usage : Usages, named : BOOLEAN, issuer : Nat, serial : Int, notBefore : Int, notAfter : Int]

PkiType ==
    /\ time \in Nat
    /\ ipc \in [Issuers -> {"idle", "caKey", "leafKey"}]
    /\ template \in [Issuers -> Templates]
    /\ certs \in Seq(Certificates)

NoTemplate ==
    [usage |-> "ca", named |-> FALSE, issuer |-> 0, serial |-> Random, validity |-> 0, notAfter |-> 0]

PkiInit ==
    /\ time = Minute
    /\ ipc = [i \in Issuers |-> "idle"]
    /\ template = [i \in Issuers |-> NoTemplate]
    /\ certs = << >>

----------------------------------------------------------------------------
PkiAdvance ==
    /\ time < MaxTime
    /\ time' = time + 1
    /\ UNCHANGED <<ipc, template, certs>>

(* A bundle that this package did not make, of a CA whose clock was        *)
(* another one: it may become valid later than now, or never.              *)
ForeignCA(from, to) ==
    /\ Len(certs) < MaxCerts
    /\ certs' = Append(certs, [usage |-> "foreign", named |-> FALSE, issuer |-> 0, serial |-> 0,
                               notBefore |-> from, notAfter |-> to])
    /\ UNCHANGED <<time, ipc, template>>

(* A time in a certificate.                                                *)
Encoded(t) == t - (t % Second)

(* randomSerial and resolveSerial: the serials a call may end up with.     *)
randomSerial == 1..MaxRandom
resolveSerial(s) == IF s = Random THEN randomSerial ELSE {s} \cap (1..MaxSerial)

(* resolveURIs: every URI is absolute, ASCII and already normalised.       *)
resolveURIs(uris) == uris # "bad"

(* parseCA, and the check that the certificate is a CA's, whoever made it; *)
(* a bundle that does not parse is the number of no certificate.           *)
parseCA(ca) == ca \in DOMAIN certs /\ certs[ca].usage \in CAs

(* The call goes on to generate the key, ...                               *)
Prepared(i, label, t) ==
    /\ ipc[i] = "idle"
    /\ ipc' = [ipc EXCEPT ![i] = label]
    /\ template' = [template EXCEPT ![i] = t]
    /\ UNCHANGED <<time, certs>>

(* ... and returns a bundle, or an error: the algorithm failed, or there   *)
(* is no serial, or the certificate could not be signed or encoded.        *)
Returned(i, notAfter) ==
    /\ ipc' = [ipc EXCEPT ![i] = "idle"]
    /\ template' = [template EXCEPT ![i] = NoTemplate]
    /\ \/ /\ Len(certs) < MaxCerts
          /\ \E s \in resolveSerial(template[i].serial) :
               certs' = Append(certs, [usage |-> template[i].usage, named |-> template[i].named,
                                       issuer |-> template[i].issuer, serial |-> s,
                                       notBefore |-> Encoded(time - Minute), notAfter |-> Encoded(notAfter)])
       \/ UNCHANGED certs
    /\ UNCHANGED time

(* GenerateCA.                                                             *)
GenerateCA(i, s, v) ==
    Prepared(i, "caKey", [usage |-> "ca", named |-> FALSE, issuer |-> 0,
                          serial |-> s, validity |-> v, notAfter |-> 0])

CreateCA(i) == ipc[i] = "caKey" /\ Returned(i, time + template[i].validity)

(* generateCert up to the key: the checks of the request, of the CA and of *)
(* the validity.  A call that fails one of them returns and changes        *)
(* nothing.                                                                *)
generateCert(i, usage, names, uris, s, v, ca) ==
    /\ resolveURIs(uris)
    /\ usage \in {"server", "peer"} => names \/ uris = "good"
    /\ parseCA(ca)
    /\ time + v <= certs[ca].notAfter
    /\ Prepared(i, "leafKey", [usage |-> usage, named |-> names \/ uris = "good", issuer |-> ca,
                               serial |-> s, validity |-> v, notAfter |-> time + v])

(* Mutant: the clock is read again for the end of the validity.            *)
leafNotAfterReread(i) == time + template[i].validity

leafNotAfter(i) == template[i].notAfter

CreateLeaf(i) == ipc[i] = "leafKey" /\ Returned(i, leafNotAfter(i))

PkiNext ==
    \/ PkiAdvance
    \/ \E from, to \in ForeignTimes : ForeignCA(from, to)
    \/ \E i \in Issuers : CreateCA(i) \/ CreateLeaf(i)
    \/ \E i \in Issuers, s \in Serials \cup {Random}, v \in Validities :
         \/ GenerateCA(i, s, v)
         \/ \E usage \in Usages \ CAs, names \in BOOLEAN, uris \in {"none", "good", "bad"},
               ca \in 0..MaxCerts :
               generateCert(i, usage, names, uris, s, v, ca)

PkiSpec == PkiInit /\ [][PkiNext]_pkiVars

----------------------------------------------------------------------------
(* A leaf is signed by a CA, names its server, and does not outlive its    *)
(* CA, whoever made that one, in the whole seconds of the certificates and *)
(* however long its key took to generate (the check of generateCert, made  *)
(* before the key); a serial of this package is positive and fits 20       *)
(* octets.  That the leaf does not begin before its CA is nowhere checked. *)
LeafInsideCA ==
    \A n \in DOMAIN certs :
        /\ certs[n].usage # "foreign" => certs[n].serial \in 1..MaxSerial
        /\ certs[n].usage \notin CAs =>
             LET ca == certs[certs[n].issuer] IN
             /\ ca.usage \in CAs
             /\ certs[n].usage \in {"server", "peer"} => certs[n].named
             /\ certs[n].notAfter <= ca.notAfter
=============================================================================
