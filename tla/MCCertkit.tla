----------------------------- MODULE MCCertkit ------------------------------
(***************************************************************************)
(* certkit on a small instance.  Its two halves share no state: a          *)
(* behaviour loads keys or issues certificates, and leaves the other half  *)
(* as it began.                                                            *)
(***************************************************************************)
EXTENDS Keyloader, Pki

Provider(source, trim, decode, check) ==
    [source |-> source, trim |-> trim, decode |-> decode, check |-> check]
Plain == Provider("file", FALSE, FALSE, TRUE)

(* Every provider for the private key, with the providers of the           *)
(* certificate and of the CA that let the load reach each of its steps.    *)
MCSetups ==
    [cert : {Plain, Provider("mockfile", TRUE, TRUE, FALSE)},
     key  : {p \in Providers : /\ p.check => p.source \in {"file", "mockfile"}
                               /\ p.trim \/ p.decode => p.source \notin {"static", "error"}},
     ca   : {Plain, Provider("static", FALSE, FALSE, FALSE), Provider("error", FALSE, FALSE, FALSE)}]

Written(forms, ids) == [form : forms, id : ids, secure : {TRUE}]
MCContents ==
    [cert |-> Written({"pem"}, {1, 2}) \cup Written({"spaced"}, {1}),
     key  |-> Written(Forms \ {"zeros"}, {1}) \cup Written({"pem"}, {2})
                \cup [form : {"pem"}, id : {1}, secure : {FALSE}],
     ca   |-> Written({"pem", "junk"}, {1})]

VARIABLE part   \* the half of certkit that is at work

(* The files and providers that stay as they are while certificates are    *)
(* issued.                                                                 *)
Unused ==
    /\ setup = [r \in Roles |-> Plain]
    /\ file = [r \in Roles |-> [form |-> "pem", id |-> 1, secure |-> TRUE]]

MCInit == /\ Init /\ PkiInit /\ part \in {"load", "issue"}
          /\ part = "issue" => Unused

Load == part = "load" /\ Next /\ UNCHANGED <<pkiVars, part>>
Issue == part = "issue" /\ PkiNext /\ UNCHANGED <<vars, part>>
MCNext == Load \/ Issue

MCSpec == MCInit /\ [][MCNext]_<<vars, pkiVars, part>>
=============================================================================
