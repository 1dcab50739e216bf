------------------------------ MODULE Keyloader ------------------------------
(***************************************************************************)
(* certkit/keyloader, its mock and certkit/mtls: NewTLSConfig loads a      *)
(* certificate, a private key and a CA certificate through three           *)
(* providers, one after the other, while the files are rotated.            *)
(*                                                                         *)
(* The contents of a file or of a slice are abstracted to their form and   *)
(* to the bundle they belong to.  Cleared slices are zeros of the same     *)
(* length.  The copies that string(data) and X509KeyPair make are out of   *)
(* the reach of free, and are not part of the state.                       *)
(***************************************************************************)
EXTENDS Naturals, FiniteSets

CONSTANTS Setups,     \* the providers of the three roles, [Roles -> Providers]
          Contents,   \* the contents that are written for each role
          Ids,        \* bundles
          MaxWrites   \* bound: the changes of a file

Roles == {"cert", "key", "ca"}
Forms == {"missing",   \* no such file, or the variable is not set
          "empty",
          "blank",     \* whitespace
          "pem",       \* a PEM block
          "compact",   \* an encoding of the PEM block
          "spaced",    \* that encoding, with whitespace the decoder refuses
          "junk",      \* anything else
          "zeros"}     \* what clear leaves
Content == [form : Forms, id : Ids, secure : BOOLEAN]
Sources == {"env", "file", "mockfile", "static", "error"}
Providers == [source : Sources, trim : BOOLEAN, decode : BOOLEAN, check : BOOLEAN]

ASSUME KeyloaderAssumption ==
    /\ Setups \subseteq [Roles -> Providers]
    /\ Contents \in [Roles -> SUBSET Content]
    /\ MaxWrites \in Nat

(* The slices of one load: what was read, what is left after trimming, and *)
(* what the decoder returned.                                              *)
Slices == {"read", "trimmed", "decoded"}
None == "none"

VARIABLES
    setup,    \* the providers
    file,     \* the contents of each file or variable
    writes,   \* how often one was changed
    pc,       \* control state of NewTLSConfig
    role,     \* the provider it is calling
    slice,    \* the form of each slice of each load
    bundle,   \* the bundle each load read
    held,     \* which slice the key of each role is, until it is freed
    config,   \* what the last call returned: a config of the bundles, or an error
    begun,    \* history: the files when the call began
    calm      \* history: none has changed since

vars == <<setup, file, writes, pc, role, slice, bundle, held, config, begun, calm>>
loadVars == <<slice, bundle, held>>

TypeOK ==
    /\ setup \in Setups
    /\ file \in [Roles -> Content] /\ begun \in [Roles -> Content]
    /\ writes \in 0..MaxWrites
    /\ pc \in {"idle", "stat", "read", "process", "pair", "pool"}
    /\ role \in Roles
    /\ slice \in [Roles -> [Slices -> {None, "partial"} \cup Forms]]
    /\ bundle \in [Roles -> Ids]
    /\ held \in [Roles -> {None} \cup Slices]
    /\ config \in {"none", "config", "error"}
    /\ calm \in BOOLEAN

Init ==
    /\ setup \in Setups
    /\ file \in [cert : Contents.cert, key : Contents.key, ca : Contents.ca]
    /\ writes = 0
    /\ pc = "idle" /\ role = "cert"
    /\ slice = [r \in Roles |-> [s \in Slices |-> None]]
    /\ bundle = [r \in Roles |-> file[r].id]
    /\ held = [r \in Roles |-> None]
    /\ config = "none"
    /\ begun = file /\ calm = TRUE

----------------------------------------------------------------------------
(* bytes.Map drops the whitespace, that of a PEM block included.           *)
Trim(form) ==
    CASE form = "spaced" -> "compact"
      [] form = "blank"  -> "empty"
      [] form = "pem"    -> "junk"
      [] OTHER           -> form

(* The decoders return what they have decoded when they fail.              *)
Decode(form) ==
    CASE form = "compact" -> "pem"
      [] form = "blank"   -> "empty"
      [] OTHER            -> "partial"

(* clear of some slices of the role's load: in the mock the slice that was *)
(* read is the file's.                                                     *)
Cleared(s, r, gone) ==
    [s EXCEPT ![r] = [x \in Slices |-> IF x \in gone /\ @[x] \notin {None, "empty"} THEN "zeros" ELSE @[x]]]
Zeroed(f, r, gone) ==
    IF "read" \in gone /\ setup[r].source = "mockfile" THEN [f EXCEPT ![r].form = "zeros"] ELSE f

----------------------------------------------------------------------------
(* NewTLSConfig calls the provider of a role, which checks the permissions *)
(* of a file first.                                                        *)
Call(r) ==
    /\ role' = r
    /\ pc' = IF setup[r].source \in {"file", "mockfile"} /\ setup[r].check THEN "stat" ELSE "read"

(* The free functions that were deferred: each clears the key of its role. *)
FreeAll(s) == [r \in Roles |-> Cleared(s, r, IF setup[r].source = "static" THEN {} ELSE {held[r]})[r]]
FreedFiles(f) == [r \in Roles |-> Zeroed(f, r, {held[r]})[r]]

(* A return of NewTLSConfig.                                               *)
Returns(result, s, f) ==
    /\ pc' = "idle"
    /\ role' = "cert"
    /\ config' = result
    /\ slice' = FreeAll(s)
    /\ file' = FreedFiles(f)
    /\ held' = [r \in Roles |-> None]

NewTLSConfig ==
    /\ pc = "idle"
    /\ Call("cert")
    /\ slice' = [r \in Roles |-> [s \in Slices |-> None]]
    /\ config' = "none"
    /\ begun' = file /\ calm' = TRUE
    /\ UNCHANGED <<setup, file, writes, bundle, held>>

(* Stat.                                                                   *)
Stat ==
    /\ pc = "stat"
    /\ \/ /\ file[role].form = "missing" \/ ~file[role].secure
          /\ Returns("error", slice, file)
       \/ /\ file[role].form # "missing" /\ file[role].secure
          /\ pc' = "read"
          /\ UNCHANGED <<file, role, slice, held, config>>
    /\ UNCHANGED <<setup, writes, bundle, begun, calm>>

(* The provider has returned a key: the next one is called, or the pair or *)
(* the CA pool is made.                                                    *)
Loaded(s) ==
    /\ held' = [held EXCEPT ![role] = s]
    /\ CASE role = "cert" -> Call("key")
         [] role = "key"  -> pc' = "pair" /\ UNCHANGED role
         [] role = "ca"   -> pc' = "pool" /\ UNCHANGED role
    /\ UNCHANGED config

Unread(p, form) ==
    p.source = "error" \/ (p.source # "static" /\ form \in {"missing", "empty"})

(* ReadFile, or the getter of the variable; a StaticProvider returns its   *)
(* slice, an ErrorProvider fails.                                          *)
Read ==
    /\ pc = "read"
    /\ \/ /\ Unread(setup[role], file[role].form)
          /\ Returns("error", slice, file)
          /\ UNCHANGED bundle
       \/ /\ ~Unread(setup[role], file[role].form)
          /\ slice' = [slice EXCEPT ![role]["read"] = file[role].form]
          /\ bundle' = [bundle EXCEPT ![role] = file[role].id]
          /\ \/ setup[role].source = "static" /\ Loaded("read")
             \/ setup[role].source # "static" /\ pc' = "process" /\ UNCHANGED <<role, held, config>>
          /\ UNCHANGED file
    /\ UNCHANGED <<setup, writes, begun, calm>>

(* The slice that is decoded, or is the key when there is no decoder.      *)
Undecoded(p) == IF p.trim THEN "trimmed" ELSE "read"

(* Mutant: the original is not cleared.                                    *)
DeferredOnce(p) == IF p.decode THEN {Undecoded(p)} ELSE {}

(* Mutant: the deferred closure clears data as it stands at the return.    *)
DeferredLate(p) == (IF p.trim THEN {"read"} ELSE {}) \cup (IF p.decode THEN {"decoded"} ELSE {})

(* What the defers of processKey clear: the slice that was read, if it was *)
(* trimmed, and the one that was decoded, as data stood at the defer.      *)
Deferred(p) == (IF p.trim THEN {"read"} ELSE {}) \cup (IF p.decode THEN {Undecoded(p)} ELSE {})

processKey ==
    /\ pc = "process"
    /\ LET p       == setup[role]
           data    == IF p.trim THEN Trim(slice[role]["read"]) ELSE slice[role]["read"]
           decodes == p.decode /\ data # "empty"
           result  == IF decodes THEN Decode(data) ELSE data
           key     == IF p.decode THEN "decoded" ELSE Undecoded(p)
           filled  == [slice EXCEPT ![role] = [x \in Slices |-> IF x = "trimmed" /\ p.trim THEN data
                                                                ELSE IF x = "decoded" /\ decodes THEN result
                                                                ELSE @[x]]]
           after   == Cleared(filled, role, Deferred(p))
           ok      == result \notin {"empty", "partial"}
       IN \/ /\ ~ok
             /\ Returns("error", after, Zeroed(file, role, Deferred(p)))
          \/ /\ ok
             /\ slice' = after
             /\ file' = Zeroed(file, role, Deferred(p))
             /\ Loaded(key)
    /\ UNCHANGED <<setup, writes, bundle, begun, calm>>

----------------------------------------------------------------------------
(* The form of the key NewTLSConfig has of a role.                         *)
Key(r) == slice[r][held[r]]

(* External: tls.X509KeyPair, whose two blocks belong together.            *)
X509KeyPair == Key("cert") = "pem" /\ Key("key") = "pem" /\ bundle["cert"] = bundle["key"]

Pair ==
    /\ pc = "pair"
    /\ \/ X509KeyPair /\ Call("ca") /\ UNCHANGED <<file, slice, held, config>>
       \/ ~X509KeyPair /\ Returns("error", slice, file)
    /\ UNCHANGED <<setup, writes, bundle, begun, calm>>

Pool ==
    /\ pc = "pool"
    /\ \/ /\ Key("ca") = "pem"      \* external: AppendCertsFromPEM
          /\ Returns("config", slice, file)
       \/ /\ Key("ca") # "pem"
          /\ Returns("error", slice, file)
    /\ UNCHANGED <<setup, writes, bundle, begun, calm>>

(* The environment rotates a file or a variable, or changes its mode; the  *)
(* maps of the mock and the slice of a StaticProvider stay as they are.    *)
Write(r, content) ==
    /\ setup[r].source \in {"file", "env"} /\ writes < MaxWrites
    /\ content \in Contents[r] \ {file[r]}
    /\ file' = [file EXCEPT ![r] = content]
    /\ writes' = writes + 1
    /\ calm' = FALSE
    /\ UNCHANGED <<setup, pc, role, loadVars, config, begun>>

Next ==
    \/ NewTLSConfig \/ Stat \/ Read \/ processKey \/ Pair \/ Pool
    \/ \E r \in Roles : \E content \in Contents[r] : Write(r, content)

Spec == Init /\ [][Next]_vars

----------------------------------------------------------------------------
(* Properties *)

(* Once NewTLSConfig has returned, whatever it returned, every slice the   *)
(* providers made is zeros; not those of a StaticProvider, whose free is a *)
(* no-op, nor the output of a decoder that failed.                         *)
KeyMaterialCleared ==
    pc = "idle" =>
        \A r \in Roles : setup[r].source # "static" =>
            \A s \in Slices : slice[r][s] \in {None, "empty", "zeros"} \/ (s = "decoded" /\ slice[r][s] = "partial")

(* What a provider needs of its file, from the documentation of the        *)
(* options: the PEM block itself, or an encoding it is told to decode.     *)
Suits(p, f) ==
    /\ p.source # "error"
    /\ p.source \in {"file", "mockfile"} /\ p.check => f.secure
    /\ \/ p.source = "static" /\ f.form = "pem"
       \/ p.source # "static" /\ ~p.trim /\ ~p.decode /\ f.form = "pem"
       \/ p.source # "static" /\ ~p.trim /\ p.decode /\ f.form = "compact"
       \/ p.source # "static" /\ p.trim /\ p.decode /\ f.form \in {"compact", "spaced"}

(* The certificate and the key of a config belong together even when the   *)
(* files were rotated between the two reads, and a call during which no    *)
(* file changed succeeds exactly when its files suit their providers: no   *)
(* key is damaged or cleared before it is used.                            *)
ConfigIsJust ==
    pc = "idle" /\ config # "none" =>
        /\ config = "config" => bundle["cert"] = bundle["key"]
        /\ calm => (config = "config" <=> /\ \A r \in Roles : Suits(setup[r], begun[r])
                                          /\ begun["cert"].id = begun["key"].id)
=============================================================================
