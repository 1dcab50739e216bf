------------------------------ MODULE Sharded -------------------------------
(***************************************************************************)
(* cache.Sharded over backends that are Memory caches.                     *)
(*                                                                         *)
(* A key is routed to one backend, so the maps of the backends together    *)
(* are the map m of Memory, and an operation on a key is that of Memory.   *)
(* ItemsContext visits one backend after another: the clients keep writing *)
(* between two of them, and a key may expire or the context end.           *)
(***************************************************************************)
EXTENDS Memory

CONSTANTS Size,      \* the number of backends
          Hash,      \* algorithm: the uint64 of each key
          Readers,   \* the clients that read and iterate
          Writers    \* the clients that set

ASSUME ShardedAssumption ==
    /\ Size \in Nat \ {0} /\ Hash \in [Keys -> Nat]
    /\ Clients = Readers \cup Writers

VARIABLES
    idx,     \* the backend each client's iteration visits
    err,     \* the err of each client's iteration
    broken,  \* the clients whose loop body broke off its iteration
    seen,    \* history: the keys it has yielded
    began,   \* history: the time at which it began
    steady,  \* history: the keys that were live and unchanged throughout it
    ever     \* history: the keys that had, at some time during it, an entry
             \* that had not expired when it began

scanVars == <<idx, err, broken, seen>>
historyVars == <<began, steady, ever>>
shardedVars == <<vars, scanVars, historyVars>>

ShardedType ==
    /\ MapType /\ LoopType
    /\ pc \in [Clients -> {"idle", "read", "recheck", "store", "shard", "snap", "yield", "after"}]
    /\ idx \in [Clients -> 0..Size]
    /\ err \in [Clients -> {"nil", "cause"}]
    /\ broken \subseteq Clients
    /\ seen \in [Clients -> SUBSET Keys]
    /\ began \in [Clients -> Nat]
    /\ steady \in [Clients -> SUBSET Keys] /\ ever \in [Clients -> SUBSET Keys]

(* NewSharded.                                                             *)
ShardedInit ==
    /\ Init
    /\ idx = [c \in Clients |-> 0]
    /\ err = [c \in Clients |-> "nil"]
    /\ broken = {}
    /\ seen = [c \in Clients |-> {}]
    /\ began = [c \in Clients |-> 0]
    /\ steady = [c \in Clients |-> {}] /\ ever = [c \in Clients |-> {}]

(* ModuloShard of an integer key: the conversion to an unsigned integer of *)
(* so many bits.                                                           *)
ModuloShard(k, bits) == k % 2^bits

shard(k) == Hash[k] % Size

Entries(i) == {k \in Keys : shard(k) = i}

----------------------------------------------------------------------------
(* Mutant: the loop is left without the error.                             *)
CauseDropped == "nil"

(* context.Cause of a context that has ended.                              *)
Cause == "cause"

Ends(c, e) ==
    /\ Goto(c, "after")
    /\ err' = [err EXCEPT ![c] = e]
    /\ UNCHANGED broken

(* ItemsContext, or Items, and a range over its sequence.                  *)
Scan(c) ==
    /\ pc[c] = "idle"
    /\ ctxDone' \in {ctxDone \cup {c}, ctxDone \ {c}}
    /\ got' = [got EXCEPT ![c] = Absent]
    /\ Goto(c, "shard")
    /\ UNCHANGED <<clock, m, closed, key, exp, now, todo, loopVars, scanVars>>

(* The head of the loop over the backends; Memory's iteration of the next  *)
(* one starts by reading the clock.                                        *)
Visit(c) ==
    /\ pc[c] = "shard"
    /\ \/ /\ idx[c] = Size
          /\ Ends(c, "nil")
          /\ UNCHANGED now
       \/ /\ idx[c] < Size /\ c \in ctxDone
          /\ Ends(c, Cause)
          /\ UNCHANGED now
       \/ /\ idx[c] < Size /\ c \notin ctxDone
          /\ now' = [now EXCEPT ![c] = clock]
          /\ Goto(c, "snap")
          /\ UNCHANGED <<err, broken>>
    /\ UNCHANGED <<clock, m, closed, ctxDone, key, exp, got, todo, loopVars, idx, seen>>

(* Memory's snapshot of the entries of the backend.                        *)
SnapShard(c) ==
    /\ SnapOf(c, Entries(idx[c]))
    /\ UNCHANGED scanVars

(* One entry is yielded, and the loop body goes on or breaks; the context  *)
(* has ended; or the backend is done and the next one is visited.          *)
YieldShard(c) ==
    /\ pc[c] = "yield"
    /\ \/ /\ todo[c] = {}
          /\ idx' = [idx EXCEPT ![c] = @ + 1]
          /\ Goto(c, "shard")
          /\ UNCHANGED <<todo, err, broken, seen>>
       \/ /\ todo[c] # {} /\ c \in ctxDone
          /\ todo' = [todo EXCEPT ![c] = {}]
          /\ Ends(c, Cause)
          /\ UNCHANGED <<idx, seen>>
       \/ \E k \in todo[c] :
            /\ c \notin ctxDone
            /\ seen' = [seen EXCEPT ![c] = @ \cup {k}]
            /\ \/ todo' = [todo EXCEPT ![c] = @ \ {k}] /\ UNCHANGED <<pc, broken>>
               \/ todo' = [todo EXCEPT ![c] = {}] /\ Goto(c, "after") /\ broken' = broken \cup {c}
            /\ UNCHANGED <<idx, err>>
    /\ UNCHANGED <<clock, m, closed, ctxDone, key, exp, now, got, loopVars>>

(* The loop is over, and the terminal accessor is asked for err.           *)
Report(c) ==
    /\ pc[c] = "after"
    /\ idx' = [idx EXCEPT ![c] = 0]
    /\ err' = [err EXCEPT ![c] = "nil"]
    /\ broken' = broken \ {c}
    /\ seen' = [seen EXCEPT ![c] = {}]
    /\ Goto(c, "idle")
    /\ UNCHANGED <<clock, m, closed, ctxDone, key, exp, now, got, todo, loopVars>>

(* Close of every backend; that of a Memory never fails.                   *)
CloseAll == Close /\ UNCHANGED scanVars

(* The operations on one key, which Memory's actions are.                  *)
KeyStep ==
    /\ \/ Advance
       \/ \E c \in Clients : Read(c) \/ Recheck(c) \/ Store(c)
       \/ \E c \in Readers, k \in Keys : Get(c, k)
       \/ \E c \in Writers, k \in Keys, x \in Expiries(Durations, Times) : Set(c, k, x)
       \/ \E k \in Keys : Delete(k)
    /\ UNCHANGED scanVars

EndsCtx(c) ==
    /\ pc[c] \in {"shard", "snap", "yield"} /\ c \notin ctxDone
    /\ ctxDone' = ctxDone \cup {c}
    /\ UNCHANGED <<clock, m, closed, clientVars, loopVars, scanVars>>

ScanStep(c) == Scan(c) \/ Visit(c) \/ SnapShard(c) \/ YieldShard(c) \/ Report(c) \/ EndsCtx(c)

(* The histories follow the map: a key stays steady while its entry stays  *)
(* the same and live.                                                      *)
Scanning == {"shard", "snap", "yield", "after"}
Witness ==
    /\ began' = [c \in Clients |->
         IF pc'[c] \notin Scanning THEN 0 ELSE IF pc[c] \in Scanning THEN began[c] ELSE clock]
    /\ steady' = [c \in Clients |->
         IF pc'[c] \notin Scanning THEN {}
         ELSE {k \in (IF pc[c] \in Scanning THEN steady[c] ELSE Keys) : Alive(k)' /\ m'[k] = m[k]}]
    /\ ever' = [c \in Clients |->
         IF pc'[c] \notin Scanning THEN {}
         ELSE ever[c] \cup {k \in Keys : m'[k] = 0 \/ m'[k] > began'[c]}]

ShardedNext == (KeyStep \/ CloseAll \/ \E c \in Readers : ScanStep(c)) /\ Witness

ShardedSpec == ShardedInit /\ [][ShardedNext]_shardedVars

----------------------------------------------------------------------------
(* Properties *)

(* A scan that neither its consumer broke off nor its error explains has   *)
(* yielded every entry that was live and unchanged throughout it; it has   *)
(* yielded no key that had no entry all the time, or none but such as had  *)
(* expired before it began; and it reports an error only if its context    *)
(* has ended (ItemsContext, of Sharded and of the backends it visits).     *)
ScanIsFaithful ==
    \A c \in Clients :
        /\ pc[c] = "after" /\ err[c] = "nil" /\ c \notin broken => steady[c] \subseteq seen[c]
        /\ seen[c] \subseteq ever[c]
        /\ err[c] = "cause" => c \in ctxDone
=============================================================================
