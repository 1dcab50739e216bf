---------------------------- MODULE MemoryProofs ----------------------------
(***************************************************************************)
(* Proofs about cache.Memory and the resolution of an Expiry, for every    *)
(* configuration NewMemory accepts, and about cache.Sharded over any       *)
(* number of them.                                                         *)
(***************************************************************************)
EXTENDS Sharded, TLAPS

(* The locals of the clients, wherever they are.                           *)
LocalType ==
    /\ key \in [Clients -> Keys]
    /\ exp \in [Clients -> Expiries(Durations, Times)]
    /\ now \in [Clients -> Nat]
    /\ got \in [Clients -> Nat \cup {Absent}]
    /\ todo \in [Clients -> SUBSET Keys]
    /\ ctxDone \in SUBSET Clients

(* Every reading of the clock is past.                                     *)
NowInv ==
    /\ \A c \in Clients : now[c] \in 1..clock
    /\ \A l \in Loops : lnow[l] \in 1..clock

IInv == TypeOK /\ NowInv /\ LifeIsBounded

----------------------------------------------------------------------------
(* The helpers of resolveExpiry, for a lifetime of any length.             *)
LEMMA ClampNearest ==
    ASSUME NEW t \in Nat \ {0}, NEW life \in Int
    PROVE  LET r == clampLifetime(t, life) IN
           /\ life < MinTTL => r = t + MinTTL
           /\ MaxTTL > 0 /\ life > MaxTTL => r = t + MaxTTL
           /\ MinTTL <= life /\ (MaxTTL = 0 \/ life <= MaxTTL) => r = t + life
BY ExpiryAssumption DEF clampLifetime

(* The lifetime of At is exact, or too long for a time.Duration.           *)
LEMMA SubExact ==
    ASSUME NEW t \in Nat, NEW u \in Nat
    PROVE  /\ Sub(u, t) \in Int
           /\ u - t <= MaxDuration /\ u - t >= -MaxDuration - 1 => Sub(u, t) = u - t
           /\ u - t > MaxDuration => Sub(u, t) = MaxDuration
           /\ u - t < -MaxDuration - 1 => Sub(u, t) = -MaxDuration - 1
BY ExpiryAssumption DEF Sub

(* resolveExpiry gives the admissible time nearest to the one asked for,   *)
(* although time.Time.Sub saturates.                                       *)
THEOREM ResolutionHonours ==
    ASSUME NEW x \in Expiries(Int, Nat), NEW t \in Nat \ {0}, NEW old, NEW found \in BOOLEAN,
           ~(x.kind = "keep" /\ found)
    PROVE  Honours(resolveExpiry(x, t, old, found), x, t)
<1> SUFFICES ASSUME NEW r, r = resolveExpiry(x, t, old, found) PROVE Honours(r, x, t)
  OBVIOUS
<1>0. x.kind \in {"default", "never", "keep", "after", "at"} /\ x.dur \in Int /\ x.at \in Nat
  BY DEF Expiries
<1>1. CASE x.kind \in {"default", "keep"}
  <2>1. r = resolveDefault(t)
    BY <1>1 DEF resolveExpiry
  <2>2. CASE DefaultTTL > 0
    <3>1. r = clampLifetime(t, DefaultTTL) /\ ~Permanent(x) /\ Wanted(x, t) = t + DefaultTTL
      BY <1>1, <2>1, <2>2 DEF resolveDefault, Permanent, Wanted
    <3>2. /\ DefaultTTL < MinTTL => r = t + MinTTL
          /\ MaxTTL > 0 /\ DefaultTTL > MaxTTL => r = t + MaxTTL
          /\ MinTTL <= DefaultTTL /\ (MaxTTL = 0 \/ DefaultTTL <= MaxTTL) => r = t + DefaultTTL
      BY <3>1, ClampNearest, ExpiryAssumption
    <3> QED
      BY <3>1, <3>2, ExpiryAssumption DEF Honours
  <2>3. CASE DefaultTTL = 0
    <3>1. r = clampNever(t) /\ Permanent(x)
      BY <1>1, <2>1, <2>3 DEF resolveDefault, Permanent
    <3> QED
      BY <3>1, ExpiryAssumption DEF Honours, clampNever
  <2> QED
    BY <2>2, <2>3, ExpiryAssumption
<1>2. CASE x.kind = "never" \/ (x.kind = "at" /\ x.at = 0)
  <2>1. r = clampNever(t) /\ Permanent(x)
    BY <1>2 DEF resolveExpiry, Permanent
  <2> QED
    BY <2>1, ExpiryAssumption DEF Honours, clampNever
<1>3. CASE x.kind = "after"
  <2>1. r = clampLifetime(t, x.dur) /\ ~Permanent(x) /\ Wanted(x, t) = t + x.dur
    BY <1>3 DEF resolveExpiry, Permanent, Wanted
  <2>2. /\ x.dur < MinTTL => r = t + MinTTL
        /\ MaxTTL > 0 /\ x.dur > MaxTTL => r = t + MaxTTL
        /\ MinTTL <= x.dur /\ (MaxTTL = 0 \/ x.dur <= MaxTTL) => r = t + x.dur
    BY <1>0, <2>1, ClampNearest
  <2> QED
    BY <1>0, <2>1, <2>2, ExpiryAssumption DEF Honours
<1>4. CASE x.kind = "at" /\ x.at # 0
  <2>1. r = IF MaxTTL = 0 /\ t + Sub(x.at, t) < x.at THEN x.at ELSE clampLifetime(t, Sub(x.at, t))
    BY <1>4 DEF resolveExpiry
  <2>2. ~Permanent(x) /\ Wanted(x, t) = x.at
    BY <1>4 DEF Permanent, Wanted
  <2>3. /\ Sub(x.at, t) \in Int
        /\ x.at - t <= MaxDuration /\ x.at - t >= -MaxDuration - 1 => Sub(x.at, t) = x.at - t
        /\ x.at - t > MaxDuration => Sub(x.at, t) = MaxDuration
        /\ x.at - t < -MaxDuration - 1 => Sub(x.at, t) = -MaxDuration - 1
    BY <1>0, SubExact
  <2>4. CASE MaxTTL = 0 /\ t + Sub(x.at, t) < x.at
    <3>1. r = x.at /\ x.at - t > MaxDuration
      BY <1>0, <2>1, <2>3, <2>4, ExpiryAssumption
    <3> QED
      BY <1>0, <2>2, <2>4, <3>1, ExpiryAssumption DEF Honours
  <2>5. CASE ~(MaxTTL = 0 /\ t + Sub(x.at, t) < x.at)
    <3>0. PICK s \in Int : s = Sub(x.at, t)
      BY <2>3
    <3>1. r = clampLifetime(t, s)
      BY <2>1, <2>5, <3>0
    <3>2. /\ s < MinTTL => r = t + MinTTL
          /\ MaxTTL > 0 /\ s > MaxTTL => r = t + MaxTTL
          /\ MinTTL <= s /\ (MaxTTL = 0 \/ s <= MaxTTL) => r = t + s
      BY <3>1, ClampNearest
    <3>3. CASE x.at - t > MaxDuration
      <4>1. MaxTTL > 0 /\ s = MaxDuration
        BY <1>0, <2>3, <2>5, <3>0, <3>3, ExpiryAssumption
      <4>2. r = t + MaxTTL
        BY <3>2, <4>1, ExpiryAssumption
      <4> QED
        BY <1>0, <2>2, <3>3, <4>1, <4>2, ExpiryAssumption DEF Honours
    <3>4. CASE x.at - t < -MaxDuration - 1
      <4>1. s < MinTTL
        BY <2>3, <3>0, <3>4, ExpiryAssumption
      <4>2. r = t + MinTTL
        BY <3>2, <4>1
      <4> QED
        BY <1>0, <2>2, <3>4, <4>2, ExpiryAssumption DEF Honours
    <3>5. CASE x.at - t <= MaxDuration /\ x.at - t >= -MaxDuration - 1
      <4>1. s = x.at - t
        BY <2>3, <3>0, <3>5
      <4> QED
        BY <1>0, <2>2, <3>2, <4>1, ExpiryAssumption DEF Honours
    <3> QED
      BY <1>0, <3>3, <3>4, <3>5, ExpiryAssumption
  <2> QED
    BY <2>4, <2>5
<1> QED
  BY <1>0, <1>1, <1>2, <1>3, <1>4

(* An expiry that was honoured is never or within the bounds.              *)
LEMMA HonouredRange ==
    ASSUME NEW x \in Expiries(Int, Nat), NEW t \in Nat \ {0}, NEW r, Honours(r, x, t)
    PROVE  r \in Nat /\ (MaxTTL > 0 => r \in 1..(t + MaxTTL))
<1>0. x.kind \in {"default", "never", "keep", "after", "at"} /\ x.dur \in Int /\ x.at \in Nat
  BY DEF Expiries
<1>1. Wanted(x, t) \in Int
  BY <1>0, ExpiryAssumption DEF Wanted
<1>2. CASE Permanent(x)
  BY <1>2, ExpiryAssumption DEF Honours
<1>3. CASE ~Permanent(x)
  BY <1>1, <1>3, ExpiryAssumption DEF Honours
<1> QED
  BY <1>2, <1>3

(* The inductive invariant holds initially.                                *)
LEMMA InitInv == Init => IInv
<1> SUFFICES ASSUME Init PROVE IInv
  OBVIOUS
<1>1. [kind |-> "default", dur |-> 0, at |-> 0] \in Expiries(Durations, Times)
  BY DEF Expiries
<1>2. TypeOK
  <2>0. closed \in BOOLEAN
    BY DEF Init
  <2>1. MapType
    BY <2>0 DEF Init, MapType
  <2>2. ClientType
    BY <1>1 DEF Init, ClientType
  <2>3. LoopType
    BY DEF Init, LoopType
  <2> QED
    BY <2>1, <2>2, <2>3 DEF TypeOK
<1>3. NowInv
  BY DEF Init, NowInv
<1>4. LifeIsBounded
  BY DEF Init, LifeIsBounded, Held
<1> QED
  BY <1>2, <1>3, <1>4 DEF IInv

(* What set stores: a time, within the maximum from now.                   *)
LEMMA StoredWithin ==
    ASSUME MapType, LocalType, NowInv, LifeIsBounded, NEW c \in Clients
    PROVE  LET r == resolveExpiry(exp[c], now[c], m[key[c]], Live(key[c], now[c])) IN
           r \in Nat /\ (MaxTTL > 0 => r \in 1..(clock + MaxTTL))
<1> DEFINE k == key[c]
           f == Live(k, now[c])
<1>0. /\ k \in Keys /\ now[c] \in Nat \ {0} /\ now[c] <= clock /\ clock \in Nat
      /\ m[k] \in Nat \cup {Absent} /\ f \in BOOLEAN
  BY DEF LocalType, MapType, NowInv, Live, Held, expired
<1>1. exp[c] \in Expiries(Int, Nat)
  BY MemoryAssumption DEF LocalType, Expiries
<1>2. CASE exp[c].kind = "keep" /\ f
  <2>1. resolveExpiry(exp[c], now[c], m[k], f) = m[k] /\ Held(k)
    BY <1>2 DEF resolveExpiry, Live
  <2> QED
    BY <1>0, <2>1 DEF LifeIsBounded, Held
<1>3. CASE ~(exp[c].kind = "keep" /\ f)
  <2>1. PICK r : r = resolveExpiry(exp[c], now[c], m[k], f)
    OBVIOUS
  <2>2. Honours(r, exp[c], now[c])
    BY <1>0, <1>1, <1>3, <2>1, ResolutionHonours
  <2>3. r \in Nat /\ (MaxTTL > 0 => r \in 1..(now[c] + MaxTTL))
    BY <1>0, <1>1, <2>2, HonouredRange
  <2>4. r \in Nat /\ (MaxTTL > 0 => r \in 1..(clock + MaxTTL))
    BY <1>0, <2>3, ExpiryAssumption
  <2> QED
    BY <2>1, <2>4
<1> QED
  BY <1>2, <1>3

(* So it does in every state of a Memory.                                  *)
LEMMA StoredRange ==
    ASSUME IInv, NEW c \in Clients
    PROVE  LET r == resolveExpiry(exp[c], now[c], m[key[c]], Live(key[c], now[c])) IN
           r \in Nat /\ (MaxTTL > 0 => r \in 1..(clock + MaxTTL))
<1>1. MapType /\ LocalType /\ NowInv /\ LifeIsBounded
  BY DEF IInv, TypeOK, ClientType, LocalType
<1> QED
  BY <1>1, StoredWithin

(* The actions that write the map leave entries or nothing.                *)
LEMMA MapStep == ASSUME IInv, [Next]_vars PROVE MapType'
<1> USE DEF IInv, TypeOK, clientVars, loopVars
<1>1. clock' \in Nat \ {0}
  BY DEF MapType, Next, Advance, Close, cleanup, rebuild, Items, CtxEnds, Step, Read, Recheck, Store, Snap, SnapOf,
     Yield, Get, Set, Delete, Tick, Stop, vars
<1>2. closed' \in BOOLEAN
  BY DEF MapType, Next, Advance, Close, cleanup, rebuild, Items, CtxEnds, Step, Read, Recheck, Store, Snap, SnapOf,
     Yield, Get, Set, Delete, Tick, Stop, vars
<1>3. m' \in [Keys -> Nat \cup {Absent}]
  <2>1. ASSUME NEW c \in Clients, Store(c) PROVE m' \in [Keys -> Nat \cup {Absent}]
    BY <2>1, StoredRange DEF Store, MapType
  <2>2. ASSUME NEW c \in Clients, Recheck(c) PROVE m' \in [Keys -> Nat \cup {Absent}]
    BY <2>2 DEF Recheck, MapType
  <2>3. CASE cleanup \/ rebuild
    BY <2>3 DEF cleanup, rebuild, MapType
  <2>4. ASSUME NEW k \in Keys, Delete(k) PROVE m' \in [Keys -> Nat \cup {Absent}]
    BY <2>4 DEF Delete, MapType
  <2>5. CASE UNCHANGED m
    BY <2>5 DEF MapType
  <2> QED
    BY <2>1, <2>2, <2>3, <2>4, <2>5 DEF Next, Advance, Close, Items, CtxEnds, Step, Read, Snap, SnapOf, Yield, Get, Set,
       Tick, Stop, vars
<1> QED
  BY <1>1, <1>2, <1>3 DEF MapType

(* The locals of a client keep their types.                                *)
LEMMA ClientStep == ASSUME IInv, [Next]_vars PROVE ClientType'
<1> USE DEF IInv, TypeOK, ClientType, clientVars, loopVars, Goto, Start
<1>0. clock \in Nat
  BY DEF MapType
<1>1. ASSUME NEW c \in Clients, NEW k \in Keys, Get(c, k) PROVE ClientType'
  BY <1>0, <1>1 DEF Get
<1>2. ASSUME NEW c \in Clients, NEW k \in Keys, NEW x \in Expiries(Durations, Times), Set(c, k, x)
      PROVE ClientType'
  BY <1>0, <1>2 DEF Set
<1>3. ASSUME NEW c \in Clients, Items(c) PROVE ClientType'
  BY <1>0, <1>3 DEF Items
<1>4. ASSUME NEW c \in Clients, CtxEnds(c) PROVE ClientType'
  BY <1>4 DEF CtxEnds
<1>5. ASSUME NEW c \in Clients, Read(c) PROVE ClientType'
  <2>1. m[key[c]] \in Nat \cup {Absent}
    BY DEF MapType
  <2> QED
    BY <1>5, <2>1 DEF Read
<1>6. ASSUME NEW c \in Clients, Recheck(c) \/ Store(c) PROVE ClientType'
  BY <1>6 DEF Recheck, Store
<1>7. ASSUME NEW c \in Clients, Snap(c) PROVE ClientType'
  BY <1>7 DEF Snap, SnapOf
<1>8. ASSUME NEW c \in Clients, Yield(c) PROVE ClientType'
  BY <1>8 DEF Yield
<1>9. CASE UNCHANGED <<clientVars, ctxDone>>
  BY <1>9
<1> QED
  BY <1>1, <1>2, <1>3, <1>4, <1>5, <1>6, <1>7, <1>8, <1>9
     DEF Next, Step, Advance, Close, cleanup, rebuild, Delete, Tick, Stop, vars

(* The locals of the background goroutines keep their types.               *)
LEMMA LoopStep == ASSUME IInv, [Next]_vars PROVE LoopType'
<1> USE DEF IInv, TypeOK, LoopType, clientVars, loopVars
<1>1. ASSUME NEW l \in Loops, Tick(l) \/ Stop(l) PROVE LoopType'
  BY <1>1 DEF Tick, Stop, MapType
<1>2. CASE cleanup \/ rebuild
  BY <1>2 DEF cleanup, rebuild
<1>3. CASE UNCHANGED loopVars
  BY <1>3
<1> QED
  BY <1>1, <1>2, <1>3 DEF Next, Step, Advance, Close, Items, CtxEnds, Read, Recheck, Store, Snap, SnapOf, Yield, Get, Set,
     Delete, vars

(* The clock never runs back.                                              *)
LEMMA ClockStep == ASSUME IInv, [Next]_vars PROVE clock' \in Nat /\ clock <= clock'
BY DEF IInv, TypeOK, MapType, Next, Advance, Close, cleanup, rebuild, Items, CtxEnds, Step, Read, Recheck, Store,
   Snap, SnapOf, Yield, Get, Set, Delete, Tick, Stop, vars, clientVars, loopVars

(* Every step keeps the clock readings in the past.                        *)
LEMMA NowStep == ASSUME IInv, [Next]_vars PROVE NowInv'
<1> USE DEF IInv, TypeOK, clientVars, loopVars
<1>0. clock \in Nat \ {0} /\ clock' \in Nat /\ clock <= clock'
  BY ClockStep DEF MapType
<1>1. \A c \in Clients : now'[c] = now[c] \/ now'[c] = clock
  BY DEF ClientType, Next, Advance, Close, cleanup, rebuild, Items, CtxEnds, Step, Read, Recheck, Store, Snap, SnapOf,
     Yield, Get, Set, Start, Delete, Tick, Stop, vars
<1>2. \A l \in Loops : lnow'[l] = lnow[l] \/ lnow'[l] = clock
  BY DEF LoopType, Next, Advance, Close, cleanup, rebuild, Items, CtxEnds, Step, Read, Recheck, Store, Snap, SnapOf,
     Yield, Get, Set, Start, Delete, Tick, Stop, vars
<1> QED
  BY <1>0, <1>1, <1>2 DEF NowInv

(* Every entry was stored by set within the maximum, or kept.              *)
LEMMA BoundStep == ASSUME IInv, [Next]_vars PROVE LifeIsBounded'
<1> SUFFICES ASSUME MaxTTL > 0, NEW k \in Keys, m'[k] # Absent PROVE m'[k] \in 1..(clock' + MaxTTL)
  BY DEF LifeIsBounded, Held
<1>0. clock \in Nat /\ clock' \in Nat /\ clock <= clock' /\ MaxTTL \in Nat /\ m \in [Keys -> Nat \cup {Absent}]
  BY ClockStep, ExpiryAssumption DEF IInv, TypeOK, MapType
<1>1. CASE m'[k] = m[k]
  <2>1. m[k] \in 1..(clock + MaxTTL)
    BY <1>1 DEF IInv, LifeIsBounded, Held
  <2> QED
    BY <1>0, <1>1, <2>1
<1>2. ASSUME NEW c \in Clients, Store(c) PROVE m'[k] \in 1..(clock' + MaxTTL)
  <2>1. CASE k = key[c]
    <3>1. m'[k] = resolveExpiry(exp[c], now[c], m[key[c]], Live(key[c], now[c]))
      BY <1>0, <1>2, <2>1 DEF Store
    <3>2. m'[k] \in 1..(clock + MaxTTL)
      BY <3>1, StoredRange
    <3> QED
      BY <1>0, <3>2
  <2>2. CASE k # key[c]
    <3>1. m'[k] = m[k]
      BY <1>0, <1>2, <2>2 DEF Store
    <3> QED
      BY <1>1, <3>1
  <2> QED
    BY <2>1, <2>2
<1>3. (\A c \in Clients : ~Store(c)) => m'[k] = m[k] \/ m'[k] = Absent
  BY <1>0 DEF Next, Advance, Close, cleanup, rebuild, Items, CtxEnds, Step, Read, Recheck, Snap, SnapOf, Yield, Get, Set,
     Delete, Tick, Stop, vars, clientVars, loopVars
<1> QED
  BY <1>1, <1>2, <1>3

(* Readings of the clock are past, and entries are within their bounds.    *)
THEOREM Invariance == Spec => []IInv
<1>1. IInv /\ [Next]_vars => IInv'
  BY MapStep, ClientStep, LoopStep, NowStep, BoundStep DEF IInv, TypeOK
<1> QED
  BY InitInv, <1>1, PTL DEF Spec

(* Every variable keeps its type.                                          *)
THEOREM Typing == Spec => []TypeOK
<1>1. IInv => TypeOK
  BY DEF IInv
<1> QED
  BY Invariance, <1>1, PTL

(* No chain of sets makes an entry outlive WithMaxTTL.                     *)
THEOREM MaximumHolds == Spec => []LifeIsBounded
<1>1. IInv => LifeIsBounded
  BY DEF IInv
<1> QED
  BY Invariance, <1>1, PTL

(* An entry that is alive now was alive at every earlier reading.          *)
LEMMA AliveEarlier ==
    ASSUME MapType, NEW k \in Keys, Alive(k), NEW t \in Nat, t <= clock
    PROVE  m[k] # Absent /\ ~expired(m[k], t) /\ Live(k, t)
<1>1. m[k] \in Nat \cup {Absent} /\ clock \in Nat
  BY DEF MapType
<1> QED
  BY <1>1 DEF Alive, Live, Held, expired, Absent

(* lookup, cleanup and rebuild remove only what has expired.               *)
THEOREM NoLiveEntryLost == Spec => LiveIsKept
<1> DEFINE Kept == \A k \in Keys : Alive(k) /\ m'[k] = Absent => Delete(k)
<1>1. ASSUME IInv, [Next]_vars, NEW k \in Keys, Alive(k), m'[k] = Absent PROVE Delete(k)
  <2> USE DEF clientVars, loopVars
  <2>0. m \in [Keys -> Nat \cup {Absent}] /\ m[k] # Absent
    BY <1>1 DEF IInv, TypeOK, MapType, Alive, Absent
  <2>1. ASSUME NEW c \in Clients, Store(c) PROVE FALSE
    <3>1. resolveExpiry(exp[c], now[c], m[key[c]], Live(key[c], now[c])) # Absent
      BY <1>1, StoredRange DEF Absent
    <3> QED
      BY <1>1, <2>0, <2>1, <3>1 DEF Store
  <2>2. ASSUME NEW c \in Clients, Recheck(c) PROVE FALSE
    <3>1. now[c] \in Nat /\ now[c] <= clock
      BY <1>1 DEF IInv, NowInv, TypeOK, MapType
    <3>2. ~expired(m[k], now[c])
      BY <1>1, <3>1, AliveEarlier DEF IInv, TypeOK
    <3> QED
      BY <1>1, <2>0, <2>2, <3>2 DEF Recheck
  <2>3. ASSUME cleanup \/ rebuild PROVE FALSE
    <3>1. \A l \in Loops : lnow[l] \in Nat /\ lnow[l] <= clock
      BY <1>1 DEF IInv, NowInv, TypeOK, MapType
    <3>2. \A l \in Loops : ~expired(m[k], lnow[l]) /\ Live(k, lnow[l])
      BY <1>1, <3>1, AliveEarlier DEF IInv, TypeOK
    <3> QED
      BY <1>1, <2>0, <2>3, <3>2 DEF cleanup, rebuild
  <2>4. ASSUME NEW j \in Keys, Delete(j) PROVE j = k
    BY <1>1, <2>0, <2>4 DEF Delete
  <2>5. ASSUME UNCHANGED m PROVE FALSE
    BY <1>1, <2>0, <2>5
  <2> QED
    BY <1>1, <2>1, <2>2, <2>3, <2>4, <2>5 DEF Next, Advance, Close, Items, CtxEnds, Step, Read, Snap, SnapOf, Yield, Get,
       Set, Tick, Stop, vars
<1>2. IInv /\ [Next]_vars => [Kept]_vars
  BY <1>1
<1> QED
  BY Invariance, <1>2, PTL DEF Spec, LiveIsKept

(* lookup and ItemsContext miss no entry that is alive when they look.     *)
THEOREM NoLiveEntryMissed == Spec => LiveIsSeen
<1> DEFINE Seen == \A c \in Clients :
              /\ Read(c) /\ Alive(key[c]) => got'[c] = m[key[c]]
              /\ Snap(c) => {k \in Keys : Alive(k)} \subseteq todo'[c]
<1>1. ASSUME IInv, NEW c \in Clients PROVE now[c] \in Nat /\ now[c] <= clock /\ key[c] \in Keys
  BY <1>1 DEF IInv, NowInv, TypeOK, MapType, ClientType
<1>2. ASSUME IInv, NEW c \in Clients, Read(c), Alive(key[c]) PROVE got'[c] = m[key[c]]
  <2>1. Live(key[c], now[c])
    BY <1>1, <1>2, AliveEarlier DEF IInv, TypeOK
  <2> QED
    BY <1>2, <2>1 DEF Read, IInv, TypeOK, ClientType
<1>3. ASSUME IInv, NEW c \in Clients, Snap(c) PROVE {k \in Keys : Alive(k)} \subseteq todo'[c]
  <2>1. \A k \in Keys : Alive(k) => Live(k, now[c])
    BY <1>1, <1>3, AliveEarlier DEF IInv, TypeOK
  <2> QED
    BY <1>3, <2>1 DEF Snap, SnapOf, IInv, TypeOK, ClientType
<1>4. IInv /\ [Next]_vars => [Seen]_vars
  BY <1>2, <1>3
<1> QED
  BY Invariance, <1>4, PTL DEF Spec, LiveIsSeen

(* What set stores, of a Memory or of a backend of Sharded.                *)
LEMMA StoreHonours ==
    ASSUME MapType, LocalType, NowInv, NEW c \in Clients, Store(c)
    PROVE  /\ exp[c].kind = "keep" /\ Alive(key[c]) => m'[key[c]] = m[key[c]]
           /\ ~(exp[c].kind = "keep" /\ Live(key[c], now[c])) => Honours(m'[key[c]], exp[c], now[c])
<1>0. /\ now[c] \in Nat \ {0} /\ now[c] <= clock /\ key[c] \in Keys
      /\ Live(key[c], now[c]) \in BOOLEAN
  BY DEF NowInv, MapType, LocalType, Live, Held, expired
<1>1. exp[c] \in Expiries(Int, Nat)
  BY MemoryAssumption DEF LocalType, Expiries
<1>2. m'[key[c]] = resolveExpiry(exp[c], now[c], m[key[c]], Live(key[c], now[c]))
  BY <1>0 DEF Store, MapType
<1>3. ASSUME exp[c].kind = "keep", Alive(key[c]) PROVE m'[key[c]] = m[key[c]]
  <2>1. Live(key[c], now[c])
    BY <1>0, <1>3, AliveEarlier
  <2> QED
    BY <1>2, <1>3, <2>1 DEF resolveExpiry
<1>4. ASSUME ~(exp[c].kind = "keep" /\ Live(key[c], now[c])) PROVE Honours(m'[key[c]], exp[c], now[c])
  BY <1>0, <1>1, <1>2, <1>4, ResolutionHonours
<1> QED
  BY <1>3, <1>4

(* set stores the expiry that was asked for, clamped; Keep preserves the   *)
(* expiry of a live entry, and replaces one that was past at its reading.  *)
THEOREM StoresHonour == Spec => SetHonours
<1> DEFINE Honoured == \A c \in Clients : Store(c) =>
              LET k == key[c] IN
              /\ exp[c].kind = "keep" /\ Alive(k) => m'[k] = m[k]
              /\ ~(exp[c].kind = "keep" /\ Live(k, now[c])) => Honours(m'[k], exp[c], now[c])
<1>1. IInv => MapType /\ LocalType /\ NowInv
  BY DEF IInv, TypeOK, ClientType, LocalType
<1>2. IInv /\ [Next]_vars => [Honoured]_vars
  BY <1>1, StoreHonours
<1> QED
  BY Invariance, <1>2, PTL DEF Spec, SetHonours

(* The expiry of a live entry passed to At gives the same expiry, if no    *)
(* minimum lengthens it.                                                   *)
THEOREM ExpiryReapplies == Spec => []ReturnedReapplies
<1>1. ASSUME IInv PROVE ReturnedReapplies
  <2> SUFFICES ASSUME MinTTL = 0, NEW k \in Keys, Alive(k)
               PROVE  resolveExpiry([kind |-> "at", dur |-> 0, at |-> m[k]], clock, Absent, FALSE) = m[k]
    BY DEF ReturnedReapplies
  <2>1. PICK x : x = [kind |-> "at", dur |-> 0, at |-> m[k]]
    OBVIOUS
  <2>2. PICK r : r = resolveExpiry(x, clock, Absent, FALSE)
    OBVIOUS
  <2>3. clock \in Nat \ {0} /\ m[k] \in Nat /\ m[k] # Absent
    BY <1>1 DEF IInv, TypeOK, MapType, Alive, Absent
  <2>4. x \in Expiries(Int, Nat) /\ x.kind = "at" /\ x.at = m[k]
    BY <2>1, <2>3 DEF Expiries
  <2>5. Honours(r, x, clock)
    BY <2>2, <2>3, <2>4, ResolutionHonours
  <2>6. MaxTTL > 0 => m[k] \in 1..(clock + MaxTTL)
    BY <1>1, <2>3 DEF IInv, LifeIsBounded, Held
  <2>7. CASE m[k] = 0
    <3>1. MaxTTL = 0 /\ Permanent(x)
      BY <2>4, <2>6, <2>7, ExpiryAssumption DEF Permanent
    <3>2. r = m[k]
      BY <2>5, <2>7, <3>1 DEF Honours
    <3> QED
      BY <2>1, <2>2, <3>2
  <2>8. CASE m[k] > clock
    <3>1. ~Permanent(x) /\ Wanted(x, clock) = m[k]
      BY <2>3, <2>4, <2>8 DEF Permanent, Wanted
    <3>2. r = m[k]
      BY <2>3, <2>5, <2>6, <2>8, <3>1, ExpiryAssumption DEF Honours
    <3> QED
      BY <2>1, <2>2, <3>2
  <2> QED
    BY <2>7, <2>8 DEF Alive
<1> QED
  BY Invariance, <1>1, PTL

----------------------------------------------------------------------------
(* cache.Sharded *)

(* An iteration that is under way knows of no error; it reads the clock no *)
(* earlier than it began; what it has yielded, or is about to, was in the  *)
(* map; and a steady key is yielded, about to be, or in a backend that is  *)
(* still to be visited.                                                    *)
ScanInv(c) ==
    /\ pc[c] \notin Scanning => /\ idx[c] = 0 /\ err[c] = "nil" /\ c \notin broken
                                /\ seen[c] = {} /\ steady[c] = {} /\ ever[c] = {}
    /\ pc[c] \in {"shard", "snap", "yield"} => err[c] = "nil" /\ c \notin broken
    /\ pc[c] \in {"snap", "yield"} => idx[c] < Size
    /\ began[c] <= clock
    /\ pc[c] = "snap" => began[c] <= now[c]
    /\ err[c] = "cause" => c \in ctxDone
    /\ seen[c] \subseteq ever[c]
    /\ pc[c] = "yield" => todo[c] \subseteq ever[c]
    /\ \A k \in steady[c] : Alive(k)
    /\ pc[c] \in {"shard", "snap"} => \A k \in steady[c] : k \in seen[c] \/ shard(k) >= idx[c]
    /\ pc[c] = "yield" => \A k \in steady[c] : k \in seen[c] \cup todo[c] \/ shard(k) > idx[c]
    /\ pc[c] = "after" /\ err[c] = "nil" /\ c \notin broken => steady[c] \subseteq seen[c]

ShardedInv ==
    /\ ShardedType /\ LocalType /\ NowInv /\ LifeIsBounded
    /\ \A c \in Clients : ScanInv(c)

(* The data of the backends and of the calls, in any control state.        *)
DataInv == MapType /\ LoopType /\ LocalType /\ NowInv /\ LifeIsBounded

KeyControl == {"idle", "read", "recheck", "store"}

(* An operation on one key does what it does to a Memory, and leaves every *)
(* iteration alone.                                                        *)
LEMMA KeyStepFacts ==
    ASSUME DataInv, KeyStep,
           pc \in [Clients -> KeyControl \cup Scanning]
    PROVE  /\ DataInv'
           /\ clock <= clock'
           /\ UNCHANGED <<todo, ctxDone>>
           /\ pc' \in [Clients -> KeyControl \cup Scanning]
           /\ \A c \in Clients : pc'[c] = pc[c] \/ (pc[c] \in KeyControl /\ pc'[c] \in KeyControl)
           /\ \A c \in Clients : pc[c] \in Scanning => now'[c] = now[c]
<1> USE DEF clientVars, loopVars
<1>0. MapType /\ LoopType /\ LocalType /\ NowInv /\ LifeIsBounded
  BY DEF DataInv
<1>1. /\ clock \in Nat \ {0} /\ m \in [Keys -> Nat \cup {Absent}]
      /\ key \in [Clients -> Keys] /\ now \in [Clients -> Nat] /\ got \in [Clients -> Nat \cup {Absent}]
  BY <1>0 DEF MapType, LocalType
<1>2. /\ UNCHANGED <<todo, ctxDone, closed, loopVars>>
  BY DEF KeyStep, Advance, Read, Recheck, Store, Get, Set, Delete
<1>3. clock' \in Nat \ {0} /\ clock <= clock'
  BY <1>1 DEF KeyStep, Advance, Read, Recheck, Store, Get, Set, Delete
<1>4. /\ pc' \in [Clients -> KeyControl \cup Scanning]
      /\ \A c \in Clients : pc'[c] = pc[c] \/ (pc[c] \in KeyControl /\ pc'[c] \in KeyControl)
  <2>1. ASSUME NEW c \in Clients, NEW label \in KeyControl, pc[c] \in KeyControl,
               pc' = [pc EXCEPT ![c] = label]
        PROVE  /\ pc' \in [Clients -> KeyControl \cup Scanning]
               /\ \A d \in Clients : pc'[d] = pc[d] \/ (pc[d] \in KeyControl /\ pc'[d] \in KeyControl)
    BY <2>1
  <2>2. CASE UNCHANGED pc
    BY <2>2
  <2>3. ASSUME NEW c \in Clients, Read(c) \/ Recheck(c) \/ Store(c)
        PROVE  pc[c] \in KeyControl /\ \E label \in KeyControl : pc' = [pc EXCEPT ![c] = label]
    BY <2>3 DEF Read, Recheck, Store, Goto, KeyControl
  <2>4. ASSUME NEW c \in Clients, NEW k \in Keys, Get(c, k) \/ \E x \in Expiries(Durations, Times) : Set(c, k, x)
        PROVE  pc[c] \in KeyControl /\ \E label \in KeyControl : pc' = [pc EXCEPT ![c] = label]
    BY <2>4 DEF Get, Set, Start, Goto, KeyControl
  <2>5. Readers \subseteq Clients /\ Writers \subseteq Clients
    BY ShardedAssumption
  <2> QED
    BY <2>1, <2>2, <2>3, <2>4, <2>5 DEF KeyStep, Advance, Delete
<1>5. ASSUME NEW k \in Keys
      PROVE  /\ m'[k] \in Nat \cup {Absent}
             /\ MaxTTL > 0 /\ m'[k] # Absent => m'[k] \in 1..(clock' + MaxTTL)
  <2>1. ASSUME NEW c \in Clients, Store(c), k = key[c]
        PROVE  m'[k] \in Nat /\ (MaxTTL > 0 => m'[k] \in 1..(clock + MaxTTL))
    <3>1. m'[k] = resolveExpiry(exp[c], now[c], m[key[c]], Live(key[c], now[c]))
      BY <1>1, <2>1 DEF Store
    <3> QED
      BY <1>0, <3>1, StoredWithin
  <2>2. (\A c \in Clients : ~(Store(c) /\ k = key[c])) => m'[k] = m[k] \/ m'[k] = Absent
    BY <1>1 DEF KeyStep, Advance, Read, Recheck, Store, Get, Set, Delete
  <2>3. m[k] \in Nat \cup {Absent} /\ (MaxTTL > 0 /\ m[k] # Absent => m[k] \in 1..(clock + MaxTTL))
    BY <1>0, <1>1 DEF LifeIsBounded, Held
  <2>4. \A x \in Nat : x \in 1..(clock + MaxTTL) => x \in 1..(clock' + MaxTTL)
    <3>1. MaxTTL \in Nat /\ clock \in Nat /\ clock' \in Nat
      BY <1>1, <1>3, ExpiryAssumption
    <3>2. \A a, b, t, x \in Nat : a <= b /\ x \in 1..(a + t) => x \in 1..(b + t)
      OBVIOUS
    <3> QED
      BY <1>3, <3>1, <3>2
  <2>5. CASE \E c \in Clients : Store(c) /\ k = key[c]
    BY <2>1, <2>4, <2>5 DEF Absent
  <2>6. CASE \A c \in Clients : ~(Store(c) /\ k = key[c])
    BY <2>2, <2>3, <2>4, <2>6
  <2> QED
    BY <2>5, <2>6
<1>6. m' \in [Keys -> Nat \cup {Absent}]
  <2>1. m' = [k \in Keys |-> m'[k]]
    BY <1>1 DEF KeyStep, Advance, Read, Recheck, Store, Get, Set, Delete
  <2> QED
    BY <1>5, <2>1
<1>7. MapType' /\ LifeIsBounded' /\ LoopType'
  BY <1>0, <1>2, <1>3, <1>5, <1>6 DEF MapType, LifeIsBounded, Held, LoopType
<1>8. /\ key' \in [Clients -> Keys] /\ exp' \in [Clients -> Expiries(Durations, Times)]
      /\ now' \in [Clients -> Nat] /\ \A c \in Clients : now'[c] = now[c] \/ now'[c] = clock
  BY <1>0, <1>1, ShardedAssumption
     DEF LocalType, KeyStep, Advance, Read, Recheck, Store, Get, Set, Start, Delete
<1>9. NowInv'
  BY <1>0, <1>1, <1>2, <1>3, <1>8 DEF NowInv
<1>10. got' \in [Clients -> Nat \cup {Absent}]
  <2>1. \A c \in Clients : got'[c] \in Nat \cup {Absent}
    BY <1>1, ShardedAssumption DEF KeyStep, Advance, Read, Recheck, Store, Get, Set, Start, Delete
  <2>2. got' = [c \in Clients |-> got'[c]]
    BY <1>1 DEF KeyStep, Advance, Read, Recheck, Store, Get, Set, Start, Delete
  <2> QED
    BY <2>1, <2>2
<1>11. LocalType'
  BY <1>0, <1>2, <1>8, <1>10 DEF LocalType
<1>12. \A c \in Clients : pc[c] \in Scanning => now'[c] = now[c]
  BY <1>1 DEF KeyStep, Advance, Read, Recheck, Store, Get, Set, Start, Delete, Scanning
<1> QED
  BY <1>2, <1>3, <1>4, <1>7, <1>9, <1>11, <1>12 DEF DataInv

(* The histories of an iteration only lose steady keys and only gain keys  *)
(* that had an entry.                                                      *)
LEMMA WitnessFacts ==
    ASSUME Witness, NEW c \in Clients
    PROVE  /\ pc'[c] \notin Scanning => began'[c] = 0 /\ steady'[c] = {} /\ ever'[c] = {}
           /\ pc'[c] \in Scanning =>
                /\ began'[c] = IF pc[c] \in Scanning THEN began[c] ELSE clock
                /\ \A k \in steady'[c] : Alive(k)'
                /\ pc[c] \in Scanning => steady'[c] \subseteq steady[c]
                /\ ever[c] \subseteq ever'[c]
                /\ {k \in Keys : m'[k] = 0 \/ m'[k] > began'[c]} \subseteq ever'[c]
BY DEF Witness

HistoryType ==
    /\ began \in [Clients -> Nat]
    /\ steady \in [Clients -> SUBSET Keys] /\ ever \in [Clients -> SUBSET Keys]

(* Their types.                                                            *)
LEMMA WitnessType == ASSUME Witness, HistoryType, clock \in Nat PROVE HistoryType'
<1>1. \A c \in Clients : began'[c] \in Nat /\ steady'[c] \subseteq Keys /\ ever'[c] \subseteq Keys
  BY DEF Witness, HistoryType
<1>2. /\ began' = [c \in Clients |-> began'[c]] /\ steady' = [c \in Clients |-> steady'[c]]
      /\ ever' = [c \in Clients |-> ever'[c]]
  BY DEF Witness
<1> QED
  BY <1>1, <1>2 DEF HistoryType

(* An iteration that does not step keeps its invariant, whatever the       *)
(* others do.                                                              *)
LEMMA Bystander ==
    ASSUME NEW c \in Clients, ScanInv(c), Witness,
           clock \in Nat, clock' \in Nat, clock <= clock', began[c] \in Nat,
           pc[c] \in Scanning => now'[c] = now[c],
           pc'[c] = pc[c] \/ (pc[c] \notin Scanning /\ pc'[c] \notin Scanning),
           idx'[c] = idx[c], err'[c] = err[c], seen'[c] = seen[c], todo'[c] = todo[c],
           c \in broken' <=> c \in broken, c \in ctxDone => c \in ctxDone'
    PROVE  ScanInv(c)'
<1>1. CASE pc'[c] \notin Scanning
  BY <1>1, WitnessFacts DEF ScanInv, Scanning
<1>2. CASE pc'[c] \in Scanning /\ pc'[c] = pc[c]
  <2>1. began'[c] = began[c] /\ began[c] <= clock'
    BY <1>2, WitnessFacts DEF ScanInv
  <2> QED
    BY <1>2, <2>1, WitnessFacts DEF ScanInv, Scanning, shard
<1> QED
  BY <1>1, <1>2

(* Every key is in one of the backends.                                    *)
LEMMA ShardRange == ASSUME NEW k \in Keys PROVE shard(k) \in 0..(Size - 1)
<1>1. Hash[k] \in Nat /\ Size \in Nat \ {0}
  BY ShardedAssumption
<1>2. Hash[k] % Size \in 0..(Size - 1)
  BY <1>1
<1> QED
  BY <1>2 DEF shard

(* A step of an iteration changes its own locals only.                     *)
Alone(c) ==
    /\ \A d \in Clients \ {c} :
         /\ pc'[d] = pc[d] /\ now'[d] = now[d]
         /\ idx'[d] = idx[d] /\ err'[d] = err[d] /\ seen'[d] = seen[d]
         /\ todo'[d] = todo[d] /\ (d \in broken' <=> d \in broken) /\ (d \in ctxDone' <=> d \in ctxDone)
    /\ UNCHANGED <<clock, m, closed, key, exp, loopVars>>

(* It leaves the backends alone, and reads the clock or nothing.           *)
LEMMA ScanStepFacts ==
    ASSUME ShardedInv, NEW c \in Clients, ScanStep(c)
    PROVE  /\ Alone(c)
           /\ got' \in {got, [got EXCEPT ![c] = Absent]}
           /\ now' = now \/ (now' = [now EXCEPT ![c] = clock] /\ pc[c] = "shard")
           /\ pc'[c] = "snap" /\ pc[c] # "snap" => now'[c] = clock
<1> USE DEF ShardedInv, ShardedType, LocalType, clientVars, loopVars, scanVars, Goto, Ends
<1>1. CASE Scan(c)
  BY <1>1 DEF Scan, Alone
<1>2. CASE Visit(c)
  BY <1>2 DEF Visit, Alone
<1>3. CASE SnapShard(c)
  BY <1>3 DEF SnapShard, SnapOf, Alone
<1>4. CASE YieldShard(c)
  BY <1>4 DEF YieldShard, Alone
<1>5. CASE Report(c)
  BY <1>5 DEF Report, Alone
<1>6. CASE EndsCtx(c)
  BY <1>6 DEF EndsCtx, Alone
<1> QED
  BY <1>1, <1>2, <1>3, <1>4, <1>5, <1>6 DEF ScanStep

(* The step of an iteration keeps its invariant.                           *)
LEMMA ScanStepInv ==
    ASSUME ShardedInv, NEW c \in Clients, ScanStep(c), Witness
    PROVE  ScanInv(c)'
<1>0. /\ ShardedType /\ LocalType /\ NowInv /\ ScanInv(c) /\ UNCHANGED <<clock, m>>
  BY ScanStepFacts DEF ShardedInv, Alone
<1>1. /\ pc \in [Clients -> KeyControl \cup Scanning] /\ idx[c] \in 0..Size /\ Size \in Nat \ {0}
      /\ steady[c] \subseteq Keys /\ todo[c] \subseteq Keys
  BY <1>0, ShardedAssumption DEF ShardedType, LocalType, KeyControl, Scanning
<1>typed. /\ clock \in Nat /\ began[c] \in Nat /\ now[c] \in Nat /\ HistoryType
          /\ pc'[c] = "snap" /\ pc[c] # "snap" => now'[c] = clock
  BY <1>0, ScanStepFacts DEF ShardedType, MapType, LocalType, HistoryType
<1>began. /\ began'[c] \in Nat /\ began'[c] <= clock'
          /\ pc'[c] = "snap" /\ pc[c] # "snap" => began'[c] <= now'[c]
  BY <1>0, <1>typed, WitnessFacts DEF ScanInv
<1>2. \A k \in Keys : shard(k) \in Nat /\ shard(k) < Size
  BY <1>1, ShardRange
<1>3. \A k : Alive(k)' <=> Alive(k)
  BY <1>0 DEF Alive
<1> USE DEF Goto, scanVars
<1>4. CASE Scan(c)
  <2>1. /\ pc'[c] = "shard" /\ pc[c] = "idle" /\ idx'[c] = idx[c] /\ err'[c] = err[c] /\ seen'[c] = seen[c]
        /\ broken' = broken
    BY <1>1, <1>4 DEF Scan
  <2>2. idx[c] = 0 /\ err[c] = "nil" /\ c \notin broken /\ seen[c] = {}
    BY <1>0, <2>1 DEF ScanInv, Scanning
  <2>3. steady'[c] \subseteq Keys
    BY <1>typed, WitnessType DEF HistoryType
  <2>4. \A k \in steady'[c] : shard(k) >= 0
    BY <1>2, <2>3
  <2> QED
    BY <1>began, <2>1, <2>2, <2>4, WitnessFacts DEF ScanInv, Scanning, shard
<1>5. CASE Visit(c)
  <2>1. pc[c] = "shard" /\ idx'[c] = idx[c] /\ seen'[c] = seen[c] /\ ctxDone' = ctxDone /\ broken' = broken
    BY <1>5 DEF Visit, Ends
  <2>2. CASE idx[c] = Size /\ pc'[c] = "after" /\ err'[c] = "nil"
    <3>1. \A k \in steady[c] : k \in seen[c]
      BY <1>0, <1>1, <1>2, <2>1, <2>2 DEF ScanInv
    <3> QED
      BY <1>0, <1>began, <2>1, <2>2, <3>1, WitnessFacts DEF ScanInv, Scanning
  <2>3. CASE c \in ctxDone /\ pc'[c] = "after" /\ err'[c] = "cause"
    BY <1>0, <1>began, <2>1, <2>3, WitnessFacts DEF ScanInv, Scanning
  <2>4. CASE idx[c] < Size /\ pc'[c] = "snap" /\ err' = err
    BY <1>0, <1>began, <2>1, <2>4, WitnessFacts DEF ScanInv, Scanning, shard
  <2> QED
    BY <1>0, <1>1, <1>5, <2>2, <2>3, <2>4 DEF Visit, Ends, Cause, ShardedType
<1>6. CASE SnapShard(c)
  <2>1. /\ pc[c] = "snap" /\ pc'[c] = "yield" /\ UNCHANGED <<idx, err, broken, seen, ctxDone>>
        /\ todo'[c] = {k \in Entries(idx[c]) : Live(k, now[c])}
    BY <1>0, <1>1, <1>6 DEF SnapShard, SnapOf, LocalType
  <2>2. now[c] \in Nat /\ now[c] <= clock /\ MapType
    BY <1>0 DEF NowInv, ShardedType, MapType
  <2>3. ASSUME NEW k \in steady[c] PROVE k \in seen[c] \/ k \in todo'[c] \/ shard(k) > idx[c]
    <3>1. Live(k, now[c]) /\ k \in Keys
      BY <1>0, <1>1, <2>2, AliveEarlier DEF ScanInv
    <3>2. k \in seen[c] \/ shard(k) >= idx[c]
      BY <1>0, <2>1 DEF ScanInv
    <3>3. shard(k) = idx[c] => k \in todo'[c]
      BY <2>1, <3>1 DEF Entries
    <3> QED
      BY <1>1, <1>2, <3>1, <3>2, <3>3
  <2>4. todo'[c] \subseteq ever'[c]
    <3>1. began'[c] = began[c] /\ began[c] <= now[c]
      BY <1>0, <2>1, WitnessFacts DEF ScanInv, Scanning
    <3>2. \A k \in todo'[c] : k \in Keys /\ Held(k) /\ ~expired(m[k], now[c])
      BY <2>1 DEF Entries, Live
    <3>3. \A k \in todo'[c] : k \in Keys /\ (m'[k] = 0 \/ m'[k] > began'[c])
      <4>1. \A k \in Keys : m[k] \in Nat \cup {Absent}
        BY <2>2 DEF MapType
      <4>2. \A x \in Nat : x # 0 /\ ~(now[c] >= x) => x > began[c]
        BY <1>typed, <3>1
      <4> QED
        BY <1>0, <3>1, <3>2, <4>1, <4>2 DEF Held, expired, Absent
    <3> QED
      BY <2>1, <3>3, WitnessFacts DEF Scanning
  <2> QED
    BY <1>0, <1>began, <2>1, <2>3, <2>4, WitnessFacts DEF ScanInv, Scanning, shard
<1>7. CASE YieldShard(c)
  <2>1. pc[c] = "yield" /\ ctxDone' = ctxDone
    BY <1>7 DEF YieldShard
  <2>2. CASE todo[c] = {} /\ pc'[c] = "shard" /\ idx'[c] = idx[c] + 1 /\ UNCHANGED <<err, broken, seen>>
    <3>1. \A k \in steady[c] : k \in seen[c] \/ shard(k) >= idx[c] + 1
      BY <1>0, <1>1, <1>2, <2>1, <2>2 DEF ScanInv
    <3> QED
      BY <1>0, <1>began, <2>1, <2>2, <3>1, WitnessFacts DEF ScanInv, Scanning, shard
  <2>3. CASE c \in ctxDone /\ pc'[c] = "after" /\ err'[c] = "cause" /\ UNCHANGED <<idx, seen, broken>>
    BY <1>0, <1>began, <2>1, <2>3, WitnessFacts DEF ScanInv, Scanning
  <2>4. ASSUME NEW k \in todo[c], seen'[c] = seen[c] \cup {k}, todo'[c] = todo[c] \ {k},
               UNCHANGED <<pc, broken, idx, err>>
        PROVE  ScanInv(c)'
    <3>1. k \in ever[c] /\ todo[c] \subseteq ever[c]
      BY <1>0, <2>1, <2>4 DEF ScanInv
    <3> QED
      BY <1>0, <1>began, <2>1, <2>4, <3>1, WitnessFacts DEF ScanInv, Scanning, shard
  <2>5. ASSUME NEW k \in todo[c], seen'[c] = seen[c] \cup {k}, pc'[c] = "after", broken' = broken \cup {c},
               UNCHANGED <<idx, err>>
        PROVE  ScanInv(c)'
    <3>1. k \in ever[c]
      BY <1>0, <2>1, <2>5 DEF ScanInv
    <3> QED
      BY <1>0, <1>began, <2>1, <2>5, <3>1, WitnessFacts DEF ScanInv, Scanning
  <2> QED
    BY <1>0, <1>1, <1>7, <2>2, <2>3, <2>4, <2>5 DEF YieldShard, Ends, Cause, ShardedType, LocalType
<1>8. CASE Report(c)
  <2>1. /\ pc'[c] = "idle" /\ idx'[c] = 0 /\ err'[c] = "nil" /\ c \notin broken' /\ seen'[c] = {}
    BY <1>0, <1>8 DEF Report, ShardedType
  <2> QED
    BY <1>began, <2>1, WitnessFacts DEF ScanInv, Scanning
<1>9. CASE EndsCtx(c)
  <2>1. UNCHANGED <<pc, now, idx, err, broken, seen, todo>> /\ ctxDone' = ctxDone \cup {c}
    BY <1>9 DEF EndsCtx, clientVars
  <2> QED
    BY <1>0, <1>typed, <2>1, Bystander
<1> QED
  BY <1>4, <1>5, <1>6, <1>7, <1>8, <1>9 DEF ScanStep

(* The step of an iteration keeps the types of what it changes.            *)
LEMMA ScanStepType ==
    ASSUME ShardedInv, NEW c \in Clients, ScanStep(c)
    PROVE  /\ pc' \in [Clients -> KeyControl \cup Scanning]
           /\ idx' \in [Clients -> 0..Size] /\ err' \in [Clients -> {"nil", "cause"}]
           /\ broken' \subseteq Clients /\ seen' \in [Clients -> SUBSET Keys]
           /\ todo' \in [Clients -> SUBSET Keys] /\ ctxDone' \in SUBSET Clients
<1>0. /\ pc \in [Clients -> KeyControl \cup Scanning]
      /\ idx \in [Clients -> 0..Size] /\ err \in [Clients -> {"nil", "cause"}]
      /\ broken \subseteq Clients /\ seen \in [Clients -> SUBSET Keys]
      /\ todo \in [Clients -> SUBSET Keys] /\ ctxDone \in SUBSET Clients
  BY DEF ShardedInv, ShardedType, LocalType, KeyControl, Scanning
<1> USE DEF Goto, scanVars, clientVars, loopVars
<1>1. CASE Scan(c)
  BY <1>0, <1>1 DEF Scan, Scanning
<1>2. CASE Visit(c)
  BY <1>0, <1>2 DEF Visit, Ends, Cause, Scanning
<1>3. CASE SnapShard(c)
  <2>1. {k \in Entries(idx[c]) : Live(k, now[c])} \in SUBSET Keys
    BY DEF Entries
  <2> QED
    BY <1>0, <1>3, <2>1 DEF SnapShard, SnapOf, Scanning
<1>4. CASE YieldShard(c)
  <2>1. idx[c] + 1 \in 0..Size
    <3>1. idx[c] < Size
      BY <1>4 DEF YieldShard, ShardedInv, ScanInv
    <3> QED
      BY <1>0, <3>1, ShardedAssumption
  <2>2. idx' \in [Clients -> 0..Size]
    <3>1. idx' = idx \/ idx' = [idx EXCEPT ![c] = idx[c] + 1]
      BY <1>4 DEF YieldShard
    <3> QED
      BY <1>0, <2>1, <3>1
  <2>3. seen' \in [Clients -> SUBSET Keys] /\ todo' \in [Clients -> SUBSET Keys]
    BY <1>0, <1>4 DEF YieldShard
  <2>4. /\ pc' \in [Clients -> KeyControl \cup Scanning] /\ err' \in [Clients -> {"nil", "cause"}]
        /\ broken' \subseteq Clients /\ ctxDone' \in SUBSET Clients
    BY <1>0, <1>4 DEF YieldShard, Ends, Cause, Scanning
  <2> QED
    BY <2>2, <2>3, <2>4
<1>5. CASE Report(c)
  <2>1. 0 \in 0..Size
    BY ShardedAssumption
  <2> QED
    BY <1>0, <1>5, <2>1 DEF Report, KeyControl
<1>6. CASE EndsCtx(c)
  BY <1>0, <1>6 DEF EndsCtx
<1> QED
  BY <1>1, <1>2, <1>3, <1>4, <1>5, <1>6 DEF ScanStep

(* Every step of Sharded keeps the invariant.                              *)
LEMMA ShardedStep == ASSUME ShardedInv, [ShardedNext]_shardedVars PROVE ShardedInv'
<1>0. /\ ShardedType /\ LocalType /\ NowInv /\ LifeIsBounded
      /\ \A c \in Clients : ScanInv(c)
      /\ MapType /\ LoopType /\ DataInv /\ HistoryType
      /\ pc \in [Clients -> KeyControl \cup Scanning]
      /\ clock \in Nat /\ \A c \in Clients : began[c] \in Nat
  BY DEF ShardedInv, ShardedType, DataInv, HistoryType, MapType, KeyControl, Scanning
<1>1. ASSUME KeyStep, Witness PROVE ShardedInv'
  <2>1. /\ DataInv' /\ UNCHANGED <<todo, ctxDone, idx, err, broken, seen>>
        /\ pc' \in [Clients -> KeyControl \cup Scanning]
        /\ \A c \in Clients : pc'[c] = pc[c] \/ (pc[c] \in KeyControl /\ pc'[c] \in KeyControl)
        /\ \A c \in Clients : pc[c] \in Scanning => now'[c] = now[c]
        /\ clock <= clock'
    BY <1>0, <1>1, KeyStepFacts DEF KeyStep, scanVars
  <2>2. HistoryType'
    BY <1>0, <1>1, WitnessType
  <2>3. ShardedType'
    BY <1>0, <2>1, <2>2 DEF ShardedType, DataInv, HistoryType, KeyControl, Scanning
  <2>4. clock' \in Nat
    BY <2>1 DEF DataInv, MapType
  <2>5. ASSUME NEW c \in Clients PROVE ScanInv(c)'
    BY <1>0, <1>1, <2>1, <2>4, Bystander DEF KeyControl, Scanning
  <2> QED
    BY <2>1, <2>3, <2>5 DEF ShardedInv, DataInv
<1>2. ASSUME CloseAll, Witness PROVE ShardedInv'
  <2>1. /\ UNCHANGED <<clock, m, ctxDone, pc, key, exp, now, got, todo, lpc, lnow, idx, err, broken, seen>>
        /\ closed' = TRUE
    BY <1>2 DEF CloseAll, Close, clientVars, loopVars, scanVars
  <2>2. HistoryType'
    BY <1>0, <1>2, WitnessType
  <2>3. closed' \in BOOLEAN
    BY <2>1
  <2>4. ShardedType'
    BY <1>0, <2>1, <2>2, <2>3 DEF ShardedType, HistoryType, MapType, LoopType
  <2>5. LocalType' /\ NowInv' /\ LifeIsBounded'
    BY <1>0, <2>1 DEF LocalType, NowInv, LifeIsBounded, Held
  <2>6. ASSUME NEW c \in Clients PROVE ScanInv(c)'
    BY <1>0, <1>2, <2>1, Bystander
  <2> QED
    BY <2>4, <2>5, <2>6 DEF ShardedInv
<1>3. ASSUME NEW c \in Clients, ScanStep(c), Witness PROVE ShardedInv'
  <2>1. /\ Alone(c) /\ got' \in {got, [got EXCEPT ![c] = Absent]}
        /\ now' = now \/ (now' = [now EXCEPT ![c] = clock] /\ pc[c] = "shard")
    BY <1>3, ScanStepFacts
  <2>2. UNCHANGED <<clock, m, closed, key, exp, lpc, lnow>>
    BY <2>1 DEF Alone, loopVars
  <2>3. /\ pc' \in [Clients -> KeyControl \cup Scanning]
        /\ idx' \in [Clients -> 0..Size] /\ err' \in [Clients -> {"nil", "cause"}]
        /\ broken' \subseteq Clients /\ seen' \in [Clients -> SUBSET Keys]
        /\ todo' \in [Clients -> SUBSET Keys] /\ ctxDone' \in SUBSET Clients
    BY <1>3, ScanStepType
  <2>4. HistoryType'
    BY <1>0, <1>3, WitnessType
  <2>5. ShardedType'
    BY <1>0, <2>2, <2>3, <2>4 DEF ShardedType, HistoryType, MapType, LoopType, KeyControl, Scanning
  <2>6. clock \in Nat \ {0} /\ now \in [Clients -> Nat] /\ got \in [Clients -> Nat \cup {Absent}]
    BY <1>0 DEF MapType, LocalType
  <2>7. LocalType'
    BY <1>0, <2>1, <2>2, <2>3, <2>6 DEF LocalType
  <2>8. NowInv' /\ LifeIsBounded'
    BY <1>0, <2>1, <2>2, <2>6 DEF NowInv, LifeIsBounded, Held
  <2>9. ASSUME NEW d \in Clients PROVE ScanInv(d)'
    <3>1. CASE d = c
      BY <1>3, <3>1, ScanStepInv
    <3>2. CASE d # c
      BY <1>0, <1>3, <2>1, <2>2, <3>2, Bystander DEF Alone
    <3> QED
      BY <3>1, <3>2
  <2> QED
    BY <2>5, <2>7, <2>8, <2>9 DEF ShardedInv
<1>4. CASE UNCHANGED shardedVars
  <2>1. UNCHANGED <<clock, m, closed, ctxDone, pc, key, exp, now, got, todo, lpc, lnow, idx, err, broken, seen,
                    began, steady, ever>>
    BY <1>4 DEF shardedVars, historyVars, vars, scanVars, clientVars, loopVars
  <2>2. ShardedType' /\ LocalType' /\ NowInv' /\ LifeIsBounded'
    BY <1>0, <2>1 DEF ShardedType, MapType, LoopType, LocalType, NowInv, LifeIsBounded, Held
  <2>3. ASSUME NEW c \in Clients PROVE ScanInv(c)'
    BY <1>0, <2>1 DEF ScanInv, Alive, shard
  <2> QED
    BY <2>2, <2>3 DEF ShardedInv
<1>5. Readers \subseteq Clients
  BY ShardedAssumption
<1> QED
  BY <1>1, <1>2, <1>3, <1>4, <1>5 DEF ShardedNext

(* Sharded keeps its inductive invariant.                                  *)
THEOREM ShardedInvariance == ShardedSpec => []ShardedInv
<1>1. ShardedInit => ShardedInv
  <2> SUFFICES ASSUME ShardedInit PROVE ShardedInv
    OBVIOUS
  <2>1. IInv
    BY InitInv DEF ShardedInit
  <2>2. LocalType /\ NowInv /\ LifeIsBounded /\ MapType /\ LoopType
    BY <2>1 DEF IInv, TypeOK, ClientType, LocalType
  <2>3. pc = [c \in Clients |-> "idle"] /\ clock = 1
    BY DEF ShardedInit, Init
  <2>4. 0 \in 0..Size
    BY ShardedAssumption
  <2>5. ShardedType
    BY <2>2, <2>3, <2>4 DEF ShardedInit, ShardedType
  <2>6. \A c \in Clients : ScanInv(c)
    BY <2>3 DEF ShardedInit, ScanInv, Scanning
  <2> QED
    BY <2>2, <2>5, <2>6 DEF ShardedInv
<1>2. ShardedInv /\ [ShardedNext]_shardedVars => ShardedInv'
  BY ShardedStep
<1> QED
  BY <1>1, <1>2, PTL DEF ShardedSpec

(* ItemsContext over the backends, of any number and any hash, yields      *)
(* every entry that was live and unchanged throughout, and no other than   *)
(* entries there were that had not expired before it began; its error is   *)
(* that of its context.                                                    *)
THEOREM ScansAreFaithful == ShardedSpec => []ScanIsFaithful
<1>1. ShardedInv => ScanIsFaithful
  BY DEF ShardedInv, ScanInv, ScanIsFaithful
<1> QED
  BY <1>1, ShardedInvariance, PTL

(* No chain of sets makes an entry of a backend outlive WithMaxTTL.        *)
THEOREM ShardedMaximumHolds == ShardedSpec => []LifeIsBounded
<1>1. ShardedInv => LifeIsBounded
  BY DEF ShardedInv
<1> QED
  BY <1>1, ShardedInvariance, PTL

(* A backend stores the expiry that was asked for, as a Memory does.       *)
THEOREM ShardedStoresHonour == ShardedSpec => SetHonours
<1> DEFINE Honoured == \A c \in Clients : Store(c) =>
              LET k == key[c] IN
              /\ exp[c].kind = "keep" /\ Alive(k) => m'[k] = m[k]
              /\ ~(exp[c].kind = "keep" /\ Live(k, now[c])) => Honours(m'[k], exp[c], now[c])
<1>1. ShardedInv => MapType /\ LocalType /\ NowInv
  BY DEF ShardedInv, ShardedType
<1>2. ShardedInv /\ [ShardedNext]_shardedVars => [Honoured]_vars
  BY <1>1, StoreHonours
<1> QED
  BY ShardedInvariance, <1>2, PTL DEF ShardedSpec, SetHonours

(* A live entry leaves a backend only when it is deleted: no lookup that   *)
(* looked at the clock earlier, and no iteration, removes it.              *)
THEOREM ShardedLosesNoLiveEntry == ShardedSpec => LiveIsKept
<1> DEFINE Kept == \A k \in Keys : Alive(k) /\ m'[k] = Absent => Delete(k)
<1>1. ASSUME ShardedInv, [ShardedNext]_shardedVars, NEW k \in Keys, Alive(k), m'[k] = Absent PROVE Delete(k)
  <2>0. MapType /\ LocalType /\ NowInv /\ LifeIsBounded /\ m \in [Keys -> Nat \cup {Absent}] /\ m[k] # Absent
    BY <1>1 DEF ShardedInv, ShardedType, MapType, Alive, Absent
  <2>1. ASSUME NEW c \in Clients, Store(c) PROVE FALSE
    <3>1. resolveExpiry(exp[c], now[c], m[key[c]], Live(key[c], now[c])) # Absent
      BY <2>0, StoredWithin DEF Absent
    <3> QED
      BY <1>1, <2>0, <2>1, <3>1 DEF Store
  <2>2. ASSUME NEW c \in Clients, Recheck(c) PROVE FALSE
    <3>1. now[c] \in Nat /\ now[c] <= clock
      BY <2>0 DEF NowInv, MapType
    <3>2. ~expired(m[k], now[c])
      BY <1>1, <2>0, <3>1, AliveEarlier
    <3> QED
      BY <1>1, <2>0, <2>2, <3>2 DEF Recheck
  <2>3. ASSUME NEW j \in Keys, Delete(j) PROVE j = k
    BY <1>1, <2>0, <2>3 DEF Delete
  <2>4. ASSUME UNCHANGED m PROVE FALSE
    BY <1>1, <2>0, <2>4
  <2>5. ASSUME NEW c \in Clients, ScanStep(c) PROVE UNCHANGED m
    BY <1>1, <2>5, ScanStepFacts DEF Alone
  <2>6. CASE KeyStep
    BY <2>1, <2>2, <2>3, <2>4, <2>6 DEF KeyStep, Advance, Read, Get, Set
  <2>7. CASE CloseAll \/ UNCHANGED shardedVars
    BY <2>4, <2>7 DEF CloseAll, Close, shardedVars, vars
  <2>8. Readers \subseteq Clients
    BY ShardedAssumption
  <2> QED
    BY <1>1, <2>4, <2>5, <2>6, <2>7, <2>8 DEF ShardedNext
<1>2. ShardedInv /\ [ShardedNext]_shardedVars => [Kept]_vars
  BY <1>1
<1> QED
  BY ShardedInvariance, <1>2, PTL DEF ShardedSpec, LiveIsKept
=============================================================================
