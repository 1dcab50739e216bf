--------------------------- MODULE ThrottleProofs ---------------------------
(***************************************************************************)
(* Proofs about Throttle and TokenBucket, for any number of callers, any   *)
(* cap, schedule and limiter.                                              *)
(***************************************************************************)
EXTENDS TokenBucket, FiniteSetTheorems, NaturalFacts, TLAPS

(* A Waiter decides every turn or none of them.                            *)
ModeInv ==
    \A c \in Callers :
        /\ waiter => pc[c] \notin {"slot", "sleep"} /\ before[c] = 0
        /\ ~waiter => pc[c] # "wait"

(* The body of a call under way has not been touched yet.                  *)
BodyInv ==
    \A c \in Callers :
        body[c] \in IF pc[c] = "idle" THEN {"nil", "closed"} ELSE {"nil", "open"}

(* The cadence never falls behind the delays owed, a turn is due no sooner *)
(* than the delays before it, and all that was owed since lies between it  *)
(* and the cadence.                                                        *)
CadenceInv ==
    /\ owed = 0 \/ nextAllowed >= owed
    /\ \A c \in Callers :
         /\ before[c] <= due[c] /\ before[c] <= owed
         /\ pc[c] \in Turned /\ ~waiter => nextAllowed - due[c] >= owed - before[c]

(* Nobody runs before the turn is due.                                     *)
DueInv ==
    \A c \in Callers :
        /\ pc[c] = "sleep" /\ wait[c] = 0 => now >= due[c]
        /\ pc[c] = "run" /\ ~waiter => now >= due[c]

IInv ==
    /\ TypeOK /\ ModeInv /\ BodyInv /\ SlotsAreHeld
    /\ CadenceInv /\ DueInv /\ RateIsKept

(* A sleeper that has nothing left to wait for.                            *)
MayWake(c) == pc[c] = "sleep" /\ (wait[c] = 0 \/ now >= due[c])

(* What a step that takes no turn leaves alone.                            *)
NoTurn ==
    /\ UNCHANGED <<waiter, nextAllowed, due, wait, owed, before>>
    /\ now' \in {now, now + 1}
    /\ \A c \in Callers :
         /\ pc'[c] = "sleep" => pc[c] = "sleep"
         /\ pc'[c] = "run" => pc[c] \in {"run", "wait"} \/ MayWake(c)

(* A step of Do or of its Waiter, or of a clock that nothing holds up.     *)
FreeNext == Next \/ Tick

----------------------------------------------------------------------------
(* Preservation *)

(* The calls past the queue are counted by sem: one enters, ...            *)
LEMMA HoldOne ==
    ASSUME TypeOK, SlotsAreHeld, Cap # Unbounded, NEW c \in Callers, pc[c] \notin Holding,
           NEW l \in Holding, Goto(c, l), sem' = sem + 1, sem < Cap
    PROVE  SlotsAreHeld' /\ sem' \in Nat
<1> DEFINE H == {d \in Callers : pc[d] \in Holding}
<1>1. {d \in Callers : pc'[d] \in Holding} = H \cup {c}
  BY DEF TypeOK, Goto
<1>2. IsFiniteSet(H)
  BY ThrottleAssumption, FS_Subset
<1>3. Cardinality(H \cup {c}) = Cardinality(H) + 1
  BY <1>2, FS_AddElement
<1>4. sem \in Nat /\ Cap \in Nat
  BY ThrottleAssumption DEF TypeOK
<1> QED
  BY <1>1, <1>3, <1>4 DEF SlotsAreHeld

(* ... one leaves, ...                                                     *)
LEMMA DropOne ==
    ASSUME TypeOK, SlotsAreHeld, NEW c \in Callers, pc[c] \in Holding,
           Goto(c, "idle"), Release
    PROVE  SlotsAreHeld' /\ sem' \in Nat
<1>1. CASE Cap = Unbounded
  BY <1>1 DEF SlotsAreHeld, Release, TypeOK
<1>2. CASE Cap # Unbounded
  <2> DEFINE H == {d \in Callers : pc[d] \in Holding}
  <2>1. {d \in Callers : pc'[d] \in Holding} = H \ {c}
    BY DEF TypeOK, Goto, Holding
  <2>2. IsFiniteSet(H) /\ c \in H
    BY ThrottleAssumption, FS_Subset
  <2>3. Cardinality(H \ {c}) = Cardinality(H) - 1
    BY <2>2, FS_RemoveElement
  <2>4. Cardinality(H \ {c}) \in Nat
    BY <2>2, FS_Subset, FS_CardinalityType
  <2>5. sem \in Nat /\ Cap \in Nat /\ sem = Cardinality(H) /\ sem <= Cap /\ sem' = sem - 1
    BY <1>2, ThrottleAssumption DEF TypeOK, SlotsAreHeld, Release
  <2>6. sem' <= Cap /\ sem' = Cardinality(H \ {c})
    BY <2>3, <2>5
  <2> QED
    BY <2>1, <2>4, <2>6 DEF SlotsAreHeld
<1> QED
  BY <1>1, <1>2

(* ... and every other step keeps who is past the queue.                   *)
LEMMA HoldSame ==
    ASSUME SlotsAreHeld, sem' = sem,
           Cap # Unbounded => \A d \in Callers : pc'[d] \in Holding <=> pc[d] \in Holding
    PROVE  SlotsAreHeld'
<1>1. CASE Cap # Unbounded
  <2>1. {d \in Callers : pc'[d] \in Holding} = {d \in Callers : pc[d] \in Holding}
    BY <1>1
  <2> QED
    BY <2>1 DEF SlotsAreHeld
<1> QED
  BY <1>1 DEF SlotsAreHeld

(* sem counts the calls that hold a slot after every step.                 *)
LEMMA SlotStep == ASSUME TypeOK, SlotsAreHeld, [FreeNext]_vars PROVE SlotsAreHeld' /\ sem' \in Nat
<1> USE DEF paceVars
<1>0. sem \in Nat
  BY DEF TypeOK
<1>1. ASSUME NEW c \in Callers, Call(c) PROVE SlotsAreHeld' /\ sem' \in Nat
  BY <1>0, <1>1, HoldSame DEF Call, Goto, TypeOK, Holding
<1>2. ASSUME NEW c \in Callers, Acquire(c) PROVE SlotsAreHeld' /\ sem' \in Nat
  <2>1. Cap # Unbounded
    BY <1>0, <1>2 DEF Acquire, Unbounded
  <2> QED
    BY <1>2, <2>1, HoldOne DEF Acquire, Holding
<1>3. ASSUME NEW c \in Callers, GiveUp(c) \/ Pace(c) \/ nextSlot(c) \/ Wake(c) \/ Granted(c)
      PROVE  SlotsAreHeld' /\ sem' \in Nat
  BY <1>0, <1>3, HoldSame DEF GiveUp, Pace, nextSlot, Wake, Granted, Goto, TypeOK, Holding
<1>4. ASSUME NEW c \in Callers, Refuse(c) \/ Cut(c) \/ Denied(c) \/ Return(c)
      PROVE  SlotsAreHeld' /\ sem' \in Nat
  BY <1>4, DropOne DEF Refuse, Cut, Denied, Return, Holding
<1>5. CASE UNCHANGED <<pc, sem>>
  BY <1>0, <1>5, HoldSame
<1> QED
  BY <1>1, <1>2, <1>3, <1>4, <1>5
     DEF FreeNext, Next, CallerNext, DoStep, CtxEnds, Advance, Tick, vars

(* Types are kept.                                                         *)
LEMMA TypeStep == ASSUME TypeOK, SlotsAreHeld, [FreeNext]_vars PROVE TypeOK'
<1> USE DEF TypeOK, paceVars
<1>0. sem' \in Nat
  BY SlotStep
<1>1. CASE Tick \/ Advance
  BY <1>0, <1>1 DEF Tick, Advance
<1>2. ASSUME NEW c \in Callers, Call(c) PROVE TypeOK'
  <2>1. calls' \in [Callers -> 0..MaxCalls]
    BY <1>2, ThrottleAssumption DEF Call
  <2>2. body' \in [Callers -> {"nil", "open", "closed", "twice"}]
    BY <1>2, ThrottleAssumption DEF Call
  <2> QED
    BY <1>0, <1>2, <2>1, <2>2 DEF Call, Goto
<1>3. ASSUME NEW c \in Callers, CtxEnds(c) \/ Acquire(c) \/ Wake(c) \/ Granted(c) PROVE TypeOK'
  BY <1>0, <1>3 DEF CtxEnds, Acquire, Wake, Granted, Goto
<1>4. ASSUME NEW c \in Callers,
             GiveUp(c) \/ Refuse(c) \/ Cut(c) \/ Denied(c) \/ Return(c) PROVE TypeOK'
  <2>1. CloseBody(c) /\ Goto(c, "idle") /\ UNCHANGED <<now, waiter, calls, ctxDone, paceVars>>
    BY <1>4 DEF GiveUp, Refuse, Cut, Denied, Return
  <2> QED
    BY <1>0, <2>1 DEF CloseBody, Close, Goto
<1>5. ASSUME NEW c \in Callers, Pace(c) PROVE TypeOK'
  BY <1>0, <1>5, ThrottleAssumption DEF Pace, Goto
<1>6. ASSUME NEW c \in Callers, nextSlot(c) PROVE TypeOK'
  BY <1>0, <1>6 DEF nextSlot, Goto
<1>7. CASE UNCHANGED vars
  BY <1>7 DEF vars
<1> QED
  BY <1>1, <1>2, <1>3, <1>4, <1>5, <1>6, <1>7 DEF FreeNext, Next, CallerNext, DoStep

(* A schedule never changes its kind.                                      *)
LEMMA ModeStep == ASSUME TypeOK, ModeInv, [FreeNext]_vars PROVE ModeInv'
<1> USE DEF TypeOK, ModeInv, paceVars
<1>1. CASE Tick \/ Advance
  BY <1>1 DEF Tick, Advance
<1>2. ASSUME NEW c \in Callers,
             Call(c) \/ CtxEnds(c) \/ Acquire(c) \/ GiveUp(c) \/ Refuse(c)
       \/ Wake(c) \/ Cut(c) \/ Granted(c) \/ Denied(c) \/ Return(c)
      PROVE  ModeInv'
  BY <1>2 DEF Call, CtxEnds, Acquire, GiveUp, Refuse, Wake, Cut, Granted, Denied, Return, Goto
<1>3. ASSUME NEW c \in Callers, Pace(c) \/ nextSlot(c) PROVE ModeInv'
  BY <1>3 DEF Pace, nextSlot, Goto
<1>4. CASE UNCHANGED vars
  BY <1>4 DEF vars
<1> QED
  BY <1>1, <1>2, <1>3, <1>4 DEF FreeNext, Next, CallerNext, DoStep

(* A call closes its body as it returns and not before.                    *)
LEMMA BodyStep == ASSUME TypeOK, BodyInv, [FreeNext]_vars PROVE BodyInv'
<1> USE DEF TypeOK, BodyInv, paceVars
<1>1. ASSUME NEW c \in Callers, Call(c) PROVE BodyInv'
  BY <1>1, ThrottleAssumption DEF Call, Goto
<1>2. ASSUME NEW c \in Callers, pc[c] # "idle", CloseBody(c), Goto(c, "idle") PROVE BodyInv'
  <2>1. body'[c] \in {"nil", "closed"} /\ pc'[c] = "idle"
    <3>1. body[c] \in {"nil", "open"}
      BY <1>2
    <3>2. body'[c] = Close(body[c]) /\ pc'[c] = "idle"
      BY <1>2 DEF CloseBody, Goto
    <3>3. Close("nil") = "nil" /\ Close("open") = "closed"
      BY DEF Close
    <3> QED
      BY <3>1, <3>2, <3>3
  <2>2. \A d \in Callers \ {c} : body'[d] = body[d] /\ pc'[d] = pc[d]
    BY <1>2 DEF CloseBody, Goto
  <2> QED
    BY <2>1, <2>2
<1>3. ASSUME NEW c \in Callers, Refuse(c) \/ GiveUp(c) \/ Cut(c) \/ Denied(c) \/ Return(c)
      PROVE  BodyInv'
  BY <1>2, <1>3 DEF Refuse, GiveUp, Cut, Denied, Return
<1>4. ASSUME NEW c \in Callers, Acquire(c) \/ Pace(c) \/ nextSlot(c) \/ Wake(c) \/ Granted(c)
      PROVE  BodyInv'
  BY <1>4 DEF Acquire, Pace, nextSlot, Wake, Granted, Goto
<1>5. CASE UNCHANGED <<pc, body>>
  BY <1>5
<1> QED
  BY <1>1, <1>3, <1>4, <1>5
     DEF FreeNext, Next, CallerNext, DoStep, CtxEnds, Advance, Tick, vars

(* The times of the turns that were taken do not change: only nextSlot     *)
(* gives out a turn, and only Wake and Granted let a call run.             *)
LEMMA PaceFrame ==
    ASSUME TypeOK, [FreeNext]_vars, \A c \in Callers : ~nextSlot(c)
    PROVE  NoTurn
<1> USE DEF TypeOK, paceVars, MayWake, NoTurn
<1>1. CASE Tick \/ Advance
  BY <1>1 DEF Tick, Advance
<1>2. ASSUME NEW c \in Callers,
             Call(c) \/ CtxEnds(c) \/ Acquire(c) \/ GiveUp(c) \/ Refuse(c) \/ Pace(c)
       \/ Wake(c) \/ Cut(c) \/ Granted(c) \/ Denied(c) \/ Return(c)
      PROVE  NoTurn
  BY <1>2 DEF Call, CtxEnds, Acquire, GiveUp, Refuse, Pace, Wake, Cut, Granted, Denied, Return, Goto
<1>3. CASE UNCHANGED vars
  BY <1>3 DEF vars
<1> QED
  BY <1>1, <1>2, <1>3 DEF FreeNext, Next, CallerNext, DoStep

(* The facts of nextSlot that the rate rests on.                           *)
LEMMA SlotFacts ==
    ASSUME IInv, NEW c \in Callers, nextSlot(c)
    PROVE  /\ due'[c] \in Nat /\ due'[c] >= now /\ due'[c] >= nextAllowed /\ due'[c] >= owed
           /\ nextAllowed' = due'[c] + delay[c] /\ owed' = owed + delay[c]
           /\ before'[c] = owed /\ wait'[c] = due'[c] - now /\ pc'[c] = "sleep"
           /\ \A d \in Callers \ {c} :
                pc'[d] = pc[d] /\ due'[d] = due[d] /\ wait'[d] = wait[d] /\ before'[d] = before[d]
           /\ ~waiter /\ UNCHANGED <<now, waiter>>
<1>1. TypeOK /\ CadenceInv /\ ModeInv
  BY DEF IInv
<1>2. /\ before'[c] = owed /\ pc'[c] = "sleep" /\ UNCHANGED <<now, waiter>> /\ ~waiter
      /\ \A d \in Callers \ {c} :
            pc'[d] = pc[d] /\ due'[d] = due[d] /\ wait'[d] = wait[d] /\ before'[d] = before[d]
  BY <1>1 DEF nextSlot, Goto, TypeOK, ModeInv
<1>3. /\ due'[c] = IF nextAllowed < now THEN now ELSE nextAllowed
      /\ wait'[c] = due'[c] - now /\ nextAllowed' = due'[c] + delay[c] /\ owed' = owed + delay[c]
  BY <1>1 DEF nextSlot, TypeOK
<1>4. now \in Nat /\ nextAllowed \in Int /\ owed \in Nat /\ (owed = 0 \/ nextAllowed >= owed)
  BY <1>1 DEF TypeOK, CadenceInv
<1> QED
  BY <1>2, <1>3, <1>4

(* A turn moves the cadence on from its own due time by its delay.         *)
LEMMA CadenceStep == ASSUME IInv, [FreeNext]_vars PROVE CadenceInv'
<1>0. TypeOK /\ CadenceInv
  BY DEF IInv
<1>1. ASSUME NEW c \in Callers, nextSlot(c) PROVE CadenceInv'
  <2>1. owed \in Nat /\ nextAllowed \in Int /\ delay[c] \in Nat
    BY <1>0 DEF TypeOK
  <2>2. owed' = 0 \/ nextAllowed' >= owed'
    BY <1>1, <2>1, SlotFacts
  <2>3. ASSUME NEW d \in Callers PROVE
          /\ before'[d] <= due'[d] /\ before'[d] <= owed'
          /\ pc'[d] \in Turned /\ ~waiter' => nextAllowed' - due'[d] >= owed' - before'[d]
    <3>1. CASE d = c
      BY <1>1, <2>1, <3>1, SlotFacts
    <3>2. CASE d # c
      <4>1. /\ due'[d] = due[d] /\ before'[d] = before[d] /\ pc'[d] = pc[d]
            /\ due'[c] \in Nat /\ due'[c] >= nextAllowed /\ nextAllowed' = due'[c] + delay[c]
            /\ owed' = owed + delay[c] /\ waiter' = waiter
        BY <1>1, <3>2, SlotFacts
      <4>2. due[d] \in Nat /\ before[d] \in Nat
        BY <1>0 DEF TypeOK
      <4>3. /\ before[d] <= due[d] /\ before[d] <= owed
            /\ pc[d] \in Turned /\ ~waiter => nextAllowed - due[d] >= owed - before[d]
        BY <1>0 DEF CadenceInv
      <4> QED
        BY <2>1, <4>1, <4>2, <4>3
    <3> QED
      BY <3>1, <3>2
  <2> QED
    BY <2>2, <2>3 DEF CadenceInv
<1>2. CASE \A c \in Callers : ~nextSlot(c)
  <2>1. \A c \in Callers : pc'[c] \in Turned /\ ~waiter => pc[c] \in Turned
    BY <1>0, <1>2, PaceFrame DEF Turned, IInv, ModeInv, MayWake, NoTurn
  <2> QED
    BY <1>0, <1>2, <2>1, PaceFrame DEF CadenceInv, NoTurn
<1> QED
  BY <1>1, <1>2

(* A turn that waits for nothing is due, and a timer fires when it is.     *)
LEMMA DueStep == ASSUME IInv, [FreeNext]_vars PROVE DueInv'
<1>0. TypeOK /\ ModeInv /\ DueInv
  BY DEF IInv
<1>1. ASSUME NEW c \in Callers, nextSlot(c) PROVE DueInv'
  <2>1. now \in Nat
    BY <1>0 DEF TypeOK
  <2>2. ASSUME NEW d \in Callers PROVE
          /\ pc'[d] = "sleep" /\ wait'[d] = 0 => now' >= due'[d]
          /\ pc'[d] = "run" /\ ~waiter' => now' >= due'[d]
    <3>1. CASE d = c
      BY <1>1, <2>1, <3>1, SlotFacts
    <3>2. CASE d # c
      BY <1>0, <1>1, <3>2, SlotFacts DEF DueInv
    <3> QED
      BY <3>1, <3>2
  <2> QED
    BY <2>2 DEF DueInv
<1>2. ASSUME \A c \in Callers : ~nextSlot(c), NEW c \in Callers PROVE
          /\ pc'[c] = "sleep" /\ wait'[c] = 0 => now' >= due'[c]
          /\ pc'[c] = "run" /\ ~waiter' => now' >= due'[c]
  <2>1. /\ UNCHANGED <<waiter, due, wait>> /\ now' \in {now, now + 1}
        /\ pc'[c] = "sleep" => pc[c] = "sleep"
        /\ pc'[c] = "run" => pc[c] \in {"run", "wait"} \/ MayWake(c)
    BY <1>0, <1>2, PaceFrame DEF NoTurn
  <2>2. now \in Nat /\ due[c] \in Nat
    BY <1>0 DEF TypeOK
  <2> QED
    BY <1>0, <2>1, <2>2 DEF DueInv, ModeInv, MayWake, NoTurn
<1> QED
  BY <1>1, <1>2 DEF DueInv

(* The turns of calls under way stay as far apart as the delays between.   *)
LEMMA RateStep == ASSUME IInv, [FreeNext]_vars, TypeOK', CadenceInv', DueInv' PROVE RateIsKept'
<1>0. TypeOK /\ CadenceInv /\ ModeInv /\ RateIsKept
  BY DEF IInv
<1>1. ASSUME NEW c \in Callers, pc'[c] = "run", ~waiter' PROVE now' >= before'[c]
  <2>1. now' \in Nat /\ due'[c] \in Nat /\ before'[c] \in Nat
    BY DEF TypeOK
  <2> QED
    BY <1>1, <2>1 DEF DueInv, CadenceInv
<1>2. ASSUME NEW c \in Callers, NEW d \in Callers,
             pc'[c] \in Turned, pc'[d] \in Turned, before'[c] < before'[d]
      PROVE  due'[d] - due'[c] >= before'[d] - before'[c]
  <2>1. /\ before[c] \in Nat /\ before[d] \in Nat /\ due[c] \in Nat /\ due[d] \in Nat
        /\ owed \in Nat /\ nextAllowed \in Int /\ before[c] <= owed /\ before[d] <= owed
    BY <1>0 DEF TypeOK, CadenceInv
  <2>2. ASSUME NEW e \in Callers, nextSlot(e)
        PROVE  due'[d] - due'[c] >= before'[d] - before'[c]
    <3>1. c # e
      BY <1>2, <2>1, <2>2, SlotFacts
    <3>2. CASE d = e
      <4>1. /\ due'[d] \in Nat /\ due'[d] >= nextAllowed /\ before'[d] = owed
            /\ due'[c] = due[c] /\ before'[c] = before[c] /\ pc'[c] = pc[c] /\ ~waiter
        BY <2>2, <3>1, <3>2, SlotFacts
      <4>2. nextAllowed - due[c] >= owed - before[c]
        BY <1>0, <1>2, <4>1 DEF CadenceInv
      <4> QED
        BY <2>1, <4>1, <4>2
    <3>3. CASE d # e
      <4>1. /\ due'[d] = due[d] /\ before'[d] = before[d] /\ pc'[d] = pc[d]
            /\ due'[c] = due[c] /\ before'[c] = before[c] /\ pc'[c] = pc[c]
        BY <2>2, <3>1, <3>3, SlotFacts
      <4> QED
        BY <1>0, <1>2, <4>1 DEF RateIsKept
    <3> QED
      BY <3>2, <3>3
  <2>3. CASE \A e \in Callers : ~nextSlot(e)
    <3>1. UNCHANGED <<waiter, due, before>>
      BY <1>0, <2>3, PaceFrame DEF NoTurn
    <3>2. CASE waiter
      BY <1>0, <1>2, <3>1, <3>2 DEF ModeInv
    <3>3. CASE ~waiter
      <4>1. pc[c] \in Turned /\ pc[d] \in Turned
        BY <1>0, <1>2, <2>3, <3>3, PaceFrame DEF ModeInv, Turned, MayWake, NoTurn
      <4> QED
        BY <1>0, <1>2, <3>1, <4>1 DEF RateIsKept
    <3> QED
      BY <3>2, <3>3
  <2> QED
    BY <2>2, <2>3
<1> QED
  BY <1>1, <1>2 DEF RateIsKept

(* The invariant holds of a new throttle ...                               *)
LEMMA InitInv == Init => IInv
<1> SUFFICES ASSUME Init PROVE IInv
  OBVIOUS
<1>1. TypeOK
  BY ThrottleAssumption DEF Init, TypeOK
<1>2. SlotsAreHeld
  <2>1. {c \in Callers : pc[c] \in Holding} = {}
    BY DEF Init, Holding
  <2> QED
    BY <2>1, ThrottleAssumption, FS_EmptySet DEF SlotsAreHeld, Init, Unbounded
<1>3. ModeInv /\ BodyInv /\ CadenceInv /\ DueInv
  BY DEF Init, ModeInv, BodyInv, CadenceInv, DueInv, Turned
<1>4. RateIsKept
  BY DEF Init, RateIsKept, Turned
<1> QED
  BY <1>1, <1>2, <1>3, <1>4 DEF IInv

(* ... and is kept by every step, whoever moves the clock.                 *)
LEMMA StepInv == IInv /\ [FreeNext]_vars => IInv'
<1> SUFFICES ASSUME IInv, [FreeNext]_vars PROVE IInv'
  OBVIOUS
<1>1. TypeOK' /\ SlotsAreHeld' /\ ModeInv' /\ BodyInv'
  BY TypeStep, SlotStep, ModeStep, BodyStep DEF IInv
<1>2. CadenceInv' /\ DueInv'
  BY CadenceStep, DueStep
<1> QED
  BY <1>1, <1>2, RateStep DEF IInv

----------------------------------------------------------------------------
(* Theorems about Throttle *)

(* The throttle keeps its inductive invariant, whatever the schedule.      *)
THEOREM ThrottleInvariance == Spec => []IInv
<1>1. IInv /\ [Next]_vars => IInv'
  BY StepInv DEF FreeNext
<1> QED
  BY <1>1, InitInv, PTL DEF Spec

(* WithMaxInflight: sem counts the calls past the queue, at most Cap.      *)
THEOREM ThrottleSlots == Spec => []SlotsAreHeld
<1>1. IInv => SlotsAreHeld
  BY DEF IInv
<1> QED
  BY <1>1, ThrottleInvariance, PTL

(* No cancellation, queue or idle time earns a burst.                      *)
THEOREM ThrottleRate == Spec => []RateIsKept
<1>1. IInv => RateIsKept
  BY DEF IInv
<1> QED
  BY <1>1, ThrottleInvariance, PTL

(* RoundTrip closes every body once.                                       *)
THEOREM ThrottleBodies == Spec => []BodyClosedOnce
<1>1. IInv => BodyClosedOnce
  BY DEF IInv, BodyInv, BodyClosedOnce
<1> QED
  BY <1>1, ThrottleInvariance, PTL

----------------------------------------------------------------------------
(* The token bucket as the Waiter of a throttle *)

(* The callers that hold a claim: asleep until it is due, or let run.      *)
Owns(c) == wpc[c] = "timer" \/ (waiter /\ pc[c] = "run")

(* A caller is in Wait only while its Do waits for it.                     *)
WaitInv == \A c \in Callers : wpc[c] # "check" => pc[c] = "wait"

(* The limiter still holds the claims of those who own one, it grants, and *)
(* no claim has two owners.                                                *)
OwnInv ==
    \A c \in Callers : Owns(c) =>
        /\ limiter.burst > 0 /\ claim[c] \in claims
        /\ pc[c] = "run" => claim[c] <= now
        /\ \A d \in Callers \ {c} : Owns(d) => claim[d] # claim[c]

(* The claims have a latest one.                                           *)
BoundInv == \E m \in Nat : \A t \in claims : t <= m

(* A call that runs was let run by its last Wait.                          *)
ResultInv ==
    \A c \in Callers :
        /\ waiter /\ pc[c] = "run" => result[c] = "nil"
        /\ ~waiter => result[c] = "none"

BInv ==
    /\ IInv /\ BucketType /\ WaitInv /\ OwnInv /\ BoundInv
    /\ ClaimsAreSettled /\ ResultInv /\ ErrorsAreTrue

(* The Max of a bounded, non-empty set of naturals is its greatest number. *)
LEMMA MaxFacts ==
    ASSUME NEW T \in SUBSET Nat, T # {}, NEW b \in Nat, \A t \in T : t <= b
    PROVE  Max(T) \in T /\ \A t \in T : Max(T) >= t
  BY GreatestNatural DEF Max

(* The next claim is due no sooner than now and after every claim held.    *)
LEMMA SoonestFacts ==
    ASSUME BucketType, BoundInv
    PROVE  Soonest \in Nat /\ Soonest >= now /\ \A t \in claims : Soonest > t
<1>0. now \in Nat /\ claims \in SUBSET Nat /\ Interval \in Nat \ {0}
  BY TokenBucketAssumption DEF BucketType, TypeOK
<1>1. CASE claims = {}
  BY <1>0, <1>1 DEF Soonest
<1>2. CASE claims # {}
  <2> DEFINE T == {now} \cup {t + Interval : t \in claims}
  <2>1. T \in SUBSET Nat /\ now \in T /\ \A t \in claims : t + Interval \in T
    BY <1>0
  <2>2. PICK m \in Nat : \A t \in claims : t <= m
    BY DEF BoundInv
  <2>3. now + m + Interval \in Nat /\ \A t \in T : t <= now + m + Interval
    BY <1>0, <2>2
  <2>4. Soonest = Max(T)
    BY <1>2 DEF Soonest
  <2> HIDE DEF T
  <2>5. Max(T) \in T /\ \A t \in T : Max(T) >= t
    BY <2>1, <2>3, MaxFacts
  <2>6. \A t \in claims : Soonest >= t + Interval /\ t \in Nat
    BY <1>0, <2>1, <2>4, <2>5
  <2>7. Soonest \in Nat /\ Soonest >= now
    BY <2>1, <2>4, <2>5
  <2> QED
    BY <1>0, <2>6, <2>7
<1> QED
  BY <1>1, <1>2

(* A step of the bucket is a step of Do, one of its Waiter's, or a tick.   *)
LEMMA BucketFree == ASSUME [BucketNext]_bucketVars PROVE [FreeNext]_vars
<1>1. ASSUME NEW c \in Callers, NEW e, WaitReturns(c, e) PROVE Next
  BY <1>1 DEF WaitReturns, Next
<1>2. ASSUME NEW c \in Callers, WaitStep(c) PROVE [FreeNext]_vars
  BY <1>1, <1>2 DEF WaitStep, Check, Refused, Reserve, Fire, Abandon, FreeNext
<1>3. CASE TakeNext \/ UNCHANGED bucketVars
  BY <1>3 DEF TakeNext, bucketVars
<1>4. CASE Advance \/ TimerRuns \/ \E c \in Callers : CallerNext(c)
  BY <1>4 DEF FreeNext, Next, TimerRuns
<1> QED
  BY <1>2, <1>3, <1>4 DEF BucketNext

(* What the return of a Wait does.                                         *)
LEMMA ReturnFacts ==
    ASSUME BucketType, NEW c \in Callers, NEW e, WaitReturns(c, e)
    PROVE  /\ wpc'[c] = "check" /\ result'[c] = e
           /\ pc'[c] = IF e = "nil" THEN "run" ELSE "idle"
           /\ \A d \in Callers \ {c} : pc'[d] = pc[d] /\ wpc'[d] = wpc[d] /\ result'[d] = result[d]
           /\ UNCHANGED <<now, waiter, ctxDone>>
  BY DEF WaitReturns, Granted, Denied, Goto, BucketType, TypeOK

(* The steps outside Wait: who waits goes on waiting, nobody starts to run *)
(* on a Waiter's turn, and a call that ends without having run was         *)
(* cancelled.                                                              *)
Outside ==
    /\ UNCHANGED <<waiter, limiter, claims, wpc, claim, result, told>>
    /\ now' \in {now, now + 1}
    /\ \A c \in Callers :
         /\ pc[c] = "wait" => pc'[c] = "wait"
         /\ waiter /\ pc'[c] = "run" => pc[c] = "run"
         /\ pc'[c] = "idle" => \/ c \in ctxDone'
                               \/ pc[c] = "run"
                               \/ pc[c] = "idle" /\ (c \in ctxDone => c \in ctxDone')

(* A step of Throttle that the bucket has no part in does nothing else.    *)
LEMMA OutsideFacts ==
    ASSUME IInv, BucketType,
           Advance \/ TimerRuns \/ \E c \in Callers : CallerNext(c),
           UNCHANGED <<limiter, claims, limitVars, told>>
    PROVE  Outside
<1> USE DEF Outside, limitVars, paceVars, TypeOK
<1>0. TypeOK /\ ModeInv
  BY DEF IInv
<1>1. CASE Advance \/ TimerRuns
  BY <1>0, <1>1 DEF Advance, TimerRuns, Tick
<1>2. ASSUME NEW c \in Callers, CallerNext(c) PROVE Outside
  BY <1>0, <1>2 DEF CallerNext, DoStep, Call, CtxEnds, Acquire, GiveUp, Refuse, Pace, nextSlot, Wake,
     Cut, Return, Goto, ModeInv
<1> QED
  BY <1>1, <1>2

(* Types of the bucket, and who may be in Wait.                            *)
LEMMA BucketTypeStep ==
    ASSUME BInv, [BucketNext]_bucketVars
    PROVE  BucketType' /\ WaitInv'
<1>0. BucketType /\ WaitInv /\ IInv /\ BoundInv
  BY DEF BInv
<1>1. TypeOK'
  BY <1>0, BucketFree, StepInv DEF IInv
<1>2. Soonest \in Nat
  BY <1>0, SoonestFacts
<1>3. TypeOK /\ limiter \in Limiters /\ claims \subseteq Nat
      /\ wpc \in [Callers -> {"check", "limiter", "timer"}]
      /\ claim \in [Callers -> Nat \cup {NoClaim}]
      /\ result \in [Callers -> {"none", "nil", "ctx", "deadline", "refused"}]
      /\ told \in Seq(Nat \cup {MaxInt64})
  BY <1>0 DEF BucketType
<1>4. ASSUME NEW c \in Callers, pc[c] = "wait",
             NEW e \in {"nil", "ctx", "deadline", "refused"}, WaitReturns(c, e)
      PROVE  /\ WaitInv' /\ wpc' \in [Callers -> {"check", "limiter", "timer"}]
             /\ result' \in [Callers -> {"none", "nil", "ctx", "deadline", "refused"}]
  <2>1. WaitInv'
    BY <1>0, <1>4, ReturnFacts DEF WaitInv
  <2> QED
    BY <1>3, <1>4, <2>1 DEF WaitReturns
<1>5. ASSUME NEW c \in Callers, Check(c) PROVE BucketType' /\ WaitInv'
  <2>1. CASE WaitReturns(c, "ctx")
    BY <1>1, <1>3, <1>4, <1>5, <2>1 DEF Check, BucketType
  <2>2. CASE wpc' = [wpc EXCEPT ![c] = "limiter"] /\ UNCHANGED <<vars, result>>
    BY <1>0, <1>1, <1>3, <1>5, <2>2 DEF Check, BucketType, WaitInv, vars
  <2> QED
    BY <1>5, <2>1, <2>2 DEF Check
<1>6. ASSUME NEW c \in Callers, Refused(c) PROVE BucketType' /\ WaitInv'
  <2>1. waitErr(c) \in {"deadline", "refused"}
    BY DEF waitErr
  <2>2. PICK e \in {"ctx", "deadline", "refused"} : WaitReturns(c, e)
    BY <1>6, <2>1 DEF Refused
  <2> QED
    BY <1>1, <1>3, <1>4, <1>6, <2>2 DEF Refused, BucketType
<1>7. ASSUME NEW c \in Callers, Reserve(c) PROVE BucketType' /\ WaitInv'
  <2>1. claims' \subseteq Nat /\ claim' \in [Callers -> Nat \cup {NoClaim}]
        /\ UNCHANGED <<limiter, told>>
    BY <1>2, <1>3, <1>7 DEF Reserve
  <2>2. CASE WaitReturns(c, "nil")
    BY <1>1, <1>3, <1>4, <1>7, <2>1, <2>2 DEF Reserve, BucketType
  <2>3. CASE wpc' = [wpc EXCEPT ![c] = "timer"] /\ UNCHANGED <<vars, result>>
    BY <1>0, <1>1, <1>3, <1>7, <2>1, <2>3 DEF Reserve, BucketType, WaitInv, vars
  <2> QED
    BY <1>7, <2>2, <2>3 DEF Reserve
<1>8. ASSUME NEW c \in Callers, Fire(c) \/ Abandon(c) PROVE BucketType' /\ WaitInv'
  <2>1. claims' \subseteq Nat /\ UNCHANGED <<limiter, claim, told>>
    BY <1>3, <1>8 DEF Fire, Abandon, GivenUp, Cancelled
  <2>2. PICK e \in {"nil", "ctx"} : WaitReturns(c, e)
    BY <1>8 DEF Fire, Abandon
  <2>3. pc[c] = "wait"
    BY <1>8 DEF Fire, Abandon
  <2> QED
    BY <1>1, <1>3, <1>4, <2>1, <2>2, <2>3 DEF BucketType
<1>9. CASE TakeNext
  <2>1. told' \in Seq(Nat \cup {MaxInt64}) /\ claims' \subseteq Nat
    BY <1>2, <1>3, <1>9 DEF TakeNext
  <2> QED
    BY <1>0, <1>1, <1>3, <1>9, <2>1 DEF TakeNext, BucketType, WaitInv, vars, limitVars
<1>10. CASE Outside
  BY <1>0, <1>1, <1>3, <1>10 DEF Outside, BucketType, WaitInv
<1>11. CASE UNCHANGED bucketVars
  BY <1>0, <1>11 DEF bucketVars, vars, limitVars, BucketType, WaitInv, TypeOK, paceVars
<1> QED
  BY <1>0, <1>5, <1>6, <1>7, <1>8, <1>9, <1>10, <1>11, OutsideFacts DEF BucketNext, WaitStep

(* The claims stay bounded: one at a time is taken.                        *)
LEMMA BoundStep == ASSUME BInv, [BucketNext]_bucketVars PROVE BoundInv'
<1>0. BucketType /\ BoundInv
  BY DEF BInv
<1>1. PICK m \in Nat : \A t \in claims : t <= m
  BY <1>0 DEF BoundInv
<1>2. Soonest \in Nat /\ claims \subseteq Nat
  BY <1>0, SoonestFacts DEF BucketType
<1>3. claims' \subseteq claims \cup {Soonest}
  BY DEF BucketNext, WaitStep, Check, Refused, Reserve, Fire, Abandon, GivenUp, Cancelled,
     TakeNext, bucketVars
<1>4. m + Soonest \in Nat /\ \A t \in claims' : t <= m + Soonest
  BY <1>1, <1>2, <1>3
<1> QED
  BY <1>4 DEF BoundInv

(* Nobody takes a claim that another owns, and a caller that gives up      *)
(* cancels no claim but its own.                                           *)
LEMMA OwnStep == ASSUME BInv, [BucketNext]_bucketVars PROVE OwnInv'
<1>0. BucketType /\ WaitInv /\ OwnInv /\ BoundInv /\ IInv
  BY DEF BInv
<1>1. /\ now \in Nat /\ limiter \in Limiters /\ claims \subseteq Nat
      /\ claim \in [Callers -> Nat \cup {NoClaim}]
      /\ limiter.burst \in Nat
      /\ wpc \in [Callers -> {"check", "limiter", "timer"}]
  BY <1>0, TokenBucketAssumption DEF BucketType, TypeOK, LimiterKinds
<1>2. Soonest \in Nat /\ \A t \in claims : Soonest > t
  BY <1>0, SoonestFacts
<1>3. ASSUME NEW c \in Callers, NEW e, WaitReturns(c, e), e # "nil",
             claims' \in {claims, claims \ {claim[c]}}, claims' = claims \/ Owns(c),
             UNCHANGED <<limiter, claim>>
      PROVE  OwnInv'
  <2>1. ~Owns(c)'
    BY <1>3, <1>0, ReturnFacts DEF Owns
  <2>2. \A d \in Callers \ {c} : Owns(d)' <=> Owns(d)
    BY <1>3, <1>0, ReturnFacts DEF Owns
  <2> QED
    BY <1>0, <1>3, <2>1, <2>2, ReturnFacts DEF OwnInv
<1>4. ASSUME NEW c \in Callers, Check(c) PROVE OwnInv'
  <2>1. CASE WaitReturns(c, "ctx")
    BY <1>3, <1>4, <2>1 DEF Check
  <2>2. CASE wpc' = [wpc EXCEPT ![c] = "limiter"] /\ UNCHANGED <<vars, result>>
    <3>1. \A d \in Callers : Owns(d)' <=> Owns(d)
      BY <1>1, <1>4, <2>2 DEF Check, Owns, vars
    <3> QED
      BY <1>0, <1>4, <2>2, <3>1 DEF Check, OwnInv, vars
  <2> QED
    BY <1>4, <2>1, <2>2 DEF Check
<1>5. ASSUME NEW c \in Callers, Refused(c) PROVE OwnInv'
  <2>1. PICK e : WaitReturns(c, e) /\ e # "nil"
    BY <1>5 DEF Refused, waitErr
  <2> QED
    BY <1>3, <1>5, <2>1 DEF Refused
<1>6. ASSUME NEW c \in Callers, Reserve(c) PROVE OwnInv'
  <2>1. /\ claims' = claims \cup {Soonest} /\ claim' = [claim EXCEPT ![c] = Soonest]
        /\ limiter.burst > 0 /\ UNCHANGED <<limiter, now, waiter>>
        /\ \A d \in Callers \ {c} : pc'[d] = pc[d] /\ wpc'[d] = wpc[d]
        /\ pc'[c] = "run" => Soonest <= now
    <3>1. CASE Soonest <= now /\ WaitReturns(c, "nil")
      BY <1>0, <1>6, <3>1, ReturnFacts DEF Reserve, OK
    <3>2. CASE wpc' = [wpc EXCEPT ![c] = "timer"] /\ UNCHANGED <<vars, result>>
      BY <1>1, <1>6, <3>2 DEF Reserve, OK, vars
    <3> QED
      BY <1>6, <3>1, <3>2 DEF Reserve
  <2>2. claim'[c] = Soonest /\ \A d \in Callers \ {c} : claim'[d] = claim[d]
    BY <1>1, <2>1
  <2>3. \A d \in Callers \ {c} : Owns(d)' <=> Owns(d)
    BY <2>1 DEF Owns
  <2>4. \A d \in Callers \ {c} : Owns(d) => claim[d] \in claims /\ claim[d] # Soonest
    BY <1>0, <1>1, <1>2 DEF OwnInv
  <2>5. ASSUME NEW d \in Callers, Owns(d)' PROVE
          /\ limiter'.burst > 0 /\ claim'[d] \in claims'
          /\ pc'[d] = "run" => claim'[d] <= now'
          /\ \A f \in Callers \ {d} : Owns(f)' => claim'[f] # claim'[d]
    <3>1. CASE d = c
      BY <2>1, <2>2, <2>3, <2>4, <3>1
    <3>2. CASE d # c
      <4>1. Owns(d) /\ claim'[d] = claim[d] /\ claim[d] \in claims /\ claim[d] # Soonest
        BY <2>2, <2>3, <2>4, <2>5, <3>2
      <4>2. pc[d] = "run" => claim[d] <= now
        BY <1>0, <4>1 DEF OwnInv
      <4>3. \A f \in Callers \ {d} : Owns(f) => claim[f] # claim[d]
        BY <1>0, <4>1 DEF OwnInv
      <4> QED
        BY <2>1, <2>2, <2>3, <3>2, <4>1, <4>2, <4>3
    <3> QED
      BY <3>1, <3>2
  <2> QED
    BY <2>5 DEF OwnInv
<1>7. ASSUME NEW c \in Callers, Fire(c) PROVE OwnInv'
  <2>1. /\ wpc'[c] = "check" /\ pc'[c] = "run" /\ claim[c] <= now /\ wpc[c] = "timer"
        /\ UNCHANGED <<now, waiter, limiter, claims, claim>>
        /\ \A d \in Callers \ {c} : pc'[d] = pc[d] /\ wpc'[d] = wpc[d]
    BY <1>0, <1>1, <1>7, ReturnFacts DEF Fire
  <2>2. Owns(c) /\ \A d \in Callers : Owns(d)' => Owns(d)
    BY <2>1 DEF Owns
  <2> QED
    BY <1>0, <2>1, <2>2 DEF OwnInv
<1>8. ASSUME NEW c \in Callers, Abandon(c) PROVE OwnInv'
  <2>1. Owns(c) /\ claims' \in {claims, claims \ {claim[c]}}
    BY <1>8 DEF Abandon, Owns, GivenUp, Cancelled
  <2> QED
    BY <1>3, <1>8, <2>1 DEF Abandon
<1>9. CASE TakeNext
  BY <1>0, <1>9 DEF TakeNext, OwnInv, Owns, vars, limitVars
<1>10. CASE Outside
  <2>1. \A c \in Callers : Owns(c)' => Owns(c)
    BY <1>10 DEF Outside, Owns
  <2>2. \A c \in Callers : Owns(c)' /\ pc'[c] = "run" => pc[c] = "run"
    BY <1>0, <1>10 DEF Outside, Owns, WaitInv
  <2>3. \A c \in Callers : Owns(c)' /\ pc'[c] = "run" => claim[c] <= now /\ claim[c] \in Nat
    BY <1>0, <1>1, <2>1, <2>2 DEF OwnInv
  <2>4. now' \in Nat /\ now' >= now
    BY <1>1, <1>10 DEF Outside
  <2>5. \A c \in Callers : Owns(c)' /\ pc'[c] = "run" => claim[c] <= now'
    BY <1>1, <2>3, <2>4
  <2> QED
    BY <1>0, <1>10, <2>1, <2>5 DEF OwnInv, Outside
<1>11. CASE UNCHANGED bucketVars
  BY <1>0, <1>11 DEF bucketVars, vars, limitVars, OwnInv, Owns
<1> QED
  BY <1>0, <1>4, <1>5, <1>6, <1>7, <1>8, <1>9, <1>10, <1>11, OutsideFacts DEF BucketNext, WaitStep

(* A claim that is not due is dropped only by the caller that gives it     *)
(* back.                                                                   *)
LEMMA SettledStep == ASSUME BInv, [BucketNext]_bucketVars, BucketType' PROVE ClaimsAreSettled'
<1> DEFINE Held(t) == \/ \E c \in Callers : wpc[c] = "timer" /\ claim[c] = t
                      \/ \E i \in DOMAIN told : told[i] = t
<1>0. BucketType /\ WaitInv /\ OwnInv /\ BoundInv /\ IInv /\ ClaimsAreSettled
  BY DEF BInv
<1>1. /\ now \in Nat /\ now' \in Nat /\ claims \subseteq Nat
      /\ claim \in [Callers -> Nat \cup {NoClaim}] /\ told \in Seq(Nat \cup {MaxInt64})
      /\ wpc \in [Callers -> {"check", "limiter", "timer"}]
  BY <1>0 DEF BucketType, TypeOK
<1>2. SUFFICES ASSUME limiter.wait \/ limiter.cancel, UNCHANGED limiter,
                      NEW t \in claims', t > now'
               PROVE  Held(t)'
  <2>1. UNCHANGED limiter
    BY DEF BucketNext, WaitStep, Check, Refused, Reserve, Fire, Abandon, TakeNext, bucketVars
  <2> QED
    BY <1>2, <2>1 DEF ClaimsAreSettled
<1>3. t \in Nat
  BY DEF BucketType
<1>4. t \in claims /\ t > now => Held(t)
  BY <1>0, <1>2 DEF ClaimsAreSettled
<1>5. ASSUME NEW c \in Callers, Check(c) \/ Refused(c) PROVE Held(t)'
  <2>1. /\ wpc[c] # "timer" /\ UNCHANGED <<now, claims, claim, told>>
        /\ \A d \in Callers \ {c} : wpc'[d] = wpc[d]
    <3>1. ASSUME NEW e, WaitReturns(c, e)
          PROVE  UNCHANGED now /\ \A d \in Callers \ {c} : wpc'[d] = wpc[d]
      BY <1>0, <3>1, ReturnFacts
    <3> QED
      BY <1>1, <1>5, <3>1 DEF Check, Refused, vars
  <2>2. Held(t)
    BY <1>2, <1>4, <2>1
  <2> QED
    BY <2>1, <2>2
<1>6. ASSUME NEW c \in Callers, Reserve(c) PROVE Held(t)'
  <2>1. /\ wpc[c] # "timer" /\ claims' = claims \cup {Soonest} /\ UNCHANGED <<now, told>>
        /\ \A d \in Callers \ {c} : wpc'[d] = wpc[d] /\ claim'[d] = claim[d]
        /\ claim'[c] = Soonest /\ (Soonest > now => wpc'[c] = "timer")
    <3>1. CASE Soonest <= now /\ WaitReturns(c, "nil")
      <4>1. ~(Soonest > now)
        BY <1>0, <1>1, <3>1, SoonestFacts
      <4> QED
        BY <1>0, <1>1, <1>6, <3>1, <4>1, ReturnFacts DEF Reserve
    <3>2. CASE wpc' = [wpc EXCEPT ![c] = "timer"] /\ UNCHANGED <<vars, result>>
      BY <1>1, <1>6, <3>2 DEF Reserve, vars
    <3> QED
      BY <1>6, <3>1, <3>2 DEF Reserve
  <2>2. CASE t = Soonest
    BY <1>2, <2>1, <2>2
  <2>3. CASE t \in claims
    <3>1. Held(t)
      BY <1>2, <1>4, <2>1, <2>3
    <3> QED
      BY <2>1, <3>1
  <2> QED
    BY <1>2, <2>1, <2>2, <2>3
<1>7. ASSUME NEW c \in Callers, Fire(c) \/ Abandon(c) PROVE Held(t)'
  <2>1. PICK e : WaitReturns(c, e)
    BY <1>7 DEF Fire, Abandon
  <2>2. UNCHANGED <<now, claim, told>> /\ \A d \in Callers \ {c} : wpc'[d] = wpc[d]
    BY <1>0, <1>7, <2>1, ReturnFacts DEF Fire, Abandon
  <2>3. t \in claims /\ t # claim[c]
    <3>1. CASE Fire(c)
      BY <1>1, <1>2, <1>3, <2>2, <3>1 DEF Fire
    <3>2. CASE Abandon(c)
      <4>1. claims' = IF claim[c] > now THEN claims \ {claim[c]} ELSE claims
        BY <1>2, <3>2 DEF Abandon, GivenUp, Cancelled
      <4> QED
        BY <1>2, <2>2, <4>1
    <3> QED
      BY <1>7, <3>1, <3>2
  <2>4. Held(t)
    BY <1>2, <1>4, <2>2, <2>3
  <2> QED
    BY <2>2, <2>3, <2>4
<1>8. CASE TakeNext
  <2>1. /\ UNCHANGED <<now, wpc, claim>> /\ claims' \subseteq claims \cup {Soonest}
        /\ Soonest \in claims' => Soonest \in claims \/ told' = Append(told, Soonest)
        /\ \E v \in Nat \cup {MaxInt64} : told' = Append(told, v)
    <3>1. Soonest \in Nat
      BY <1>0, SoonestFacts
    <3> QED
      BY <1>8, <3>1 DEF TakeNext, vars, limitVars
  <2>2. PICK v \in Nat \cup {MaxInt64} : told' = Append(told, v)
    BY <2>1
  <2>3. \A i \in DOMAIN told : i \in DOMAIN told' /\ told'[i] = told[i]
    BY <1>1, <2>2
  <2>4. CASE t \in claims
    <3>1. Held(t)
      BY <1>2, <1>4, <2>1, <2>4
    <3> QED
      BY <2>1, <2>3, <3>1
  <2>5. CASE t \notin claims
    <3>1. t = Soonest /\ told' = Append(told, t) /\ t \in Nat
      BY <1>2, <1>3, <2>1, <2>5
    <3>2. Len(told) + 1 \in DOMAIN told' /\ told'[Len(told) + 1] = t
      BY <1>1, <3>1
    <3> QED
      BY <3>2
  <2> QED
    BY <2>4, <2>5
<1>9. CASE Outside
  <2>1. t > now
    BY <1>1, <1>2, <1>3, <1>9 DEF Outside
  <2>2. Held(t)
    BY <1>2, <1>4, <1>9, <2>1 DEF Outside
  <2> QED
    BY <1>9, <2>2 DEF Outside
<1>10. CASE UNCHANGED bucketVars
  BY <1>2, <1>4, <1>10 DEF bucketVars, vars, limitVars
<1> QED
  BY <1>0, <1>5, <1>6, <1>7, <1>8, <1>9, <1>10, OutsideFacts DEF BucketNext, WaitStep

(* What Wait returned last, and why.                                       *)
LEMMA ErrorStep == ASSUME BInv, [BucketNext]_bucketVars PROVE ResultInv' /\ ErrorsAreTrue'
<1>0. BucketType /\ IInv /\ ModeInv /\ WaitInv /\ ResultInv /\ ErrorsAreTrue
  BY DEF BInv, IInv
<1>1. limiter.burst \in Nat /\ UNCHANGED limiter
  <2>1. limiter.burst \in Nat
    BY <1>0, TokenBucketAssumption DEF BucketType, LimiterKinds
  <2> QED
    BY <2>1 DEF BucketNext, WaitStep, Check, Refused, Reserve, Fire, Abandon, TakeNext, bucketVars
<1>2. ASSUME NEW c \in Callers, NEW e, WaitReturns(c, e), pc[c] = "wait",
             e = "ctx" => c \in ctxDone,
             e = "deadline" => c \in Timed /\ (limiter.asks => limiter.burst > 0),
             e = "refused" /\ limiter.asks => limiter.burst = 0
      PROVE  ResultInv' /\ ErrorsAreTrue'
  <2>1. /\ result'[c] = e /\ pc'[c] = IF e = "nil" THEN "run" ELSE "idle"
        /\ \A d \in Callers \ {c} : pc'[d] = pc[d] /\ result'[d] = result[d]
        /\ UNCHANGED <<waiter, ctxDone>>
    BY <1>0, <1>2, ReturnFacts
  <2>2. waiter
    BY <1>0, <1>2 DEF ModeInv
  <2>3. ResultInv'
    BY <1>0, <2>1, <2>2 DEF ResultInv
  <2> QED
    BY <1>0, <1>1, <1>2, <2>1, <2>3 DEF ErrorsAreTrue
<1>3. ASSUME UNCHANGED <<vars, result>> PROVE ResultInv' /\ ErrorsAreTrue'
  BY <1>0, <1>1, <1>3 DEF ResultInv, ErrorsAreTrue, vars
<1>4. ASSUME NEW c \in Callers, Check(c) PROVE ResultInv' /\ ErrorsAreTrue'
  BY <1>2, <1>3, <1>4 DEF Check
<1>5. ASSUME NEW c \in Callers, Refused(c) PROVE ResultInv' /\ ErrorsAreTrue'
  <2>0. pc[c] = "wait"
    BY <1>5 DEF Refused
  <2>1. CASE ~OK /\ WaitReturns(c, IF limiter.wait THEN waitErr(c) ELSE "refused")
    <3>1. limiter.burst = 0
      BY <1>1, <2>1 DEF OK
    <3>2. (IF limiter.wait THEN waitErr(c) ELSE "refused") \in {"deadline", "refused"}
      BY DEF waitErr
    <3>3. waitErr(c) = "deadline" => c \in Timed /\ ~limiter.asks
      BY <3>1 DEF waitErr
    <3> QED
      BY <1>2, <2>0, <2>1, <3>1, <3>2, <3>3
  <2>2. CASE c \in ctxDone /\ WaitReturns(c, "ctx")
    BY <1>2, <2>0, <2>2
  <2>3. CASE OK /\ c \in Timed /\ WaitReturns(c, waitErr(c))
    <3>1. waitErr(c) = "deadline"
      BY <1>1, <2>3 DEF waitErr, OK
    <3> QED
      BY <1>2, <2>0, <2>3, <3>1 DEF OK
  <2> QED
    BY <1>5, <2>1, <2>2, <2>3 DEF Refused
<1>6. ASSUME NEW c \in Callers, Reserve(c) PROVE ResultInv' /\ ErrorsAreTrue'
  BY <1>2, <1>3, <1>6 DEF Reserve
<1>7. ASSUME NEW c \in Callers, Fire(c) \/ Abandon(c) PROVE ResultInv' /\ ErrorsAreTrue'
  BY <1>2, <1>7 DEF Fire, Abandon
<1>8. CASE TakeNext \/ UNCHANGED bucketVars
  BY <1>3, <1>8 DEF TakeNext, limitVars, bucketVars
<1>9. CASE Outside
  <2>1. UNCHANGED <<waiter, result>>
    BY <1>9 DEF Outside
  <2>2. ResultInv'
    BY <1>0, <1>9, <2>1 DEF Outside, ResultInv
  <2>3. \A c \in Callers : result'[c] = "ctx" /\ pc'[c] = "idle" => c \in ctxDone'
    BY <1>0, <1>9, <2>1 DEF Outside, ResultInv, ErrorsAreTrue
  <2> QED
    BY <1>0, <1>1, <2>1, <2>2, <2>3 DEF ErrorsAreTrue
<1> QED
  BY <1>0, <1>4, <1>5, <1>6, <1>7, <1>8, <1>9, OutsideFacts DEF BucketNext, WaitStep

(* The invariant of the composition holds at first and is kept.            *)
LEMMA BucketInitInv == BucketInit => BInv
<1> SUFFICES ASSUME BucketInit PROVE BInv
  OBVIOUS
<1>1. IInv /\ claims = {}
  BY InitInv DEF BucketInit
<1>2. BucketType
  BY <1>1 DEF BucketInit, BucketType, IInv, NoClaim
<1>3. BoundInv
  <2>1. 0 \in Nat
    OBVIOUS
  <2> QED
    BY <1>1, <2>1 DEF BoundInv
<1>4. WaitInv /\ OwnInv /\ ClaimsAreSettled /\ ResultInv /\ ErrorsAreTrue
  BY <1>1 DEF BucketInit, Init, WaitInv, OwnInv, Owns, ClaimsAreSettled, ResultInv, ErrorsAreTrue
<1> QED
  BY <1>1, <1>2, <1>3, <1>4 DEF BInv

(* Every step keeps the invariant of the bucket.                           *)
LEMMA BucketStepInv == BInv /\ [BucketNext]_bucketVars => BInv'
<1> SUFFICES ASSUME BInv, [BucketNext]_bucketVars PROVE BInv'
  OBVIOUS
<1>1. IInv'
  BY BucketFree, StepInv DEF BInv
<1>2. BucketType' /\ WaitInv' /\ OwnInv' /\ BoundInv' /\ ResultInv' /\ ErrorsAreTrue'
  BY BucketTypeStep, OwnStep, BoundStep, ErrorStep
<1> QED
  BY <1>1, <1>2, SettledStep DEF BInv

----------------------------------------------------------------------------
(* Theorems about the token bucket and the throttle it paces *)

(* The composition keeps its inductive invariant.                          *)
THEOREM BucketInvariance == BucketSpec => []BInv
  BY BucketInitInv, BucketStepInv, PTL DEF BucketSpec

(* The types of the composition, and those of the throttle in it.          *)
THEOREM BucketTypes == BucketSpec => []BucketType
<1>1. BInv => BucketType
  BY DEF BInv
<1> QED
  BY <1>1, BucketInvariance, PTL

(* A bucket is a Waiter: every step it takes is one that Throttle allows   *)
(* of any Waiter, or the passing of time, so a throttle it paces keeps the *)
(* throttle's promises about slots, turns and bodies.                      *)
THEOREM BucketIsAWaiter == BucketSpec => Init /\ [][Next \/ Tick]_vars
<1>1. BucketInit => Init
  BY DEF BucketInit
<1>2. [BucketNext]_bucketVars => [Next \/ Tick]_vars
  BY BucketFree DEF FreeNext
<1> QED
  BY <1>1, <1>2, PTL DEF BucketSpec

(* The slots, the rate and the bodies of a throttle paced by a bucket.     *)
THEOREM BucketKeepsThrottle == BucketSpec => [](SlotsAreHeld /\ RateIsKept /\ BodyClosedOnce)
<1>1. BInv => SlotsAreHeld /\ RateIsKept /\ BodyClosedOnce
  BY DEF BInv, IInv, BodyInv, BodyClosedOnce
<1> QED
  BY <1>1, BucketInvariance, PTL

(* A claim that is not due is waited for, or was taken by Next: cancelled  *)
(* callers give theirs back.                                               *)
THEOREM BucketSettles == BucketSpec => []ClaimsAreSettled
<1>1. BInv => ClaimsAreSettled
  BY DEF BInv
<1> QED
  BY <1>1, BucketInvariance, PTL

(* "Wait fails closed": a call runs only on a granted claim that is due    *)
(* and its own.                                                            *)
THEOREM BucketFailsClosed == BucketSpec => []FailsClosed
<1>1. BInv => FailsClosed
  BY DEF BInv, OwnInv, Owns, FailsClosed
<1> QED
  BY <1>1, BucketInvariance, PTL

(* The errors of Wait say what happened.                                   *)
THEOREM BucketErrors == BucketSpec => []ErrorsAreTrue
<1>1. BInv => ErrorsAreTrue
  BY DEF BInv
<1> QED
  BY <1>1, BucketInvariance, PTL
=============================================================================
