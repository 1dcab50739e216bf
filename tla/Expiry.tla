------------------------------- MODULE Expiry -------------------------------
(***************************************************************************)
(* cache.Expiry: how the expiry a caller asks for becomes the time at      *)
(* which an entry of a Memory expires (ttl.go).                            *)
(*                                                                         *)
(* Times are natural numbers and 0 is the zero time.Time, which stands for *)
(* an entry that never expires; durations are integers.                    *)
(***************************************************************************)
EXTENDS Integers

CONSTANTS DefaultTTL,  \* WithDefaultTTL, 0 if not given
          MinTTL,      \* WithMinTTL, 0 if not given
          MaxTTL,      \* WithMaxTTL, 0 if not given
          MaxDuration  \* the largest time.Duration

(* What the options and NewMemory accept.                                  *)
ASSUME ExpiryAssumption ==
    /\ MaxDuration \in Nat
    /\ DefaultTTL \in 0..MaxDuration
    /\ MinTTL \in 0..MaxDuration
    /\ MaxTTL \in 0..MaxDuration
    /\ MaxTTL > 0 => MinTTL <= MaxTTL

Expiries(Durations, Times) ==
    [kind : {"default", "never", "keep"}, dur : {0}, at : {0}]
      \cup [kind : {"after"}, dur : Durations, at : {0}]
      \cup [kind : {"at"}, dur : {0}, at : Times]

(* Mutant: an entry expires after the instant of its expiry.               *)
expiredLate(expiresAt, now) == expiresAt # 0 /\ now > expiresAt

expired(expiresAt, now) == expiresAt # 0 /\ now >= expiresAt

(* time.Time.Sub saturates at the ends of time.Duration.                   *)
Sub(t, now) ==
    IF t - now > MaxDuration THEN MaxDuration
    ELSE IF t - now < -MaxDuration - 1 THEN -MaxDuration - 1
    ELSE t - now

(* Mutant: a lifetime that was lengthened to the minimum only.             *)
clampLifetimeFloored(now, life) ==
    LET floored == IF MinTTL > 0 /\ life < MinTTL THEN MinTTL ELSE life
    IN  IF floored <= 0 THEN now ELSE now + floored

clampLifetime(now, life) ==
    LET floored == IF MinTTL > 0 /\ life < MinTTL THEN MinTTL ELSE life
        clamped == IF MaxTTL > 0 /\ floored > MaxTTL THEN MaxTTL ELSE floored
    IN  IF clamped <= 0 THEN now ELSE now + clamped

(* Mutant: Never ignores the maximum.                                      *)
clampNeverPermanent(now) == 0

clampNever(now) == IF MaxTTL > 0 THEN now + MaxTTL ELSE 0

resolveDefault(now) == IF DefaultTTL > 0 THEN clampLifetime(now, DefaultTTL) ELSE clampNever(now)

(* Mutant: the lifetime of At is taken from the saturated difference.      *)
resolveExpirySaturates(exp, now, existing, found) ==
    CASE exp.kind = "keep" /\ found -> existing
      [] exp.kind = "default" \/ (exp.kind = "keep" /\ ~found) -> resolveDefault(now)
      [] exp.kind = "never" \/ (exp.kind = "at" /\ exp.at = 0) -> clampNever(now)
      [] exp.kind = "at" /\ exp.at # 0 -> clampLifetime(now, Sub(exp.at, now))
      [] exp.kind = "after" -> clampLifetime(now, exp.dur)

resolveExpiry(exp, now, existing, found) ==
    CASE exp.kind = "keep" /\ found -> existing
      [] exp.kind = "default" \/ (exp.kind = "keep" /\ ~found) -> resolveDefault(now)
      [] exp.kind = "never" \/ (exp.kind = "at" /\ exp.at = 0) -> clampNever(now)
      [] exp.kind = "at" /\ exp.at # 0 ->
           IF MaxTTL = 0 /\ now + Sub(exp.at, now) < exp.at
             THEN exp.at
             ELSE clampLifetime(now, Sub(exp.at, now))
      [] exp.kind = "after" -> clampLifetime(now, exp.dur)

----------------------------------------------------------------------------
(* What the documentation of After, At, Never, Default, WithMinTTL and     *)
(* WithMaxTTL promises of an expiry other than Keep, without arithmetic    *)
(* that saturates: the entry expires at the time of [now + MinTTL,         *)
(* now + MaxTTL] nearest to the one asked for.                             *)
Permanent(exp) ==
    \/ exp.kind = "never"
    \/ exp.kind = "at" /\ exp.at = 0
    \/ exp.kind \in {"default", "keep"} /\ DefaultTTL = 0

Wanted(exp, now) ==
    IF exp.kind = "at" THEN exp.at ELSE IF exp.kind = "after" THEN now + exp.dur ELSE now + DefaultTTL

Honours(r, exp, now) ==
    /\ Permanent(exp) => r = IF MaxTTL = 0 THEN 0 ELSE now + MaxTTL
    /\ ~Permanent(exp) =>
         /\ Wanted(exp, now) < now + MinTTL => r = now + MinTTL
         /\ MaxTTL > 0 /\ Wanted(exp, now) > now + MaxTTL => r = now + MaxTTL
         /\ (/\ now + MinTTL <= Wanted(exp, now)
             /\ MaxTTL = 0 \/ Wanted(exp, now) <= now + MaxTTL) => r = Wanted(exp, now)
=============================================================================
