-------------------------------- MODULE Limits --------------------------------
(***************************************************************************)
(* The sliding-window limiter and the circuit breaker of rate-limit.ts, as *)
(* operators on their state.  Both run between two awaits, so one call is  *)
(* one step of whoever makes it.                                           *)
(***************************************************************************)
EXTENDS Integers, Sequences

\* a mutant: a time leaves its window one tick early
PruneEarly(times, now, windowMs) ==
    SelectSeq(times, LAMBDA t : t > now - windowMs + 1)

\* how many of the leading times have left the window
Aged(times, cutoff) ==
    CHOOSE n \in 0..Len(times) :
        /\ \A i \in 1..n : times[i] <= cutoff
        /\ n < Len(times) => times[n + 1] > cutoff

\* they go
Prune(times, now, windowMs) ==
    SubSeq(times, Aged(times, now - windowMs) + 1, Len(times))

-----------------------------------------------------------------------------
(* The limiter: a map from keys to times, the times of the global budget,  *)
(* and when the map was swept.                                             *)

NewLimiter(windowMs) ==
    [perKey |-> << >>, globalHits |-> << >>, lastSweepAt |-> -windowMs]

TimesOf(limiter, key) ==
    IF key \in DOMAIN limiter.perKey THEN limiter.perKey[key] ELSE << >>

\* a mutant: only the buckets that were empty already are dropped
SweepEmpty(limiter, now, windowMs) ==
    [limiter EXCEPT
       !.perKey = [k \in {k \in DOMAIN @ : @[k] # << >>} |-> @[k]],
       !.lastSweepAt = now]

\* buckets that are empty once pruned are dropped
Sweep(limiter, now, windowMs) ==
    LET kept == {k \in DOMAIN limiter.perKey :
                   Prune(limiter.perKey[k], now, windowMs) # << >>}
    IN  [limiter EXCEPT
           !.perKey = [k \in kept |-> Prune(@[k], now, windowMs)],
           !.lastSweepAt = now]

\* allowKeys with chargeGlobal = false: every key has room, or none is charged;
\* the buckets looked at before one is full are pruned, and created
AllowKeys(limiter, entries, now, windowMs) ==
    LET capped == {i \in DOMAIN entries : entries[i].max > 0}
        swept == IF now - limiter.lastSweepAt >= windowMs
                 THEN Sweep(limiter, now, windowMs) ELSE limiter
        times(key) == Prune(TimesOf(swept, key), now, windowMs)
        full == {i \in capped : Len(times(entries[i].key)) >= entries[i].max}
        reached == {entries[i].key : i \in {i \in capped : \A j \in full : i <= j}}
        after(key) == IF full = {} THEN Append(times(key), now) ELSE times(key)
    IN  IF capped = {}
        THEN [allowed |-> TRUE, looked |-> {}, limiter |-> limiter]
        ELSE [allowed |-> full = {}, looked |-> reached,
              limiter |-> [swept EXCEPT
                             !.perKey = [k \in reached \cup DOMAIN @ |->
                                           IF k \in reached THEN after(k)
                                           ELSE @[k]]]]

\* allowKeys([], now): the global budget alone
AllowGlobal(limiter, now, maxGlobal, windowMs) ==
    LET times == Prune(limiter.globalHits, now, windowMs)
        room == Len(times) < maxGlobal
    IN  IF maxGlobal <= 0
        THEN [allowed |-> TRUE, limiter |-> limiter]
        ELSE [allowed |-> room,
              limiter |-> [limiter EXCEPT
                             !.globalHits = IF room THEN Append(times, now)
                                            ELSE times]]

-----------------------------------------------------------------------------
(* The breaker: the failures not forgiven yet, the failures and successes  *)
(* of the window, and when it closes again.                                *)

NewBreaker == [countArm |-> << >>, failures |-> << >>, successes |-> << >>,
               openUntil |-> 0]

IsOpen(breaker, now, cfg) == cfg.threshold > 0 /\ breaker.openUntil > now

\* failures / total >= failureRate, the rate being a fraction
RateTrips(failures, successes, cfg) ==
    /\ cfg.rate[1] > 0
    /\ failures >= cfg.minSamples /\ failures + successes > 0
    /\ failures * cfg.rate[2] >= cfg.rate[1] * (failures + successes)

\* a mutant: the deadline lies in the past
OpenFor(now, cooldownMs) == now - cooldownMs
\* the cooldown begins now
CooldownFrom(now, cooldownMs) == now + cooldownMs

\* a mutant: the count arm is not windowed
RecordFailureForever(breaker, now, cfg) ==
    LET failures == Append(Prune(breaker.failures, now, cfg.windowMs), now)
        successes == Prune(breaker.successes, now, cfg.windowMs)
        countArm == Append(breaker.countArm, now)
        trips == \/ Len(countArm) >= cfg.threshold
                 \/ RateTrips(Len(failures), Len(successes), cfg)
    IN  IF cfg.threshold <= 0 THEN breaker
        ELSE [failures |-> failures, successes |-> successes,
              countArm |-> IF trips THEN << >> ELSE countArm,
              openUntil |-> IF trips THEN CooldownFrom(now, cfg.cooldownMs)
                            ELSE breaker.openUntil]

\* a traffic failure, or a burn: both arms count it, either one trips
RecordFailure(breaker, now, cfg) ==
    LET failures == Append(Prune(breaker.failures, now, cfg.windowMs), now)
        successes == Prune(breaker.successes, now, cfg.windowMs)
        countArm == Append(Prune(breaker.countArm, now, cfg.windowMs), now)
        trips == \/ Len(countArm) >= cfg.threshold
                 \/ RateTrips(Len(failures), Len(successes), cfg)
    IN  IF cfg.threshold <= 0 THEN breaker
        ELSE [failures |-> failures, successes |-> successes,
              countArm |-> IF trips THEN << >> ELSE countArm,
              openUntil |-> IF trips THEN CooldownFrom(now, cfg.cooldownMs)
                            ELSE breaker.openUntil]

\* a mutant: a success closes the breaker
RecordSuccessCloses(breaker, now, cfg) ==
    [breaker EXCEPT !.openUntil = 0,
                    !.countArm = IF @ = << >> THEN @ ELSE Tail(@),
                    !.failures = Prune(@, now, cfg.windowMs),
                    !.successes = Append(Prune(@, now, cfg.windowMs), now)]

\* a success forgives the oldest failure of the count arm, closes nothing,
\* and counts in the rate
RecordSuccess(breaker, now, cfg) ==
    IF cfg.threshold <= 0 THEN breaker
    ELSE [breaker EXCEPT
            !.countArm = IF @ = << >> THEN @ ELSE Tail(@),
            !.failures = Prune(@, now, cfg.windowMs),
            !.successes = Append(Prune(@, now, cfg.windowMs), now)]
=============================================================================
