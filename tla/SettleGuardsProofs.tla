-------------------------- MODULE SettleGuardsProofs --------------------------
(***************************************************************************)
(* What the guards of /settle promise, for any requests, payers, budgets   *)
(* and windows: the budgets hold, a cooldown is kept, the limiter's map is *)
(* bounded and the breaker reacts to what it was told.                     *)
(***************************************************************************)
EXTENDS SettleGuards, LimitsProofs

-----------------------------------------------------------------------------
(* The histories.                                                          *)

\* a history less its first m events, those up to the cutoff
Trimmed(rest, events, cutoff, m) ==
    /\ m \in 0 .. Len(events)
    /\ Len(rest) = Len(events) - m
    /\ \A i \in 1 .. Len(rest) : i + m \in 1 .. Len(events) /\ rest[i] = events[i + m]
    /\ \A i \in 1 .. m : events[i].at <= cutoff
    /\ m < Len(events) => events[m + 1].at > cutoff

LEMMA SinceIs ==
    ASSUME NEW R, NEW events \in Seq(R), \A e \in R : e.at \in Int, NEW cutoff \in Int
    PROVE  /\ Since(events, cutoff) \in Seq(R)
           /\ \E m \in Nat : Trimmed(Since(events, cutoff), events, cutoff, m)
  <1> DEFINE times == [i \in DOMAIN events |-> events[i].at]
             m == Aged(times, cutoff)
             rest == Since(events, cutoff)
  <1>1. /\ Len(events) \in Nat /\ DOMAIN events = 1 .. Len(events)
        /\ \A i \in 1 .. Len(events) : events[i] \in R
    BY LenProperties, ElementOfSeq
  <1>2. /\ times \in Seq(Int) /\ Len(times) = Len(events)
        /\ \A i \in 1 .. Len(events) : times[i] = events[i].at
    <2>1. times \in [1 .. Len(events) -> Int]
      BY <1>1
    <2>2. \A i \in 1 .. Len(events) : times[i] = events[i].at
      BY <1>1
    <2> HIDE DEF times
    <2>3. times \in Seq(Int)
      BY <1>1, <2>1, IsASeq
    <2>4. Len(times) = Len(events)
      BY <1>1, <2>1, <2>3, LenProperties
    <2> QED
      BY <2>2, <2>3, <2>4
  <1> HIDE DEF times
  <1>3. /\ m \in 0 .. Len(events)
        /\ \A i \in 1 .. m : events[i].at <= cutoff
        /\ m < Len(events) => events[m + 1].at > cutoff
    <2>1. /\ m \in 0 .. Len(times)
          /\ \A i \in 1 .. m : times[i] <= cutoff
          /\ m < Len(times) => times[m + 1] > cutoff
      BY <1>2, AgedIs
    <2> HIDE DEF m
    <2>2. \A i \in 1 .. m : i \in 1 .. Len(events)
      BY <1>1, <1>2, <2>1
    <2>3. m < Len(events) => m + 1 \in 1 .. Len(events)
      BY <1>1, <1>2, <2>1
    <2> QED
      BY <1>2, <2>1, <2>2, <2>3
  <1>4. rest = SubSeq(events, m + 1, Len(events))
    BY DEF Since, times
  <1> HIDE DEF m, rest
  <1>5. ASSUME NEW k \in 1 .. Len(events) + 1, k = m + 1, rest = SubSeq(events, k, Len(events))
        PROVE  /\ rest \in Seq(R)
               /\ Len(rest) = IF k <= Len(events) THEN Len(events) - k + 1 ELSE 0
               /\ \A i \in 1 .. Len(events) - k + 1 : rest[i] = events[k + i - 1]
    <2>1. \A i \in k .. Len(events) : events[i] \in R
      BY <1>1
    <2> QED
      BY <1>1, <1>5, <2>1, SubSeqProperties
  <1>6. m + 1 \in 1 .. Len(events) + 1
    BY <1>1, <1>3
  <1>7. rest \in Seq(R)
    BY <1>4, <1>5, <1>6
  <1>8. Len(rest) = Len(events) - m
    <2>1. Len(rest) = IF m + 1 <= Len(events) THEN Len(events) - (m + 1) + 1 ELSE 0
      BY <1>4, <1>5, <1>6
    <2>2. m \in Nat /\ Len(events) \in Nat /\ m <= Len(events)
      BY <1>1, <1>3
    <2>3. CASE m + 1 <= Len(events)
      BY <2>1, <2>2, <2>3
    <2>4. CASE m = Len(events)
      BY <2>1, <2>2, <2>4
    <2> QED
      BY <2>2, <2>3, <2>4
  <1>9. ASSUME NEW i \in 1 .. Len(rest)
        PROVE  i + m \in 1 .. Len(events) /\ rest[i] = events[i + m]
    <2>1. /\ i \in 1 .. Len(events) - (m + 1) + 1 /\ (m + 1) + i - 1 = i + m
          /\ i + m \in 1 .. Len(events)
      BY <1>1, <1>3, <1>8
    <2>2. rest[i] = events[(m + 1) + i - 1]
      BY <1>4, <1>5, <1>6, <2>1
    <2> QED
      BY <2>1, <2>2
  <1>10. Trimmed(rest, events, cutoff, m) /\ m \in Nat
    BY <1>1, <1>3, <1>8, <1>9 DEF Trimmed
  <1> QED
    BY <1>7, <1>10 DEF rest

-----------------------------------------------------------------------------
(* Types.                                                                  *)

Clock == 0 .. MaxTime
Record == [failed : BOOLEAN, at : Clock, spent : BOOLEAN]
Submission == [by : Requests, payer : Payers, charged : Clock, at : Clock]
Stages == {"idle", "validate", "charged", "sent"}

TypeInv ==
    /\ clock \in Clock
    /\ IsLimiter(limiter, Clock)
    /\ limiter.lastSweepAt \in (-RateLimit.windowMs) .. MaxTime
    /\ DOMAIN limiter.perKey \subseteq Keys
    /\ seen \in [DOMAIN limiter.perKey -> Clock]
    /\ breaker \in [countArm : Times, failures : Times, successes : Times, openUntil : Nat]
    /\ req \in [Requests -> [pc : Stages, payment : Payments \cup {Nobody}]]
    /\ \A h \in Requests : req[h].pc # "idle" => req[h].payment \in Payments
    /\ charged \in [Requests -> Clock]
    /\ sends \in Seq(Submission)
    /\ outcomes \in Seq(Record)
    /\ cooled \in Nat /\ shed \in Nat

LEMMA TypesAre == TypeInv => TypeOK
  <1> SUFFICES ASSUME TypeInv PROVE TypeOK
    OBVIOUS
  <1> QED
    BY DEF TypeInv, TypeOK, Clock, Times, IsLimiter, Stages

LEMMA ConstantsAre ==
    /\ RateLimit.windowMs \in Nat \ {0} /\ RateLimit.windowMs \in Int
    /\ RateLimit.maxPerPayer \in Int /\ RateLimit.maxPerIp \in Int /\ RateLimit.maxGlobal \in Int
    /\ BreakerConfig.windowMs \in Nat /\ BreakerConfig.cooldownMs \in Nat
    /\ BreakerConfig.threshold \in Int
    /\ MaxTime \in Nat /\ Clock \subseteq Int /\ Clock \subseteq Nat
  BY LimitsAssumption DEF Clock

LEMMA TypesHoldAtFirst == Init => TypeInv
  <1> SUFFICES ASSUME Init PROVE TypeInv
    OBVIOUS
  <1>1. \A R : << >> \in Seq(R)
    BY EmptySeq
  <1>2. DOMAIN << >> = {}
    OBVIOUS
  <1>3. << >> \in [{} -> Clock] /\ << >> \in [{} -> Seq(Clock)]
    OBVIOUS
  <1>4. IsLimiter(limiter, Clock) /\ limiter.perKey = << >>
    BY <1>1, <1>2, <1>3, ConstantsAre DEF Init, NewLimiter, IsLimiter
  <1>5. limiter.lastSweepAt \in (-RateLimit.windowMs) .. MaxTime
    BY ConstantsAre DEF Init, NewLimiter
  <1>6. breaker \in [countArm : Times, failures : Times, successes : Times, openUntil : Nat]
    BY <1>1 DEF Init, NewBreaker, Times
  <1> QED
    BY <1>1, <1>2, <1>3, <1>4, <1>5, <1>6, ConstantsAre DEF Init, TypeInv, Idle, Clock, Stages

\* what an arrival does
Arrives(h, p, ip, r) ==
    /\ p \in Payments /\ ip \in Ips
    /\ ~IsOpen(breaker, clock, BreakerConfig)
    /\ IsAnswer(r, limiter, Admission(p, ip), clock, RateLimit.windowMs, Clock)
    /\ limiter' = r.limiter
    /\ req' = IF r.allowed THEN [req EXCEPT ![h] = [pc |-> "validate", payment |-> p]] ELSE req
    /\ Looked(r.looked)
    /\ UNCHANGED <<clock, breaker, charged, sends, outcomes, cooled, shed>>

LEMMA ArriveIs ==
    ASSUME TypeInv, NEW h \in Requests, Arrive(h)
    PROVE  \E p, ip, r : Arrives(h, p, ip, r)
  <1>1. PICK p \in Payments, ip \in Ips :
          LET r == AllowKeys(limiter, Admission(p, ip), clock, RateLimit.windowMs)
          IN  /\ limiter' = r.limiter
              /\ req' = IF r.allowed THEN [req EXCEPT ![h] = [pc |-> "validate", payment |-> p]]
                        ELSE req
              /\ Looked(r.looked)
    BY DEF Arrive
  <1>2. \A i \in DOMAIN Admission(p, ip) : Admission(p, ip)[i].max \in Int
    BY ConstantsAre DEF Admission
  <1>3. IsAnswer(AllowKeys(limiter, Admission(p, ip), clock, RateLimit.windowMs),
                 limiter, Admission(p, ip), clock, RateLimit.windowMs, Clock)
    BY <1>2, ConstantsAre, AllowKeysIs DEF TypeInv
  <1>4. ~IsOpen(breaker, clock, BreakerConfig) /\ UNCHANGED <<clock, breaker, history>>
    BY DEF Arrive
  <1>5. Arrives(h, p, ip, AllowKeys(limiter, Admission(p, ip), clock, RateLimit.windowMs))
    BY <1>1, <1>3, <1>4 DEF Arrives, history
  <1> QED
    BY <1>5

\* what a charge does
Bill(payer) == << [key |-> payer, max |-> RateLimit.maxPerPayer] >>
Charges(h, payer, mine, all) ==
    /\ payer = PayerOf[req[h].payment] /\ payer \in Payers
    /\ IsAnswer(mine, limiter, Bill(payer), clock, RateLimit.windowMs, Clock)
    /\ IsGlobalAnswer(all, mine.limiter, clock, RateLimit.maxGlobal, RateLimit.windowMs, Clock)
    /\ limiter' = IF mine.allowed THEN all.limiter ELSE mine.limiter
    /\ IF mine.allowed /\ all.allowed
       THEN /\ req' = [req EXCEPT ![h].pc = "charged"]
            /\ charged' = [charged EXCEPT ![h] = clock]
       ELSE req' = [req EXCEPT ![h] = Idle] /\ UNCHANGED charged
    /\ Looked(mine.looked)
    /\ UNCHANGED <<clock, breaker, sends, outcomes, cooled, shed>>

LEMMA ChargeIs ==
    ASSUME TypeInv, NEW h \in Requests, Charge(h)
    PROVE  /\ req[h].pc = "validate"
           /\ \E payer, mine, all : Charges(h, payer, mine, all)
  <1> DEFINE payer == PayerOf[req[h].payment]
             mine == AllowKeys(limiter, Bill(payer), clock, RateLimit.windowMs)
             all == AllowGlobal(mine.limiter, clock, RateLimit.maxGlobal, RateLimit.windowMs)
  <1>1. req[h].pc = "validate" /\ payer \in Payers
    BY DEF Charge, TypeInv, Payers
  <1>2. /\ limiter' = IF mine.allowed THEN all.limiter ELSE mine.limiter
        /\ IF mine.allowed /\ all.allowed
           THEN /\ req' = [req EXCEPT ![h].pc = "charged"]
                /\ charged' = [charged EXCEPT ![h] = clock]
           ELSE req' = [req EXCEPT ![h] = Idle] /\ UNCHANGED charged
        /\ Looked(mine.looked)
        /\ UNCHANGED <<clock, breaker, sends, outcomes, cooled, shed>>
    BY DEF Charge, Bill
  <1>7. payer = PayerOf[req[h].payment]
    OBVIOUS
  <1> HIDE DEF payer
  <1>3. \A i \in DOMAIN Bill(payer) : Bill(payer)[i].max \in Int
    BY ConstantsAre DEF Bill
  <1>4. IsAnswer(mine, limiter, Bill(payer), clock, RateLimit.windowMs, Clock)
    BY <1>3, ConstantsAre, AllowKeysIs DEF TypeInv
  <1> HIDE DEF mine
  <1>5. IsGlobalAnswer(all, mine.limiter, clock, RateLimit.maxGlobal, RateLimit.windowMs, Clock)
    <2>1. IsLimiter(mine.limiter, Clock)
      BY <1>4 DEF IsAnswer
    <2> QED
      BY <2>1, ConstantsAre, AllowGlobalIs DEF TypeInv
  <1> HIDE DEF all
  <1>6. Charges(h, payer, mine, all)
    BY <1>1, <1>2, <1>4, <1>5, <1>7 DEF Charges
  <1> QED
    BY <1>1, <1>6

\* what the breaker makes of a failure, and of a success
Breaker == [countArm : Times, failures : Times, successes : Times, openUntil : Nat]
Arm(b) == Append(Prune(b.countArm, clock, BreakerConfig.windowMs), clock)
Tripped(b, f) == \/ Len(Arm(b)) >= BreakerConfig.threshold
                 \/ RateTrips(Len(f.failures), Len(f.successes), BreakerConfig)
Failed(b, f) ==
    /\ f \in Breaker
    /\ BreakerConfig.threshold <= 0 => f = b
    /\ BreakerConfig.threshold > 0 =>
         /\ f.failures = Append(Prune(b.failures, clock, BreakerConfig.windowMs), clock)
         /\ f.successes = Prune(b.successes, clock, BreakerConfig.windowMs)
         /\ f.countArm = << >> <=> Tripped(b, f)
         /\ f.countArm \in {<< >>, Arm(b)}
         /\ f.openUntil = IF f.countArm = << >> THEN clock + BreakerConfig.cooldownMs
                          ELSE b.openUntil
Succeeded(b, f) ==
    /\ f \in Breaker
    /\ BreakerConfig.threshold <= 0 => f = b
    /\ f.openUntil = b.openUntil
    /\ BreakerConfig.threshold > 0 =>
         /\ f.failures = Prune(b.failures, clock, BreakerConfig.windowMs)
         /\ f.successes = Append(Prune(b.successes, clock, BreakerConfig.windowMs), clock)
         /\ f.countArm = IF b.countArm = << >> THEN << >> ELSE Tail(b.countArm)

LEMMA WindowOf ==
    ASSUME clock \in Clock, NEW times \in Times
    PROVE  /\ Prune(times, clock, BreakerConfig.windowMs) \in Times
           /\ Append(Prune(times, clock, BreakerConfig.windowMs), clock) \in Times
           /\ Append(Prune(times, clock, BreakerConfig.windowMs), clock) # << >>
           /\ \E n \in Nat : Leaves(Prune(times, clock, BreakerConfig.windowMs), times,
                                    clock - BreakerConfig.windowMs, n)
  <1>1. /\ times \in Seq(Clock) /\ clock \in Int /\ BreakerConfig.windowMs \in Int
        /\ Clock \subseteq Int /\ Times = Seq(Clock)
    BY ConstantsAre DEF Times, Clock
  <1>2. /\ Prune(times, clock, BreakerConfig.windowMs) \in Seq(Clock)
        /\ \E n \in Nat : Leaves(Prune(times, clock, BreakerConfig.windowMs), times,
                                 clock - BreakerConfig.windowMs, n)
    BY <1>1, PruneIs
  <1>3. ASSUME NEW left \in Seq(Clock)
        PROVE  Append(left, clock) \in Seq(Clock) /\ Append(left, clock) # << >>
    <2>1. /\ Append(left, clock) \in Seq(Clock) /\ Len(Append(left, clock)) = Len(left) + 1
          /\ Len(left) \in Nat
      BY AppendProperties, LenProperties
    <2>2. Len(Append(left, clock)) # 0
      BY <2>1
    <2> QED
      BY <2>1, <2>2, EmptySeq
  <1> QED
    BY <1>1, <1>2, <1>3

LEMMA RecordFailureIs ==
    ASSUME clock \in Clock, NEW b \in Breaker
    PROVE  Failed(b, RecordFailure(b, clock, BreakerConfig))
  <1> DEFINE f == RecordFailure(b, clock, BreakerConfig)
             failures == Append(Prune(b.failures, clock, BreakerConfig.windowMs), clock)
             successes == Prune(b.successes, clock, BreakerConfig.windowMs)
             trips == \/ Len(Arm(b)) >= BreakerConfig.threshold
                      \/ RateTrips(Len(failures), Len(successes), BreakerConfig)
  <1>1. /\ Arm(b) \in Times /\ Arm(b) # << >> /\ failures \in Times /\ successes \in Times
    BY WindowOf DEF Breaker, Arm
  <1>2. << >> \in Times /\ clock + BreakerConfig.cooldownMs \in Nat
    BY EmptySeq, ConstantsAre DEF Times
  <1>3. CASE BreakerConfig.threshold <= 0
    <2>1. f = b /\ ~(BreakerConfig.threshold > 0)
      BY <1>3, ConstantsAre DEF RecordFailure
    <2> QED
      BY <2>1 DEF Failed
  <1>4. CASE BreakerConfig.threshold > 0
    <2>1. f = [failures |-> failures, successes |-> successes,
               countArm |-> IF trips THEN << >> ELSE Arm(b),
               openUntil |-> IF trips THEN clock + BreakerConfig.cooldownMs ELSE b.openUntil]
      BY <1>4, ConstantsAre DEF RecordFailure, Arm, CooldownFrom
    <2> HIDE DEF f, failures, successes
    <2>2. /\ f.failures = failures /\ f.successes = successes
          /\ f.countArm = IF trips THEN << >> ELSE Arm(b)
          /\ f.openUntil = IF trips THEN clock + BreakerConfig.cooldownMs ELSE b.openUntil
          /\ Tripped(b, f) <=> trips
      BY <2>1 DEF Tripped
    <2> HIDE DEF trips
    <2>3. f \in Breaker
      BY <1>1, <1>2, <2>1 DEF Breaker
    <2>4. ~(BreakerConfig.threshold <= 0)
      BY <1>4, ConstantsAre
    <2>5. Failed(b, f)
      BY <1>1, <2>2, <2>3, <2>4 DEF Failed, failures, successes
    <2> QED
      BY <2>5 DEF f
  <1> QED
    BY <1>3, <1>4, ConstantsAre

LEMMA RecordSuccessIs ==
    ASSUME clock \in Clock, NEW b \in Breaker
    PROVE  Succeeded(b, RecordSuccess(b, clock, BreakerConfig))
  <1> DEFINE f == RecordSuccess(b, clock, BreakerConfig)
             failures == Prune(b.failures, clock, BreakerConfig.windowMs)
             successes == Append(Prune(b.successes, clock, BreakerConfig.windowMs), clock)
             arm == IF b.countArm = << >> THEN << >> ELSE Tail(b.countArm)
  <1>1. failures \in Times /\ successes \in Times
    BY WindowOf DEF Breaker
  <1>2. arm \in Times
    BY EmptySeq, HeadTailProperties DEF Times, Breaker
  <1>3. CASE BreakerConfig.threshold <= 0
    <2>1. f = b /\ ~(BreakerConfig.threshold > 0)
      BY <1>3, ConstantsAre DEF RecordSuccess
    <2> QED
      BY <2>1 DEF Succeeded
  <1>4. CASE BreakerConfig.threshold > 0
    <2>1. /\ f.failures = failures /\ f.successes = successes /\ f.countArm = arm
          /\ f.openUntil = b.openUntil
      BY <1>4, ConstantsAre DEF RecordSuccess, Breaker
    <2>2. f \in Breaker
      <3>1. ~(BreakerConfig.threshold <= 0)
        BY <1>4, ConstantsAre
      <3> QED
        BY <1>1, <1>2, <3>1 DEF RecordSuccess, Breaker
    <2> HIDE DEF f, failures, successes, arm
    <2>3. ~(BreakerConfig.threshold <= 0)
      BY <1>4, ConstantsAre
    <2>4. Succeeded(b, f)
      BY <2>1, <2>2, <2>3 DEF Succeeded, failures, successes, arm
    <2> QED
      BY <2>4 DEF f
  <1> QED
    BY <1>3, <1>4, ConstantsAre

\* what an outcome does
Fails(h) ==
    /\ Failed(breaker, breaker')
    /\ req' = [req EXCEPT ![h] = Idle]
    /\ charged' = [charged EXCEPT ![h] = 0]
    /\ LET trips == breaker'.countArm = << >> /\ BreakerConfig.threshold > 0
           told == Append(outcomes, [failed |-> TRUE, at |-> clock, spent |-> FALSE])
       IN  /\ outcomes' \in Seq(Record) /\ Len(outcomes') = Len(told)
           /\ told \in Seq(Record)
           /\ \A i \in 1 .. Len(told) :
                /\ outcomes'[i].failed = told[i].failed /\ outcomes'[i].at = told[i].at
                /\ outcomes'[i].spent = (told[i].spent \/ trips)
           /\ IF trips
              THEN /\ cooled' = clock + BreakerConfig.cooldownMs
                   /\ shed' = IF clock < cooled THEN shed ELSE 0
              ELSE UNCHANGED <<cooled, shed>>
    /\ UNCHANGED <<clock, limiter, sends, seen>>

LEMMA FailIs ==
    ASSUME TypeInv, NEW h \in Requests, Fail(h)
    PROVE  req[h].pc \in {"charged", "sent"} /\ Fails(h)
  <1> DEFINE trips == breaker'.countArm = << >> /\ BreakerConfig.threshold > 0
             told == Append(outcomes, [failed |-> TRUE, at |-> clock, spent |-> FALSE])
             marked == [i \in DOMAIN told |-> [told[i] EXCEPT !.spent = @ \/ trips]]
  <1>1. Failed(breaker, breaker')
    BY RecordFailureIs DEF Fail, TypeInv, Breaker
  <1>2. /\ told \in Seq(Record) /\ Len(told) \in Nat /\ DOMAIN told = 1 .. Len(told)
        /\ \A i \in 1 .. Len(told) : told[i] \in Record
    <2>1. [failed |-> TRUE, at |-> clock, spent |-> FALSE] \in Record
      BY DEF TypeInv, Record
    <2>2. told \in Seq(Record)
      BY <2>1, AppendProperties DEF TypeInv
    <2> HIDE DEF told
    <2> QED
      BY <2>2, LenProperties, ElementOfSeq
  <1>3. /\ outcomes' = marked
        /\ IF trips
           THEN /\ cooled' = clock + BreakerConfig.cooldownMs
                /\ shed' = IF clock < cooled THEN shed ELSE 0
           ELSE UNCHANGED <<cooled, shed>>
        /\ req[h].pc \in {"charged", "sent"} /\ req' = [req EXCEPT ![h] = Idle]
        /\ charged' = [charged EXCEPT ![h] = 0]
        /\ UNCHANGED <<clock, limiter, sends, seen>>
    BY DEF Fail, Ends, Outcome
  <1> HIDE DEF told, trips
  <1>4. trips \in BOOLEAN
    BY DEF trips
  <1>5. ASSUME NEW i \in 1 .. Len(told)
        PROVE  /\ marked[i] \in Record
               /\ marked[i].failed = told[i].failed /\ marked[i].at = told[i].at
               /\ marked[i].spent = (told[i].spent \/ trips)
    BY <1>2, <1>4 DEF Record
  <1>6. marked \in [1 .. Len(told) -> Record]
    BY <1>2, <1>5
  <1> HIDE DEF marked
  <1>7. marked \in Seq(Record)
    BY <1>2, <1>6, IsASeq
  <1>8. Len(marked) = Len(told)
    BY <1>2, <1>6, <1>7, LenProperties
  <1> QED
    BY <1>1, <1>2, <1>3, <1>5, <1>7, <1>8 DEF Fails, told, trips

LEMMA TypesHoldNext == TypeInv /\ [Next]_vars => TypeInv'
  <1> SUFFICES ASSUME TypeInv, [Next]_vars PROVE TypeInv'
    OBVIOUS
  <1>1. ASSUME NEW h \in Requests, Arrive(h) PROVE TypeInv'
    <2>1. PICK p, ip, r : Arrives(h, p, ip, r)
      BY <1>1, ArriveIs
    <2>2. /\ IsLimiter(limiter', Clock)
          /\ limiter'.lastSweepAt \in {limiter.lastSweepAt, clock}
          /\ DOMAIN limiter'.perKey \subseteq DOMAIN limiter.perKey \cup r.looked
          /\ r.looked \subseteq {p, ip}
      <3>1. {Admission(p, ip)[i].key : i \in DOMAIN Admission(p, ip)} \subseteq {p, ip}
        BY DEF Admission
      <3> QED
        BY <2>1, <3>1 DEF Arrives, IsAnswer
    <2>3. DOMAIN limiter'.perKey \subseteq Keys
      BY <2>1, <2>2 DEF TypeInv, Keys, Arrives
    <2>4. seen' \in [DOMAIN limiter'.perKey -> Clock]
      BY <2>1, <2>2 DEF Arrives, Looked, TypeInv
    <2>5. limiter'.lastSweepAt \in (-RateLimit.windowMs) .. MaxTime
      <3>1. clock \in 0 .. MaxTime /\ RateLimit.windowMs \in Nat
        BY ConstantsAre DEF TypeInv, Clock
      <3>2. clock \in (-RateLimit.windowMs) .. MaxTime
        BY <3>1
      <3>3. limiter.lastSweepAt \in (-RateLimit.windowMs) .. MaxTime
        BY DEF TypeInv
      <3> QED
        BY <2>2, <3>2, <3>3
    <2>6. /\ req' \in [Requests -> [pc : Stages, payment : Payments \cup {Nobody}]]
          /\ \A g \in Requests : req'[g].pc # "idle" => req'[g].payment \in Payments
      BY <2>1 DEF Arrives, TypeInv, Stages
    <2> QED
      BY <2>1, <2>2, <2>3, <2>4, <2>5, <2>6 DEF Arrives, TypeInv
  <1>2. ASSUME NEW h \in Requests, Charge(h) PROVE TypeInv'
    <2>1. PICK payer, mine, all : Charges(h, payer, mine, all)
      BY <1>2, ChargeIs
    <2>2. /\ IsLimiter(limiter', Clock)
          /\ limiter'.perKey = mine.limiter.perKey
          /\ limiter'.lastSweepAt \in {limiter.lastSweepAt, clock}
          /\ DOMAIN limiter'.perKey \subseteq DOMAIN limiter.perKey \cup mine.looked
          /\ mine.looked \subseteq {payer}
      <3>1. {Bill(payer)[i].key : i \in DOMAIN Bill(payer)} \subseteq {payer}
        BY DEF Bill
      <3> QED
        BY <2>1, <3>1 DEF Charges, IsAnswer, IsGlobalAnswer
    <2>3. DOMAIN limiter'.perKey \subseteq Keys
      BY <2>1, <2>2 DEF TypeInv, Keys, Charges
    <2>4. seen' \in [DOMAIN limiter'.perKey -> Clock]
      BY <2>1, <2>2 DEF Charges, Looked, TypeInv
    <2>5. limiter'.lastSweepAt \in (-RateLimit.windowMs) .. MaxTime
      <3>1. clock \in 0 .. MaxTime /\ RateLimit.windowMs \in Nat
        BY ConstantsAre DEF TypeInv, Clock
      <3>2. clock \in (-RateLimit.windowMs) .. MaxTime
        BY <3>1
      <3>3. limiter.lastSweepAt \in (-RateLimit.windowMs) .. MaxTime
        BY DEF TypeInv
      <3> QED
        BY <2>2, <3>2, <3>3
    <2>6. /\ req' \in [Requests -> [pc : Stages, payment : Payments \cup {Nobody}]]
          /\ \A g \in Requests : req'[g].pc # "idle" => req'[g].payment \in Payments
      <3>1. req[h].pc = "validate"
        BY <1>2, ChargeIs
      <3>2. \/ req' = [req EXCEPT ![h].pc = "charged"]
            \/ req' = [req EXCEPT ![h] = Idle]
        BY <2>1 DEF Charges
      <3>3. CASE req' = [req EXCEPT ![h].pc = "charged"]
        BY <3>1, <3>3 DEF TypeInv, Stages
      <3>4. CASE req' = [req EXCEPT ![h] = Idle]
        BY <3>4 DEF TypeInv, Idle, Stages
      <3> QED
        BY <3>2, <3>3, <3>4
    <2>7. charged' \in [Requests -> Clock]
      BY <2>1 DEF Charges, TypeInv
    <2>8. UNCHANGED <<clock, breaker, sends, outcomes, cooled, shed>>
      BY <2>1 DEF Charges
    <2> QED
      BY <2>2, <2>3, <2>4, <2>5, <2>6, <2>7, <2>8 DEF TypeInv
  <1>3. ASSUME NEW h \in Requests, Fail(h) PROVE TypeInv'
    <2>1. Fails(h)
      BY <1>3, FailIs
    <2>2. /\ req' \in [Requests -> [pc : Stages, payment : Payments \cup {Nobody}]]
          /\ \A g \in Requests : req'[g].pc # "idle" => req'[g].payment \in Payments
      BY <2>1 DEF Fails, TypeInv, Idle, Stages
    <2>3. cooled' \in Nat /\ shed' \in Nat
      <3>1. cooled' \in {cooled, clock + BreakerConfig.cooldownMs} /\ shed' \in {shed, 0}
        BY <2>1 DEF Fails
      <3>2. clock + BreakerConfig.cooldownMs \in Nat
        <4>1. clock \in Nat
          BY ConstantsAre DEF TypeInv
        <4> QED
          BY <4>1, ConstantsAre
      <3> QED
        BY <3>1, <3>2 DEF TypeInv
    <2>4. breaker' \in Breaker /\ outcomes' \in Seq(Record) /\ UNCHANGED <<clock, limiter, sends, seen>>
      BY <2>1 DEF Fails, Failed
    <2>5. charged' \in [Requests -> Clock]
      BY <2>1, ConstantsAre DEF Fails, TypeInv, Clock
    <2> QED
      BY <2>2, <2>3, <2>4, <2>5 DEF TypeInv, Breaker
  <1>4. ASSUME NEW h \in Requests, Succeed(h) PROVE TypeInv'
    <2>1. breaker' \in Breaker
      BY <1>4, RecordSuccessIs DEF Succeed, Succeeded, TypeInv, Breaker
    <2>2. outcomes' \in Seq(Record)
      <3>1. Outcome(FALSE) \in Record
        BY DEF Outcome, Record, TypeInv
      <3> QED
        BY <1>4, <3>1, AppendProperties DEF Succeed, TypeInv
    <2>3. /\ req' \in [Requests -> [pc : Stages, payment : Payments \cup {Nobody}]]
          /\ \A g \in Requests : req'[g].pc # "idle" => req'[g].payment \in Payments
      BY <1>4 DEF Succeed, Ends, TypeInv, Idle, Stages
    <2>4. charged' \in [Requests -> Clock]
      BY <1>4, ConstantsAre DEF Succeed, Ends, TypeInv, Clock
    <2> QED
      BY <1>4, <2>1, <2>2, <2>3, <2>4 DEF Succeed, TypeInv, Breaker
  <1>5. ASSUME NEW h \in Requests, Turned(h) \/ Unrelated(h) PROVE TypeInv'
    <2>1. /\ req' \in [Requests -> [pc : Stages, payment : Payments \cup {Nobody}]]
          /\ \A g \in Requests : req'[g].pc # "idle" => req'[g].payment \in Payments
      <3>1. req' = [req EXCEPT ![h] = Idle]
        BY <1>5 DEF Turned, Unrelated, Ends
      <3> QED
        BY <3>1 DEF TypeInv, Idle, Stages
    <2>2. charged' \in [Requests -> Clock]
      <3>1. charged' = charged \/ charged' = [charged EXCEPT ![h] = 0]
        BY <1>5 DEF Turned, Unrelated, Ends, history
      <3>2. 0 \in Clock /\ charged \in [Requests -> Clock]
        BY ConstantsAre DEF TypeInv, Clock
      <3> QED
        BY <3>1, <3>2
    <2>3. UNCHANGED <<clock, limiter, breaker, sends, outcomes, cooled, shed, seen>>
      BY <1>5 DEF Turned, Unrelated, history
    <2> QED
      BY <2>1, <2>2, <2>3 DEF TypeInv
  <1>6. ASSUME Tick PROVE TypeInv'
    <2>1. clock' \in Clock /\ clock' \in Int
      BY <1>6, ConstantsAre DEF Tick, TypeInv, Clock
    <2>2. sends' \in Seq(Submission)
      <3>1. \A e \in Submission : e.at \in Int
        BY ConstantsAre DEF Submission
      <3>2. clock' - RateLimit.windowMs \in Int
        BY <2>1, ConstantsAre
      <3>3. \A cutoff \in Int : Since(sends, cutoff) \in Seq(Submission)
        BY <3>1, SinceIs DEF TypeInv
      <3> QED
        BY <1>6, <3>2, <3>3 DEF Tick
    <2>3. outcomes' \in Seq(Record)
      <3>1. \A e \in Record : e.at \in Int
        BY ConstantsAre DEF Record
      <3>2. clock' - BreakerConfig.windowMs \in Int
        BY <2>1, ConstantsAre
      <3>3. \A cutoff \in Int : Since(outcomes, cutoff) \in Seq(Record)
        BY <3>1, SinceIs DEF TypeInv
      <3> QED
        BY <1>6, <3>2, <3>3 DEF Tick
    <2> QED
      BY <1>6, <2>1, <2>2, <2>3 DEF Tick, TypeInv
  <1>7. CASE UNCHANGED vars
    BY <1>7 DEF vars, history, TypeInv
  <1>8. ASSUME NEW h \in Requests, Send(h) PROVE TypeInv'
    <2> DEFINE e == [by |-> h, payer |-> PayerOf[req[h].payment],
                     charged |-> charged[h], at |-> clock]
    <2>1. req[h].pc = "charged" /\ req' = [req EXCEPT ![h].pc = "sent"]
      BY <1>8 DEF Send
    <2>2. /\ req' \in [Requests -> [pc : Stages, payment : Payments \cup {Nobody}]]
          /\ \A g \in Requests : req'[g].pc # "idle" => req'[g].payment \in Payments
      BY <2>1 DEF TypeInv, Stages
    <2>3. charged' \in [Requests -> Clock]
      BY <1>8, ConstantsAre DEF Send, TypeInv, Clock
    <2>4. sends' \in Seq(Submission)
      <3>1. e \in Submission
        BY <2>1 DEF TypeInv, Submission, Payers
      <3> QED
        BY <1>8, <3>1, AppendProperties DEF Send, TypeInv
    <2>5. /\ shed' \in Nat
          /\ UNCHANGED <<clock, limiter, breaker, outcomes, cooled, seen>>
      BY <1>8 DEF Send, TypeInv
    <2> QED
      BY <2>2, <2>3, <2>4, <2>5 DEF TypeInv
  <1> QED
    BY <1>1, <1>2, <1>3, <1>4, <1>5, <1>6, <1>7, <1>8 DEF Next

(***************************************************************************)
(* TypeOK of the runs, for any requests, payers, budgets and windows: the  *)
(* limiter's map knows only keys of the callers, and remembers when each    *)
(* was looked at.                                                          *)
(***************************************************************************)
THEOREM TypeCorrect == Spec => []TypeOK
  <1>1. Spec => []TypeInv
    BY TypesHoldAtFirst, TypesHoldNext, PTL DEF Spec
  <1> QED
    BY <1>1, TypesAre, PTL

-----------------------------------------------------------------------------
(* The budgets.  What was charged in the window and is not lost, a         *)
(* submission that left or a charge a request still holds, has a time of   *)
(* its own in the global budget and in its payer's bucket, so neither      *)
(* counts fewer than have left on a charge of the window.                  *)

Cutoff == clock - RateLimit.windowMs
Holding == {h \in Requests : req[h].pc = "charged" /\ charged[h] > Cutoff}

Out(i) == <<"out", i>>
Held(h) == <<"held", h>>
Spent == {Out(i) : i \in Timely} \cup {Held(h) : h \in Holding}
Spending(t) == IF t[1] = "out"
               THEN [at |-> sends[t[2]].charged, payer |-> sends[t[2]].payer]
               ELSE [at |-> charged[t[2]], payer |-> PayerOf[req[t[2]].payment]]
Spend == [t \in Spent |-> Spending(t)]
SpentBy(payer) == {t \in Spent : Spend[t].payer = payer}

GlobalSpend ==
    RateLimit.maxGlobal > 0 =>
      /\ Covered(Spent, Spend, limiter.globalHits)
      /\ Cardinality(Spent) <= RateLimit.maxGlobal

PayerSpend(payer) ==
    RateLimit.maxPerPayer > 0 =>
      /\ Covered(SpentBy(payer), Spend, TimesOf(limiter, payer))
      /\ Cardinality(SpentBy(payer)) <= RateLimit.maxPerPayer

SpendInv ==
    /\ TypeInv
    /\ GlobalSpend
    /\ \A payer \in Payers : PayerSpend(payer)

LEMMA TokensAre ==
    /\ \A i : Out(i)[1] = "out" /\ Out(i)[2] = i
    /\ \A h : Held(h)[1] = "held" /\ Held(h)[2] = h
    /\ \A i, j : Out(i) = Out(j) => i = j
    /\ \A g, h : Held(g) = Held(h) => g = h
    /\ \A i, h : Out(i) # Held(h)
    /\ \A i : Spending(Out(i)) = [at |-> sends[i].charged, payer |-> sends[i].payer]
    /\ \A h : Spending(Held(h)) = [at |-> charged[h], payer |-> PayerOf[req[h].payment]]
  BY DEF Out, Held, Spending

LEMMA SpentIs ==
    /\ \A t : t \in Spent <=> \/ \E i \in Timely : t = Out(i)
                              \/ \E h \in Holding : t = Held(h)
    /\ \A i : Out(i) \in Spent <=> i \in Timely
    /\ \A h : Held(h) \in Spent <=> h \in Holding
    /\ \A t \in Spent : Spend[t] = Spending(t)
    /\ \A payer : SpentBy(payer) \subseteq Spent
  <1>1. \A t : t \in Spent <=> \/ \E i \in Timely : t = Out(i)
                               \/ \E h \in Holding : t = Held(h)
    BY DEF Spent
  <1>2. \A t \in Spent : Spend[t] = Spending(t)
    BY DEF Spend
  <1> QED
    BY <1>1, <1>2, TokensAre DEF SpentBy

\* what the submissions are
SendsShape ==
    /\ Len(sends) \in Nat /\ DOMAIN sends = 1 .. Len(sends)
    /\ \A i \in DOMAIN sends :
         /\ sends[i].at \in Int /\ sends[i].charged \in Int
         /\ sends[i].payer \in Payers /\ sends[i].by \in Requests
    /\ clock \in Int /\ Cutoff \in Int /\ Cutoff < clock
    /\ \A i \in DOMAIN sends : i \in Timely <=> sends[i].charged > Cutoff
    /\ Timely \subseteq DOMAIN sends

LEMMA SendsAre == TypeInv => SendsShape
  <1> SUFFICES ASSUME TypeInv PROVE SendsShape
    OBVIOUS
  <1>1. /\ Len(sends) \in Nat /\ DOMAIN sends = 1 .. Len(sends)
        /\ \A i \in 1 .. Len(sends) : sends[i] \in Submission
    BY LenProperties, ElementOfSeq DEF TypeInv
  <1>2. \A i \in DOMAIN sends :
          /\ sends[i].at \in Int /\ sends[i].charged \in Int
          /\ sends[i].payer \in Payers /\ sends[i].by \in Requests
    BY <1>1, ConstantsAre DEF Submission
  <1>3. clock \in Int /\ Cutoff \in Int /\ Cutoff < clock
    <2>1. clock \in Int /\ RateLimit.windowMs \in Nat /\ RateLimit.windowMs # 0
      BY ConstantsAre DEF TypeInv
    <2> QED
      BY <2>1 DEF Cutoff
  <1>4. \A i \in DOMAIN sends : i \in Timely <=> sends[i].charged > Cutoff
    BY <1>2, <1>3 DEF Timely, Late, Cutoff
  <1> QED
    BY <1>1, <1>2, <1>3, <1>4 DEF SendsShape, Timely

LEMMA SpendIs ==
    ASSUME TypeInv
    PROVE  \A t \in Spent : /\ Spend[t].at \in Int /\ Spend[t].at > Cutoff
                            /\ Spend[t].payer \in Payers
  <1> SUFFICES ASSUME NEW t \in Spent
               PROVE  /\ Spend[t].at \in Int /\ Spend[t].at > Cutoff
                      /\ Spend[t].payer \in Payers
    OBVIOUS
  <1>1. Spend[t] = Spending(t)
    BY SpentIs
  <1>2. ASSUME NEW i \in Timely, t = Out(i)
        PROVE  /\ Spending(t).at \in Int /\ Spending(t).at > Cutoff
               /\ Spending(t).payer \in Payers
    BY <1>2, TokensAre, SendsAre DEF SendsShape
  <1>3. ASSUME NEW h \in Holding, t = Held(h)
        PROVE  /\ Spending(t).at \in Int /\ Spending(t).at > Cutoff
               /\ Spending(t).payer \in Payers
    <2>1. /\ h \in Requests /\ req[h].pc = "charged" /\ charged[h] > Cutoff
      BY DEF Holding
    <2>2. charged[h] \in Int /\ PayerOf[req[h].payment] \in Payers
      BY <2>1, ConstantsAre DEF TypeInv, Payers
    <2> QED
      BY <1>3, <2>1, <2>2, TokensAre
  <1> QED
    BY <1>1, <1>2, <1>3, SpentIs

LEMMA SpendAtFirst == Init => SpendInv
  <1> SUFFICES ASSUME Init PROVE SpendInv
    OBVIOUS
  <1>1. TypeInv
    BY TypesHoldAtFirst
  <1>2. DOMAIN sends = {} /\ Timely = {}
    BY DEF Init, Timely
  <1>3. Holding = {}
    BY DEF Init, Idle, Holding
  <1>4. Spent = {} /\ \A payer : SpentBy(payer) = {}
    BY <1>2, <1>3 DEF Spent, SpentBy
  <1>5. \A events, times : Covered({}, events, times)
    <2> SUFFICES ASSUME NEW events, NEW times PROVE Covered({}, events, times)
      OBVIOUS
    <2>1. [x \in {} |-> x] \in [{} -> DOMAIN times]
      OBVIOUS
    <2> QED
      BY <2>1 DEF Covered
  <1>6. Cardinality({}) = 0
    BY FS_EmptySet
  <1> QED
    BY <1>1, <1>4, <1>5, <1>6, ConstantsAre DEF SpendInv, GlobalSpend, PayerSpend

\* a call takes no time of a charge of the window
LEMMA CoveredCharged ==
    ASSUME TypeInv, NEW r, NEW payer,
           Charged(limiter, r, clock, RateLimit.windowMs, payer),
           Covered(SpentBy(payer), Spend, TimesOf(limiter, payer))
    PROVE  Covered(SpentBy(payer), Spend, TimesOf(r.limiter, payer))
  <1> DEFINE old == TimesOf(limiter, payer)
             left == Prune(old, clock, RateLimit.windowMs)
  <1>1. /\ old \in Seq(Clock) /\ clock \in Int /\ clock \in Clock /\ Clock \subseteq Int
        /\ RateLimit.windowMs \in Int
    BY ConstantsAre, TimesAre DEF TypeInv
  <1>2. \A t \in SpentBy(payer) : Spend[t].at > clock - RateLimit.windowMs
    BY SpendIs, SpentIs DEF Cutoff
  <1>3. left \in Seq(Clock) /\ Covered(SpentBy(payer), Spend, left)
    <2> HIDE DEF old
    <2>1. left \in Seq(Clock)
      BY <1>1, PruneIs
    <2>2. Covered(SpentBy(payer), Spend, left)
      BY <1>1, <1>2, CoveredPruned DEF old
    <2> QED
      BY <2>1, <2>2
  <1>4. Covered(SpentBy(payer), Spend, Append(left, clock))
    BY <1>1, <1>3, CoveredMore
  <1> QED
    BY <1>3, <1>4 DEF Charged

\* a call that charges nothing
LEMMA SpendKept ==
    ASSUME SpendInv, NEW r, NEW entries,
           IsAnswer(r, limiter, entries, clock, RateLimit.windowMs, Clock),
           limiter'.perKey = r.limiter.perKey,
           \/ limiter'.globalHits = r.limiter.globalHits
           \/ limiter'.globalHits = Prune(r.limiter.globalHits, clock, RateLimit.windowMs),
           TypeInv', Spent' = Spent, Spend' = Spend
    PROVE  SpendInv'
  <1>1. /\ TypeInv /\ limiter.globalHits \in Seq(Clock)
        /\ r.limiter.globalHits = limiter.globalHits
        /\ clock \in Int /\ RateLimit.windowMs \in Int /\ Clock \subseteq Int
    BY ConstantsAre DEF SpendInv, TypeInv, IsLimiter, IsAnswer
  <1>2. \A t \in Spent : Spend[t].at > clock - RateLimit.windowMs
    BY <1>1, SpendIs DEF Cutoff
  <1>3. ASSUME RateLimit.maxGlobal > 0
        PROVE  Covered(Spent, Spend, limiter'.globalHits)
    <2>1. Covered(Spent, Spend, limiter.globalHits)
      BY <1>3 DEF SpendInv, GlobalSpend
    <2>2. Covered(Spent, Spend, Prune(limiter.globalHits, clock, RateLimit.windowMs))
      BY <1>1, <1>2, <2>1, CoveredPruned
    <2> QED
      BY <1>1, <2>1, <2>2
  <1>4. ASSUME NEW payer \in Payers, RateLimit.maxPerPayer > 0
        PROVE  Covered(SpentBy(payer), Spend, TimesOf(limiter', payer))
    <2>1. Covered(SpentBy(payer), Spend, TimesOf(limiter, payer))
      BY <1>4 DEF SpendInv, PayerSpend
    <2>2. Charged(limiter, r, clock, RateLimit.windowMs, payer)
      BY DEF IsAnswer
    <2>3. Covered(SpentBy(payer), Spend, TimesOf(r.limiter, payer))
      BY <1>1, <2>1, <2>2, CoveredCharged
    <2> QED
      BY <2>3 DEF TimesOf
  <1>5. \A payer : SpentBy(payer)' = SpentBy(payer)
    BY DEF SpentBy
  <1>6. GlobalSpend'
    BY <1>3 DEF SpendInv, GlobalSpend
  <1>7. ASSUME NEW payer \in Payers PROVE PayerSpend(payer)'
    BY <1>4, <1>5 DEF SpendInv, PayerSpend
  <1> QED
    BY <1>6, <1>7 DEF SpendInv

\* a charge is made: its payer's bucket and the global budget have taken it
LEMMA SpendMade ==
    ASSUME SpendInv, NEW h \in Requests, req[h].pc = "validate",
           NEW payer, NEW mine, NEW all,
           Charges(h, payer, mine, all), mine.allowed, all.allowed, TypeInv'
    PROVE  SpendInv'
  <1> DEFINE k == Held(h)
  <1>1. /\ TypeInv /\ Clock \subseteq Int /\ clock \in Clock /\ clock \in Int
        /\ RateLimit.windowMs \in Int /\ Cutoff < clock
        /\ limiter.globalHits \in Seq(Clock) /\ TimesOf(limiter, payer) \in Seq(Clock)
    <2>1. TypeInv
      BY DEF SpendInv
    <2>2. IsLimiter(limiter, Clock) /\ clock \in Clock
      BY <2>1 DEF TypeInv
    <2>3. limiter.globalHits \in Seq(Clock) /\ TimesOf(limiter, payer) \in Seq(Clock)
      BY <2>2, TimesAre DEF IsLimiter
    <2> QED
      BY <2>1, <2>2, <2>3, ConstantsAre, SendsAre DEF SendsShape
  <1>2. /\ IsAnswer(mine, limiter, Bill(payer), clock, RateLimit.windowMs, Clock)
        /\ IsGlobalAnswer(all, mine.limiter, clock, RateLimit.maxGlobal, RateLimit.windowMs, Clock)
        /\ limiter' = all.limiter /\ sends' = sends /\ clock' = clock
        /\ req' = [req EXCEPT ![h].pc = "charged"]
        /\ charged' = [charged EXCEPT ![h] = clock]
        /\ payer = PayerOf[req[h].payment] /\ payer \in Payers
    BY DEF Charges
  <1>3. /\ limiter'.perKey = mine.limiter.perKey
        /\ mine.limiter.globalHits = limiter.globalHits
    BY <1>2 DEF IsAnswer, IsGlobalAnswer
  <1>4. /\ Timely' = Timely /\ Holding' = Holding \cup {h} /\ h \notin Holding
        /\ \A g \in Requests : /\ req'[g].payment = req[g].payment
                               /\ g # h => charged'[g] = charged[g]
        /\ charged'[h] = clock
    <2>1. Cutoff' = Cutoff /\ Timely' = Timely
      BY <1>2 DEF Cutoff, Timely, Late
    <2>2. /\ \A g \in Requests : /\ req'[g].payment = req[g].payment
                                 /\ g # h => charged'[g] = charged[g] /\ req'[g].pc = req[g].pc
          /\ charged'[h] = clock /\ req'[h].pc = "charged"
      BY <1>1, <1>2 DEF TypeInv
    <2>3. Holding' = Holding \cup {h} /\ h \notin Holding
      BY <1>1, <2>1, <2>2 DEF Holding
    <2> QED
      BY <2>1, <2>2, <2>3
  <1>5. /\ Spent' = Spent \cup {k} /\ k \notin Spent
        /\ \A t \in Spent : Spend'[t] = Spend[t]
        /\ Spend'[k].at = clock /\ Spend'[k].payer = payer
    <2>1. Spent' = Spent \cup {k} /\ k \notin Spent
      <3>1. k \notin Spent
        BY <1>4, SpentIs
      <3>2. Spent' = {Out(i) : i \in Timely} \cup {Held(g) : g \in Holding \cup {h}}
        BY <1>4 DEF Spent
      <3> QED
        BY <3>1, <3>2 DEF Spent
    <2>2. ASSUME NEW t \in Spent' PROVE Spend'[t] = Spending(t)'
      BY <2>2 DEF Spend
    <2>3. /\ \A i : Spending(Out(i))' = Spending(Out(i))
          /\ \A g \in Requests : g # h => Spending(Held(g))' = Spending(Held(g))
          /\ Spending(k)' = [at |-> clock, payer |-> payer]
      BY <1>2, <1>4 DEF Spending, Out, Held
    <2>4. ASSUME NEW t \in Spent PROVE Spend'[t] = Spend[t]
      <3>1. Spend'[t] = Spending(t)' /\ Spend[t] = Spending(t)
        BY <2>1, <2>2, SpentIs
      <3>2. Spending(t)' = Spending(t)
        BY <1>4, <2>3, SpentIs DEF Holding
      <3> QED
        BY <3>1, <3>2
    <2> QED
      BY <2>1, <2>2, <2>3, <2>4
  <1> HIDE DEF k
  <1>6. /\ \A t \in Spent : Spend[t].at > clock - RateLimit.windowMs
        /\ \A p : SpentBy(p) \subseteq Spent
    BY <1>1, SpendIs, SpentIs DEF Cutoff
  <1>7. ASSUME RateLimit.maxGlobal > 0
        PROVE  /\ Covered(Spent', Spend', limiter'.globalHits)
               /\ Cardinality(Spent') <= RateLimit.maxGlobal
    <2> DEFINE left == Prune(limiter.globalHits, clock, RateLimit.windowMs)
    <2>1. Covered(Spent, Spend, limiter.globalHits)
      BY <1>7 DEF SpendInv, GlobalSpend
    <2>2. Covered(Spent, Spend, left) /\ IsFiniteSet(Spent) /\ Cardinality(Spent) <= Len(left)
      BY <1>1, <1>6, <2>1, CoveredPruned
    <2>3. left \in Seq(Clock)
      BY <1>1, PruneIs
    <2>4. Len(left) < RateLimit.maxGlobal /\ limiter'.globalHits = Append(left, clock)
      BY <1>2, <1>3, <1>7 DEF IsGlobalAnswer
    <2> HIDE DEF left
    <2>5. Covered(Spent \cup {k}, Spend', Append(left, clock))
      <3>1. \A t \in Spent : Spend'[t].at = Spend[t].at
        BY <1>5
      <3> QED
        BY <1>1, <1>5, <2>2, <2>3, <3>1, CoveredNew
    <2>6. Cardinality(Spent \cup {k}) = Cardinality(Spent) + 1
      BY <1>5, <2>2, FS_AddElement
    <2>7. Cardinality(Spent) \in Nat /\ Len(left) \in Nat
      BY <2>2, <2>3, FS_CardinalityType, LenProperties
    <2> QED
      BY <1>5, <2>2, <2>4, <2>5, <2>6, <2>7, ConstantsAre
  <1>8. ASSUME RateLimit.maxPerPayer > 0
        PROVE  /\ Covered(SpentBy(payer)', Spend', TimesOf(limiter', payer))
               /\ Cardinality(SpentBy(payer)') <= RateLimit.maxPerPayer
    <2> DEFINE left == Prune(TimesOf(limiter, payer), clock, RateLimit.windowMs)
    <2>1. Covered(SpentBy(payer), Spend, TimesOf(limiter, payer))
      BY <1>2, <1>8 DEF SpendInv, PayerSpend
    <2>2. \A t \in SpentBy(payer) : Spend[t].at > clock - RateLimit.windowMs
      BY <1>6
    <2>3. /\ Covered(SpentBy(payer), Spend, left) /\ IsFiniteSet(SpentBy(payer))
          /\ Cardinality(SpentBy(payer)) <= Len(left)
      BY <1>1, <2>1, <2>2, CoveredPruned
    <2>4. left \in Seq(Clock)
      BY <1>1, PruneIs
    <2>5. /\ Len(left) < RateLimit.maxPerPayer
          /\ TimesOf(mine.limiter, payer) = Append(left, clock)
      <3>1. 1 \in DOMAIN Bill(payer) /\ Bill(payer)[1] = [key |-> payer, max |-> RateLimit.maxPerPayer]
        BY DEF Bill
      <3>2. Bill(payer)[1].max > 0 /\ Bill(payer)[1].key = payer
        BY <1>8, <3>1
      <3> QED
        BY <1>2, <3>1, <3>2 DEF IsAnswer
    <2>6. TimesOf(limiter', payer) = Append(left, clock)
      BY <1>3, <2>5 DEF TimesOf
    <2> HIDE DEF left
    <2>7. SpentBy(payer)' = SpentBy(payer) \cup {k} /\ k \notin SpentBy(payer)
      BY <1>5 DEF SpentBy
    <2>8. Covered(SpentBy(payer) \cup {k}, Spend', Append(left, clock))
      <3>1. \A t \in SpentBy(payer) : Spend'[t].at = Spend[t].at
        BY <1>5, <1>6
      <3> QED
        <4>1. /\ left \in Seq(Clock) /\ clock \in Clock /\ k \notin SpentBy(payer)
              /\ Spend'[k].at = clock /\ Covered(SpentBy(payer), Spend, left)
          BY <1>1, <1>5, <2>3, <2>4, <2>7
        <4> HIDE DEF SpentBy
        <4> QED
          BY <3>1, <4>1, CoveredNew
    <2>9. Cardinality(SpentBy(payer) \cup {k}) = Cardinality(SpentBy(payer)) + 1
      BY <2>3, <2>7, FS_AddElement
    <2>10. Cardinality(SpentBy(payer)) \in Nat /\ Len(left) \in Nat
      BY <2>3, <2>4, FS_CardinalityType, LenProperties
    <2> QED
      BY <2>3, <2>5, <2>6, <2>7, <2>8, <2>9, <2>10, ConstantsAre
  <1>9. ASSUME NEW p \in Payers, p # payer, RateLimit.maxPerPayer > 0
        PROVE  /\ Covered(SpentBy(p)', Spend', TimesOf(limiter', p))
               /\ Cardinality(SpentBy(p)') <= RateLimit.maxPerPayer
    <2>1. /\ Covered(SpentBy(p), Spend, TimesOf(limiter, p))
          /\ Cardinality(SpentBy(p)) <= RateLimit.maxPerPayer
      BY <1>9 DEF SpendInv, PayerSpend
    <2>2. Charged(limiter, mine, clock, RateLimit.windowMs, p)
      BY <1>2 DEF IsAnswer
    <2>3. Covered(SpentBy(p), Spend, TimesOf(mine.limiter, p))
      BY <1>1, <2>1, <2>2, CoveredCharged
    <2>4. TimesOf(mine.limiter, p) = TimesOf(limiter', p)
      BY <1>3 DEF TimesOf
    <2>5. SpentBy(p)' = SpentBy(p)
      BY <1>5, <1>9 DEF SpentBy
    <2>6. \A t \in SpentBy(p) : Spend'[t].at = Spend[t].at
      BY <1>5, <1>6
    <2>7. Covered(SpentBy(p), Spend', TimesOf(mine.limiter, p))
      BY <2>3, <2>6, CoveredSame
    <2> QED
      BY <2>1, <2>4, <2>5, <2>7
  <1>10. ASSUME NEW p \in Payers PROVE PayerSpend(p)'
    BY <1>8, <1>9 DEF PayerSpend
  <1>11. GlobalSpend'
    BY <1>7 DEF GlobalSpend
  <1> QED
    BY <1>10, <1>11 DEF SpendInv

\* nothing is charged, and what is on record was: a charge becomes a
\* submission, is lost, or leaves the window
LEMMA SpendMoved ==
    ASSUME SpendInv, TypeInv', limiter' = limiter,
           NEW g \in [Spent' -> Spent],
           \A s, t \in Spent' : g[s] = g[t] => s = t,
           \A t \in Spent' : Spending(t)' = Spending(g[t])
    PROVE  SpendInv'
  <1>1. ASSUME NEW t \in Spent' PROVE Spend'[t] = Spend[g[t]]
    <2>1. Spend'[t] = Spending(t)'
      BY <1>1 DEF Spend
    <2>2. g[t] \in Spent /\ Spend[g[t]] = Spending(g[t])
      BY <1>1, SpentIs
    <2> QED
      BY <2>1, <2>2
  <1>2. ASSUME NEW I, NEW J, NEW f \in [J -> I], \A s, t \in J : f[s] = f[t] => s = t,
               \A t \in J : Spend'[t].at = Spend[f[t]].at,
               NEW times \in Seq(Clock), Covered(I, Spend, times), NEW max \in Int,
               Cardinality(I) <= max
        PROVE  Covered(J, Spend', times) /\ Cardinality(J) <= max
    <2>1. Covered(J, Spend', times)
      BY <1>2, CoveredMapped
    <2>2. IsFiniteSet(I) /\ f \in Injection(J, I)
      BY <1>2, CoveredCount DEF Injection, IsInjective
    <2>3. IsFiniteSet(J) /\ Cardinality(J) <= Cardinality(I)
      BY <2>2, FS_Injection
    <2>4. Cardinality(I) \in Nat /\ Cardinality(J) \in Nat
      BY <2>2, <2>3, FS_CardinalityType
    <2> QED
      BY <1>2, <2>1, <2>3, <2>4
  <1>3. IsLimiter(limiter, Clock)
    BY DEF SpendInv, TypeInv
  <1>4. GlobalSpend'
    <2> SUFFICES ASSUME RateLimit.maxGlobal > 0
                 PROVE  /\ Covered(Spent', Spend', limiter.globalHits)
                        /\ Cardinality(Spent') <= RateLimit.maxGlobal
      BY DEF GlobalSpend
    <2>1. /\ Covered(Spent, Spend, limiter.globalHits)
          /\ Cardinality(Spent) <= RateLimit.maxGlobal
          /\ limiter.globalHits \in Seq(Clock)
      BY <1>3 DEF SpendInv, GlobalSpend, IsLimiter
    <2>2. \A t \in Spent' : Spend'[t].at = Spend[g[t]].at
      BY <1>1
    <2> QED
      BY <1>2, <2>1, <2>2, ConstantsAre
  <1>5. ASSUME NEW payer \in Payers PROVE PayerSpend(payer)'
    <2> SUFFICES ASSUME RateLimit.maxPerPayer > 0
                 PROVE  /\ Covered(SpentBy(payer)', Spend', TimesOf(limiter, payer))
                        /\ Cardinality(SpentBy(payer)') <= RateLimit.maxPerPayer
      BY DEF PayerSpend
    <2> DEFINE f == [t \in SpentBy(payer)' |-> g[t]]
    <2>1. /\ Covered(SpentBy(payer), Spend, TimesOf(limiter, payer))
          /\ Cardinality(SpentBy(payer)) <= RateLimit.maxPerPayer
          /\ TimesOf(limiter, payer) \in Seq(Clock)
      BY <1>3, TimesAre DEF SpendInv, PayerSpend
    <2>2. ASSUME NEW t \in SpentBy(payer)' PROVE t \in Spent' /\ g[t] \in SpentBy(payer)
      BY <1>1, <2>2 DEF SpentBy
    <2>3. /\ f \in [SpentBy(payer)' -> SpentBy(payer)]
          /\ \A s, t \in SpentBy(payer)' : f[s] = f[t] => s = t
          /\ \A t \in SpentBy(payer)' : Spend'[t].at = Spend[f[t]].at
      BY <1>1, <2>2
    <2> HIDE DEF f
    <2> QED
      BY <1>2, <2>1, <2>3, ConstantsAre
  <1> QED
    BY <1>4, <1>5 DEF SpendInv

\* a request with a charge ends, or changes to one without
LEMMA SpendLost ==
    ASSUME SpendInv, TypeInv', UNCHANGED <<clock, limiter, sends>>,
           \A g \in Holding' : /\ g \in Holding /\ req'[g].payment = req[g].payment
                               /\ charged'[g] = charged[g]
    PROVE  SpendInv'
  <1> DEFINE same == [t \in Spent' |-> t]
  <1>1. Timely' = Timely
    BY DEF Timely, Late
  <1>2. ASSUME NEW t \in Spent' PROVE t \in Spent /\ Spending(t)' = Spending(t)
    <2>1. CASE \E i \in Timely' : t = Out(i)
      <3>1. PICK i \in Timely : t = Out(i)
        BY <1>1, <2>1
      <3>2. Spending(Out(i))' = Spending(Out(i))
        BY DEF Spending, Out
      <3> QED
        BY <3>1, <3>2, SpentIs DEF Out
    <2>2. CASE \E g \in Holding' : t = Held(g)
      <3>1. PICK g \in Holding' : t = Held(g)
        BY <2>2
      <3>2. Spending(Held(g))' = Spending(Held(g))
        BY <3>1 DEF Spending, Held
      <3> QED
        BY <3>1, <3>2, SpentIs DEF Held
    <2> QED
      BY <1>2, <2>1, <2>2 DEF Spent
  <1>3. /\ same \in [Spent' -> Spent] /\ \A s, t \in Spent' : same[s] = same[t] => s = t
        /\ \A t \in Spent' : Spending(t)' = Spending(same[t])
    BY <1>2
  <1> HIDE DEF same
  <1> QED
    BY <1>3, SpendMoved

LEMMA SpendSent ==
    ASSUME SpendInv, TypeInv', NEW h \in Requests, Send(h)
    PROVE  SpendInv'
  <1>0. PICK n : n = Len(sends) + 1
    OBVIOUS
  <1> DEFINE e == [by |-> h, payer |-> PayerOf[req[h].payment],
                   charged |-> charged[h], at |-> clock]
             g == [t \in Spent' |-> IF t = Out(n) THEN Held(h) ELSE t]
  <1>1. /\ TypeInv /\ SendsShape /\ UNCHANGED <<clock, limiter>> /\ req[h].pc = "charged"
        /\ req' = [req EXCEPT ![h].pc = "sent"] /\ charged' = [charged EXCEPT ![h] = 0]
        /\ sends' = Append(sends, e)
    BY SendsAre DEF SpendInv, Send
  <1>2. SendsShape'
    <2>1. TypeInv' => SendsShape'
      BY SendsAre, PTL
    <2> QED
      BY <2>1
  <1>3. /\ DOMAIN sends' = DOMAIN sends \cup {n} /\ n \notin DOMAIN sends
        /\ \A i \in DOMAIN sends : sends'[i] = sends[i]
        /\ sends'[n] = e
    <2>1. sends \in Seq(Submission) /\ sends' \in Seq(Submission) /\ e \in Submission
      BY <1>1 DEF TypeInv, Submission, Payers
    <2>2. /\ Len(sends') = n /\ \A i \in 1 .. Len(sends) : sends'[i] = sends[i]
          /\ sends'[n] = e
      BY <1>0, <1>1, <2>1, AppendProperties
    <2> HIDE DEF e
    <2> QED
      BY <1>0, <1>1, <1>2, <2>2 DEF SendsShape
  <1>4. Cutoff' = Cutoff
    BY <1>1 DEF Cutoff
  <1>5. /\ Timely' \subseteq Timely \cup {n}
        /\ n \in Timely' => h \in Holding
    <2>1. \A i \in DOMAIN sends' : i \in Timely' <=> sends'[i].charged > Cutoff
      BY <1>2, <1>4 DEF SendsShape
    <2>2. n \in Timely' => charged[h] > Cutoff
      BY <1>3, <2>1
    <2>3. Timely' \subseteq DOMAIN sends'
      BY <1>2 DEF SendsShape
    <2>4. ASSUME NEW i \in Timely', i # n PROVE i \in Timely
      <3>1. i \in DOMAIN sends /\ sends'[i] = sends[i] /\ sends'[i].charged > Cutoff
        BY <1>3, <2>1, <2>3, <2>4
      <3> QED
        BY <1>1, <3>1 DEF SendsShape
    <2> QED
      BY <1>1, <2>2, <2>4 DEF Holding
  <1>6. /\ Holding' \subseteq Holding \ {h}
        /\ \A k \in Holding' : /\ req'[k].payment = req[k].payment
                               /\ charged'[k] = charged[k]
    <2>1. /\ req'[h].pc = "sent"
          /\ \A k \in Requests : k # h => /\ req'[k] = req[k]
                                          /\ charged'[k] = charged[k]
      BY <1>1 DEF TypeInv
    <2> QED
      BY <1>4, <2>1 DEF Holding
  <1>7. ASSUME NEW t \in Spent'
        PROVE  \/ /\ t = Out(n) /\ Held(h) \in Spent /\ Spending(t)' = Spending(Held(h))
               \/ /\ t # Out(n) /\ t # Held(h) /\ t \in Spent /\ Spending(t)' = Spending(t)
    <2>1. CASE t = Out(n)
      <3>1. n \in Timely'
        BY <1>7, <2>1, TokensAre DEF Spent
      <3>2. Spending(Out(n))' = [at |-> charged[h], payer |-> PayerOf[req[h].payment]]
        BY <1>3 DEF Spending, Out
      <3> QED
        BY <1>5, <2>1, <3>1, <3>2, SpentIs, TokensAre DEF Out
    <2>2. CASE \E i \in Timely' : t = Out(i) /\ i # n
      <3>1. PICK i \in Timely' : t = Out(i) /\ i # n
        BY <2>2
      <3>2. i \in Timely /\ sends'[i] = sends[i]
        BY <1>1, <1>3, <1>5, <3>1 DEF SendsShape
      <3>3. Spending(Out(i))' = Spending(Out(i))
        BY <3>2 DEF Spending, Out
      <3> QED
        BY <3>1, <3>2, <3>3, SpentIs, TokensAre DEF Out
    <2>3. CASE \E k \in Holding' : t = Held(k)
      <3>1. PICK k \in Holding' : t = Held(k)
        BY <2>3
      <3>2. Spending(Held(k))' = Spending(Held(k))
        BY <1>6, <3>1 DEF Spending, Held
      <3>3. k \in Holding /\ k # h
        BY <1>6
      <3> QED
        BY <3>1, <3>2, <3>3, SpentIs, TokensAre DEF Held
    <2> QED
      BY <1>7, <2>1, <2>2, <2>3 DEF Spent
  <1> HIDE DEF e
  <1>8. /\ g \in [Spent' -> Spent] /\ \A s, t \in Spent' : g[s] = g[t] => s = t
    BY <1>7
  <1>9. \A t \in Spent' : Spending(t)' = Spending(g[t])
    BY <1>7
  <1> HIDE DEF g
  <1> QED
    BY <1>1, <1>8, <1>9, SpendMoved

\* the window moves on
LEMMA SendsAge ==
    ASSUME TypeInv, Tick, TypeInv'
    PROVE  \E m \in Nat : Trimmed(sends', sends, Cutoff', m)
  <1>1. sends' = Since(sends, Cutoff')
    BY DEF Tick, Cutoff
  <1>2. Cutoff' \in Int
    <2>1. TypeInv' => SendsShape'
      BY SendsAre, PTL
    <2> QED
      BY <2>1 DEF SendsShape
  <1>3. \A e \in Submission : e.at \in Int
    BY ConstantsAre DEF Submission
  <1>4. sends \in Seq(Submission)
    BY DEF TypeInv
  <1> QED
    BY <1>1, <1>2, <1>3, <1>4, SinceIs

LEMMA SpendAges ==
    ASSUME SpendInv, Tick, TypeInv'
    PROVE  SpendInv'
  <1>1. TypeInv /\ SendsShape /\ UNCHANGED <<limiter, req, charged>> /\ clock' = clock + 1
    BY SendsAre DEF SpendInv, Tick
  <1>2. SendsShape' /\ Cutoff' = Cutoff + 1
    <2>1. TypeInv' => SendsShape'
      BY SendsAre, PTL
    <2>2. clock \in Int /\ RateLimit.windowMs \in Int
      BY <1>1, ConstantsAre DEF SendsShape
    <2>3. Cutoff' = Cutoff + 1
      BY <1>1, <2>2 DEF Cutoff
    <2> QED
      BY <2>1, <2>3
  <1>3. PICK m \in Nat : Trimmed(sends', sends, Cutoff', m)
    BY <1>1, SendsAge
  <1>4. \A i \in DOMAIN sends' : i + m \in DOMAIN sends /\ sends'[i] = sends[i + m]
    BY <1>1, <1>2, <1>3 DEF Trimmed, SendsShape
  <1>5. ASSUME NEW i \in Timely'
        PROVE  i \in Int /\ i + m \in Timely /\ sends'[i] = sends[i + m]
    <2>1. i \in DOMAIN sends' /\ sends'[i].charged > Cutoff' /\ i \in Int
      BY <1>2, <1>5 DEF SendsShape
    <2>2. i + m \in DOMAIN sends /\ sends'[i] = sends[i + m]
      BY <1>4, <2>1
    <2>3. sends[i + m].charged > Cutoff
      BY <1>1, <1>2, <2>1, <2>2 DEF SendsShape
    <2> QED
      BY <1>1, <2>1, <2>2, <2>3 DEF SendsShape
  <1>6. ASSUME NEW h \in Holding' PROVE h \in Holding
    <2>1. h \in Requests /\ req[h].pc = "charged" /\ charged[h] > Cutoff'
      BY <1>1 DEF Holding
    <2>2. charged[h] \in Int
      BY <1>1, <2>1, ConstantsAre DEF TypeInv
    <2> QED
      BY <1>1, <1>2, <2>1, <2>2 DEF Holding, SendsShape
  <1> DEFINE g == [t \in Spent' |-> IF t[1] = "out" THEN Out(t[2] + m) ELSE t]
  <1>7. ASSUME NEW t \in Spent'
        PROVE  \/ \E i \in Timely' : /\ t = Out(i) /\ g[t] = Out(i + m) /\ i \in Int
                                     /\ g[t] \in Spent /\ Spending(t)' = Spending(g[t])
               \/ \E h \in Holding' : /\ t = Held(h) /\ g[t] = Held(h)
                                      /\ g[t] \in Spent /\ Spending(t)' = Spending(g[t])
    <2>1. ASSUME NEW i \in Timely', t = Out(i)
          PROVE  /\ g[t] = Out(i + m) /\ i \in Int /\ g[t] \in Spent
                 /\ Spending(t)' = Spending(g[t])
      <3>1. g[t] = Out(i + m) /\ t[1] = "out" /\ t[2] = i
        BY <1>7, <2>1 DEF Out
      <3>2. Spending(Out(i))' = Spending(Out(i + m))
        BY <1>5 DEF Spending, Out
      <3>3. Spending(t)' = Spending(Out(i))'
        BY <2>1 DEF Out, Spending
      <3> QED
        BY <1>5, <3>1, <3>2, <3>3, SpentIs
    <2>2. ASSUME NEW h \in Holding', t = Held(h)
          PROVE  g[t] = Held(h) /\ g[t] \in Spent /\ Spending(t)' = Spending(g[t])
      <3>1. g[t] = t
        BY <1>7, <2>2 DEF Held
      <3>2. Spending(Held(h))' = Spending(Held(h))
        BY <1>1 DEF Spending, Held
      <3>3. Spending(t)' = Spending(Held(h))'
        BY <2>2 DEF Held, Spending
      <3> QED
        BY <1>6, <2>2, <3>1, <3>2, <3>3, SpentIs
    <2> QED
      BY <1>7, <2>1, <2>2 DEF Spent
  <1> HIDE DEF g
  <1>8. ASSUME NEW s \in Spent', NEW t \in Spent', g[s] = g[t] PROVE s = t
    <2>1. CASE \E i \in Timely', j \in Timely' :
                 /\ s = Out(i) /\ g[s] = Out(i + m) /\ i \in Int
                 /\ t = Out(j) /\ g[t] = Out(j + m) /\ j \in Int
      <3>1. PICK i \in Timely', j \in Timely' :
                 /\ s = Out(i) /\ g[s] = Out(i + m) /\ i \in Int
                 /\ t = Out(j) /\ g[t] = Out(j + m) /\ j \in Int
        BY <2>1
      <3>2. i + m = j + m
        BY <1>8, <3>1, TokensAre
      <3>3. i = j
        BY <3>1, <3>2
      <3> QED
        BY <3>1, <3>3
    <2>2. CASE \E h \in Holding' : s = Held(h) /\ g[s] = Held(h)
      BY <1>7, <1>8, <2>2, TokensAre
    <2>3. CASE \E h \in Holding' : t = Held(h) /\ g[t] = Held(h)
      BY <1>7, <1>8, <2>3, TokensAre
    <2> QED
      BY <1>7, <2>1, <2>2, <2>3
  <1>9. g \in [Spent' -> Spent] /\ \A t \in Spent' : Spending(t)' = Spending(g[t])
    <2>1. \A t \in Spent' : g[t] \in Spent /\ Spending(t)' = Spending(g[t])
      BY <1>7
    <2> QED
      BY <2>1 DEF g
  <1> QED
    BY <1>1, <1>8, <1>9, SpendMoved

\* the outcomes, whatever they tell the breaker
LEMMA EndsIs ==
    ASSUME NEW h \in Requests, Fail(h) \/ Succeed(h) \/ Unrelated(h)
    PROVE  /\ req[h].pc \in {"charged", "sent"}
           /\ req' = [req EXCEPT ![h] = Idle] /\ charged' = [charged EXCEPT ![h] = 0]
           /\ UNCHANGED <<clock, limiter, sends>>
  BY DEF Fail, Succeed, Unrelated, Ends

LEMMA SpendNext == SpendInv /\ TypeInv' /\ [Next]_vars => SpendInv'
  <1> SUFFICES ASSUME SpendInv, TypeInv', [Next]_vars PROVE SpendInv'
    OBVIOUS
  <1>1. TypeInv
    BY DEF SpendInv
  <1> DEFINE Same == /\ UNCHANGED <<clock, sends, charged>>
                     /\ \A h \in Requests : (req[h].pc = "charged" \/ req'[h].pc = "charged")
                                              => req'[h] = req[h]
  <1>2. ASSUME Same PROVE Spent' = Spent /\ Spend' = Spend
    <2>1. Timely' = Timely /\ Holding' = Holding
      BY <1>2 DEF Timely, Late, Holding, Cutoff
    <2>2. Spent' = Spent
      BY <2>1 DEF Spent
    <2>3. ASSUME NEW t \in Spent PROVE Spending(t)' = Spending(t)
      <3>1. ASSUME NEW i \in Timely, t = Out(i) PROVE Spending(t)' = Spending(t)
        BY <1>2, <3>1 DEF Spending, Out
      <3>2. ASSUME NEW h \in Holding, t = Held(h) PROVE Spending(t)' = Spending(t)
        BY <1>2, <3>2 DEF Spending, Held, Holding
      <3> QED
        BY <3>1, <3>2, SpentIs
    <2> QED
      BY <2>2, <2>3 DEF Spend
  <1>3. ASSUME NEW h \in Requests, Arrive(h) PROVE SpendInv'
    <2>1. PICK p, ip, r : Arrives(h, p, ip, r)
      BY <1>1, <1>3, ArriveIs
    <2>2. req[h].pc = "idle"
      BY <1>3 DEF Arrive
    <2>3. Same
      BY <1>1, <2>1, <2>2 DEF Arrives, TypeInv
    <2> HIDE DEF Same
    <2> QED
      BY <1>2, <2>1, <2>3, SpendKept DEF Arrives
  <1>4. ASSUME NEW h \in Requests, Charge(h) PROVE SpendInv'
    <2>1. PICK payer, mine, all : Charges(h, payer, mine, all)
      BY <1>1, <1>4, ChargeIs
    <2>2. req[h].pc = "validate"
      BY <1>1, <1>4, ChargeIs
    <2>3. CASE mine.allowed /\ all.allowed
      BY <2>1, <2>2, <2>3, SpendMade
    <2>4. CASE ~(mine.allowed /\ all.allowed)
      <3>1. IsAnswer(mine, limiter, Bill(payer), clock, RateLimit.windowMs, Clock)
        BY <2>1 DEF Charges
      <3>2. /\ limiter'.perKey = mine.limiter.perKey
            /\ \/ limiter'.globalHits = mine.limiter.globalHits
               \/ limiter'.globalHits = Prune(mine.limiter.globalHits, clock, RateLimit.windowMs)
        <4>1. CASE ~mine.allowed
          BY <2>1, <4>1 DEF Charges
        <4>2. CASE mine.allowed /\ ~all.allowed
          BY <2>1, <4>2, ConstantsAre DEF Charges, IsGlobalAnswer
        <4> QED
          BY <2>4, <4>1, <4>2
      <3>3. Same
        BY <1>1, <2>1, <2>2, <2>4 DEF Charges, TypeInv, Idle
      <3> HIDE DEF Same
      <3> QED
        BY <1>2, <3>1, <3>2, <3>3, SpendKept
    <2> QED
      BY <2>3, <2>4
  <1>5. ASSUME NEW h \in Requests, Send(h) PROVE SpendInv'
    BY <1>5, SpendSent
  <1>6. CASE Tick
    BY <1>6, SpendAges
  <1>7. ASSUME NEW h \in Requests, Fail(h) \/ Succeed(h) \/ Unrelated(h)
        PROVE  SpendInv'
    <2>1. /\ req' = [req EXCEPT ![h] = Idle] /\ charged' = [charged EXCEPT ![h] = 0]
          /\ UNCHANGED <<clock, limiter, sends>>
      BY <1>7, EndsIs
    <2>2. \A g \in Holding' : /\ g \in Holding /\ req'[g].payment = req[g].payment
                              /\ charged'[g] = charged[g]
      BY <1>1, <2>1 DEF Holding, Cutoff, TypeInv, Idle
    <2> QED
      BY <2>1, <2>2, SpendLost
  <1>8. ASSUME NEW h \in Requests, Turned(h) PROVE SpendInv'
    <2>1. \A g \in Holding' : /\ g \in Holding /\ req'[g].payment = req[g].payment
                              /\ charged'[g] = charged[g]
      BY <1>1, <1>8 DEF Turned, Holding, Cutoff, TypeInv, Idle, history
    <2> QED
      BY <1>8, <2>1, SpendLost DEF Turned, history
  <1>9. CASE UNCHANGED vars
    <2>1. \A g \in Holding' : /\ g \in Holding /\ req'[g].payment = req[g].payment
                              /\ charged'[g] = charged[g]
      BY <1>9 DEF vars, Holding, Cutoff, history
    <2> QED
      BY <1>9, <2>1, SpendLost DEF vars, history
  <1> QED
    BY <1>3, <1>4, <1>5, <1>6, <1>7, <1>8, <1>9 DEF Next

(***************************************************************************)
(* A request makes one charge at a time, and no other before its           *)
(* submission has left: of two submissions of one request, the second was  *)
(* charged when the first had left.                                        *)
(***************************************************************************)
InTurn ==
    /\ \A i \in DOMAIN sends : sends[i].at > Cutoff /\ sends[i].at <= clock
    /\ \A i, j \in DOMAIN sends :
         i < j => /\ sends[i].at <= sends[j].at
                  /\ sends[i].by = sends[j].by => sends[i].at <= sends[j].charged
    /\ \A h \in Requests : req[h].pc = "charged" =>
         \A i \in DOMAIN sends : sends[i].by = h => sends[i].at <= charged[h]

LEMMA TurnSent ==
    ASSUME TypeInv, InTurn, TypeInv', NEW h \in Requests, Send(h)
    PROVE  InTurn'
  <1> DEFINE n == Len(sends) + 1
             e == [by |-> h, payer |-> PayerOf[req[h].payment],
                   charged |-> charged[h], at |-> clock]
  <1>1. /\ SendsShape /\ clock' = clock /\ req[h].pc = "charged"
        /\ req' = [req EXCEPT ![h].pc = "sent"] /\ charged' = [charged EXCEPT ![h] = 0]
        /\ sends' = Append(sends, e)
    BY SendsAre DEF Send
  <1>2. /\ DOMAIN sends' = DOMAIN sends \cup {n} /\ \A i \in DOMAIN sends : i < n
        /\ \A i \in DOMAIN sends : sends'[i] = sends[i]
        /\ sends'[n].by = h /\ sends'[n].charged = charged[h] /\ sends'[n].at = clock
    <2>1. sends \in Seq(Submission) /\ sends' \in Seq(Submission) /\ e \in Submission
      BY <1>1 DEF TypeInv, Submission, Payers
    <2>2. /\ Len(sends') = n /\ \A i \in 1 .. Len(sends) : sends'[i] = sends[i]
          /\ sends'[n] = e
      BY <1>1, <2>1, AppendProperties
    <2>3. DOMAIN sends' = 1 .. n
      BY <2>1, <2>2, LenProperties
    <2> QED
      BY <1>1, <2>2, <2>3 DEF SendsShape
  <1>3. Cutoff' = Cutoff /\ Cutoff < clock /\ clock \in Int
    BY <1>1 DEF Cutoff, SendsShape
  <1> HIDE DEF n, e
  <1>4. \A i \in DOMAIN sends' : sends'[i].at > Cutoff' /\ sends'[i].at <= clock'
    BY <1>1, <1>2, <1>3 DEF InTurn
  <1>5. ASSUME NEW i \in DOMAIN sends', NEW j \in DOMAIN sends', i < j
        PROVE  /\ sends'[i].at <= sends'[j].at
               /\ sends'[i].by = sends'[j].by => sends'[i].at <= sends'[j].charged
    <2>1. i \in DOMAIN sends
      <3>1. \A k \in DOMAIN sends' : k \in Int /\ k <= n
        BY <1>1, <1>2 DEF SendsShape, n
      <3> QED
        BY <1>2, <1>5, <3>1
    <2>2. CASE j = n
      BY <1>1, <1>2, <2>1, <2>2 DEF InTurn
    <2>3. CASE j \in DOMAIN sends
      BY <1>2, <1>5, <2>1, <2>3 DEF InTurn
    <2> QED
      BY <1>2, <2>2, <2>3
  <1>6. ASSUME NEW g \in Requests, req'[g].pc = "charged", NEW i \in DOMAIN sends',
               sends'[i].by = g
        PROVE  sends'[i].at <= charged'[g]
    <2>1. g # h /\ req[g].pc = "charged" /\ charged'[g] = charged[g]
      BY <1>1, <1>6 DEF TypeInv
    <2> QED
      BY <1>2, <1>6, <2>1 DEF InTurn
  <1> QED
    BY <1>4, <1>5, <1>6 DEF InTurn

LEMMA TurnAges ==
    ASSUME TypeInv, InTurn, TypeInv', Tick
    PROVE  InTurn'
  <1>1. SendsShape /\ UNCHANGED <<req, charged>> /\ clock' = clock + 1
    BY SendsAre DEF Tick
  <1>2. SendsShape'
    <2>1. TypeInv' => SendsShape'
      BY SendsAre, PTL
    <2> QED
      BY <2>1
  <1>3. PICK m \in Nat : Trimmed(sends', sends, Cutoff', m)
    BY SendsAge
  <1>4. /\ \A i \in DOMAIN sends' : i + m \in DOMAIN sends /\ sends'[i] = sends[i + m]
        /\ Len(sends') = Len(sends) - m
        /\ m < Len(sends) => sends[m + 1].at > Cutoff'
    BY <1>1, <1>2, <1>3 DEF Trimmed, SendsShape
  <1>5. ASSUME NEW i \in DOMAIN sends'
        PROVE  sends'[i].at > Cutoff' /\ sends'[i].at <= clock'
    <2>1. /\ i \in 1 .. Len(sends') /\ i + m \in DOMAIN sends /\ sends'[i] = sends[i + m]
          /\ m + 1 \in DOMAIN sends /\ m < Len(sends)
      BY <1>1, <1>2, <1>4 DEF SendsShape
    <2>2. /\ m + 1 <= i + m /\ sends[m + 1].at > Cutoff' /\ sends[m + 1].at \in Int
          /\ sends[i + m].at \in Int /\ Cutoff' \in Int /\ clock \in Int
          /\ sends[i + m].at <= clock
      BY <1>1, <1>2, <1>4, <2>1 DEF SendsShape, InTurn
    <2>3. sends[m + 1].at <= sends[i + m].at
      <3>1. CASE i = 1
        BY <2>2, <3>1
      <3>2. CASE i # 1
        <4>1. m + 1 < i + m
          BY <2>1, <3>2
        <4> QED
          BY <2>1, <4>1 DEF InTurn
      <3> QED
        BY <3>1, <3>2
    <2> QED
      BY <1>1, <2>1, <2>2, <2>3
  <1>6. ASSUME NEW i \in DOMAIN sends', NEW j \in DOMAIN sends', i < j
        PROVE  /\ sends'[i].at <= sends'[j].at
               /\ sends'[i].by = sends'[j].by => sends'[i].at <= sends'[j].charged
    <2>1. i + m < j + m /\ i + m \in DOMAIN sends /\ j + m \in DOMAIN sends
      BY <1>2, <1>4, <1>6 DEF SendsShape
    <2> QED
      BY <1>4, <2>1 DEF InTurn
  <1>7. ASSUME NEW g \in Requests, req'[g].pc = "charged", NEW i \in DOMAIN sends',
               sends'[i].by = g
        PROVE  sends'[i].at <= charged'[g]
    BY <1>1, <1>4, <1>7 DEF InTurn
  <1> QED
    BY <1>5, <1>6, <1>7 DEF InTurn

LEMMA TurnNext == TypeInv /\ InTurn /\ TypeInv' /\ [Next]_vars => InTurn'
  <1> SUFFICES ASSUME TypeInv, InTurn, TypeInv', [Next]_vars PROVE InTurn'
    OBVIOUS
  <1>1. ASSUME UNCHANGED <<clock, sends>>,
               \A g \in Requests : req'[g].pc = "charged" =>
                 \/ req[g].pc = "charged" /\ charged'[g] = charged[g]
                 \/ charged'[g] = clock
        PROVE  InTurn'
    <2>1. Cutoff' = Cutoff
      BY <1>1 DEF Cutoff
    <2> QED
      BY <1>1, <2>1 DEF InTurn
  <1>2. ASSUME NEW h \in Requests, Arrive(h) PROVE InTurn'
    <2>1. PICK p, ip, r : Arrives(h, p, ip, r)
      BY <1>2, ArriveIs
    <2> QED
      BY <1>1, <2>1 DEF Arrives, TypeInv
  <1>3. ASSUME NEW h \in Requests, Charge(h) PROVE InTurn'
    <2>1. PICK payer, mine, all : Charges(h, payer, mine, all)
      BY <1>3, ChargeIs
    <2>2. CASE mine.allowed /\ all.allowed
      BY <1>1, <2>1, <2>2 DEF Charges, TypeInv
    <2>3. CASE ~(mine.allowed /\ all.allowed)
      BY <1>1, <2>1, <2>3 DEF Charges, TypeInv, Idle
    <2> QED
      BY <2>2, <2>3
  <1>4. ASSUME NEW h \in Requests, Send(h) PROVE InTurn'
    BY <1>4, TurnSent
  <1>5. CASE Tick
    BY <1>5, TurnAges
  <1>6. ASSUME NEW h \in Requests, Fail(h) \/ Succeed(h) \/ Unrelated(h) PROVE InTurn'
    <2>1. /\ req' = [req EXCEPT ![h] = Idle] /\ charged' = [charged EXCEPT ![h] = 0]
          /\ UNCHANGED <<clock, sends>>
      BY <1>6, EndsIs
    <2> QED
      BY <1>1, <2>1 DEF TypeInv, Idle
  <1>7. ASSUME NEW h \in Requests, Turned(h) PROVE InTurn'
    BY <1>1, <1>7 DEF Turned, TypeInv, Idle, history
  <1>8. CASE UNCHANGED vars
    BY <1>1, <1>8 DEF vars, history
  <1> QED
    BY <1>2, <1>3, <1>4, <1>5, <1>6, <1>7, <1>8 DEF Next

(***************************************************************************)
(* The budgets hold in every window, wherever it ends, for any requests    *)
(* that overlap and any payers: of the submissions that leave in it, those *)
(* charged in it are never more than the global budget has, nor of one     *)
(* payer more than the payer's cap, and those charged before it are one    *)
(* of each request at most.                                                *)
(***************************************************************************)
THEOREM BudgetsHold == Spec => []SpendWithinBudget
  <1>1. Spec => []TypeInv
    BY TypesHoldAtFirst, TypesHoldNext, PTL DEF Spec
  <1>2. Spec => []SpendInv
    BY <1>1, SpendAtFirst, SpendNext, PTL DEF Spec
  <1>3. Init => InTurn
    BY DEF Init, InTurn, Idle
  <1>4. Spec => []InTurn
    BY <1>1, <1>3, TurnNext, PTL DEF Spec
  <1>5. SpendInv /\ InTurn => SpendWithinBudget
    <2> SUFFICES ASSUME SpendInv, InTurn PROVE SpendWithinBudget
      OBVIOUS
    <2>1. SendsShape /\ TypeInv
      BY SendsAre DEF SpendInv
    <2>2. ASSUME NEW I, NEW S, IsFiniteSet(S), NEW max \in Int, Cardinality(S) <= max,
                 \A i \in I : Out(i) \in S
          PROVE  Cardinality(I) <= max
      <3> DEFINE f == [i \in I |-> Out(i)]
      <3>1. f \in Injection(I, S)
        BY <2>2, TokensAre DEF Injection, IsInjective
      <3>2. IsFiniteSet(I) /\ Cardinality(I) <= Cardinality(S)
        BY <2>2, <3>1, FS_Injection
      <3> QED
        BY <2>2, <3>2, FS_CardinalityType
    <2>3. ASSUME RateLimit.maxGlobal > 0
          PROVE  Cardinality(Timely) <= RateLimit.maxGlobal
      <3>1. /\ Covered(Spent, Spend, limiter.globalHits) /\ limiter.globalHits \in Seq(Clock)
            /\ Cardinality(Spent) <= RateLimit.maxGlobal
        BY <2>1, <2>3 DEF SpendInv, GlobalSpend, TypeInv, IsLimiter
      <3>2. IsFiniteSet(Spent)
        BY <3>1, CoveredCount
      <3> QED
        BY <2>2, <3>1, <3>2, SpentIs, ConstantsAre
    <2>4. ASSUME NEW p \in Payers, RateLimit.maxPerPayer > 0
          PROVE  Cardinality({i \in Timely : sends[i].payer = p}) <= RateLimit.maxPerPayer
      <3>1. /\ Covered(SpentBy(p), Spend, TimesOf(limiter, p))
            /\ TimesOf(limiter, p) \in Seq(Clock)
            /\ Cardinality(SpentBy(p)) <= RateLimit.maxPerPayer
        BY <2>1, <2>4, TimesAre DEF SpendInv, PayerSpend, TypeInv
      <3>2. IsFiniteSet(SpentBy(p))
        BY <3>1, CoveredCount
      <3>3. \A i \in {k \in Timely : sends[k].payer = p} : Out(i) \in SpentBy(p)
        BY SpentIs, TokensAre DEF SpentBy
      <3> HIDE DEF SpentBy
      <3> QED
        BY <2>2, <3>1, <3>2, <3>3, ConstantsAre
    <2>5. ASSUME NEW i \in Late, NEW j \in Late, sends[i].by = sends[j].by
          PROVE  i = j
      <3>1. ASSUME NEW k \in Late, NEW l \in Late, k < l, sends[k].by = sends[l].by
            PROVE  FALSE
        <4>1. k \in DOMAIN sends /\ l \in DOMAIN sends /\ sends[l].charged <= Cutoff
          BY DEF Late, Cutoff
        <4>2. sends[k].at > Cutoff /\ sends[k].at <= sends[l].charged
          BY <3>1, <4>1 DEF InTurn
        <4>3. sends[k].at \in Int /\ sends[l].charged \in Int /\ Cutoff \in Int
          BY <2>1, <4>1 DEF SendsShape
        <4> QED
          BY <4>1, <4>2, <4>3
      <3>2. i \in Int /\ j \in Int
        BY <2>1 DEF Late, SendsShape
      <3> QED
        BY <2>5, <3>1, <3>2
    <2> QED
      BY <2>3, <2>4, <2>5 DEF SpendWithinBudget
  <1> QED
    BY <1>2, <1>4, <1>5, PTL

-----------------------------------------------------------------------------
(* The cooldown.  While one lasts the breaker is open at least as long, so *)
(* no request arrives, and the submissions of the cooldown are of requests *)
(* that had arrived: fewer than all, for one had just failed.              *)

Waiting == {h \in Requests : req[h].pc \in {"validate", "charged"}}

CoolInv ==
    /\ TypeInv
    /\ CooldownHolds
    /\ clock < cooled =>
         /\ BreakerConfig.threshold > 0 /\ cooled <= breaker.openUntil
         /\ shed + Cardinality(Waiting) < Cardinality(Requests)

LEMMA RequestsCount ==
    /\ IsFiniteSet(Requests) /\ Cardinality(Requests) \in Nat /\ Cardinality(Requests) > 0
    /\ \A W \in SUBSET Requests :
         /\ IsFiniteSet(W) /\ Cardinality(W) \in Nat
         /\ \A h \in W : Cardinality(W \ {h}) = Cardinality(W) - 1
         /\ \A V \in SUBSET W : Cardinality(V) <= Cardinality(W)
         /\ W # Requests => Cardinality(W) < Cardinality(Requests)
  <1>1. IsFiniteSet(Requests) /\ Cardinality(Requests) \in Nat /\ Cardinality(Requests) # 0
    BY RequestsAssumption, FS_CardinalityType, FS_EmptySet
  <1>2. ASSUME NEW W \in SUBSET Requests
        PROVE  /\ IsFiniteSet(W) /\ Cardinality(W) \in Nat
               /\ \A h \in W : Cardinality(W \ {h}) = Cardinality(W) - 1
               /\ \A V \in SUBSET W : Cardinality(V) <= Cardinality(W)
               /\ W # Requests => Cardinality(W) < Cardinality(Requests)
    <2>1. IsFiniteSet(W) /\ Cardinality(W) \in Nat
      BY <1>1, FS_Subset, FS_CardinalityType
    <2>2. \A h \in W : Cardinality(W \ {h}) = Cardinality(W) - 1
      BY <2>1, FS_RemoveElement
    <2>3. \A V \in SUBSET W : Cardinality(V) <= Cardinality(W)
      BY <2>1, FS_Subset
    <2>4. W # Requests => Cardinality(W) < Cardinality(Requests)
      BY <1>1, <2>1, FS_Subset
    <2> QED
      BY <2>1, <2>2, <2>3, <2>4
  <1> QED
    BY <1>1, <1>2

LEMMA CoolAtFirst == Init => CoolInv
  <1> SUFFICES ASSUME Init PROVE CoolInv
    OBVIOUS
  <1>1. clock = 0 /\ cooled = 0 /\ shed = 0
    BY DEF Init
  <1> QED
    BY <1>1, TypesHoldAtFirst, RequestsCount DEF CoolInv, CooldownHolds

LEMMA CoolNext == CoolInv /\ TypeInv' /\ [Next]_vars => CoolInv'
  <1> SUFFICES ASSUME CoolInv, TypeInv', [Next]_vars PROVE CoolInv'
    OBVIOUS
  <1>1. /\ TypeInv /\ shed < Cardinality(Requests)
        /\ clock \in Int /\ clock' \in Int /\ cooled \in Nat /\ cooled' \in Nat
        /\ shed \in Nat /\ shed' \in Nat /\ breaker.openUntil \in Nat
    <2>1. ASSUME TypeInv PROVE clock \in Int /\ cooled \in Nat /\ shed \in Nat /\ breaker.openUntil \in Nat
      BY <2>1, ConstantsAre DEF TypeInv
    <2>2. clock' \in Int /\ cooled' \in Nat /\ shed' \in Nat
      BY ConstantsAre DEF TypeInv
    <2> QED
      BY <2>1, <2>2 DEF CoolInv, CooldownHolds
  <1>2. /\ Waiting \in SUBSET Requests /\ Cardinality(Waiting) \in Nat
        /\ Waiting' \in SUBSET Requests /\ Cardinality(Waiting') \in Nat
    BY RequestsCount DEF Waiting
  <1>3. ASSUME clock < cooled
        PROVE  /\ BreakerConfig.threshold > 0 /\ cooled <= breaker.openUntil
               /\ shed + Cardinality(Waiting) < Cardinality(Requests)
    BY <1>3 DEF CoolInv
  <1>4. ASSUME NEW h \in Requests, Arrive(h) PROVE CoolInv'
    <2>1. PICK p, ip, r : Arrives(h, p, ip, r)
      BY <1>1, <1>4, ArriveIs
    <2>2. ~IsOpen(breaker, clock, BreakerConfig) /\ UNCHANGED <<clock, cooled, shed>>
      BY <2>1 DEF Arrives
    <2>3. ~(clock < cooled)
      BY <1>1, <1>3, <2>2, ConstantsAre DEF IsOpen
    <2> QED
      BY <1>1, <2>2, <2>3 DEF CoolInv, CooldownHolds
  <1>5. ASSUME NEW h \in Requests, Charge(h) \/ Turned(h) PROVE CoolInv'
    <2>1. req[h].pc = "validate" /\ UNCHANGED <<clock, cooled, shed, breaker>>
      BY <1>5 DEF Charge, Turned, history
    <2>2. req' = [req EXCEPT ![h].pc = "charged"] \/ req' = [req EXCEPT ![h] = Idle]
      <3>1. CASE Charge(h)
        <4>1. PICK payer, mine, all : Charges(h, payer, mine, all)
          BY <1>1, <3>1, ChargeIs
        <4> QED
          BY <4>1 DEF Charges
      <3>2. CASE Turned(h)
        BY <3>2 DEF Turned
      <3> QED
        BY <1>5, <3>1, <3>2
    <2>3. Waiting' \in SUBSET Waiting
      <3>1. CASE req' = [req EXCEPT ![h].pc = "charged"]
        BY <1>1, <2>1, <3>1 DEF Waiting, TypeInv
      <3>2. CASE req' = [req EXCEPT ![h] = Idle]
        BY <1>1, <3>2 DEF Waiting, TypeInv, Idle
      <3> QED
        BY <2>2, <3>1, <3>2
    <2>4. Cardinality(Waiting') <= Cardinality(Waiting)
      BY <1>2, <2>3, RequestsCount
    <2> QED
      BY <1>1, <1>2, <1>3, <2>1, <2>4, RequestsCount DEF CoolInv, CooldownHolds
  <1>13. ASSUME NEW h \in Requests, Send(h) PROVE CoolInv'
    <2>1. /\ req[h].pc = "charged" /\ req' = [req EXCEPT ![h].pc = "sent"]
          /\ UNCHANGED <<clock, cooled, breaker>>
          /\ shed' = IF clock < cooled THEN shed + 1 ELSE shed
      BY <1>13 DEF Send
    <2>2. h \in Waiting /\ Waiting' = Waiting \ {h}
      BY <1>1, <2>1 DEF Waiting, TypeInv
    <2>3. Cardinality(Waiting') = Cardinality(Waiting) - 1
      BY <1>2, <2>2, RequestsCount
    <2>4. CASE clock < cooled
      <3>1. shed' = shed + 1 /\ Cardinality(Waiting) >= 1
        BY <1>2, <2>1, <2>3, <2>4
      <3>2. shed' + Cardinality(Waiting') < Cardinality(Requests) /\ shed' < Cardinality(Requests)
        BY <1>1, <1>2, <1>3, <2>3, <2>4, <3>1, RequestsCount
      <3> QED
        BY <1>3, <2>1, <2>4, <3>2 DEF CoolInv, CooldownHolds
    <2>5. CASE ~(clock < cooled)
      BY <1>1, <2>1, <2>5 DEF CoolInv, CooldownHolds
    <2> QED
      BY <2>4, <2>5
  <1>6. ASSUME NEW h \in Requests, Fail(h) \/ Succeed(h) \/ Unrelated(h)
        PROVE  /\ Cardinality(Waiting') <= Cardinality(Waiting)
               /\ Cardinality(Waiting') < Cardinality(Requests)
    <2>1. req' = [req EXCEPT ![h] = Idle]
      BY <1>6, EndsIs
    <2>2. Waiting' \in SUBSET Waiting /\ h \notin Waiting'
      BY <1>1, <2>1 DEF Waiting, TypeInv, Idle
    <2> QED
      BY <1>2, <2>2, RequestsCount
  <1>7. ASSUME NEW h \in Requests, Fail(h) PROVE CoolInv'
    <2> DEFINE trips == breaker'.countArm = << >> /\ BreakerConfig.threshold > 0
    <2>1. /\ Failed(breaker, breaker') /\ clock' = clock
          /\ IF trips
             THEN /\ cooled' = clock + BreakerConfig.cooldownMs
                  /\ shed' = IF clock < cooled THEN shed ELSE 0
             ELSE UNCHANGED <<cooled, shed>>
          /\ Cardinality(Waiting') <= Cardinality(Waiting)
          /\ Cardinality(Waiting') < Cardinality(Requests)
      BY <1>1, <1>6, <1>7, FailIs DEF Fails, Fail
    <2>2. CASE trips
      <3>1. /\ breaker'.openUntil = clock + BreakerConfig.cooldownMs
            /\ cooled' = clock + BreakerConfig.cooldownMs
            /\ shed' = IF clock < cooled THEN shed ELSE 0
        BY <2>1, <2>2 DEF Failed
      <3>2. cooled' <= breaker'.openUntil
        BY <1>1, <3>1
      <3>3. shed' + Cardinality(Waiting') < Cardinality(Requests) /\ shed' < Cardinality(Requests)
        BY <1>1, <1>2, <1>3, <2>1, <3>1, RequestsCount
      <3> QED
        BY <2>1, <2>2, <3>2, <3>3 DEF CoolInv, CooldownHolds
    <2>3. CASE ~trips
      <3>1. UNCHANGED <<cooled, shed>>
        BY <2>1, <2>3
      <3>2. BreakerConfig.threshold > 0 => breaker'.openUntil = breaker.openUntil
        BY <2>1, <2>3 DEF Failed
      <3> QED
        BY <1>1, <1>2, <1>3, <2>1, <3>1, <3>2, RequestsCount DEF CoolInv, CooldownHolds
    <2> QED
      BY <2>2, <2>3
  <1>8. ASSUME NEW h \in Requests, Succeed(h) \/ Unrelated(h) PROVE CoolInv'
    <2>1. /\ Cardinality(Waiting') <= Cardinality(Waiting)
          /\ UNCHANGED <<clock, cooled, shed>>
      BY <1>6, <1>8 DEF Succeed, Unrelated
    <2>2. breaker'.openUntil = breaker.openUntil
      <3>1. CASE Succeed(h)
        BY <1>1, <3>1, RecordSuccessIs DEF Succeed, Succeeded, TypeInv, Breaker
      <3>2. CASE Unrelated(h)
        BY <3>2 DEF Unrelated
      <3> QED
        BY <1>8, <3>1, <3>2
    <2> QED
      BY <1>1, <1>2, <1>3, <2>1, <2>2, RequestsCount DEF CoolInv, CooldownHolds
  <1>10. ASSUME UNCHANGED <<cooled, shed, breaker, req>>, clock' \in {clock, clock + 1}
         PROVE  CoolInv'
    <2>1. Waiting' = Waiting /\ (clock' < cooled' => clock < cooled)
      BY <1>1, <1>10 DEF Waiting
    <2> QED
      BY <1>1, <1>3, <1>10, <2>1 DEF CoolInv, CooldownHolds
  <1>11. CASE Tick
    BY <1>10, <1>11 DEF Tick
  <1>12. CASE UNCHANGED vars
    BY <1>10, <1>12 DEF vars, history
  <1> QED
    BY <1>4, <1>5, <1>7, <1>8, <1>11, <1>12, <1>13 DEF Next

(***************************************************************************)
(* A cooldown is kept, for any number of requests and any breaker: only    *)
(* submissions whose requests had arrived before it leave while it lasts,  *)
(* whatever outcomes come late, and the requests that failed are not among *)
(* them.                                                                   *)
(***************************************************************************)
THEOREM CooldownIsKept == Spec => []CooldownHolds
  <1>1. Spec => []TypeInv
    BY TypesHoldAtFirst, TypesHoldNext, PTL DEF Spec
  <1>2. CoolInv => CooldownHolds
    BY DEF CoolInv
  <1>3. Spec => []CoolInv
    BY <1>1, CoolAtFirst, CoolNext, PTL DEF Spec
  <1> QED
    BY <1>2, <1>3, PTL

-----------------------------------------------------------------------------
(* The map.  A bucket holds no time after its key was last looked at, and  *)
(* no key was last looked at a window or more before the sweep: the sweep  *)
(* drops the buckets with nothing in the window, the others were looked at.*)

NoneAfter(times, moment) == \A i \in DOMAIN times : times[i] <= moment

MapInv ==
    /\ TypeInv
    /\ limiter.lastSweepAt <= clock
    /\ \A k \in DOMAIN limiter.perKey :
         /\ seen[k] <= clock
         /\ seen[k] > limiter.lastSweepAt - RateLimit.windowMs
         /\ NoneAfter(limiter.perKey[k], seen[k])

\* what a step may never do to the map
KeepsBound ==
    limiter'.perKey # limiter.perKey =>
      \A k \in DOMAIN limiter'.perKey :
        /\ limiter'.lastSweepAt > clock - RateLimit.windowMs
        /\ seen'[k] > limiter'.lastSweepAt - RateLimit.windowMs

LEMMA MapAtFirst == Init => MapInv
  <1> SUFFICES ASSUME Init PROVE MapInv
    OBVIOUS
  <1>1. limiter.perKey = << >> /\ limiter.lastSweepAt = -RateLimit.windowMs /\ clock = 0
    BY DEF Init, NewLimiter
  <1>2. DOMAIN << >> = {}
    OBVIOUS
  <1> QED
    BY <1>1, <1>2, TypesHoldAtFirst, ConstantsAre DEF MapInv

\* pruning keeps the times that were there, and none up to the cutoff
LEMMA PrunedTimes ==
    ASSUME clock \in Clock, NEW times \in Seq(Clock), NEW moment \in Int, NoneAfter(times, moment),
           NEW left, left = Prune(times, clock, RateLimit.windowMs)
    PROVE  /\ left \in Seq(Clock) /\ NoneAfter(left, moment)
           /\ left # << >> => moment > clock - RateLimit.windowMs
  <1>1. clock \in Int /\ RateLimit.windowMs \in Int /\ Clock \subseteq Int
    BY ConstantsAre
  <1>2. left \in Seq(Clock)
    BY <1>1, PruneIs
  <1>3. PICK n \in Nat : Leaves(left, times, clock - RateLimit.windowMs, n)
    <2>1. \E n \in Nat : Leaves(Prune(times, clock, RateLimit.windowMs), times,
                               clock - RateLimit.windowMs, n)
      BY <1>1, PruneIs
    <2> QED
      BY <2>1
  <1>4. /\ Len(times) \in Nat /\ DOMAIN times = 1 .. Len(times)
        /\ Len(left) \in Nat /\ DOMAIN left = 1 .. Len(left)
        /\ \A i \in 1 .. Len(times) : times[i] \in Int
    BY <1>1, <1>2, LenProperties, ElementOfSeq
  <1>5. ASSUME NEW i \in DOMAIN left PROVE n + i \in DOMAIN times /\ left[i] = times[n + i]
    <2>1. /\ n <= Len(times) /\ Len(left) = Len(times) - n
          /\ \A j \in 1 .. Len(left) : left[j] = times[n + j]
      BY <1>3 DEF Leaves
    <2> QED
      BY <1>4, <2>1
  <1>6. NoneAfter(left, moment)
    BY <1>5 DEF NoneAfter
  <1>7. ASSUME left # << >> PROVE moment > clock - RateLimit.windowMs
    <2>1. Len(left) > 0
      BY <1>2, <1>4, <1>7, EmptySeq
    <2>2. left[1] > clock - RateLimit.windowMs
      <3>1. clock - RateLimit.windowMs \in Int
        BY <1>1
      <3> QED
        BY <1>1, <1>2, <1>3, <2>1, <3>1, LeftIsYoung
    <2>3. 1 \in DOMAIN left
      BY <1>4, <2>1
    <2>4. left[1] <= moment /\ left[1] \in Int
      BY <1>4, <1>5, <1>6, <2>3 DEF NoneAfter
    <2> QED
      BY <1>1, <2>2, <2>4
  <1> QED
    BY <1>2, <1>6, <1>7

LEMMA MapStep ==
    ASSUME MapInv, TypeInv', NEW r, NEW entries,
           IsAnswer(r, limiter, entries, clock, RateLimit.windowMs, Clock),
           limiter'.perKey = r.limiter.perKey, limiter'.lastSweepAt = r.limiter.lastSweepAt,
           Looked(r.looked), clock' = clock
    PROVE  MapInv' /\ KeepsBound
  <1>1. /\ TypeInv /\ clock \in Clock /\ clock \in Int /\ IsLimiter(limiter, Clock)
        /\ limiter.lastSweepAt \in Int /\ limiter.lastSweepAt <= clock
        /\ RateLimit.windowMs \in Int /\ RateLimit.windowMs > 0
        /\ \A k \in DOMAIN limiter.perKey : seen[k] \in Int
    <2>1. TypeInv /\ limiter.lastSweepAt <= clock
      BY DEF MapInv
    <2>2. clock \in Clock /\ IsLimiter(limiter, Clock)
      BY <2>1 DEF TypeInv
    <2>3. limiter.lastSweepAt \in Int
      BY <2>2 DEF IsLimiter
    <2>4. \A k \in DOMAIN limiter.perKey : seen[k] \in Int
      BY <2>1, ConstantsAre DEF TypeInv
    <2>5. clock \in Int /\ RateLimit.windowMs \in Int /\ RateLimit.windowMs > 0
      BY <2>2, ConstantsAre
    <2> QED
      BY <2>1, <2>2, <2>3, <2>4, <2>5
  <1>2. /\ r.looked \subseteq DOMAIN r.limiter.perKey
        /\ DOMAIN r.limiter.perKey \subseteq DOMAIN limiter.perKey \cup r.looked
        /\ \/ r.limiter = limiter
           \/ /\ r.limiter.lastSweepAt = limiter.lastSweepAt
              /\ limiter.lastSweepAt > clock - RateLimit.windowMs
           \/ /\ r.limiter.lastSweepAt = clock
              /\ \A key \in DOMAIN r.limiter.perKey \ r.looked :
                   /\ r.limiter.perKey[key] # << >>
                   /\ r.limiter.perKey[key] = Prune(TimesOf(limiter, key), clock, RateLimit.windowMs)
        /\ \A key : Charged(limiter, r, clock, RateLimit.windowMs, key)
    BY DEF IsAnswer
  <1>3. \A k \in DOMAIN limiter'.perKey : seen'[k] = IF k \in r.looked THEN clock ELSE seen[k]
    BY DEF Looked
  <1>4. ASSUME NEW k, NEW moment \in Int, NoneAfter(TimesOf(limiter, k), moment)
        PROVE  LET left == Prune(TimesOf(limiter, k), clock, RateLimit.windowMs)
               IN  /\ left \in Seq(Clock) /\ NoneAfter(left, moment)
                   /\ left # << >> => moment > clock - RateLimit.windowMs
    <2>1. TimesOf(limiter, k) \in Seq(Clock)
      BY <1>1, TimesAre
    <2> QED
      BY <1>1, <1>4, <2>1, PrunedTimes
  <1>5. \A k \in DOMAIN r.limiter.perKey : r.limiter.perKey[k] = TimesOf(r.limiter, k)
    BY DEF TimesOf
  <1>6. ASSUME NEW k \in DOMAIN limiter'.perKey
        PROVE  /\ seen'[k] <= clock
               /\ seen'[k] > limiter'.lastSweepAt - RateLimit.windowMs
               /\ NoneAfter(limiter'.perKey[k], seen'[k])
    <2> DEFINE left == Prune(TimesOf(limiter, k), clock, RateLimit.windowMs)
    <2>1. CASE k \in r.looked
      <3>1. seen'[k] = clock
        BY <1>3, <2>1
      <3>2. NoneAfter(TimesOf(limiter, k), clock)
        <4>1. CASE k \in DOMAIN limiter.perKey
          <5>1. /\ TimesOf(limiter, k) = limiter.perKey[k] /\ seen[k] <= clock /\ seen[k] \in Int
                /\ NoneAfter(limiter.perKey[k], seen[k])
            BY <1>1, <4>1 DEF MapInv, TimesOf
          <5>2. TimesOf(limiter, k) \in Seq(Clock)
            BY <1>1, TimesAre
          <5>3. \A i \in DOMAIN TimesOf(limiter, k) : TimesOf(limiter, k)[i] \in Int
            BY <5>2, ElementOfSeq, LenProperties, ConstantsAre
          <5> QED
            BY <1>1, <5>1, <5>3 DEF NoneAfter
        <4>2. CASE k \notin DOMAIN limiter.perKey
          <5>1. TimesOf(limiter, k) = << >> /\ DOMAIN << >> = {}
            BY <4>2 DEF TimesOf
          <5> QED
            BY <5>1 DEF NoneAfter
        <4> QED
          BY <4>1, <4>2
      <3>3. left \in Seq(Clock) /\ NoneAfter(left, clock)
        BY <1>1, <1>4, <3>2
      <3>4. NoneAfter(Append(left, clock), clock)
        <4> HIDE DEF left
        <4>1. /\ DOMAIN Append(left, clock) = 1 .. (Len(left) + 1) /\ Len(left) \in Nat
              /\ \A i \in 1 .. Len(left) : Append(left, clock)[i] = left[i]
              /\ Append(left, clock)[Len(left) + 1] = clock
              /\ DOMAIN left = 1 .. Len(left)
          BY <1>1, <3>3, AppendProperties, LenProperties
        <4>2. \A i \in 1 .. (Len(left) + 1) : i \in 1 .. Len(left) \/ i = Len(left) + 1
          BY <4>1
        <4> QED
          BY <1>1, <3>3, <4>1, <4>2 DEF NoneAfter
      <3>5. NoneAfter(limiter'.perKey[k], clock)
        BY <1>2, <1>5, <3>2, <3>3, <3>4 DEF Charged
      <3>6. clock > limiter'.lastSweepAt - RateLimit.windowMs
        BY <1>1, <1>2
      <3> QED
        BY <1>1, <3>1, <3>5, <3>6
    <2>2. CASE k \notin r.looked
      <3>1. /\ seen'[k] = seen[k] /\ k \in DOMAIN limiter.perKey /\ seen[k] <= clock
            /\ seen[k] > limiter.lastSweepAt - RateLimit.windowMs
            /\ seen[k] \in Int /\ NoneAfter(TimesOf(limiter, k), seen[k])
        BY <1>1, <1>2, <1>3, <2>2 DEF MapInv, TimesOf
      <3>2. /\ left \in Seq(Clock) /\ NoneAfter(left, seen[k])
            /\ left # << >> => seen[k] > clock - RateLimit.windowMs
        BY <1>4, <3>1
      <3>3. NoneAfter(limiter'.perKey[k], seen[k])
        BY <1>2, <1>5, <2>2, <3>1, <3>2 DEF Charged
      <3>4. seen[k] > limiter'.lastSweepAt - RateLimit.windowMs
        BY <1>2, <2>2, <3>1, <3>2
      <3> QED
        BY <3>1, <3>3, <3>4
    <2> QED
      BY <2>1, <2>2
  <1>7. limiter'.lastSweepAt <= clock'
    BY <1>1, <1>2
  <1>8. MapInv'
    BY <1>6, <1>7 DEF MapInv
  <1>9. limiter'.perKey # limiter.perKey => limiter'.lastSweepAt > clock - RateLimit.windowMs
    BY <1>1, <1>2
  <1> QED
    BY <1>6, <1>8, <1>9 DEF KeepsBound

LEMMA MapNext == MapInv /\ TypeInv' /\ [Next]_vars => MapInv' /\ KeepsBound
  <1> SUFFICES ASSUME MapInv, TypeInv', [Next]_vars PROVE MapInv' /\ KeepsBound
    OBVIOUS
  <1>1. TypeInv
    BY DEF MapInv
  <1>2. ASSUME NEW h \in Requests, Arrive(h) PROVE MapInv' /\ KeepsBound
    <2>1. PICK p, ip, r : Arrives(h, p, ip, r)
      BY <1>1, <1>2, ArriveIs
    <2> QED
      BY <2>1, MapStep DEF Arrives
  <1>3. ASSUME NEW h \in Requests, Charge(h) PROVE MapInv' /\ KeepsBound
    <2>1. PICK payer, mine, all : Charges(h, payer, mine, all)
      BY <1>1, <1>3, ChargeIs
    <2>2. /\ limiter'.perKey = mine.limiter.perKey
          /\ limiter'.lastSweepAt = mine.limiter.lastSweepAt
      BY <2>1 DEF Charges, IsGlobalAnswer
    <2> QED
      BY <2>1, <2>2, MapStep DEF Charges
  <1>4. ASSUME UNCHANGED <<limiter, seen>>, clock' \in {clock, clock + 1}
        PROVE  MapInv' /\ KeepsBound
    <2>1. /\ clock \in Int /\ limiter.lastSweepAt \in Int
          /\ \A k \in DOMAIN limiter.perKey : seen[k] \in Int
      BY <1>1, ConstantsAre DEF TypeInv, IsLimiter
    <2>2. MapInv'
      BY <1>4, <2>1 DEF MapInv
    <2> QED
      BY <1>4, <2>2 DEF KeepsBound
  <1>5. ASSUME NEW h \in Requests, Turned(h) \/ Send(h) \/ Fail(h) \/ Succeed(h)
                                     \/ Unrelated(h)
        PROVE  MapInv' /\ KeepsBound
    BY <1>4, <1>5 DEF Turned, Send, Fail, Succeed, Unrelated
  <1>6. CASE Tick
    BY <1>4, <1>6 DEF Tick
  <1>7. CASE UNCHANGED vars
    BY <1>4, <1>7 DEF vars
  <1> QED
    BY <1>2, <1>3, <1>5, <1>6, <1>7 DEF Next

(***************************************************************************)
(* The limiter's map is bounded by the callers of the last two windows, for*)
(* any keys and any window: whatever call takes a time, a key that was not *)
(* looked at within a window of the sweep is gone.                         *)
(***************************************************************************)
THEOREM MapStaysBounded == Spec => MapIsBounded
  <1>1. Spec => []TypeInv
    BY TypesHoldAtFirst, TypesHoldNext, PTL DEF Spec
  <1>2. MapInv /\ TypeInv' /\ [Next]_vars => MapInv'
    BY MapNext
  <1>3. Spec => []MapInv
    BY <1>1, <1>2, MapAtFirst, PTL DEF Spec
  <1>4. MapInv /\ TypeInv' /\ [Next]_vars
          => [limiter'.perKey # limiter.perKey =>
                \A k \in DOMAIN limiter'.perKey :
                  /\ limiter'.lastSweepAt > clock - RateLimit.windowMs
                  /\ seen'[k] > limiter'.lastSweepAt - RateLimit.windowMs]_vars
    BY MapNext DEF KeepsBound
  <1> QED
    BY <1>1, <1>3, <1>4, PTL DEF Spec, MapIsBounded

-----------------------------------------------------------------------------
(* The breaker.  Its lists and the outcomes of the window say the same:    *)
(* each outcome of the window has a time of its own in the list of its     *)
(* kind, and each time of the window is of an outcome of its own.          *)

Young(times, now) == {j \in DOMAIN times : times[j] > now - BreakerConfig.windowMs}

Sorted(times) == \A i, j \in DOMAIN times : i <= j => times[i] <= times[j]

\* the times of J are each of an event of I
Witnessed(J, times, I, events) ==
    \E g \in [J -> I] :
      /\ \A i, j \in J : g[i] = g[j] => i = j
      /\ \A j \in J : events[g[j]].at = times[j]

Backed(times, I, events, now) ==
    /\ times \in Times /\ Sorted(times) /\ NoneAfter(times, now)
    /\ Witnessed(Young(times, now), times, I, events)

LEMMA WitnessedCount ==
    ASSUME NEW J, NEW times, NEW I, NEW events, Witnessed(J, times, I, events), IsFiniteSet(I)
    PROVE  Cardinality(J) <= Cardinality(I)
  <1>1. PICK g \in [J -> I] : \A i, j \in J : g[i] = g[j] => i = j
    BY DEF Witnessed
  <1>2. g \in Injection(J, I)
    BY <1>1 DEF Injection, IsInjective
  <1> QED
    BY <1>2, FS_Injection

\* times that moved down by p, some of them
LEMMA WitnessedFewer ==
    ASSUME NEW J, NEW times, NEW I, NEW events, Witnessed(J, times, I, events), J \subseteq Int,
           NEW p \in Int, NEW K, K \subseteq Int,
           NEW left, \A j \in K : j + p \in J /\ left[j] = times[j + p],
           NEW more, \A i \in I : more[i].at = events[i].at
    PROVE  Witnessed(K, left, I, more)
  <1>1. PICK g \in [J -> I] : /\ \A i, j \in J : g[i] = g[j] => i = j
                             /\ \A j \in J : events[g[j]].at = times[j]
    BY DEF Witnessed
  <1> DEFINE f == [j \in K |-> g[j + p]]
  <1>2. f \in [K -> I] /\ \A j \in K : f[j] = g[j + p]
    BY <1>1
  <1> HIDE DEF f
  <1>3. ASSUME NEW i \in K, NEW j \in K, f[i] = f[j] PROVE i = j
    <2>1. i + p \in J /\ j + p \in J /\ g[i + p] = g[j + p]
      BY <1>2, <1>3
    <2>2. i + p = j + p
      BY <1>1, <2>1, Zenon
    <2> QED
      BY <2>2
  <1>4. \A j \in K : more[f[j]].at = left[j]
    BY <1>1, <1>2
  <1> QED
    BY <1>2, <1>3, <1>4 DEF Witnessed

\* a time more, and its event
LEMMA WitnessedNew ==
    ASSUME NEW J, NEW times, NEW I, NEW events, NEW q, NEW longer, NEW k, NEW more,
           Witnessed(J, times, I, events), q \notin J, k \notin I,
           \A j \in J : longer[j] = times[j],
           \A i \in I : more[i].at = events[i].at,
           more[k].at = longer[q]
    PROVE  Witnessed(J \cup {q}, longer, I \cup {k}, more)
  <1>1. PICK g \in [J -> I] : /\ \A i, j \in J : g[i] = g[j] => i = j
                             /\ \A j \in J : events[g[j]].at = times[j]
    BY DEF Witnessed
  <1> DEFINE f == [j \in J \cup {q} |-> IF j = q THEN k ELSE g[j]]
  <1>2. /\ f \in [J \cup {q} -> I \cup {k}] /\ f[q] = k
        /\ \A j \in J : f[j] = g[j] /\ g[j] \in I
    BY <1>1
  <1> HIDE DEF f
  <1>3. \A i, j \in J \cup {q} : f[i] = f[j] => i = j
    BY <1>1, <1>2
  <1>4. \A j \in J \cup {q} : more[f[j]].at = longer[j]
    BY <1>1, <1>2
  <1> QED
    BY <1>2, <1>3, <1>4 DEF Witnessed

\* the events of these times moved down by m
Moved(K, times, I, events, m, H, rest) ==
    \A j \in K, i \in I : events[i].at = times[j] =>
      i - m \in H /\ rest[i - m].at = events[i].at

\* the events moved down by m, and the times of those that went are not asked for
LEMMA WitnessedLater ==
    ASSUME NEW J, NEW times, NEW I, NEW events, NEW m, NEW K, NEW H, NEW rest,
           Witnessed(J, times, I, events), I \subseteq Int, m \in Int, K \subseteq J,
           Moved(K, times, I, events, m, H, rest)
    PROVE  Witnessed(K, times, H, rest)
  <1>1. PICK g \in [J -> I] : /\ \A i, j \in J : g[i] = g[j] => i = j
                             /\ \A j \in J : events[g[j]].at = times[j]
    BY DEF Witnessed
  <1> DEFINE f == [j \in K |-> g[j] - m]
  <1>2. \A j \in K : /\ f[j] = g[j] - m /\ g[j] \in Int
                     /\ g[j] - m \in H /\ rest[g[j] - m].at = times[j]
    BY <1>1 DEF Moved
  <1>3. f \in [K -> H]
    BY <1>2
  <1> HIDE DEF f
  <1>4. ASSUME NEW i \in K, NEW j \in K, f[i] = f[j] PROVE i = j
    <2>1. g[i] = g[j]
      BY <1>2, <1>4
    <2> QED
      BY <1>1, <2>1
  <1>5. \A j \in K : rest[f[j]].at = times[j]
    BY <1>2
  <1> QED
    BY <1>3, <1>4, <1>5 DEF Witnessed

\* of sorted times, pruning leaves those of the window and no others
Window(left, times, now, p) ==
    /\ left \in Times /\ p \in 0 .. Len(times) /\ Len(left) = Len(times) - p
    /\ DOMAIN left = 1 .. Len(left) /\ Len(left) \in Nat /\ Len(times) \in Nat
    /\ DOMAIN times = 1 .. Len(times)
    /\ \A j \in 1 .. Len(left) : /\ j + p \in 1 .. Len(times) /\ left[j] = times[j + p]
                                /\ left[j] > now - BreakerConfig.windowMs
    /\ \A j \in 1 .. p : times[j] <= now - BreakerConfig.windowMs
    /\ \A j \in 1 .. Len(times) : times[j] \in Int

LEMMA WindowIs ==
    ASSUME NEW now \in Clock, NEW times \in Times, Sorted(times)
    PROVE  \E p \in Nat : Window(Prune(times, now, BreakerConfig.windowMs), times, now, p)
  <1> DEFINE cutoff == now - BreakerConfig.windowMs
  <1>1. /\ times \in Seq(Clock) /\ now \in Int /\ BreakerConfig.windowMs \in Int
        /\ Clock \subseteq Int /\ Times = Seq(Clock) /\ cutoff \in Int
    BY ConstantsAre DEF Times, Clock
  <1>2. ASSUME NEW left, left = Prune(times, now, BreakerConfig.windowMs)
        PROVE  \E p \in Nat : Window(left, times, now, p)
    <2>1. left \in Seq(Clock)
      BY <1>1, <1>2, PruneIs
    <2>2. PICK p \in Nat : Leaves(left, times, cutoff, p)
      <3>1. \E p \in Nat : Leaves(Prune(times, now, BreakerConfig.windowMs), times,
                                 now - BreakerConfig.windowMs, p)
        BY <1>1, PruneIs
      <3> QED
        BY <1>2, <3>1
    <2>3. /\ Len(left) \in Nat /\ DOMAIN left = 1 .. Len(left)
          /\ Len(times) \in Nat /\ DOMAIN times = 1 .. Len(times)
          /\ \A j \in 1 .. Len(times) : times[j] \in Int
      BY <1>1, <2>1, LenProperties, ElementOfSeq
    <2>4. /\ p \in 0 .. Len(times) /\ Len(left) = Len(times) - p
          /\ \A j \in 1 .. Len(left) : left[j] = times[p + j]
          /\ \A j \in 1 .. p : times[j] <= cutoff
          /\ p < Len(times) => times[p + 1] > cutoff
      BY <2>2 DEF Leaves
    <2>5. ASSUME NEW j \in 1 .. Len(left)
          PROVE  /\ j + p \in 1 .. Len(times) /\ left[j] = times[j + p] /\ left[j] > cutoff
      <3>1. /\ j + p \in 1 .. Len(times) /\ p + 1 \in 1 .. Len(times) /\ p + 1 <= j + p
            /\ p < Len(times) /\ p + j = j + p
        BY <2>3, <2>4
      <3>2. times[p + 1] <= times[j + p]
        BY <2>3, <3>1 DEF Sorted
      <3> QED
        BY <1>1, <2>3, <2>4, <3>1, <3>2, SMTT(30)
    <2> QED
      BY <1>1, <2>1, <2>3, <2>4, <2>5 DEF Window
  <1> QED
    BY <1>2

LEMMA BackedEmpty ==
    ASSUME NEW I, NEW events, NEW now
    PROVE  Backed(<< >>, I, events, now)
  <1>1. << >> \in Times /\ DOMAIN << >> = {}
    BY EmptySeq DEF Times
  <1>2. Young(<< >>, now) = {}
    BY <1>1 DEF Young
  <1>3. Witnessed({}, << >>, I, events)
    <2>1. [j \in {} |-> j] \in [{} -> I]
      OBVIOUS
    <2> QED
      BY <2>1 DEF Witnessed
  <1> QED
    BY <1>1, <1>2, <1>3 DEF Backed, Sorted, NoneAfter

\* the times that leave
LEMMA BackedFewer ==
    ASSUME NEW now, NEW times, NEW I, NEW events, NEW left, NEW p, NEW more,
           now \in Clock, Backed(times, I, events, now), left \in Times, p \in Nat,
           \A j \in DOMAIN left : j + p \in DOMAIN times /\ left[j] = times[j + p],
           \A i \in I : more[i].at = events[i].at
    PROVE  Backed(left, I, more, now)
  <1>1. /\ DOMAIN left \subseteq Int /\ DOMAIN times \subseteq Int
    <2>1. DOMAIN left = 1 .. Len(left) /\ DOMAIN times = 1 .. Len(times)
      BY LenProperties DEF Backed, Times
    <2> QED
      BY <2>1
  <1>2. Sorted(left)
    <2> SUFFICES ASSUME NEW i \in DOMAIN left, NEW j \in DOMAIN left, i <= j
                 PROVE  left[i] <= left[j]
      BY DEF Sorted
    <2>1. i + p <= j + p /\ i + p \in DOMAIN times /\ j + p \in DOMAIN times
      BY <1>1
    <2> QED
      BY <2>1 DEF Backed, Sorted
  <1>3. NoneAfter(left, now)
    BY DEF Backed, NoneAfter
  <1>4. \A j \in Young(left, now) : j + p \in Young(times, now) /\ left[j] = times[j + p]
    BY DEF Young
  <1>5. Young(left, now) \subseteq Int /\ Young(times, now) \subseteq Int
    BY <1>1 DEF Young
  <1>6. Witnessed(Young(left, now), left, I, more)
    <2>1. Witnessed(Young(times, now), times, I, events)
      BY DEF Backed
    <2> QED
      BY <1>4, <1>5, <2>1, WitnessedFewer
  <1> QED
    BY <1>2, <1>3, <1>6 DEF Backed

LEMMA BackedPruned ==
    ASSUME NEW now, NEW times, NEW I, NEW events, NEW more,
           now \in Clock, Backed(times, I, events, now),
           \A i \in I : more[i].at = events[i].at
    PROVE  Backed(Prune(times, now, BreakerConfig.windowMs), I, more, now)
  <1>1. times \in Times /\ Sorted(times)
    BY DEF Backed
  <1>2. PICK p \in Nat : Window(Prune(times, now, BreakerConfig.windowMs), times, now, p)
    BY <1>1, WindowIs
  <1>3. ASSUME NEW left, Window(left, times, now, p) PROVE Backed(left, I, more, now)
    <2>1. /\ left \in Times
          /\ \A j \in DOMAIN left : j + p \in DOMAIN times /\ left[j] = times[j + p]
      BY <1>3 DEF Window
    <2> QED
      BY <2>1, BackedFewer
  <1> QED
    BY <1>2, <1>3

\* as many events as times left
LEMMA BackedCount ==
    ASSUME NEW now \in Clock, NEW times, NEW I, NEW events, Backed(times, I, events, now),
           IsFiniteSet(I)
    PROVE  Len(Prune(times, now, BreakerConfig.windowMs)) <= Cardinality(I)
  <1>1. times \in Times /\ Sorted(times)
    BY DEF Backed
  <1>2. PICK p \in Nat : Window(Prune(times, now, BreakerConfig.windowMs), times, now, p)
    BY <1>1, WindowIs
  <1>3. ASSUME NEW left, Window(left, times, now, p), Backed(left, I, events, now)
        PROVE  Len(left) <= Cardinality(I)
    <2>1. Young(left, now) = 1 .. Len(left) /\ Len(left) \in Nat
      BY <1>3 DEF Window, Young
    <2>2. Cardinality(1 .. Len(left)) = Len(left)
      <3>1. Cardinality(1 .. Len(left)) = IF 1 > Len(left) THEN 0 ELSE Len(left) - 1 + 1
        BY <2>1, FS_Interval
      <3> QED
        BY <2>1, <3>1
    <2>3. Witnessed(Young(left, now), left, I, events)
      BY <1>3 DEF Backed
    <2>4. Cardinality(Young(left, now)) <= Cardinality(I)
      BY <2>3, WitnessedCount
    <2> QED
      BY <2>1, <2>2, <2>4
  <1>4. Backed(Prune(times, now, BreakerConfig.windowMs), I, events, now)
    BY BackedPruned
  <1> QED
    BY <1>2, <1>3, <1>4

\* an outcome more, and its time
LEMMA BackedNew ==
    ASSUME NEW now, NEW left, NEW I, NEW events, NEW k, NEW more,
           now \in Clock, Backed(left, I, events, now), k \notin I,
           \A i \in I : more[i].at = events[i].at, more[k].at = now
    PROVE  Backed(Append(left, now), I \cup {k}, more, now)
  <1> DEFINE q == Len(left) + 1
             longer == Append(left, now)
  <1>1. /\ left \in Seq(Clock) /\ Times = Seq(Clock) /\ now \in Int
        /\ BreakerConfig.windowMs \in Nat /\ BreakerConfig.windowMs > 0
    BY ConstantsAre, LimitsAssumption DEF Backed, Times, Clock
  <1>2. /\ Len(left) \in Nat /\ DOMAIN left = 1 .. Len(left)
        /\ longer \in Seq(Clock) /\ DOMAIN longer = 1 .. (Len(left) + 1)
        /\ \A j \in 1 .. Len(left) : longer[j] = left[j]
        /\ longer[q] = now
    BY <1>1, AppendProperties, LenProperties
  <1> HIDE DEF longer
  <1>3. DOMAIN longer = DOMAIN left \cup {q} /\ q \notin DOMAIN left
    BY <1>2
  <1>4. \A j \in DOMAIN left : longer[j] = left[j] /\ left[j] <= now /\ j < q /\ j \in Int
    BY <1>2 DEF Backed, NoneAfter
  <1> HIDE DEF q
  <1>5. Young(longer, now) = Young(left, now) \cup {q} /\ q \notin Young(left, now)
    BY <1>1, <1>2, <1>3, <1>4 DEF Young
  <1>6. NoneAfter(longer, now)
    BY <1>1, <1>2, <1>3, <1>4 DEF NoneAfter
  <1>7. Sorted(longer)
    <2> SUFFICES ASSUME NEW i \in DOMAIN longer, NEW j \in DOMAIN longer, i <= j
                 PROVE  longer[i] <= longer[j]
      BY DEF Sorted
    <2>1. CASE j = q
      BY <1>6, <2>1, <1>2 DEF NoneAfter
    <2>2. CASE i = q /\ j # q
      <3>1. j < q /\ j \in Int /\ q \in Int
        BY <1>2, <1>3, <1>4, <2>2 DEF q
      <3> QED
        BY <2>2, <3>1
    <2>3. CASE i # q /\ j # q
      BY <1>3, <1>4, <2>3 DEF Backed, Sorted
    <2> QED
      BY <2>1, <2>2, <2>3
  <1>8. Witnessed(Young(left, now) \cup {q}, longer, I \cup {k}, more)
    <2>1. Witnessed(Young(left, now), left, I, events)
      BY DEF Backed
    <2>2. \A j \in Young(left, now) : longer[j] = left[j]
      BY <1>4 DEF Young
    <2> QED
      <3>1. q \notin Young(left, now) /\ more[k].at = longer[q]
        BY <1>2, <1>5
      <3> QED
        BY <2>1, <2>2, <3>1, WitnessedNew
  <1> QED
    BY <1>1, <1>2, <1>5, <1>6, <1>7, <1>8 DEF Backed, longer

LEMMA BackedTail ==
    ASSUME NEW now, NEW times, NEW I, NEW events, NEW more, NEW left,
           now \in Clock, Backed(times, I, events, now), \A i \in I : more[i].at = events[i].at,
           left = IF times = << >> THEN << >> ELSE Tail(times)
    PROVE  Backed(left, I, more, now)
  <1>1. CASE times = << >>
    BY <1>1, BackedEmpty
  <1>2. CASE times # << >>
    <2>1. /\ times \in Seq(Clock) /\ Times = Seq(Clock) /\ left = Tail(times)
      BY <1>2 DEF Backed, Times, Clock
    <2>2. /\ left \in Seq(Clock) /\ Len(left) = Len(times) - 1
          /\ \A j \in 1 .. Len(left) : left[j] = times[j + 1]
      BY <1>2, <2>1, HeadTailProperties
    <2>3. /\ Len(left) \in Nat /\ DOMAIN left = 1 .. Len(left)
          /\ Len(times) \in Nat /\ DOMAIN times = 1 .. Len(times)
      BY <2>1, <2>2, LenProperties
    <2>4. \A j \in DOMAIN left : j + 1 \in DOMAIN times /\ left[j] = times[j + 1]
      BY <2>2, <2>3
    <2>5. PICK p \in Nat : p = 1
      OBVIOUS
    <2>6. \A j \in DOMAIN left : j + p \in DOMAIN times /\ left[j] = times[j + p]
      BY <2>4, <2>5
    <2>7. left \in Times
      BY <2>1, <2>2
    <2>8. ASSUME NEW fewer \in Times, NEW n \in Nat,
                 \A j \in DOMAIN fewer : j + n \in DOMAIN times /\ fewer[j] = times[j + n]
          PROVE  Backed(fewer, I, more, now)
      BY <2>8, BackedFewer
    <2> QED
      BY <2>6, <2>7, <2>8
  <1> QED
    BY <1>1, <1>2

\* the run of unspent failures that ends the outcomes ends the count arm
Trails(times, events, U) ==
    \A n \in 0 .. Len(events) : n + 1 .. Len(events) \subseteq U =>
      /\ Len(times) - Len(events) + n >= 0
      /\ \A i \in n + 1 .. Len(events) :
           times[Len(times) - Len(events) + i] = events[i].at

LEMMA TrailsNone ==
    ASSUME NEW times, NEW events, NEW U, Len(times) \in Nat, Len(events) \in Nat,
           Len(events) \notin U
    PROVE  Trails(times, events, U)
  <1> SUFFICES ASSUME NEW n \in 0 .. Len(events), n + 1 .. Len(events) \subseteq U
               PROVE  /\ Len(times) - Len(events) + n >= 0
                      /\ \A i \in n + 1 .. Len(events) :
                           times[Len(times) - Len(events) + i] = events[i].at
    BY DEF Trails
  <1>1. n = Len(events)
    <2>1. SUFFICES ASSUME n # Len(events) PROVE FALSE
      OBVIOUS
    <2>2. Len(events) \in n + 1 .. Len(events)
      BY <2>1
    <2> QED
      BY <2>2
  <1> QED
    BY <1>1

\* what the run that ends the outcomes makes of the count arm once pruned
LEMMA TrailsPruned ==
    ASSUME NEW times, NEW events, NEW U, NEW now, NEW left, NEW p, NEW n,
           now \in Clock, Window(left, times, now, p), Trails(times, events, U), Len(events) \in Nat,
           n \in 0 .. Len(events), n + 1 .. Len(events) \subseteq U,
           \A i \in U : events[i].at > now - BreakerConfig.windowMs /\ events[i].at \in Int
    PROVE  /\ Len(left) - Len(events) + n >= 0
           /\ \A i \in n + 1 .. Len(events) :
                left[Len(left) - Len(events) + i] = events[i].at
  <1>1. /\ Len(times) \in Nat /\ p \in 0 .. Len(times) /\ Len(left) = Len(times) - p
        /\ Len(left) \in Nat
        /\ \A j \in 1 .. Len(left) : left[j] = times[j + p]
        /\ \A j \in 1 .. p : times[j] <= now - BreakerConfig.windowMs
        /\ \A j \in 1 .. Len(times) : times[j] \in Int
    BY DEF Window
  <1>2. /\ Len(times) - Len(events) + n >= 0
        /\ \A i \in n + 1 .. Len(events) :
             times[Len(times) - Len(events) + i] = events[i].at
    BY DEF Trails
  <1>3. now - BreakerConfig.windowMs \in Int
    BY ConstantsAre
  <1>4. ASSUME NEW i \in n + 1 .. Len(events)
        PROVE  /\ Len(times) - Len(events) + i > p
               /\ left[Len(left) - Len(events) + i] = events[i].at
    <2> DEFINE j == Len(times) - Len(events) + i
    <2>1. j \in 1 .. Len(times) /\ i \in U /\ i \in Int
      BY <1>1, <1>2
    <2>2. times[j] > now - BreakerConfig.windowMs /\ times[j] \in Int
      BY <1>2, <2>1
    <2>3. ~(j \in 1 .. p)
      BY <1>1, <1>3, <2>2
    <2>4. /\ Len(left) - Len(events) + i \in 1 .. Len(left)
          /\ (Len(left) - Len(events) + i) + p = j
      BY <1>1, <2>1, <2>3
    <2>5. left[Len(left) - Len(events) + i] = times[j]
      BY <1>1, <2>4
    <2>6. j > p
      BY <1>1, <2>1, <2>3
    <2> QED
      BY <1>2, <2>5, <2>6
  <1>5. Len(left) - Len(events) + n >= 0
    <2>1. CASE n = Len(events)
      BY <1>1, <2>1
    <2>2. CASE n # Len(events)
      <3>1. n + 1 \in n + 1 .. Len(events)
        BY <2>2
      <3>2. Len(times) - Len(events) + (n + 1) > p
        BY <1>4, <3>1
      <3> QED
        BY <1>1, <3>2
    <2> QED
      BY <2>1, <2>2
  <1> QED
    BY <1>4, <1>5

\* a failure more, and its time
Extended(more, V, events, U, now) ==
    /\ Len(events) \in Nat /\ Len(more) = Len(events) + 1 /\ more[Len(more)].at = now
    /\ \A i \in U : events[i].at > now - BreakerConfig.windowMs /\ events[i].at \in Int
    /\ \A i \in 1 .. Len(events) : i \in V => i \in U /\ more[i].at = events[i].at

LEMMA TrailsNew ==
    ASSUME NEW times, NEW events, NEW U, NEW now, NEW left, NEW p,
           NEW more, NEW V,
           now \in Clock, Window(left, times, now, p), Trails(times, events, U),
           Extended(more, V, events, U, now)
    PROVE  Trails(Append(left, now), more, V)
  <1> DEFINE longer == Append(left, now)
  <1>0. /\ Len(events) \in Nat /\ Len(more) = Len(events) + 1 /\ more[Len(more)].at = now
        /\ \A i \in U : events[i].at > now - BreakerConfig.windowMs /\ events[i].at \in Int
        /\ \A i \in 1 .. Len(events) : i \in V => i \in U /\ more[i].at = events[i].at
    BY DEF Extended
  <1> SUFFICES ASSUME NEW n \in 0 .. Len(more), n + 1 .. Len(more) \subseteq V
               PROVE  /\ Len(longer) - Len(more) + n >= 0
                      /\ \A i \in n + 1 .. Len(more) :
                           longer[Len(longer) - Len(more) + i] = more[i].at
    BY DEF Trails, longer
  <1>1. /\ Len(left) \in Nat /\ Len(longer) = Len(left) + 1
        /\ \A j \in 1 .. Len(left) : longer[j] = left[j]
        /\ longer[Len(left) + 1] = now
    <2>1. left \in Seq(Clock) /\ Len(left) \in Nat
      BY DEF Window, Times, Clock
    <2> QED
      BY <2>1, AppendProperties
  <1> HIDE DEF longer
  <1>2. CASE n = Len(more)
    BY <1>0, <1>1, <1>2
  <1>3. CASE n # Len(more)
    <2>1. n \in 0 .. Len(events) /\ n + 1 .. Len(events) \subseteq U
      <3>1. n \in 0 .. Len(events)
        BY <1>0, <1>3
      <3>2. \A i \in n + 1 .. Len(events) : i \in n + 1 .. Len(more) /\ i \in 1 .. Len(events)
        BY <1>0, <3>1
      <3> QED
        BY <1>0, <3>1, <3>2
    <2>2. /\ Len(left) - Len(events) + n >= 0
          /\ \A i \in n + 1 .. Len(events) :
               left[Len(left) - Len(events) + i] = events[i].at
      BY <1>0, <2>1, TrailsPruned
    <2>3. ASSUME NEW i \in n + 1 .. Len(more)
          PROVE  longer[Len(longer) - Len(more) + i] = more[i].at
      <3>1. Len(longer) - Len(more) + i = Len(left) - Len(events) + i
        BY <1>0, <1>1
      <3>2. CASE i = Len(more)
        <4>1. Len(longer) - Len(more) + i = Len(left) + 1
          BY <1>0, <1>1, <3>2
        <4> QED
          BY <1>0, <1>1, <3>2, <4>1
      <3>3. CASE i # Len(more)
        <4>1. /\ i \in n + 1 .. Len(events) /\ i \in 1 .. Len(events) /\ i \in V
              /\ Len(left) - Len(events) + i \in 1 .. Len(left)
          BY <1>0, <1>1, <2>1, <2>2, <3>3
        <4> QED
          BY <1>0, <1>1, <2>2, <3>1, <4>1
      <3> QED
        BY <3>2, <3>3
    <2>4. Len(longer) - Len(more) + n >= 0
      BY <1>0, <1>1, <2>2
    <2> QED
      BY <2>3, <2>4
  <1> QED
    BY <1>2, <1>3

\* the outcomes but the first m
LEMMA TrailsLater ==
    ASSUME NEW times, NEW events, NEW U, NEW rest, NEW V, NEW m,
           m \in Nat, Trails(times, events, U), Len(events) \in Nat, Len(rest) \in Nat, Len(times) \in Nat,
           Len(rest) = Len(events) - m,
           \A i \in V : i + m \in U /\ rest[i].at = events[i + m].at
    PROVE  Trails(times, rest, V)
  <1> SUFFICES ASSUME NEW n \in 0 .. Len(rest), n + 1 .. Len(rest) \subseteq V
               PROVE  /\ Len(times) - Len(rest) + n >= 0
                      /\ \A i \in n + 1 .. Len(rest) :
                           times[Len(times) - Len(rest) + i] = rest[i].at
    BY DEF Trails
  <1> DEFINE l == n + m
  <1>1. l \in 0 .. Len(events) /\ l \in Int
    OBVIOUS
  <1>2. ASSUME NEW i \in l + 1 .. Len(events) PROVE i \in U
    <2>1. i - m \in n + 1 .. Len(rest) /\ (i - m) + m = i
      BY <1>1
    <2> QED
      BY <2>1
  <1>3. /\ Len(times) - Len(events) + l >= 0
        /\ \A i \in l + 1 .. Len(events) :
             times[Len(times) - Len(events) + i] = events[i].at
    <2> HIDE DEF l
    <2> QED
      BY <1>1, <1>2 DEF Trails
  <1>4. ASSUME NEW i \in n + 1 .. Len(rest)
        PROVE  times[Len(times) - Len(rest) + i] = rest[i].at
    <2>1. /\ i + m \in l + 1 .. Len(events) /\ i \in V
          /\ Len(times) - Len(events) + (i + m) = Len(times) - Len(rest) + i
      BY <1>1
    <2> QED
      BY <1>3, <2>1
  <1> QED
    BY <1>3, <1>4

\* a list that has the time of every event of I, and no other of the window
Exact(times, I, events, now) ==
    Backed(times, I, events, now) /\ Covered(I, events, times)

LEMMA ExactPruned ==
    ASSUME NEW now, NEW times, NEW I, NEW events, NEW more,
           now \in Clock, Exact(times, I, events, now),
           \A i \in I : events[i].at > now - BreakerConfig.windowMs /\ more[i].at = events[i].at
    PROVE  /\ Exact(Prune(times, now, BreakerConfig.windowMs), I, more, now)
           /\ IsFiniteSet(I)
           /\ Len(Prune(times, now, BreakerConfig.windowMs)) = Cardinality(I)
  <1> DEFINE left == Prune(times, now, BreakerConfig.windowMs)
  <1>1. /\ times \in Seq(Clock) /\ Clock \subseteq Int /\ now \in Int
        /\ BreakerConfig.windowMs \in Int
    BY ConstantsAre DEF Exact, Backed, Times, Clock
  <1>2. Covered(I, events, times) /\ Backed(times, I, events, now)
    BY DEF Exact
  <1>3. left \in Seq(Clock)
    BY <1>1, PruneIs
  <1>4. Covered(I, events, left) /\ IsFiniteSet(I) /\ Cardinality(I) <= Len(left)
    BY <1>1, <1>2, CoveredPruned
  <1>5. Len(left) <= Cardinality(I)
    BY <1>2, <1>4, BackedCount
  <1>6. Backed(left, I, more, now)
    BY <1>2, BackedPruned
  <1> HIDE DEF left
  <1>7. Covered(I, more, left)
    BY <1>4, CoveredSame
  <1>8. Len(left) = Cardinality(I)
    <2>1. Len(left) \in Nat /\ Cardinality(I) \in Nat
      BY <1>3, <1>4, LenProperties, FS_CardinalityType
    <2> QED
      BY <1>4, <1>5, <2>1
  <1> QED
    BY <1>4, <1>6, <1>7, <1>8 DEF Exact, left

LEMMA ExactNew ==
    ASSUME NEW now, NEW left, NEW I, NEW events, NEW k, NEW more,
           now \in Clock, Exact(left, I, events, now), k \notin I,
           \A i \in I : more[i].at = events[i].at, more[k].at = now
    PROVE  Exact(Append(left, now), I \cup {k}, more, now)
  <1>1. Backed(left, I, events, now) /\ Covered(I, events, left) /\ left \in Seq(Clock)
    BY DEF Exact, Backed, Times, Clock
  <1>2. Backed(Append(left, now), I \cup {k}, more, now)
    BY <1>1, BackedNew
  <1>3. Covered(I \cup {k}, more, Append(left, now))
    BY <1>1, CoveredNew
  <1> QED
    BY <1>2, <1>3 DEF Exact

Bad == {i \in DOMAIN outcomes : outcomes[i].failed}
Good == {i \in DOMAIN outcomes : ~outcomes[i].failed}
Unspent == {i \in Bad : ~outcomes[i].spent}

OutcomesShape ==
    /\ Len(outcomes) \in Nat /\ DOMAIN outcomes = 1 .. Len(outcomes)
    /\ \A i \in DOMAIN outcomes :
         /\ outcomes[i].at \in Int /\ outcomes[i].failed \in BOOLEAN
         /\ outcomes[i].spent \in BOOLEAN
    /\ Bad \subseteq DOMAIN outcomes /\ Good \subseteq DOMAIN outcomes /\ Unspent \subseteq Bad
    /\ IsFiniteSet(DOMAIN outcomes) /\ IsFiniteSet(Bad) /\ IsFiniteSet(Good)
    /\ IsFiniteSet(Unspent)
    /\ clock \in Clock /\ clock \in Int /\ breaker \in Breaker

OutcomesRecent ==
    /\ \A i \in DOMAIN outcomes : /\ outcomes[i].at > clock - BreakerConfig.windowMs
                                  /\ outcomes[i].at <= clock
    /\ \A i, j \in DOMAIN outcomes : i <= j => outcomes[i].at <= outcomes[j].at

ToldInv ==
    /\ TypeInv /\ OutcomesRecent
    /\ Exact(breaker.failures, Bad, outcomes, clock)
    /\ Exact(breaker.successes, Good, outcomes, clock)
    /\ Backed(breaker.countArm, Unspent, outcomes, clock)
    /\ Trails(breaker.countArm, outcomes, Unspent)

LEMMA OutcomesAre == TypeInv => OutcomesShape
  <1> SUFFICES ASSUME TypeInv PROVE OutcomesShape
    OBVIOUS
  <1>1. /\ Len(outcomes) \in Nat /\ DOMAIN outcomes = 1 .. Len(outcomes)
        /\ \A i \in 1 .. Len(outcomes) : outcomes[i] \in Record
    BY LenProperties, ElementOfSeq DEF TypeInv
  <1>2. \A i \in DOMAIN outcomes : /\ outcomes[i].at \in Int /\ outcomes[i].failed \in BOOLEAN
                                  /\ outcomes[i].spent \in BOOLEAN
    BY <1>1, ConstantsAre DEF Record
  <1>3. Bad \subseteq DOMAIN outcomes /\ Good \subseteq DOMAIN outcomes /\ Unspent \subseteq Bad
    BY DEF Bad, Good, Unspent
  <1>4. IsFiniteSet(1 .. Len(outcomes))
    BY <1>1, FS_Interval
  <1>5. \A U \in SUBSET DOMAIN outcomes : IsFiniteSet(U)
    BY <1>1, <1>4, FS_Subset
  <1>6. clock \in Clock /\ clock \in Int /\ breaker \in Breaker
    BY ConstantsAre DEF TypeInv, Breaker
  <1> QED
    BY <1>1, <1>2, <1>3, <1>4, <1>5, <1>6 DEF OutcomesShape

LEMMA ToldAtFirst == Init => ToldInv
  <1> SUFFICES ASSUME Init PROVE ToldInv
    OBVIOUS
  <1>1. TypeInv
    BY TypesHoldAtFirst
  <1>2. outcomes = << >> /\ Len(outcomes) = 0 /\ DOMAIN outcomes = {}
    BY EmptySeq DEF Init
  <1>3. /\ breaker.failures = << >> /\ breaker.successes = << >> /\ breaker.countArm = << >>
    BY DEF Init, NewBreaker
  <1>4. Bad = {} /\ Good = {} /\ Unspent = {}
    BY <1>2 DEF Bad, Good, Unspent
  <1>5. \A I : Backed(<< >>, I, outcomes, clock)
    BY BackedEmpty
  <1>6. Covered({}, outcomes, << >>)
    <2>1. [x \in {} |-> x] \in [{} -> DOMAIN << >>]
      OBVIOUS
    <2> QED
      BY <2>1 DEF Covered
  <1>7. Trails(<< >>, outcomes, {})
    <2>1. Len(<< >>) \in Nat /\ Len(outcomes) \in Nat /\ Len(outcomes) \notin {}
      BY <1>2, EmptySeq
    <2> QED
      BY <2>1, TrailsNone
  <1>8. OutcomesRecent
    BY <1>2 DEF OutcomesRecent
  <1> QED
    BY <1>1, <1>3, <1>4, <1>5, <1>6, <1>7, <1>8 DEF ToldInv, Exact

\* an outcome is told; if it trips the breaker, it and all before it are spent
Tells(failed, trips) ==
    /\ clock' = clock /\ Len(outcomes') = Len(outcomes) + 1
    /\ \A i \in 1 .. Len(outcomes) :
         /\ outcomes'[i].failed = outcomes[i].failed /\ outcomes'[i].at = outcomes[i].at
         /\ outcomes'[i].spent = (outcomes[i].spent \/ trips)
    /\ outcomes'[Len(outcomes) + 1].failed = failed
    /\ outcomes'[Len(outcomes) + 1].at = clock
    /\ outcomes'[Len(outcomes) + 1].spent = trips

\* what it makes of the outcomes
After(failed, trips, k) ==
    /\ k = Len(outcomes) + 1 /\ Len(outcomes') = k /\ k \notin Bad /\ k \notin Good
    /\ outcomes'[k].at = clock
    /\ Bad' = IF failed THEN Bad \cup {k} ELSE Bad
    /\ Good' = IF failed THEN Good ELSE Good \cup {k}
    /\ Unspent' = IF trips THEN {} ELSE IF failed THEN Unspent \cup {k} ELSE Unspent
    /\ \A i \in 1 .. Len(outcomes) : outcomes'[i].at = outcomes[i].at
    /\ OutcomesRecent'

LEMMA AfterIs ==
    ASSUME NEW failed, NEW trips, failed \in BOOLEAN, trips \in BOOLEAN, ~failed => ~trips,
           OutcomesShape, OutcomesShape', OutcomesRecent, Tells(failed, trips)
    PROVE  \E k \in Nat : After(failed, trips, k)
  <1> DEFINE k == Len(outcomes) + 1
  <1>1. /\ Len(outcomes) \in Nat /\ DOMAIN outcomes = 1 .. Len(outcomes)
        /\ k \in Nat /\ DOMAIN outcomes' = 1 .. k /\ Len(outcomes') = k
        /\ k \notin DOMAIN outcomes /\ DOMAIN outcomes' = DOMAIN outcomes \cup {k}
        /\ clock' = clock /\ clock \in Int
    BY DEF OutcomesShape, Tells
  <1>2. /\ \A i \in DOMAIN outcomes :
              /\ outcomes'[i].failed = outcomes[i].failed /\ outcomes'[i].at = outcomes[i].at
              /\ outcomes'[i].spent = (outcomes[i].spent \/ trips)
        /\ outcomes'[k].failed = failed /\ outcomes'[k].at = clock /\ outcomes'[k].spent = trips
    BY <1>1 DEF Tells
  <1> HIDE DEF k
  <1>3. /\ Bad' = {i \in DOMAIN outcomes' : outcomes'[i].failed}
        /\ Good' = {i \in DOMAIN outcomes' : ~outcomes'[i].failed}
        /\ Unspent' = {i \in Bad' : ~outcomes'[i].spent}
    BY DEF Bad, Good, Unspent
  <1>4. /\ Bad' = IF failed THEN Bad \cup {k} ELSE Bad
        /\ Good' = IF failed THEN Good ELSE Good \cup {k}
        /\ k \notin Bad /\ k \notin Good /\ k \notin Unspent
    BY <1>1, <1>2, <1>3 DEF Bad, Good, Unspent
  <1>5. Unspent' = IF trips THEN {} ELSE IF failed THEN Unspent \cup {k} ELSE Unspent
    <2>1. CASE trips
      BY <1>1, <1>2, <1>3, <1>4, <2>1 DEF Bad
    <2>2. CASE ~trips
      BY <1>1, <1>2, <1>3, <1>4, <2>2 DEF Unspent, Bad
    <2> QED
      BY <2>1, <2>2
  <1>6. OutcomesRecent'
    <2>1. /\ \A i \in DOMAIN outcomes :
                outcomes[i].at > clock - BreakerConfig.windowMs /\ outcomes[i].at <= clock
          /\ \A i, j \in DOMAIN outcomes : i <= j => outcomes[i].at <= outcomes[j].at
          /\ BreakerConfig.windowMs > 0 /\ BreakerConfig.windowMs \in Int
      BY LimitsAssumption DEF OutcomesRecent
    <2>2. ASSUME NEW i \in DOMAIN outcomes'
          PROVE  outcomes'[i].at > clock' - BreakerConfig.windowMs /\ outcomes'[i].at <= clock'
      <3>1. CASE i = k
        BY <1>1, <1>2, <2>1, <3>1
      <3>2. CASE i # k
        <4>1. i \in DOMAIN outcomes
          BY <1>1, <3>2
        <4>2. outcomes'[i].at = outcomes[i].at /\ clock' = clock
          BY <1>1, <1>2, <4>1
        <4> QED
          BY <2>1, <4>1, <4>2
      <3> QED
        BY <3>1, <3>2
    <2>3. ASSUME NEW i \in DOMAIN outcomes', NEW j \in DOMAIN outcomes', i <= j
          PROVE  outcomes'[i].at <= outcomes'[j].at
      <3>1. CASE j = k
        BY <1>1, <1>2, <2>2, <3>1
      <3>2. CASE j # k
        <4>1. i \in DOMAIN outcomes /\ j \in DOMAIN outcomes
          BY <1>1, <2>3, <3>2 DEF k
        <4> QED
          BY <1>2, <2>1, <2>3, <4>1
      <3> QED
        BY <3>1, <3>2
    <2> QED
      BY <2>2, <2>3 DEF OutcomesRecent
  <1>7. \A i \in 1 .. Len(outcomes) : outcomes'[i].at = outcomes[i].at
    BY <1>1, <1>2
  <1>8. After(failed, trips, k)
    BY <1>1, <1>2, <1>4, <1>5, <1>6, <1>7 DEF After, k
  <1> QED
    BY <1>1, <1>8

\* the breaker is on: its threshold is positive
Guarded == BreakerConfig.threshold > 0

LEMMA TellsWhenFails ==
    ASSUME Guarded, TypeInv, TypeInv', NEW h, Fails(h)
    PROVE  Tells(TRUE, breaker'.countArm = << >>)
  <1> DEFINE told == Append(outcomes, [failed |-> TRUE, at |-> clock, spent |-> FALSE])
             trips == breaker'.countArm = << >> /\ BreakerConfig.threshold > 0
  <1>1. /\ told \in Seq(Record) /\ Len(outcomes') = Len(told) /\ clock' = clock
        /\ \A i \in 1 .. Len(told) :
             /\ outcomes'[i].failed = told[i].failed /\ outcomes'[i].at = told[i].at
             /\ outcomes'[i].spent = (told[i].spent \/ trips)
    BY DEF Fails
  <1>2. /\ Len(told) = Len(outcomes) + 1 /\ Len(outcomes) \in Nat
        /\ \A i \in 1 .. Len(outcomes) : told[i] = outcomes[i]
        /\ told[Len(outcomes) + 1] = [failed |-> TRUE, at |-> clock, spent |-> FALSE]
    <2>1. outcomes \in Seq(Record) /\ [failed |-> TRUE, at |-> clock, spent |-> FALSE] \in Record
      BY DEF TypeInv, Record
    <2> QED
      BY <2>1, AppendProperties, LenProperties
  <1> HIDE DEF told
  <1>3. trips <=> breaker'.countArm = << >>
    BY DEF Guarded
  <1>4. trips = (breaker'.countArm = << >>)
    BY <1>3
  <1> HIDE DEF trips
  <1>5. /\ told[Len(outcomes) + 1].failed = TRUE /\ told[Len(outcomes) + 1].at = clock
        /\ told[Len(outcomes) + 1].spent = FALSE
    BY <1>2
  <1>6. Len(outcomes) + 1 \in 1 .. Len(told) /\ \A i \in 1 .. Len(outcomes) : i \in 1 .. Len(told)
    BY <1>2
  <1> QED
    BY <1>1, <1>2, <1>4, <1>5, <1>6 DEF Tells

LEMMA TellsWhenSucceeds ==
    ASSUME TypeInv, NEW h, Succeed(h)
    PROVE  Tells(FALSE, FALSE)
  <1>1. outcomes' = Append(outcomes, [failed |-> FALSE, at |-> clock, spent |-> FALSE])
    BY DEF Succeed, Outcome
  <1>2. outcomes \in Seq(Record) /\ [failed |-> FALSE, at |-> clock, spent |-> FALSE] \in Record
    BY DEF TypeInv, Record
  <1>3. /\ Len(outcomes') = Len(outcomes) + 1
        /\ \A i \in 1 .. Len(outcomes) : outcomes'[i] = outcomes[i] /\ outcomes[i] \in Record
        /\ outcomes'[Len(outcomes) + 1] = [failed |-> FALSE, at |-> clock, spent |-> FALSE]
    BY <1>1, <1>2, AppendProperties, LenProperties, ElementOfSeq
  <1>4. clock' = clock
    BY DEF Succeed
  <1> QED
    BY <1>3, <1>4 DEF Tells, Record

\* the breaker's lists after a failure
LEMMA ListsAfterFailure ==
    ASSUME Guarded, ToldInv, TypeInv', Failed(breaker, breaker'), clock' = clock,
           NEW k \in Nat, After(TRUE, breaker'.countArm = << >>, k)
    PROVE  ToldInv'
  <1>1. /\ clock \in Clock /\ breaker \in Breaker /\ OutcomesShape /\ OutcomesRecent
        /\ Exact(breaker.failures, Bad, outcomes, clock)
        /\ Exact(breaker.successes, Good, outcomes, clock)
        /\ Backed(breaker.countArm, Unspent, outcomes, clock)
        /\ Trails(breaker.countArm, outcomes, Unspent)
    BY OutcomesAre DEF ToldInv, OutcomesShape
  <1>2. /\ breaker'.failures = Append(Prune(breaker.failures, clock, BreakerConfig.windowMs), clock)
        /\ breaker'.successes = Prune(breaker.successes, clock, BreakerConfig.windowMs)
        /\ breaker'.countArm \in {<< >>, Arm(breaker)}
    BY DEF Failed, Guarded
  <1>3. /\ k = Len(outcomes) + 1 /\ Len(outcomes') = k /\ k \notin Bad /\ k \notin Good
        /\ outcomes'[k].at = clock /\ Bad' = Bad \cup {k} /\ Good' = Good
        /\ Unspent' = IF breaker'.countArm = << >> THEN {} ELSE Unspent \cup {k}
        /\ OutcomesRecent'
    BY DEF After
  <1>4. /\ DOMAIN outcomes = 1 .. Len(outcomes) /\ Len(outcomes) \in Nat
        /\ \A i \in DOMAIN outcomes :
             /\ outcomes[i].at > clock - BreakerConfig.windowMs
             /\ outcomes[i].at \in Int /\ outcomes'[i].at = outcomes[i].at
        /\ Bad \subseteq DOMAIN outcomes /\ Good \subseteq DOMAIN outcomes
        /\ Unspent \subseteq Bad
    BY <1>1 DEF OutcomesShape, OutcomesRecent, After
  <1>5. Exact(breaker'.failures, Bad', outcomes', clock)
    <2>1. \A i \in Bad : /\ outcomes[i].at > clock - BreakerConfig.windowMs
                         /\ outcomes'[i].at = outcomes[i].at
      BY <1>4
    <2>2. Exact(Prune(breaker.failures, clock, BreakerConfig.windowMs), Bad, outcomes, clock)
      BY <1>1, <2>1, ExactPruned
    <2> QED
      BY <1>1, <1>2, <1>3, <2>1, <2>2, ExactNew
  <1>6. Exact(breaker'.successes, Good', outcomes', clock)
    <2>1. \A i \in Good : /\ outcomes[i].at > clock - BreakerConfig.windowMs
                          /\ outcomes'[i].at = outcomes[i].at
      BY <1>4
    <2> QED
      BY <1>1, <1>2, <1>3, <2>1, ExactPruned
  <1>7. CASE breaker'.countArm = << >>
    <2>1. Backed(breaker'.countArm, Unspent', outcomes', clock)
      BY <1>7, BackedEmpty
    <2>2. Trails(breaker'.countArm, outcomes', Unspent')
      BY <1>3, <1>7, TrailsNone, EmptySeq
    <2> QED
      BY <1>3, <1>5, <1>6, <2>1, <2>2 DEF ToldInv
  <1>8. CASE breaker'.countArm # << >>
    <2> DEFINE left == Prune(breaker.countArm, clock, BreakerConfig.windowMs)
    <2>1. breaker'.countArm = Append(left, clock) /\ Unspent' = Unspent \cup {k}
      BY <1>2, <1>3, <1>8 DEF Arm
    <2>2. /\ k \notin Unspent
          /\ \A i \in Unspent : /\ outcomes[i].at > clock - BreakerConfig.windowMs
                                /\ outcomes[i].at \in Int /\ outcomes'[i].at = outcomes[i].at
      BY <1>3, <1>4
    <2>3. Backed(left, Unspent, outcomes, clock)
      BY <1>1, BackedPruned
    <2>4. PICK p \in Nat : Window(left, breaker.countArm, clock, p)
      BY <1>1, WindowIs DEF Backed
    <2> HIDE DEF left
    <2>5. Backed(breaker'.countArm, Unspent', outcomes', clock)
      <3>1. /\ clock \in Clock /\ outcomes'[k].at = clock /\ k \notin Unspent
            /\ \A i \in Unspent : outcomes'[i].at = outcomes[i].at
        BY <1>1, <1>3, <2>2
      <3>2. Backed(Append(left, clock), Unspent \cup {k}, outcomes', clock)
        BY <2>3, <3>1, BackedNew
      <3> QED
        BY <2>1, <3>2
    <2>6. \A i \in 1 .. Len(outcomes) : i \in Unspent' => i \in Unspent /\ outcomes'[i].at = outcomes[i].at
      BY <1>3, <1>4, <2>1
    <2>7. Trails(breaker'.countArm, outcomes', Unspent')
      <3>1. Extended(outcomes', Unspent', outcomes, Unspent, clock)
        BY <1>3, <1>4, <2>2, <2>6 DEF Extended
      <3> QED
        BY <1>1, <2>1, <2>4, <3>1, TrailsNew
    <2> QED
      BY <1>3, <1>5, <1>6, <2>5, <2>7 DEF ToldInv
  <1> QED
    BY <1>7, <1>8

\* and after a success
LEMMA ListsAfterSuccess ==
    ASSUME Guarded, ToldInv, TypeInv', Succeeded(breaker, breaker'), clock' = clock,
           NEW k \in Nat, After(FALSE, FALSE, k)
    PROVE  ToldInv'
  <1>1. /\ clock \in Clock /\ breaker \in Breaker /\ OutcomesShape /\ OutcomesRecent
        /\ Exact(breaker.failures, Bad, outcomes, clock)
        /\ Exact(breaker.successes, Good, outcomes, clock)
        /\ Backed(breaker.countArm, Unspent, outcomes, clock)
    BY OutcomesAre DEF ToldInv, OutcomesShape
  <1>2. /\ breaker'.failures = Prune(breaker.failures, clock, BreakerConfig.windowMs)
        /\ breaker'.successes = Append(Prune(breaker.successes, clock, BreakerConfig.windowMs), clock)
        /\ breaker'.countArm = IF breaker.countArm = << >> THEN << >> ELSE Tail(breaker.countArm)
        /\ breaker' \in Breaker
    BY DEF Succeeded, Guarded
  <1>3. /\ k = Len(outcomes) + 1 /\ Len(outcomes') = k /\ k \notin Bad /\ k \notin Good
        /\ outcomes'[k].at = clock /\ Bad' = Bad /\ Good' = Good \cup {k}
        /\ Unspent' = Unspent /\ OutcomesRecent'
    BY DEF After
  <1>4. /\ \A i \in DOMAIN outcomes :
             /\ outcomes[i].at > clock - BreakerConfig.windowMs
             /\ outcomes'[i].at = outcomes[i].at
        /\ Bad \subseteq DOMAIN outcomes /\ Good \subseteq DOMAIN outcomes
        /\ Unspent \subseteq Bad
    BY <1>1 DEF OutcomesShape, OutcomesRecent, After
  <1>5. Exact(breaker'.failures, Bad', outcomes', clock)
    <2>1. \A i \in Bad : /\ outcomes[i].at > clock - BreakerConfig.windowMs
                         /\ outcomes'[i].at = outcomes[i].at
      BY <1>4
    <2> QED
      BY <1>1, <1>2, <1>3, <2>1, ExactPruned
  <1>6. Exact(breaker'.successes, Good', outcomes', clock)
    <2>1. \A i \in Good : /\ outcomes[i].at > clock - BreakerConfig.windowMs
                          /\ outcomes'[i].at = outcomes[i].at
      BY <1>4
    <2>2. Exact(Prune(breaker.successes, clock, BreakerConfig.windowMs), Good, outcomes, clock)
      BY <1>1, <2>1, ExactPruned
    <2> QED
      BY <1>1, <1>2, <1>3, <2>1, <2>2, ExactNew
  <1>7. Backed(breaker'.countArm, Unspent', outcomes', clock)
    <2>1. \A i \in Unspent : outcomes'[i].at = outcomes[i].at
      BY <1>4
    <2> QED
      <3>1. clock \in Clock /\ Backed(breaker.countArm, Unspent, outcomes, clock)
        BY <1>1
      <3>2. Backed(breaker'.countArm, Unspent, outcomes', clock)
        BY <1>2, <2>1, <3>1, BackedTail, Zenon
      <3> QED
        BY <1>3, <3>2
  <1>8. Trails(breaker'.countArm, outcomes', Unspent')
    <2>1. Len(breaker'.countArm) \in Nat
      BY <1>2, LenProperties DEF Breaker, Times
    <2>2. Len(outcomes') \in Nat /\ Len(outcomes') \notin Unspent'
      BY <1>3, <1>4
    <2> QED
      BY <2>1, <2>2, TrailsNone
  <1> QED
    BY <1>3, <1>5, <1>6, <1>7, <1>8 DEF ToldInv

\* outcomes that leave the window are asked for by no list
LEMMA ToldAges ==
    ASSUME ToldInv, TypeInv', Tick
    PROVE  ToldInv'
  <1> DEFINE cutoff == clock' - BreakerConfig.windowMs
  <1>1. /\ TypeInv /\ OutcomesRecent /\ clock \in Clock /\ clock' \in Clock /\ clock' = clock + 1
        /\ clock \in Int /\ clock' \in Int /\ cutoff \in Int /\ BreakerConfig.windowMs \in Int
        /\ outcomes' = Since(outcomes, cutoff) /\ breaker' = breaker /\ breaker \in Breaker
        /\ OutcomesShape
    <2>1. TypeInv /\ OutcomesRecent /\ OutcomesShape
      BY OutcomesAre DEF ToldInv
    <2>2. clock \in Clock /\ clock \in Int /\ breaker \in Breaker
      BY <2>1 DEF OutcomesShape
    <2>3. clock' \in Clock
      BY DEF TypeInv
    <2> QED
      BY <2>1, <2>2, <2>3, ConstantsAre DEF Tick
  <1>2. OutcomesShape'
    <2>1. TypeInv' => OutcomesShape'
      BY OutcomesAre, PTL
    <2> QED
      BY <2>1
  <1> HIDE DEF cutoff
  <1>3. PICK m \in Nat : Trimmed(outcomes', outcomes, cutoff, m)
    <2>1. outcomes \in Seq(Record) /\ \A e \in Record : e.at \in Int
      BY <1>1, ConstantsAre DEF TypeInv, Record
    <2> QED
      BY <1>1, <2>1, SinceIs
  <1>4. /\ DOMAIN outcomes = 1 .. Len(outcomes) /\ DOMAIN outcomes' = 1 .. Len(outcomes')
        /\ Len(outcomes) \in Nat /\ Len(outcomes') \in Nat
        /\ \A i \in DOMAIN outcomes : /\ outcomes[i].at \in Int /\ outcomes[i].at <= clock
                                     /\ outcomes[i].at > clock - BreakerConfig.windowMs
        /\ \A i, j \in DOMAIN outcomes : i <= j => outcomes[i].at <= outcomes[j].at
    BY <1>1, <1>2 DEF OutcomesShape, OutcomesRecent
  <1>5. /\ m <= Len(outcomes) /\ Len(outcomes') = Len(outcomes) - m
        /\ \A i \in DOMAIN outcomes' : i + m \in DOMAIN outcomes /\ outcomes'[i] = outcomes[i + m]
        /\ \A i \in 1 .. m : outcomes[i].at <= cutoff
        /\ m < Len(outcomes) => outcomes[m + 1].at > cutoff
    BY <1>3, <1>4 DEF Trimmed
  <1>6. ASSUME NEW i \in DOMAIN outcomes'
        PROVE  outcomes'[i].at > cutoff /\ outcomes'[i].at <= clock'
    <2>1. i \in 1 .. Len(outcomes') /\ i + m \in DOMAIN outcomes /\ outcomes'[i] = outcomes[i + m]
      BY <1>4, <1>5
    <2>2. m + 1 <= i + m /\ m < Len(outcomes) /\ m + 1 \in DOMAIN outcomes
      BY <1>4, <1>5, <2>1
    <2>3. /\ outcomes[m + 1].at <= outcomes[i + m].at /\ outcomes[i + m].at <= clock
          /\ outcomes[m + 1].at \in Int /\ outcomes[i + m].at \in Int
      BY <1>4, <2>1, <2>2
    <2>4. outcomes[m + 1].at > cutoff /\ clock' = clock + 1
          /\ clock \in Int /\ cutoff \in Int
      BY <1>1, <1>5, <2>2
    <2> QED
      BY <2>1, <2>3, <2>4
  <1>7. ASSUME NEW i \in DOMAIN outcomes', NEW j \in DOMAIN outcomes', i <= j
        PROVE  outcomes'[i].at <= outcomes'[j].at
    <2>1. i + m <= j + m /\ i + m \in DOMAIN outcomes /\ j + m \in DOMAIN outcomes
      BY <1>4, <1>5, <1>7
    <2> QED
      BY <1>4, <1>5, <2>1
  <1>8. OutcomesRecent'
    BY <1>6, <1>7 DEF OutcomesRecent, cutoff
  <1>9. ASSUME NEW i \in DOMAIN outcomes, outcomes[i].at > cutoff
        PROVE  i - m \in DOMAIN outcomes' /\ outcomes'[i - m] = outcomes[i] /\ i \in Int
    <2>1. i \in Int /\ i >= 1 /\ i <= Len(outcomes)
      BY <1>4
    <2>2. ~(i \in 1 .. m)
      BY <1>1, <1>4, <1>5, <1>9
    <2>3. i - m \in DOMAIN outcomes' /\ (i - m) + m = i
      BY <1>4, <1>5, <2>1, <2>2
    <2> QED
      BY <1>5, <2>1, <2>3
  \* what is left of a set of outcomes
  <1> DEFINE Left(I, H) == /\ I \subseteq DOMAIN outcomes /\ H \subseteq DOMAIN outcomes'
                           /\ \A i \in DOMAIN outcomes' : i \in H <=> i + m \in I
  <1>10. Left(Bad, Bad') /\ Left(Good, Good') /\ Left(Unspent, Unspent')
    <2>1. /\ Bad' = {i \in DOMAIN outcomes' : outcomes'[i].failed}
          /\ Good' = {i \in DOMAIN outcomes' : ~outcomes'[i].failed}
          /\ Unspent' = {i \in Bad' : ~outcomes'[i].spent}
      BY DEF Bad, Good, Unspent
    <2>2. Left(Bad, Bad')
      BY <1>5, <2>1 DEF Bad
    <2>3. Left(Good, Good')
      BY <1>5, <2>1 DEF Good
    <2>4. Left(Unspent, Unspent')
      BY <1>5, <2>1, <2>2 DEF Unspent
    <2> QED
      BY <2>2, <2>3, <2>4
  <1>11. ASSUME NEW times, NEW I, NEW H, Backed(times, I, outcomes, clock), Left(I, H)
         PROVE  Backed(times, H, outcomes', clock')
    <2>1. times \in Times /\ Sorted(times) /\ NoneAfter(times, clock)
      BY <1>11 DEF Backed
    <2>2. \A j \in DOMAIN times : times[j] \in Int
      <3>1. times \in Seq(Clock) /\ Clock \subseteq Int
        BY <2>1, ConstantsAre DEF Times, Clock
      <3> QED
        BY <3>1, LenProperties, ElementOfSeq
    <2>3. NoneAfter(times, clock')
      BY <1>1, <2>1, <2>2 DEF NoneAfter
    <2>4. Young(times, clock') \subseteq Young(times, clock)
      BY <1>1, <2>2 DEF Young
    <2>5. I \subseteq Int
      BY <1>4, <1>11
    <2>6. ASSUME NEW j \in Young(times, clock'), NEW i \in I, outcomes[i].at = times[j]
          PROVE  i - m \in H /\ outcomes'[i - m].at = outcomes[i].at
      <3>1. outcomes[i].at > cutoff /\ i \in DOMAIN outcomes
        BY <1>11, <2>6 DEF Young, cutoff
      <3>2. i - m \in DOMAIN outcomes' /\ outcomes'[i - m] = outcomes[i] /\ i \in Int
        BY <1>9, <3>1
      <3>3. (i - m) + m = i
        BY <3>2
      <3> QED
        BY <1>11, <3>2, <3>3
    <2>7. Witnessed(Young(times, clock), times, I, outcomes)
      BY <1>11 DEF Backed
    <2>8. Witnessed(Young(times, clock'), times, H, outcomes')
      <3>1. Moved(Young(times, clock'), times, I, outcomes, m, H, outcomes')
        BY <2>6 DEF Moved
      <3> QED
        <4>1. m \in Int
          OBVIOUS
        <4> QED
          BY <2>4, <2>5, <2>7, <3>1, <4>1, WitnessedLater, Zenon
    <2> QED
      BY <2>1, <2>3, <2>8 DEF Backed
  <1>12. ASSUME NEW times, NEW I, NEW H, Covered(I, outcomes, times), Left(I, H)
         PROVE  Covered(H, outcomes', times)
    <2>1. I \subseteq Int /\ H \subseteq Int
      BY <1>4, <1>12
    <2>2. \A j \in H : j + m \in I /\ outcomes'[j] = outcomes[j + m]
      BY <1>5, <1>12
    <2> QED
      BY <1>12, <2>1, <2>2, CoveredFewer
  <1>13. Trails(breaker'.countArm, outcomes', Unspent')
    <2>1. \A i \in Unspent' : i + m \in Unspent /\ outcomes'[i].at = outcomes[i + m].at
      BY <1>5, <1>10
    <2>2. Trails(breaker.countArm, outcomes, Unspent) /\ Len(breaker.countArm) \in Nat
      BY <1>1, LenProperties DEF ToldInv, Breaker, Times
    <2>3. Trails(breaker.countArm, outcomes', Unspent')
      <3>1. ASSUME NEW rest, NEW V, Len(rest) \in Nat, Len(rest) = Len(outcomes) - m,
                   \A i \in V : i + m \in Unspent /\ rest[i].at = outcomes[i + m].at
            PROVE  Trails(breaker.countArm, rest, V)
        BY <1>4, <2>2, <3>1, TrailsLater
      <3> QED
        BY <1>4, <1>5, <2>1, <3>1
    <2> QED
      BY <1>1, <2>3
  <1>14. /\ Backed(breaker'.failures, Bad', outcomes', clock')
         /\ Backed(breaker'.successes, Good', outcomes', clock')
         /\ Backed(breaker'.countArm, Unspent', outcomes', clock')
         /\ Covered(Bad', outcomes', breaker'.failures)
         /\ Covered(Good', outcomes', breaker'.successes)
    BY <1>1, <1>10, <1>11, <1>12 DEF ToldInv, Exact
  <1> QED
    BY <1>8, <1>13, <1>14 DEF ToldInv, Exact

\* the failures the breaker is told of are those of the window, and those it
\* counts towards its threshold are of failures since it last opened
LEMMA ToldNext ==
    ASSUME Guarded
    PROVE  ToldInv /\ TypeInv' /\ [Next]_vars => ToldInv'
  <1> SUFFICES ASSUME ToldInv, TypeInv', [Next]_vars PROVE ToldInv'
    OBVIOUS
  <1>1. TypeInv /\ OutcomesRecent /\ OutcomesShape /\ breaker \in Breaker /\ clock \in Clock
    BY OutcomesAre DEF ToldInv, OutcomesShape
  <1>2. OutcomesShape'
    <2>1. TypeInv' => OutcomesShape'
      BY OutcomesAre, PTL
    <2> QED
      BY <2>1
  <1>3. ASSUME NEW h \in Requests, Fail(h) PROVE ToldInv'
    <2>1. Fails(h)
      BY <1>1, <1>3, FailIs
    <2>2. Tells(TRUE, breaker'.countArm = << >>)
      BY <1>1, <2>1, TellsWhenFails
    <2>3. PICK k \in Nat : After(TRUE, breaker'.countArm = << >>, k)
      BY <1>1, <1>2, <2>2, AfterIs
    <2> QED
      BY <2>1, <2>3, ListsAfterFailure DEF Fails
  <1>4. ASSUME NEW h \in Requests, Succeed(h) PROVE ToldInv'
    <2>1. Tells(FALSE, FALSE)
      BY <1>1, <1>4, TellsWhenSucceeds
    <2>2. PICK k \in Nat : After(FALSE, FALSE, k)
      BY <1>1, <1>2, <2>1, AfterIs
    <2>3. Succeeded(breaker, breaker') /\ clock' = clock
      BY <1>1, <1>4, RecordSuccessIs DEF Succeed
    <2> QED
      BY <2>2, <2>3, ListsAfterSuccess
  <1>5. CASE Tick
    BY <1>5, ToldAges
  <1>6. ASSUME UNCHANGED <<clock, breaker, outcomes>> PROVE ToldInv'
    <2>1. Bad' = Bad /\ Good' = Good /\ Unspent' = Unspent
      BY <1>6 DEF Bad, Good, Unspent
    <2>2. OutcomesRecent'
      BY <1>1, <1>6 DEF OutcomesRecent
    <2> QED
      BY <1>6, <2>1, <2>2 DEF ToldInv
  <1>7. ASSUME NEW h \in Requests, Arrive(h) \/ Turned(h) \/ Charge(h) \/ Send(h)
                                     \/ Unrelated(h)
        PROVE  ToldInv'
    BY <1>6, <1>7 DEF Arrive, Turned, Charge, Send, Unrelated, history
  <1>8. CASE UNCHANGED vars
    BY <1>6, <1>8 DEF vars, history
  <1> QED
    BY <1>3, <1>4, <1>5, <1>7, <1>8 DEF Next

\* what the property asks of a step: the body of BreakerReacts
RecentFailures == {i \in Told(TRUE) : i \notin DOMAIN outcomes \/ ~outcomes[i].spent}
LastRun == (Len(outcomes') - BreakerConfig.threshold + 1) .. Len(outcomes')
Reacts ==
    /\ breaker'.countArm = << >> =>
         Cardinality(RecentFailures) >= BreakerConfig.threshold \/ FractionIsHigh
    /\ LastRun \subseteq RecentFailures \/ FractionIsHigh => Trips

\* the sizes the breaker compares are those of the outcomes it was told
LEMMA SizesAre ==
    ASSUME Guarded, ToldInv, TypeInv', Failed(breaker, breaker'),
           Tells(TRUE, breaker'.countArm = << >>),
           NEW k \in Nat, After(TRUE, breaker'.countArm = << >>, k)
    PROVE  /\ RecentFailures = Unspent \cup {k} /\ k \notin Unspent
           /\ Cardinality(RecentFailures) = Cardinality(Unspent) + 1
           /\ Len(breaker'.failures) = Cardinality(Told(TRUE))
           /\ Len(breaker'.successes) = Cardinality(Told(FALSE))
  <1>1. /\ clock \in Clock /\ breaker \in Breaker /\ OutcomesShape /\ OutcomesRecent
        /\ Exact(breaker.failures, Bad, outcomes, clock)
        /\ Exact(breaker.successes, Good, outcomes, clock)
    BY OutcomesAre DEF ToldInv, OutcomesShape
  <1>2. OutcomesShape'
    <2>1. TypeInv' => OutcomesShape'
      BY OutcomesAre, PTL
    <2> QED
      BY <2>1
  <1>3. /\ k = Len(outcomes) + 1 /\ k \notin Bad /\ Bad' = Bad \cup {k} /\ Good' = Good
    BY DEF After
  <1>4. /\ DOMAIN outcomes = 1 .. Len(outcomes) /\ Len(outcomes) \in Nat
        /\ \A i \in DOMAIN outcomes : outcomes[i].at > clock - BreakerConfig.windowMs
        /\ Bad \subseteq DOMAIN outcomes /\ Good \subseteq DOMAIN outcomes
        /\ Unspent \subseteq Bad /\ IsFiniteSet(Unspent) /\ IsFiniteSet(Bad)
    BY <1>1 DEF OutcomesShape, OutcomesRecent
  <1>5. Told(TRUE) = Bad' /\ Told(FALSE) = Good'
    <2>1. Bad' = {i \in DOMAIN outcomes' : outcomes'[i].failed}
          /\ Good' = {i \in DOMAIN outcomes' : ~outcomes'[i].failed}
      BY DEF Bad, Good
    <2>2. \A i \in DOMAIN outcomes' : outcomes'[i].failed \in BOOLEAN
      BY <1>2 DEF OutcomesShape
    <2> QED
      BY <2>1, <2>2 DEF Told
  <1>6. k \notin DOMAIN outcomes /\ k \notin Unspent
    BY <1>3, <1>4
  <1>7. RecentFailures = Unspent \cup {k}
    BY <1>3, <1>4, <1>5, <1>6 DEF RecentFailures, Unspent
  <1>8. Cardinality(Unspent \cup {k}) = Cardinality(Unspent) + 1
    BY <1>4, <1>6, FS_AddElement
  <1>9. Len(breaker'.failures) = Cardinality(Told(TRUE))
    <2>1. Len(Prune(breaker.failures, clock, BreakerConfig.windowMs)) = Cardinality(Bad)
      BY <1>1, <1>4, ExactPruned
    <2>2. Prune(breaker.failures, clock, BreakerConfig.windowMs) \in Seq(Clock)
      BY <1>1, WindowOf DEF Breaker, Times, Clock
    <2>3. Len(Append(Prune(breaker.failures, clock, BreakerConfig.windowMs), clock))
            = Cardinality(Bad) + 1
      BY <1>1, <2>1, <2>2, AppendProperties
    <2>4. Cardinality(Bad \cup {k}) = Cardinality(Bad) + 1
      BY <1>3, <1>4, FS_AddElement
    <2>5. breaker'.failures = Append(Prune(breaker.failures, clock, BreakerConfig.windowMs), clock)
      BY DEF Failed, Guarded
    <2> QED
      BY <1>3, <1>5, <2>3, <2>4, <2>5
  <1>10. Len(breaker'.successes) = Cardinality(Told(FALSE))
    <2>1. Len(Prune(breaker.successes, clock, BreakerConfig.windowMs)) = Cardinality(Good)
      BY <1>1, <1>4, ExactPruned
    <2>2. breaker'.successes = Prune(breaker.successes, clock, BreakerConfig.windowMs)
      BY DEF Failed, Guarded
    <2> QED
      BY <1>3, <1>5, <2>1, <2>2
  <1> QED
    BY <1>6, <1>7, <1>8, <1>9, <1>10

LEMMA FailureReacts ==
    ASSUME Guarded, ToldInv, TypeInv', Failed(breaker, breaker'),
           Tells(TRUE, breaker'.countArm = << >>),
           NEW k \in Nat, After(TRUE, breaker'.countArm = << >>, k)
    PROVE  Reacts
  <1> DEFINE left == Prune(breaker.countArm, clock, BreakerConfig.windowMs)
  <1>1. /\ clock \in Clock /\ breaker \in Breaker /\ OutcomesShape /\ OutcomesRecent
        /\ Backed(breaker.countArm, Unspent, outcomes, clock)
        /\ Trails(breaker.countArm, outcomes, Unspent)
        /\ Len(outcomes) \in Nat /\ DOMAIN outcomes = 1 .. Len(outcomes)
        /\ IsFiniteSet(Unspent) /\ Unspent \subseteq DOMAIN outcomes
    BY OutcomesAre DEF ToldInv, OutcomesShape
  <1>2. k = Len(outcomes) + 1 /\ Len(outcomes') = k
    BY DEF After
  <1>3. /\ RecentFailures = Unspent \cup {k} /\ k \notin Unspent
        /\ Cardinality(RecentFailures) = Cardinality(Unspent) + 1
        /\ FractionIsHigh <=>
             RateTrips(Len(breaker'.failures), Len(breaker'.successes), BreakerConfig)
    BY SizesAre DEF FractionIsHigh
  <1>4. /\ breaker'.countArm = << >> <=> Len(Arm(breaker)) >= BreakerConfig.threshold \/ FractionIsHigh
        /\ breaker'.countArm = << >> => Trips
    BY <1>3 DEF Failed, Guarded, Tripped, Trips
  <1>5. Len(Arm(breaker)) = Len(left) + 1 /\ Len(left) \in Nat
    <2>1. left \in Seq(Clock)
      BY <1>1, WindowOf DEF Breaker, Times, Clock
    <2> QED
      BY <1>1, <2>1, AppendProperties, LenProperties DEF Arm
  <1>6. PICK p \in Nat : Window(left, breaker.countArm, clock, p)
    BY <1>1, WindowIs DEF Backed
  <1>7. BreakerConfig.threshold \in Int /\ BreakerConfig.threshold > 0
    BY ConstantsAre DEF Guarded
  <1>8. Len(left) <= Cardinality(Unspent) /\ Cardinality(Unspent) \in Nat
    BY <1>1, BackedCount, FS_CardinalityType
  <1> HIDE DEF left
  <1>9. LastRun \subseteq RecentFailures => Len(Arm(breaker)) >= BreakerConfig.threshold
    <2> SUFFICES ASSUME LastRun \subseteq RecentFailures
                 PROVE  Len(Arm(breaker)) >= BreakerConfig.threshold
      OBVIOUS
    <2> DEFINE n == k - BreakerConfig.threshold
    <2>1. \A i \in n + 1 .. k : i \in Unspent \/ i = k
      BY <1>2, <1>3 DEF LastRun
    <2>2. n \in Int /\ n + 1 <= k
      BY <1>7
    <2>3. n >= 0
      <3>1. n + 1 \in Unspent \/ n + 1 = k
        BY <2>1, <2>2
      <3> QED
        BY <1>1, <1>2, <2>2, <3>1
    <2>4. n \in 0 .. Len(outcomes)
      BY <1>1, <1>2, <2>2, <2>3
    <2>5. n + 1 .. Len(outcomes) \subseteq Unspent
      BY <1>1, <1>2, <2>1, <2>2
    <2>6. \A i \in Unspent : outcomes[i].at > clock - BreakerConfig.windowMs /\ outcomes[i].at \in Int
      BY <1>1 DEF OutcomesShape, OutcomesRecent
    <2> HIDE DEF n
    <2>7. Len(left) - Len(outcomes) + n >= 0
      BY <1>1, <1>6, <2>4, <2>5, <2>6, TrailsPruned
    <2> QED
      BY <1>1, <1>2, <1>5, <1>7, <2>7 DEF n
  <1>10. Len(Arm(breaker)) >= BreakerConfig.threshold
           => Cardinality(RecentFailures) >= BreakerConfig.threshold
    BY <1>3, <1>5, <1>7, <1>8
  <1> QED
    BY <1>4, <1>9, <1>10 DEF Reacts

LEMMA ReactsNext ==
    ASSUME Guarded
    PROVE  ToldInv /\ TypeInv' /\ [Next]_vars => (FailureTold => Reacts)
  <1> SUFFICES ASSUME ToldInv, TypeInv', [Next]_vars, FailureTold PROVE Reacts
    OBVIOUS
  <1>1. TypeInv /\ OutcomesRecent /\ OutcomesShape /\ clock \in Clock /\ Len(outcomes) \in Nat
    BY OutcomesAre DEF ToldInv, OutcomesShape
  <1>2. OutcomesShape' /\ Len(outcomes') \in Nat
    <2>1. TypeInv' => OutcomesShape'
      BY OutcomesAre, PTL
    <2> QED
      BY <2>1 DEF OutcomesShape
  <1>3. Len(outcomes') > Len(outcomes) /\ outcomes'[Len(outcomes')].failed
    BY DEF FailureTold
  <1>4. ASSUME NEW h \in Requests, Fail(h) PROVE Reacts
    <2>1. Fails(h)
      BY <1>1, <1>4, FailIs
    <2>2. Tells(TRUE, breaker'.countArm = << >>)
      BY <1>1, <2>1, TellsWhenFails
    <2>3. PICK k \in Nat : After(TRUE, breaker'.countArm = << >>, k)
      BY <1>1, <1>2, <2>2, AfterIs
    <2> QED
      BY <2>1, <2>2, <2>3, FailureReacts DEF Fails
  <1>5. ASSUME NEW h \in Requests, Succeed(h) PROVE FALSE
    <2>1. Tells(FALSE, FALSE)
      BY <1>1, <1>5, TellsWhenSucceeds
    <2> QED
      BY <1>3, <2>1 DEF Tells
  <1>6. ASSUME Tick PROVE FALSE
    <2>1. outcomes' = Since(outcomes, clock' - BreakerConfig.windowMs)
      BY <1>6 DEF Tick
    <2>2. clock' - BreakerConfig.windowMs \in Int
      BY <1>1, <1>6, ConstantsAre DEF Tick
    <2>3. outcomes \in Seq(Record) /\ \A e \in Record : e.at \in Int
      BY <1>1, ConstantsAre DEF TypeInv, Record
    <2>4. PICK m \in Nat : Trimmed(outcomes', outcomes, clock' - BreakerConfig.windowMs, m)
      BY <2>1, <2>2, <2>3, SinceIs
    <2>5. Len(outcomes') = Len(outcomes) - m
      BY <2>4 DEF Trimmed
    <2> QED
      BY <1>1, <1>2, <1>3, <2>5
  <1>7. ASSUME UNCHANGED outcomes PROVE FALSE
    BY <1>1, <1>3, <1>7
  <1>8. ASSUME NEW h \in Requests, Arrive(h) \/ Turned(h) \/ Charge(h) \/ Send(h)
                                     \/ Unrelated(h)
        PROVE  FALSE
    BY <1>7, <1>8 DEF Arrive, Turned, Charge, Send, Unrelated, history
  <1>9. CASE UNCHANGED vars
    BY <1>7, <1>9 DEF vars, history
  <1> QED
    BY <1>4, <1>5, <1>6, <1>8, <1>9 DEF Next

(***************************************************************************)
(* The breaker opens on evidence and on all of it, whatever the order of   *)
(* the outcomes, the window and the threshold: a failure that completes a  *)
(* run of threshold failures within the window trips it, one that does not *)
(* make threshold unforgiven failures nor a high fraction never does.  It  *)
(* is about a breaker that is on: a threshold of zero or less turns it off.*)
(***************************************************************************)
THEOREM OpensOnEvidence == ASSUME Guarded PROVE Spec => BreakerReacts
  <1>1. Spec => []TypeInv
    BY TypesHoldAtFirst, TypesHoldNext, PTL DEF Spec
  <1>2. ToldInv /\ TypeInv' /\ [Next]_vars => ToldInv'
    BY ToldNext
  <1>3. Spec => []ToldInv
    BY <1>1, <1>2, ToldAtFirst, PTL DEF Spec
  <1>4. ToldInv /\ TypeInv' /\ [Next]_vars
          => [FailureTold =>
                LET recent == {i \in Told(TRUE) : i \notin DOMAIN outcomes
                                                    \/ ~outcomes[i].spent}
                    last == (Len(outcomes') - BreakerConfig.threshold + 1)
                              ..Len(outcomes')
                IN  /\ breaker'.countArm = << >> =>
                         \/ Cardinality(recent) >= BreakerConfig.threshold
                         \/ FractionIsHigh
                    /\ last \subseteq recent \/ FractionIsHigh => Trips]_vars
    BY ReactsNext DEF Reacts, RecentFailures, LastRun
  <1> QED
    BY <1>1, <1>3, <1>4, PTL DEF Spec, BreakerReacts
=============================================================================
