----------------------------- MODULE SettleGuards -----------------------------
(***************************************************************************)
(* What keeps /settle from spending the facilitator's traffic without      *)
(* bound: the breaker and the admission caps when a request arrives, the   *)
(* payer's and the global budget once it is validated, the submission that *)
(* leaves some awaits later, and the outcomes fed back to the breaker.  A  *)
(* step is the code between two awaits; requests overlap as they like.     *)
(***************************************************************************)
EXTENDS Limits, FiniteSets

CONSTANTS
    Requests,       \* concurrent requests
    Payments,       \* payments (refKey)
    PayerOf,        \* the payer each payment turns out to have
    Ips,            \* merchants
    RateLimit,      \* settleRateLimit
    BreakerConfig,  \* settleBreaker; its failureRate as a fraction
    MaxTime         \* bound: the clock

Payers == {PayerOf[p] : p \in Payments}
Keys == Payments \cup Ips \cup Payers
Nobody == "nobody"

ASSUME KeysAssumption == Nobody \notin Keys
ASSUME RequestsAssumption == IsFiniteSet(Requests) /\ Requests # {}
ASSUME LimitsAssumption ==
    /\ RateLimit \in [maxPerPayer : Int, maxPerIp : Int, maxGlobal : Int,
                      windowMs : Nat \ {0}]
    /\ BreakerConfig \in [threshold : Int, cooldownMs : Nat,
                          windowMs : Nat \ {0}, rate : Nat \X (Nat \ {0}),
                          minSamples : Nat]
    /\ MaxTime \in Nat

VARIABLES
    clock,
    limiter,
    breaker,
    req,        \* per request: the await it is at, its payment
    charged,    \* history: per request, when the budget it holds was charged
    sends,      \* history: the submissions of the window, by request and payer,
                \* with the time of the charge and of the submission
    outcomes,   \* history: what the breaker was told in the window, and
                \* whether it has opened since
    cooled,     \* history: when the cooldown the last trip began ends
    shed,       \* history: submissions within that cooldown
    seen        \* history: when each key of the map was last looked at

history == <<charged, sends, outcomes, cooled, shed>>
vars == <<clock, limiter, breaker, req, history, seen>>

Times == Seq(0..MaxTime)

TypeOK ==
    /\ clock \in 0..MaxTime
    /\ DOMAIN limiter.perKey \subseteq Keys
    /\ \A k \in DOMAIN limiter.perKey : limiter.perKey[k] \in Times
    /\ limiter.globalHits \in Times
    /\ limiter.lastSweepAt \in (-RateLimit.windowMs)..MaxTime
    /\ breaker \in [countArm : Times, failures : Times, successes : Times,
                    openUntil : Nat]
    /\ req \in [Requests -> [pc : {"idle", "validate", "charged", "sent"},
                             payment : Payments \cup {Nobody}]]
    /\ charged \in [Requests -> 0..MaxTime]
    /\ DOMAIN seen = DOMAIN limiter.perKey

Idle == [pc |-> "idle", payment |-> Nobody]

Init ==
    /\ clock = 0
    /\ limiter = NewLimiter(RateLimit.windowMs)
    /\ breaker = NewBreaker
    /\ req = [h \in Requests |-> Idle]
    /\ charged = [h \in Requests |-> 0]
    /\ sends = << >>
    /\ outcomes = << >>
    /\ cooled = 0
    /\ shed = 0
    /\ seen = << >>

-----------------------------------------------------------------------------

Looked(keys) ==
    seen' = [k \in DOMAIN limiter'.perKey |-> IF k \in keys THEN clock
                                              ELSE seen[k]]

\* the caps a request passes when it arrives
Admission(p, ip) == << [key |-> p, max |-> RateLimit.maxPerPayer],
                       [key |-> ip, max |-> RateLimit.maxPerIp] >>

\* the breaker, then the caps of the payment and of the merchant
Arrive(h) ==
    /\ req[h].pc = "idle"
    /\ ~IsOpen(breaker, clock, BreakerConfig)
    /\ \E p \in Payments, ip \in Ips :
         LET r == AllowKeys(limiter, Admission(p, ip), clock, RateLimit.windowMs)
         IN  /\ limiter' = r.limiter
             /\ req' = IF r.allowed
                       THEN [req EXCEPT ![h] = [pc |-> "validate",
                                                payment |-> p]]
                       ELSE req
             /\ Looked(r.looked)
    /\ UNCHANGED <<clock, breaker, history>>

\* the validation refuses, or the answer is on record: nothing is charged
Turned(h) ==
    /\ req[h].pc = "validate"
    /\ req' = [req EXCEPT ![h] = Idle]
    /\ UNCHANGED <<clock, limiter, breaker, history, seen>>

\* a mutant: the global budget is looked at, and not charged
ChargePayer(h) ==
    /\ req[h].pc = "validate"
    /\ LET payer == PayerOf[req[h].payment]
           mine == AllowKeys(limiter,
                             << [key |-> payer, max |-> RateLimit.maxPerPayer] >>,
                             clock, RateLimit.windowMs)
           all == AllowGlobal(mine.limiter, clock, RateLimit.maxGlobal,
                              RateLimit.windowMs)
       IN  /\ limiter' = mine.limiter
           /\ IF mine.allowed /\ all.allowed
              THEN /\ req' = [req EXCEPT ![h].pc = "charged"]
                   /\ charged' = [charged EXCEPT ![h] = clock]
              ELSE req' = [req EXCEPT ![h] = Idle] /\ UNCHANGED charged
           /\ Looked(mine.looked)
    /\ UNCHANGED <<clock, breaker, sends, outcomes, cooled, shed>>

\* the payer's budget, then the global one; a payer whose request the global
\* budget refuses has been charged
Charge(h) ==
    /\ req[h].pc = "validate"
    /\ LET payer == PayerOf[req[h].payment]
           mine == AllowKeys(limiter,
                             << [key |-> payer, max |-> RateLimit.maxPerPayer] >>,
                             clock, RateLimit.windowMs)
           all == AllowGlobal(mine.limiter, clock, RateLimit.maxGlobal,
                              RateLimit.windowMs)
       IN  /\ limiter' = IF mine.allowed THEN all.limiter ELSE mine.limiter
           /\ IF mine.allowed /\ all.allowed
              THEN /\ req' = [req EXCEPT ![h].pc = "charged"]
                   /\ charged' = [charged EXCEPT ![h] = clock]
              ELSE req' = [req EXCEPT ![h] = Idle] /\ UNCHANGED charged
           /\ Looked(mine.looked)
    /\ UNCHANGED <<clock, breaker, sends, outcomes, cooled, shed>>

\* the awaits after the charge are over, and the submission leaves: the ledger
\* end was read, the row written, the participant found
Send(h) ==
    /\ req[h].pc = "charged"
    /\ req' = [req EXCEPT ![h].pc = "sent"]
    /\ sends' = Append(sends, [by |-> h, payer |-> PayerOf[req[h].payment],
                              charged |-> charged[h], at |-> clock])
    /\ charged' = [charged EXCEPT ![h] = 0]
    /\ shed' = IF clock < cooled THEN shed + 1 ELSE shed
    /\ UNCHANGED <<clock, limiter, breaker, outcomes, cooled, seen>>

\* the request ends, with its submission or before it
Ends(h) ==
    /\ req[h].pc \in {"charged", "sent"}
    /\ req' = [req EXCEPT ![h] = Idle]
    /\ charged' = [charged EXCEPT ![h] = 0]

Outcome(failed) == [failed |-> failed, at |-> clock, spent |-> FALSE]

\* a traffic failure, of the submission or of a read before it, or a commit
\* that moved nothing
Fail(h) ==
    /\ Ends(h)
    /\ breaker' = RecordFailure(breaker, clock, BreakerConfig)
    /\ LET trips == breaker'.countArm = << >> /\ BreakerConfig.threshold > 0
           told == Append(outcomes, Outcome(TRUE))
       IN  /\ outcomes' = [i \in DOMAIN told |->
                             [told[i] EXCEPT !.spent = @ \/ trips]]
           /\ IF trips
              THEN /\ cooled' = clock + BreakerConfig.cooldownMs
                   /\ shed' = IF clock < cooled THEN shed ELSE 0
              ELSE UNCHANGED <<cooled, shed>>
    /\ UNCHANGED <<clock, limiter, sends, seen>>

Succeed(h) ==
    /\ req[h].pc = "sent"
    /\ Ends(h)
    /\ breaker' = RecordSuccess(breaker, clock, BreakerConfig)
    /\ outcomes' = Append(outcomes, Outcome(FALSE))
    /\ UNCHANGED <<clock, limiter, sends, cooled, shed, seen>>

\* any other outcome is not the breaker's business: nor is the answer of a
\* sibling, which a request with a charge may end with
Unrelated(h) ==
    /\ Ends(h)
    /\ UNCHANGED <<clock, limiter, breaker, sends, outcomes, cooled, shed, seen>>

\* the events of a history, less the leading ones up to the cutoff
Since(events, cutoff) ==
    SubSeq(events, Aged([i \in DOMAIN events |-> events[i].at], cutoff) + 1,
           Len(events))

Tick ==
    /\ clock < MaxTime
    /\ clock' = clock + 1
    /\ sends' = Since(sends, clock' - RateLimit.windowMs)
    /\ outcomes' = Since(outcomes, clock' - BreakerConfig.windowMs)
    /\ UNCHANGED <<limiter, breaker, req, charged, cooled, shed, seen>>

Next ==
    \/ \E h \in Requests :
         Arrive(h) \/ Turned(h) \/ Charge(h) \/ Send(h) \/ Fail(h)
           \/ Succeed(h) \/ Unrelated(h)
    \/ Tick

Spec == Init /\ [][Next]_vars

-----------------------------------------------------------------------------
(* Properties.                                                             *)

\* the submissions of the window whose budget was charged before it
Late == {i \in DOMAIN sends : sends[i].charged <= clock - RateLimit.windowMs}
Timely == DOMAIN sends \ Late

(***************************************************************************)
(* In no window, wherever it ends, do more submissions leave than the      *)
(* global budget has, nor more of one payer than the payer's cap, but for  *)
(* one of each request that was past its charge when the window began:     *)
(* although the two budgets are charged apart, the submission leaves       *)
(* awaits later, and requests overlap.                                     *)
(***************************************************************************)
SpendWithinBudget ==
    /\ RateLimit.maxGlobal > 0 => Cardinality(Timely) <= RateLimit.maxGlobal
    /\ RateLimit.maxPerPayer > 0 =>
         \A p \in Payers :
           Cardinality({i \in Timely : sends[i].payer = p})
             <= RateLimit.maxPerPayer
    /\ \A i, j \in Late : sends[i].by = sends[j].by => i = j

(***************************************************************************)
(* The limiter's map does not grow with the callers it has seen: when a     *)
(* call has taken its times, the sweep is within the window, and every key  *)
(* was looked at no more than a window before the sweep.                    *)
(***************************************************************************)
MapIsBounded ==
    [][limiter'.perKey # limiter.perKey =>
         \A k \in DOMAIN limiter'.perKey :
           /\ limiter'.lastSweepAt > clock - RateLimit.windowMs
           /\ seen'[k] > limiter'.lastSweepAt - RateLimit.windowMs]_vars

FailureTold ==
    Len(outcomes') > Len(outcomes) /\ outcomes'[Len(outcomes')].failed
\* of the outcomes the breaker has been told, after a further failure
Told(failed) == {i \in DOMAIN outcomes' : outcomes'[i].failed = failed}
FractionIsHigh ==
    RateTrips(Cardinality(Told(TRUE)), Cardinality(Told(FALSE)), BreakerConfig)
Trips == breaker'.openUntil = clock + BreakerConfig.cooldownMs

(***************************************************************************)
(* The breaker opens on evidence, and on all of it: only for enough        *)
(* failures since it last opened, or a high fraction of them, all within   *)
(* the window; and always when such failures come in a row, or their       *)
(* fraction is high, however successes are interleaved.                    *)
(***************************************************************************)
BreakerReacts ==
    [][FailureTold =>
         LET recent == {i \in Told(TRUE) : i \notin DOMAIN outcomes
                                             \/ ~outcomes[i].spent}
             last == (Len(outcomes') - BreakerConfig.threshold + 1)
                       ..Len(outcomes')
         IN  /\ breaker'.countArm = << >> =>
                  \/ Cardinality(recent) >= BreakerConfig.threshold
                  \/ FractionIsHigh
             /\ last \subseteq recent \/ FractionIsHigh => Trips]_vars

(***************************************************************************)
(* While a cooldown lasts, only submissions whose requests had arrived     *)
(* before it leave: late outcomes, good or bad, never let others through.  *)
(***************************************************************************)
CooldownHolds == shed < Cardinality(Requests)
=============================================================================
