------------------------------ MODULE RelayDoors ------------------------------
(***************************************************************************)
(* What the anonymous wallet routes may cost: the per-IP doors and the     *)
(* escalating ban behind them, the facilitator-wide budget of party        *)
(* allocations.  A door is checked between two awaits.                     *)
(***************************************************************************)
EXTENDS Limits, FiniteSetsExt, SequencesExt

CONSTANTS
    Ips,        \* the callers' addresses
    Senders,    \* the pairs of a party and an address that submit
    Doorways,   \* the pairs of an onboarding route and an address
    Config,     \* the caps and windows of the wallet routes
    MaxTime     \* bound: the clock

VARIABLES
    clock,
    doors,      \* submitLimiter, onboardLimiter, onboardDailyLimiter
    box,        \* the penalty box
    refused,    \* history: per address, when its own cap refused it since its
                \* last ban, within the strike window
    served,     \* history: per address, the length and the end of its last ban
    allocated   \* history: when allocations of parties began, within the day

vars == <<clock, doors, box, refused, served, allocated>>

-----------------------------------------------------------------------------
(* The penalty box: per address its strikes, the end of its ban and how    *)
(* many bans it has had, and when the box was swept.                       *)

Clean == [strikes |-> << >>, bannedUntil |-> 0, priorBans |-> 0]

EntryOf(key) == IF key \in DOMAIN box.entries THEN box.entries[key] ELSE Clean

Banned(key) == Config.strikesToBan > 0 /\ EntryOf(key).bannedUntil > clock

\* strikes come in order, so the recent ones are the last
RecentStrikes(entry) == Prune(entry.strikes, clock, Config.strikeWindowMs)

\* the powers of the multiplier
Escalation[n \in Nat] ==
    IF n = 0 THEN 1 ELSE Config.multiplier * Escalation[n - 1]

\* every ban is longer than the one before, up to a maximum
BanMs(priorBans) ==
    Min({Config.baseBanMs * Escalation[priorBans], Config.maxBanMs})

\* strikes age, a long clean stretch ends the escalation, idle entries go
SweepBox(entries) ==
    LET aged(e) ==
          IF e.bannedUntil > 0 /\ clock - e.bannedUntil >= Config.maxBanMs
          THEN [Clean EXCEPT !.strikes = RecentStrikes(e)]
          ELSE [e EXCEPT !.strikes = RecentStrikes(e)]
    IN  [key \in {k \in DOMAIN entries : aged(entries[k]) # Clean} |->
           aged(entries[key])]

\* a refusal close to the last strike belongs to the same episode
SameEpisode(entry) ==
    LET recent == RecentStrikes(entry)
    IN  recent # << >> /\ clock - Last(recent) < Config.strikeSpacingMs

\* a mutant: each refusal of a burst is a strike
StruckEach(entry) ==
    LET strikes == Append(RecentStrikes(entry), clock)
    IN  IF Len(strikes) >= Config.strikesToBan
        THEN [strikes |-> << >>, priorBans |-> entry.priorBans + 1,
              bannedUntil |-> clock + BanMs(entry.priorBans)]
        ELSE [entry EXCEPT !.strikes = strikes]

\* one strike per episode; enough strikes open a ban and start over
Struck(entry) ==
    LET strikes == Append(RecentStrikes(entry), clock)
    IN  IF SameEpisode(entry)
        THEN [entry EXCEPT !.strikes = RecentStrikes(entry)]
        ELSE IF Len(strikes) >= Config.strikesToBan
        THEN [strikes |-> << >>, priorBans |-> entry.priorBans + 1,
              bannedUntil |-> clock + BanMs(entry.priorBans)]
        ELSE [entry EXCEPT !.strikes = strikes]

\* a strike that counts also sweeps the box, once per strike window
StrikeEnabled(ip) ==
    LET before == EntryOf(ip)
        after == Struck(before)
        put == [key \in {ip} \cup DOMAIN box.entries |->
                  IF key = ip THEN after ELSE box.entries[key]]
        sweeps == /\ ~SameEpisode(before)
                  /\ clock - box.lastSweepAt >= Config.strikeWindowMs
        bans == after.priorBans > before.priorBans
    IN  /\ box' = IF sweeps
                  THEN [entries |-> SweepBox(put), lastSweepAt |-> clock]
                  ELSE [box EXCEPT !.entries = put]
        /\ refused' = [refused EXCEPT ![ip] = IF bans THEN {} ELSE @ \cup {clock}]
        /\ served' = [served EXCEPT
                        ![ip] = IF bans THEN [ms |-> after.bannedUntil - clock,
                                              until |-> after.bannedUntil]
                                ELSE @]

NoStrike == UNCHANGED <<box, refused, served>>

Strike(ip) == IF Config.strikesToBan > 0 THEN StrikeEnabled(ip) ELSE NoStrike

-----------------------------------------------------------------------------

Init ==
    /\ clock = 0
    /\ doors = [submit |-> NewLimiter(Config.minuteMs),
                onboard |-> NewLimiter(Config.minuteMs),
                daily |-> NewLimiter(Config.dayMs)]
    /\ box = [entries |-> << >>, lastSweepAt |-> -Config.strikeWindowMs]
    /\ refused = [ip \in Ips |-> {}]
    /\ served = [ip \in Ips |-> [ms |-> 0, until |-> 0]]
    /\ allocated = << >>

\* onboardAllowed: the ban, then the cap of this route and address; only a
\* refusal by that cap is a strike
OnboardAdmission(where, ip) ==
    IF Config.submitMax <= 0 THEN [allowed |-> TRUE, limiter |-> doors.onboard]
    ELSE AllowKeys(doors.onboard,
                   << [key |-> <<where, ip>>, max |-> Config.submitMax] >>,
                   clock, Config.minuteMs)

\* onboard/prepare and submit/prepare: cheap for us, admitted per address
Prepare(where, ip) ==
    /\ ~Banned(ip)
    /\ LET r == OnboardAdmission(where, ip)
       IN  /\ doors' = [doors EXCEPT !.onboard = r.limiter]
           /\ IF r.allowed THEN NoStrike ELSE Strike(ip)
    /\ UNCHANGED <<clock, allocated>>

\* a mutant: the day is charged before the minute
SpendAllowedDayFirst(limiters) ==
    LET day == AllowGlobal(limiters.daily, clock, Config.dailyMax, Config.dayMs)
        minute == AllowGlobal(limiters.onboard, clock, Config.onboardGlobal,
                              Config.minuteMs)
    IN  [allowed |-> minute.allowed /\ day.allowed,
         limiters |-> [limiters EXCEPT
                         !.daily = day.limiter,
                         !.onboard = IF day.allowed THEN minute.limiter ELSE @]]

\* onboardSpendAllowed: the minute's budget, then the day's; a slot of the
\* minute is lost when the day refuses, never the other way round
SpendAllowed(limiters) ==
    LET minute == AllowGlobal(limiters.onboard, clock, Config.onboardGlobal,
                              Config.minuteMs)
        day == AllowGlobal(limiters.daily, clock, Config.dailyMax, Config.dayMs)
    IN  [allowed |-> minute.allowed /\ day.allowed,
         limiters |-> [limiters EXCEPT
                         !.onboard = minute.limiter,
                         !.daily = IF minute.allowed THEN day.limiter ELSE @]]

\* onboard/finalize: a malformed body spends nothing, a well-formed one is
\* charged and the allocation of its party begins, on the co-host first
Finalize(ip, wellFormed) ==
    /\ ~Banned(ip)
    /\ LET r == OnboardAdmission("onboard/finalize", ip)
           admitted == [doors EXCEPT !.onboard = r.limiter]
           spend == SpendAllowed(admitted)
           spends == r.allowed /\ wellFormed
       IN  /\ doors' = IF spends THEN spend.limiters ELSE admitted
           /\ allocated' = IF spends /\ spend.allowed THEN Append(allocated, clock)
                           ELSE allocated
           /\ IF r.allowed THEN NoStrike ELSE Strike(ip)
    /\ UNCHANGED clock

\* submit/execute and preapproval/self/commit: the pair's cap, then the
\* address's; only the latter, when it is exhausted, is the address's abuse
Submit(party, ip) ==
    /\ ~Banned(ip)
    /\ LET mine == [key |-> <<party, ip>>, max |-> Config.submitMax]
           host == [key |-> ip, max |-> Config.submitIpMax]
           r == AllowKeys(doors.submit, <<mine, host>>, clock, Config.minuteMs)
           spent == Prune(TimesOf(r.limiter, ip), clock, Config.minuteMs)
           exhausted == host.max > 0 /\ Len(spent) >= host.max
       IN  /\ doors' = [doors EXCEPT !.submit = r.limiter]
           /\ IF ~r.allowed /\ exhausted THEN Strike(ip) ELSE NoStrike
    /\ UNCHANGED <<clock, allocated>>

Tick ==
    /\ clock < MaxTime
    /\ clock' = clock + 1
    /\ refused' = [ip \in Ips |-> {t \in refused[ip] :
                                     clock' - t < Config.strikeWindowMs}]
    /\ allocated' = Prune(allocated, clock', Config.dayMs)
    /\ UNCHANGED <<doors, box, served>>

Next ==
    \/ \E way \in Doorways :
         \/ way[1] # "onboard/finalize" /\ Prepare(way[1], way[2])
         \/ \E wellFormed \in BOOLEAN :
              way[1] = "onboard/finalize" /\ Finalize(way[2], wellFormed)
    \/ \E sender \in Senders : Submit(sender[1], sender[2])
    \/ Tick

Spec == Init /\ [][Next]_vars

-----------------------------------------------------------------------------
(* Properties.                                                             *)

\* n refusals of one address, each an episode of its own
Episodes(times, n) ==
    \E some \in kSubset(n, times) :
      \A t, u \in some : t < u => u - t >= Config.strikeSpacingMs

Opens(ip) == served'[ip] # served[ip]

\* only enough refusals of one's own since the last ban open one, none changes
\* a ban that runs, and no more than enough are left without
OpensOnEpisodes(ip) ==
    LET told == refused[ip] \cup {clock}
    IN  /\ Opens(ip) => Episodes(told, Config.strikesToBan) /\ ~Banned(ip)
        /\ clock \in refused'[ip] \ refused[ip] =>
             ~Episodes(told, Config.strikesToBan + 1)

\* a cap is spent
Full(limiter, key, max) ==
    /\ max > 0
    /\ Len(Prune(TimesOf(limiter, key), clock, Config.minuteMs)) >= max

\* a cap of the address itself is spent: of one of its routes, or of what all
\* parties behind it submit; a party's own cap is not one
OwnCapFull(ip) ==
    \/ Full(doors.submit, ip, Config.submitIpMax)
    \/ \E where \in {way[1] : way \in Doorways} :
         Full(doors.onboard, <<where, ip>>, Config.submitMax)

\* a refusal is held against the address
HeldAgainst(ip) == ~(refused'[ip] \subseteq refused[ip]) \/ Opens(ip)

\* a ban is longer than the last by the multiplier, or as long as bans are
Escalates(ip) ==
    \/ served'[ip].ms >= Min({Config.maxBanMs, served[ip].ms * Config.multiplier})
    \/ clock >= served[ip].until + Config.maxBanMs

(***************************************************************************)
(* A ban answers repeated abuse of the address itself: it opens only after *)
(* enough of its own refusals, in episodes of their own within the window  *)
(* and since its last ban, and opens at the latest one episode after that. *)
(* A refusal is held against the address only when a cap of its own was    *)
(* spent: one party's overage is not held against the others behind the    *)
(* address.  A running ban is never changed, and a ban is shorter than its *)
(* escalation only after a clean stretch.                                  *)
(***************************************************************************)
BansAreEarned ==
    [][\A ip \in Ips :
         /\ OpensOnEpisodes(ip)
         /\ Opens(ip) => Escalates(ip)
         /\ HeldAgainst(ip) => OwnCapFull(ip)]_vars

(***************************************************************************)
(* However callers spread over addresses, no minute and no day sees more   *)
(* allocations begun than it has slots, and every slot of the day that is  *)
(* taken is an allocation begun: no refusal takes one.                     *)
(***************************************************************************)
AllocationBudgets ==
    /\ Config.onboardGlobal > 0 =>
         Len(Prune(allocated, clock, Config.minuteMs)) <= Config.onboardGlobal
    /\ Config.dailyMax > 0 =>
         /\ Len(allocated) <= Config.dailyMax
         /\ Len(Prune(doors.daily.globalHits, clock, Config.dayMs))
              = Len(allocated)
=============================================================================
