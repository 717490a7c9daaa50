----------------------------- MODULE MCWalletRelay -----------------------------
(***************************************************************************)
(* Small instances, for TLC, of what a wallet meets at the relay: the      *)
(* verification of what it signs, and the relay's doors, budgets, caches,  *)
(* router, attribution and answers.  The components share no state, so a   *)
(* behaviour is one of one of them, and focus says of which.               *)
(***************************************************************************)
EXTENDS MCPrepared

CONSTANTS
    p, q, here, there,      \* parties and addresses
    call1, call2,           \* concurrent calls
    asset, asset2, pay1, pay2, NoRow

VARIABLES focus, now

-----------------------------------------------------------------------------
(* The doors of the wallet routes, once for the bans and once for the      *)
(* allocations, and the budget of wasted prepares.                         *)

VARIABLES doors, box, refused, doorServed, allocated
doorVars == <<doors, box, refused, doorServed, allocated>>

BanConfig ==
    [submitMax |-> 1, submitIpMax |-> 2, onboardGlobal |-> 0, dailyMax |-> 0,
     minuteMs |-> 2, dayMs |-> 4, strikesToBan |-> 2, strikeWindowMs |-> 5,
     strikeSpacingMs |-> 2, baseBanMs |-> 1, multiplier |-> 2, maxBanMs |-> 2]
AllocationConfig ==
    [BanConfig EXCEPT !.onboardGlobal = 1, !.dailyMax = 2, !.dayMs = 6,
                      !.strikesToBan = 0]

Bans == INSTANCE RelayDoors WITH
    Ips <- {here, there}, Senders <- {<<p, here>>, <<q, here>>},
    Doorways <- {<<"onboard/prepare", there>>}, Config <- BanConfig,
    MaxTime <- 5, clock <- now, served <- doorServed
Onboarding == INSTANCE RelayDoors WITH
    Ips <- {here, there}, Senders <- {},
    Doorways <- {<<"onboard/finalize", here>>, <<"onboard/finalize", there>>},
    Config <- AllocationConfig,
    MaxTime <- 6, clock <- now, served <- doorServed

VARIABLES waste, prepare, wasted
wasteVars == <<waste, prepare, wasted>>

Waste == INSTANCE PrepareBudget WITH
    Calls <- {call1, call2}, Pairs <- {<<p, here>>, <<p, there>>},
    WasteMax <- 1, WindowMs <- 2, MaxTime <- 5, clock <- now, call <- prepare

-----------------------------------------------------------------------------
(* The router, for two requests of one party and for two parties that      *)
(* compete for the one entry of the map.                                   *)

VARIABLES hosted, moves, cache, unavailableUntil, lookup, hostedAt, absentAt
routerVars ==
    <<hosted, moves, cache, unavailableUntil, lookup, hostedAt, absentAt>>

Router == INSTANCE ParticipantRouter WITH
    Parties <- {p}, Requests <- {call1, call2}, TtlMs <- 2, MaxEntries <- 1,
    LookupTimeoutMs <- 1, UnavailableMs <- 1, MaxMoves <- 1, MaxTime <- 3,
    clock <- now, req <- lookup
Full == INSTANCE ParticipantRouter WITH
    Parties <- {p, q}, Requests <- {call1}, TtlMs <- 2, MaxEntries <- 1,
    LookupTimeoutMs <- 1, UnavailableMs <- 1, MaxMoves <- 0, MaxTime <- 3,
    clock <- now, req <- lookup

-----------------------------------------------------------------------------
(* The caches of Scan, plain and keyed, and the token provider.            *)

VARIABLES slots, stamps, load, caller, served
cacheVars == <<slots, stamps, load, caller, served>>

Cache == INSTANCE SingleFlight WITH
    Callers <- {call1, call2}, Keys <- {asset}, MaxKeys <- 1, TtlMs <- 2,
    SkewMs <- 0, ServesStale <- FALSE, DropsSlots <- FALSE, LatencyMs <- 1,
    MaxTime <- 5, clock <- now
Token == INSTANCE SingleFlight WITH
    Callers <- {call1, call2}, Keys <- {asset}, MaxKeys <- 1, TtlMs <- 3,
    SkewMs <- 1, ServesStale <- TRUE, DropsSlots <- FALSE, LatencyMs <- 1,
    MaxTime <- 5, clock <- now
Keyed == INSTANCE SingleFlight WITH
    Callers <- {call1, call2}, Keys <- {asset, asset2}, MaxKeys <- 1, TtlMs <- 2,
    SkewMs <- 0, ServesStale <- FALSE, DropsSlots <- TRUE, LatencyMs <- 1,
    MaxTime <- 5, clock <- now

-----------------------------------------------------------------------------
(* Attribution, one row that two clients know of and two rows that one     *)
(* does; the relay's answers.                                              *)

VARIABLES truth, view, rows, batch, fetch, heard
attributionVars == <<truth, view, rows, batch, fetch, heard>>

Fallback == INSTANCE Attribution WITH
    Updates <- {pay1}, Clients <- <<"sv1", "sv2">>, MaxAttempts <- 2, Limit <- 1
Batches == INSTANCE Attribution WITH
    Updates <- {pay1, pay2}, Clients <- <<"sv1">>, MaxAttempts <- 2, Limit <- 1

VARIABLES prepared, told, call, subs, hidden
relayVars == <<prepared, told, call, subs, hidden>>

Relay == INSTANCE RelayAnswers WITH
    Calls <- {call1, call2}, MaxPrepared <- 2, MaxSubmissions <- 3

-----------------------------------------------------------------------------

MCInit ==
    /\ focus \in {"signing", "bans", "allocations", "waste", "router", "full",
                  "cache", "token", "keyed", "fallback", "batches", "relay"}
    /\ now = 0
    /\ IF focus = "signing" THEN Init
       ELSE /\ intent = "none" /\ tx = << >> /\ edits = 0 /\ harmless = TRUE
            /\ decision = "none"
    /\ IF focus = "allocations" THEN Onboarding!Init ELSE Bans!Init
    /\ Waste!Init
    /\ IF focus = "full" THEN Full!Init ELSE Router!Init
    /\ focus \in {"router", "full"} \/ hosted = [x \in {p} |-> {"primary"}]
    /\ CASE focus = "token" -> Token!Init
         [] focus = "keyed" -> Keyed!Init
         [] OTHER -> Cache!Init
    /\ IF focus = "batches" THEN Batches!Init ELSE Fallback!Init
    /\ focus = "fallback" \/ \A x \in DOMAIN truth : truth[x] = "accepted"
    /\ Relay!Init

Signing ==
    /\ focus = "signing" /\ Next
    /\ UNCHANGED <<now, doorVars, wasteVars, routerVars, cacheVars,
                   attributionVars, relayVars>>

Doors ==
    /\ \/ focus = "bans" /\ Bans!Next
       \/ focus = "allocations" /\ Onboarding!Next
    /\ UNCHANGED <<vars, wasteVars, routerVars, cacheVars, attributionVars,
                   relayVars>>

Prepares ==
    /\ focus = "waste" /\ Waste!Next
    /\ UNCHANGED <<vars, doorVars, routerVars, cacheVars, attributionVars,
                   relayVars>>

Lookups ==
    /\ \/ focus = "router" /\ Router!Next
       \/ focus = "full" /\ Full!Next
    /\ UNCHANGED <<vars, doorVars, wasteVars, cacheVars, attributionVars,
                   relayVars>>

Loads ==
    /\ \/ focus = "cache" /\ Cache!Next
       \/ focus = "token" /\ Token!Next
       \/ focus = "keyed" /\ Keyed!Next
    /\ UNCHANGED <<vars, doorVars, wasteVars, routerVars, attributionVars,
                   relayVars>>

Fetches ==
    /\ \/ focus = "fallback" /\ Fallback!Next
       \/ focus = "batches" /\ Batches!Next
    /\ UNCHANGED <<vars, now, doorVars, wasteVars, routerVars, cacheVars,
                   relayVars>>

Relays ==
    /\ focus = "relay" /\ Relay!Next
    /\ UNCHANGED <<vars, now, doorVars, wasteVars, routerVars, cacheVars,
                   attributionVars>>

MCNext ==
    /\ Signing \/ Doors \/ Prepares \/ Lookups \/ Loads \/ Fetches \/ Relays
    /\ UNCHANGED focus

MCSpec ==
    MCInit /\ [][MCNext]_<<focus, now, vars, doorVars, wasteVars, routerVars,
                           cacheVars, attributionVars, relayVars>>

-----------------------------------------------------------------------------

\* a ban is earned by the address itself (RelayDoors)
BansAreEarned == Bans!BansAreEarned

\* no minute and no day sees more allocations than it has slots, and no
\* refusal takes a slot of the day (RelayDoors)
AllocationBudgets == focus = "allocations" => Onboarding!AllocationBudgets

\* a pair that is refused has wasted its budget itself (PrepareBudget)
WasteIsOnesOwn == focus = "waste" => Waste!WasteIsOnesOwn

\* a request goes where the ledger said, and a blip moves no party
\* (ParticipantRouter)
RoutedByEvidence ==
    [][/\ focus = "router" =>
            \A r \in {call1, call2} : Router!Routed(r) => Router!Evidence(r)
       /\ (focus = "full" /\ Full!Routed(call1)) => Full!Evidence(call1)]_lookup

\* what a cache or the token provider serves is alive (SingleFlight)
ServedIsLive ==
    CASE focus = "cache" -> Cache!ServedIsLive
      [] focus = "token" -> Token!ServedIsLive
      [] focus = "keyed" -> Keyed!ServedIsLive
      [] OTHER -> TRUE

\* the report says what the ledger made of a payment, and an outage of Scan
\* gives no row up (Attribution)
OutageSpendsNothing ==
    CASE focus = "fallback" -> Fallback!OutageSpendsNothing
      [] focus = "batches" -> Batches!OutageSpendsNothing
      [] OTHER -> TRUE

\* a wallet that believes the relay pays once, but for lost answers
\* (RelayAnswers)
PaysOnceButForLostAnswers == focus = "relay" => Relay!PaysOnceButForLostAnswers
=============================================================================
