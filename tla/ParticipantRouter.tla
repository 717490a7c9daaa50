-------------------------- MODULE ParticipantRouter --------------------------
(***************************************************************************)
(* Which of the two participants a party's calls go to.  A lookup asks the *)
(* primary, then the secondary, and its answer is remembered for a while;  *)
(* a participant that does not answer is left alone for a while.  Lookups  *)
(* overlap, and parties move between the participants.                     *)
(***************************************************************************)
EXTENDS Integers, SequencesExt

CONSTANTS
    Parties,
    Requests,           \* concurrent calls of forParty and hosts
    TtlMs,              \* ttlMs
    MaxEntries,         \* maxEntries
    LookupTimeoutMs,    \* lookupTimeoutMs
    UnavailableMs,      \* unavailableMs
    MaxMoves,           \* bound: changes of a party's hosts
    MaxTime             \* bound: the clock

Participants == {"primary", "secondary"}

VARIABLES
    clock,
    hosted,             \* the ledger: who hosts each party
    moves,              \* and how often that changed
    cache,              \* the map, oldest entry first
    unavailableUntil,
    req,                \* per request: the participant it is asking
    hostedAt,           \* history: when each participant last hosted a party
    absentAt            \* history: and when it last did not

ledger == <<hosted, moves>>
vars == <<clock, ledger, cache, unavailableUntil, req, hostedAt, absentAt>>

Hit(party) == {i \in DOMAIN cache : cache[i].party = party}
Unknown == "unknown"

\* the last answer remembered for a party, however old
Remembered(party) ==
    IF Hit(party) = {} THEN Unknown
    ELSE cache[CHOOSE i \in Hit(party) : TRUE].host

IsFresh(party) == \E i \in Hit(party) : clock - cache[i].at < TtlMs

Idle == [pc |-> "idle"]

Init ==
    /\ clock = 0
    /\ hosted \in [Parties -> SUBSET Participants]
    /\ moves = 0
    /\ cache = << >>
    /\ unavailableUntil = [p \in Participants |-> 0]
    /\ req = [r \in Requests |-> Idle]
    /\ hostedAt = [x \in Parties \X Participants |->
                     IF x[2] \in hosted[x[1]] THEN 0 ELSE -1]
    /\ absentAt = [x \in Parties \X Participants |->
                     IF x[2] \in hosted[x[1]] THEN -1 ELSE 0]

Asking(r) == req[r].pc \in Participants

\* the request goes to the participant of its answer: the primary when neither
\* hosts the party, or when nothing is known
Route(r, party, host, failed) ==
    req' = [req EXCEPT ![r] =
              [pc |-> "routed", party |-> party, host |-> host,
               failed |-> failed,
               to |-> IF host = "secondary" THEN "secondary" ELSE "primary"]]

\* a mutant: a failed lookup is a clean no
FailOver(r, party, hit) == Route(r, party, "secondary", TRUE)

\* no answer: the last one, as it was when the request came, and no guess
KeepLast(r, party, hit) == Route(r, party, hit, TRUE)

\* an answer is remembered, in the place of the oldest when the map is full
Remember(party, host) ==
    LET others == IF Hit(party) = {} THEN cache
                  ELSE RemoveAt(cache, CHOOSE i \in Hit(party) : TRUE)
        kept == IF Len(others) >= MaxEntries
                THEN SubSeq(others, Len(others) - MaxEntries + 2, Len(others))
                ELSE others
    IN  cache' = Append(kept, [party |-> party, host |-> host, at |-> clock])

\* ask(p): a participant found unavailable lately is not asked
Ask(r, p, party, hit) ==
    IF clock < unavailableUntil[p]
    THEN KeepLast(r, party, hit)
    ELSE req' = [req EXCEPT ![r] = [pc |-> p, party |-> party, hit |-> hit,
                                    deadline |-> clock + LookupTimeoutMs]]

\* resolve: a fresh entry answers at once, else the primary is asked
Resolve(r, party) ==
    /\ req[r] = Idle
    /\ IF IsFresh(party) THEN Route(r, party, Remembered(party), FALSE)
       ELSE Ask(r, "primary", party, Remembered(party))
    /\ UNCHANGED <<clock, ledger, cache, unavailableUntil, hostedAt, absentAt>>

Found(r, host) ==
    /\ Remember(req[r].party, host)
    /\ Route(r, req[r].party, host, FALSE)

\* the participant hosts the party
Yes(r) ==
    /\ Asking(r) /\ req[r].pc \in hosted[req[r].party]
    /\ Found(r, req[r].pc)
    /\ UNCHANGED <<clock, ledger, unavailableUntil, hostedAt, absentAt>>

\* it does not: the secondary is asked, and when it does not either nobody does
No(r) ==
    /\ Asking(r) /\ req[r].pc \notin hosted[req[r].party]
    /\ IF req[r].pc = "primary"
       THEN Ask(r, "secondary", req[r].party, req[r].hit) /\ UNCHANGED cache
       ELSE Found(r, "none")
    /\ UNCHANGED <<clock, ledger, unavailableUntil, hostedAt, absentAt>>

\* no answer in time, a 5xx or a 429 blames the participant; any other error
\* only this lookup
Fails(r, unavailable) ==
    /\ Asking(r)
    /\ unavailableUntil' = IF unavailable
                           THEN [unavailableUntil EXCEPT
                                   ![req[r].pc] = clock + UnavailableMs]
                           ELSE unavailableUntil
    /\ KeepLast(r, req[r].party, req[r].hit)
    /\ UNCHANGED <<clock, ledger, cache, hostedAt, absentAt>>

Done(r) ==
    /\ req[r].pc = "routed"
    /\ req' = [req EXCEPT ![r] = Idle]
    /\ UNCHANGED <<clock, ledger, cache, unavailableUntil, hostedAt, absentAt>>

\* a lookup does not outlive its deadline
Tick ==
    /\ clock < MaxTime
    /\ \A r \in Requests : Asking(r) => clock < req[r].deadline
    /\ clock' = clock + 1
    /\ hostedAt' = [x \in Parties \X Participants |->
                      IF x[2] \in hosted[x[1]] THEN clock' ELSE hostedAt[x]]
    /\ absentAt' = [x \in Parties \X Participants |->
                      IF x[2] \in hosted[x[1]] THEN absentAt[x] ELSE clock']
    /\ UNCHANGED <<ledger, cache, unavailableUntil, req>>

\* the party is replicated to a participant, or leaves it
Move(party, p) ==
    /\ moves < MaxMoves
    /\ moves' = moves + 1
    /\ hosted' = [hosted EXCEPT ![party] = IF p \in @ THEN @ \ {p} ELSE @ \cup {p}]
    /\ IF p \in hosted[party]
       THEN /\ absentAt' = [absentAt EXCEPT ![<<party, p>>] = clock]
            /\ UNCHANGED hostedAt
       ELSE /\ hostedAt' = [hostedAt EXCEPT ![<<party, p>>] = clock]
            /\ UNCHANGED absentAt
    /\ UNCHANGED <<clock, cache, unavailableUntil, req>>

Next ==
    \/ \E r \in Requests :
         \/ \E party \in Parties : Resolve(r, party)
         \/ Yes(r) \/ No(r) \/ Done(r)
         \/ \E unavailable \in BOOLEAN : Fails(r, unavailable)
    \/ \E party \in Parties, p \in Participants : Move(party, p)
    \/ Tick

Spec == Init /\ [][Next]_vars

-----------------------------------------------------------------------------

\* the oldest an answer may be when it routes a request
Oldest == clock - TtlMs - LookupTimeoutMs

Known(r, party) == IF Asking(r) THEN req[r].hit ELSE Remembered(party)

Routed(r) == req[r].pc # "routed" /\ req'[r].pc = "routed"

\* the answer a request is routed by, when it is routed
Evidence(r) ==
    LET route == req'[r]
        since == IF route.failed THEN 0 ELSE Oldest
        Hosted(p) == hostedAt[<<route.party, p>>] >= since
        Absent(p) == absentAt[<<route.party, p>>] >= since
    IN  /\ route.host \in Participants => Hosted(route.host)
        /\ route.to = "secondary" \/ route.host = "none" => Absent("primary")
        /\ route.host = "none" => Absent("secondary")
        /\ route.failed => route.host = Known(r, route.party)

(***************************************************************************)
(* A request goes where the ledger said, within an entry's life and a      *)
(* lookup: to a participant that hosted the party, and past the primary    *)
(* only when that did not.  When a participant fails to answer, what was   *)
(* known of the party as the request came decides, so that a blip moves no *)
(* party, and still nobody is sent past a primary that has always hosted   *)
(* him, however lookups overlap and parties move.                          *)
(***************************************************************************)
RoutedByEvidence ==
    [][\A r \in Requests : Routed(r) => Evidence(r)]_vars
=============================================================================
