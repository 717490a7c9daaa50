---------------------------- MODULE MarkerWorker ----------------------------
(***************************************************************************)
(* The paid marker worker.  Once a minute it looks at the open mining      *)
(* round, prices the validator's traffic since the round before, and has   *)
(* the participant commit one activity marker for it.  Its memory is the   *)
(* table marker_rounds; the process may die, or a store call throw, at any *)
(* await, and either ends the tick with the table as it stands.            *)
(*                                                                         *)
(* One process runs the worker, as the deployment has it.                  *)
(***************************************************************************)
EXTENDS Integers, Sequences, FiniteSets

CONSTANTS
    MaxRound,           \* bound: mining rounds 1..MaxRound
    MaxTraffic,         \* bound: the traffic counter
    MaxAttempts,        \* bound: submissions recorded
    ReconcileRounds,    \* UNKNOWN_RECONCILE_ROUNDS
    MinBytes,           \* bytes that weigh MIN_LEDGER_WEIGHT
    MaxLag,             \* how far a traffic read may lag the counter
    SnapshotMayFail,    \* may a round be left without its traffic snapshot?
    RejectionMayLie     \* may a 4xx answer a submission that still lands?

ASSUME BoundsAssumption ==
    /\ {MaxRound, ReconcileRounds, MinBytes} \subseteq Nat \ {0}
    /\ {MaxTraffic, MaxAttempts, MaxLag} \subseteq Nat
ASSUME FaultsAssumption == {SnapshotMayFail, RejectionMayLie} \subseteq BOOLEAN

None == -1
Rounds == 1..MaxRound

VARIABLES
    traffic,    \* total_consumed, the validator's cumulative traffic
    round,      \* the open mining round
    rows,       \* marker_rounds
    attempts,   \* the submissions ever recorded, by submissionId
    log,        \* the completion stream: the attempts, as they completed
    pc,         \* the await the tick is at
    cur,        \* the round the tick took for current
    todo,       \* the unknown rounds it has still to reconcile
    target,     \* the round it processes
    edges       \* the window it has priced for that round

ledger == <<attempts, log>>
locals == <<cur, todo, target, edges>>
vars == <<traffic, round, rows, attempts, log, pc, cur, todo, target, edges>>

Statuses == {"absent", "pending", "failed", "unknown",
             "emitted", "seeded", "skipped", "expired"}
Retryable == {"pending", "failed"}

\* edge: traffic_consumed.  sub: submission_id.  priced: traffic_usd is set.
Rows == [status : Statuses, edge : Nat \cup {None}, sub : Nat,
         dedup : Nat \cup {None}, priced : BOOLEAN]
NoSub == 0
Absent == [status |-> "absent", edge |-> None, sub |-> NoSub,
           dedup |-> None, priced |-> FALSE]
Pending == [Absent EXCEPT !.status = "pending"]

\* an attempt claims the bytes lo + 1 .. hi
Attempts == [round : Rounds, lo : Nat, hi : Nat, dedup : Nat,
             state : {"recorded", "sent", "inflight", "accepted", "rejected",
                      "duplicate", "busy", "refused", "dropped"}]
Ids == 1..Len(attempts)
Of(r) == {a \in Ids : attempts[a].round = r}
InState(a, states) == attempts[a].state \in states

TypeOK ==
    /\ traffic \in 0..MaxTraffic
    /\ round \in Rounds
    /\ rows \in [Rounds -> Rows]
    /\ attempts \in Seq(Attempts)
    /\ log \in Seq(Ids)
    /\ pc \in {"idle", "reconcile", "expire", "current", "price", "offset",
               "submit", "answer", "catchup"}
    /\ cur \in Rounds
    /\ todo \in SUBSET Rounds
    /\ target \in Rounds
    /\ edges \in [lo : Nat, hi : Nat]

NoEdges == [lo |-> 0, hi |-> 0]

\* An attempt of a worker that predates the outcome tracking: its row says
\* failed and has neither submissionId nor offset, and it may yet commit.
LegacyRow == [status |-> "failed", edge |-> 0, sub |-> NoSub,
              dedup |-> None, priced |-> TRUE]
LegacyAttempt == [round |-> 1, lo |-> 0, hi |-> 0, dedup |-> 0,
                  state |-> "sent"]

Init ==
    /\ traffic = 0
    /\ round = 1
    /\ \/ /\ rows = [r \in Rounds |-> Absent]
          /\ attempts = << >>
       \/ /\ rows = [r \in Rounds |-> IF r = 1 THEN LegacyRow ELSE Absent]
          /\ attempts = <<LegacyAttempt>>
    /\ log = << >>
    /\ pc = "idle"
    /\ cur = 1
    /\ todo = {}
    /\ target = 1
    /\ edges = NoEdges

-----------------------------------------------------------------------------
(* The tick: processAllRounds.                                             *)

Floor == cur - ReconcileRounds

\* a mutant: the oldest round is neither read nor given up
TickPastFloor ==
    /\ pc = "idle"
    /\ cur' = round
    /\ todo' = {r \in Rounds : /\ rows[r].status = "unknown"
                               /\ r > round - ReconcileRounds}
    /\ pc' = "reconcile"
    /\ UNCHANGED <<traffic, round, rows, ledger, target, edges>>

\* getCurrentOpenRoundNumber, then the unknown rows that are worth reading
Tick ==
    /\ pc = "idle"
    /\ cur' = round
    /\ todo' = {r \in Rounds : /\ rows[r].status = "unknown"
                               /\ r >= round - ReconcileRounds}
    /\ pc' = "reconcile"
    /\ UNCHANGED <<traffic, round, rows, ledger, target, edges>>

\* a refusal: the round may be tried again until it is two rounds old
Refused(r) == [rows[r] EXCEPT !.status = IF cur > r + 1 THEN "expired"
                                                        ELSE "failed"]

\* the completions of r's attempts among the first n of the stream
Completed(r, n) == {log[i] : i \in (rows[r].dedup + 1)..n} \cap Of(r)

\* what the completions say of an unknown row
Resolved(r, seen) ==
    CASE \E a \in seen : InState(a, {"accepted"}) ->
            [rows[r] EXCEPT !.status = "emitted"]
      [] (\A a \in seen : ~InState(a, {"accepted"})) /\ rows[r].sub \in seen ->
            Refused(r)
      [] OTHER -> rows[r]

\* reconcileRow.  The read ends wherever its deadline cuts the stream, and
\* one that fails says no more than one that is cut at once.
ReconcileRow(r, n) ==
    /\ pc = "reconcile"
    /\ r \in todo
    /\ \A s \in todo : r <= s
    /\ n \in rows[r].dedup..Len(log)
    /\ todo' = todo \ {r}
    /\ rows' = [rows EXCEPT ![r] = Resolved(r, Completed(r, n))]
    /\ UNCHANGED <<traffic, round, ledger, pc, cur, target, edges>>

\* expireUnknown and expireRows
Expired(r) ==
    \/ rows[r].status = "unknown" /\ r < Floor
    \/ rows[r].status \in Retryable /\ r < cur - 1

Expire ==
    /\ pc = "reconcile"
    /\ todo = {}
    /\ rows' = [r \in Rounds |->
                  IF Expired(r) THEN [rows[r] EXCEPT !.status = "expired"]
                                ELSE rows[r]]
    /\ pc' = "current"
    /\ UNCHANGED <<traffic, round, ledger, locals>>

\* processRound(r) begins: insertPending gives way to a row that is there
Begin(r) ==
    /\ rows' = IF rows[r].status = "absent"
               THEN [rows EXCEPT ![r] = Pending] ELSE rows
    /\ target' = r
    /\ pc' = "price"
    /\ UNCHANGED <<traffic, round, ledger, cur, todo, edges>>

\* (the bound on attempts ends the model's retries)
Retries(r) == rows[r].status \in Retryable /\ Len(attempts) < MaxAttempts

\* the current round, when it has no row yet or one to try again
Current ==
    /\ pc = "current"
    /\ IF rows[cur].status = "absent" \/ Retries(cur)
       THEN Begin(cur)
       ELSE /\ pc' = "catchup"
            /\ UNCHANGED <<traffic, round, rows, ledger, locals>>

\* getPendingRetry: after expireRows only the round before can be there
CatchUp ==
    /\ pc = "catchup"
    /\ IF cur - 1 \in Rounds /\ Retries(cur - 1)
       THEN Begin(cur - 1)
       ELSE /\ pc' = "idle"
            /\ UNCHANGED <<traffic, round, rows, ledger, locals>>

-----------------------------------------------------------------------------
(* One round: processRound.                                                *)

\* processRound returns, having left this row
Return(row) ==
    /\ rows' = [rows EXCEPT ![target] = row]
    /\ edges' = NoEdges
    /\ pc' = IF target = cur THEN "catchup" ELSE "idle"
    /\ UNCHANGED <<traffic, round, cur, todo, target>>

\* getPrevRound
Before == {r \in Rounds : r < target /\ rows[r].status # "absent"}
Prev == CHOOSE r \in Before : \A s \in Before : s <= r

\* the previous round's row gives a baseline for exactly one round
Baseline == Before # {} /\ Prev = target - 1 /\ rows[Prev].edge # None

Legacy(row) == row.status = "failed" /\ row.sub = NoSub /\ row.priced

\* the right edge of the window: a retry prices from the edge the round
\* recorded, a first attempt from what the traffic status says
Readings == ((traffic - MaxLag)..traffic) \cap Nat
\* (a mutant: always from the traffic status)
LiveEdges(row) == Readings
RightEdges(row) == IF row.edge # None THEN {row.edge} ELSE Readings

\* a mutant: a round below the floor advances the edge
PricedAdvancing(row, c) ==
    LET from == rows[Prev].edge
        settledAs(status, edge) ==
            Return([row EXCEPT !.status = status, !.edge = edge]) IN
    \/ ~Baseline /\ settledAs("seeded", c)
    \/ Baseline /\ c - from < MinBytes /\ settledAs("skipped", c)
    \/ /\ Baseline /\ c - from >= MinBytes
       /\ edges' = [lo |-> from, hi |-> c]
       /\ pc' = "offset"
       /\ UNCHANGED <<traffic, round, rows, cur, todo, target>>

\* the decision on a window that ends at c
Priced(row, c) ==
    LET from == rows[Prev].edge
        settledAs(status, edge) ==
            Return([row EXCEPT !.status = status, !.edge = edge]) IN
    \/ ~Baseline /\ settledAs("seeded", c)
    \/ Baseline /\ c <= from /\ settledAs("skipped", c)
    \/ /\ Baseline /\ c > from /\ c - from < MinBytes
       /\ settledAs("skipped", from)
    \/ /\ Baseline /\ c > from /\ c - from >= MinBytes
       /\ edges' = [lo |-> from, hi |-> c]
       /\ pc' = "offset"
       /\ UNCHANGED <<traffic, round, rows, cur, todo, target>>

Price ==
    /\ pc = "price"
    /\ LET row == rows[target] IN
        \/ /\ Legacy(row)
           /\ Return([row EXCEPT !.status = "expired"])
        \/ /\ ~Legacy(row)
           /\ \E c \in RightEdges(row) : Priced(row, c)
        \/ /\ ~Legacy(row) /\ row.edge = None /\ SnapshotMayFail
           /\ Return(row)
    /\ UNCHANGED ledger

\* getLedgerEnd failed: nothing is submitted, the right edge is kept
KeepEdge ==
    /\ pc = "offset"
    /\ rows[target].dedup = None
    /\ Return([rows[target] EXCEPT !.edge = edges.hi])
    /\ UNCHANGED ledger

\* the attempt is written down before it is submitted, with the offset of
\* the round's first attempt
\* (mutants: each attempt's own offset, and one that is off by one)
OwnOffset(row) == Len(log)
OffsetBefore(row) == IF row.dedup # None THEN row.dedup ELSE Len(log) - 1
DedupOffset(row) == IF row.dedup # None THEN row.dedup ELSE Len(log)

\* a mutant: the row waits for the answer before it is unknown
RecordAttemptPending ==
    /\ pc = "offset"
    /\ LET offset == DedupOffset(rows[target]) IN
        /\ attempts' = Append(attempts,
                         [round |-> target, lo |-> edges.lo, hi |-> edges.hi,
                          dedup |-> offset, state |-> "recorded"])
        /\ rows' = [rows EXCEPT ![target] =
                      [status |-> rows[target].status, edge |-> edges.hi,
                       sub |-> Len(attempts) + 1, dedup |-> offset,
                       priced |-> TRUE]]
    /\ pc' = "submit"
    /\ UNCHANGED <<traffic, round, log, locals>>

RecordAttempt ==
    /\ pc = "offset"
    /\ LET offset == DedupOffset(rows[target]) IN
        /\ attempts' = Append(attempts,
                         [round |-> target, lo |-> edges.lo, hi |-> edges.hi,
                          dedup |-> offset, state |-> "recorded"])
        /\ rows' = [rows EXCEPT ![target] =
                      [status |-> "unknown", edge |-> edges.hi,
                       sub |-> Len(attempts) + 1, dedup |-> offset,
                       priced |-> TRUE]]
    /\ pc' = "submit"
    /\ UNCHANGED <<traffic, round, log, locals>>

Become(a, state) == attempts' = [attempts EXCEPT ![a].state = state]

Send ==
    /\ pc = "submit"
    /\ Become(rows[target].sub, "sent")
    /\ pc' = "answer"
    /\ UNCHANGED <<traffic, round, rows, log, locals>>

\* the transaction comes back; a failed update leaves the row unknown
Answered ==
    /\ pc = "answer"
    /\ InState(rows[target].sub, {"accepted"})
    /\ \/ Return([rows[target] EXCEPT !.status = "emitted"])
       \/ Return(rows[target])
    /\ UNCHANGED ledger

\* classifySubmitFailure: "rejected"
AnsweredRejected ==
    /\ pc = "answer"
    /\ InState(rows[target].sub, {"refused", "rejected"}) \/ RejectionMayLie
    /\ Return(Refused(target))
    /\ UNCHANGED ledger

\* a mutant: a lost answer is a failure
AnsweredUnknownFails ==
    /\ pc = "answer"
    /\ Return(Refused(target))
    /\ UNCHANGED ledger

\* "duplicate" and "unknown": the completion stream will tell
AnsweredUnknown ==
    /\ pc = "answer"
    /\ Return(rows[target])
    /\ UNCHANGED ledger

\* the process dies, or a store call or the round read throws
Abandon ==
    /\ pc # "idle"
    /\ pc \in {"price", "offset"} /\ rows[target].edge = None
         => SnapshotMayFail
    /\ pc' = "idle"
    /\ todo' = {}
    /\ edges' = NoEdges
    /\ UNCHANGED <<traffic, round, rows, ledger, cur, target>>

Worker ==
    \/ Tick \/ Expire \/ Current \/ CatchUp
    \/ Price \/ KeepEdge \/ RecordAttempt \/ Send
    \/ Answered \/ AnsweredRejected \/ AnsweredUnknown
    \/ \E r \in Rounds, n \in 0..Len(log) : ReconcileRow(r, n)

-----------------------------------------------------------------------------
(* The participant, the network, the traffic and the mining rounds.        *)

\* an earlier attempt for the round was accepted past the deduplication
\* offset, or is pending
Deduplicated(a) ==
    \E i \in (attempts[a].dedup + 1)..Len(log) :
        log[i] \in Of(attempts[a].round) /\ InState(log[i], {"accepted"})
Occupied(a) == \E b \in Of(attempts[a].round) : InState(b, {"inflight"})

\* the submission reaches the participant, at once or after its sender gave up
Register(a) ==
    /\ InState(a, {"sent"})
    /\ \/ Deduplicated(a) /\ Become(a, "duplicate")
       \/ Occupied(a) /\ Become(a, "busy")
       \/ /\ ~Deduplicated(a) /\ ~Occupied(a)
          /\ Become(a, "inflight") \/ Become(a, "refused")
    /\ UNCHANGED <<traffic, round, rows, log, pc, locals>>

\* or never does
Drop(a) ==
    /\ InState(a, {"sent"})
    /\ Become(a, "dropped")
    /\ UNCHANGED <<traffic, round, rows, log, pc, locals>>

\* every submission that was registered gets a completion
Complete(a) ==
    /\ InState(a, {"inflight"})
    /\ Become(a, "accepted") \/ Become(a, "rejected")
    /\ log' = Append(log, a)
    /\ UNCHANGED <<traffic, round, rows, pc, locals>>

Burn ==
    /\ traffic < MaxTraffic
    /\ traffic' = traffic + 1
    /\ UNCHANGED <<round, rows, ledger, pc, locals>>

OpenRound ==
    /\ round < MaxRound
    /\ round' = round + 1
    /\ UNCHANGED <<traffic, rows, ledger, pc, locals>>

Environment ==
    \/ \E a \in Ids : Register(a) \/ Drop(a) \/ Complete(a)
    \/ Burn \/ OpenRound

Next == Worker \/ Abandon \/ Environment

Spec == Init /\ [][Next]_vars

(***************************************************************************)
(* The timer keeps ticking, the participant completes what it registered,  *)
(* and a stream that could be read to its end again and again is.          *)
(***************************************************************************)
Fairness ==
    /\ WF_vars(Worker)
    /\ \A a \in 1..MaxAttempts + 1 : WF_vars(a \in Ids /\ Complete(a))
    /\ \A r \in Rounds : SF_vars(ReconcileRow(r, Len(log)))

FairSpec == Spec /\ Fairness

-----------------------------------------------------------------------------
(* Properties.                                                             *)

Accepted == {a \in Ids : InState(a, {"accepted"})}

(***************************************************************************)
(* At most one marker per mining round is ever committed: the one promise  *)
(* the worker's whole mechanism exists for.                                *)
(***************************************************************************)
AtMostOneMarker ==
    \A a, b \in Accepted : attempts[a].round = attempts[b].round => a = b

(***************************************************************************)
(* A round is never submitted while an earlier submission for it may still *)
(* commit, whatever was lost and wherever the process died: what was       *)
(* written down keeps the next tick from it.                               *)
(***************************************************************************)
Doubt(r) == \E a \in Of(r) : InState(a, {"sent", "inflight", "accepted"})
ResubmitsInDoubt == pc = "submit" /\ pc' = "answer" /\ Doubt(target)
NeverResubmitsInDoubt == [][~ResubmitsInDoubt]_vars

(***************************************************************************)
(* A row that says emitted has its marker on the ledger, and a row that    *)
(* may be tried again has none.                                            *)
(***************************************************************************)
RowsAreTrue ==
    \A r \in Rounds :
        /\ rows[r].status = "emitted" => \E a \in Accepted : a \in Of(r)
        /\ rows[r].status \in Retryable /\ ~Legacy(rows[r]) =>
               ~\E a \in Accepted : a \in Of(r)

(***************************************************************************)
(* No byte of traffic is claimed by two markers, of whichever rounds: "one *)
(* marker claims them all, exactly once".                                  *)
(***************************************************************************)
NoByteClaimedTwice ==
    \A a, b \in Accepted :
        a # b => \/ attempts[a].hi <= attempts[b].lo
                 \/ attempts[b].hi <= attempts[a].lo

(***************************************************************************)
(* And none is dropped by the floor: between two markers with nothing but  *)
(* skipped rounds between them, the later begins where the earlier ended.  *)
(***************************************************************************)
CarriedBytesAreClaimed ==
    \A a, b \in Accepted :
        LET i == attempts[a].round
            j == attempts[b].round IN
        i < j /\ (\A r \in (i + 1)..(j - 1) : rows[r].status = "skipped")
            => attempts[b].lo = attempts[a].hi

(***************************************************************************)
(* A marker whose answer was lost is found in the completion stream, unless*)
(* the worker has given the round up by then.                              *)
(***************************************************************************)
LostAnswersAreFound ==
    \A r \in Rounds :
        (rows[r].status = "unknown" /\ \E a \in Accepted : a \in Of(r))
            ~> rows[r].status \in {"emitted", "expired"}
=============================================================================
