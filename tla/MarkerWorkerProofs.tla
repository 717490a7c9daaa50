-------------------------- MODULE MarkerWorkerProofs --------------------------
(***************************************************************************)
(* The guarantees of the marker worker, for any number of mining rounds,   *)
(* bytes and attempts: one marker per round whatever is lost; with honest  *)
(* refusals no round submitted again in doubt, and rows that are true; with *)
(* fresh readings, each recorded as it is taken, no byte claimed twice and *)
(* none dropped.                                                           *)
(***************************************************************************)
EXTENDS MarkerWorker, SequenceTheorems, TLAPS

(***************************************************************************)
(* The invariant that needs no assumption.                                 *)
(***************************************************************************)

\* what the row of the round in process is at each await, and that a tick
\* reconciles unknown rows only
TargetHolds ==
    /\ pc \in {"price", "offset"} => rows[target].status \in Retryable
    /\ pc = "offset" => ~Legacy(rows[target])
    /\ pc \in {"submit", "answer"} => rows[target].status = "unknown"
    /\ pc = "submit" => InState(rows[target].sub, {"recorded"})
    /\ pc # "reconcile" => todo = {}
    /\ \A r \in todo : rows[r].status = "unknown"

\* an unknown row names its attempt and the offset to read completions from
RowsHold ==
    \A r \in Rounds :
      /\ rows[r].status = "absent" => rows[r] = Absent
      /\ rows[r].dedup # None => rows[r].dedup <= Len(log)
      /\ rows[r].status = "unknown" =>
           /\ rows[r].dedup # None
           /\ rows[r].sub \in Ids /\ attempts[rows[r].sub].round = r
           /\ attempts[rows[r].sub].dedup = rows[r].dedup

\* the one attempt of a row that an older worker left, which is never retried
OlderWorkers(r) ==
    /\ rows[r].dedup = None
    /\ Legacy(rows[r]) \/ rows[r].status = "expired"
    /\ \A a, b \in Of(r) : a = b

\* every attempt of a round is deduplicated from the offset its row has
AttemptsHold ==
    \A a \in Ids :
      LET r == attempts[a].round
      IN  rows[r].dedup = attempts[a].dedup \/ OlderWorkers(r)

\* the stream has the attempts that completed, an accepted one past its offset
LogHolds ==
    /\ \A i \in 1 .. Len(log) : InState(log[i], {"accepted", "rejected"})
    /\ \A a \in Ids : attempts[a].dedup <= Len(log)
    /\ \A a \in Accepted : \E i \in (attempts[a].dedup + 1) .. Len(log) : log[i] = a

\* of a round's attempts at most one is registered or accepted
OneRegistered ==
    \A a, b \in Ids :
      /\ attempts[a].round = attempts[b].round
      /\ InState(a, {"inflight", "accepted"}) /\ InState(b, {"inflight", "accepted"})
      => a = b

Inv == TypeOK /\ TargetHolds /\ RowsHold /\ AttemptsHold /\ LogHolds /\ OneRegistered

(***************************************************************************)
(* What is added when a refusal is one.                                    *)
(***************************************************************************)

Honest == RejectionMayLie = FALSE

\* an attempt that has committed, or still may
InDoubt(a) == InState(a, {"sent", "inflight", "accepted"})

\* what a row says of its round's attempts: one that may be tried again has
\* none in doubt, one whose outcome is unknown at most the last, and one that
\* was emitted has its marker
RowIsTrue(r, row) ==
    /\ row.status \in Retryable /\ ~Legacy(row) => \A a \in Of(r) : ~InDoubt(a)
    /\ row.status = "unknown" => \A a \in Of(r) \ {row.sub} : ~InDoubt(a)
    /\ row.status = "emitted" => \E a \in Of(r) : InState(a, {"accepted"})

DoubtHolds == \A r \in Rounds : RowIsTrue(r, rows[r])

DoubtInv == Inv /\ DoubtHolds

(***************************************************************************)
(* What is added when the traffic reading is fresh and recorded as it is   *)
(* taken.                                                                  *)
(***************************************************************************)

Fresh == MaxLag = 0 /\ SnapshotMayFail = FALSE

\* the tick's rounds, none later than the open one, and where a row has no edge
RoundsHold ==
    /\ cur <= round
    /\ \A r \in Rounds : r > cur => rows[r].status = "absent"
    /\ pc \in {"price", "offset", "submit", "answer"} => target \in {cur - 1, cur}
    /\ \A r \in Rounds : rows[r].status # "absent" /\ rows[r].edge = None =>
         pc \in {"price", "offset"} /\ target = r /\ r = cur

\* edges ascend with the rounds, up to the traffic
EdgesHold ==
    \A r \in Rounds :
      /\ rows[r].priced => rows[r].edge # None
      /\ rows[r].edge # None =>
           /\ rows[r].edge <= traffic
           /\ \A s \in Rounds : s < r /\ rows[s].edge # None => rows[s].edge <= rows[r].edge

\* the round before has an edge, and hi is at least the floor above it
IsWindow(r, hi) ==
    r - 1 \in Rounds /\ rows[r - 1].edge # None /\ hi - rows[r - 1].edge >= MinBytes

\* a row that may still be submitted has a window above the floor
Due == Retryable \cup {"unknown"}
WindowsHold ==
    \A r \in Rounds :
      rows[r].status \in Due /\ rows[r].edge # None =>
        Legacy(rows[r]) \/ IsWindow(r, rows[r].edge)

\* the window that is about to be submitted is the round's, and ends at its edge
PricedHolds ==
    pc = "offset" =>
      /\ IsWindow(target, edges.hi) /\ edges.lo = rows[target - 1].edge
      /\ edges.hi <= traffic
      /\ rows[target].edge # None => edges.hi = rows[target].edge

\* an attempt claims what lies between its round's edge and the one before
ClaimsHold ==
    \A a \in Ids :
      LET r == attempts[a].round
      IN  /\ rows[r].edge # None /\ attempts[a].hi = rows[r].edge
          /\ r > 1 => rows[r - 1].edge # None /\ attempts[a].lo = rows[r - 1].edge

\* skipped rounds carry the edge of the last one that was not
SkipsHold ==
    \A r, s \in Rounds :
      r < s /\ rows[r].edge # None /\ (\A k \in (r + 1) .. s : rows[k].status = "skipped")
        => rows[s].edge = rows[r].edge

Windows ==
    RoundsHold /\ EdgesHold /\ WindowsHold /\ PricedHolds /\ ClaimsHold /\ SkipsHold

WindowsInv == Inv /\ Windows

-----------------------------------------------------------------------------
(* How rows and attempts move.                                             *)

LEMMA Constants ==
    /\ MaxRound \in Nat \ {0} /\ ReconcileRounds \in Nat \ {0} /\ MinBytes \in Nat \ {0}
    /\ MaxTraffic \in Nat /\ MaxAttempts \in Nat /\ MaxLag \in Nat
    /\ SnapshotMayFail \in BOOLEAN /\ RejectionMayLie \in BOOLEAN
  BY BoundsAssumption, FaultsAssumption

States == {"recorded", "sent", "inflight", "accepted", "rejected",
           "duplicate", "busy", "refused", "dropped"}

LEMMA AttemptIs ==
    ASSUME TypeOK, NEW a \in Ids
    PROVE  /\ attempts[a] \in Attempts
           /\ attempts[a].round \in Rounds
           /\ attempts[a].lo \in Nat /\ attempts[a].hi \in Nat
           /\ attempts[a].dedup \in Nat
           /\ attempts[a].state \in States
  <1>1. attempts \in Seq(Attempts) /\ a \in 1 .. Len(attempts)
    BY DEF TypeOK, Ids
  <1>2. attempts[a] \in Attempts
    BY <1>1, ElementOfSeq
  <1> QED
    BY <1>2 DEF Attempts, States

\* a row that keeps its offset and submission
RowMoves(r) ==
    /\ rows'[r] \in Rows
    /\ rows'[r].dedup = rows[r].dedup /\ rows'[r].sub = rows[r].sub
    /\ rows'[r].status = "unknown" => rows[r].status = "unknown"
    /\ rows'[r].status = "absent" => rows'[r] = rows[r]
    /\ Legacy(rows[r]) \/ rows[r].status = "expired" =>
         Legacy(rows'[r]) \/ rows'[r].status = "expired"

LEMMA RowsMove ==
    ASSUME Inv, UNCHANGED ledger, \A r \in Rounds : RowMoves(r)
    PROVE  RowsHold' /\ AttemptsHold' /\ LogHolds' /\ OneRegistered'
  <1>1. RowsHold'
    BY DEF Inv, RowsHold, RowMoves, ledger, Ids
  <1>2. AttemptsHold'
    <2>1. ASSUME NEW r \in Rounds, OlderWorkers(r) PROVE OlderWorkers(r)'
      BY <2>1 DEF OlderWorkers, RowMoves, Legacy, Of, Ids, ledger
    <2>2. ASSUME NEW a \in Ids, NEW r \in Rounds, attempts[a].round = r
          PROVE  rows'[r].dedup = attempts[a].dedup \/ OlderWorkers(r)'
      BY <2>1, <2>2 DEF Inv, AttemptsHold, RowMoves
    <2>3. attempts' = attempts /\ Ids' = Ids
      BY DEF ledger, Ids
    <2>4. \A a \in Ids : attempts[a].round \in Rounds
      BY AttemptIs DEF Inv
    <2> QED
      BY <2>2, <2>3, <2>4 DEF AttemptsHold
  <1>3. LogHolds' /\ OneRegistered'
    BY DEF Inv, LogHolds, OneRegistered, ledger, Ids, InState, Accepted
  <1> QED
    BY <1>1, <1>2, <1>3

\* one row, replaced
LEMMA RowReplaced ==
    ASSUME TypeOK, NEW r \in Rounds, NEW row \in Rows, rows' = [rows EXCEPT ![r] = row]
    PROVE  /\ rows' \in [Rounds -> Rows]
           /\ rows'[r] = row
           /\ \A s \in Rounds : s # r => rows'[s] = rows[s]
  BY DEF TypeOK

LEMMA OneRowMoves ==
    ASSUME TypeOK, NEW r \in Rounds, RowMoves(r),
           \A s \in Rounds : s # r => rows'[s] = rows[s]
    PROVE  \A s \in Rounds : RowMoves(s)
  BY DEF RowMoves, TypeOK

LEMMA SameRowsMove ==
    ASSUME TypeOK, UNCHANGED rows
    PROVE  \A s \in Rounds : RowMoves(s)
  BY DEF RowMoves, TypeOK

\* a row with another status or edge
LEMMA RowIs ==
    ASSUME NEW row \in Rows, NEW status \in Statuses, NEW edge \in Nat \cup {None}
    PROVE  /\ [row EXCEPT !.status = status] \in Rows
           /\ [row EXCEPT !.edge = edge] \in Rows
           /\ [row EXCEPT !.status = status, !.edge = edge] \in Rows
  BY DEF Rows

\* one attempt in another state
LEMMA Becomes ==
    ASSUME TypeOK, NEW a \in Ids, NEW state \in States, Become(a, state)
    PROVE  /\ attempts' \in Seq(Attempts)
           /\ Len(attempts') = Len(attempts) /\ Ids' = Ids
           /\ \A b \in Ids :
                /\ attempts'[b].round = attempts[b].round
                /\ attempts'[b].lo = attempts[b].lo
                /\ attempts'[b].hi = attempts[b].hi
                /\ attempts'[b].dedup = attempts[b].dedup
                /\ attempts'[b].state = IF b = a THEN state ELSE attempts[b].state
  <1> DEFINE moved == [attempts[a] EXCEPT !.state = state]
  <1>1. attempts \in Seq(Attempts) /\ a \in 1 .. Len(attempts)
    BY DEF TypeOK, Ids
  <1>2. attempts[a] \in Attempts
    BY <1>1, ElementOfSeq
  <1>3. moved \in Attempts
    BY <1>2 DEF Attempts, States
  <1>4. attempts' = [attempts EXCEPT ![a] = moved]
    BY DEF Become
  <1>5. /\ attempts' \in Seq(Attempts) /\ Len(attempts') = Len(attempts)
        /\ \A b \in 1 .. Len(attempts) :
             attempts'[b] = IF b = a THEN moved ELSE attempts[b]
    <2> HIDE DEF moved
    <2> QED
      BY <1>1, <1>3, <1>4, ExceptSeq
  <1>6. /\ moved.round = attempts[a].round /\ moved.lo = attempts[a].lo
        /\ moved.hi = attempts[a].hi /\ moved.dedup = attempts[a].dedup
        /\ moved.state = state
    BY <1>2 DEF Attempts
  <1> QED
    <2> HIDE DEF moved
    <2> QED
      BY <1>5, <1>6 DEF Ids

-----------------------------------------------------------------------------

LEMMA Initially == Init => Inv
  <1> SUFFICES ASSUME Init PROVE Inv
    OBVIOUS
  <1> USE Constants
  <1>1. 1 \in Rounds /\ log = << >> /\ Len(log) = 0
    BY DEF Rounds, Init
  <1>2. LegacyRow \in Rows /\ Absent \in Rows /\ LegacyAttempt \in Attempts
         /\ Absent.status = "absent" /\ Absent.dedup = None
         /\ LegacyRow.status = "failed" /\ LegacyRow.dedup = None
    BY <1>1 DEF Rows, Absent, LegacyRow, LegacyAttempt, Attempts, Statuses, NoSub, None
  <1>3. CASE /\ rows = [r \in Rounds |-> Absent]
             /\ attempts = << >>
    <2>1. Ids = {} /\ attempts \in Seq(Attempts) /\ log \in Seq(Ids)
      BY <1>1, <1>3 DEF Ids
    <2>2. \A r \in Rounds : rows[r] = Absent
      BY <1>3
    <2>3. rows \in [Rounds -> Rows]
      BY <1>2, <1>3
    <2>4. TypeOK
      BY <1>1, <2>1, <2>3 DEF Init, TypeOK, NoEdges
    <2>5. TargetHolds
      BY DEF Init, TargetHolds
    <2> RowsHold
      BY <1>2, <2>2 DEF RowsHold
    <2>6. AttemptsHold /\ LogHolds /\ OneRegistered
      BY <1>1, <2>1 DEF AttemptsHold, LogHolds, OneRegistered, Accepted
    <2> QED
      BY <2>4, <2>5, <2>6 DEF Inv
  <1>4. CASE /\ rows = [r \in Rounds |-> IF r = 1 THEN LegacyRow ELSE Absent]
             /\ attempts = <<LegacyAttempt>>
    <2>1. /\ Len(attempts) = 1 /\ Ids = {1} /\ attempts[1] = LegacyAttempt
          /\ attempts \in Seq(Attempts) /\ log \in Seq(Ids)
      BY <1>1, <1>2, <1>4 DEF Ids
    <2>2. \A r \in Rounds : rows[r] = IF r = 1 THEN LegacyRow ELSE Absent
      BY <1>4
    <2>3. rows \in [Rounds -> Rows]
      BY <1>2, <1>4
    <2>4. TypeOK
      BY <1>1, <2>1, <2>3 DEF Init, TypeOK, NoEdges
    <2>5. TargetHolds
      BY DEF Init, TargetHolds
    <2> RowsHold
      BY <1>2, <2>2 DEF RowsHold
    <2>6. AttemptsHold
      BY <1>1, <2>1, <2>2 DEF AttemptsHold, OlderWorkers, Legacy, LegacyRow,
         LegacyAttempt, Of
    <2>7. LogHolds /\ OneRegistered
      BY <1>1, <2>1 DEF LogHolds, OneRegistered, LegacyAttempt, Accepted, InState
    <2> QED
      BY <2>4, <2>5, <2>6, <2>7 DEF Inv
  <1> QED
    BY <1>3, <1>4 DEF Init

-----------------------------------------------------------------------------
(* Steps of the tick, which leave the attempts alone.                      *)

LEMMA KeepsLedger ==
    ASSUME Inv, UNCHANGED ledger, \A r \in Rounds : RowMoves(r),
           rows' \in [Rounds -> Rows], traffic' \in 0 .. MaxTraffic, round' \in Rounds,
           pc' \in {"idle", "reconcile", "expire", "current", "price", "offset",
                    "submit", "answer", "catchup"},
           cur' \in Rounds, todo' \subseteq Rounds, target' \in Rounds,
           edges' \in [lo : Nat, hi : Nat], TargetHolds'
    PROVE  Inv'
  <1>1. TypeOK'
    BY DEF Inv, TypeOK, ledger, Ids
  <1> QED
    BY <1>1, RowsMove DEF Inv

LEMMA TickHolds == ASSUME Inv, Tick PROVE Inv'
  <1>1. TargetHolds'
    BY DEF Tick, TargetHolds
  <1>2. \A r \in Rounds : RowMoves(r)
    BY SameRowsMove DEF Inv, Tick
  <1> QED
    BY <1>1, <1>2, KeepsLedger DEF Inv, TypeOK, Tick, ledger

LEMMA ResolvedIs ==
    ASSUME TypeOK, NEW r \in Rounds, rows[r].status = "unknown", NEW seen,
           NEW row, row = Resolved(r, seen)
    PROVE  /\ row \in Rows /\ row.dedup = rows[r].dedup /\ row.sub = rows[r].sub
           /\ row.edge = rows[r].edge
           /\ row.status \in {"emitted", "expired", "failed", "unknown"}
           /\ row.status = "emitted" => \E a \in seen : InState(a, {"accepted"})
           /\ row.status = "failed" =>
                /\ rows[r].sub \in seen
                /\ \A a \in seen : ~InState(a, {"accepted"})
  <1>1. rows[r] \in Rows
    BY DEF TypeOK
  <1>2. /\ "emitted" \in Statuses /\ "expired" \in Statuses /\ "failed" \in Statuses
    BY DEF Statuses
  <1> QED
    BY <1>1, <1>2 DEF Resolved, Refused, Rows

LEMMA ReconcileHolds ==
    ASSUME Inv, NEW r \in Rounds, NEW n \in Nat, ReconcileRow(r, n) PROVE Inv'
  <1> DEFINE row == Resolved(r, Completed(r, n))
  <1>1. rows[r].status = "unknown"
    BY DEF Inv, TargetHolds, ReconcileRow
  <1>2. /\ row \in Rows /\ row.dedup = rows[r].dedup /\ row.sub = rows[r].sub
        /\ row.status # "absent"
    BY <1>1, ResolvedIs DEF Inv
  <1>3. rows' = [rows EXCEPT ![r] = row]
    BY DEF ReconcileRow
  <1> HIDE DEF row
  <1>4. /\ rows' \in [Rounds -> Rows] /\ rows'[r] = row
        /\ \A s \in Rounds : s # r => rows'[s] = rows[s]
    BY <1>2, <1>3, RowReplaced DEF Inv
  <1>5. RowMoves(r)
    BY <1>1, <1>2, <1>4 DEF RowMoves, Legacy
  <1>6. \A s \in Rounds : RowMoves(s)
    BY <1>4, <1>5, OneRowMoves DEF Inv
  <1>7. TargetHolds'
    BY <1>4 DEF ReconcileRow, Inv, TypeOK, TargetHolds
  <1> QED
    BY <1>4, <1>6, <1>7, KeepsLedger DEF ReconcileRow, Inv, TypeOK

LEMMA ExpireHolds == ASSUME Inv, Expire PROVE Inv'
  <1>1. \A r \in Rounds :
          /\ rows[r] \in Rows
          /\ [rows[r] EXCEPT !.status = "expired"] \in Rows
          /\ Expired(r) => rows'[r] = [rows[r] EXCEPT !.status = "expired"]
          /\ ~Expired(r) => rows'[r] = rows[r]
    BY DEF Inv, TypeOK, Expire, Rows, Statuses
  <1>2. \A r \in Rounds : RowMoves(r)
    BY <1>1 DEF RowMoves, Rows
  <1>3. rows' \in [Rounds -> Rows]
    BY <1>1 DEF Expire
  <1>4. TargetHolds'
    BY DEF Expire, TargetHolds, locals
  <1> QED
    BY <1>2, <1>3, <1>4, KeepsLedger DEF Expire, Inv, TypeOK, locals

LEMMA BeginHolds ==
    ASSUME Inv, NEW r \in Rounds, pc # "reconcile",
           rows[r].status \in {"absent"} \cup Retryable, Begin(r)
    PROVE  Inv'
  <1>1. /\ Pending \in Rows /\ Pending.status = "pending"
        /\ Pending.dedup = Absent.dedup /\ Pending.sub = Absent.sub
    BY DEF Pending, Absent, Rows, Statuses, NoSub, None
  <1>2. rows[r].status = "absent" => rows[r] = Absent
    BY DEF Inv, RowsHold
  <1>3. CASE rows[r].status = "absent"
    <2>1. rows' = [rows EXCEPT ![r] = Pending]
      BY <1>3 DEF Begin
    <2>2. /\ rows' \in [Rounds -> Rows] /\ rows'[r] = Pending
          /\ \A s \in Rounds : s # r => rows'[s] = rows[s]
      BY <1>1, <2>1, RowReplaced DEF Inv
    <2>3. RowMoves(r)
      BY <1>1, <1>2, <1>3, <2>2 DEF RowMoves, Legacy
    <2>4. \A s \in Rounds : RowMoves(s)
      BY <2>2, <2>3, OneRowMoves DEF Inv
    <2>5. TargetHolds'
      BY <1>1, <2>2 DEF Begin, Inv, TargetHolds, Retryable
    <2> QED
      BY <2>2, <2>4, <2>5, KeepsLedger DEF Begin, Inv, TypeOK
  <1>4. CASE rows[r].status # "absent"
    <2>1. UNCHANGED rows
      BY <1>4 DEF Begin
    <2>2. TargetHolds'
      BY <1>4, <2>1 DEF Begin, Inv, TargetHolds, Retryable
    <2> QED
      BY <2>1, <2>2, SameRowsMove, KeepsLedger DEF Begin, Inv, TypeOK
  <1> QED
    BY <1>3, <1>4

\* a step of the tick that leaves the table alone
LEMMA PassHolds ==
    ASSUME Inv, pc # "reconcile", pc' \in {"idle", "catchup"},
           UNCHANGED <<traffic, round, rows, ledger, locals>>
    PROVE  Inv'
  <1>1. TargetHolds'
    BY DEF Inv, TargetHolds, locals
  <1> QED
    BY <1>1, SameRowsMove, KeepsLedger DEF Inv, TypeOK, locals

LEMMA CurrentHolds == ASSUME Inv, Current PROVE Inv'
  <1>1. CASE rows[cur].status = "absent" \/ Retries(cur)
    BY <1>1, BeginHolds DEF Current, Retries, Inv, TypeOK
  <1>2. CASE ~(rows[cur].status = "absent" \/ Retries(cur))
    BY <1>2, PassHolds DEF Current
  <1> QED
    BY <1>1, <1>2

LEMMA CatchUpHolds == ASSUME Inv, CatchUp PROVE Inv'
  <1>1. CASE cur - 1 \in Rounds /\ Retries(cur - 1)
    BY <1>1, BeginHolds DEF CatchUp, Retries
  <1>2. CASE ~(cur - 1 \in Rounds /\ Retries(cur - 1))
    BY <1>2, PassHolds DEF CatchUp
  <1> QED
    BY <1>1, <1>2

LEMMA AbandonHolds == ASSUME Inv, Abandon PROVE Inv'
  <1>1. TargetHolds'
    BY DEF Abandon, TargetHolds
  <1>2. edges' \in [lo : Nat, hi : Nat]
    BY DEF Abandon, NoEdges
  <1> QED
    BY <1>1, <1>2, SameRowsMove, KeepsLedger DEF Abandon, Inv, TypeOK

\* processRound returns with a row that keeps its attempt
LEMMA ReturnHolds ==
    ASSUME Inv, pc # "reconcile", UNCHANGED ledger,
           NEW row \in Rows, Return(row),
           row.dedup = rows[target].dedup, row.sub = rows[target].sub,
           row.status # "absent",
           row.status = "unknown" => rows[target].status = "unknown",
           Legacy(rows[target]) \/ rows[target].status = "expired" =>
             Legacy(row) \/ row.status = "expired"
    PROVE  Inv'
  <1>1. target \in Rounds
    BY DEF Inv, TypeOK
  <1>2. /\ rows' \in [Rounds -> Rows] /\ rows'[target] = row
        /\ \A s \in Rounds : s # target => rows'[s] = rows[s]
    BY <1>1, RowReplaced DEF Inv, Return
  <1>3. \A r \in Rounds : RowMoves(r)
    BY <1>1, <1>2, OneRowMoves DEF Inv, RowMoves
  <1>4. TargetHolds'
    BY DEF Return, Inv, TargetHolds
  <1>5. edges' \in [lo : Nat, hi : Nat]
    BY DEF Return, NoEdges
  <1> QED
    BY <1>2, <1>3, <1>4, <1>5, KeepsLedger DEF Return, Inv, TypeOK

\* a baseline is the edge of the round before
LEMMA BaselineIs ==
    ASSUME Inv, Baseline
    PROVE  /\ target - 1 \in Rounds /\ target - 1 \in Before /\ Prev = target - 1
           /\ rows[target - 1].edge \in Nat
  <1>1. target \in 1 .. MaxRound /\ MaxRound \in Nat
    BY Constants DEF Inv, TypeOK, Rounds
  <1>2. target # 1
    BY DEF Baseline, Before, Rounds
  <1>3. target - 1 \in Rounds
    BY <1>1, <1>2 DEF Rounds
  <1>4. rows[target - 1] \in Rows /\ rows[target - 1].edge # None
    BY <1>3 DEF Baseline, Inv, TypeOK
  <1>5. rows[target - 1].status # "absent"
    BY <1>3, <1>4 DEF Inv, RowsHold, Absent
  <1> QED
    BY <1>1, <1>3, <1>4, <1>5 DEF Baseline, Before, Rows

\* the ways a window that ends at c is decided
LEMMA PricedIs ==
    ASSUME Inv, NEW c \in Nat, Priced(rows[target], c)
    PROVE  \/ /\ ~Baseline
              /\ Return([rows[target] EXCEPT !.status = "seeded", !.edge = c])
           \/ /\ Baseline /\ c <= rows[target - 1].edge
              /\ Return([rows[target] EXCEPT !.status = "skipped", !.edge = c])
           \/ /\ Baseline /\ c > rows[target - 1].edge
              /\ Return([rows[target] EXCEPT !.status = "skipped",
                                             !.edge = rows[target - 1].edge])
           \/ /\ Baseline /\ c - rows[target - 1].edge >= MinBytes
              /\ edges' = [lo |-> rows[target - 1].edge, hi |-> c]
              /\ pc' = "offset"
              /\ UNCHANGED <<traffic, round, rows, cur, todo, target>>
  <1>1. CASE ~Baseline
    BY <1>1 DEF Priced
  <1>2. CASE Baseline
    <2>1. Prev = target - 1
      BY <1>2, BaselineIs
    <2> QED
      BY <1>2, <2>1 DEF Priced
  <1> QED
    BY <1>1, <1>2

\* and what it is that ends there
LEMMA RightEdgesAre ==
    ASSUME Inv, NEW c \in RightEdges(rows[target])
    PROVE  /\ c \in Nat
           /\ rows[target].edge # None => c = rows[target].edge
           /\ rows[target].edge = None => c \in Readings
  BY DEF RightEdges, Readings, Inv, TypeOK, Rows

LEMMA PriceHolds == ASSUME Inv, Price PROVE Inv'
  <1> USE DEF Price
  <1>1. /\ target \in Rounds /\ rows[target] \in Rows /\ UNCHANGED ledger
        /\ rows[target].status \in Retryable /\ todo = {} /\ pc # "reconcile"
    BY DEF Inv, TypeOK, TargetHolds
  <1>2. CASE Legacy(rows[target])
             /\ Return([rows[target] EXCEPT !.status = "expired"])
    <2> DEFINE row == [rows[target] EXCEPT !.status = "expired"]
    <2>1. /\ row \in Rows /\ row.dedup = rows[target].dedup
          /\ row.sub = rows[target].sub /\ row.status = "expired"
      BY <1>1 DEF Rows, Statuses
    <2>2. Return(row)
      BY <1>2
    <2> HIDE DEF row
    <2> QED
      BY <1>1, <1>2, <2>1, <2>2, ReturnHolds
  <1>3. ASSUME NEW status \in {"seeded", "skipped"}, NEW edge \in Nat,
               Return([rows[target] EXCEPT !.status = status, !.edge = edge]),
               ~Legacy(rows[target])
        PROVE  Inv'
    <2> DEFINE row == [rows[target] EXCEPT !.status = status, !.edge = edge]
    <2>1. /\ row \in Rows /\ row.dedup = rows[target].dedup
          /\ row.sub = rows[target].sub /\ row.status = status
      BY <1>1 DEF Rows, Statuses
    <2>2. Return(row)
      BY <1>3
    <2> HIDE DEF row
    <2> QED
      BY <1>1, <1>3, <2>1, <2>2, ReturnHolds DEF Retryable
  <1>4. ASSUME NEW c \in RightEdges(rows[target]), Priced(rows[target], c),
               ~Legacy(rows[target])
        PROVE  Inv'
    <2>1. c \in Nat
      BY RightEdgesAre
    <2>2. CASE \E status \in {"seeded", "skipped"}, edge \in Nat :
                 Return([rows[target] EXCEPT !.status = status, !.edge = edge])
      BY <1>3, <1>4, <2>2
    <2>3. CASE /\ Baseline /\ edges' = [lo |-> rows[target - 1].edge, hi |-> c]
               /\ pc' = "offset"
               /\ UNCHANGED <<traffic, round, rows, cur, todo, target>>
      <3>1. edges' \in [lo : Nat, hi : Nat]
        BY <2>1, <2>3, BaselineIs
      <3>2. TargetHolds'
        BY <1>1, <1>4, <2>3 DEF TargetHolds
      <3> QED
        BY <1>1, <2>3, <3>1, <3>2, SameRowsMove, KeepsLedger DEF Inv, TypeOK
    <2> QED
      BY <1>4, <2>1, <2>2, <2>3, PricedIs, BaselineIs
  <1>5. CASE ~Legacy(rows[target]) /\ Return(rows[target])
    BY <1>1, <1>5, ReturnHolds DEF Retryable
  <1> QED
    BY <1>2, <1>4, <1>5

LEMMA KeepEdgeHolds == ASSUME Inv, KeepEdge PROVE Inv'
  <1> DEFINE row == [rows[target] EXCEPT !.edge = edges.hi]
  <1>1. /\ rows[target] \in Rows /\ rows[target].status \in Retryable
        /\ ~Legacy(rows[target]) /\ edges.hi \in Nat
    BY DEF Inv, TypeOK, TargetHolds, KeepEdge
  <1>2. /\ row \in Rows /\ row.dedup = rows[target].dedup
        /\ row.sub = rows[target].sub /\ row.status = rows[target].status
    BY <1>1 DEF Rows
  <1>3. Return(row) /\ UNCHANGED ledger /\ pc # "reconcile"
    BY DEF KeepEdge
  <1> HIDE DEF row
  <1> QED
    BY <1>1, <1>2, <1>3, ReturnHolds DEF Retryable

\* the submission was answered, in whichever way
LEMMA AnswerHolds ==
    ASSUME Inv, pc = "answer", UNCHANGED ledger,
           \/ Return([rows[target] EXCEPT !.status = "emitted"])
           \/ Return(rows[target])
           \/ Return(Refused(target))
    PROVE  Inv'
  <1>1. rows[target] \in Rows /\ rows[target].status = "unknown"
    BY DEF Inv, TypeOK, TargetHolds
  <1>2. ASSUME NEW status \in {"emitted", "failed", "expired"},
               Return([rows[target] EXCEPT !.status = status])
        PROVE  Inv'
    <2> DEFINE row == [rows[target] EXCEPT !.status = status]
    <2>1. /\ row \in Rows /\ row.dedup = rows[target].dedup
          /\ row.sub = rows[target].sub /\ row.status = status
      BY <1>1 DEF Rows, Statuses
    <2>2. Return(row)
      BY <1>2
    <2> HIDE DEF row
    <2> QED
      BY <1>1, <2>1, <2>2, ReturnHolds DEF Legacy
  <1>3. CASE Return(rows[target])
    BY <1>1, <1>3, ReturnHolds
  <1> QED
    BY <1>2, <1>3 DEF Refused

-----------------------------------------------------------------------------
(* Steps of an attempt, which leave the rows alone.                        *)

\* an attempt that has not completed moves on
LEMMA StateMoves ==
    ASSUME Inv, UNCHANGED <<traffic, round, rows, log, locals>>,
           NEW a \in Ids, NEW state \in States \ {"accepted", "rejected"},
           ~InState(a, {"accepted", "rejected"}), Become(a, state),
           pc' \in {pc, "answer"}, pc' # pc => pc = "submit",
           pc' = "submit" => rows[target].sub # a,
           state = "inflight" => ~Deduplicated(a) /\ ~Occupied(a)
    PROVE  Inv'
  <1>1. /\ attempts' \in Seq(Attempts)
        /\ Len(attempts') = Len(attempts) /\ Ids' = Ids
        /\ \A b \in Ids :
             /\ attempts'[b].round = attempts[b].round
             /\ attempts'[b].dedup = attempts[b].dedup
             /\ attempts'[b].state = IF b = a THEN state ELSE attempts[b].state
    BY Becomes DEF Inv
  <1>2. TypeOK'
    BY <1>1 DEF Inv, TypeOK, locals
  <1>3. TargetHolds'
    BY <1>1 DEF Inv, TypeOK, TargetHolds, RowsHold, locals, Legacy, InState
  <1>4. RowsHold'
    BY <1>1 DEF Inv, RowsHold
  <1>5. AttemptsHold'
    <2>1. ASSUME NEW r \in Rounds PROVE Of(r)' = Of(r)
      BY <1>1 DEF Of
    <2>2. ASSUME NEW r \in Rounds, OlderWorkers(r) PROVE OlderWorkers(r)'
      BY <2>1, <2>2 DEF OlderWorkers, Legacy
    <2>3. ASSUME NEW b \in Ids, NEW r \in Rounds, attempts[b].round = r
          PROVE  rows'[r].dedup = attempts'[b].dedup \/ OlderWorkers(r)'
      BY <1>1, <2>2, <2>3 DEF Inv, AttemptsHold
    <2>4. \A b \in Ids : attempts[b].round \in Rounds
      BY AttemptIs DEF Inv
    <2> QED
      BY <1>1, <2>3, <2>4 DEF AttemptsHold
  <1>6. LogHolds'
    <2>1. \A i \in 1 .. Len(log) : log[i] \in Ids
      BY ElementOfSeq DEF Inv, TypeOK
    <2>2. \A i \in 1 .. Len(log) : log[i] # a
      BY DEF Inv, LogHolds, InState
    <2>3. Accepted' = Accepted /\ log' = log
      BY <1>1 DEF Accepted, InState
    <2>4. \A i \in 1 .. Len(log) : InState(log[i], {"accepted", "rejected"})'
      BY <1>1, <2>1, <2>2 DEF Inv, LogHolds, InState
    <2>5. \A b \in Ids : attempts'[b].dedup <= Len(log)
      BY <1>1 DEF Inv, LogHolds
    <2>6. \A b \in Accepted :
            \E i \in (attempts'[b].dedup + 1) .. Len(log) : log[i] = b
      BY <1>1 DEF Inv, LogHolds, Accepted
    <2> QED
      BY <1>1, <2>3, <2>4, <2>5, <2>6 DEF LogHolds
  <1>7. OneRegistered'
    <2>1. ASSUME NEW b \in Ids, b # a, attempts[b].round = attempts[a].round,
                 state = "inflight", InState(b, {"inflight", "accepted"})
          PROVE  FALSE
      <3>1. b \in Of(attempts[a].round) /\ ~InState(b, {"inflight"})
        BY <2>1 DEF Of, Occupied
      <3>2. b \in Accepted
        BY <2>1, <3>1 DEF InState, Accepted
      <3>3. PICK i \in (attempts[b].dedup + 1) .. Len(log) : log[i] = b
        BY <3>2 DEF Inv, LogHolds
      <3>4. attempts[b].dedup = attempts[a].dedup
        BY <2>1 DEF Inv, AttemptsHold, OlderWorkers, Of
      <3> QED
        BY <2>1, <3>1, <3>2, <3>3, <3>4 DEF Deduplicated, Accepted, InState
    <2> QED
      BY <1>1, <2>1 DEF Inv, OneRegistered, InState
  <1> QED
    BY <1>2, <1>3, <1>4, <1>5, <1>6, <1>7 DEF Inv

LEMMA SendHolds == ASSUME Inv, Send PROVE Inv'
  <1>1. rows[target].sub \in Ids /\ InState(rows[target].sub, {"recorded"})
    BY DEF Inv, TypeOK, TargetHolds, RowsHold, Send
  <1> QED
    BY <1>1, StateMoves DEF Send, States, InState

LEMMA RegisterHolds == ASSUME Inv, NEW a \in Ids, Register(a) PROVE Inv'
  <1>1. pc = "submit" => rows[target].sub # a
    BY DEF Inv, TargetHolds, Register, InState
  <1>2. PICK state \in {"duplicate", "busy", "inflight", "refused"} :
          Become(a, state) /\ (state = "inflight" => ~Deduplicated(a) /\ ~Occupied(a))
    BY DEF Register
  <1> QED
    BY <1>1, <1>2, StateMoves DEF Register, States, InState

LEMMA DropHolds == ASSUME Inv, NEW a \in Ids, Drop(a) PROVE Inv'
  <1>1. pc = "submit" => rows[target].sub # a
    BY DEF Inv, TargetHolds, Drop, InState
  <1> QED
    BY <1>1, StateMoves DEF Drop, States, InState

LEMMA CompleteHolds == ASSUME Inv, NEW a \in Ids, Complete(a) PROVE Inv'
  <1> USE DEF Complete
  <1>1. PICK state \in {"accepted", "rejected"} : Become(a, state)
    OBVIOUS
  <1>2. /\ attempts' \in Seq(Attempts)
        /\ Len(attempts') = Len(attempts) /\ Ids' = Ids
        /\ \A b \in Ids :
             /\ attempts'[b].round = attempts[b].round
             /\ attempts'[b].dedup = attempts[b].dedup
             /\ attempts'[b].state = IF b = a THEN state ELSE attempts[b].state
    BY <1>1, Becomes DEF Inv, States
  <1>3. /\ log \in Seq(Ids) /\ Len(log) \in Nat
        /\ log' \in Seq(Ids) /\ Len(log') = Len(log) + 1 /\ log'[Len(log) + 1] = a
        /\ \A i \in 1 .. Len(log) : log'[i] = log[i] /\ log[i] \in Ids
    BY AppendProperties, ElementOfSeq, LenProperties DEF Inv, TypeOK
  <1>4. TypeOK'
    BY <1>2, <1>3 DEF Inv, TypeOK, locals
  <1>5. TargetHolds'
    BY <1>2 DEF Inv, TypeOK, TargetHolds, RowsHold, locals, Legacy, InState
  <1>6. \A r \in Rounds : rows[r].dedup # None => rows[r].dedup \in Nat
    BY DEF Inv, TypeOK, Rows
  <1>7. RowsHold'
    BY <1>2, <1>3, <1>6 DEF Inv, RowsHold
  <1>8. AttemptsHold'
    <2>1. ASSUME NEW r \in Rounds PROVE Of(r)' = Of(r)
      BY <1>2 DEF Of
    <2>2. ASSUME NEW r \in Rounds, OlderWorkers(r) PROVE OlderWorkers(r)'
      BY <2>1, <2>2 DEF OlderWorkers, Legacy
    <2>3. ASSUME NEW b \in Ids, NEW r \in Rounds, attempts[b].round = r
          PROVE  rows'[r].dedup = attempts'[b].dedup \/ OlderWorkers(r)'
      BY <1>2, <2>2, <2>3 DEF Inv, AttemptsHold
    <2>4. \A b \in Ids : attempts[b].round \in Rounds
      BY AttemptIs DEF Inv
    <2> QED
      BY <1>2, <2>3, <2>4 DEF AttemptsHold
  <1>9. LogHolds'
    <2>1. \A b \in Ids : attempts[b].dedup \in Nat /\ attempts[b].dedup <= Len(log)
      BY AttemptIs DEF Inv, LogHolds
    <2>2. \A i \in 1 .. Len(log') : InState(log[i], {"accepted", "rejected"})'
      BY <1>2, <1>3 DEF Inv, LogHolds, InState
    <2>3. ASSUME NEW b \in Accepted'
          PROVE  \E i \in (attempts'[b].dedup + 1) .. Len(log') : log'[i] = b
      <3>1. CASE b = a
        BY <1>2, <1>3, <2>1, <3>1
      <3>2. CASE b # a
        <4>1. b \in Accepted
          BY <1>2, <3>2 DEF Accepted, InState
        <4>2. b \in Ids
          BY <4>1 DEF Accepted
        <4>3. PICK i \in (attempts[b].dedup + 1) .. Len(log) : log[i] = b
          BY <4>1 DEF Inv, LogHolds
        <4>4. attempts'[b].dedup = attempts[b].dedup /\ attempts[b].dedup \in Nat
          BY <1>2, <2>1, <4>2
        <4>5. i \in 1 .. Len(log) /\ i \in (attempts[b].dedup + 1) .. Len(log')
          BY <1>3, <4>3, <4>4
        <4>6. log'[i] = b
          BY <1>3, <4>3, <4>5
        <4> QED
          BY <4>4, <4>5, <4>6
      <3> QED
        BY <3>1, <3>2
    <2>4. \A b \in Ids' : attempts'[b].dedup <= Len(log')
      BY <1>2, <1>3, <2>1
    <2> QED
      BY <2>2, <2>3, <2>4 DEF LogHolds
  <1>10. OneRegistered'
    BY <1>2 DEF Inv, OneRegistered, InState
  <1> QED
    BY <1>4, <1>5, <1>7, <1>8, <1>9, <1>10 DEF Inv

LEMMA BurnHolds == ASSUME Inv, Burn PROVE Inv'
  <1>1. TargetHolds'
    BY DEF Burn, ledger, locals, Inv, TargetHolds, InState, Legacy
  <1>2. traffic' \in 0 .. MaxTraffic
    BY Constants DEF Burn, Inv, TypeOK
  <1> QED
    BY <1>1, <1>2, SameRowsMove, KeepsLedger DEF Burn, locals, Inv, TypeOK

LEMMA OpenRoundHolds == ASSUME Inv, OpenRound PROVE Inv'
  <1>1. TargetHolds'
    BY DEF OpenRound, ledger, locals, Inv, TargetHolds, InState, Legacy
  <1>2. round' \in Rounds
    BY Constants DEF OpenRound, Inv, TypeOK, Rounds
  <1> QED
    BY <1>1, <1>2, SameRowsMove, KeepsLedger DEF OpenRound, locals, Inv, TypeOK

-----------------------------------------------------------------------------
(* A new attempt is written down.                                          *)

\* it has the offset of the round's earlier attempts
LEMMA Recorded ==
    ASSUME Inv, RecordAttempt
    PROVE  /\ target \in Rounds /\ pc = "offset" /\ pc' = "submit" /\ todo = {}
           /\ Len(attempts) \in Nat /\ Len(attempts') = Len(attempts) + 1
           /\ Ids' = Ids \cup {Len(attempts')} /\ Len(attempts') \notin Ids
           /\ attempts' \in Seq(Attempts)
           /\ \A a \in Ids : attempts'[a] = attempts[a]
           /\ attempts'[Len(attempts')] =
                [round |-> target, lo |-> edges.lo, hi |-> edges.hi,
                 dedup |-> rows'[target].dedup, state |-> "recorded"]
           /\ rows' \in [Rounds -> Rows]
           /\ \A r \in Rounds : r # target => rows'[r] = rows[r]
           /\ rows'[target].status = "unknown" /\ rows'[target].edge = edges.hi
           /\ rows'[target].sub = Len(attempts')
           /\ rows'[target].dedup \in 0 .. Len(log)
           /\ \A a \in Of(target) : attempts[a].dedup = rows'[target].dedup
  <1> DEFINE offset == DedupOffset(rows[target])
             new == [round |-> target, lo |-> edges.lo, hi |-> edges.hi,
                     dedup |-> offset, state |-> "recorded"]
             row == [status |-> "unknown", edge |-> edges.hi,
                     sub |-> Len(attempts) + 1, dedup |-> offset, priced |-> TRUE]
  <1>1. /\ target \in Rounds /\ rows[target] \in Rows /\ log \in Seq(Ids)
        /\ Len(log) \in Nat /\ Len(attempts) \in Nat /\ attempts \in Seq(Attempts)
        /\ edges.lo \in Nat /\ edges.hi \in Nat
    BY LenProperties DEF Inv, TypeOK
  <1>2. offset \in 0 .. Len(log)
    BY <1>1 DEF DedupOffset, Inv, RowsHold, Rows
  <1>3. \A a \in Of(target) : attempts[a].dedup = offset
    <2> TAKE a \in Of(target)
    <2>1. a \in Ids /\ attempts[a].round = target /\ attempts[a].dedup # None
      BY AttemptIs DEF Of, Inv, None
    <2>2. ~OlderWorkers(target)
      BY DEF OlderWorkers, Inv, TargetHolds, Retryable, RecordAttempt
    <2> QED
      BY <2>1, <2>2 DEF Inv, AttemptsHold, DedupOffset
  <1>4. new \in Attempts /\ row \in Rows
    BY <1>1, <1>2 DEF Attempts, Rows, Statuses
  <1>5. attempts' = Append(attempts, new) /\ rows' = [rows EXCEPT ![target] = row]
    BY DEF RecordAttempt
  <1>6. /\ row.status = "unknown" /\ row.edge = edges.hi
        /\ row.sub = Len(attempts) + 1 /\ row.dedup = offset
        /\ new = [round |-> target, lo |-> edges.lo, hi |-> edges.hi,
                  dedup |-> offset, state |-> "recorded"]
    OBVIOUS
  <1> HIDE DEF offset, new, row
  <1>7. /\ attempts' \in Seq(Attempts) /\ Len(attempts') = Len(attempts) + 1
        /\ \A a \in 1 .. Len(attempts) : attempts'[a] = attempts[a]
        /\ attempts'[Len(attempts) + 1] = new
    BY <1>1, <1>4, <1>5, AppendProperties
  <1>8. /\ rows' \in [Rounds -> Rows] /\ rows'[target] = row
        /\ \A r \in Rounds : r # target => rows'[r] = rows[r]
    BY <1>1, <1>4, <1>5, RowReplaced DEF Inv
  <1>9. Ids' = Ids \cup {Len(attempts')} /\ Len(attempts') \notin Ids
    BY <1>1, <1>7 DEF Ids
  <1>10. pc = "offset" /\ pc' = "submit" /\ todo = {}
    BY DEF RecordAttempt, Inv, TargetHolds
  <1> QED
    BY <1>1, <1>2, <1>3, <1>6, <1>7, <1>8, <1>9, <1>10 DEF Ids

LEMMA RecordHolds == ASSUME Inv, RecordAttempt PROVE Inv'
  <1> DEFINE n == Len(attempts')
  <1>1. /\ target \in Rounds /\ pc' = "submit" /\ todo = {}
        /\ Ids' = Ids \cup {n} /\ n \notin Ids
        /\ attempts' \in Seq(Attempts)
        /\ \A a \in Ids : attempts'[a] = attempts[a]
        /\ rows' \in [Rounds -> Rows]
        /\ \A r \in Rounds : r # target => rows'[r] = rows[r]
        /\ rows'[target].status = "unknown" /\ rows'[target].sub = n
        /\ rows'[target].dedup \in 0 .. Len(log)
        /\ \A a \in Of(target) : attempts[a].dedup = rows'[target].dedup
    BY Recorded
  <1>2. /\ attempts'[n].round = target /\ attempts'[n].dedup = rows'[target].dedup
        /\ attempts'[n].state = "recorded"
    BY Recorded
  <1>3. log' = log /\ locals' = locals /\ UNCHANGED <<traffic, round>>
    BY DEF RecordAttempt
  <1>4. log \in Seq(Ids) /\ Len(log) \in Nat /\ \A i \in 1 .. Len(log) : log[i] \in Ids
    BY ElementOfSeq, LenProperties DEF Inv, TypeOK
  <1> HIDE DEF n
  <1>5. TypeOK'
    <2>1. log' \in Seq(Ids')
      BY <1>1, <1>3, <1>4, SeqDef
    <2> QED
      BY <1>1, <1>3, <2>1 DEF Inv, TypeOK, locals
  <1>6. TargetHolds'
    BY <1>1, <1>2, <1>3 DEF TargetHolds, locals, InState
  <1>7. RowsHold'
    <2>1. ASSUME NEW r \in Rounds, r # target
          PROVE  /\ rows'[r].status = "absent" => rows'[r] = Absent
                 /\ rows'[r].dedup # None => rows'[r].dedup <= Len(log')
                 /\ rows'[r].status = "unknown" =>
                      /\ rows'[r].dedup # None
                      /\ rows'[r].sub \in Ids' /\ attempts'[rows'[r].sub].round = r
                      /\ attempts'[rows'[r].sub].dedup = rows'[r].dedup
      BY <1>1, <1>3, <2>1 DEF Inv, RowsHold
    <2>2. /\ rows'[target].dedup <= Len(log') /\ rows'[target].dedup # None
      BY <1>1, <1>3, <1>4 DEF None
    <2>3. rows'[target].sub \in Ids' /\ attempts'[rows'[target].sub].round = target
          /\ attempts'[rows'[target].sub].dedup = rows'[target].dedup
      BY <1>1, <1>2
    <2> QED
      BY <1>1, <2>1, <2>2, <2>3 DEF RowsHold
  <1>8. AttemptsHold'
    <2>1. ASSUME NEW r \in Rounds, r # target PROVE Of(r)' = Of(r)
      BY <1>1, <1>2, <2>1 DEF Of
    <2>2. ASSUME NEW r \in Rounds, r # target, OlderWorkers(r) PROVE OlderWorkers(r)'
      BY <1>1, <2>1, <2>2 DEF OlderWorkers, Legacy
    <2>3. ASSUME NEW a \in Ids, NEW r \in Rounds, attempts[a].round = r
          PROVE  rows'[r].dedup = attempts'[a].dedup \/ OlderWorkers(r)'
      <3>1. CASE r = target
        BY <1>1, <2>3, <3>1 DEF Of
      <3>2. CASE r # target
        BY <1>1, <2>2, <2>3, <3>2 DEF Inv, AttemptsHold
      <3> QED
        BY <3>1, <3>2
    <2>4. \A a \in Ids : attempts[a].round \in Rounds
      BY AttemptIs DEF Inv
    <2>5. \A a \in Ids' : \/ rows'[attempts'[a].round].dedup = attempts'[a].dedup
                          \/ OlderWorkers(attempts[a].round)'
      BY <1>1, <1>2, <2>3, <2>4
    <2> QED
      BY <2>5 DEF AttemptsHold
  <1>9. LogHolds'
    <2>1. \A a \in Ids' : attempts'[a].dedup <= Len(log')
      BY <1>1, <1>2, <1>3, <1>4 DEF Inv, LogHolds
    <2>2. Accepted' = Accepted
      BY <1>1, <1>2 DEF Accepted, InState
    <2>3. \A i \in 1 .. Len(log') : InState(log[i], {"accepted", "rejected"})'
      BY <1>1, <1>3, <1>4 DEF Inv, LogHolds, InState
    <2>4. \A a \in Accepted' :
            \E i \in (attempts'[a].dedup + 1) .. Len(log') : log'[i] = a
      BY <1>1, <1>3, <2>2 DEF Inv, LogHolds, Accepted
    <2> QED
      BY <2>1, <2>3, <2>4 DEF LogHolds
  <1>10. OneRegistered'
    BY <1>1, <1>2 DEF Inv, OneRegistered, InState
  <1> QED
    BY <1>5, <1>6, <1>7, <1>8, <1>9, <1>10 DEF Inv

-----------------------------------------------------------------------------

LEMMA StepHolds == Inv /\ [Next]_vars => Inv'
  <1> SUFFICES ASSUME Inv, [Next]_vars PROVE Inv'
    OBVIOUS
  <1>1. ASSUME NEW r \in Rounds, NEW n \in 0 .. Len(log), ReconcileRow(r, n)
        PROVE  Inv'
    BY <1>1, ReconcileHolds
  <1>2. CASE Answered \/ AnsweredRejected \/ AnsweredUnknown
    BY <1>2, AnswerHolds DEF Answered, AnsweredRejected, AnsweredUnknown
  <1>3. CASE Worker
    BY <1>1, <1>2, <1>3, TickHolds, ExpireHolds, CurrentHolds, CatchUpHolds,
       PriceHolds, KeepEdgeHolds, RecordHolds, SendHolds DEF Worker
  <1>4. CASE Environment
    BY <1>4, RegisterHolds, DropHolds, CompleteHolds, BurnHolds, OpenRoundHolds
       DEF Environment
  <1>5. CASE UNCHANGED vars
    <2>1. TargetHolds'
      BY <1>5 DEF vars, ledger, locals, Inv, TargetHolds, InState, Legacy
    <2> QED
      BY <1>5, <2>1, SameRowsMove, KeepsLedger DEF vars, ledger, locals, Inv, TypeOK
  <1> QED
    BY <1>3, <1>4, <1>5, AbandonHolds DEF Next

LEMMA Invariance == Spec => []Inv
  <1> QED
    BY Initially, StepHolds, PTL DEF Spec

\* The worker's tables and its place in a tick are always well formed.
THEOREM TypeCorrect == Spec => []TypeOK
  <1>1. Inv => TypeOK
    BY DEF Inv
  <1> QED
    BY <1>1, Invariance, PTL

(***************************************************************************)
(* At most one marker per mining round is ever committed, whatever is lost *)
(* or answered falsely, wherever the process dies and however far a        *)
(* traffic reading lags.                                                   *)
(***************************************************************************)
THEOREM OneMarkerPerRound == Spec => []AtMostOneMarker
  <1>1. Inv => AtMostOneMarker
    BY DEF Inv, OneRegistered, AtMostOneMarker, Accepted, InState
  <1> QED
    BY <1>1, Invariance, PTL

-----------------------------------------------------------------------------
(* What the rows say of the attempts, when a refusal is one.               *)

LEMMA DoubtInitially == Init => DoubtHolds
  <1> SUFFICES ASSUME Init, NEW r \in Rounds PROVE RowIsTrue(r, rows[r])
    BY DEF DoubtHolds
  <1>1. rows[r] \in {Absent, LegacyRow}
    BY DEF Init
  <1> QED
    BY <1>1 DEF RowIsTrue, Absent, LegacyRow, Legacy, Retryable

\* a step of the tick
LEMMA RowsStayTrue ==
    ASSUME UNCHANGED ledger, \A r \in Rounds : RowIsTrue(r, rows'[r])
    PROVE  DoubtHolds'
  <1>1. ASSUME NEW r \in Rounds
        PROVE  Of(r)' = Of(r) /\ \A a \in Of(r) : InDoubt(a)' = InDoubt(a)
    BY DEF ledger, Of, Ids, InDoubt, InState
  <1> QED
    BY <1>1 DEF DoubtHolds, RowIsTrue, Legacy, ledger, InState

\* a step of the participant or the network: an attempt is in doubt no longer,
\* and what was accepted stays so
LEMMA AttemptSettles ==
    ASSUME DoubtInv, UNCHANGED rows, NEW a \in Ids, NEW state \in States,
           Become(a, state), InState(a, {"sent", "inflight"})
    PROVE  DoubtHolds'
  <1>1. /\ Ids' = Ids
        /\ \A b \in Ids :
             /\ attempts'[b].round = attempts[b].round
             /\ attempts'[b].state = IF b = a THEN state ELSE attempts[b].state
    BY Becomes DEF DoubtInv, Inv
  <1>2. \A b \in Ids : InDoubt(b)' => InDoubt(b)
    BY <1>1 DEF InDoubt, InState
  <1>3. \A b \in Ids : InState(b, {"accepted"}) => InState(b, {"accepted"})'
    BY <1>1 DEF InState
  <1>4. ASSUME NEW r \in Rounds PROVE Of(r)' = Of(r) /\ Of(r) \subseteq Ids
    BY <1>1 DEF Of
  <1> QED
    BY <1>2, <1>3, <1>4 DEF DoubtInv, DoubtHolds, RowIsTrue, Legacy

LEMMA EnvironmentDoubts == ASSUME DoubtInv, Environment PROVE DoubtHolds'
  <1>1. ASSUME NEW a \in Ids, Register(a) \/ Drop(a) PROVE DoubtHolds'
    BY <1>1, AttemptSettles DEF Register, Drop, States, InState
  <1>2. ASSUME NEW a \in Ids, Complete(a) PROVE DoubtHolds'
    BY <1>2, AttemptSettles DEF Complete, States, InState
  <1>3. CASE Burn \/ OpenRound
    BY <1>3, RowsStayTrue DEF Burn, OpenRound, DoubtInv, DoubtHolds
  <1> QED
    BY <1>1, <1>2, <1>3 DEF Environment

LEMMA ReconcileDoubts ==
    ASSUME DoubtInv, NEW r \in Rounds, NEW n \in Nat, ReconcileRow(r, n)
    PROVE  DoubtHolds'
  <1> DEFINE seen == Completed(r, n)
             row == Resolved(r, seen)
  <1>1. rows[r].status = "unknown" /\ n <= Len(log)
    BY DEF DoubtInv, Inv, TypeOK, TargetHolds, ReconcileRow
  <1>2. rows[r].dedup \in Nat
    BY <1>1 DEF DoubtInv, Inv, TypeOK, RowsHold, Rows
  <1>3. \A a \in seen : a \in Of(r) /\ InState(a, {"accepted", "rejected"})
    BY <1>1, <1>2 DEF Completed, DoubtInv, Inv, LogHolds
  <1>4. rows' = [rows EXCEPT ![r] = row]
    BY DEF ReconcileRow
  <1> HIDE DEF seen
  <1>5. /\ row \in Rows /\ row.sub = rows[r].sub
        /\ row.status \in {"emitted", "expired", "failed", "unknown"}
        /\ row.status = "emitted" => \E a \in seen : InState(a, {"accepted"})
        /\ row.status = "failed" =>
             /\ rows[r].sub \in seen
             /\ \A a \in seen : ~InState(a, {"accepted"})
    BY <1>1, ResolvedIs DEF DoubtInv, Inv
  <1> HIDE DEF row
  <1>6. \A a \in Of(r) \ {rows[r].sub} : ~InDoubt(a)
    BY <1>1 DEF DoubtInv, DoubtHolds, RowIsTrue
  <1>7. row.status = "failed" => ~InDoubt(rows[r].sub)
    BY <1>3, <1>5 DEF InDoubt, InState
  <1>8. RowIsTrue(r, row)
    BY <1>3, <1>5, <1>6, <1>7 DEF RowIsTrue, Retryable
  <1>9. \A s \in Rounds : rows'[s] = IF s = r THEN row ELSE rows[s]
    BY <1>4, <1>5, RowReplaced DEF DoubtInv, Inv
  <1> QED
    BY <1>8, <1>9, RowsStayTrue DEF ReconcileRow, DoubtInv, DoubtHolds

LEMMA ExpireDoubts == ASSUME DoubtInv, Expire PROVE DoubtHolds'
  <1>1. \A r \in Rounds : rows'[r] = rows[r] \/ rows'[r].status = "expired"
    BY DEF Expire, DoubtInv, Inv, TypeOK, Rows
  <1>2. \A r \in Rounds : RowIsTrue(r, rows'[r])
    BY <1>1 DEF DoubtInv, DoubtHolds, RowIsTrue, Retryable
  <1> QED
    BY <1>2, RowsStayTrue DEF Expire

\* a row that is new has no attempts
LEMMA BeginDoubts ==
    ASSUME DoubtInv, NEW r \in Rounds, Begin(r) PROVE DoubtHolds'
  <1>1. CASE rows[r].status = "absent"
    <2>1. rows[r].dedup = None /\ rows[r].status = "absent"
      BY <1>1 DEF DoubtInv, Inv, RowsHold, Absent
    <2>2. ASSUME NEW a \in Of(r) PROVE FALSE
      <3>1. a \in Ids /\ attempts[a].round = r
        BY DEF Of
      <3>2. attempts[a].dedup # None
        BY <3>1, AttemptIs DEF DoubtInv, Inv, None
      <3> QED
        BY <2>1, <3>1, <3>2 DEF DoubtInv, Inv, AttemptsHold, OlderWorkers, Legacy
    <2>3. Pending \in Rows /\ Pending.status = "pending"
      BY DEF Pending, Absent, Rows, Statuses, NoSub, None
    <2>4. RowIsTrue(r, Pending)
      BY <2>2, <2>3 DEF RowIsTrue
    <2>5. \A s \in Rounds : rows'[s] = IF s = r THEN Pending ELSE rows[s]
      BY <1>1, <2>3, RowReplaced DEF Begin, DoubtInv, Inv
    <2> QED
      BY <2>4, <2>5, RowsStayTrue DEF Begin, DoubtInv, DoubtHolds
  <1>2. CASE rows[r].status # "absent"
    BY <1>2, RowsStayTrue DEF Begin, DoubtInv, DoubtHolds
  <1> QED
    BY <1>1, <1>2

LEMMA ReturnDoubts ==
    ASSUME DoubtInv, UNCHANGED ledger, NEW row \in Rows, Return(row),
           RowIsTrue(target, row)
    PROVE  DoubtHolds'
  <1>1. \A r \in Rounds : rows'[r] = IF r = target THEN row ELSE rows[r]
    BY RowReplaced DEF Return, DoubtInv, Inv, TypeOK
  <1> QED
    BY <1>1, RowsStayTrue DEF DoubtInv, DoubtHolds

LEMMA PriceDoubts == ASSUME DoubtInv, Price PROVE DoubtHolds'
  <1>1. /\ target \in Rounds /\ rows[target] \in Rows /\ UNCHANGED ledger
        /\ RowIsTrue(target, rows[target])
    BY DEF DoubtInv, Inv, TypeOK, DoubtHolds, Price
  <1>2. CASE Return([rows[target] EXCEPT !.status = "expired"])
    <2> DEFINE row == [rows[target] EXCEPT !.status = "expired"]
    <2>1. row \in Rows /\ RowIsTrue(target, row) /\ Return(row)
      BY <1>1, <1>2 DEF Rows, Statuses, RowIsTrue, Retryable
    <2> HIDE DEF row
    <2> QED
      BY <1>1, <2>1, ReturnDoubts
  <1>3. ASSUME NEW status \in {"seeded", "skipped"}, NEW edge \in Nat,
               Return([rows[target] EXCEPT !.status = status, !.edge = edge])
        PROVE  DoubtHolds'
    <2> DEFINE row == [rows[target] EXCEPT !.status = status, !.edge = edge]
    <2>1. row \in Rows /\ RowIsTrue(target, row) /\ Return(row)
      BY <1>1, <1>3 DEF Rows, Statuses, RowIsTrue, Retryable
    <2> HIDE DEF row
    <2> QED
      BY <1>1, <2>1, ReturnDoubts
  <1>4. ASSUME NEW c \in RightEdges(rows[target]), Priced(rows[target], c)
        PROVE  DoubtHolds'
    <2>1. c \in Nat
      BY RightEdgesAre DEF DoubtInv
    <2>2. CASE UNCHANGED rows
      BY <1>1, <2>2, RowsStayTrue DEF DoubtInv, DoubtHolds
    <2> QED
      BY <1>3, <1>4, <2>1, <2>2, PricedIs, BaselineIs DEF DoubtInv
  <1>5. CASE Return(rows[target])
    BY <1>1, <1>5, ReturnDoubts
  <1> QED
    BY <1>2, <1>4, <1>5 DEF Price

LEMMA KeepEdgeDoubts == ASSUME DoubtInv, KeepEdge PROVE DoubtHolds'
  <1> DEFINE row == [rows[target] EXCEPT !.edge = edges.hi]
  <1>1. /\ rows[target] \in Rows /\ RowIsTrue(target, rows[target])
        /\ edges.hi \in Nat
    BY DEF DoubtInv, Inv, TypeOK, DoubtHolds
  <1>2. row \in Rows /\ RowIsTrue(target, row)
    BY <1>1 DEF Rows, RowIsTrue, Legacy
  <1>3. Return(row) /\ UNCHANGED ledger
    BY DEF KeepEdge
  <1> HIDE DEF row
  <1> QED
    BY <1>2, <1>3, ReturnDoubts

LEMMA AnsweredDoubts ==
    ASSUME DoubtInv, Answered \/ AnsweredUnknown PROVE DoubtHolds'
  <1>1. /\ target \in Rounds /\ rows[target] \in Rows /\ UNCHANGED ledger
        /\ RowIsTrue(target, rows[target]) /\ rows[target].sub \in Of(target)
    BY DEF DoubtInv, Inv, TypeOK, TargetHolds, RowsHold, DoubtHolds, Answered,
       AnsweredUnknown, Of
  <1>2. CASE /\ InState(rows[target].sub, {"accepted"})
             /\ Return([rows[target] EXCEPT !.status = "emitted"])
    <2> DEFINE row == [rows[target] EXCEPT !.status = "emitted"]
    <2>1. row \in Rows /\ RowIsTrue(target, row) /\ Return(row)
      BY <1>1, <1>2 DEF Rows, Statuses, RowIsTrue, Retryable
    <2> HIDE DEF row
    <2> QED
      BY <1>1, <2>1, ReturnDoubts
  <1>3. CASE Return(rows[target])
    BY <1>1, <1>3, ReturnDoubts
  <1> QED
    BY <1>2, <1>3 DEF Answered, AnsweredUnknown

\* a refusal is believed, and it is one
LEMMA RejectedDoubts ==
    ASSUME Honest, DoubtInv, AnsweredRejected PROVE DoubtHolds'
  <1>1. /\ target \in Rounds /\ rows[target] \in Rows
        /\ rows[target].status = "unknown" /\ RowIsTrue(target, rows[target])
    BY DEF DoubtInv, Inv, TypeOK, TargetHolds, DoubtHolds, AnsweredRejected
  <1>2. \A a \in Of(target) : ~InDoubt(a)
    BY <1>1 DEF Honest, AnsweredRejected, RowIsTrue, InDoubt, InState
  <1>3. ASSUME NEW status \in {"failed", "expired"},
               Return([rows[target] EXCEPT !.status = status])
        PROVE  DoubtHolds'
    <2> DEFINE row == [rows[target] EXCEPT !.status = status]
    <2>1. row \in Rows /\ RowIsTrue(target, row) /\ Return(row)
      BY <1>1, <1>2, <1>3 DEF Rows, Statuses, RowIsTrue, Retryable
    <2> HIDE DEF row
    <2> QED
      BY <2>1, ReturnDoubts DEF AnsweredRejected
  <1> QED
    BY <1>3 DEF AnsweredRejected, Refused

LEMMA RecordDoubts == ASSUME DoubtInv, RecordAttempt PROVE DoubtHolds'
  <1> DEFINE n == Len(attempts')
  <1>1. /\ target \in Rounds /\ Ids' = Ids \cup {n} /\ n \notin Ids
        /\ \A a \in Ids : attempts'[a] = attempts[a]
        /\ attempts'[n].round = target /\ attempts'[n].state = "recorded"
        /\ \A r \in Rounds : r # target => rows'[r] = rows[r]
        /\ rows'[target].status = "unknown" /\ rows'[target].sub = n
    BY Recorded DEF DoubtInv
  <1> HIDE DEF n
  <1>2. \A a \in Of(target) : ~InDoubt(a)
    BY DEF RecordAttempt, DoubtInv, Inv, TypeOK, TargetHolds, DoubtHolds, RowIsTrue
  <1>3. \A a \in Ids : InDoubt(a)' = InDoubt(a) /\ InState(a, {"accepted"})' = InState(a, {"accepted"})
    BY <1>1 DEF InDoubt, InState
  <1>4. ASSUME NEW r \in Rounds, r # target
        PROVE  Of(r)' = Of(r) /\ Of(r) \subseteq Ids
    BY <1>1, <1>4 DEF Of
  <1>5. ASSUME NEW r \in Rounds, r # target PROVE RowIsTrue(r, rows[r])'
    BY <1>1, <1>3, <1>4, <1>5 DEF DoubtInv, DoubtHolds, RowIsTrue, Legacy
  <1>6. ASSUME NEW r \in Rounds, r = target PROVE RowIsTrue(r, rows[r])'
    <2>1. Of(r)' = Of(r) \cup {n} /\ Of(r) \subseteq Ids
      BY <1>1, <1>6 DEF Of
    <2>2. \A a \in Of(r)' \ {n} : ~InDoubt(a)'
      BY <1>2, <1>3, <1>6, <2>1
    <2> QED
      BY <1>1, <1>6, <2>2 DEF RowIsTrue, Retryable
  <1> QED
    BY <1>5, <1>6 DEF DoubtHolds

LEMMA SendDoubts == ASSUME DoubtInv, Send PROVE DoubtHolds'
  <1> DEFINE a == rows[target].sub
  <1>1. /\ target \in Rounds /\ a \in Ids /\ attempts[a].round = target
        /\ rows[target].status = "unknown"
    BY DEF DoubtInv, Inv, TypeOK, TargetHolds, RowsHold, Send
  <1>2. Become(a, "sent") /\ UNCHANGED rows
    BY DEF Send
  <1> HIDE DEF a
  <1>3. /\ Ids' = Ids
        /\ \A b \in Ids :
             /\ attempts'[b].round = attempts[b].round
             /\ attempts'[b].state = IF b = a THEN "sent" ELSE attempts[b].state
    BY <1>1, <1>2, Becomes DEF DoubtInv, Inv, States
  <1>4. \A b \in Ids \ {a} : InDoubt(b)' = InDoubt(b)
                             /\ InState(b, {"accepted"})' = InState(b, {"accepted"})
    BY <1>3 DEF InDoubt, InState
  <1>5. ASSUME NEW r \in Rounds
        PROVE  Of(r)' = Of(r) /\ Of(r) \subseteq Ids /\ (a \in Of(r) => r = target)
    BY <1>1, <1>3 DEF Of
  <1>6. ASSUME NEW r \in Rounds, r # target PROVE RowIsTrue(r, rows[r])'
    BY <1>2, <1>4, <1>5, <1>6 DEF DoubtInv, DoubtHolds, RowIsTrue, Legacy
  <1>7. ASSUME NEW r \in Rounds, r = target PROVE RowIsTrue(r, rows[r])'
    <2>1. /\ rows'[r].status = "unknown" /\ rows'[r].sub = a
          /\ \A b \in Of(r) \ {a} : ~InDoubt(b)
      BY <1>1, <1>2, <1>7 DEF DoubtInv, DoubtHolds, RowIsTrue, a
    <2> QED
      BY <1>4, <1>5, <2>1 DEF RowIsTrue, Retryable
  <1> QED
    BY <1>6, <1>7 DEF DoubtHolds

LEMMA StepDoubts == Honest /\ DoubtInv /\ [Next]_vars => DoubtInv'
  <1> SUFFICES ASSUME Honest, DoubtInv, [Next]_vars PROVE DoubtHolds'
    BY StepHolds DEF DoubtInv
  <1>1. ASSUME NEW r \in Rounds, NEW n \in 0 .. Len(log), ReconcileRow(r, n)
        PROVE  DoubtHolds'
    BY <1>1, ReconcileDoubts
  <1>2. CASE Tick \/ Abandon \/ UNCHANGED vars
    BY <1>2, RowsStayTrue DEF Tick, Abandon, vars, ledger, DoubtInv, DoubtHolds
  <1>3. ASSUME UNCHANGED <<rows, ledger>> PROVE DoubtHolds'
    BY <1>3, RowsStayTrue DEF DoubtInv, DoubtHolds
  <1>4. CASE Current
    BY <1>3, <1>4, BeginDoubts DEF Current, DoubtInv, Inv, TypeOK
  <1>5. CASE CatchUp
    BY <1>3, <1>5, BeginDoubts DEF CatchUp
  <1>6. CASE Worker
    BY <1>1, <1>2, <1>4, <1>5, <1>6, ExpireDoubts, PriceDoubts, KeepEdgeDoubts,
       RecordDoubts, SendDoubts, AnsweredDoubts, RejectedDoubts DEF Worker
  <1> QED
    BY <1>2, <1>6, EnvironmentDoubts DEF Next

LEMMA DoubtInvariance == ASSUME Honest PROVE Spec => []DoubtInv
  <1>1. Init => DoubtInv
    BY Initially, DoubtInitially DEF DoubtInv
  <1>2. DoubtInv /\ [Next]_vars => DoubtInv'
    BY StepDoubts
  <1> QED
    BY <1>1, <1>2, PTL DEF Spec

(***************************************************************************)
(* When a refusal is one, a row that says emitted has its marker on the    *)
(* ledger, and a row that may be tried again has none.                     *)
(***************************************************************************)
THEOREM RowsTellTheTruth == ASSUME Honest PROVE Spec => []RowsAreTrue
  <1>1. DoubtInv => RowsAreTrue
    BY DEF DoubtInv, DoubtHolds, RowIsTrue, RowsAreTrue, InDoubt, InState, Accepted, Of
  <1> QED
    BY <1>1, DoubtInvariance, PTL

(***************************************************************************)
(* And a round is never submitted while an earlier submission for it may   *)
(* still commit, whatever was lost and wherever the process died.          *)
(***************************************************************************)
THEOREM NeverResubmitted == ASSUME Honest PROVE Spec => NeverResubmitsInDoubt
  <1>1. DoubtInv => ~ResubmitsInDoubt
    <2> SUFFICES ASSUME DoubtInv, pc = "submit", NEW a \in Of(target), InDoubt(a)
                 PROVE  FALSE
      BY DEF ResubmitsInDoubt, Doubt, InDoubt
    <2>1. /\ target \in Rounds /\ rows[target].status = "unknown"
          /\ InState(rows[target].sub, {"recorded"})
      BY DEF DoubtInv, Inv, TypeOK, TargetHolds
    <2>2. a # rows[target].sub
      BY <2>1 DEF InDoubt, InState
    <2> QED
      BY <2>1, <2>2 DEF DoubtInv, DoubtHolds, RowIsTrue
  <1>2. DoubtInv /\ [Next]_vars => [~ResubmitsInDoubt]_vars
    BY <1>1
  <1> QED
    BY <1>2, DoubtInvariance, PTL DEF Spec, NeverResubmitsInDoubt

-----------------------------------------------------------------------------
(* What the edges of the rows are, when every reading is fresh.            *)

LEMMA EdgeIs ==
    ASSUME TypeOK, NEW r \in Rounds
    PROVE  r \in Nat /\ rows[r] \in Rows /\ (rows[r].edge # None => rows[r].edge \in Nat)
  BY Constants DEF TypeOK, Rows, Rounds

\* a row that is not there has no edge
LEMMA AbsentIs ==
    ASSUME Inv, NEW r \in Rounds, rows[r].status = "absent"
    PROVE  rows[r].edge = None /\ rows[r].priced = FALSE
  BY DEF Inv, RowsHold, Absent

\* a row that keeps its edge, and is skipped or submitted only if it was to be
RowKeepsEdge(r) ==
    /\ rows'[r].edge = rows[r].edge
    /\ rows'[r].priced => rows[r].priced \/ rows[r].edge # None
    /\ rows'[r].status = "skipped" => rows[r].status = "skipped"
    /\ rows'[r].status \in Due /\ rows[r].edge # None =>
         rows[r].status \in Due /\ (Legacy(rows[r]) => Legacy(rows'[r]))

LEMMA EdgesKept ==
    ASSUME WindowsInv, traffic' \in Nat, traffic <= traffic',
           \A r \in Rounds : RowKeepsEdge(r)
    PROVE  EdgesHold' /\ WindowsHold' /\ SkipsHold'
  <1> USE DEF WindowsInv, Windows
  <1>1. traffic \in Nat /\ \A r \in Rounds : rows[r].edge # None => rows[r].edge \in Nat
    BY EdgeIs DEF Inv, TypeOK
  <1>2. EdgesHold'
    BY <1>1 DEF EdgesHold, RowKeepsEdge
  <1>3. WindowsHold'
    BY DEF WindowsHold, RowKeepsEdge, IsWindow
  <1>4. SkipsHold'
    <2>1. \A r, s \in Rounds : \A k \in (r + 1) .. s : k \in Rounds
      BY Constants DEF Rounds
    <2> QED
      BY <2>1 DEF SkipsHold, RowKeepsEdge
  <1> QED
    BY <1>2, <1>3, <1>4

\* the current round's row is given its edge
LEMMA EdgeGiven ==
    ASSUME WindowsInv, UNCHANGED traffic, rows[cur].edge = None,
           \A r \in Rounds : r # cur => rows'[r] = rows[r],
           NEW edge \in Nat, rows'[cur].edge = edge, edge <= traffic,
           \A s \in Rounds : s < cur /\ rows[s].edge # None => rows[s].edge <= edge,
           rows'[cur].status = "skipped" => cur - 1 \in Rounds /\ rows[cur - 1].edge = edge,
           rows'[cur].status \in Due => IsWindow(cur, edge)
    PROVE  EdgesHold' /\ WindowsHold' /\ SkipsHold'
  <1> USE DEF WindowsInv, Windows
  <1>1. /\ traffic \in Nat /\ cur \in Rounds /\ edge # None
        /\ \A r \in Rounds : r \in Nat /\ (rows[r].edge # None => rows[r].edge \in Nat)
    BY EdgeIs DEF Inv, TypeOK, None
  <1>2. \A r \in Rounds : r > cur => rows[r].edge = None /\ rows[r].status = "absent"
    BY AbsentIs DEF RoundsHold
  <1>3. EdgesHold'
    <2>1. ASSUME NEW r \in Rounds
          PROVE  /\ rows'[r].priced => rows'[r].edge # None
                 /\ rows'[r].edge # None => rows'[r].edge <= traffic
      BY <1>1 DEF EdgesHold
    <2>2. ASSUME NEW r \in Rounds, NEW s \in Rounds, s < r,
                 rows'[r].edge # None, rows'[s].edge # None
          PROVE  rows'[s].edge <= rows'[r].edge
      BY <1>1, <1>2, <2>2 DEF EdgesHold
    <2> QED
      BY <2>1, <2>2 DEF EdgesHold
  <1>4. WindowsHold'
    <2>1. ASSUME NEW r \in Rounds, r - 1 \in Rounds, rows[r - 1].edge # None
          PROVE  rows'[r - 1].edge = rows[r - 1].edge
      BY <2>1
    <2> QED
      BY <1>1, <2>1 DEF WindowsHold, IsWindow, Legacy
  <1>5. SkipsHold'
    <2> SUFFICES ASSUME NEW r \in Rounds, NEW s \in Rounds, r < s, rows'[r].edge # None,
                        \A k \in (r + 1) .. s : rows'[k].status = "skipped"
                 PROVE  rows'[s].edge = rows'[r].edge
      BY DEF SkipsHold
    <2>1. \A k \in (r + 1) .. s : k \in Rounds
      BY Constants DEF Rounds
    <2>2. rows'[s].status = "skipped"
      BY <1>1
    <2>3. s <= cur /\ r # cur
      BY <1>1, <1>2, <2>2
    <2>4. CASE s < cur
      BY <1>1, <2>1, <2>3, <2>4 DEF SkipsHold
    <2>5. CASE s = cur
      <3>1. cur - 1 \in Rounds /\ rows[cur - 1].edge = edge
        BY <2>2, <2>5
      <3>2. r = cur - 1 \/ (r < cur - 1 /\ \A k \in (r + 1) .. (cur - 1) : rows[k].status = "skipped")
        BY <1>1, <2>1, <2>5
      <3>3. rows[r].edge = rows[cur - 1].edge
        BY <1>1, <2>3, <3>1, <3>2 DEF SkipsHold
      <3> QED
        BY <2>3, <2>5, <3>1, <3>3
    <2> QED
      BY <1>1, <2>3, <2>4, <2>5
  <1> QED
    BY <1>3, <1>4, <1>5

SameClaims ==
    /\ Ids' = Ids
    /\ \A a \in Ids : /\ attempts'[a].round = attempts[a].round
                      /\ attempts'[a].lo = attempts[a].lo
                      /\ attempts'[a].hi = attempts[a].hi

LEMMA ClaimsKept ==
    ASSUME WindowsInv, NEW a \in Ids,
           attempts'[a].round = attempts[a].round,
           attempts'[a].lo = attempts[a].lo, attempts'[a].hi = attempts[a].hi,
           \A r \in Rounds : rows[r].edge # None => rows'[r].edge = rows[r].edge
    PROVE  LET r == attempts'[a].round
           IN  /\ rows'[r].edge # None /\ attempts'[a].hi = rows'[r].edge
               /\ r > 1 => rows'[r - 1].edge # None /\ attempts'[a].lo = rows'[r - 1].edge
  <1> DEFINE r == attempts[a].round
  <1>1. r \in Rounds /\ (r > 1 => r - 1 \in Rounds)
    BY AttemptIs, Constants DEF WindowsInv, Inv, Rounds
  <1>2. /\ rows[r].edge # None /\ attempts[a].hi = rows[r].edge
        /\ r > 1 => rows[r - 1].edge # None /\ attempts[a].lo = rows[r - 1].edge
    BY DEF WindowsInv, Windows, ClaimsHold
  <1> HIDE DEF r
  <1>3. attempts'[a].round = r
    BY DEF r
  <1> QED
    BY <1>1, <1>2, <1>3

\* a step that gives no row an edge and writes no attempt down
LEMMA QuietStep ==
    ASSUME WindowsInv, traffic' \in Nat, traffic <= traffic', SameClaims,
           \A r \in Rounds : RowKeepsEdge(r), RoundsHold', PricedHolds'
    PROVE  Windows'
  <1>1. EdgesHold' /\ WindowsHold' /\ SkipsHold'
    BY EdgesKept
  <1>2. ClaimsHold'
    BY ClaimsKept DEF ClaimsHold, SameClaims, RowKeepsEdge
  <1> QED
    BY <1>1, <1>2 DEF Windows

LEMMA SameRowsKeepEdges ==
    ASSUME UNCHANGED rows PROVE \A r \in Rounds : RowKeepsEdge(r)
  BY DEF RowKeepsEdge, Legacy

\* what holds between rounds: every row that is there has its edge
LEMMA AllHaveEdges ==
    ASSUME WindowsInv, pc \notin {"price", "offset"}, NEW r \in Rounds
    PROVE  rows[r].edge = None <=> rows[r].status = "absent"
  BY AbsentIs DEF WindowsInv, Windows, RoundsHold

\* a step of the tick outside a round
LEMMA BetweenRounds ==
    ASSUME WindowsInv, pc \notin {"price", "offset"}, pc' \notin {"price", "offset"},
           pc' \in {"submit", "answer"} => pc \in {"submit", "answer"},
           UNCHANGED <<traffic, round, target>>, cur' \in {cur, round},
           pc' \in {"submit", "answer"} => cur' = cur, SameClaims,
           \A r \in Rounds : RowKeepsEdge(r) /\ (rows'[r].status = "absent" <=> rows[r].status = "absent")
    PROVE  Windows'
  <1>1. traffic \in Nat /\ cur \in Nat /\ round \in Nat /\ \A r \in Rounds : r \in Nat
    BY Constants DEF WindowsInv, Inv, TypeOK, Rounds
  <1>2. RoundsHold'
    BY <1>1, AllHaveEdges DEF WindowsInv, Windows, RoundsHold, RowKeepsEdge
  <1>3. PricedHolds'
    BY DEF PricedHolds
  <1> QED
    BY <1>1, <1>2, <1>3, QuietStep

LEMMA SameLedger == ASSUME UNCHANGED ledger PROVE SameClaims
  BY DEF ledger, SameClaims, Ids

LEMMA TickWindows == ASSUME WindowsInv, Tick PROVE Windows'
  BY BetweenRounds, SameRowsKeepEdges, SameLedger DEF Tick

LEMMA ReconcileWindows ==
    ASSUME WindowsInv, NEW r \in Rounds, NEW n \in Nat, ReconcileRow(r, n)
    PROVE  Windows'
  <1> DEFINE row == Resolved(r, Completed(r, n))
  <1>1. rows[r].status = "unknown" /\ rows[r] \in Rows
    BY DEF WindowsInv, Inv, TypeOK, TargetHolds, ReconcileRow
  <1>2. /\ row \in Rows /\ row.edge = rows[r].edge
        /\ row.status \in {"emitted", "expired", "failed", "unknown"}
        /\ row.priced = rows[r].priced
    <2>1. row.priced = rows[r].priced
      BY <1>1 DEF Resolved, Refused, Rows
    <2> QED
      BY <1>1, <2>1, ResolvedIs DEF WindowsInv, Inv
  <1>3. rows' = [rows EXCEPT ![r] = row]
    BY DEF ReconcileRow
  <1> HIDE DEF row
  <1>4. \A s \in Rounds : rows'[s] = IF s = r THEN row ELSE rows[s]
    BY <1>2, <1>3, RowReplaced DEF WindowsInv, Inv
  <1>5. \A s \in Rounds : RowKeepsEdge(s) /\ (rows'[s].status = "absent" <=> rows[s].status = "absent")
    BY <1>1, <1>2, <1>4 DEF RowKeepsEdge, Due, Legacy
  <1> QED
    BY <1>5, BetweenRounds, SameLedger DEF ReconcileRow

LEMMA ExpireWindows == ASSUME WindowsInv, Expire PROVE Windows'
  <1>1. \A r \in Rounds :
          \/ rows'[r] = rows[r]
          \/ /\ rows'[r] = [rows[r] EXCEPT !.status = "expired"]
             /\ rows[r].status \in Due
    BY DEF Expire, Expired, Due
  <1>2. \A r \in Rounds : rows[r] \in Rows
    BY DEF WindowsInv, Inv, TypeOK
  <1>3. ASSUME NEW r \in Rounds
        PROVE  RowKeepsEdge(r) /\ (rows'[r].status = "absent" <=> rows[r].status = "absent")
    <2>1. CASE rows'[r] = rows[r]
      BY <2>1 DEF RowKeepsEdge, Legacy
    <2>2. CASE rows'[r] = [rows[r] EXCEPT !.status = "expired"] /\ rows[r].status \in Due
      <3>1. /\ rows'[r].edge = rows[r].edge /\ rows'[r].priced = rows[r].priced
            /\ rows'[r].status = "expired"
        BY <1>2, <2>2 DEF Rows
      <3> QED
        BY <2>2, <3>1 DEF RowKeepsEdge, Due, Retryable
    <2> QED
      BY <1>1, <2>1, <2>2
  <1> QED
    BY <1>3, BetweenRounds, SameLedger DEF Expire, locals

LEMMA BeginWindows ==
    ASSUME WindowsInv, pc \in {"current", "catchup"}, NEW r \in Rounds, Begin(r),
           \/ r = cur
           \/ r = cur - 1 /\ rows[r].status # "absent"
    PROVE  Windows'
  <1>1. traffic \in Nat /\ cur \in Nat /\ \A s \in Rounds : s \in Nat
    BY Constants DEF WindowsInv, Inv, TypeOK, Rounds
  <1>2. /\ Pending \in Rows /\ Pending.status = "pending" /\ Pending.edge = None
        /\ Pending.priced = FALSE
    BY DEF Pending, Absent, Rows, Statuses, NoSub, None
  <1>3. \A s \in Rounds :
          rows'[s] = IF s = r /\ rows[r].status = "absent" THEN Pending ELSE rows[s]
    BY <1>2, RowReplaced DEF Begin, WindowsInv, Inv
  <1>4. \A s \in Rounds : RowKeepsEdge(s)
    BY <1>2, <1>3, AbsentIs DEF WindowsInv, RowKeepsEdge, Legacy
  <1>5. RoundsHold'
    <2>1. \A s \in Rounds : s # r => rows'[s] = rows[s]
      BY <1>3
    <2>2. /\ cur' = cur /\ round' = round /\ target' = r /\ pc' = "price"
      BY DEF Begin
    <2>3. \A s \in Rounds : rows'[s].edge = None =>
            rows'[s].status = "absent" \/ (s = r /\ r = cur)
      BY <1>2, <1>3, AllHaveEdges
    <2>4. \A s \in Rounds : s > cur => rows'[s].status = "absent"
      BY <1>1, <2>1 DEF WindowsInv, Windows, RoundsHold
    <2> QED
      BY <2>2, <2>3, <2>4 DEF WindowsInv, Windows, RoundsHold
  <1>6. PricedHolds'
    BY DEF Begin, PricedHolds
  <1> QED
    BY <1>1, <1>4, <1>5, <1>6, QuietStep, SameLedger DEF Begin

LEMMA CurrentWindows == ASSUME WindowsInv, Current PROVE Windows'
  <1>1. CASE Begin(cur)
    BY <1>1, BeginWindows DEF Current, WindowsInv, Inv, TypeOK
  <1>2. CASE ~Begin(cur)
    <2>1. pc' = "catchup" /\ UNCHANGED <<traffic, round, rows, ledger, locals>>
      BY <1>2 DEF Current
    <2> QED
      BY <2>1, BetweenRounds, SameRowsKeepEdges, SameLedger DEF Current, locals
  <1> QED
    BY <1>1, <1>2

LEMMA CatchUpWindows == ASSUME WindowsInv, CatchUp PROVE Windows'
  <1>1. CASE cur - 1 \in Rounds /\ Retries(cur - 1)
    BY <1>1, BeginWindows DEF CatchUp, Retries, Retryable
  <1>2. CASE ~(cur - 1 \in Rounds /\ Retries(cur - 1))
    BY <1>2, BetweenRounds, SameRowsKeepEdges, SameLedger DEF CatchUp, locals
  <1> QED
    BY <1>1, <1>2

\* the process does not die between a reading and its record
LEMMA AbandonWindows == ASSUME Fresh, WindowsInv, Abandon PROVE Windows'
  <1>1. traffic \in Nat
    BY DEF WindowsInv, Inv, TypeOK
  <1>2. \A r \in Rounds : rows[r].status # "absent" => rows[r].edge # None
    BY DEF Fresh, Abandon, WindowsInv, Windows, RoundsHold
  <1>3. RoundsHold'
    BY <1>2 DEF Abandon, WindowsInv, Windows, RoundsHold
  <1>4. PricedHolds'
    BY DEF Abandon, PricedHolds
  <1> QED
    BY <1>1, <1>3, <1>4, QuietStep, SameRowsKeepEdges, SameLedger DEF Abandon

LEMMA EnvironmentWindows == ASSUME WindowsInv, Environment PROVE Windows'
  <1>1. traffic \in Nat /\ round \in Nat /\ cur \in Nat /\ target \in Nat
    BY Constants DEF WindowsInv, Inv, TypeOK, Rounds
  <1>2. SameClaims
    <2>1. ASSUME NEW a \in Ids, NEW state \in States, Become(a, state) PROVE SameClaims
      BY <2>1, Becomes DEF SameClaims, WindowsInv, Inv
    <2> QED
      BY <2>1, SameLedger DEF Environment, Register, Drop, Complete, Burn,
         OpenRound, States
  <1>3. /\ UNCHANGED <<rows, pc, locals>> /\ traffic' \in Nat /\ traffic <= traffic'
        /\ round' \in Nat /\ round <= round'
    BY <1>1 DEF Environment, Register, Drop, Complete, Burn, OpenRound
  <1>4. RoundsHold'
    BY <1>1, <1>3 DEF locals, WindowsInv, Windows, RoundsHold
  <1>5. PricedHolds'
    <2>1. pc = "offset" => edges.hi \in Nat
      BY DEF WindowsInv, Inv, TypeOK
    <2> QED
      BY <1>1, <1>3, <2>1 DEF locals, WindowsInv, Windows, PricedHolds, IsWindow
  <1> QED
    BY <1>2, <1>3, <1>4, <1>5, QuietStep, SameRowsKeepEdges

LEMMA SendWindows == ASSUME WindowsInv, Send PROVE Windows'
  <1>1. rows[target].sub \in Ids
    BY DEF WindowsInv, Inv, TypeOK, TargetHolds, RowsHold, Send
  <1>2. SameClaims
    BY <1>1, Becomes DEF Send, SameClaims, States, WindowsInv, Inv
  <1> QED
    BY <1>2, BetweenRounds, SameRowsKeepEdges DEF Send, locals

LEMMA AnswerWindows ==
    ASSUME WindowsInv, pc = "answer", UNCHANGED ledger,
           \/ Return([rows[target] EXCEPT !.status = "emitted"])
           \/ Return(rows[target])
           \/ Return(Refused(target))
    PROVE  Windows'
  <1>1. target \in Rounds /\ rows[target] \in Rows /\ rows[target].status = "unknown"
    BY DEF WindowsInv, Inv, TypeOK, TargetHolds
  <1>2. PICK row \in Rows :
          /\ Return(row) /\ row.edge = rows[target].edge
          /\ row.priced = rows[target].priced
          /\ row.status \in {"emitted", "unknown", "failed", "expired"}
    <2>1. ASSUME NEW status \in {"emitted", "failed", "expired"}
          PROVE  LET row == [rows[target] EXCEPT !.status = status]
                 IN  /\ row \in Rows /\ row.edge = rows[target].edge
                     /\ row.priced = rows[target].priced /\ row.status = status
      BY <1>1 DEF Rows, Statuses
    <2> QED
      BY <1>1, <2>1 DEF Refused
  <1>3. \A r \in Rounds : rows'[r] = IF r = target THEN row ELSE rows[r]
    BY <1>1, <1>2, RowReplaced DEF Return, WindowsInv, Inv
  <1>4. \A r \in Rounds : RowKeepsEdge(r) /\ (rows'[r].status = "absent" <=> rows[r].status = "absent")
    BY <1>1, <1>2, <1>3 DEF RowKeepsEdge, Due, Legacy
  <1> QED
    BY <1>2, <1>4, BetweenRounds, SameLedger DEF Return

\* processRound returns from pricing, with an edge
LEMMA PricedReturn ==
    ASSUME WindowsInv, pc \in {"price", "offset"}, NEW row \in Rows, Return(row),
           row.status # "absent", row.edge # None
    PROVE  /\ RoundsHold' /\ PricedHolds' /\ UNCHANGED <<traffic, cur>>
           /\ rows'[target] = row
           /\ \A r \in Rounds : r # target => rows'[r] = rows[r]
  <1>1. target \in Rounds /\ cur \in Nat /\ target \in Nat
    BY Constants DEF WindowsInv, Inv, TypeOK, Rounds
  <1>2. /\ rows'[target] = row
        /\ \A r \in Rounds : r # target => rows'[r] = rows[r]
    BY <1>1, RowReplaced DEF Return, WindowsInv, Inv
  <1>3. RoundsHold'
    BY <1>1, <1>2 DEF Return, WindowsInv, Windows, RoundsHold
  <1> QED
    BY <1>2, <1>3 DEF Return, PricedHolds

\* what a reading is, of a round that has no edge yet
LEMMA Reads ==
    ASSUME Fresh, WindowsInv, pc \in {"price", "offset"}
    PROVE  /\ target \in Rounds /\ rows[target] \in Rows /\ traffic \in Nat
           /\ rows[target].status \in Retryable
           /\ rows[target].edge = None => target = cur
           /\ Readings = {traffic}
           /\ \A r \in Rounds : r \in Nat /\ (rows[r].edge # None => rows[r].edge \in 0 .. traffic)
  <1>1. /\ target \in Rounds /\ rows[target] \in Rows /\ traffic \in Nat
        /\ rows[target].status \in Retryable
    BY DEF WindowsInv, Inv, TypeOK, TargetHolds
  <1>2. rows[target].edge = None => target = cur
    BY <1>1 DEF WindowsInv, Windows, RoundsHold, Retryable
  <1>3. Readings = {traffic}
    BY <1>1 DEF Fresh, Readings
  <1>4. \A r \in Rounds : r \in Nat /\ (rows[r].edge # None => rows[r].edge \in 0 .. traffic)
    BY <1>1, EdgeIs DEF WindowsInv, Inv, Windows, EdgesHold
  <1> QED
    BY <1>1, <1>2, <1>3, <1>4

\* a round that has an edge is priced as it was
LEMMA PricedAgain ==
    ASSUME Fresh, WindowsInv, pc = "price", ~Legacy(rows[target]),
           rows[target].edge # None, NEW c \in RightEdges(rows[target]),
           Priced(rows[target], c)
    PROVE  /\ Baseline /\ c = rows[target].edge
           /\ c - rows[target - 1].edge >= MinBytes
           /\ edges' = [lo |-> rows[target - 1].edge, hi |-> c]
           /\ pc' = "offset"
           /\ UNCHANGED <<traffic, round, rows, cur, todo, target>>
  <1>1. c \in Nat /\ c = rows[target].edge
    BY RightEdgesAre DEF WindowsInv
  <1>2. target \in Rounds /\ rows[target].status \in Retryable /\ target \in Nat
    BY Reads
  <1>3. IsWindow(target, c)
    BY <1>1, <1>2 DEF WindowsInv, Windows, WindowsHold, Due
  <1>4. target - 1 \in Before /\ Before \subseteq Rounds
    <2>1. rows[target - 1].status # "absent"
      BY <1>3, AbsentIs DEF IsWindow, WindowsInv
    <2> QED
      BY <1>2, <1>3, <2>1 DEF IsWindow, Before
  <1>5. Prev = target - 1
    <2>1. \A s \in Before : s <= target - 1
      BY <1>2, Constants DEF Before, Rounds
    <2>2. Prev \in Before /\ \A s \in Before : s <= Prev
      BY <1>4, <2>1 DEF Prev
    <2> QED
      BY <1>2, <1>4, <2>1, <2>2, Constants DEF Rounds
  <1>6. Baseline
    BY <1>3, <1>4, <1>5 DEF Baseline, IsWindow
  <1>7. ~(c <= rows[target - 1].edge) /\ rows[target - 1].edge \in Nat
    BY <1>1, <1>3, <1>6, BaselineIs, Constants DEF IsWindow, WindowsInv
  <1>8. ~(c - rows[target - 1].edge < MinBytes)
    BY <1>1, <1>3, <1>7, Constants DEF IsWindow
  <1> QED
    BY <1>1, <1>5, <1>6, <1>7, <1>8 DEF Priced

LEMMA PriceWindows == ASSUME Fresh, WindowsInv, Price PROVE Windows'
  <1>1. pc = "price" /\ UNCHANGED ledger /\ SameClaims
    BY SameLedger DEF Price
  <1>2. /\ target \in Rounds /\ rows[target] \in Rows /\ traffic \in Nat
        /\ rows[target].status \in Retryable
        /\ rows[target].edge = None => target = cur
        /\ Readings = {traffic}
        /\ \A r \in Rounds : r \in Nat /\ (rows[r].edge # None => rows[r].edge \in 0 .. traffic)
    BY <1>1, Reads
  <1>3. CASE Legacy(rows[target]) /\ Return([rows[target] EXCEPT !.status = "expired"])
    <2> DEFINE row == [rows[target] EXCEPT !.status = "expired"]
    <2>1. /\ row \in Rows /\ row.status = "expired" /\ row.edge = rows[target].edge
          /\ row.priced = rows[target].priced /\ Return(row)
      BY <1>2, <1>3 DEF Rows, Statuses
    <2> HIDE DEF row
    <2>2. row.edge # None
      BY <1>2, <1>3, <2>1 DEF Legacy, WindowsInv, Windows, EdgesHold
    <2>3. /\ RoundsHold' /\ PricedHolds' /\ UNCHANGED <<traffic, cur>>
          /\ rows'[target] = row
          /\ \A r \in Rounds : r # target => rows'[r] = rows[r]
      BY <1>1, <2>1, <2>2, PricedReturn
    <2>4. \A r \in Rounds : RowKeepsEdge(r)
      BY <2>1, <2>3 DEF RowKeepsEdge, Due, Retryable, Legacy
    <2> QED
      BY <1>1, <1>2, <2>3, <2>4, QuietStep
  <1>4. ASSUME ~Legacy(rows[target]), NEW c \in Nat, Baseline,
               c - rows[target - 1].edge >= MinBytes, c <= traffic,
               rows[target].edge # None => c = rows[target].edge,
               edges' = [lo |-> rows[target - 1].edge, hi |-> c],
               pc' = "offset", UNCHANGED <<traffic, round, rows, cur, todo, target>>
        PROVE  Windows'
    <2>1. RoundsHold'
      BY <1>1, <1>4 DEF WindowsInv, Windows, RoundsHold
    <2>2. target - 1 \in Rounds /\ rows[target - 1].edge # None
      BY <1>4, BaselineIs DEF Baseline, WindowsInv
    <2>3. PricedHolds'
      BY <1>4, <2>2 DEF PricedHolds, IsWindow
    <2> QED
      BY <1>1, <1>2, <1>4, <2>1, <2>3, QuietStep, SameRowsKeepEdges
  <1>5. ASSUME ~Legacy(rows[target]), NEW c \in RightEdges(rows[target]),
               Priced(rows[target], c), rows[target].edge # None
        PROVE  Windows'
    BY <1>1, <1>2, <1>4, <1>5, PricedAgain, RightEdgesAre DEF WindowsInv
  <1>6. ASSUME NEW status \in {"seeded", "skipped"}, NEW edge \in 0 .. traffic,
               rows[target].edge = None,
               Return([rows[target] EXCEPT !.status = status, !.edge = edge]),
               \A s \in Rounds : s < cur /\ rows[s].edge # None => rows[s].edge <= edge,
               status = "skipped" => cur - 1 \in Rounds /\ rows[cur - 1].edge = edge
        PROVE  Windows'
    <2> DEFINE row == [rows[target] EXCEPT !.status = status, !.edge = edge]
    <2> edge \in Nat /\ edge # None
      BY <1>2 DEF None
    <2>1. row \in Rows /\ row.status = status /\ row.edge = edge
      BY <1>2 DEF Rows, Statuses
    <2> Return(row)
      BY <1>6
    <2> HIDE DEF row
    <2>2. /\ RoundsHold' /\ PricedHolds' /\ UNCHANGED <<traffic, cur>>
          /\ rows'[target] = row
          /\ \A r \in Rounds : r # target => rows'[r] = rows[r]
      BY <1>1, <2>1, PricedReturn
    <2>3. EdgesHold' /\ WindowsHold' /\ SkipsHold'
      BY <1>2, <1>6, <2>1, <2>2, EdgeGiven DEF Due, Retryable
    <2>4. \A r \in Rounds : rows[r].edge # None => rows'[r].edge = rows[r].edge
      BY <1>6, <2>2
    <2>5. ClaimsHold'
      BY <1>1, <2>4, ClaimsKept DEF ClaimsHold, SameClaims
    <2> QED
      BY <2>2, <2>3, <2>5 DEF Windows
  <1>7. ASSUME ~Legacy(rows[target]), NEW c \in RightEdges(rows[target]),
               Priced(rows[target], c), rows[target].edge = None
        PROVE  Windows'
    <2>1. c = traffic /\ target = cur /\ c \in Nat
      BY <1>2, <1>7, RightEdgesAre DEF WindowsInv
    <2>2. CASE ~Baseline /\ Return([rows[target] EXCEPT !.status = "seeded", !.edge = c])
      <3>1. \A s \in Rounds : rows[s].edge # None => rows[s].edge <= c
        BY <1>2, <2>1
      <3>2. c \in 0 .. traffic
        BY <1>2, <2>1
      <3> QED
        BY <1>6, <1>7, <2>2, <3>1, <3>2
    <2>3. CASE Baseline
      <3>1. target - 1 \in Rounds /\ rows[target - 1].edge \in 0 .. traffic
        BY <1>2, <2>3, BaselineIs DEF Baseline, WindowsInv
      <3>2. \A s \in Rounds : s < cur /\ rows[s].edge # None => rows[s].edge <= rows[target - 1].edge
        BY <1>2, <2>1, <2>3, <3>1 DEF WindowsInv, Windows, EdgesHold, Baseline
      <3>3. CASE c <= rows[target - 1].edge
                 /\ Return([rows[target] EXCEPT !.status = "skipped", !.edge = c])
        <4>1. c = rows[target - 1].edge
          BY <2>1, <3>1, <3>3
        <4> QED
          BY <1>2, <1>6, <1>7, <2>1, <3>1, <3>2, <3>3, <4>1
      <3>4. CASE Return([rows[target] EXCEPT !.status = "skipped",
                                             !.edge = rows[target - 1].edge])
        BY <1>2, <1>6, <1>7, <2>1, <3>1, <3>2, <3>4
      <3>5. CASE /\ c - rows[target - 1].edge >= MinBytes
                 /\ edges' = [lo |-> rows[target - 1].edge, hi |-> c]
                 /\ pc' = "offset"
                 /\ UNCHANGED <<traffic, round, rows, cur, todo, target>>
        BY <1>2, <1>4, <1>7, <2>1, <2>3, <3>5
      <3> QED
        BY <1>7, <2>1, <2>3, <3>3, <3>4, <3>5, PricedIs DEF WindowsInv
    <2> QED
      BY <1>7, <2>1, <2>2, <2>3, PricedIs DEF WindowsInv
  <1> QED
    BY <1>3, <1>5, <1>7 DEF Price, Fresh

\* the window that was priced ends above every earlier edge
LEMMA OffsetEdge ==
    ASSUME WindowsInv, pc = "offset"
    PROVE  /\ IsWindow(target, edges.hi) /\ edges.hi <= traffic
           /\ \A s \in Rounds : s < target /\ rows[s].edge # None => rows[s].edge <= edges.hi
  <1>1. IsWindow(target, edges.hi) /\ edges.hi <= traffic /\ edges.hi \in Nat
    BY DEF WindowsInv, Windows, PricedHolds, Inv, TypeOK
  <1>2. target \in Nat /\ \A r \in Rounds : r \in Nat /\ (rows[r].edge # None => rows[r].edge \in Nat)
    BY EdgeIs, Constants DEF WindowsInv, Inv, TypeOK, Rounds
  <1>3. rows[target - 1].edge <= edges.hi
    BY <1>1, <1>2, Constants DEF IsWindow
  <1>4. \A s \in Rounds : s < target - 1 /\ rows[s].edge # None =>
                             rows[s].edge <= rows[target - 1].edge
    BY <1>1 DEF IsWindow, WindowsInv, Windows, EdgesHold
  <1> QED
    BY <1>1, <1>2, <1>3, <1>4 DEF IsWindow

LEMMA KeepEdgeWindows == ASSUME Fresh, WindowsInv, KeepEdge PROVE Windows'
  <1> DEFINE row == [rows[target] EXCEPT !.edge = edges.hi]
  <1>1. /\ pc = "offset" /\ UNCHANGED ledger /\ SameClaims /\ Return(row)
        /\ ~Legacy(rows[target])
    BY SameLedger DEF KeepEdge, WindowsInv, Inv, TargetHolds
  <1>2. /\ target \in Rounds /\ rows[target] \in Rows /\ traffic \in Nat
        /\ rows[target].status \in Retryable
        /\ rows[target].edge = None => target = cur
        /\ \A r \in Rounds : r \in Nat /\ (rows[r].edge # None => rows[r].edge \in 0 .. traffic)
    BY <1>1, Reads
  <1>3. edges.hi \in Nat /\ edges.hi # None
    BY DEF WindowsInv, Inv, TypeOK, None
  <1>4. /\ row \in Rows /\ row.status = rows[target].status /\ row.edge = edges.hi
        /\ row.priced = rows[target].priced /\ row.status # "absent"
        /\ Legacy(row) = Legacy(rows[target])
    BY <1>2, <1>3 DEF Rows, Retryable, Legacy
  <1> HIDE DEF row
  <1>5. /\ RoundsHold' /\ PricedHolds' /\ UNCHANGED <<traffic, cur>>
        /\ rows'[target] = row
        /\ \A r \in Rounds : r # target => rows'[r] = rows[r]
    BY <1>1, <1>3, <1>4, PricedReturn
  <1>6. CASE rows[target].edge # None
    <2>1. row.edge = rows[target].edge
      BY <1>1, <1>4, <1>6 DEF WindowsInv, Windows, PricedHolds
    <2>2. \A r \in Rounds : RowKeepsEdge(r)
      BY <1>2, <1>4, <1>5, <2>1 DEF RowKeepsEdge, Legacy, Due
    <2> QED
      BY <1>1, <1>2, <1>5, <2>2, QuietStep
  <1>7. CASE rows[target].edge = None
    <2>1. EdgesHold' /\ WindowsHold' /\ SkipsHold'
      BY <1>2, <1>3, <1>4, <1>5, <1>7, OffsetEdge, <1>1, EdgeGiven DEF Retryable
    <2>2. \A r \in Rounds : rows[r].edge # None => rows'[r].edge = rows[r].edge
      BY <1>5, <1>7
    <2>3. ClaimsHold'
      BY <1>1, <2>2, ClaimsKept DEF ClaimsHold, SameClaims
    <2> QED
      BY <1>5, <2>1, <2>3 DEF Windows
  <1> QED
    BY <1>6, <1>7

LEMMA RecordWindows == ASSUME Fresh, WindowsInv, RecordAttempt PROVE Windows'
  <1> DEFINE n == Len(attempts')
  <1>1. /\ pc = "offset" /\ pc' = "submit" /\ ~Legacy(rows[target])
        /\ UNCHANGED <<traffic, round, cur, target>>
    BY DEF RecordAttempt, locals, WindowsInv, Inv, TargetHolds
  <1>2. /\ target \in Rounds /\ rows[target] \in Rows /\ traffic \in Nat
        /\ rows[target].status \in Retryable
        /\ rows[target].edge = None => target = cur
        /\ \A r \in Rounds : r \in Nat /\ (rows[r].edge # None => rows[r].edge \in 0 .. traffic)
    BY <1>1, Reads
  <1>3. edges.hi \in Nat /\ edges.hi # None
    BY DEF WindowsInv, Inv, TypeOK, None
  <1>4. /\ Ids' = Ids \cup {n} /\ n \notin Ids
        /\ \A a \in Ids : attempts'[a] = attempts[a]
        /\ \A r \in Rounds : r # target => rows'[r] = rows[r]
        /\ rows'[target].status = "unknown" /\ rows'[target].edge = edges.hi
    BY Recorded DEF WindowsInv
  <1>5. /\ attempts'[n].round = target /\ attempts'[n].lo = edges.lo
        /\ attempts'[n].hi = edges.hi
    BY Recorded DEF WindowsInv
  <1> HIDE DEF n
  <1>6. \A r \in Rounds : rows[r].edge # None => rows'[r].edge = rows[r].edge
    BY <1>1, <1>4 DEF WindowsInv, Windows, PricedHolds
  <1>7. EdgesHold' /\ WindowsHold' /\ SkipsHold'
    <2>1. CASE rows[target].edge # None
      <3>1. \A r \in Rounds : RowKeepsEdge(r)
        BY <1>1, <1>2, <1>4, <1>6, <2>1 DEF RowKeepsEdge, Due, Legacy
      <3> QED
        BY <1>1, <1>2, <3>1, EdgesKept
    <2>2. CASE rows[target].edge = None
      BY <1>1, <1>2, <1>3, <1>4, <2>2, OffsetEdge, EdgeGiven
    <2> QED
      BY <2>1, <2>2
  <1>8. RoundsHold'
    BY <1>1, <1>2, <1>3, <1>4 DEF WindowsInv, Windows, RoundsHold, Retryable
  <1>9. PricedHolds'
    BY <1>1 DEF PricedHolds
  <1>10. ClaimsHold'
    <2>1. ASSUME NEW a \in Ids
          PROVE  LET r == attempts'[a].round
                 IN  /\ rows'[r].edge # None /\ attempts'[a].hi = rows'[r].edge
                     /\ r > 1 => rows'[r - 1].edge # None
                                 /\ attempts'[a].lo = rows'[r - 1].edge
      BY <1>4, <1>6, ClaimsKept
    <2>2. /\ rows'[target].edge # None /\ attempts'[n].hi = rows'[target].edge
          /\ rows'[target - 1].edge # None /\ attempts'[n].lo = rows'[target - 1].edge
      BY <1>1, <1>2, <1>3, <1>4, <1>5 DEF WindowsInv, Windows, PricedHolds, IsWindow
    <2> QED
      BY <1>4, <1>5, <2>1, <2>2 DEF ClaimsHold
  <1> QED
    BY <1>7, <1>8, <1>9, <1>10 DEF Windows

LEMMA StepWindows == Fresh /\ WindowsInv /\ [Next]_vars => WindowsInv'
  <1> SUFFICES ASSUME Fresh, WindowsInv, [Next]_vars PROVE Windows'
    BY StepHolds DEF WindowsInv
  <1>1. ASSUME NEW r \in Rounds, NEW n \in 0 .. Len(log), ReconcileRow(r, n)
        PROVE  Windows'
    BY <1>1, ReconcileWindows
  <1>2. CASE Answered \/ AnsweredRejected \/ AnsweredUnknown
    BY <1>2, AnswerWindows DEF Answered, AnsweredRejected, AnsweredUnknown
  <1>3. CASE Worker
    BY <1>1, <1>2, <1>3, TickWindows, ExpireWindows, CurrentWindows, CatchUpWindows,
       PriceWindows, KeepEdgeWindows, RecordWindows, SendWindows DEF Worker
  <1>4. CASE UNCHANGED vars
    <2>1. RoundsHold' /\ PricedHolds' /\ SameClaims /\ traffic' \in Nat
      BY <1>4, SameLedger DEF vars, ledger, locals, WindowsInv, Windows, Inv, TypeOK,
         RoundsHold, PricedHolds, IsWindow
    <2> QED
      BY <1>4, <2>1, QuietStep, SameRowsKeepEdges DEF vars
  <1> QED
    BY <1>3, <1>4, AbandonWindows, EnvironmentWindows DEF Next

LEMMA WindowsInitially == Init => Windows
  <1> SUFFICES ASSUME Init PROVE Windows
    OBVIOUS
  <1>1. Inv /\ \A r \in Rounds : rows[r] \in {Absent, LegacyRow} /\ (r # 1 => rows[r] = Absent)
    BY Initially DEF Init
  <1>2. /\ LegacyRow.edge = 0 /\ Absent.edge = None /\ ~Absent.priced
        /\ Legacy(LegacyRow) /\ Absent.status = "absent" /\ LegacyRow.status = "failed"
        /\ None # 0
    BY DEF LegacyRow, Absent, Legacy, None, NoSub
  <1>3. 1 \in Rounds /\ \A r \in Rounds : r \in Nat
    BY Constants DEF Rounds
  <1>4. RoundsHold /\ EdgesHold /\ WindowsHold
    BY <1>1, <1>2, <1>3 DEF Init, RoundsHold, EdgesHold, WindowsHold, Due, Retryable
  <1>5. PricedHolds
    BY DEF Init, PricedHolds
  <1>6. ClaimsHold
    <2>1. CASE attempts = << >>
      BY <2>1 DEF ClaimsHold, Ids
    <2>2. CASE rows[1] = LegacyRow /\ attempts = <<LegacyAttempt>>
      BY <1>2, <2>2 DEF ClaimsHold, Ids, LegacyAttempt
    <2> QED
      BY <1>3, <2>1, <2>2 DEF Init
  <1>7. SkipsHold
    <2> SUFFICES ASSUME NEW r \in Rounds, NEW s \in Rounds, r < s,
                        \A k \in (r + 1) .. s : rows[k].status = "skipped"
                 PROVE  FALSE
      BY DEF SkipsHold
    <2> QED
      BY <1>1, <1>2, <1>3
  <1> QED
    BY <1>4, <1>5, <1>6, <1>7 DEF Windows

LEMMA WindowsInvariance == ASSUME Fresh PROVE Spec => []WindowsInv
  <1>1. Init => WindowsInv
    BY Initially, WindowsInitially DEF WindowsInv
  <1>2. WindowsInv /\ [Next]_vars => WindowsInv'
    BY StepWindows
  <1> QED
    BY <1>1, <1>2, PTL DEF Spec

(***************************************************************************)
(* When every reading is fresh and recorded as it is taken, no byte of     *)
(* traffic is claimed by two markers, of whichever rounds.                 *)
(***************************************************************************)
THEOREM ClaimedOnce == ASSUME Fresh PROVE Spec => []NoByteClaimedTwice
  <1>1. ASSUME WindowsInv, NEW a \in Accepted, NEW b \in Accepted,
               attempts[a].round < attempts[b].round
        PROVE  attempts[a].hi <= attempts[b].lo
    <2> DEFINE i == attempts[a].round
               j == attempts[b].round
    <2>1. /\ i \in Rounds /\ j \in Rounds /\ a \in Ids /\ b \in Ids
      BY <1>1, AttemptIs DEF Accepted, WindowsInv, Inv
    <2>2. /\ rows[i].edge # None /\ attempts[a].hi = rows[i].edge
          /\ rows[j - 1].edge # None /\ attempts[b].lo = rows[j - 1].edge
      BY <1>1, <2>1, Constants DEF WindowsInv, Windows, ClaimsHold, Rounds
    <2>3. i < j
      BY <1>1
    <2> HIDE DEF i, j
    <2>4. j - 1 \in Rounds /\ i <= j - 1
      BY <2>1, <2>3, Constants DEF Rounds
    <2>5. rows[i].edge \in Nat /\ rows[j - 1].edge \in Nat
      BY <1>1, <2>1, <2>2, <2>4, EdgeIs DEF WindowsInv, Inv
    <2>6. rows[i].edge <= rows[j - 1].edge
      BY <1>1, <2>1, <2>2, <2>4, <2>5, Constants DEF WindowsInv, Windows, EdgesHold, Rounds
    <2> QED
      BY <2>2, <2>6
  <1>2. WindowsInv => NoByteClaimedTwice
    <2> SUFFICES ASSUME WindowsInv, NEW a \in Accepted, NEW b \in Accepted, a # b
                 PROVE  \/ attempts[a].hi <= attempts[b].lo
                        \/ attempts[b].hi <= attempts[a].lo
      BY DEF NoByteClaimedTwice
    <2>1. attempts[a].round \in Nat /\ attempts[b].round \in Nat
      BY AttemptIs, Constants DEF Accepted, WindowsInv, Inv, Rounds
    <2>2. attempts[a].round # attempts[b].round
      BY DEF WindowsInv, Inv, OneRegistered, Accepted, InState
    <2> QED
      BY <1>1, <2>1, <2>2
  <1> QED
    BY <1>2, WindowsInvariance, PTL

(***************************************************************************)
(* And none is dropped by the floor: between two markers with nothing but  *)
(* skipped rounds between them, the later begins where the earlier ended.  *)
(***************************************************************************)
THEOREM CarriedOver == ASSUME Fresh PROVE Spec => []CarriedBytesAreClaimed
  <1>1. ASSUME WindowsInv, NEW a \in Accepted, NEW b \in Accepted,
               NEW i \in Rounds, NEW j \in Rounds,
               i = attempts[a].round, j = attempts[b].round, i < j,
               \A r \in (i + 1) .. (j - 1) : rows[r].status = "skipped"
        PROVE  attempts[b].lo = attempts[a].hi
    <2>1. /\ rows[i].edge # None /\ attempts[a].hi = rows[i].edge
          /\ rows[j - 1].edge # None /\ attempts[b].lo = rows[j - 1].edge
      BY <1>1, Constants DEF WindowsInv, Windows, ClaimsHold, Rounds, Accepted
    <2>2. j - 1 \in Rounds /\ (i = j - 1 \/ i < j - 1)
      BY <1>1, Constants DEF Rounds
    <2>3. rows[j - 1].edge = rows[i].edge
      BY <1>1, <2>1, <2>2 DEF WindowsInv, Windows, SkipsHold
    <2> QED
      BY <2>1, <2>3
  <1>2. WindowsInv => CarriedBytesAreClaimed
    BY <1>1, AttemptIs DEF CarriedBytesAreClaimed, Accepted, WindowsInv, Inv
  <1> QED
    BY <1>2, WindowsInvariance, PTL
=============================================================================
