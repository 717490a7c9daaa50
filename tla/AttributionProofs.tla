-------------------------- MODULE AttributionProofs --------------------------
(***************************************************************************)
(* What a report says of a payment is true, and an outage spends none of   *)
(* its attempts, for every number of payments, clients and attempts.       *)
(***************************************************************************)
EXTENDS Attribution, FiniteSetTheorems, TLAPS

\* what the constants are
Deployed ==
    /\ IsFiniteSet(Updates)
    /\ Len(Clients) \in Nat /\ DOMAIN Clients = 1 .. Len(Clients)
    /\ MaxAttempts \in Nat \ {0}

Answers == {"confirmed", "no_summary", "rejected", "failed"}
Row == [status : Answers \cup {"pending"}, attempts : Nat, settledAt : Nat]
Fetch == [pc : {"ask", "store"}, update : Updates, client : Nat \ {0},
          null : BOOLEAN, answer : Answers \cup {"none"}]

TypeOK ==
    /\ truth \in [Updates -> {"accepted", "rejected", "odd"}]
    /\ view \in [Updates -> [DOMAIN Clients -> {"none", "verdict", "summary"}]]
    /\ rows \in [Updates -> Row \cup {NoRow}]
    /\ batch \subseteq Updates
    /\ fetch \in [Fetchers -> Fetch \cup {Idle}]
    /\ heard \in [Updates -> 0 .. MaxAttempts]

\* what an answer says of a payment is so
Fits(u, answer) ==
    /\ answer = "confirmed" =>
         /\ truth[u] = "accepted"
         /\ \E c \in DOMAIN Clients : view[u][c] = "summary"
    /\ answer = "no_summary" => truth[u] = "accepted"
    /\ answer = "rejected" => truth[u] = "rejected"

\* an answer on its way to the store, which may be older than the row's
AnswersFit ==
    \A f \in Fetchers : fetch[f].pc = "store" =>
      /\ fetch[f].answer \in Answers
      /\ Fits(fetch[f].update, fetch[f].answer)
      /\ fetch[f].answer = "failed" => truth[fetch[f].update] = "odd"

RowsFit == \A u \in Updates : rows[u] # NoRow => Fits(u, rows[u].status)

\* an attempt the worker is about to spend is one more answer of nothing yet
Used(u) == IF Pending(u) THEN rows[u].attempts ELSE 0
SpendIsHeard ==
    \A u \in Updates :
      fetch[Worker].pc = "ask" /\ fetch[Worker].null /\ fetch[Worker].update = u =>
        Used(u) + 1 <= heard[u]

AttemptsHeard ==
    \A u \in Updates : rows[u] # NoRow =>
      /\ rows[u].attempts <= heard[u]
      /\ rows[u].status = "failed" => truth[u] = "odd" \/ heard[u] >= MaxAttempts
      /\ rows[u].status = "pending" => rows[u].attempts < MaxAttempts

Inv == TypeOK /\ AnswersFit /\ RowsFit /\ SpendIsHeard /\ AttemptsHeard

-----------------------------------------------------------------------------

\* the invariant is what the property asks, and more
LEMMA InvGives == Inv => OutageSpendsNothing
  BY DEF Inv, RowsFit, AttemptsHeard, OutageSpendsNothing, Fits

LEMMA Initially == ASSUME Deployed PROVE Init => Inv
  <1> SUFFICES ASSUME Init PROVE Inv
    OBVIOUS
  <1>1. TypeOK
    BY DEF Init, Deployed, TypeOK
  <1>2. \A f \in Fetchers : fetch[f].pc = "idle"
    BY DEF Init, Idle
  <1>3. Worker \in Fetchers
    BY DEF Fetchers
  <1>4. \A u \in Updates : rows[u] = NoRow
    BY DEF Init
  <1> QED
    BY <1>1, <1>2, <1>3, <1>4 DEF Inv, AnswersFit, RowsFit, SpendIsHeard,
       AttemptsHeard

LEMMA IdlePc == Idle.pc = "idle"
  BY DEF Idle

-----------------------------------------------------------------------------
(* What a step leaves as it is.                                            *)

LEMMA RowsStayFit == RowsFit /\ UNCHANGED <<truth, view, rows>> => RowsFit'
  BY DEF RowsFit, Fits

LEMMA AttemptsStay ==
    ASSUME Deployed, TypeOK, TypeOK', AttemptsHeard, UNCHANGED <<truth, rows>>,
           \A u \in Updates : heard'[u] >= heard[u]
    PROVE  AttemptsHeard'
  <1> SUFFICES ASSUME NEW u \in Updates, rows[u] # NoRow
               PROVE  /\ rows[u].attempts <= heard'[u]
                      /\ rows[u].status = "failed" =>
                           truth[u] = "odd" \/ heard'[u] >= MaxAttempts
                      /\ rows[u].status = "pending" =>
                           rows[u].attempts < MaxAttempts
    BY DEF AttemptsHeard
  <1>1. rows[u].attempts \in Nat
    BY DEF TypeOK, Row
  <1>2. heard[u] \in Nat /\ heard'[u] \in Nat /\ MaxAttempts \in Nat
    BY DEF TypeOK, Deployed
  <1> QED
    BY <1>1, <1>2 DEF AttemptsHeard

\* no answer appears
LEMMA AnswersStayFit ==
    ASSUME AnswersFit, UNCHANGED <<truth, view>>,
           \A g \in Fetchers : fetch'[g].pc = "store" => fetch'[g] = fetch[g]
    PROVE  AnswersFit'
  BY DEF AnswersFit, Fits

\* a fetcher that moves and is not about to store, the others as they were
LEMMA OneMoves ==
    ASSUME TypeOK, NEW f \in Fetchers, NEW r, fetch' = [fetch EXCEPT ![f] = r],
           r.pc # "store"
    PROVE  \A g \in Fetchers : fetch'[g].pc = "store" => fetch'[g] = fetch[g]
  BY DEF TypeOK

\* nothing new to spend
LEMMA SpendStays ==
    ASSUME SpendIsHeard, UNCHANGED <<rows, heard>>,
           fetch'[Worker].pc = "ask" /\ fetch'[Worker].null =>
             /\ fetch[Worker].pc = "ask" /\ fetch[Worker].null
             /\ fetch'[Worker].update = fetch[Worker].update
    PROVE  SpendIsHeard'
  BY DEF SpendIsHeard, Used, Pending

-----------------------------------------------------------------------------
(* The steps.                                                              *)

LEMMA LearnsKeeps ==
    ASSUME Deployed, Inv, NEW u \in Updates, NEW c \in DOMAIN Clients, Learns(c, u)
    PROVE  Inv'
  <1>1. TypeOK'
    <2>1. PICK known \in {"verdict", "summary"} :
            view' = [view EXCEPT ![u] = [view[u] EXCEPT ![c] = known]]
      BY DEF Inv, TypeOK, Learns
    <2>2. [view[u] EXCEPT ![c] = known] \in
            [DOMAIN Clients -> {"none", "verdict", "summary"}]
      BY DEF Inv, TypeOK
    <2>3. view' \in [Updates -> [DOMAIN Clients -> {"none", "verdict", "summary"}]]
      BY <2>1, <2>2 DEF Inv, TypeOK
    <2> QED
      BY <2>3 DEF Inv, TypeOK, Learns
  <1>2. \A w \in Updates : \A d \in DOMAIN Clients :
          view[w][d] = "summary" => view'[w][d] = "summary"
    BY DEF Inv, TypeOK, Learns
  <1>3. RowsFit'
    BY <1>2 DEF Inv, RowsFit, Fits, Learns
  <1>4. \A g \in Fetchers : fetch[g].pc = "store" => fetch[g].update \in Updates
    BY IdlePc DEF Inv, TypeOK, Fetch
  <1>5. AnswersFit'
    BY <1>2, <1>4 DEF Inv, AnswersFit, Fits, Learns
  <1>6. SpendIsHeard' /\ AttemptsHeard'
    BY DEF Inv, SpendIsHeard, AttemptsHeard, Learns, Used, Pending
  <1> QED
    BY <1>1, <1>3, <1>5, <1>6 DEF Inv

\* a fetch begins with nothing heard
LEMMA RecordKeeps ==
    ASSUME Deployed, Inv, NEW u \in Updates, Record(u)
    PROVE  Inv'
  <1>1. u \in Fetchers
    BY DEF Fetchers
  <1>2. /\ fetch' = [fetch EXCEPT ![u] = [pc |-> "ask", update |-> u, client |-> 1,
                                          null |-> FALSE, answer |-> "none"]]
        /\ rows[u] = NoRow
        /\ UNCHANGED <<truth, view, batch, heard>>
    BY DEF Record, Start, Scan
  <1>3. \/ rows' = rows
        \/ rows' = [rows EXCEPT ![u] = [status |-> "pending", attempts |-> 0,
                                        settledAt |-> Cardinality(Recorded)]]
    BY DEF Record
  <1>4. Cardinality(Recorded) \in Nat
    BY FS_Subset, FS_CardinalityType DEF Deployed, Recorded
  <1>5. TypeOK'
    BY <1>1, <1>2, <1>3, <1>4, SMTT(30) DEF Inv, TypeOK, Fetch, Row
  <1>6. fetch'[u].pc = "ask" /\ fetch'[u].null = FALSE
    BY <1>1, <1>2 DEF Inv, TypeOK
  <1>7. \A g \in Fetchers : g # u => fetch'[g] = fetch[g]
    BY <1>2 DEF Inv, TypeOK
  <1>8. AnswersFit'
    BY <1>2, <1>6, <1>7, AnswersStayFit DEF Inv
  <1>9. \A w \in Updates :
           \/ rows'[w] = rows[w]
           \/ w = u /\ rows'[w].status = "pending" /\ rows'[w].attempts = 0
    BY <1>3 DEF Inv, TypeOK
  <1>10. RowsFit'
    BY <1>2, <1>9 DEF Inv, RowsFit, Fits
  <1>11. AttemptsHeard'
    <2> SUFFICES ASSUME NEW w \in Updates, rows'[w] # NoRow
                 PROVE  /\ rows'[w].attempts <= heard[w]
                        /\ rows'[w].status = "failed" =>
                             truth[w] = "odd" \/ heard[w] >= MaxAttempts
                        /\ rows'[w].status = "pending" =>
                             rows'[w].attempts < MaxAttempts
      BY <1>2 DEF AttemptsHeard
    <2>1. CASE rows'[w] = rows[w]
      BY <2>1 DEF Inv, AttemptsHeard
    <2>2. CASE rows'[w].status = "pending" /\ rows'[w].attempts = 0
      BY <2>2 DEF Inv, TypeOK, Deployed
    <2> QED
      BY <2>1, <2>2, <1>9
  <1>12. SpendIsHeard'
    <2> SUFFICES ASSUME NEW w \in Updates, fetch'[Worker].pc = "ask",
                        fetch'[Worker].null, fetch'[Worker].update = w
                 PROVE  Used(w)' + 1 <= heard[w]
      BY <1>2 DEF SpendIsHeard
    <2>1. Worker \in Fetchers /\ Worker # u
      BY <1>6 DEF Fetchers
    <2>2. fetch'[Worker] = fetch[Worker]
      BY <1>7, <2>1
    <2>3. Used(w)' = Used(w)
      BY <1>2, <1>9 DEF Used, Pending
    <2> QED
      BY <2>2, <2>3 DEF Inv, SpendIsHeard
  <1> QED
    BY <1>5, <1>8, <1>10, <1>11, <1>12 DEF Inv

LEMMA NextRowKeeps ==
    ASSUME Deployed, Inv, NEW u \in Updates, NextRow(u)
    PROVE  Inv'
  <1> DEFINE r == [pc |-> "ask", update |-> u, client |-> 1, null |-> FALSE,
                   answer |-> "none"]
  <1>1. Worker \in Fetchers
    BY DEF Fetchers
  <1>2. fetch' = [fetch EXCEPT ![Worker] = r] /\ batch' = batch \ {u}
        /\ UNCHANGED <<truth, view, rows, heard>>
    BY DEF NextRow, Start, Scan
  <1>3. TypeOK'
    BY <1>1, <1>2 DEF Inv, TypeOK, Fetch
  <1>4. fetch'[Worker].null = FALSE
    BY <1>1, <1>2 DEF Inv, TypeOK
  <1>5. \A g \in Fetchers : fetch'[g].pc = "store" => fetch'[g] = fetch[g]
    BY <1>1, <1>2 DEF Inv, TypeOK
  <1> QED
    BY <1>2, <1>3, <1>4, <1>5, RowsStayFit, AttemptsStay, AnswersStayFit,
       SpendStays DEF Inv, TypeOK

LEMMA TickKeeps == ASSUME Deployed, Inv, Tick PROVE Inv'
  <1>1. batch' \subseteq Updates /\ UNCHANGED <<truth, view, rows, fetch, heard>>
    BY DEF Tick, Scan, Recorded
  <1>2. TypeOK'
    BY <1>1 DEF Inv, TypeOK
  <1> QED
    BY <1>1, <1>2 DEF Inv, AnswersFit, RowsFit, Fits, SpendIsHeard, AttemptsHeard,
       Used, Pending

LEMMA RestartKeeps == ASSUME Deployed, Inv, Restart PROVE Inv'
  <1>1. \A g \in Fetchers : fetch'[g].pc = "idle"
    BY DEF Restart, Idle
  <1>2. Worker \in Fetchers
    BY DEF Fetchers
  <1>3. UNCHANGED <<truth, view, rows, heard>>
    BY DEF Restart, Scan
  <1>4. TypeOK'
    BY <1>3 DEF Inv, TypeOK, Restart
  <1>5. AnswersFit' /\ SpendIsHeard'
    BY <1>1, <1>2 DEF AnswersFit, SpendIsHeard
  <1> QED
    BY <1>3, <1>4, <1>5, RowsStayFit, AttemptsStay DEF Inv, TypeOK

\* the fetch ends and its row is left as it is
LEMMA StoreFailsKeeps ==
    ASSUME Deployed, Inv, NEW f \in Fetchers, Done(f),
           UNCHANGED <<truth, view, rows, batch, heard>>
    PROVE  Inv'
  <1>1. TypeOK'
    BY DEF Inv, TypeOK, Done
  <1>2. \A g \in Fetchers : \/ fetch'[g] = fetch[g]
                           \/ fetch'[g].pc = "idle"
    BY DEF Inv, TypeOK, Done, Idle
  <1>3. Worker \in Fetchers
    BY DEF Fetchers
  <1> QED
    BY <1>1, <1>2, <1>3, RowsStayFit, AttemptsStay, AnswersStayFit, SpendStays
       DEF Inv, TypeOK

LEMMA ErrsKeeps ==
    ASSUME Deployed, Inv, NEW f \in Fetchers, Errs(f)
    PROVE  Inv'
  <1>1. fetch[f] \in Fetch /\ fetch[f].pc = "ask"
    BY IdlePc DEF Inv, TypeOK, Errs, Asking
  <1>2. fetch' = [fetch EXCEPT ![f] = [fetch[f] EXCEPT !.client = @ + 1]]
        /\ UNCHANGED <<truth, view, rows, batch, heard>>
    BY DEF Errs, Scan
  <1>3. [fetch[f] EXCEPT !.client = @ + 1] \in Fetch
    BY <1>1 DEF Fetch
  <1>4. TypeOK'
    BY <1>2, <1>3 DEF Inv, TypeOK
  <1>5. /\ fetch'[f].pc = "ask"
        /\ fetch'[f].null = fetch[f].null
        /\ fetch'[f].update = fetch[f].update
    BY <1>1, <1>2 DEF Inv, TypeOK, Fetch
  <1>6. \A g \in Fetchers : g # f => fetch'[g] = fetch[g]
    BY <1>2 DEF Inv, TypeOK
  <1>7. Worker \in Fetchers
    BY DEF Fetchers
  <1> QED
    BY <1>1, <1>2, <1>4, <1>5, <1>6, <1>7, RowsStayFit, AttemptsStay,
       AnswersStayFit, SpendStays DEF Inv, TypeOK

\* the worker hears that there is nothing yet, once in a fetch
LEMMA HasNoneKeeps ==
    ASSUME Deployed, Inv, NEW f \in Fetchers, HasNone(f)
    PROVE  Inv'
  <1>1. fetch[f] \in Fetch /\ fetch[f].pc = "ask"
    BY IdlePc DEF Inv, TypeOK, HasNone, Asking
  <1>2. fetch[f].update \in Updates /\ Worker \in Fetchers
    BY <1>1 DEF Fetch, Fetchers
  <1>3. fetch' = [fetch EXCEPT ![f] = [fetch[f] EXCEPT !.client = @ + 1,
                                                      !.null = TRUE]]
        /\ UNCHANGED <<truth, view, rows, batch>>
    BY DEF HasNone, Scan
  <1>4. [fetch[f] EXCEPT !.client = @ + 1, !.null = TRUE] \in Fetch
    <2> DEFINE on == fetch[f].client + 1
    <2>1. on \in Nat \ {0}
      BY <1>1 DEF Fetch
    <2>2. TRUE \in BOOLEAN
      OBVIOUS
    <2> HIDE DEF on
    <2>3. [fetch[f] EXCEPT !.client = on, !.null = TRUE] \in Fetch
      BY <1>1, <2>1, <2>2, Zenon DEF Fetch
    <2> QED
      BY <2>3 DEF on
  <1>5. heard' \in [Updates -> 0 .. MaxAttempts]
    <2>1. CASE f = Worker /\ ~fetch[f].null
      <3> DEFINE told == heard[fetch[f].update]
      <3>1. told \in 0 .. MaxAttempts /\ MaxAttempts \in Nat
        BY <1>2 DEF Inv, TypeOK, Deployed
      <3>2. (IF told < MaxAttempts THEN told + 1 ELSE told) \in 0 .. MaxAttempts
        BY <3>1
      <3>3. heard' = [heard EXCEPT ![fetch[f].update] =
                        IF told < MaxAttempts THEN told + 1 ELSE told]
        BY <2>1 DEF HasNone
      <3> QED
        BY <1>2, <3>2, <3>3 DEF Inv, TypeOK
    <2>2. CASE ~(f = Worker /\ ~fetch[f].null)
      BY <2>2 DEF HasNone, Inv, TypeOK
    <2> QED
      BY <2>1, <2>2
  <1>6. TypeOK'
    BY <1>3, <1>4, <1>5 DEF Inv, TypeOK
  <1>7. \A w \in Updates : heard'[w] >= heard[w]
    BY DEF HasNone, Inv, TypeOK, Deployed
  <1>8. fetch'[f].pc = "ask" /\ fetch'[f].update = fetch[f].update
    BY <1>1, <1>3 DEF Inv, TypeOK, Fetch
  <1>9. \A g \in Fetchers : g # f => fetch'[g] = fetch[g]
    BY <1>3 DEF Inv, TypeOK
  <1>10. AnswersFit'
    BY <1>3, <1>8, <1>9, AnswersStayFit DEF Inv
  <1>11. SpendIsHeard'
    <2> SUFFICES ASSUME NEW w \in Updates, fetch'[Worker].pc = "ask",
                        fetch'[Worker].null, fetch'[Worker].update = w
                 PROVE  Used(w) + 1 <= heard'[w]
      BY <1>3 DEF SpendIsHeard, Used, Pending
    <2>1. Used(w) \in Nat /\ heard[w] \in Nat /\ heard'[w] \in Nat
          /\ MaxAttempts \in Nat \ {0}
      BY <1>6 DEF Inv, TypeOK, Used, Pending, Row, Deployed
    <2>2. CASE f = Worker /\ ~fetch[f].null
      <3>1. w = fetch[f].update
        BY <1>8, <2>2
      <3>2. heard'[w] = IF heard[w] < MaxAttempts THEN heard[w] + 1 ELSE heard[w]
        BY <2>2, <3>1 DEF HasNone, Inv, TypeOK
      <3>3. Used(w) <= heard[w] /\ Used(w) < MaxAttempts
        BY <2>1 DEF Inv, AttemptsHeard, Used, Pending
      <3> QED
        BY <2>1, <3>2, <3>3
    <2>3. CASE f = Worker /\ fetch[f].null
      BY <1>1, <1>7, <1>8, <2>1, <2>3 DEF Inv, SpendIsHeard
    <2>4. CASE f # Worker
      BY <1>2, <1>7, <1>9, <2>1, <2>4 DEF Inv, SpendIsHeard
    <2> QED
      BY <2>2, <2>3, <2>4
  <1> QED
    BY <1>3, <1>6, <1>7, <1>10, <1>11, RowsStayFit, AttemptsStay DEF Inv

\* a client that knows the verdict says what the ledger made of the payment
LEMMA TellsKeeps ==
    ASSUME Deployed, Inv, NEW f \in Fetchers, Tells(f)
    PROVE  Inv'
  <1> DEFINE c == fetch[f].client
             u == fetch[f].update
  <1>1. fetch[f] \in Fetch /\ c <= Len(Clients)
    BY IdlePc DEF Inv, TypeOK, Tells, Asking, AskedAll, Fetch, Deployed
  <1>2. u \in Updates /\ c \in DOMAIN Clients
    BY <1>1 DEF Fetch, Deployed
  <1>3. StatusOf(c, u) \in Answers /\ Fits(u, StatusOf(c, u))
        /\ (StatusOf(c, u) = "failed" => truth[u] = "odd")
    BY <1>2 DEF StatusOf, Answers, Fits, Inv, TypeOK
  <1>4. fetch' = [fetch EXCEPT ![f] = [fetch[f] EXCEPT !.pc = "store",
                                                      !.answer = StatusOf(c, u)]]
        /\ UNCHANGED <<truth, view, rows, batch, heard>>
    BY DEF Tells, Scan
  <1>5. [fetch[f] EXCEPT !.pc = "store", !.answer = StatusOf(c, u)] \in Fetch
    BY <1>1, <1>3 DEF Fetch
  <1>6. TypeOK'
    BY <1>4, <1>5 DEF Inv, TypeOK
  <1>7. fetch'[f].pc = "store" /\ fetch'[f].answer = StatusOf(c, u)
        /\ fetch'[f].update = u
    BY <1>1, <1>4 DEF Inv, TypeOK, Fetch
  <1>8. \A g \in Fetchers : g # f => fetch'[g] = fetch[g]
    BY <1>4 DEF Inv, TypeOK
  <1>9. AnswersFit'
    <2> SUFFICES ASSUME NEW g \in Fetchers, fetch'[g].pc = "store"
                 PROVE  /\ fetch'[g].answer \in Answers
                        /\ Fits(fetch'[g].update, fetch'[g].answer)
                        /\ fetch'[g].answer = "failed" =>
                             truth[fetch'[g].update] = "odd"
      BY <1>4 DEF AnswersFit, Fits
    <2>1. CASE g = f
      BY <1>3, <1>7, <2>1
    <2>2. CASE g # f
      BY <1>8, <2>2 DEF Inv, AnswersFit
    <2> QED
      BY <2>1, <2>2
  <1>10. Worker \in Fetchers
    BY DEF Fetchers
  <1> QED
    BY <1>4, <1>6, <1>7, <1>8, <1>9, <1>10, RowsStayFit, AttemptsStay, SpendStays
       DEF Inv, TypeOK

\* the later of two answers may replace the earlier: both are so; but only a
\* pending row is failed
LEMMA StoreKeeps ==
    ASSUME Deployed, Inv, NEW f \in Fetchers, Store(f)
    PROVE  Inv'
  <1> DEFINE u == fetch[f].update
             a == fetch[f].answer
  <1>1. fetch[f] \in Fetch /\ Worker \in Fetchers
    BY IdlePc DEF Inv, TypeOK, Store, Fetchers
  <1>2. u \in Updates
    BY <1>1 DEF Fetch
  <1>3. a \in Answers /\ Fits(u, a) /\ (a = "failed" => truth[u] = "odd")
    BY DEF Store, Inv, AnswersFit
  <1>4. UNCHANGED <<truth, view, batch, heard>>
    BY DEF Store, Scan
  <1>5. /\ fetch' \in [Fetchers -> Fetch \cup {Idle}]
        /\ \A g \in Fetchers : fetch'[g] = fetch[g] \/ fetch'[g].pc = "idle"
    BY IdlePc DEF Inv, TypeOK, Store, Done
  <1>6. /\ rows' \in [Updates -> Row \cup {NoRow}]
        /\ \A w \in Updates :
             \/ rows'[w] = rows[w]
             \/ /\ w = u /\ rows[u] # NoRow
                /\ rows'[w].status = a /\ rows'[w].attempts = rows[w].attempts
    <2>1. CASE rows' = rows
      BY <2>1 DEF Inv, TypeOK
    <2>2. CASE /\ rows[u] # NoRow
               /\ rows' = [rows EXCEPT ![u] = [rows[u] EXCEPT !.status = a]]
      <3>1. rows[u] \in Row
        BY <1>2, <2>2 DEF Inv, TypeOK
      <3>2. /\ [rows[u] EXCEPT !.status = a] \in Row
            /\ [rows[u] EXCEPT !.status = a].status = a
            /\ [rows[u] EXCEPT !.status = a].attempts = rows[u].attempts
        BY <1>3, <3>1 DEF Row
      <3> QED
        BY <1>2, <2>2, <3>2 DEF Inv, TypeOK
    <2> QED
      BY <2>1, <2>2 DEF Store
  <1>7. TypeOK'
    BY <1>4, <1>5, <1>6 DEF Inv, TypeOK
  <1>8. AnswersFit'
    BY <1>4, <1>5, AnswersStayFit DEF Inv
  <1>9. RowsFit'
    <2> SUFFICES ASSUME NEW w \in Updates, rows'[w] # NoRow
                 PROVE  Fits(w, rows'[w].status)
      BY <1>4 DEF RowsFit, Fits
    <2> QED
      BY <1>3, <1>6 DEF Inv, RowsFit
  <1>10. AttemptsHeard'
    <2> SUFFICES ASSUME NEW w \in Updates, rows'[w] # NoRow
                 PROVE  /\ rows'[w].attempts <= heard[w]
                        /\ rows'[w].status = "failed" =>
                             truth[w] = "odd" \/ heard[w] >= MaxAttempts
                        /\ rows'[w].status = "pending" =>
                             rows'[w].attempts < MaxAttempts
      BY <1>4 DEF AttemptsHeard
    <2>1. CASE rows'[w] = rows[w]
      BY <2>1 DEF Inv, AttemptsHeard
    <2>2. CASE /\ w = u /\ rows[u] # NoRow
               /\ rows'[w].status = a /\ rows'[w].attempts = rows[w].attempts
      BY <1>3, <2>2 DEF Inv, AttemptsHeard, Answers
    <2> QED
      BY <1>6, <2>1, <2>2
  <1>11. SpendIsHeard'
    <2> SUFFICES ASSUME NEW w \in Updates, fetch'[Worker].pc = "ask",
                        fetch'[Worker].null, fetch'[Worker].update = w
                 PROVE  Used(w)' + 1 <= heard[w]
      BY <1>4 DEF SpendIsHeard
    <2>1. Used(w)' = Used(w) \/ Used(w)' = 0
      BY <1>3, <1>6 DEF Used, Pending, Answers
    <2>2. Used(w) \in Nat /\ heard[w] \in Nat
      BY DEF Inv, TypeOK, Used, Pending, Row, Deployed
    <2>3. fetch'[Worker] = fetch[Worker]
      BY <1>1, <1>5
    <2> QED
      BY <2>1, <2>2, <2>3 DEF Inv, SpendIsHeard
  <1> QED
    BY <1>7, <1>8, <1>9, <1>10, <1>11 DEF Inv

\* the worker spends an attempt on what it heard; nobody else spends one
LEMMA NothingKeeps ==
    ASSUME Deployed, Inv, NEW f \in Fetchers, Nothing(f)
    PROVE  Inv'
  <1> DEFINE u == fetch[f].update
  <1>1. fetch[f] \in Fetch /\ fetch[f].pc = "ask" /\ Worker \in Fetchers
    BY IdlePc DEF Inv, TypeOK, Nothing, Fetchers
  <1>2. u \in Updates
    BY <1>1 DEF Fetch
  <1>3. Done(f) /\ UNCHANGED <<truth, view, batch, heard>>
    BY DEF Nothing, Scan
  <1>4. CASE UNCHANGED rows
    BY <1>3, <1>4, StoreFailsKeeps
  <1>5. CASE f = Worker /\ fetch[f].null /\ Pending(u) /\ Spend(u)
    <2> DEFINE spent == rows[u].attempts + 1
               status == IF spent >= MaxAttempts THEN "failed" ELSE "pending"
    <2>1. rows[u] \in Row /\ rows[u].status = "pending"
      BY <1>2, <1>5 DEF Inv, TypeOK, Pending
    <2>2. spent <= heard[u] /\ spent \in Nat /\ heard[u] \in Nat /\ MaxAttempts \in Nat
      BY <1>1, <1>2, <1>5, <2>1
         DEF Inv, TypeOK, SpendIsHeard, Used, Row, Deployed
    <2>3. rows' = [rows EXCEPT ![u] = [rows[u] EXCEPT !.attempts = spent,
                                                      !.status = status]]
      BY <1>5, <2>1 DEF Spend
    <2>4. /\ [rows[u] EXCEPT !.attempts = spent, !.status = status] \in Row
          /\ [rows[u] EXCEPT !.attempts = spent, !.status = status].attempts = spent
          /\ [rows[u] EXCEPT !.attempts = spent, !.status = status].status = status
      BY <2>1, <2>2 DEF Row, Answers
    <2>5. /\ rows'[u].attempts = spent /\ rows'[u].status = status
          /\ \A w \in Updates : w # u => rows'[w] = rows[w]
      BY <1>2, <2>3, <2>4 DEF Inv, TypeOK
    <2>6. fetch' \in [Fetchers -> Fetch \cup {Idle}]
      BY DEF Nothing, Done, Inv, TypeOK
    <2>7. TypeOK'
      BY <1>2, <1>3, <2>3, <2>4, <2>6 DEF Inv, TypeOK
    <2>8. \A g \in Fetchers : fetch'[g] = fetch[g] \/ fetch'[g].pc = "idle"
      BY <1>3 DEF Inv, TypeOK, Done, Idle
    <2>9. fetch'[Worker].pc = "idle"
      BY <1>1, <1>3, <1>5 DEF Inv, TypeOK, Done, Idle
    <2>10. AnswersFit' /\ SpendIsHeard'
      BY <1>3, <2>8, <2>9, AnswersStayFit DEF Inv, SpendIsHeard
    <2>11. RowsFit'
      BY <1>3, <2>5 DEF Inv, RowsFit, Fits
    <2>12. AttemptsHeard'
      <3> SUFFICES ASSUME NEW w \in Updates, rows'[w] # NoRow
                   PROVE  /\ rows'[w].attempts <= heard[w]
                          /\ rows'[w].status = "failed" =>
                               truth[w] = "odd" \/ heard[w] >= MaxAttempts
                          /\ rows'[w].status = "pending" =>
                               rows'[w].attempts < MaxAttempts
        BY <1>3 DEF AttemptsHeard
      <3>1. CASE w = u
        BY <2>2, <2>5, <3>1
      <3>2. CASE w # u
        BY <2>5, <3>2 DEF Inv, AttemptsHeard
      <3> QED
        BY <3>1, <3>2
    <2> QED
      BY <2>7, <2>10, <2>11, <2>12 DEF Inv
  <1> QED
    BY <1>4, <1>5 DEF Nothing, Spend

-----------------------------------------------------------------------------

LEMMA Step == ASSUME Deployed, Inv, [Next]_vars PROVE Inv'
  <1>1. ASSUME NEW u \in Updates,
               Record(u) \/ NextRow(u) \/ \E c \in DOMAIN Clients : Learns(c, u)
        PROVE  Inv'
    BY <1>1, RecordKeeps, NextRowKeeps, LearnsKeeps
  <1>2. ASSUME NEW f \in Fetchers, Tells(f) \/ HasNone(f) \/ Errs(f)
        PROVE  Inv'
    BY <1>2, TellsKeeps, HasNoneKeeps, ErrsKeeps
  <1>3. ASSUME NEW f \in Fetchers, Store(f) \/ Nothing(f) \/ StoreFails(f)
        PROVE  Inv'
    <2>1. CASE StoreFails(f)
      BY <2>1, StoreFailsKeeps DEF StoreFails, Scan
    <2> QED
      BY <1>3, <2>1, StoreKeeps, NothingKeeps
  <1>4. CASE Tick \/ Restart
    BY <1>4, TickKeeps, RestartKeeps
  <1>5. CASE UNCHANGED vars
    BY <1>5 DEF vars, Inv, TypeOK, AnswersFit, RowsFit, Fits, SpendIsHeard,
       AttemptsHeard, Used, Pending
  <1> QED
    BY <1>1, <1>2, <1>3, <1>4, <1>5 DEF Next

(***************************************************************************)
(* Whatever Scan's clients answer, in any order and from any number of     *)
(* fetches at once, a row reports only what the ledger made of its payment *)
(* and is failed only after MaxAttempts answers of nothing yet: an outage  *)
(* spends none of the attempts.                                            *)
(***************************************************************************)
THEOREM OutagesSpendNothing ==
    ASSUME Deployed PROVE Spec => []OutageSpendsNothing
  <1>1. Init => Inv
    BY Initially
  <1>2. Inv /\ [Next]_vars => Inv'
    BY Step
  <1>3. Inv => OutageSpendsNothing
    BY InvGives
  <1> QED
    BY <1>1, <1>2, <1>3, PTL DEF Spec
=============================================================================
