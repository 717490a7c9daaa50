------------------------------ MODULE Attribution ------------------------------
(***************************************************************************)
(* The traffic a payment burned, read from Scan.  A settled payment is     *)
(* recorded and its summary fetched at once, in the background; a worker   *)
(* fetches what is still pending, tick by tick.  The clients of Scan are   *)
(* asked one after the other, may fail to answer, and learn of an update   *)
(* each at its own time.                                                   *)
(***************************************************************************)
EXTENDS Naturals, Sequences, FiniteSets

CONSTANTS
    Updates,
    Clients,        \* attributionScanClients, in order
    MaxAttempts,    \* MAX_FETCH_ATTEMPTS
    Limit,          \* how many rows a tick takes
    NoRow           \* a value that is no row

Worker == "worker"
Fetchers == Updates \cup {Worker}
Idle == [pc |-> "idle"]

VARIABLES
    truth,      \* the ledger: what each update comes to
    view,       \* per update: what each client can tell of it
    rows,       \* payment_burns
    batch,      \* the rows the running tick has still to fetch
    fetch,      \* per fetcher: the update, the client it asks, what it heard
    heard       \* history: per update, the worker's fetches that were told
                \* there is nothing yet, up to MaxAttempts

vars == <<truth, view, rows, batch, fetch, heard>>

Init ==
    /\ truth \in [Updates -> {"accepted", "rejected", "odd"}]
    /\ view = [u \in Updates |-> [c \in DOMAIN Clients |-> "none"]]
    /\ rows = [u \in Updates |-> NoRow]
    /\ batch = {}
    /\ fetch = [f \in Fetchers |-> Idle]
    /\ heard = [u \in Updates |-> 0]

Scan == <<truth, view>>
Recorded == {u \in Updates : rows[u] # NoRow}
Pending(u) == rows[u] # NoRow /\ rows[u].status = "pending"

\* a client learns the verdict on an update, later its traffic
Learns(c, u) ==
    /\ \/ view[u][c] = "none" /\ view' = [view EXCEPT ![u][c] = "verdict"]
       \/ view[u][c] = "verdict" /\ view' = [view EXCEPT ![u][c] = "summary"]
    /\ UNCHANGED <<truth, rows, batch, fetch, heard>>

Start(f, u) == fetch' = [fetch EXCEPT
                           ![f] = [pc |-> "ask", update |-> u, client |-> 1,
                                   null |-> FALSE, answer |-> "none"]]

\* the payment settled: the row is inserted as served, unless the store fails,
\* and either way the fetch begins
Record(u) ==
    /\ fetch[u] = Idle /\ rows[u] = NoRow
    /\ \/ rows' = [rows EXCEPT ![u] = [status |-> "pending", attempts |-> 0,
                                       settledAt |-> Cardinality(Recorded)]]
       \/ UNCHANGED rows
    /\ Start(u, u)
    /\ UNCHANGED <<Scan, batch, heard>>

\* getPending, unless a tick is running: the oldest rows with attempts left
Tick ==
    /\ fetch[Worker] = Idle /\ batch = {}
    /\ LET due == {u \in Recorded : Pending(u) /\ rows[u].attempts < MaxAttempts}
           older(u) == {w \in due : rows[w].settledAt < rows[u].settledAt}
       IN  batch' = {u \in due : Cardinality(older(u)) < Limit}
    /\ batch' # {}
    /\ UNCHANGED <<Scan, rows, fetch, heard>>

NextRow(u) ==
    /\ fetch[Worker] = Idle
    /\ u \in batch
    /\ \A w \in batch : rows[u].settledAt <= rows[w].settledAt
    /\ batch' = batch \ {u}
    /\ Start(Worker, u)
    /\ UNCHANGED <<Scan, rows, heard>>

-----------------------------------------------------------------------------
(* getEventTrafficSummaryWithFallback: the first summary counts; without   *)
(* one, nothing yet when a client said so, and else an error.              *)

\* updateTrafficSummary: what the row becomes
StatusOf(c, u) ==
    CASE truth[u] = "odd" -> "failed"
      [] truth[u] = "rejected" -> "rejected"
      [] OTHER -> IF view[u][c] = "summary" THEN "confirmed" ELSE "no_summary"

AskedAll(f) == fetch[f].client > Len(Clients)
Asking(f) == fetch[f].pc = "ask" /\ ~AskedAll(f)

\* getEventTrafficSummary: a verdict
Tells(f) ==
    /\ Asking(f)
    /\ LET c == fetch[f].client  u == fetch[f].update
       IN  /\ view[u][c] # "none"
           /\ fetch' = [fetch EXCEPT ![f].pc = "store",
                                     ![f].answer = StatusOf(c, u)]
    /\ UNCHANGED <<Scan, rows, batch, heard>>

\* it knows of no verdict yet
HasNone(f) ==
    /\ Asking(f)
    /\ view[fetch[f].update][fetch[f].client] = "none"
    /\ fetch' = [fetch EXCEPT ![f].client = @ + 1, ![f].null = TRUE]
    /\ heard' = IF f = Worker /\ ~fetch[f].null
                THEN [heard EXCEPT ![fetch[f].update] =
                        IF @ < MaxAttempts THEN @ + 1 ELSE @]
                ELSE heard
    /\ UNCHANGED <<Scan, rows, batch>>

\* 429, timeout, 404, transport: the next client is asked
Errs(f) ==
    /\ Asking(f)
    /\ fetch' = [fetch EXCEPT ![f].client = @ + 1]
    /\ UNCHANGED <<Scan, rows, batch, heard>>

-----------------------------------------------------------------------------
(* The row.  Only failing it asks that it is still pending.                *)

Done(f) == fetch' = [fetch EXCEPT ![f] = Idle]

Store(f) ==
    /\ fetch[f].pc = "store"
    /\ LET u == fetch[f].update
           keeps == rows[u] = NoRow \/ (fetch[f].answer = "failed" /\ ~Pending(u))
       IN  rows' = IF keeps THEN rows
                   ELSE [rows EXCEPT ![u].status = fetch[f].answer]
    /\ Done(f)
    /\ UNCHANGED <<Scan, batch, heard>>

\* incrementFetchAttempts: at the maximum the row fails
Spend(u) ==
    rows' = IF ~Pending(u) THEN rows
            ELSE [rows EXCEPT
                    ![u].attempts = @ + 1,
                    ![u].status = IF rows[u].attempts + 1 >= MaxAttempts
                                  THEN "failed" ELSE @]

\* a mutant: an outage counts as nothing yet
NothingOrOutage(f) ==
    /\ fetch[f].pc = "ask" /\ AskedAll(f)
    /\ IF f = Worker THEN Spend(fetch[f].update) ELSE UNCHANGED rows
    /\ Done(f)
    /\ UNCHANGED <<Scan, batch, heard>>

\* nothing yet: the worker spends one of the row's attempts on it; the fetch
\* in the background, and an error, spend none
Nothing(f) ==
    /\ fetch[f].pc = "ask" /\ AskedAll(f)
    /\ IF f = Worker /\ fetch[f].null THEN Spend(fetch[f].update)
       ELSE UNCHANGED rows
    /\ Done(f)
    /\ UNCHANGED <<Scan, batch, heard>>

\* the store fails, or the process restarts: the fetches are lost
StoreFails(f) ==
    /\ fetch[f] # Idle
    /\ Done(f)
    /\ UNCHANGED <<Scan, rows, batch, heard>>

Restart ==
    /\ fetch' = [f \in Fetchers |-> Idle]
    /\ batch' = {}
    /\ UNCHANGED <<Scan, rows, heard>>

Next ==
    \/ \E u \in Updates : \/ Record(u) \/ NextRow(u)
                         \/ \E c \in DOMAIN Clients : Learns(c, u)
    \/ \E f \in Fetchers :
         \/ Tells(f) \/ HasNone(f) \/ Errs(f)
         \/ Store(f) \/ Nothing(f) \/ StoreFails(f)
    \/ Tick \/ Restart

Spec == Init /\ [][Next]_vars

-----------------------------------------------------------------------------

(***************************************************************************)
(* What a report says of a payment is what the ledger made of it, although *)
(* two fetches of one row overlap and end in any order; and a row is given *)
(* up only when Scan answered, again and again, that there is nothing yet, *)
(* or nonsense: an outage, however long, spends none of its attempts.      *)
(***************************************************************************)
OutageSpendsNothing ==
    \A u \in Updates : rows[u] # NoRow =>
      LET status == rows[u].status
      IN  /\ status = "confirmed" =>
               /\ truth[u] = "accepted"
               /\ \E c \in DOMAIN Clients : view[u][c] = "summary"
          /\ status = "no_summary" => truth[u] = "accepted"
          /\ status = "rejected" => truth[u] = "rejected"
          /\ rows[u].attempts <= heard[u]
          /\ status = "failed" => truth[u] = "odd" \/ heard[u] >= MaxAttempts
          /\ status = "pending" => rows[u].attempts < MaxAttempts
=============================================================================
