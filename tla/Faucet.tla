-------------------------------- MODULE Faucet --------------------------------
(***************************************************************************)
(* The agent faucet: the claim route, the starter grant a new wallet gets, *)
(* the claim store they share, and the payouts of the facilitator's own    *)
(* Canton Coin.                                                            *)
(*                                                                         *)
(* Every grant is of the one configured amount, so budgets are counted in  *)
(* grants.  The store is Postgres's: without a database the money faucet   *)
(* does not start.  A step of a request is the code between two awaits.    *)
(***************************************************************************)
EXTENDS Integers, Sequences, FiniteSets

CONSTANTS
    Parties,        \* parties that ask for a grant
    Requests,       \* concurrent requests
    DailyBudget,    \* grants per window
    LifetimeCap,    \* grants ever; 0 disables the cap
    Window,         \* length of the window
    StarterRetries, \* STARTER_GRANT_PROPAGATION_RETRIES
    MaxTime,        \* bound: the clock
    MaxSends,       \* bound: submissions ever made
    StoreMayFail    \* may a store call fail, or its answer be lost?

ASSUME PartiesAssumption == IsFiniteSet(Parties)
ASSUME NumbersAssumption ==
    {DailyBudget, LifetimeCap, Window, StarterRetries, MaxTime, MaxSends}
        \subseteq Nat
ASSUME StoreAssumption == StoreMayFail \in BOOLEAN

NoRow == -1
Nobody == "nobody"
ASSUME NobodyAssumption == Nobody \notin Requests \cup Parties

VARIABLES
    rows,       \* faucet_claims: per party, claimed_at or NoRow
    updateIds,  \* the parties whose row has an update_id
    lock,       \* the request that holds the advisory lock
    snap,       \* per request: the rows its claim statement sees
    clock,
    req,        \* per request: the await it is at, and its locals
    chain,      \* payoutTail: the requests whose payout waits or runs
    subs        \* the submissions, and what became of each

store == <<rows, updateIds>>
vars == <<rows, updateIds, lock, snap, clock, req, chain, subs>>

Labels == {"idle", "check", "lock", "insert", "pay", "queued", "answer",
           "mark", "release"}

\* tries: payouts refused because the party was not known yet.  retried:
\* this claim() has selected its inputs anew.  sent: its submission.
Requested == [pc      : Labels,
              party   : Parties \cup {Nobody},
              starter : BOOLEAN,
              now     : Nat,
              tries   : Nat,
              retried : BOOLEAN,
              sent    : Nat]
Idle == [pc |-> "idle", party |-> Nobody, starter |-> FALSE, now |-> 0,
         tries |-> 0, retried |-> FALSE, sent |-> 0]

Tables == [Parties -> Nat \cup {NoRow}]
Subs == [party : Parties, state : {"pending", "landed", "refused"}]

TypeOK ==
    /\ rows \in Tables
    /\ updateIds \in SUBSET Parties
    /\ lock \in Requests \cup {Nobody}
    /\ snap \in [Requests -> Tables]
    /\ clock \in Nat
    /\ req \in [Requests -> Requested]
    /\ chain \in Seq(Requests)
    /\ subs \in Seq(Subs)

NoRows == [p \in Parties |-> NoRow]

Init ==
    /\ rows = NoRows
    /\ updateIds = {}
    /\ lock = Nobody
    /\ snap = [h \in Requests |-> NoRows]
    /\ clock = 0
    /\ req = [h \in Requests |-> Idle]
    /\ chain = << >>
    /\ subs = << >>

-----------------------------------------------------------------------------
(* Claiming: the route up to its reservation, and tryClaim.                *)

At(h, label) == req[h].pc = label
Goto(h, label) == req' = [req EXCEPT ![h].pc = label]
Done(h) == req' = [req EXCEPT ![h] = Idle]

\* a mutant: the start of the window passed for its end
SinceMs == clock - Window
\* Date.now()
Now == clock

\* a claim is asked for; a wallet was onboarded, and reserves at once
Receive(h) ==
    /\ At(h, "idle")
    /\ \E p \in Parties, starter \in BOOLEAN :
         req' = [req EXCEPT ![h] =
                   [Idle EXCEPT !.pc = IF starter THEN "lock" ELSE "check",
                                !.party = p,
                                !.starter = starter,
                                !.now = IF starter THEN Now ELSE 0]]
    /\ UNCHANGED <<store, lock, snap, clock, chain, subs>>

\* hasClaimed, then the burst cap and the per-IP cap, which refuse at will;
\* a store error ends the request too
HasClaimed(h) ==
    /\ At(h, "check")
    /\ \/ /\ rows[req[h].party] = NoRow
          /\ req' = [req EXCEPT ![h].pc = "lock", ![h].now = Now]
       \/ Done(h)
    /\ UNCHANGED <<store, lock, snap, clock, chain, subs>>

\* a mutant: no transaction, so no lock
TakesNoLock(h) ==
    /\ At(h, "lock")
    /\ snap' = [snap EXCEPT ![h] = rows]
    /\ Goto(h, "insert")
    /\ UNCHANGED <<store, lock, clock, chain, subs>>

\* pg_advisory_xact_lock; the claim statement's snapshot is taken after it
TakesLock(h) ==
    /\ At(h, "lock")
    /\ lock = Nobody
    /\ lock' = h
    /\ snap' = [snap EXCEPT ![h] = rows]
    /\ Goto(h, "insert")
    /\ UNCHANGED <<store, clock, chain, subs>>

\* the three conditions of the INSERT, in the statement's snapshot, and the
\* primary key, in the table
InWindow(table, t) == {p \in Parties : table[p] # NoRow /\ table[p] > t}
HasRow(table) == {p \in Parties : table[p] # NoRow}
Fits(h) ==
    /\ snap[h][req[h].party] = NoRow
    /\ rows[req[h].party] = NoRow
    /\ Cardinality(InWindow(snap[h], req[h].now - Window)) + 1 <= DailyBudget
    /\ \/ LifetimeCap = 0
       \/ Cardinality(HasRow(snap[h])) + 1 <= LifetimeCap

\* on to the payout (the time it was claimed at has been used)
Reserved(h) == req' = [req EXCEPT ![h].pc = "pay", ![h].now = 0]

\* a mutant: the row of a party that has claimed is overwritten
ClaimOverwrites(h) ==
    /\ At(h, "insert")
    /\ lock' = Nobody
    /\ snap' = [snap EXCEPT ![h] = NoRows]
    /\ rows' = [rows EXCEPT ![req[h].party] = req[h].now]
    /\ Reserved(h)
    /\ UNCHANGED <<updateIds, clock, chain, subs>>

\* the INSERT and the COMMIT, which releases the lock; the COMMIT's answer
\* may be lost.  What the read after a refusal finds picks the reply only.
Claim(h) ==
    /\ At(h, "insert")
    /\ lock' = Nobody
    /\ snap' = [snap EXCEPT ![h] = NoRows]
    /\ \/ /\ Fits(h)
          /\ rows' = [rows EXCEPT ![req[h].party] = req[h].now]
          /\ Reserved(h) \/ (StoreMayFail /\ Done(h))
       \/ /\ ~Fits(h) \/ StoreMayFail
          /\ rows' = rows
          /\ Done(h)
    /\ UNCHANGED <<updateIds, clock, chain, subs>>

-----------------------------------------------------------------------------
(* Paying: payReservedFaucetGrant, claim() and payout().                   *)

\* claim() waits for the payouts before it
Enqueue(h) ==
    /\ At(h, "pay")
    /\ chain' = Append(chain, h)
    /\ req' = [req EXCEPT ![h].pc = "queued", ![h].retried = FALSE]
    /\ UNCHANGED <<store, lock, snap, clock, subs>>

Running(h) == chain # << >> /\ Head(chain) = h

\* a mutant: the next payout is let in only when this one was paid
LeaveChainPaid(h) ==
    chain' = IF subs # << >> /\ subs[Len(subs)].state = "landed"
             THEN Tail(chain) ELSE chain

\* the finally of claim(), and the continuation of whoever awaited it
LeaveChain(h) == chain' = Tail(chain)

\* the one re-selection after a contention, under the same turn
SelectAgain(h) ==
    /\ ~req[h].retried
    /\ req' = [req EXCEPT ![h].pc = "queued", ![h].retried = TRUE]
    /\ UNCHANGED chain

\* the payout is over; only the store has still to be told
Settle(h, label) ==
    req' = [req EXCEPT ![h] =
              [Idle EXCEPT !.pc = label, !.party = req[h].party]]

ProvedClean(h) == LeaveChain(h) /\ Settle(h, "release")

\* the Scan read, the ACS query or the registry failed: nothing was sent
PrepareFails(h) ==
    /\ At(h, "queued")
    /\ Running(h)
    /\ SelectAgain(h) \/ ProvedClean(h)
    /\ UNCHANGED <<store, lock, snap, clock, subs>>

\* the preparation succeeds and the transfer leaves
Submit(h) ==
    /\ At(h, "queued")
    /\ Running(h)
    /\ Len(subs) < MaxSends
    /\ subs' = Append(subs, [party |-> req[h].party, state |-> "pending"])
    /\ req' = [req EXCEPT ![h].pc = "answer", ![h].sent = Len(subs) + 1]
    /\ UNCHANGED <<store, lock, snap, clock, chain>>

Sub(h) == subs[req[h].sent]

AnsweredPaid(h) ==
    /\ At(h, "answer")
    /\ Sub(h).state = "landed"
    /\ LeaveChain(h)
    /\ Settle(h, "mark")
    /\ UNCHANGED <<store, lock, snap, clock, subs>>

\* the starter grant's retry, from the back of the chain
PayAgain(h) ==
    req' = [req EXCEPT ![h] =
              [req[h] EXCEPT !.pc = "pay", !.tries = req[h].tries + 1]]

\* a refusal: contention (409, 404), a party not known yet, any other 4xx
AnsweredRefused(h) ==
    /\ At(h, "answer")
    /\ Sub(h).state = "refused"
    /\ \/ SelectAgain(h)
       \/ /\ req[h].starter /\ req[h].tries < StarterRetries
          /\ LeaveChain(h)
          /\ PayAgain(h)
       \/ ProvedClean(h)
    /\ UNCHANGED <<store, lock, snap, clock, subs>>

\* a mutant: a lost answer gives the reservation back
AnswerLostReleases(h) ==
    /\ At(h, "answer")
    /\ ProvedClean(h)
    /\ UNCHANGED <<store, lock, snap, clock, subs>>

\* a timeout, a 5xx, an answer without an updateId: the reservation stays
AnswerLost(h) ==
    /\ At(h, "answer")
    /\ LeaveChain(h)
    /\ Done(h)
    /\ UNCHANGED <<store, lock, snap, clock, subs>>

\* UPDATE faucet_claims SET update_id; a failure is not fatal
MarkPaid(h) ==
    /\ At(h, "mark")
    /\ updateIds' \in {updateIds \cup (HasRow(rows) \cap {req[h].party})}
                      \cup (IF StoreMayFail THEN {updateIds} ELSE {})
    /\ Done(h)
    /\ UNCHANGED <<rows, lock, snap, clock, chain, subs>>

\* DELETE FROM faucet_claims; its failure is swallowed
Release(h) ==
    /\ At(h, "release")
    /\ \/ /\ rows' = [rows EXCEPT ![req[h].party] = NoRow]
          /\ updateIds' = updateIds \ {req[h].party}
       \/ StoreMayFail /\ UNCHANGED store
    /\ Done(h)
    /\ UNCHANGED <<lock, snap, clock, chain, subs>>

RequestStep(h) ==
    \/ HasClaimed(h) \/ TakesLock(h) \/ Claim(h)
    \/ Enqueue(h) \/ PrepareFails(h) \/ Submit(h)
    \/ AnsweredPaid(h) \/ AnsweredRefused(h) \/ AnswerLost(h)
    \/ MarkPaid(h) \/ Release(h)

-----------------------------------------------------------------------------
(* The ledger, the clock, and the process.                                 *)

\* a transfer commits, also after its sender gave up on it
Land(i) ==
    /\ subs[i].state = "pending"
    /\ subs' = [subs EXCEPT ![i].state = "landed"]
    /\ UNCHANGED <<store, lock, snap, clock, req, chain>>

\* or is refused, or never arrives
Refuse(i) ==
    /\ subs[i].state = "pending"
    /\ subs' = [subs EXCEPT ![i].state = "refused"]
    /\ UNCHANGED <<store, lock, snap, clock, req, chain>>

Tick ==
    /\ clock < MaxTime
    /\ clock' = clock + 1
    /\ UNCHANGED <<store, lock, snap, req, chain, subs>>

\* requests and their turns are lost; the database rolls back
Crash ==
    /\ \E h \in Requests : ~At(h, "idle")
    /\ req' = [h \in Requests |-> Idle]
    /\ lock' = Nobody
    /\ snap' = [h \in Requests |-> NoRows]
    /\ chain' = << >>
    /\ UNCHANGED <<store, clock, subs>>

Environment ==
    \/ \E i \in 1..Len(subs) : Land(i) \/ Refuse(i)
    \/ Tick \/ Crash

Next ==
    \/ \E h \in Requests : Receive(h) \/ RequestStep(h)
    \/ Environment

Spec == Init /\ [][Next]_vars

\* the server runs: every await of a request ends
Fairness == \A h \in Requests : WF_vars(RequestStep(h))

FairSpec == Spec /\ Fairness

-----------------------------------------------------------------------------
(* Properties.                                                             *)

(***************************************************************************)
(* In no window, wherever it lies, are more grants reserved than the daily *)
(* budget has, although claims read their clock before they wait for the   *)
(* lock, and reservations vanish and come back.                            *)
(***************************************************************************)
WindowBudget ==
    \A t \in 0..MaxTime :
        Cardinality({p \in Parties : rows[p] # NoRow /\ rows[p] <= t
                                     /\ rows[p] > t - Window}) <= DailyBudget

(***************************************************************************)
(* The faucet implements Grants: one payout per party, ever, none without  *)
(* its reservation, and no more of them than the lifetime cap, whatever    *)
(* answers are lost, and wherever the process dies.                        *)
(***************************************************************************)
Landed == {i \in 1..Len(subs) : subs[i].state = "landed"}
Promise == INSTANCE Grants WITH
               reserved <- HasRow(rows),
               paid <- {subs[i].party : i \in Landed},
               payouts <- Cardinality(Landed)
GrantsAreKept == Promise!Spec

(***************************************************************************)
(* The payout chain never wedges: however a payout ends, a claim that      *)
(* waits for its turn gets it.                                             *)
(***************************************************************************)
ChainMoves ==
    \A h \in Requests : At(h, "queued") ~> ~At(h, "queued")
=============================================================================
