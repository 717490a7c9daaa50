----------------------------- MODULE FaucetProofs -----------------------------
(***************************************************************************)
(* The faucet keeps its promises for any number of parties and requests,   *)
(* any budgets, and whatever the store and the ledger do.                  *)
(***************************************************************************)
EXTENDS FaucetInv, FiniteSetTheorems, TLAPS

Inv == TypeOK /\ FaucetHolds

-----------------------------------------------------------------------------
(* What one step of a request does to the requests.                        *)

\* h moves to a label, for this party, with this submission
Moves(h, label, p, s) ==
    /\ req' \in [Requests -> Requested]
    /\ \A g \in Requests : g # h => req'[g] = req[g]
    /\ req'[h].pc = label
    /\ req'[h].party = p
    /\ req'[h].sent = s

\* a request that is done has forgotten everything
LEMMA DoneMoves ==
  ASSUME TypeOK, NEW h \in Requests, Done(h)
  PROVE  Moves(h, "idle", Nobody, 0)
  BY DEF TypeOK, Done, Moves, Idle, Requested, Labels

\* a request that only moves on
LEMMA GotoMoves ==
  ASSUME TypeOK, NEW h \in Requests, NEW l \in Labels, Goto(h, l)
  PROVE  Moves(h, l, req[h].party, req[h].sent)
  BY DEF TypeOK, Goto, Moves, Requested

\* a request that is left with its party
LEMMA SettleMoves ==
  ASSUME TypeOK, NEW h \in Requests, NEW l \in Labels, Settle(h, l)
  PROVE  Moves(h, l, req[h].party, 0)
  BY DEF TypeOK, Settle, Moves, Idle, Requested, Labels

\* a request that tries again under its turn
LEMMA SelectAgainMoves ==
  ASSUME TypeOK, NEW h \in Requests, SelectAgain(h)
  PROVE  Moves(h, "queued", req[h].party, req[h].sent) /\ chain' = chain
  BY ZenonT(40) DEF TypeOK, SelectAgain, Moves, Requested, Labels

\* the other moves, each of one action
LEMMA ActionMoves ==
  ASSUME TypeOK, NEW h \in Requests
  PROVE  /\ Receive(h) => \E l \in {"check", "lock"}, p \in Parties :
                             Moves(h, l, p, 0)
         /\ HasClaimed(h) => \/ Moves(h, "lock", req[h].party, req[h].sent)
                             \/ Moves(h, "idle", Nobody, 0)
         /\ Reserved(h) => Moves(h, "pay", req[h].party, req[h].sent)
         /\ Enqueue(h) => Moves(h, "queued", req[h].party, req[h].sent)
         /\ Submit(h) => Moves(h, "answer", req[h].party, Len(subs) + 1)
         /\ PayAgain(h) => Moves(h, "pay", req[h].party, req[h].sent)
<1>1. ASSUME Receive(h)
      PROVE  \E l \in {"check", "lock"}, p \in Parties : Moves(h, l, p, 0)
  <2>1. PICK p \in Parties, starter \in BOOLEAN :
           req' = [req EXCEPT ![h] =
                     [Idle EXCEPT !.pc = IF starter THEN "lock" ELSE "check",
                                  !.party = p,
                                  !.starter = starter,
                                  !.now = IF starter THEN Now ELSE 0]]
    BY <1>1 DEF Receive
  <2>2. Moves(h, IF starter THEN "lock" ELSE "check", p, 0)
    BY <2>1 DEF TypeOK, Moves, Idle, Requested, Labels, Now
  <2> QED
    BY <2>2
<1>2. ASSUME HasClaimed(h)
      PROVE  \/ Moves(h, "lock", req[h].party, req[h].sent)
             \/ Moves(h, "idle", Nobody, 0)
  <2>1. CASE Done(h)
    BY <2>1, DoneMoves
  <2>2. CASE req' = [req EXCEPT ![h].pc = "lock", ![h].now = Now]
    BY <2>2, ZenonT(40) DEF TypeOK, Moves, Requested, Labels, Now
  <2> QED
    BY <1>2, <2>1, <2>2 DEF HasClaimed
<1>3. ASSUME Reserved(h) PROVE Moves(h, "pay", req[h].party, req[h].sent)
  BY <1>3, ZenonT(40) DEF TypeOK, Moves, Requested, Labels, Reserved
<1>4. ASSUME Enqueue(h) PROVE Moves(h, "queued", req[h].party, req[h].sent)
  BY <1>4, ZenonT(40) DEF TypeOK, Moves, Requested, Labels, Enqueue
<1>5. ASSUME Submit(h) PROVE Moves(h, "answer", req[h].party, Len(subs) + 1)
  <2>1. Len(subs) + 1 \in Nat
    BY DEF TypeOK
  <2> QED
    BY <1>5, <2>1, ZenonT(40) DEF TypeOK, Moves, Requested, Labels, Submit
<1>6. ASSUME PayAgain(h) PROVE Moves(h, "pay", req[h].party, req[h].sent)
  <2> DEFINE r == [req[h] EXCEPT !.pc = "pay", !.tries = req[h].tries + 1]
  <2>1. req[h] \in Requested
    BY DEF TypeOK
  <2>2. req[h].tries + 1 \in Nat
    BY <2>1 DEF Requested
  <2>3. /\ r \in Requested
        /\ r.pc = "pay" /\ r.party = req[h].party /\ r.sent = req[h].sent
    BY <2>1, <2>2 DEF Requested, Labels
  <2>4. req' = [req EXCEPT ![h] = r]
    BY <1>6 DEF PayAgain
  <2> HIDE DEF r
  <2> QED
    BY <2>3, <2>4 DEF TypeOK, Moves
<1> QED
  BY <1>1, <1>2, <1>3, <1>4, <1>5, <1>6

-----------------------------------------------------------------------------
(* The chain of payouts, and the submissions, as sequences.                *)

\* a payout that joins the chain is its last
LEMMA ChainAppended ==
  ASSUME TypeOK, NEW h \in Requests, chain' = Append(chain, h)
  PROVE  /\ chain' \in Seq(Requests)
         /\ Len(chain') = Len(chain) + 1
         /\ \A i \in 1..Len(chain) : chain'[i] = chain[i]
         /\ chain'[Len(chain) + 1] = h
  BY DEF TypeOK

\* a payout that leaves it moves the others up
LEMMA ChainLeft ==
  ASSUME TypeOK, NEW h \in Requests, Running(h), LeaveChain(h)
  PROVE  /\ chain' \in Seq(Requests)
         /\ Len(chain') = Len(chain) - 1
         /\ chain[1] = h
         /\ \A i \in 1..Len(chain') : i + 1 \in 2..Len(chain)
                                      /\ chain'[i] = chain[i + 1]
  BY DEF TypeOK, Running, LeaveChain

\* a submission pays a party
LEMMA SubsTyped ==
  ASSUME TypeOK
  PROVE  \A i \in Ids : subs[i].party \in Parties
<1>1. \A i \in Ids : subs[i] \in Subs
  BY DEF TypeOK, Ids
<1> QED
  BY <1>1 DEF Subs

\* a submission that joins the others is the last of them
LEMMA SubsAppended ==
  ASSUME TypeOK, NEW x \in Subs, subs' = Append(subs, x)
  PROVE  /\ subs' \in Seq(Subs)
         /\ Len(subs') = Len(subs) + 1
         /\ \A i \in Ids : subs'[i] = subs[i]
         /\ subs'[Len(subs) + 1] = x
  BY DEF TypeOK, Ids

\* a submission of which the ledger decides
LEMMA SubsSettled ==
  ASSUME TypeOK, NEW i \in Ids, NEW w \in {"landed", "refused"},
         subs' = [subs EXCEPT ![i].state = w]
  PROVE  /\ subs' \in Seq(Subs)
         /\ Len(subs') = Len(subs)
         /\ \A j \in Ids : /\ subs'[j].party = subs[j].party
                           /\ j # i => subs'[j] = subs[j]
         /\ subs'[i].state = w
<1>1. /\ subs \in [1..Len(subs) -> Subs]
      /\ Len(subs) \in Nat
  BY DEF TypeOK
<1>2. /\ subs' \in [1..Len(subs) -> Subs]
      /\ subs'[i].state = w
      /\ \A j \in Ids : /\ subs'[j].party = subs[j].party
                        /\ j # i => subs'[j] = subs[j]
  BY <1>1 DEF Ids, Subs
<1> QED
  BY <1>1, <1>2 DEF Ids

-----------------------------------------------------------------------------
(* The parts of the invariant, under a step of a request that leaves what  *)
(* they speak of alone.                                                    *)

\* no statement starts, and the table and the snapshots stay
LEMMA SnapshotQuiet ==
  ASSUME SnapshotHolds, NEW h \in Requests, NEW l, NEW p, NEW s,
         Moves(h, l, p, s), l # "insert", UNCHANGED <<rows, lock, snap>>
  PROVE  SnapshotHolds'
  BY DEF SnapshotHolds, Moves, At

\* a request outside the chain moves, and not into an answer
LEMMA ChainQuiet ==
  ASSUME TypeOK, ChainHolds, NEW h \in Requests, NEW l, NEW p, NEW s,
         Moves(h, l, p, s), req[h].pc \notin {"queued", "answer"},
         l # "answer", UNCHANGED chain
  PROVE  ChainHolds'
<1>1. \A i \in 1..Len(chain) : chain[i] \in Requests
  BY DEF TypeOK
<1> QED
  BY <1>1 DEF ChainHolds, Moves, At, Running

\* the running payout leaves the chain
LEMMA ChainLeaves ==
  ASSUME TypeOK, ChainHolds, NEW h \in Requests, NEW l, NEW p, NEW s,
         Moves(h, l, p, s), l # "answer", Running(h), LeaveChain(h)
  PROVE  ChainHolds'
<1>1. /\ Len(chain) \in Nat /\ Len(chain') = Len(chain) - 1
      /\ chain[1] = h
      /\ 1 \in 1..Len(chain)
      /\ \A i \in 1..Len(chain') : i + 1 \in 2..Len(chain)
                                   /\ chain'[i] = chain[i + 1]
  BY ChainLeft DEF TypeOK, Running
<1>2. \A i \in 2..Len(chain) : chain[i] \in Requests /\ chain[i] # h
  BY <1>1 DEF TypeOK, ChainHolds
<1>3. \A i \in 1..Len(chain') : req'[chain'[i]].pc \in {"queued", "answer"}
  BY <1>1, <1>2 DEF ChainHolds, Moves
<1>4. \A i, j \in 1..Len(chain') : chain'[i] = chain'[j] => i = j
  BY <1>1 DEF ChainHolds
<1>5. \A g \in Requests : req'[g].pc # "answer"
  BY DEF ChainHolds, Moves, Running, At
<1> QED
  BY <1>3, <1>4, <1>5 DEF ChainHolds, At

\* a holder stays one for its party, or stops being one
LEMMA HoldersQuiet ==
  ASSUME HoldersHold, NEW h \in Requests, NEW l, NEW p, NEW s,
         Moves(h, l, p, s), UNCHANGED rows,
         l = "idle" \/ p \in Parties,
         l \in Holding => Holds(h) /\ p = req[h].party
  PROVE  HoldersHold'
  BY DEF HoldersHold, Holds, Moves, At

\* nothing is submitted, and no row goes
LEMMA LiveQuiet ==
  ASSUME LiveHolds, UNCHANGED <<rows, subs>>
  PROVE  LiveHolds'
  BY DEF LiveHolds, Live, Ids

\* a request that may now pay has nothing in flight
LEMMA PayersQuiet ==
  ASSUME PayersHold, NEW h \in Requests, NEW l, NEW p, NEW s,
         Moves(h, l, p, s), UNCHANGED subs, l # "answer",
         l \in {"pay", "queued", "release"} =>
           \A i \in Ids : Live(i) => subs[i].party # p
  PROVE  PayersHold'
  BY DEF PayersHold, Moves, At, Sub, Live, Ids

-----------------------------------------------------------------------------
(* The types: who is paid is a party, and who leaves the chain is in it,   *)
(* because the invariant holds.                                            *)

LEMMA NextTyped ==
  ASSUME Inv, [Next]_vars
  PROVE  TypeOK'
<1> USE DEF Inv
<1>1. ASSUME NEW h \in Requests, Receive(h)
      PROVE  TypeOK'
  <2>1. req' \in [Requests -> Requested]
    BY <1>1, ActionMoves DEF Moves
  <2> QED
    BY <1>1, <2>1 DEF TypeOK, Receive, store
<1>2. ASSUME NEW h \in Requests, HasClaimed(h)
      PROVE  TypeOK'
  <2>1. req' \in [Requests -> Requested]
    BY <1>2, ActionMoves DEF Moves
  <2> QED
    BY <1>2, <2>1 DEF TypeOK, HasClaimed, store
<1>3. ASSUME NEW h \in Requests, TakesLock(h)
      PROVE  TypeOK'
  <2>1. req' \in [Requests -> Requested]
    BY <1>3, GotoMoves DEF Moves, TakesLock, Labels
  <2> QED
    BY <1>3, <2>1 DEF TypeOK, TakesLock, store
<1>4. ASSUME NEW h \in Requests, Claim(h)
      PROVE  TypeOK'
  <2>1. req' \in [Requests -> Requested]
    BY <1>4, ActionMoves, DoneMoves DEF Moves, Claim
  <2>2. rows' \in Tables
    BY <1>4 DEF TypeOK, Claim, Tables, Requested
  <2>3. snap' \in [Requests -> Tables]
    BY <1>4 DEF TypeOK, Claim, Tables, NoRows
  <2> QED
    BY <1>4, <2>1, <2>2, <2>3 DEF TypeOK, Claim
<1>5. ASSUME NEW h \in Requests, Enqueue(h)
      PROVE  TypeOK'
  <2>1. req' \in [Requests -> Requested]
    BY <1>5, ActionMoves DEF Moves
  <2> QED
    BY <1>5, <2>1, ChainAppended DEF TypeOK, Enqueue, store
<1>6. ASSUME NEW h \in Requests,
             PrepareFails(h) \/ AnsweredPaid(h) \/ AnsweredRefused(h)
               \/ AnswerLost(h)
      PROVE  TypeOK'
  <2>1. req' \in [Requests -> Requested]
    BY <1>6, ActionMoves, SelectAgainMoves, SettleMoves, DoneMoves
    DEF Moves, PrepareFails, AnsweredPaid, AnsweredRefused, AnswerLost,
        ProvedClean, Labels
  <2>2. chain' \in Seq(Requests)
    <3>1. Running(h)
      BY <1>6 DEF PrepareFails, AnsweredPaid, AnsweredRefused, AnswerLost,
         FaucetHolds, ChainHolds
    <3>2. LeaveChain(h) => chain' \in Seq(Requests)
      BY <3>1, ChainLeft
    <3> QED
      BY <1>6, <3>2 DEF PrepareFails, AnsweredPaid, AnsweredRefused,
         AnswerLost, ProvedClean, SelectAgain, TypeOK
  <2> QED
    BY <1>6, <2>1, <2>2 DEF TypeOK, PrepareFails, AnsweredPaid,
       AnsweredRefused, AnswerLost, store
<1>7. ASSUME NEW h \in Requests, Submit(h)
      PROVE  TypeOK'
  <2>1. req' \in [Requests -> Requested]
    BY <1>7, ActionMoves DEF Moves
  <2>2. subs' \in Seq(Subs)
    <3>1. [party |-> req[h].party, state |-> "pending"] \in Subs
      BY <1>7 DEF Submit, Subs, FaucetHolds, HoldersHold, At
    <3> QED
      BY <1>7, <3>1, SubsAppended DEF Submit
  <2> QED
    BY <1>7, <2>1, <2>2 DEF TypeOK, Submit, store
<1>8. ASSUME NEW h \in Requests, MarkPaid(h) \/ Release(h)
      PROVE  TypeOK'
  <2>1. req' \in [Requests -> Requested]
    BY <1>8, DoneMoves DEF Moves, MarkPaid, Release
  <2>2. rows' \in Tables /\ updateIds' \in SUBSET Parties
    BY <1>8 DEF TypeOK, MarkPaid, Release, Tables, HasRow, store
  <2> QED
    BY <1>8, <2>1, <2>2 DEF TypeOK, MarkPaid, Release
<1>9. ASSUME NEW i \in Ids, Land(i) \/ Refuse(i)
      PROVE  TypeOK'
  <2>1. PICK w \in {"landed", "refused"} :
           subs' = [subs EXCEPT ![i].state = w]
    BY <1>9 DEF Land, Refuse
  <2>2. subs' \in Seq(Subs)
    BY <2>1, SubsSettled
  <2> QED
    BY <1>9, <2>2 DEF TypeOK, Land, Refuse, store
<1>10. ASSUME Tick
       PROVE  TypeOK'
  BY <1>10 DEF TypeOK, Tick, store
<1>11. ASSUME Crash
       PROVE  TypeOK'
  BY <1>11 DEF TypeOK, Crash, store, Idle, Requested, Labels, NoRows, Tables
<1>12. ASSUME UNCHANGED vars
       PROVE  TypeOK'
  BY <1>12 DEF TypeOK, vars, store
<1> QED
  BY <1>1, <1>2, <1>3, <1>4, <1>5, <1>6, <1>7, <1>8, <1>9, <1>10, <1>11,
     <1>12 DEF Next, RequestStep, Environment, Ids

-----------------------------------------------------------------------------
(* FaucetHolds, one action at a time.                                      *)

LEMMA ReceiveHolds ==
  ASSUME Inv, NEW h \in Requests, Receive(h)
  PROVE  FaucetHolds'
<1>1. PICK l \in {"check", "lock"}, p \in Parties : Moves(h, l, p, 0)
  BY ActionMoves DEF Inv
<1>2. At(h, "idle") /\ UNCHANGED <<rows, lock, snap, chain, subs>>
  BY DEF Receive, store
<1>3. SnapshotHolds'
  BY <1>1, <1>2, SnapshotQuiet DEF Inv, FaucetHolds
<1>4. ChainHolds'
  BY <1>1, <1>2, ChainQuiet DEF Inv, FaucetHolds, At
<1>5. HoldersHold'
  BY <1>1, <1>2, HoldersQuiet DEF Inv, FaucetHolds, Holding
<1>6. LiveHolds'
  BY <1>2, LiveQuiet DEF Inv, FaucetHolds
<1>7. PayersHold'
  BY <1>1, <1>2, PayersQuiet DEF Inv, FaucetHolds
<1> QED
  BY <1>3, <1>4, <1>5, <1>6, <1>7 DEF FaucetHolds

LEMMA HasClaimedHolds ==
  ASSUME Inv, NEW h \in Requests, HasClaimed(h)
  PROVE  FaucetHolds'
<1>1. PICK l \in {"lock", "idle"}, p \in Parties \cup {Nobody}, s \in Nat :
         Moves(h, l, p, s) /\ (l = "idle" \/ p \in Parties)
  <2>1. req[h].party \in Parties /\ req[h].sent \in Nat
    BY DEF HasClaimed, Inv, TypeOK, Requested, FaucetHolds, HoldersHold, At
  <2> QED
    BY <2>1, ActionMoves DEF Inv
<1>2. At(h, "check") /\ UNCHANGED <<rows, lock, snap, chain, subs>>
  BY DEF HasClaimed, store
<1>3. SnapshotHolds'
  BY <1>1, <1>2, SnapshotQuiet DEF Inv, FaucetHolds
<1>4. ChainHolds'
  BY <1>1, <1>2, ChainQuiet DEF Inv, FaucetHolds, At
<1>5. HoldersHold'
  BY <1>1, <1>2, HoldersQuiet DEF Inv, FaucetHolds, Holding
<1>6. LiveHolds'
  BY <1>2, LiveQuiet DEF Inv, FaucetHolds
<1>7. PayersHold'
  BY <1>1, <1>2, PayersQuiet DEF Inv, FaucetHolds
<1> QED
  BY <1>3, <1>4, <1>5, <1>6, <1>7 DEF FaucetHolds

LEMMA TakesLockHolds ==
  ASSUME Inv, NEW h \in Requests, TakesLock(h)
  PROVE  FaucetHolds'
<1>1. Moves(h, "insert", req[h].party, req[h].sent)
  BY GotoMoves DEF Inv, TakesLock, Labels
<1>2. /\ At(h, "lock") /\ lock = Nobody /\ lock' = h
      /\ snap' = [snap EXCEPT ![h] = rows]
      /\ UNCHANGED <<rows, chain, subs>>
      /\ req[h].party \in Parties
  BY DEF TakesLock, store, Inv, FaucetHolds, HoldersHold, At
\* the lock was free, so no other statement has a snapshot
<1>3. SnapshotHolds'
  <2>1. \A g \in Requests : req[g].pc # "insert"
    BY <1>2, NobodyAssumption DEF Inv, FaucetHolds, SnapshotHolds, At
  <2> QED
    BY <1>1, <1>2, <2>1 DEF SnapshotHolds, Moves, At, Inv, TypeOK
<1>4. ChainHolds'
  BY <1>1, <1>2, ChainQuiet DEF Inv, FaucetHolds, At
<1>5. HoldersHold'
  BY <1>1, <1>2, HoldersQuiet DEF Inv, FaucetHolds, Holding
<1>6. LiveHolds'
  BY <1>2, LiveQuiet DEF Inv, FaucetHolds
<1>7. PayersHold'
  BY <1>1, <1>2, PayersQuiet DEF Inv, FaucetHolds
<1> QED
  BY <1>3, <1>4, <1>5, <1>6, <1>7 DEF FaucetHolds

LEMMA ClaimHolds ==
  ASSUME Inv, NEW h \in Requests, Claim(h)
  PROVE  FaucetHolds'
<1> DEFINE p == req[h].party
<1>1. /\ At(h, "insert") /\ p \in Parties /\ lock' = Nobody
      /\ UNCHANGED <<chain, subs>>
      /\ lock = h
  BY DEF Claim, Inv, FaucetHolds, HoldersHold, SnapshotHolds, At
\* the only statement under way was this one
<1>2. \A g \in Requests : g # h => req[g].pc # "insert"
  BY <1>1 DEF Inv, FaucetHolds, SnapshotHolds, At
\* the row it inserts is new
<1>3. \/ rows[p] = NoRow /\ rows' = [rows EXCEPT ![p] = req[h].now]
      \/ rows' = rows
  BY DEF Claim, Fits
<1>4. /\ \A q \in Parties : rows[q] # NoRow => rows'[q] # NoRow
      /\ Parties = DOMAIN rows
  BY <1>1, <1>3 DEF Inv, TypeOK, Tables, Requested, NoRow
<1>5. \/ Moves(h, "idle", Nobody, 0)
      \/ /\ Moves(h, "pay", p, req[h].sent)
         /\ rows[p] = NoRow /\ rows'[p] # NoRow
  <2>1. CASE Done(h)
    BY <2>1, DoneMoves DEF Inv
  <2>2. CASE Reserved(h) /\ Fits(h) /\ rows' = [rows EXCEPT ![p] = req[h].now]
    BY <1>1, <2>2, ActionMoves
    DEF Inv, Fits, TypeOK, Tables, Requested, NoRow
  <2> QED
    BY <2>1, <2>2 DEF Claim
<1>6. SnapshotHolds'
  BY <1>2, <1>5 DEF SnapshotHolds, Moves, At
<1>7. ChainHolds'
  BY <1>1, <1>5, ChainQuiet DEF Inv, FaucetHolds, At
\* nobody else pays a reservation that was not there
<1>8. HoldersHold'
  BY <1>1, <1>4, <1>5, NobodyAssumption
  DEF Inv, FaucetHolds, HoldersHold, Holds, Holding, Moves, At
<1>9. LiveHolds'
  <2>1. \A i \in Ids : subs[i].party \in Parties
    BY SubsTyped DEF Inv
  <2> QED
    BY <1>1, <1>4, <2>1 DEF Inv, FaucetHolds, LiveHolds, Live, Ids
\* nothing was sent to a party without a reservation
<1>10. PayersHold'
  BY <1>1, <1>5, PayersQuiet DEF Inv, FaucetHolds, LiveHolds
<1> QED
  BY <1>6, <1>7, <1>8, <1>9, <1>10 DEF FaucetHolds

LEMMA EnqueueHolds ==
  ASSUME Inv, NEW h \in Requests, Enqueue(h)
  PROVE  FaucetHolds'
<1>1. Moves(h, "queued", req[h].party, req[h].sent)
  BY ActionMoves DEF Inv
<1>2. /\ At(h, "pay") /\ chain' = Append(chain, h)
      /\ UNCHANGED <<rows, lock, snap, subs>>
      /\ req[h].party \in Parties
  BY DEF Enqueue, store, Inv, FaucetHolds, HoldersHold, At
<1>3. SnapshotHolds'
  BY <1>1, <1>2, SnapshotQuiet DEF Inv, FaucetHolds
\* h was not in the chain: those in it are not at "pay"
<1>4. ChainHolds'
  <2>1. /\ Len(chain) \in Nat /\ Len(chain') = Len(chain) + 1
        /\ \A i \in 1..Len(chain) : chain'[i] = chain[i]
        /\ chain'[Len(chain) + 1] = h
    BY <1>2, ChainAppended DEF Inv, TypeOK
  <2>2. \A i \in 1..Len(chain) : chain[i] \in Requests /\ chain[i] # h
    BY <1>2 DEF Inv, TypeOK, FaucetHolds, ChainHolds, At
  <2>3. \A i \in 1..Len(chain') : req'[chain'[i]].pc \in {"queued", "answer"}
    BY <1>1, <2>1, <2>2 DEF Inv, FaucetHolds, ChainHolds, Moves
  <2>4. \A i, j \in 1..Len(chain') : chain'[i] = chain'[j] => i = j
    BY <2>1, <2>2 DEF Inv, FaucetHolds, ChainHolds
  <2>5. ASSUME NEW g \in Requests, req'[g].pc = "answer"
        PROVE  chain' # << >> /\ Head(chain') = g
    <3>1. Running(g)
      BY <1>1, <2>5 DEF Inv, FaucetHolds, ChainHolds, Moves, At
    <3> QED
      BY <1>2, <3>1 DEF Running, Inv, TypeOK
  <2> QED
    BY <2>3, <2>4, <2>5 DEF ChainHolds, At, Running
<1>5. HoldersHold'
  BY <1>1, <1>2, HoldersQuiet DEF Inv, FaucetHolds, Holding, Holds, At
<1>6. LiveHolds'
  BY <1>2, LiveQuiet DEF Inv, FaucetHolds
<1>7. PayersHold'
  BY <1>1, <1>2, PayersQuiet DEF Inv, FaucetHolds, PayersHold, At
<1> QED
  BY <1>3, <1>4, <1>5, <1>6, <1>7 DEF FaucetHolds

\* a turn ends: by a failed preparation, or by an answer
LEMMA TurnHolds ==
  ASSUME Inv, NEW h \in Requests, NEW l, NEW p, NEW s,
         Moves(h, l, p, s), Running(h), Holds(h),
         UNCHANGED <<rows, lock, snap, subs>>,
         \/ l \in {"pay", "release", "mark"} /\ p = req[h].party
         \/ l = "idle",
         LeaveChain(h),
         l \in {"pay", "release"} =>
           \A i \in Ids : Live(i) => subs[i].party # p
  PROVE  FaucetHolds'
<1>1. req[h].party \in Parties
  BY DEF Inv, FaucetHolds, HoldersHold, Holds, Holding, At
<1>2. SnapshotHolds'
  BY SnapshotQuiet DEF Inv, FaucetHolds
<1>3. ChainHolds'
  BY ChainLeaves DEF Inv, FaucetHolds
<1>4. HoldersHold'
  BY <1>1, HoldersQuiet DEF Inv, FaucetHolds, Holding
<1>5. LiveHolds'
  BY LiveQuiet DEF Inv, FaucetHolds
<1>6. PayersHold'
  BY PayersQuiet DEF Inv, FaucetHolds
<1> QED
  BY <1>2, <1>3, <1>4, <1>5, <1>6 DEF FaucetHolds

\* or goes on, with other inputs
LEMMA SelectAgainHolds ==
  ASSUME Inv, NEW h \in Requests, SelectAgain(h), Running(h), Holds(h),
         UNCHANGED <<rows, lock, snap, subs>>,
         \A i \in Ids : Live(i) => subs[i].party # req[h].party
  PROVE  FaucetHolds'
<1>1. Moves(h, "queued", req[h].party, req[h].sent) /\ chain' = chain
  BY SelectAgainMoves DEF Inv
<1>2. req[h].party \in Parties
  BY DEF Inv, FaucetHolds, HoldersHold, Holds, Holding, At
<1>3. SnapshotHolds'
  BY <1>1, SnapshotQuiet DEF Inv, FaucetHolds
<1>4. ChainHolds'
  BY <1>1 DEF Inv, TypeOK, FaucetHolds, ChainHolds, Moves, At, Running
<1>5. HoldersHold'
  BY <1>1, <1>2, HoldersQuiet DEF Inv, FaucetHolds, Holding
<1>6. LiveHolds'
  BY LiveQuiet DEF Inv, FaucetHolds
<1>7. PayersHold'
  BY <1>1, PayersQuiet DEF Inv, FaucetHolds
<1> QED
  BY <1>3, <1>4, <1>5, <1>6, <1>7 DEF FaucetHolds

LEMMA PrepareFailsHolds ==
  ASSUME Inv, NEW h \in Requests, PrepareFails(h)
  PROVE  FaucetHolds'
<1>1. /\ Running(h) /\ Holds(h) /\ UNCHANGED <<rows, lock, snap, subs>>
      /\ \A i \in Ids : Live(i) => subs[i].party # req[h].party
  BY DEF PrepareFails, store, Holds, Holding, At, Inv, FaucetHolds, PayersHold
<1>2. CASE SelectAgain(h)
  BY <1>1, <1>2, SelectAgainHolds
<1>3. CASE ProvedClean(h)
  <2>1. Moves(h, "release", req[h].party, 0)
    BY <1>3, SettleMoves DEF ProvedClean, Inv, Labels
  <2> QED
    BY <1>1, <1>3, <2>1, TurnHolds DEF ProvedClean
<1> QED
  BY <1>2, <1>3 DEF PrepareFails

LEMMA AnswersHold ==
  ASSUME Inv, NEW h \in Requests,
         AnsweredPaid(h) \/ AnsweredRefused(h) \/ AnswerLost(h)
  PROVE  FaucetHolds'
<1>1. /\ Running(h) /\ Holds(h) /\ UNCHANGED <<rows, lock, snap, subs>>
  BY DEF AnsweredPaid, AnsweredRefused, AnswerLost, store, Holds, Holding, At,
     Inv, FaucetHolds, ChainHolds
<1>2. CASE AnsweredPaid(h)
  <2>1. Moves(h, "mark", req[h].party, 0)
    BY <1>2, SettleMoves DEF AnsweredPaid, Inv, Labels
  <2> QED
    BY <1>1, <1>2, <2>1, TurnHolds DEF AnsweredPaid
<1>3. CASE AnswerLost(h)
  <2>1. Moves(h, "idle", Nobody, 0)
    BY <1>3, DoneMoves DEF AnswerLost, Inv
  <2> QED
    BY <1>1, <1>3, <2>1, TurnHolds DEF AnswerLost
<1>4. CASE AnsweredRefused(h)
  \* what was refused was all this party had in flight
  <2>1. \A i \in Ids : Live(i) => subs[i].party # req[h].party
    BY <1>4 DEF AnsweredRefused, Inv, FaucetHolds, PayersHold, At, Live, Sub
  <2>2. CASE SelectAgain(h)
    BY <1>1, <2>1, <2>2, SelectAgainHolds
  <2>3. CASE LeaveChain(h) /\ PayAgain(h)
    <3>1. Moves(h, "pay", req[h].party, req[h].sent)
      BY <2>3, ActionMoves DEF Inv
    <3> QED
      BY <1>1, <2>1, <2>3, <3>1, TurnHolds
  <2>4. CASE ProvedClean(h)
    <3>1. Moves(h, "release", req[h].party, 0)
      BY <2>4, SettleMoves DEF ProvedClean, Inv, Labels
    <3> QED
      BY <1>1, <2>1, <2>4, <3>1, TurnHolds DEF ProvedClean
  <2> QED
    BY <1>4, <2>2, <2>3, <2>4 DEF AnsweredRefused
<1> QED
  BY <1>2, <1>3, <1>4

LEMMA SubmitHolds ==
  ASSUME Inv, NEW h \in Requests, Submit(h)
  PROVE  FaucetHolds'
<1> DEFINE p == req[h].party
           n == Len(subs) + 1
<1>1. Moves(h, "answer", p, n)
  BY ActionMoves DEF Inv
<1>2. /\ At(h, "queued") /\ Running(h) /\ Holds(h)
      /\ p \in Parties /\ rows[p] # NoRow
      /\ UNCHANGED <<rows, lock, snap, chain>>
      /\ \A i \in Ids : Live(i) => subs[i].party # p
  BY DEF Submit, store, Holds, Holding, At, Inv, FaucetHolds, HoldersHold,
     PayersHold
<1>3. /\ Len(subs') = n
      /\ \A i \in Ids : subs'[i] = subs[i]
      /\ subs'[n] = [party |-> p, state |-> "pending"]
  <2>1. [party |-> p, state |-> "pending"] \in Subs
    BY <1>2 DEF Subs
  <2> QED
    BY <2>1, SubsAppended DEF Submit, Inv
<1>4. Ids' = Ids \cup {n} /\ n \notin Ids
  BY <1>3 DEF Ids, Inv, TypeOK
<1>5. SnapshotHolds'
  BY <1>1, <1>2, SnapshotQuiet DEF Inv, FaucetHolds
<1>6. ChainHolds'
  BY <1>1, <1>2 DEF Inv, TypeOK, FaucetHolds, ChainHolds, Moves, At, Running
<1>7. HoldersHold'
  BY <1>1, <1>2, HoldersQuiet DEF Inv, FaucetHolds, Holding
<1>8. LiveHolds'
  BY <1>2, <1>3, <1>4 DEF Inv, FaucetHolds, LiveHolds, Live
<1>9. PayersHold'
  \* no other request holds this reservation
  <2>1. \A g \in Requests : g # h /\ Holds(g) => req[g].party # p
    BY <1>2 DEF Inv, FaucetHolds, HoldersHold
  <2>2. ASSUME NEW g \in Requests, NEW i \in Ids',
               req'[g].pc \in {"pay", "queued", "release"}, Live(i)'
        PROVE  subs'[i].party # req'[g].party
    BY <1>1, <1>3, <1>4, <2>1, <2>2
    DEF Inv, FaucetHolds, PayersHold, Moves, Live, Holds, Holding
  <2>3. ASSUME NEW g \in Requests, At(g, "answer")'
        PROVE  /\ req'[g].sent \in Ids'
               /\ subs'[req'[g].sent].party = req'[g].party
               /\ \A i \in Ids' :
                    Live(i)' /\ subs'[i].party = req'[g].party
                      => i = req'[g].sent
    <3>1. CASE g = h
      BY <1>1, <1>2, <1>3, <1>4, <3>1 DEF Moves, Live
    <3>2. CASE g # h
      BY <1>1, <1>3, <1>4, <2>1, <2>3, <3>2
      DEF Inv, FaucetHolds, PayersHold, Moves, Live, Holds, Holding, At, Sub
    <3> QED
      BY <3>1, <3>2
  <2> QED
    BY <2>2, <2>3 DEF PayersHold, Sub
<1> QED
  BY <1>5, <1>6, <1>7, <1>8, <1>9 DEF FaucetHolds

LEMMA MarkPaidHolds ==
  ASSUME Inv, NEW h \in Requests, MarkPaid(h)
  PROVE  FaucetHolds'
<1>1. Moves(h, "idle", Nobody, 0)
  BY DoneMoves DEF MarkPaid, Inv
<1>2. At(h, "mark") /\ UNCHANGED <<rows, lock, snap, chain, subs>>
  BY DEF MarkPaid
<1>3. SnapshotHolds'
  BY <1>1, <1>2, SnapshotQuiet DEF Inv, FaucetHolds
<1>4. ChainHolds'
  BY <1>1, <1>2, ChainQuiet DEF Inv, FaucetHolds, At
<1>5. HoldersHold'
  BY <1>1, <1>2, HoldersQuiet DEF Inv, FaucetHolds, Holding
<1>6. LiveHolds'
  BY <1>2, LiveQuiet DEF Inv, FaucetHolds
<1>7. PayersHold'
  BY <1>1, <1>2, PayersQuiet DEF Inv, FaucetHolds
<1> QED
  BY <1>3, <1>4, <1>5, <1>6, <1>7 DEF FaucetHolds

LEMMA ReleaseHolds ==
  ASSUME Inv, NEW h \in Requests, Release(h)
  PROVE  FaucetHolds'
<1> DEFINE p == req[h].party
<1>1. Moves(h, "idle", Nobody, 0)
  BY DoneMoves DEF Release, Inv
<1>2. /\ At(h, "release") /\ Holds(h) /\ p \in Parties
      /\ UNCHANGED <<lock, snap, chain, subs>>
  BY DEF Release, Holds, Holding, At, Inv, FaucetHolds, HoldersHold
\* only this party's row goes
<1>3. /\ \A q \in Parties : q # p => rows'[q] = rows[q]
      /\ \A q \in Parties : rows'[q] # NoRow => rows'[q] = rows[q]
  BY <1>2 DEF Release, store, Inv, TypeOK, Tables
<1>4. SnapshotHolds'
  BY <1>1, <1>2, <1>3 DEF Inv, FaucetHolds, SnapshotHolds, Moves, At
<1>5. ChainHolds'
  BY <1>1, <1>2, ChainQuiet DEF Inv, FaucetHolds, At
\* and no other request held it
<1>6. HoldersHold'
  <2>1. \A g \in Requests : g # h /\ Holds(g) => req[g].party # p
    BY <1>2 DEF Inv, FaucetHolds, HoldersHold
  <2>2. \A g \in Requests : Holds(g)' => g # h /\ Holds(g)
    BY <1>1 DEF Holds, Holding, Moves
  <2>3. \A g \in Requests : Holds(g) => req[g].party \in Parties
    BY DEF Inv, FaucetHolds, HoldersHold, Holds, Holding, At
  <2> QED
    BY <1>1, <1>3, <2>1, <2>2, <2>3
    DEF Inv, FaucetHolds, HoldersHold, Moves, At
\* and nothing was in flight for it
<1>7. LiveHolds'
  <2>1. \A i \in Ids : Live(i) => subs[i].party # p
    BY <1>2 DEF Inv, FaucetHolds, PayersHold, At
  <2>2. \A i \in Ids : subs[i].party \in Parties
    BY SubsTyped DEF Inv
  <2> QED
    BY <1>2, <1>3, <2>1, <2>2
    DEF Inv, FaucetHolds, LiveHolds, Live, Ids
<1>8. PayersHold'
  BY <1>1, <1>2, PayersQuiet DEF Inv, FaucetHolds
<1> QED
  BY <1>4, <1>5, <1>6, <1>7, <1>8 DEF FaucetHolds

\* a transfer lands, or is refused: less is in flight, nothing more
LEMMA LedgerHolds ==
  ASSUME Inv, NEW i \in Ids, Land(i) \/ Refuse(i)
  PROVE  FaucetHolds'
<1>1. UNCHANGED <<rows, lock, snap, chain, req>> /\ Live(i)
  BY DEF Land, Refuse, store, Live
<1>2. PICK w \in {"landed", "refused"} :
         subs' = [subs EXCEPT ![i].state = w]
  BY DEF Land, Refuse
<1>3. /\ Len(subs') = Len(subs)
      /\ \A j \in Ids : subs'[j].party = subs[j].party
      /\ \A j \in Ids : Live(j)' => Live(j)
  BY <1>1, <1>2, SubsSettled DEF Inv, Live
<1>4. Ids' = Ids
  BY <1>3 DEF Ids
<1>5. SnapshotHolds' /\ ChainHolds' /\ HoldersHold'
  BY <1>1 DEF Inv, FaucetHolds, SnapshotHolds, ChainHolds, HoldersHold, At,
     Holds, Running
<1>6. LiveHolds'
  BY <1>1, <1>3, <1>4 DEF Inv, FaucetHolds, LiveHolds
<1>7. PayersHold'
  BY <1>1, <1>3, <1>4 DEF Inv, FaucetHolds, PayersHold, At, Sub
<1> QED
  BY <1>5, <1>6, <1>7 DEF FaucetHolds

LEMMA CrashHolds ==
  ASSUME Inv, Crash
  PROVE  FaucetHolds'
<1>1. \A h \in Requests : req'[h].pc = "idle"
  BY DEF Crash, Idle
<1>2. chain' = << >> /\ UNCHANGED <<rows, subs>>
  BY DEF Crash, store
<1>3. SnapshotHolds' /\ ChainHolds' /\ HoldersHold' /\ PayersHold'
  BY <1>1, <1>2 DEF SnapshotHolds, ChainHolds, HoldersHold, PayersHold, At,
     Holds, Holding
<1> QED
  BY <1>2, <1>3, LiveQuiet DEF Inv, FaucetHolds

\* every step keeps the invariant
LEMMA NextInv ==
  ASSUME Inv, [Next]_vars
  PROVE  Inv'
<1>1. CASE UNCHANGED vars \/ Tick
  <2>1. UNCHANGED <<rows, lock, snap, chain, req, subs>>
    BY <1>1 DEF vars, Tick, store
  <2> QED
    BY <2>1, NextTyped DEF Inv, FaucetHolds, SnapshotHolds, ChainHolds,
       HoldersHold, LiveHolds, PayersHold, At, Holds, Running, Live, Ids, Sub
<1>2. CASE Next /\ ~Tick
  BY <1>2, NextTyped, ReceiveHolds, HasClaimedHolds, TakesLockHolds,
     ClaimHolds, EnqueueHolds, PrepareFailsHolds, SubmitHolds, AnswersHold,
     MarkPaidHolds, ReleaseHolds, LedgerHolds, CrashHolds
  DEF Next, RequestStep, Environment, Ids, Inv
<1> QED
  BY <1>1, <1>2

\* nothing has been asked for yet
LEMMA InitInv ==
  ASSUME Init
  PROVE  Inv
<1>1. TypeOK
  BY DEF Init, TypeOK, NoRows, Tables, Idle, Requested, Labels
<1>2. FaucetHolds
  BY DEF Init, FaucetHolds, SnapshotHolds, ChainHolds, HoldersHold, LiveHolds,
     PayersHold, At, Holds, Holding, Ids, Idle
<1> QED
  BY <1>1, <1>2 DEF Inv

-----------------------------------------------------------------------------
(* The theorems.                                                           *)

(***************************************************************************)
(* A reservation has one request paying it, and at most one transfer that  *)
(* was made or may still be; claim statements see every row of the table.  *)
(***************************************************************************)
THEOREM FaucetInvariant == Spec => []Inv
<1>1. Init => Inv
  BY InitInv
<1>2. Inv /\ [Next]_vars => Inv'
  BY NextInv
<1> QED
  BY <1>1, <1>2, PTL DEF Spec

(***************************************************************************)
(* Payouts take turns, a reservation has one request paying it, and no     *)
(* party has two transfers that were made or may still be, nor one without *)
(* its reservation.                                                        *)
(***************************************************************************)
THEOREM PaysUnderItsReservation == Spec => []FaucetHolds
<1>1. Inv => FaucetHolds
  BY DEF Inv
<1> QED
  BY <1>1, FaucetInvariant, PTL

(***************************************************************************)
(* The variables keep their types: only parties are paid, and only a       *)
(* payout whose turn it is leaves the chain.                               *)
(***************************************************************************)
THEOREM TypeCorrect == Spec => []TypeOK
<1>1. Inv => TypeOK
  BY DEF Inv
<1> QED
  BY <1>1, FaucetInvariant, PTL

-----------------------------------------------------------------------------
(* The budget of a window.                                                 *)

\* the rows in the window that ends at t
InWindowTo(table, t) == {p \in Parties : table[p] # NoRow /\ table[p] <= t
                                         /\ table[p] > t - Window}

LEMMA NumbersNat ==
  /\ DailyBudget \in Nat /\ LifetimeCap \in Nat
  /\ Window \in Nat /\ MaxTime \in Nat
  BY NumbersAssumption

\* what a statement counts includes every window its row falls in
LEMMA ClaimKeepsBudget ==
  ASSUME Inv, WindowBudget, NEW h \in Requests, Claim(h), Fits(h),
         rows' = [rows EXCEPT ![req[h].party] = req[h].now]
  PROVE  WindowBudget'
<1> DEFINE p == req[h].party
           m == req[h].now
<1>1. /\ p \in Parties /\ m \in Nat /\ At(h, "insert")
  BY DEF Claim, Inv, FaucetHolds, HoldersHold, At, TypeOK, Requested
<1>2. /\ Cardinality(InWindow(snap[h], m - Window)) + 1 <= DailyBudget
      /\ rows[p] = NoRow
  BY DEF Fits
<1>3. /\ rows \in Tables
      /\ \A q \in Parties : rows[q] # NoRow => snap[h][q] = rows[q]
  BY <1>1 DEF Inv, TypeOK, FaucetHolds, SnapshotHolds
<1> SUFFICES ASSUME NEW t \in 0..MaxTime
             PROVE  Cardinality(InWindowTo(rows', t)) <= DailyBudget
  BY DEF WindowBudget, InWindowTo
<1>4. t \in Nat /\ Cardinality(InWindowTo(rows, t)) <= DailyBudget
  BY NumbersNat DEF WindowBudget, InWindowTo
<1>5. CASE m <= t /\ m > t - Window
  <2>1. InWindowTo(rows, t) \subseteq InWindow(snap[h], m - Window)
    BY <1>1, <1>3, <1>4, <1>5, NumbersNat
    DEF InWindowTo, InWindow, Tables, NoRow
  <2>2. InWindowTo(rows', t) \subseteq InWindowTo(rows, t) \cup {p}
    BY <1>3 DEF InWindowTo, Tables
  <2>3. /\ IsFiniteSet(InWindow(snap[h], m - Window))
        /\ Cardinality(InWindow(snap[h], m - Window)) \in Nat
    BY PartiesAssumption, FS_Subset, FS_CardinalityType DEF InWindow
  <2>4. /\ IsFiniteSet(InWindowTo(rows, t))
        /\ Cardinality(InWindowTo(rows, t))
             <= Cardinality(InWindow(snap[h], m - Window))
        /\ Cardinality(InWindowTo(rows, t)) \in Nat
    BY <2>1, <2>3, FS_Subset, FS_CardinalityType
  <2>5. /\ IsFiniteSet(InWindowTo(rows, t) \cup {p})
        /\ Cardinality(InWindowTo(rows, t) \cup {p})
             <= Cardinality(InWindowTo(rows, t)) + 1
        /\ Cardinality(InWindowTo(rows, t) \cup {p}) \in Nat
    <3> DEFINE S == InWindowTo(rows, t)
    <3>1. IsFiniteSet(S) /\ Cardinality(S) \in Nat
      BY <2>4
    <3> HIDE DEF S, p
    <3>2. /\ IsFiniteSet(S \cup {p})
          /\ Cardinality(S \cup {p}) =
               IF p \in S THEN Cardinality(S) ELSE Cardinality(S) + 1
      BY <3>1, FS_AddElement
    <3>3. /\ IsFiniteSet(S \cup {p})
          /\ Cardinality(S \cup {p}) <= Cardinality(S) + 1
          /\ Cardinality(S \cup {p}) \in Nat
      BY <3>1, <3>2
    <3> QED
      BY <3>3 DEF S
  <2>6. /\ Cardinality(InWindowTo(rows', t))
             <= Cardinality(InWindowTo(rows, t) \cup {p})
        /\ Cardinality(InWindowTo(rows', t)) \in Nat
    BY <2>2, <2>5, FS_Subset, FS_CardinalityType
  <2> QED
    BY <1>2, <2>3, <2>4, <2>5, <2>6, NumbersNat
<1>6. CASE ~(m <= t /\ m > t - Window)
  <2>1. InWindowTo(rows', t) = InWindowTo(rows, t)
    BY <1>1, <1>2, <1>3, <1>6 DEF InWindowTo, Tables
  <2> QED
    BY <1>4, <2>1
<1> QED
  BY <1>5, <1>6

\* rows that are not new do not fill a window
LEMMA FewerRowsKeepBudget ==
  ASSUME WindowBudget, NEW table,
         \A q \in Parties : table[q] # NoRow => table[q] = rows[q],
         rows' = table
  PROVE  WindowBudget'
<1> SUFFICES ASSUME NEW t \in 0..MaxTime
             PROVE  Cardinality(InWindowTo(table, t)) <= DailyBudget
  BY DEF WindowBudget, InWindowTo
<1>1. Cardinality(InWindowTo(rows, t)) <= DailyBudget
  BY DEF WindowBudget, InWindowTo
<1>2. InWindowTo(table, t) \subseteq InWindowTo(rows, t)
  BY DEF InWindowTo
<1>3. IsFiniteSet(InWindowTo(rows, t))
  BY PartiesAssumption, FS_Subset DEF InWindowTo
<1>4. /\ Cardinality(InWindowTo(table, t)) <= Cardinality(InWindowTo(rows, t))
      /\ Cardinality(InWindowTo(table, t)) \in Nat
      /\ Cardinality(InWindowTo(rows, t)) \in Nat
  BY <1>2, <1>3, FS_Subset, FS_CardinalityType
<1> QED
  BY <1>1, <1>4, NumbersNat

\* which rows a step changes: one new row of a claim, one row given back
LEMMA RowSteps ==
  ASSUME Inv, [Next]_vars
  PROVE  \/ UNCHANGED rows
         \/ \E h \in Requests : /\ Claim(h) /\ Fits(h)
                                /\ rows' = [rows EXCEPT ![req[h].party] = req[h].now]
         \/ \E h \in Requests : /\ Release(h)
                                /\ rows' = [rows EXCEPT ![req[h].party] = NoRow]
  BY DEF Next, RequestStep, Environment, vars, store, Receive, HasClaimed,
     TakesLock, Claim, Enqueue, PrepareFails, Submit, AnsweredPaid,
     AnsweredRefused, AnswerLost, MarkPaid, Release, Land, Refuse, Tick, Crash

(***************************************************************************)
(* No window holds more reservations than the daily budget: the claim      *)
(* statements, one after the other under the advisory lock, count every    *)
(* row that a window of theirs has.                                        *)
(***************************************************************************)
THEOREM BudgetHolds == Spec => []WindowBudget
<1>1. Init => WindowBudget
  <2>1. SUFFICES ASSUME Init, NEW t \in 0..MaxTime
                 PROVE  Cardinality(InWindowTo(rows, t)) <= DailyBudget
    BY DEF WindowBudget, InWindowTo
  <2>2. InWindowTo(rows, t) = {}
    BY <2>1 DEF Init, NoRows, InWindowTo
  <2> QED
    BY <2>2, FS_EmptySet, NumbersNat
<1>2. Inv /\ WindowBudget /\ [Next]_vars => WindowBudget'
  <2> SUFFICES ASSUME Inv, WindowBudget, [Next]_vars
               PROVE  WindowBudget'
    OBVIOUS
  <2>1. CASE UNCHANGED rows
    BY <2>1, FewerRowsKeepBudget
  <2>2. ASSUME NEW h \in Requests, Claim(h), Fits(h),
               rows' = [rows EXCEPT ![req[h].party] = req[h].now]
        PROVE  WindowBudget'
    BY <2>2, ClaimKeepsBudget
  <2>3. ASSUME NEW h \in Requests,
               rows' = [rows EXCEPT ![req[h].party] = NoRow]
        PROVE  WindowBudget'
    <3>1. \A q \in Parties : rows'[q] # NoRow => rows'[q] = rows[q]
      BY <2>3 DEF Inv, TypeOK, Tables
    <3> QED
      BY <3>1, FewerRowsKeepBudget
  <2> QED
    BY <2>1, <2>2, <2>3, RowSteps
<1> QED
  BY <1>1, <1>2, FaucetInvariant, PTL DEF Spec

-----------------------------------------------------------------------------
(* The faucet implements Grants.                                           *)

Paid == {subs[i].party : i \in Landed}

\* the instance counts as its user does
LEMMA SameCardinality ==
  ASSUME NEW S
  PROVE  Promise!Cardinality(S) = Cardinality(S)
  BY DEF Promise!Cardinality, Cardinality

\* the insert is a Reserve: the statement counted every row there was
LEMMA ClaimReserves ==
  ASSUME Inv, NEW h \in Requests, Claim(h), Fits(h),
         rows' = [rows EXCEPT ![req[h].party] = req[h].now]
  PROVE  \E p \in Parties :
           /\ p \notin HasRow(rows)
           /\ LifetimeCap = 0 \/ Cardinality(HasRow(rows)) < LifetimeCap
           /\ HasRow(rows') = HasRow(rows) \cup {p}
           /\ UNCHANGED subs
<1> DEFINE p == req[h].party
<1>1. /\ p \in Parties /\ req[h].now \in Nat /\ At(h, "insert")
      /\ UNCHANGED subs
  BY DEF Claim, Inv, FaucetHolds, HoldersHold, At, TypeOK, Requested
<1>2. /\ rows \in Tables
      /\ HasRow(rows) \subseteq HasRow(snap[h])
  BY <1>1 DEF Inv, TypeOK, FaucetHolds, SnapshotHolds, HasRow
<1>3. p \notin HasRow(rows)
  BY DEF Fits, HasRow
<1>4. LifetimeCap = 0 \/ Cardinality(HasRow(rows)) < LifetimeCap
  <2>1. IsFiniteSet(HasRow(snap[h]))
    BY PartiesAssumption, FS_Subset DEF HasRow
  <2>2. /\ Cardinality(HasRow(rows)) <= Cardinality(HasRow(snap[h]))
        /\ IsFiniteSet(HasRow(rows))
    BY <1>2, <2>1, FS_Subset
  <2>3. /\ Cardinality(HasRow(rows)) \in Nat
        /\ Cardinality(HasRow(snap[h])) \in Nat
    BY <2>1, <2>2, FS_CardinalityType
  <2> QED
    BY <2>2, <2>3, NumbersNat DEF Fits
<1>5. HasRow(rows') = HasRow(rows) \cup {p}
  BY <1>1, <1>2 DEF HasRow, Tables, NoRow
<1> QED
  BY <1>1, <1>3, <1>4, <1>5

\* giving the row back is a Free: nothing was, or will be, paid under it
LEMMA ReleaseFrees ==
  ASSUME Inv, NEW h \in Requests, Release(h),
         rows' = [rows EXCEPT ![req[h].party] = NoRow]
  PROVE  \E p \in Parties :
           /\ p \in HasRow(rows) \ Paid
           /\ HasRow(rows') = HasRow(rows) \ {p}
           /\ UNCHANGED subs
<1> DEFINE p == req[h].party
<1>1. p \in Parties /\ rows[p] # NoRow /\ UNCHANGED subs
  BY DEF Release, Inv, FaucetHolds, HoldersHold, Holds, Holding, At
<1>2. p \notin Paid
  BY DEF Paid, Landed, Release, Inv, FaucetHolds, PayersHold, Live, Ids, At
<1>3. HasRow(rows') = HasRow(rows) \ {p}
  BY <1>1 DEF HasRow, Inv, TypeOK, Tables
<1> QED
  BY <1>1, <1>2, <1>3 DEF HasRow

\* what the ledger decides changes one submission
LEMMA LedgerSteps ==
  ASSUME Inv, NEW i \in Ids, NEW w \in {"landed", "refused"},
         subs[i].state = "pending", subs' = [subs EXCEPT ![i].state = w]
  PROVE  /\ i \notin Landed
         /\ Landed' = IF w = "landed" THEN Landed \cup {i} ELSE Landed
         /\ \A j \in Ids : subs'[j].party = subs[j].party
<1>1. /\ Len(subs') = Len(subs)
      /\ \A j \in Ids : /\ subs'[j].party = subs[j].party
                        /\ j # i => subs'[j] = subs[j]
      /\ subs'[i].state = w
  BY SubsSettled DEF Inv
<1> QED
  BY <1>1 DEF Landed, Ids

\* a transfer that commits is a Pay
LEMMA LandPays ==
  ASSUME Inv, NEW i \in Ids, Land(i)
  PROVE  \E p \in Parties :
           /\ p \in HasRow(rows) \ Paid
           /\ Paid' = Paid \cup {p}
           /\ Cardinality(Landed') = Cardinality(Landed) + 1
           /\ UNCHANGED rows
<1> DEFINE p == subs[i].party
<1>1. /\ i \notin Landed /\ Landed' = Landed \cup {i}
      /\ \A j \in Ids : subs'[j].party = subs[j].party
      /\ UNCHANGED rows
  BY LedgerSteps DEF Land, store
<1>2. p \in Parties /\ p \in HasRow(rows)
  BY SubsTyped DEF Inv, FaucetHolds, LiveHolds, Live, Land, HasRow
<1>3. Landed \subseteq Ids
  BY DEF Landed, Ids
<1>4. p \notin Paid
  BY <1>1, <1>3 DEF Paid, Landed, Land, Inv, FaucetHolds, LiveHolds, Live, Ids
<1>5. Paid' = Paid \cup {p}
  BY <1>1, <1>3 DEF Paid
<1>6. Cardinality(Landed') = Cardinality(Landed) + 1
  <2>1. IsFiniteSet(Landed)
    <3>1. Len(subs) \in Int /\ 1 \in Int
      BY DEF Inv, TypeOK
    <3>2. IsFiniteSet(1..Len(subs))
      BY <3>1, FS_Interval
    <3> QED
      BY <3>2, FS_Subset DEF Landed
  <2> QED
    BY <1>1, <2>1, FS_AddElement
<1> QED
  BY <1>1, <1>2, <1>4, <1>5, <1>6

\* every other step leaves what was committed alone
LEMMA SubsSteps ==
  ASSUME Inv, [Next]_vars
  PROVE  \/ UNCHANGED subs
         \/ \E i \in Ids : Land(i)
         \/ Landed' = Landed /\ Paid' = Paid /\ UNCHANGED rows
<1>1. ASSUME NEW i \in Ids, Refuse(i)
      PROVE  Landed' = Landed /\ Paid' = Paid /\ UNCHANGED rows
  <2>1. /\ Landed' = Landed
        /\ \A j \in Ids : subs'[j].party = subs[j].party
    BY <1>1, LedgerSteps DEF Refuse
  <2> QED
    BY <1>1, <2>1 DEF Paid, Landed, Ids, Refuse, store
<1>2. ASSUME NEW h \in Requests, Submit(h)
      PROVE  Landed' = Landed /\ Paid' = Paid /\ UNCHANGED rows
  <2> DEFINE x == [party |-> req[h].party, state |-> "pending"]
  <2>1. x \in Subs
    BY <1>2 DEF Submit, Subs, Inv, FaucetHolds, HoldersHold, At
  <2>2. /\ Len(subs') = Len(subs) + 1
        /\ \A i \in Ids : subs'[i] = subs[i]
        /\ subs'[Len(subs) + 1] = x
    BY <1>2, <2>1, SubsAppended DEF Submit, Inv
  <2>3. /\ Len(subs) \in Nat
        /\ Ids' = Ids \cup {Len(subs) + 1}
    BY <2>2 DEF Ids, Inv, TypeOK
  <2>4. Landed' = Landed
    BY <2>2, <2>3 DEF Landed, Ids
  <2> QED
    BY <1>2, <2>2, <2>4 DEF Paid, Landed, Ids, Submit, store
<1> QED
  BY <1>1, <1>2 DEF Next, RequestStep, Environment, Ids, vars, store, Receive,
     HasClaimed, TakesLock, Claim, Enqueue, PrepareFails, AnsweredPaid,
     AnsweredRefused, AnswerLost, MarkPaid, Release, Tick, Crash

(***************************************************************************)
(* One payout per party, ever, none without its reservation, and no more   *)
(* reservations than the lifetime cap, whatever answers are lost and       *)
(* wherever the process dies.                                              *)
(***************************************************************************)
THEOREM GrantsKept == Spec => GrantsAreKept
<1>1. Init => Promise!Init
  <2> SUFFICES ASSUME Init
               PROVE  Promise!Init
    OBVIOUS
  <2>1. HasRow(rows) = {}
    BY DEF Init, NoRows, HasRow
  <2>2. Landed = {}
    BY DEF Init, Landed
  <2> QED
    BY <2>1, <2>2, FS_EmptySet DEF Promise!Init
<1>2. Inv /\ [Next]_vars =>
        [Promise!Next]_<<HasRow(rows), {subs[i].party : i \in Landed},
                         Cardinality(Landed)>>
  <2> SUFFICES ASSUME Inv, [Next]_vars
               PROVE  \/ Promise!Next
                      \/ UNCHANGED <<HasRow(rows), Paid, Cardinality(Landed)>>
    BY DEF Paid
  <2>1. CASE \E i \in Ids : Land(i)
    <3>1. PICK p \in Parties :
            /\ p \in HasRow(rows) \ Paid
            /\ Paid' = Paid \cup {p}
            /\ Cardinality(Landed') = Cardinality(Landed) + 1
            /\ UNCHANGED rows
      BY <2>1, LandPays
    <3>2. Promise!Pay(p)
      BY <3>1 DEF Promise!Pay, Paid, HasRow
    <3> QED
      BY <3>2 DEF Promise!Next
  <2>2. CASE Landed' = Landed /\ Paid' = Paid /\ UNCHANGED rows
    BY <2>2 DEF HasRow
  <2>3. CASE UNCHANGED subs
    <3>1. UNCHANGED <<Paid, Cardinality(Landed)>>
      BY <2>3 DEF Paid, Landed
    <3>2. CASE UNCHANGED rows
      BY <3>1, <3>2 DEF HasRow
    <3>3. ASSUME NEW h \in Requests, Claim(h), Fits(h),
                 rows' = [rows EXCEPT ![req[h].party] = req[h].now]
          PROVE  Promise!Next
      <4>1. PICK p \in Parties :
              /\ p \notin HasRow(rows)
              /\ LifetimeCap = 0 \/ Cardinality(HasRow(rows)) < LifetimeCap
              /\ HasRow(rows') = HasRow(rows) \cup {p}
        BY <3>3, ClaimReserves
      <4>2. Promise!Reserve(p)
        BY <3>1, <4>1, SameCardinality DEF Promise!Reserve, Paid, HasRow
      <4> QED
        BY <4>2 DEF Promise!Next
    <3>4. ASSUME NEW h \in Requests, Release(h),
                 rows' = [rows EXCEPT ![req[h].party] = NoRow]
          PROVE  Promise!Next
      <4>1. PICK p \in Parties : /\ p \in HasRow(rows) \ Paid
                                 /\ HasRow(rows') = HasRow(rows) \ {p}
        BY <3>4, ReleaseFrees
      <4>2. Promise!Free(p)
        BY <3>1, <4>1 DEF Promise!Free, Paid, HasRow
      <4> QED
        BY <4>2 DEF Promise!Next
    <3> QED
      BY <3>2, <3>3, <3>4, RowSteps
  <2> QED
    BY <2>1, <2>2, <2>3, SubsSteps
<1> QED
  BY <1>1, <1>2, FaucetInvariant, PTL DEF Spec, GrantsAreKept, Promise!Spec
=============================================================================
