------------------------------ MODULE FaucetInv ------------------------------
(***************************************************************************)
(* The inductive invariant behind the faucet's promise: TLC checks it on   *)
(* small instances, FaucetProofs proves it for all.                        *)
(***************************************************************************)
EXTENDS Faucet

Ids == 1..Len(subs)

\* the transfer was made, or may still be
Live(i) == subs[i].state # "refused"

\* between the reservation and the last word to the store
Holding == {"pay", "queued", "answer", "mark", "release"}
Holds(h) == req[h].pc \in Holding

\* under the lock, the statement's snapshot lacks no row of the table
SnapshotHolds ==
    \A h \in Requests : At(h, "insert") =>
        /\ lock = h
        /\ \A p \in Parties : rows[p] # NoRow => snap[h][p] = rows[p]

\* payouts take turns: who awaits an answer is at the head of the chain
ChainHolds ==
    /\ \A i \in 1..Len(chain) : req[chain[i]].pc \in {"queued", "answer"}
    /\ \A i, j \in 1..Len(chain) : chain[i] = chain[j] => i = j
    /\ \A h \in Requests : At(h, "answer") => Running(h)

\* a reservation has one request paying it
HoldersHold ==
    /\ \A h \in Requests : ~At(h, "idle") => req[h].party \in Parties
    /\ \A h \in Requests : Holds(h) => rows[req[h].party] # NoRow
    /\ \A h, g \in Requests :
         Holds(h) /\ Holds(g) /\ req[h].party = req[g].party => h = g

\* no party is paid twice, or without its reservation
LiveHolds ==
    /\ \A i \in Ids : Live(i) => rows[subs[i].party] # NoRow
    /\ \A i, j \in Ids :
         Live(i) /\ Live(j) /\ subs[i].party = subs[j].party => i = j

\* who may submit, or give the reservation back, has nothing in flight; who
\* awaits an answer has at most that
PayersHold ==
    /\ \A h \in Requests, i \in Ids :
         /\ req[h].pc \in {"pay", "queued", "release"}
         /\ Live(i)
         => subs[i].party # req[h].party
    /\ \A h \in Requests : At(h, "answer") =>
         /\ req[h].sent \in Ids
         /\ Sub(h).party = req[h].party
         /\ \A i \in Ids :
              Live(i) /\ subs[i].party = req[h].party => i = req[h].sent

FaucetHolds ==
    /\ SnapshotHolds
    /\ ChainHolds
    /\ HoldersHold
    /\ LiveHolds
    /\ PayersHold
=============================================================================
