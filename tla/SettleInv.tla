------------------------------ MODULE SettleInv ------------------------------
(***************************************************************************)
(* The inductive invariants behind the safety properties of Settle: TLC    *)
(* checks them on small instances, SettleProofs proves them for all.       *)
(***************************************************************************)
EXTENDS Settle

-----------------------------------------------------------------------------
(* Types.  A submission goes to the participant a handler remembers, so    *)
(* TypeOK needs that an offset never stands without the participant it is  *)
(* local to, in the row or in a handler.                                   *)

MarkOK == /\ mark \in Marks
          /\ mark.begin # NoOffset => mark.host \in Participants

LedgerOK == /\ stream \in [Participants -> Seq(Completions)]
            /\ inflight \in SUBSET Participants
            /\ outcome \in Outcomes
            /\ clock \in Fresh..Aged

\* the labels at which a handler has an offset to read completions from
Reading == {"submit", "poll", "resolve"}

LocalOK == /\ pc \in [Handlers -> Labels]
           /\ begin \in [Handlers -> Nat \cup {NoOffset}]
           /\ host \in [Handlers -> Participants \cup {NoHost}]
           /\ verdict \in [Handlers -> Answers]
           /\ ans \in [Handlers -> Answers]
           /\ \A p \in Handlers :
                /\ begin[p] # NoOffset => host[p] \in Participants
                /\ pc[p] \in Reading => begin[p] # NoOffset

TypeInv == MarkOK /\ LedgerOK /\ LocalOK

-----------------------------------------------------------------------------
(* Success.  A handler that answers ok got there from a completion it read *)
(* and an update it confirmed, or from a row such a handler wrote.         *)

LedgerPaid ==
    \A r \in Participants : \A i \in 1..Len(stream[r]) :
        stream[r][i] = "committed" => Committed

LocalPaid ==
    \A p \in Handlers :
        /\ ans[p] = "ok" \/ pc[p] = "record" => Paid
        /\ verdict[p] # "ok"
        /\ pc[p] \in {"confirm", "reconfirm"} => Committed

MarkPaid == mark.state = "settled" => Paid

PaidInv == LedgerPaid /\ LocalPaid /\ MarkPaid

-----------------------------------------------------------------------------
(* Enforce, with a database that answers and a ledger whose refusals are   *)
(* final (Transient = {}).  As long as the bytes paid or still could, one  *)
(* handler at most has relayed them, its row stands, and every completion  *)
(* there is says they committed.                                           *)

Alive == outcome \in {"none", "moved"}

\* between the insert of the row and the outcome of the submission
Relaying == {"offset", "submit", "poll"}

AgedIsQuiet ==
    clock = Aged => /\ inflight = {}
                    /\ \A p \in Handlers : pc[p] \in {"idle", "validate"}

ClearsOnlyTheDead == \A p \in Handlers : pc[p] = "clear" => ~Alive

OneSubmission ==
    /\ \A r \in Participants : \A i \in 1..Len(stream[r]) :
         stream[r][i] = "committed"
    /\ \A r, s \in inflight : r = s
    /\ outcome = "moved" => inflight = {}

OneRelay ==
    /\ \A p \in Handlers :
         /\ pc[p] \in Relaying => mark.state # "none"
         /\ pc[p] \in {"offset", "submit"} => ~MayPay
    /\ \A p, q \in Handlers :
         pc[p] \in Relaying /\ pc[q] \in Relaying => p = q

EnforceInv ==
    /\ AgedIsQuiet
    /\ ClearsOnlyTheDead
    /\ Alive => OneSubmission /\ DoubtIsMarked /\ OneRelay
=============================================================================
