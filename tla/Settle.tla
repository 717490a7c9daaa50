------------------------------- MODULE Settle -------------------------------
(***************************************************************************)
(* The money path of the facilitator: the POST /settle handlers that relay *)
(* one payer-signed transaction, the row the inline settle store keeps for *)
(* it, and the participants that sequence it.                              *)
(*                                                                         *)
(* Everything here is about ONE prepared transaction.  The store is keyed  *)
(* by the transaction's recomputed hash and the participants deduplicate   *)
(* and archive its inputs, so handlers of different transactions share     *)
(* only the rate limiter and the circuit breaker, whose early refusals are *)
(* the action TurnAway.                                                    *)
(*                                                                         *)
(* A step of a handler is the code between two awaits.                     *)
(***************************************************************************)
EXTENDS Integers, Sequences

CONSTANTS
    Handlers,           \* concurrent /settle requests for this transaction
    Participants,       \* participants the router may send the payer to
    MarkMode,           \* settleDispatchMark: "off", "observe" or "enforce"
    Transient,          \* rejections after which the same bytes may commit
    MaxSubmissions,     \* bound: submissions one participant ever accepts
    DbMayFail,          \* may a store call fail (and fail open)?
    ValidationMayRefuse,\* may a lookup of the validation fail or lapse?
    ConfirmMayFail      \* may every read of the committed update fail?

Reasons == {"contention", "insufficient", "traffic", "other"}

ASSUME HandlersAssumption == Handlers # {}
ASSUME ParticipantsAssumption == Participants # {}
ASSUME ModeAssumption == MarkMode \in {"off", "observe", "enforce"}
ASSUME TransientAssumption == Transient \subseteq Reasons
ASSUME BoundAssumption == MaxSubmissions \in Nat
ASSUME FaultAssumption ==
    {DbMayFail, ValidationMayRefuse, ConfirmMayFail} \subseteq BOOLEAN

NoOffset == -1
NoHost == "no participant"
ASSUME NoHostAssumption == NoHost \notin Participants

(***************************************************************************)
(* The age of the transaction: before executeBefore less the validator's   *)
(* margin, within the margin, past executeBefore, past the retention of    *)
(* the store.                                                              *)
(***************************************************************************)
Fresh == 0
Margin == 1
Expired == 2
Aged == 3

VARIABLES
    mark,       \* the row of inline_settles for this transaction
    stream,     \* per participant: the completions of this submissionId
    inflight,   \* participants that accepted it and have not sequenced it
    outcome,    \* what the ledger did: see Outcomes
    clock,      \* the age of the transaction
    pc,         \* per handler: the await it is at
    begin,      \* per handler: the offset it polls or resolves from
    host,       \* per handler: the participant that offset is local to
    verdict,    \* per handler: the answer it gives once its clear returns
    ans         \* per handler: the answer of its last request

ledger == <<stream, inflight, outcome>>
local == <<pc, begin, host, verdict, ans>>
vars == <<mark, stream, inflight, outcome, clock, pc, begin, host, verdict,
          ans>>

(***************************************************************************)
(* "moved": committed and the merchant is paid.  "burned": committed, but  *)
(* no funds moved (a pending instruction).  "dead": refused for good.      *)
(***************************************************************************)
Outcomes == {"none", "moved", "burned", "dead"}
Committed == outcome \in {"moved", "burned"}

Marks == [state : {"none", "dispatched", "settled"},
          begin : Nat \cup {NoOffset},
          host  : Participants \cup {NoHost}]
NoMark == [state |-> "none", begin |-> NoOffset, host |-> NoHost]
Settled == [state |-> "settled", begin |-> NoOffset, host |-> NoHost]

Completions == {"committed"} \cup Reasons

\* success:false answers of the relay, and among them the two a client may
\* answer with a fresh payment
RepaySafe == {"insufficient_balance", "input_contention"}
RelayRefusals == RepaySafe \cup {"execute_failed", "ledger_error"}
Answers == {"none", "busy", "invalid", "ok", "unknown"} \cup RelayRefusals

Labels == {"idle", "validate", "lookup", "resolve", "reconfirm", "capture",
           "mark", "offset", "submit", "poll", "confirm", "record", "clear",
           "sibling"}

TypeOK ==
    /\ mark \in Marks
    /\ stream \in [Participants -> Seq(Completions)]
    /\ inflight \in SUBSET Participants
    /\ outcome \in Outcomes
    /\ clock \in Fresh..Aged
    /\ pc \in [Handlers -> Labels]
    /\ begin \in [Handlers -> Nat \cup {NoOffset}]
    /\ host \in [Handlers -> Participants \cup {NoHost}]
    /\ verdict \in [Handlers -> Answers]
    /\ ans \in [Handlers -> Answers]

Init ==
    /\ mark = NoMark
    /\ stream = [r \in Participants |-> << >>]
    /\ inflight = {}
    /\ outcome = "none"
    /\ clock = Fresh
    /\ pc = [p \in Handlers |-> "idle"]
    /\ begin = [p \in Handlers |-> NoOffset]
    /\ host = [p \in Handlers |-> NoHost]
    /\ verdict = [p \in Handlers |-> "none"]
    /\ ans = [p \in Handlers |-> "none"]

-----------------------------------------------------------------------------
(* What a handler does between two awaits.                                 *)

At(p, label) == pc[p] = label

\* move on, keeping the request's locals
Goto(p, label) ==
    /\ pc' = [pc EXCEPT ![p] = label]
    /\ UNCHANGED <<begin, host, verdict, ans>>

\* send the reply and forget the request's locals
Answer(p, a) ==
    /\ pc' = [pc EXCEPT ![p] = "idle"]
    /\ begin' = [begin EXCEPT ![p] = NoOffset]
    /\ host' = [host EXCEPT ![p] = NoHost]
    /\ verdict' = [verdict EXCEPT ![p] = "none"]
    /\ ans' = [ans EXCEPT ![p] = a]

\* inconclusive(): 503 under enforce, the pre-guard answer otherwise
Inconclusive(p) ==
    Answer(p, IF MarkMode = "enforce" THEN "unknown" ELSE "ledger_error")

\* clearDispatched first, then failed(a)
ClearThenFail(p, a) ==
    /\ pc' = [pc EXCEPT ![p] = "clear"]
    /\ verdict' = [verdict EXCEPT ![p] = a]
    /\ UNCHANGED <<begin, host, ans>>

\* the catch arm around execute, for an error that carries a verdict
Refused(p, reason) ==
    \/ reason = "insufficient" /\ ClearThenFail(p, "insufficient_balance")
    \/ reason = "contention" /\ ClearThenFail(p, "input_contention")
    \/ reason = "traffic" /\ Answer(p, "ledger_error")
    \/ reason = "other" /\ Answer(p, "execute_failed")

\* a mutant: a lost answer taken for a failed execute, and the mark dropped
NeverAnsweredClears(p) == ClearThenFail(p, "execute_failed")

\* a mutant: the classification runs whatever the mode
NeverAnsweredClassified(p) ==
    \E a \in {"ledger_error", "execute_failed"} : Answer(p, a)

\* the same arm when no verdict arrived (answerNeverArrived).  Off and
\* observe fall through to the classification, where the text of our own
\* 45s abort reads as a traffic error and any other loss does not.
NeverAnswered(p) ==
    IF MarkMode = "enforce"
    THEN Answer(p, "unknown")
    ELSE \E a \in {"ledger_error", "execute_failed"} : Answer(p, a)

\* the outcomes of one store call: it works, or it fails and fails open
DbWorks == IF DbMayFail THEN BOOLEAN ELSE {TRUE}

-----------------------------------------------------------------------------
(* The handler.                                                            *)

\* breaker open, malformed body, or over the per-payment or per-IP cap
TurnAway(p) ==
    /\ At(p, "idle")
    /\ Answer(p, "busy")
    /\ UNCHANGED <<mark, ledger, clock>>

Receive(p) ==
    /\ At(p, "idle")
    /\ pc' = [pc EXCEPT ![p] = "validate"]
    /\ ans' = [ans EXCEPT ![p] = "none"]
    /\ UNCHANGED <<begin, host, verdict, mark, ledger, clock>>

\* runValidation accepts only before the deadline's margin, and only with a
\* live preapproval; both are checked before the row is looked up
Accept(p) ==
    /\ At(p, "validate")
    /\ clock = Fresh
    /\ Goto(p, "lookup")
    /\ UNCHANGED <<mark, ledger, clock>>

Reject(p) ==
    /\ At(p, "validate")
    /\ clock # Fresh \/ ValidationMayRefuse
    /\ Answer(p, "invalid")
    /\ UNCHANGED <<mark, ledger, clock>>

\* past the per-payer and the global budget, or 429
Charge(p) ==
    \/ Goto(p, IF MarkMode = "off" THEN "offset" ELSE "capture")
    \/ Answer(p, "busy")

\* a mutant: a dispatched row decides in observe too
LookupAnyMode(p) ==
    /\ At(p, "lookup")
    /\ CASE mark.state = "settled" -> Answer(p, "ok")
         [] mark.state = "dispatched" -> Answer(p, "unknown")
         [] OTHER -> Charge(p)
    /\ UNCHANGED <<mark, ledger, clock>>

\* getRecord, and the idempotency decision on what it says
Lookup(p) ==
    /\ At(p, "lookup")
    /\ \E works \in DbWorks :
        LET state == IF works THEN mark.state ELSE "none" IN
        \/ /\ state = "settled"
           /\ Answer(p, "ok")
        \/ /\ state = "dispatched"
           /\ MarkMode = "enforce"
           /\ IF mark.begin = NoOffset
              THEN Answer(p, "unknown")
              ELSE /\ pc' = [pc EXCEPT ![p] = "resolve"]
                   /\ begin' = [begin EXCEPT ![p] = mark.begin]
                   /\ host' = [host EXCEPT ![p] = mark.host]
                   /\ UNCHANGED <<verdict, ans>>
        \/ /\ state = "none" \/ (state = "dispatched" /\ MarkMode # "enforce")
           /\ Charge(p)
    /\ UNCHANGED <<mark, ledger, clock>>

\* the completion findCompletion returns: the first one for the submissionId
\* past the offset, whichever submission of these bytes it belongs to
Found(p) == begin[p] < Len(stream[host[p]])
\* (a mutant: the first one there is)
EarliestCompletion(p) == stream[host[p]][1]
FirstCompletion(p) == stream[host[p]][begin[p] + 1]

\* resolveDispatched finds the completion
ResolveFinds(p) ==
    /\ At(p, "resolve")
    /\ Found(p)
    /\ IF FirstCompletion(p) = "committed"
       THEN Goto(p, "reconfirm")
       ELSE ClearThenFail(p, "execute_failed")
    /\ UNCHANGED <<mark, ledger, clock>>

\* a mutant: no completion read as never submitted
ResolveAbsence(p) ==
    /\ At(p, "resolve")
    /\ ClearThenFail(p, "execute_failed")
    /\ UNCHANGED <<mark, ledger, clock>>

\* resolveDispatched finds nothing, or the stream could not be read
ResolveUnknown(p) ==
    /\ At(p, "resolve")
    /\ Answer(p, "unknown")
    /\ UNCHANGED <<mark, ledger, clock>>

\* confirmTransferred: what the update says, or TRUE when no read succeeds
Transferred ==
    {outcome = "moved"} \cup (IF ConfirmMayFail THEN {TRUE} ELSE {})

\* the confirm of a resolved submission
Reconfirm(p) ==
    /\ At(p, "reconfirm")
    /\ \E transferred \in Transferred :
         IF transferred THEN Goto(p, "record") ELSE Answer(p, "unknown")
    /\ UNCHANGED <<mark, ledger, clock>>

\* ledgerEndFor: the router names a participant and its ledger end is read;
\* a failed read leaves both undefined and is not fatal
Capture(p) ==
    /\ At(p, "capture")
    /\ pc' = [pc EXCEPT ![p] = "mark"]
    /\ \/ \E r \in Participants :
            /\ host' = [host EXCEPT ![p] = r]
            /\ begin' = [begin EXCEPT ![p] = Len(stream[r])]
       \/ UNCHANGED <<host, begin>>
    /\ UNCHANGED <<verdict, ans, mark, ledger, clock>>

\* a mutant: the insert's conflict is not looked at
RecordUnchecked(p) ==
    /\ At(p, "mark")
    /\ mark' = IF mark.state = "none"
               THEN [state |-> "dispatched",
                     begin |-> begin[p], host |-> host[p]]
               ELSE mark
    /\ Goto(p, IF begin[p] = NoOffset THEN "offset" ELSE "submit")
    /\ UNCHANGED <<ledger, clock>>

\* a mutant: one before the offset, whether or not it was read
RecordOneBefore(p) ==
    /\ At(p, "mark")
    /\ mark' = IF mark.state = "none"
               THEN [state |-> "dispatched",
                     begin |-> begin[p] - 1, host |-> host[p]]
               ELSE mark
    /\ Goto(p, IF begin[p] = NoOffset THEN "offset" ELSE "submit")
    /\ UNCHANGED <<ledger, clock>>

\* recordDispatched: INSERT ... ON CONFLICT DO NOTHING
RecordDispatched(p) ==
    /\ At(p, "mark")
    /\ \E works \in DbWorks :
        LET first == ~works \/ mark.state = "none" IN
        /\ mark' = IF works /\ mark.state = "none"
                   THEN [state |-> "dispatched",
                         begin |-> begin[p], host |-> host[p]]
                   ELSE mark
        /\ Goto(p, IF ~first /\ MarkMode = "enforce" THEN "sibling"
                   ELSE IF begin[p] = NoOffset THEN "offset" ELSE "submit")
    /\ UNCHANGED <<ledger, clock>>

\* execute without a recorded offset reads its own before it submits
ReadOffset(p) ==
    /\ At(p, "offset")
    /\ \/ \E r \in Participants :
            /\ pc' = [pc EXCEPT ![p] = "submit"]
            /\ host' = [host EXCEPT ![p] = r]
            /\ begin' = [begin EXCEPT ![p] = Len(stream[r])]
            /\ UNCHANGED <<verdict, ans>>
       \/ NeverAnswered(p)
       \/ Refused(p, "other")
    /\ UNCHANGED <<mark, ledger, clock>>

(***************************************************************************)
(* A participant's refusal of these bytes.  Once they committed, or while  *)
(* another participant holds their inputs, it says nothing about them;     *)
(* otherwise they can never commit, unless the reason is a Transient one.  *)
(***************************************************************************)
Refusal(r, reason) ==
    outcome' = IF Committed \/ inflight \ {r} # {} \/ reason \in Transient
               THEN outcome
               ELSE "dead"

CanAccept(r) == r \notin inflight /\ Len(stream[r]) < MaxSubmissions

\* POST /execute answers 200: the submission will be sequenced
SubmitAccepted(p) ==
    /\ At(p, "submit")
    /\ CanAccept(host[p])
    /\ inflight' = inflight \cup {host[p]}
    /\ Goto(p, "poll")
    /\ UNCHANGED <<mark, stream, outcome, clock>>

\* POST /execute answers with a refusal; nothing is sequenced, so no
\* completion is ever published
SubmitRefused(p) ==
    /\ At(p, "submit")
    /\ host[p] \notin inflight
    /\ \E reason \in Reasons :
        /\ Refusal(host[p], reason)
        /\ Refused(p, reason)
    /\ UNCHANGED <<mark, stream, inflight, clock>>

\* 409 SUBMISSION_ALREADY_IN_FLIGHT: wait for the sibling that submitted
SubmitDeduped(p) ==
    /\ At(p, "submit")
    /\ host[p] \in inflight
    /\ Goto(p, "sibling")
    /\ UNCHANGED <<mark, ledger, clock>>

\* the answer is lost, and perhaps only the answer
SubmitLost(p) ==
    /\ At(p, "submit")
    /\ \/ UNCHANGED inflight
       \/ CanAccept(host[p]) /\ inflight' = inflight \cup {host[p]}
    /\ NeverAnswered(p)
    /\ UNCHANGED <<mark, stream, outcome, clock>>

\* pollCompletionUpdateId reads a completion
PollFinds(p) ==
    /\ At(p, "poll")
    /\ Found(p)
    /\ IF FirstCompletion(p) = "committed"
       THEN Goto(p, "confirm")
       ELSE Refused(p, FirstCompletion(p))
    /\ UNCHANGED <<mark, ledger, clock>>

\* 20 reads without one: SubmissionOutcomeUnknownError
PollGivesUp(p) ==
    /\ At(p, "poll")
    /\ NeverAnswered(p)
    /\ UNCHANGED <<mark, ledger, clock>>

\* a mutant: a completion taken for a payment
ConfirmTrusting(p) ==
    /\ At(p, "confirm")
    /\ Goto(p, "record")
    /\ UNCHANGED <<mark, ledger, clock>>

\* confirmTransferred on the live path, then the funds-moved gate
Confirm(p) ==
    /\ At(p, "confirm")
    /\ \E transferred \in Transferred :
         IF transferred THEN Goto(p, "record")
                        ELSE ClearThenFail(p, "execute_failed")
    /\ UNCHANGED <<mark, ledger, clock>>

\* a mutant: an insert that gives way to the dispatched row
RecordSettledInsert(p) ==
    /\ At(p, "record")
    /\ mark' = IF mark.state = "none" THEN Settled ELSE mark
    /\ Answer(p, "ok")
    /\ UNCHANGED <<ledger, clock>>

\* recordSettled: upsert unless an updateId is already there; the answer
\* does not depend on the write
RecordSettled(p) ==
    /\ At(p, "record")
    /\ \E works \in DbWorks : mark' = IF works THEN Settled ELSE mark
    /\ Answer(p, "ok")
    /\ UNCHANGED <<ledger, clock>>

\* clearDispatched: DELETE ... WHERE update_id IS NULL, whoever wrote it
ClearDispatched(p) ==
    /\ At(p, "clear")
    /\ \E works \in DbWorks :
         mark' = IF works /\ mark.state = "dispatched" THEN NoMark ELSE mark
    /\ Answer(p, verdict[p])
    /\ UNCHANGED <<ledger, clock>>

\* a mutant: any row of the sibling's will do
SiblingAnswersMarked(p) ==
    /\ At(p, "sibling")
    /\ mark.state # "none"
    /\ Answer(p, "ok")
    /\ UNCHANGED <<mark, ledger, clock>>

\* answerFromSibling: one of the 12 reads finds the sibling's record
SiblingAnswers(p) ==
    /\ At(p, "sibling")
    /\ mark.state = "settled"
    /\ Answer(p, "ok")
    /\ UNCHANGED <<mark, ledger, clock>>

\* none of them did
SiblingGivesUp(p) ==
    /\ At(p, "sibling")
    /\ Inconclusive(p)
    /\ UNCHANGED <<mark, ledger, clock>>

HandlerStep(p) ==
    \/ Accept(p) \/ Reject(p) \/ Lookup(p)
    \/ ResolveFinds(p) \/ ResolveUnknown(p) \/ Reconfirm(p)
    \/ Capture(p) \/ RecordDispatched(p) \/ ReadOffset(p)
    \/ SubmitAccepted(p) \/ SubmitRefused(p) \/ SubmitDeduped(p)
    \/ SubmitLost(p)
    \/ PollFinds(p) \/ PollGivesUp(p) \/ Confirm(p)
    \/ RecordSettled(p) \/ ClearDispatched(p)
    \/ SiblingAnswers(p) \/ SiblingGivesUp(p)

-----------------------------------------------------------------------------
(* The ledger, the clock, the sweep and the server's own crashes.          *)

\* the bytes commit at most once, and not past executeBefore
SequenceCommit(r) ==
    /\ r \in inflight
    /\ outcome = "none"
    /\ clock < Expired
    /\ outcome' \in {"moved", "burned"}
    /\ stream' = [stream EXCEPT ![r] = Append(@, "committed")]
    /\ inflight' = inflight \ {r}
    /\ UNCHANGED <<mark, clock, local>>

SequenceReject(r) ==
    /\ r \in inflight
    /\ \E reason \in Reasons :
        /\ Refusal(r, reason)
        /\ stream' = [stream EXCEPT ![r] = Append(@, reason)]
    /\ inflight' = inflight \ {r}
    /\ UNCHANGED <<mark, clock, local>>

\* 24 hours are longer than any handler runs or any submission is pending
Tick ==
    /\ clock < Aged
    /\ clock = Expired => inflight = {} /\ \A p \in Handlers : At(p, "idle")
    /\ clock' = clock + 1
    /\ UNCHANGED <<mark, ledger, local>>

\* a mutant: a retention no longer than the transaction itself
SweepEarly ==
    /\ clock >= Expired
    /\ mark # NoMark
    /\ mark' = NoMark
    /\ UNCHANGED <<ledger, clock, local>>

\* the 60s timer; only a row older than 24h goes
Sweep ==
    /\ clock = Aged
    /\ mark # NoMark
    /\ mark' = NoMark
    /\ UNCHANGED <<ledger, clock, local>>

\* the process dies: every request is lost, the table is not
Crash ==
    /\ \E p \in Handlers : ~At(p, "idle")
    /\ pc' = [p \in Handlers |-> "idle"]
    /\ begin' = [p \in Handlers |-> NoOffset]
    /\ host' = [p \in Handlers |-> NoHost]
    /\ verdict' = [p \in Handlers |-> "none"]
    /\ ans' = [p \in Handlers |-> "none"]
    /\ UNCHANGED <<mark, ledger, clock>>

Environment ==
    \/ \E r \in Participants : SequenceCommit(r) \/ SequenceReject(r)
    \/ Tick \/ Sweep \/ Crash

Next ==
    \/ \E p \in Handlers : TurnAway(p) \/ Receive(p) \/ HandlerStep(p)
    \/ Environment

Spec == Init /\ [][Next]_vars

(***************************************************************************)
(* Fairness of a server that runs, a ledger that sequences, and a merchant *)
(* that keeps retrying: a handler never stays at an await for ever, and a  *)
(* request, a validation, a completion read and a write that could succeed *)
(* again and again do succeed at last.                                     *)
(***************************************************************************)
Fairness ==
    /\ \A r \in Participants :
         WF_vars(SequenceCommit(r) \/ SequenceReject(r))
    /\ \A p \in Handlers :
         /\ WF_vars(HandlerStep(p))
         /\ SF_vars(Receive(p))
         /\ SF_vars(Accept(p))
         /\ SF_vars(Lookup(p))
         /\ SF_vars(ResolveFinds(p))
         /\ SF_vars(Reconfirm(p))
         /\ SF_vars(RecordSettled(p))

FairSpec == Spec /\ Fairness

-----------------------------------------------------------------------------
(* Properties.                                                             *)

\* the merchant may already have been paid, or may yet be
MayPay == outcome = "moved" \/ (outcome = "none" /\ inflight # {})

\* p replies in this step, and the reply is one of these
Replies(p, answers) ==
    /\ ~At(p, "idle")
    /\ pc'[p] = "idle"
    /\ ans'[p] \in answers

(***************************************************************************)
(* success:true is answered, from the live path, from the record or from a *)
(* sibling's record, only for a transaction that paid the merchant, and    *)
(* the store records only such a one.  The one exception is the code's     *)
(* own: a commit whose update could not be read is trusted.                *)
(***************************************************************************)
Paid == outcome = "moved" \/ (ConfirmMayFail /\ outcome = "burned")
SuccessIsPaid ==
    (mark.state = "settled" \/ \E p \in Handlers : ans[p] = "ok") => Paid

(***************************************************************************)
(* While the transaction may have paid, its row is there to stop a second  *)
(* relay: no clear, crash or race removes the mark of a doubt.  Past the   *)
(* retention it may go, because the bytes can no longer validate.          *)
(***************************************************************************)
DoubtIsMarked == MayPay /\ clock # Aged => mark.state # "none"

(***************************************************************************)
(* "Relaying again is the one thing we must not do": no handler posts the  *)
(* bytes while an earlier post may pay.                                    *)
(***************************************************************************)
RelaysInDoubt ==
    /\ MayPay
    /\ \E p \in Handlers :
         At(p, "submit") /\ ~At(p, "idle")' /\ ~At(p, "submit")'
NeverRelaysInDoubt == [][~RelaysInDoubt]_vars

(***************************************************************************)
(* A relay that is answered success:false did not pay and is not about to: *)
(* the two answers that invite a fresh payment, and the two that end the   *)
(* purchase, are never given for a transaction that pays.                  *)
(***************************************************************************)
RelayRefusalIsTrue ==
    [][\A p \in Handlers : Replies(p, RelayRefusals) => ~MayPay']_vars

(***************************************************************************)
(* The documented promise of enforce: while the outcome of a dispatched    *)
(* submission is open, every reply is the 503 that makes the merchant      *)
(* retry the same envelope, or the refusal at the door that does too.      *)
(***************************************************************************)
DoubtIsAnswered503 ==
    [][\A p \in Handlers :
         Replies(p, {"invalid"} \cup RelayRefusals) =>
             ~(mark.state = "dispatched" /\ MayPay)]_vars

(***************************************************************************)
(* A payment whose answer was lost is found again: if the merchant retries *)
(* before the deadline, the mark becomes the settled record.               *)
(***************************************************************************)
Recovers ==
    (outcome = "moved" /\ mark.state = "dispatched"
                       /\ mark.begin # NoOffset)
        ~> (mark.state = "settled" \/ clock # Fresh)
=============================================================================
