----------------------------- MODULE PrepareBudget -----------------------------
(***************************************************************************)
(* The budget of pay/prepare calls that come to nothing: a call looks at   *)
(* it, awaits the ledger, and charges it when the payer's own holdings are *)
(* the reason of the refusal.                                              *)
(***************************************************************************)
EXTENDS Limits, FiniteSets, TLC

CONSTANTS
    Calls,      \* concurrent calls
    Pairs,      \* the pairs of a party named in a body and an address
    WasteMax,   \* wasteMax
    WindowMs,   \* wasteWindowMs
    MaxTime     \* bound: the clock

VARIABLES
    clock,
    waste,      \* prepareWasteLimiter
    call,       \* per call: the pair it came with, while it awaits the ledger
    wasted      \* history: per pair, when it wasted calls of the window

vars == <<clock, waste, call, wasted>>

Init ==
    /\ clock = 0
    /\ waste = NewLimiter(WindowMs)
    /\ call = [c \in Calls |-> << >>]
    /\ wasted = [pair \in Pairs |-> << >>]

\* peek: whether the pair has budget left; nothing is charged
Peek(pair) ==
    WasteMax > 0 => Len(Prune(TimesOf(waste, pair), clock, WindowMs)) < WasteMax

\* a pair with budget left goes on to the ledger; the others are refused
Ask(c, pair) ==
    /\ call[c] = << >>
    /\ Peek(pair)
    /\ call' = [call EXCEPT ![c] = pair]
    /\ UNCHANGED <<clock, waste, wasted>>

Answer(c) ==
    /\ call[c] # << >>
    /\ call' = [call EXCEPT ![c] = << >>]
    /\ UNCHANGED clock

\* a mutant: the budget is the party's, whoever names it
RefuseParty(c) ==
    /\ Answer(c)
    /\ LET mine == {pair \in Pairs : pair[1] = call[c][1]}
           full == Append(Prune(TimesOf(waste, call[c]), clock, WindowMs), clock)
       IN  waste' = [waste EXCEPT !.perKey = [pair \in mine |-> full] @@ @]
    /\ wasted' = [wasted EXCEPT ![call[c]] = Append(@, clock)]

\* the holdings are insufficient, or must be merged first: the pair is charged
Refuse(c) ==
    /\ Answer(c)
    /\ waste' = AllowKeys(waste, << [key |-> call[c], max |-> WasteMax] >>,
                          clock, WindowMs).limiter
    /\ wasted' = [wasted EXCEPT ![call[c]] = Append(@, clock)]

\* the transfer is prepared, or the failure is ours: nothing is charged
Done(c) ==
    /\ Answer(c)
    /\ UNCHANGED <<waste, wasted>>

Tick ==
    /\ clock < MaxTime
    /\ clock' = clock + 1
    /\ wasted' = [pair \in Pairs |-> Prune(wasted[pair], clock', WindowMs)]
    /\ UNCHANGED <<waste, call>>

Next ==
    \/ \E c \in Calls :
         (\E pair \in Pairs : Ask(c, pair)) \/ Refuse(c) \/ Done(c)
    \/ Tick

Spec == Init /\ [][Next]_vars

Wasted(pair) == Len(wasted[pair])

(***************************************************************************)
(* A pair that is refused has wasted its budget itself, from its own       *)
(* address; and what it wastes in a window stays within one budget more,   *)
(* for each call it has in flight, although the budget is looked at before *)
(* the ledger is read and charged after.                                   *)
(***************************************************************************)
WasteIsOnesOwn ==
    WasteMax > 0 =>
      \A pair \in Pairs :
        /\ ~Peek(pair) => Wasted(pair) >= WasteMax
        /\ Wasted(pair) < (WasteMax + 1) * Cardinality(Calls)
=============================================================================
