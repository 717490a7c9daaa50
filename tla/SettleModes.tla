----------------------------- MODULE SettleModes -----------------------------
(***************************************************************************)
(* The rollout of the dispatch mark: off, then observe, then enforce.  The *)
(* promise of observe is that it records the mark "without changing        *)
(* responses", so every behaviour of observe must be one of off once the   *)
(* marks are hidden.                                                       *)
(***************************************************************************)
EXTENDS Settle

\* off neither writes a mark nor reads one
OffMark == IF mark.state = "settled" THEN Settled ELSE NoMark

\* off reads its offset inside execute; observe has done so when the offset
\* it captured is defined, and writes the mark while off stands still
OffLabel(p) ==
    CASE pc[p] = "capture" -> "offset"
      [] pc[p] = "mark" -> IF begin[p] = NoOffset THEN "offset" ELSE "submit"
      [] OTHER -> pc[p]

Off == INSTANCE Settle WITH
           MarkMode <- "off",
           mark <- OffMark,
           pc <- [p \in Handlers |-> OffLabel(p)]

(***************************************************************************)
(* Observe answers every request as off could have, with the same ledger   *)
(* behind it: the same relays, the same refusals, the same settled record. *)
(***************************************************************************)
ObserveIsOff == Off!Spec
=============================================================================
