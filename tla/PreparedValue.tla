---------------------------- MODULE PreparedValue ----------------------------
(* The wire and value layers of core/src/prepared-transfer.ts: how          *)
(* verify-before-sign reads a Daml Value out of the bytes of a prepared     *)
(* transaction, and how the participant that executes them reads the same   *)
(* bytes.                                                                   *)
(*                                                                          *)
(* A protobuf field that is not repeated may still occur several times on   *)
(* the wire; such a field is the sequence of its occurrences here.  A Value *)
(* is a oneof: the sequence of the members that its message sets, each with *)
(* a flag `wide` for a tag encoded with more than 32 bits.                  *)
EXTENDS Integers, Sequences, SequencesExt

CONSTANTS
    MaxDepth,       \* MAX_DEPTH
    Precision       \* digits of a ledger Decimal after the point

ASSUME BoundsAssumption == MaxDepth \in Nat /\ Precision \in Nat

\* what a reader answers when the code throws, or finds nothing
Undecodable == "undecodable"
Undefined == "undefined"

----------------------------------------------------------------------------
(* Building values: a field that occurs once.                              *)

Member(m, v) == [m |-> m, v |-> v, wide |-> FALSE]
Val(m, v) == <<Member(m, v)>>

Party(p) == Val("party", p)
Text(s) == Val("text", s)
Time(t) == Val("timestamp", t)
Cid(c) == Val("contract_id", c)
Numeric(d) == Val("numeric", d)
None == Val("optional", <<>>)
Some(v) == Val("optional", <<v>>)
List(vs) == Val("list", vs)
Field(label, v) == [label |-> <<label>>, value |-> <<v>>]
Record(fields) == Val("record", fields)
Entry(k, v) == [key |-> <<k>>, value |-> <<v>>]
TextMap(entries) == Val("text_map", entries)
Variant(con, v) == Val("variant", [constructor |-> <<con>>, value |-> <<v>>])

----------------------------------------------------------------------------
(* The validator's reading: anything that two parsers could read           *)
(* differently is refused.                                                 *)

KnownMembers ==
    {"unit", "bool", "int64", "date", "timestamp", "numeric", "party", "text",
     "contract_id", "optional", "list", "text_map", "gen_map", "record",
     "variant", "enum"}

\* the members assertSingleValueMember counts
Counted ==
    {"numeric", "party", "text", "record", "optional", "list", "text_map",
     "gen_map", "variant", "int64", "timestamp"}

Scalars == {"party", "numeric", "text", "int64", "timestamp"}

\* a tag or length beyond 32 bits: the participant truncates it
DecodesMessage(value) == \A i \in DOMAIN value : ~value[i].wide

\* a field that is not repeated occurs at most once
Unique(occ) == Len(occ) <= 1

MembersOf(value, ms) == SelectSeq(value, LAMBDA x : x.m \in ms)

AssertSingleValueMember(value) ==
    DecodesMessage(value) /\ Unique(MembersOf(value, Counted))

\* the payload of member m, as its occurrences (lenFieldUnique)
MemberOf(value, m) == MembersOf(value, {m})
Has(value, m) == AssertSingleValueMember(value) /\ Len(MemberOf(value, m)) = 1
Payload(value, m) == MemberOf(value, m)[1].v

\* leafOf, for a caller that wants one kind of leaf
LeafOf(value, kind) ==
    IF Has(value, kind) THEN Payload(value, kind) ELSE Undecodable

NonEmptyLabels(fields) ==
    SelectSeq(fields, LAMBDA f : f.label # <<>> /\ f.label # <<"">>)

\* recordEntries: Undecodable where it throws, else a sequence of entries
RecordDecodes(value) ==
    /\ Has(value, "record")
    /\ LET fields == Payload(value, "record")
       IN  /\ \A i \in DOMAIN fields :
                 Unique(fields[i].label) /\ Len(fields[i].value) = 1
           /\ IsInjective([i \in DOMAIN NonEmptyLabels(fields) |->
                             NonEmptyLabels(fields)[i].label])

RecordEntries(value) ==
    LET fields == Payload(value, "record")
    IN  [i \in DOMAIN fields |->
            [label |-> IF fields[i].label = <<>> THEN ""
                       ELSE fields[i].label[1],
             value |-> fields[i].value[1]]]

\* entryByDeclOrder (positions from 0): the engine binds by position, so the
\* label must agree with the position and be found nowhere else
Agrees(entries, position, label) ==
    /\ \A i \in DOMAIN entries :
          i # position + 1 => entries[i].label # label
    /\ position < Len(entries) =>
          entries[position + 1].label \in {"", label}

HasEntry(value, position, label) ==
    /\ RecordDecodes(value)
    /\ Agrees(RecordEntries(value), position, label)
    /\ position < Len(RecordEntries(value))

\* a message that sets nothing, for a field that is absent or refused
Empty == <<>>

\* as At, searching the label before trusting the position
ByLabel(value, position, label) ==
    LET entries == RecordEntries(value)
        found == SelectSeq(entries, LAMBDA e : e.label = label)
    IN  IF ~RecordDecodes(value) THEN Empty
        ELSE IF found # <<>> THEN found[1].value
        ELSE IF position < Len(entries) THEN entries[position + 1].value
        ELSE Empty

At(value, position, label) ==
    IF HasEntry(value, position, label)
    THEN RecordEntries(value)[position + 1].value
    ELSE Empty

\* readInstrument
Instrument(value) ==
    [admin |-> LeafOf(At(value, 0, "admin"), "party"),
     id |-> LeafOf(At(value, 1, "id"), "text")]

\* a list of contract ids, element by element
ListOf(value) == IF Has(value, "list") THEN Payload(value, "list") ELSE <<>>

InputHoldingsDecode(value) ==
    /\ Has(value, "list")
    /\ \A i \in DOMAIN ListOf(value) : Has(ListOf(value)[i], "contract_id")

\* the code reads Value.contract_id although it is not a counted member
ContractId(value) ==
    IF Has(value, "contract_id") THEN Payload(value, "contract_id")
    ELSE Undecodable

InputHoldingCids(value) ==
    [i \in DOMAIN ListOf(value) |-> ContractId(ListOf(value)[i])]

\* readMemo: one x402.memo entry in meta.values, or none
MapEntries(value) ==
    IF Has(value, "text_map") THEN Payload(value, "text_map") ELSE <<>>

MemoEntries(meta) ==
    SelectSeq(MapEntries(At(meta, 0, "values")),
              LAMBDA e : e.key = <<"x402.memo">>)

MemoDecodes(meta) ==
    /\ RecordDecodes(meta)
    /\ Agrees(RecordEntries(meta), 0, "values")
    /\ AssertSingleValueMember(At(meta, 0, "values"))
    /\ \A i \in DOMAIN MapEntries(At(meta, 0, "values")) :
          Unique(MapEntries(At(meta, 0, "values"))[i].key)
    /\ \A i \in DOMAIN MemoEntries(meta) :
          /\ Len(MemoEntries(meta)[i].value) = 1
          /\ Has(MemoEntries(meta)[i].value[1], "text")
    /\ Unique(MemoEntries(meta))

Memo(meta) ==
    IF MemoEntries(meta) = <<>> THEN Undefined
    ELSE LeafOf(MemoEntries(meta)[1].value[1], "text")

\* canonicalAmount: short fractions are padded, long ones are kept
Decimal(whole, fraction) == [whole |-> whole, fraction |-> fraction]
CanonicalAmount(d) ==
    Decimal(d.whole,
            d.fraction \o [i \in 1 .. Precision - Len(d.fraction) |-> 0])

Amount(value) ==
    IF Has(value, "numeric") THEN CanonicalAmount(Payload(value, "numeric"))
    ELSE Decimal(-1, <<>>)

\* readTimestampMs, and the raw Time of a self-preapproval
NoTime == -1
TimeOf(value) ==
    IF Has(value, "timestamp") THEN Payload(value, "timestamp") ELSE NoTime

----------------------------------------------------------------------------
(* collectPartyLeaves: every party in a Value, Undecodable in the sequence *)
(* where the walk throws.                                                  *)

RECURSIVE PartyLeaves(_, _)

LeavesAt(occ, depth) ==
    CASE occ = <<>>    -> <<>>
      [] Len(occ) > 1  -> <<Undecodable>>
      [] OTHER         -> PartyLeaves(occ[1], depth + 1)

LeavesOfAll(s, depth) == FlattenSeq([i \in DOMAIN s |-> LeavesAt(s[i], depth)])

PartyLeaves(value, depth) ==
    LET counted == MembersOf(value, Counted)
        v == counted[1].v
    IN  IF \/ depth > MaxDepth
           \/ \E i \in DOMAIN value : value[i].m \notin KnownMembers
           \/ ~AssertSingleValueMember(value)
        THEN <<Undecodable>>
        ELSE IF counted = <<>> THEN <<>>
        ELSE CASE counted[1].m = "party" -> <<v>>
               [] counted[1].m \in Scalars \ {"party"} -> <<>>
               [] counted[1].m = "record" ->
                    LeavesOfAll([i \in DOMAIN v |-> v[i].value], depth)
               [] counted[1].m = "list" ->
                    LeavesOfAll([i \in DOMAIN v |-> <<v[i]>>], depth)
               [] counted[1].m = "optional" -> LeavesAt(v, depth)
               [] counted[1].m = "variant" -> LeavesAt(v.value, depth)
               [] counted[1].m = "gen_map" ->
                    LeavesOfAll([i \in DOMAIN v |-> v[i].key], depth)
                      \o LeavesOfAll([i \in DOMAIN v |-> v[i].value], depth)
               [] counted[1].m = "text_map" ->
                    LeavesOfAll([i \in DOMAIN v |-> v[i].value], depth)

\* collectGlobalKeyWithMaintainersParties, for an optional contract key
KeyParties(key) ==
    IF Len(key) > 1 THEN <<Undecodable>>
    ELSE IF key = <<>> THEN <<>>
    ELSE key[1].maintainers \o LeavesAt(key[1].key, 0)

----------------------------------------------------------------------------
(* The participant's reading (a spec-conformant protobuf parser and the    *)
(* Daml engine): the last occurrence of a field or oneof member wins, a    *)
(* tag is truncated to 32 bits, records bind by position.                  *)

Latest(occ) == IF occ = <<>> THEN <<>> ELSE <<Last(occ)>>

\* a value of another type than m is ill-typed: the engine executes nothing
WellTyped(value, m) == value # <<>> /\ Last(value).m = m
Executed(value) == Last(value).v

\* the occurrences of the part of a value at a position (from 0)
Part(member, position) ==
    LET v == member.v
    IN  CASE member.m = "record" /\ position < Len(v) -> v[position + 1].value
          [] member.m = "list" /\ position < Len(v) -> <<v[position + 1]>>
          [] member.m = "optional" /\ position = 0 -> v
          [] member.m = "variant" /\ position = 0 -> v.value
          [] OTHER -> <<>>

ExecutedField(value, position) ==
    IF value = <<>> \/ Part(Last(value), position) = <<>> THEN Empty
    ELSE Last(Part(Last(value), position))

\* the value at the end of a path of positions
ExecutedAt(value, path) == FoldLeft(ExecutedField, value, path)

RECURSIVE ExecutedParties(_)

ExecutedIn(occ) == IF occ = <<>> THEN {} ELSE ExecutedParties(Last(occ))

\* every party the participant finds in a Value
ExecutedParties(value) ==
    IF value = <<>> THEN {}
    ELSE LET v == Last(value).v
             m == Last(value).m
         IN  CASE m = "party" -> {v}
               [] m \in {"record", "text_map"} ->
                    UNION {ExecutedIn(v[i].value) : i \in DOMAIN v}
               [] m = "list" ->
                    UNION {ExecutedParties(v[i]) : i \in DOMAIN v}
               [] m = "optional" -> ExecutedIn(v)
               [] m = "variant" -> ExecutedIn(v.value)
               [] m = "gen_map" ->
                    UNION {ExecutedIn(v[i].key) \cup ExecutedIn(v[i].value) :
                             i \in DOMAIN v}
               [] m = "unknown" -> ExecutedParties(v)
               [] OTHER -> {}
=============================================================================
