---------------------------- MODULE PreparedSigning ----------------------------
(* A wallet is handed a prepared transaction, verifies it, signs or         *)
(* refuses; what is signed is executed by the participant, which parses the *)
(* same bytes by its own rules.  The message handed over is the honest one  *)
(* of the wallet's intent, or differs from it in a bounded number of places: *)
(* in a Value, a field of a record, a node, the tree, the metadata.         *)
EXTENDS PreparedIntent

CONSTANTS
    Strangers,      \* the parties an edit may put where another stood
    MaxEdits(_)     \* bound on the edits of a message, for each intent

VARIABLES
    intent,         \* what the wallet asked for
    tx,             \* the message it was handed
    edits,          \* how many edits the message went through
    harmless,       \* whether every one of them kept the meaning
    decision        \* "pending", then "signed" or "refused"

vars == <<intent, tx, edits, harmless, decision>>

----------------------------------------------------------------------------
(* Where a Value stands: a node's argument or an input contract's.         *)

HasArgument(node) ==
    node.v1 # <<>> /\ node.v1[1][1].kind \in {"exercise", "create"}

Slots ==
    {<<"node", i>> : i \in {j \in DOMAIN ExecutedNodes(tx) :
                               HasArgument(ExecutedNodes(tx)[j])}} \cup
    {<<"input", i>> : i \in {j \in DOMAIN tx.metadata[1].inputs :
                                tx.metadata[1].inputs[j].v1 # <<>>}}

ArgumentField(i) ==
    IF tx.transaction[1].nodes[i].v1[1][1].kind = "exercise" THEN "chosen"
    ELSE "argument"

ArgumentAt(slot) ==
    IF slot[1] = "input"
    THEN tx.metadata[1].inputs[slot[2]].v1[1].argument[1]
    ELSE tx.transaction[1].nodes[slot[2]].v1[1][1].body[ArgumentField(slot[2])][1]

WithArgument(slot, value) ==
    IF slot[1] = "input"
    THEN [tx EXCEPT !.metadata[1].inputs[slot[2]].v1[1].argument[1] = value]
    ELSE [tx EXCEPT !.transaction[1].nodes[slot[2]].v1[1][1]
                        .body[ArgumentField(slot[2])][1] = value]

RECURSIVE PathsFrom(_)

\* the paths to every value inside a value
PathsFrom(value) ==
    LET last == Last(value)
        parts == IF last.m \in {"record", "list"} THEN 0 .. Len(last.v) - 1
                 ELSE IF last.m \in {"optional", "variant"} THEN {0}
                 ELSE {}
    IN  {<<>>} \cup
        UNION {{<<k>> \o p : p \in PathsFrom(Last(Part(last, k)))} :
                 k \in {j \in parts : Part(last, j) # <<>>
                                        /\ Last(Part(last, j)) # <<>>}}

RECURSIVE Put(_, _, _)

\* value with the occurrences of the part at path replaced
Put(value, path, occ) ==
    LET last == Last(value)
        k == path[1]
        inner == IF Len(path) = 1 THEN occ
                 ELSE <<Put(Last(Part(last, k)), Tail(path), occ)>>
        v == CASE last.m = "record" -> [last.v EXCEPT ![k + 1].value = inner]
               [] last.m = "list" -> [last.v EXCEPT ![k + 1] = inner[1]]
               [] last.m = "optional" -> inner
               [] last.m = "variant" -> [last.v EXCEPT !.value = inner]
    IN  Val(last.m, v)

\* another value of the same type, with p where it is a party
Another(value, p) ==
    LET last == Last(value)
    IN  CASE last.m = "party" -> Party(p)
          [] last.m = "numeric" -> Numeric(Decimal(9, <<>>))
          [] last.m = "text" -> Text("another")
          [] last.m = "timestamp" -> Time(Now + 7)
          [] last.m = "contract_id" -> Cid("another")
          [] last.m = "bool" -> Val("bool", FALSE)
          [] last.m = "list" ->
               List(IF last.v = <<>> THEN <<Party(p)>>
                    ELSE last.v \o <<last.v[1]>>)
          [] last.m = "optional" ->
               IF last.v = <<>> THEN Some(Party(p)) ELSE None
          [] last.m = "text_map" ->
               TextMap(last.v \o <<Entry("another", Party(p))>>)
          [] last.m = "variant" -> Variant("Long", Last(last.v.value))
          [] last.m = "record" ->
               Record(Append(last.v, Field("another", Party(p))))
          [] OTHER -> Party(p)

\* the ways a value may differ: another value; a second member of the oneof,
\* of this kind or of one this version does not know; a tag of over 32 bits
Variants(value, p) ==
    <<Another(value, p), value \o Another(value, p),
      value \o Val("unknown", Party(p)), [value EXCEPT ![1].wide = TRUE]>>

MayEdit == decision = "pending" /\ edits < MaxEdits(intent)

Edit(newTx, keepsMeaning) ==
    /\ edits' = edits + 1
    /\ tx' = newTx
    /\ harmless' = (harmless /\ keepsMeaning)
    /\ UNCHANGED <<intent, decision>>

EditValue ==
    MayEdit /\ \E slot \in Slots : LET value == ArgumentAt(slot) IN
        \E path \in PathsFrom(value), p \in Strangers :
            LET part == ExecutedAt(value, path)
            IN  \E k \in DOMAIN Variants(part, p) :
                    Edit(WithArgument(slot,
                             IF path = <<>> THEN Variants(part, p)[k]
                             ELSE Put(value, path, <<Variants(part, p)[k]>>)),
                         FALSE)

\* a field of a record: it occurs again, its label is another or gone, or it
\* changes places with the next one
FieldEdits(fields, k, p) ==
    <<[fields EXCEPT ![k].value = <<@[1], Another(@[1], p)>>],
      [fields EXCEPT ![k].label = <<"another">>],
      [fields EXCEPT ![k].label = <<>>],
      IF k < Len(fields)
      THEN [fields EXCEPT ![k] = fields[k + 1], ![k + 1] = fields[k]]
      ELSE Front(fields)>>
Unlabelled == 3

EditField ==
    MayEdit /\ \E slot \in Slots : LET value == ArgumentAt(slot) IN
        \E path \in PathsFrom(value), p \in Strangers :
            LET part == ExecutedAt(value, path)
            IN  /\ Last(part).m = "record"
                /\ \E k \in DOMAIN Last(part).v, e \in 1 .. 4 :
                      LET new == Record(FieldEdits(Last(part).v, k, p)[e])
                      IN  Edit(WithArgument(slot, IF path = <<>> THEN new
                                                  ELSE Put(value, path, <<new>>)),
                               e = Unlabelled)

----------------------------------------------------------------------------
(* Nodes, the tree and the metadata.                                       *)

Drain(id) ==
    Exercise(id, "c", "Another:Template", "Drain",
             Record(<<Field("to", Party("agent"))>>), <<>>, <<"agent">>)
Give(id, p) == Create(id, Amulet, AmuletOf(p), <<"agent">>)

\* an Identifier: it is text, its package or its name is another, or occurs
\* again, and then its bytes may be a text too
IdentifierEdits(id, name) ==
    <<TextIdentifier(name),
      [id EXCEPT !.package = <<"another">>],
      [id EXCEPT !.package = @ \o <<"another">>, !.text.package = "pkg"],
      [id EXCEPT !.name = <<"Another:Template">>],
      [id EXCEPT !.name = @ \o <<"Another:Template">>],
      [id EXCEPT !.name = @ \o <<"Another:Template">>, !.text.name = name],
      [id EXCEPT !.name = @ \o <<RegistryHolding>>, !.text.name = name]>>

\* the participant reads text as the message, and every arm but one takes
\* any package, as an upgrade changes it
SameTemplate(k, id) ==
    k = 1 \/ (k = 2 /\ id.name # <<>> /\ intent # "withdrawal")

BodyEdits(body, kind, p) ==
    <<[body EXCEPT !.cid = <<"another">>],
      [body EXCEPT !.meta.observers = <<p>>],
      [body EXCEPT !.meta.key =
          <<[maintainers |-> <<>>, key |-> <<Party(p)>>]>>]>>
    \o IF kind # "exercise" THEN <<>>
       ELSE <<[body EXCEPT !.choice = <<"Drain">>],
              [body EXCEPT !.choice = <<@[1], "Drain">>],
              [body EXCEPT !.chosen = <<@[1], Another(@[1], p)>>],
              [body EXCEPT !.result = <<Party(p)>>],
              [body EXCEPT !.children = IF @ = <<>> THEN <<"0">> ELSE Tail(@)]>>

\* another version, two bodies in one, two bodies one after the other, the id
\* of the root
NodeEdits(node, p) ==
    LET other == Drain("0").v1[1]
    IN  <<[node EXCEPT !.extra = TRUE],
          [node EXCEPT !.v1 = <<>>],
          [node EXCEPT !.v1 = <<@[1] \o Give("0", p).v1[1] \o other>>],
          [node EXCEPT !.v1 = <<@[1] \o <<[kind |-> "later", body |-> p]>>>>],
          [node EXCEPT !.v1 = <<@[1], other>>],
          [node EXCEPT !.id = <<"0">>]>>

EditNode ==
    MayEdit /\ \E i \in {j \in DOMAIN ExecutedNodes(tx) :
                 HasArgument(ExecutedNodes(tx)[j])}, p \in Strangers :
        LET node == tx.transaction[1].nodes[i]
            b == node.v1[1][1]
            template == b.body.template
            ids == IdentifierEdits(template[1], QualifiedName(template))
        IN  \/ \E k \in DOMAIN ids :
                  Edit([tx EXCEPT !.transaction[1].nodes[i].v1[1][1].body
                                     .template[1] = ids[k]],
                       SameTemplate(k, template[1]))
            \/ \E k \in DOMAIN BodyEdits(b.body, b.kind, p) :
                  Edit([tx EXCEPT !.transaction[1].nodes[i].v1[1][1].body =
                           BodyEdits(b.body, b.kind, p)[k]], FALSE)
            \/ \E k \in DOMAIN NodeEdits(node, p) :
                  Edit([tx EXCEPT !.transaction[1].nodes[i] =
                           NodeEdits(node, p)[k]], FALSE)

\* one more node: under the root, as a second root, or under nothing
NewNodes(p) ==
    <<Drain("9"), Give("9", p), [Drain("9") EXCEPT !.extra = TRUE],
      [ExecutedNodes(tx)[1] EXCEPT !.id = <<"9">>],
      Node("9", "rollback", [children |-> <<>>]),
      Node("9", "fetch", [meta |-> Meta(<<"agent">>, <<"agent">>)])>>
Fetched == 6

EditTree ==
    MayEdit /\ \E p \in Strangers, k \in 1 .. 6 :
        LET dt == tx.transaction[1]
            nodes == Append(dt.nodes, NewNodes(p)[k])
            root == dt.nodes[1].v1[1][1]
        IN  \/ /\ HasArgument(dt.nodes[1])
               /\ root.kind = "exercise"
               /\ Edit([tx EXCEPT
                           !.transaction[1].nodes =
                              [nodes EXCEPT ![1].v1[1][1].body.children =
                                  Append(@, "9")]],
                       /\ k = Fetched /\ intent # "orders"
                       /\ \A n \in Range(dt.nodes) : n.id # <<"9">>)
            \/ Edit([tx EXCEPT !.transaction[1] =
                        [roots |-> Append(dt.roots, "9"), nodes |-> nodes]],
                    FALSE)
            \/ Edit([tx EXCEPT !.transaction[1].nodes = nodes], FALSE)

MetadataEdits(md, p) ==
    <<[md EXCEPT !.submitter = <<<<p>>>>],
      [md EXCEPT !.submitter = <<@[1] \o <<p>>>>],
      [md EXCEPT !.submitter = <<@[1], <<p>>>>],
      [md EXCEPT !.submitter = <<>>],
      [md EXCEPT !.synchronizer[1].logical = "another"],
      [md EXCEPT !.synchronizer[1].suffix = "another"],
      [md EXCEPT !.synchronizer = <<>>],
      [md EXCEPT !.inputs = Append(@, Input("s", Amulet, AmuletOf(p), <<p>>))],
      [md EXCEPT !.inputs = Append(@, [v1 |-> <<>>])],
      [md EXCEPT !.inputs =
          Append(@, Input("s", Preapproval, PreapprovalOf("merchant", p),
                          <<"dso", "merchant", p>>))]>>
    \o [i \in 1 .. 4 |->
           [md EXCEPT !.timing[SetToSeq(TimingFields)[i]] = <<Now - 5>>]]
    \o [i \in 1 .. 4 |->
           [md EXCEPT !.timing[SetToSeq(TimingFields)[i]] = <<Now + 5>>]]
Physical(md) == [md EXCEPT !.synchronizer[1].suffix = "version-serial"]

EditMetadata ==
    LET md == tx.metadata[1]
        again(p) == [md EXCEPT !.submitter = <<<<p>>>>]
    IN  /\ MayEdit
        /\ Len(md.synchronizer) = 1 /\ Len(md.submitter) = 1
        /\ \/ \E p \in Strangers, k \in DOMAIN MetadataEdits(md, "agent") :
                 Edit([tx EXCEPT !.metadata[1] = MetadataEdits(md, p)[k]],
                      FALSE)
           \/ Edit([tx EXCEPT !.metadata[1] = Physical(md)], TRUE)
           \/ \E p \in Strangers :
                 Edit([tx EXCEPT !.metadata = <<md, again(p)>>], FALSE)
           \/ Edit([tx EXCEPT !.transaction =
                       @ \o <<[roots |-> <<"9">>, nodes |-> <<Drain("9")>>]>>],
                   FALSE)

----------------------------------------------------------------------------

Verify ==
    /\ decision = "pending"
    /\ decision' = IF Signs(intent, tx) THEN "signed" ELSE "refused"
    /\ UNCHANGED <<intent, tx, edits, harmless>>

Init ==
    /\ intent \in Intents
    /\ tx = HonestTx(intent)
    /\ edits = 0
    /\ harmless = TRUE
    /\ decision = "pending"

Next ==
    \/ EditValue \/ EditField \/ EditNode \/ EditTree \/ EditMetadata
    \/ Verify

Spec == Init /\ [][Next]_vars

----------------------------------------------------------------------------
(* What the participant executes of a signed message.                      *)

BodiesOf(ids) ==
    {ExecutedBody(n)[1] :
        n \in {m \in Range(ExecutedNodes(tx)) :
                 ExecutedId(m) \in ids /\ ExecutedBody(m) # <<>>}}

\* the node ids the participant reaches from the roots
ExecutedIds ==
    LET children(ids) ==
            UNION {Range(b.body.children) :
                     b \in {c \in BodiesOf(ids) :
                              c.kind \in {"exercise", "rollback"}}}
        step[k \in 0 .. Len(ExecutedNodes(tx))] ==
            IF k = 0 THEN Range(ExecutedRoots(tx))
            ELSE step[k - 1] \cup children(step[k - 1])
    IN  step[Len(ExecutedNodes(tx))]

BodyOf(node) == ExecutedBody(node)[1]
Running ==
    SelectSeq(ExecutedNodes(tx),
              LAMBDA n : ExecutedId(n) \in ExecutedIds /\ ExecutedBody(n) # <<>>)
RunningOf(kind) == SelectSeq(Running, LAMBDA n : BodyOf(n).kind = kind)

TemplateOf(node) == BodyOf(node).body.template

\* the name and the package the participant reads, and where an Identifier
\* carries one twice, beside it what the validator reads in its place
NamesOf(node) ==
    {ExecutedName(TemplateOf(node))}
      \cup IF Len(Last(TemplateOf(node)).name) <= 1 THEN {}
           ELSE {QualifiedName(TemplateOf(node))}
PackagesOf(node) ==
    {ExecutedPackage(TemplateOf(node))}
      \cup IF Len(Last(TemplateOf(node)).package) <= 1 THEN {}
           ELSE {PackageId(TemplateOf(node))}

\* an exercise as the participant reads it
ChoiceOf(node) == Last(BodyOf(node).body.choice)
Runs(node) == {[choice |-> ChoiceOf(node), template |-> name] :
                 name \in NamesOf(node)}

RootChoice(i) ==
    CASE i \in Transfers -> TransferChoice
      [] i \in {"amulet-accept", "registry-accept"} -> AcceptChoice
      [] i = "amulet-preapproval" -> AmuletSelfPreapprovalChoice
      [] i = "batcher" -> "AMMRules_CreateSwapOrderBatcher"
      [] i \in {"allocation", "allocation-empty"} ->
           "AMMRules_CreateSettlementAllocation"
      [] i = "fund" -> "AMMRules_FundSettlementAllocation"
      [] i = "orders" -> "SwapOrderBatcher_CreateOrdersV2"
      [] i = "cancel" -> "SwapOrder_WithdrawV3"
      [] OTHER -> Undefined

\* the exercises a transaction of this kind may run under its root
MayRun(i) ==
    CASE i \in {"registry-offer", "registry-merge"} -> SelfTransferConsequences
      [] i \in Transfers -> TransferConsequences
      [] i = "amulet-accept" -> AcceptConsequences
      [] i = "registry-accept" -> RegistryAcceptConsequences
      [] i = "amulet-preapproval" -> AmuletSelfPreapprovalConsequences
      [] i \in {"allocation", "allocation-empty"} -> AllocationConsequences
      [] i = "fund" -> FundConsequences
      [] OTHER -> {}

\* the contracts it may create, where the arm says so
MayCreate(i) ==
    CASE i = "registry-offer" -> {RegistryHolding, TransferOffer}
      [] i = "registry-merge" -> {RegistryHolding}
      [] i = "registry-accept" -> {RegistryHolding, ExecutedTransfer}
      [] i = "registry-preapproval" -> {RegistryPreapproval}
      [] i = "amulet-preapproval" -> {Preapproval, Amulet, RewardCoupon}
      [] i = "batcher" -> {SwapOrderBatcher}
      [] i \in {"allocation", "fund"} ->
           {AmuletAllocation, Amulet, LockedAmulet}
      [] i = "allocation-empty" -> {RegistryAllocation, RegistryHolding}
      [] i = "orders" -> {SwapOrder}
      [] i = "withdrawal" -> {WithdrawalRequest}
      [] OTHER -> AnyTemplate

Signed == decision = "signed"

\* A wallet does not refuse what an honest participant prepares: labels may be
\* left out, the synchronizer may carry its version, the tree may fetch.
HonestIsSigned == decision = "refused" => ~harmless

\* What runs under a signature is one tree of the choice the wallet asked for
\* and its known consequences, however the participant parses the message: no
\* second root, no node under another version or behind another body.  The one
\* exception is the template of an Identifier that names it twice: the choice
\* is still the known one, its template or the text of the Identifier is.
OnlyTheIntentRuns ==
    Signed =>
        LET exercises == RunningOf("exercise")
            creates == RunningOf("create")
            roots == SelectSeq(exercises,
                               LAMBDA n : ChoiceOf(n) = RootChoice(intent))
        IN  /\ Len(ExecutedRoots(tx)) = 1
            /\ IF RootChoice(intent) = Undefined THEN exercises = <<>>
               ELSE Len(roots) = 1 /\ ExecutedId(roots[1]) = ExecutedRoots(tx)[1]
            /\ \A n \in Range(exercises) :
                  \/ ChoiceOf(n) = RootChoice(intent)
                  \/ \E run \in Runs(n) :
                        IsAllowedConsequence(run, MayRun(intent))
            /\ \A n \in Range(creates) :
                  /\ \/ MayCreate(intent) = AnyTemplate
                     \/ NamesOf(n) \cap MayCreate(intent) # {}
                  /\ intent = "withdrawal" =>
                        PackagesOf(n) \cap Expect(intent).trustedPackageIds # {}

----------------------------------------------------------------------------
(* The terms of an intent: where the engine reads them, their type and     *)
(* value.  "absent" is the type of a position that must not be filled.     *)

Term(path, type, value) == <<path, type, value>>
Absent(path) == Term(path, "absent", 0)

TransferTerms(e) ==
    <<Term(<<1, 0>>, "party", e.sender), Term(<<1, 1>>, "party", e.receiver),
      Term(<<1, 2>>, "numeric", e.amount),
      Term(<<1, 3, 0>>, "party", e.instrumentAdmin),
      Term(<<1, 3, 1>>, "text", e.instrumentId)>>

\* in the argument of the root, or of the contract that is created
Terms(i) ==
    LET e == Expect(i)
    IN  CASE i \in Transfers -> TransferTerms(e)
          [] i = "amulet-preapproval" ->
               <<Term(<<2>>, "party", e.party), Term(<<3>>, "party", e.party),
                 Term(<<4>>, "timestamp", e.expiresAt)>>
          [] i = "batcher" -> <<Term(<<0>>, "party", e.party)>>
          [] i \in {"allocation", "allocation-empty"} ->
               <<Term(<<0>>, "party", e.party),
                 Term(<<1>>, "contract_id", "amm"),
                 Term(<<2, 0>>, "party", e.instrument.admin),
                 Term(<<2, 1>>, "text", e.instrument.id),
                 Term(<<3, 0, 0>>, "party", e.party),
                 IF e.funding = {} THEN Absent(<<4, 0>>)
                 ELSE Term(<<4, 0>>, "numeric", One)>>
          [] i = "fund" ->
               <<Term(<<0>>, "party", e.party),
                 Term(<<2, 0, 0>>, "party", e.party),
                 Term(<<3>>, "contract_id", e.allocationCid),
                 Term(<<4, 1>>, "text", e.instrument.id),
                 Term(<<5>>, "numeric", e.additionalFunding)>>
          [] i = "orders" ->
               <<Term(<<0>>, "text", e.ammId),
                 Term(<<1, 1>>, "text", e.sellInstrument.id),
                 Term(<<2, 0, 0>>, "numeric", One),
                 Term(<<2, 0, 1, 0>>, "numeric", Half),
                 Term(<<2, 1, 0>>, "numeric", Half),
                 Absent(<<2, 1, 1, 0>>), Absent(<<2, 2>>)>>
          [] i = "cancel" -> <<Absent(<<0, 0>>), Absent(<<1, 0>>)>>
          [] i = "withdrawal" ->
               <<Term(<<0>>, "party", e.party), Term(<<1>>, "party", e.venue),
                 Term(<<2>>, "text", e.ammId),
                 Term(<<3, 0>>, "party", e.instrument.admin),
                 Term(<<3, 1>>, "text", e.instrument.id)>>
          [] OTHER -> <<>>

RootArguments ==
    LET roots == SelectSeq(ExecutedNodes(tx),
                           LAMBDA n : ExecutedId(n) \in Range(ExecutedRoots(tx)))
        argument(n) ==
            CASE BodyOf(n).kind = "exercise" -> BodyOf(n).body.chosen
              [] BodyOf(n).kind = "create" -> BodyOf(n).body.argument
              [] OTHER -> <<>>
    IN  {Last(argument(n)) : n \in {m \in Range(roots) :
             ExecutedBody(m) # <<>> /\ argument(m) # <<>>}}

\* an argument of another type than the engine expects executes nothing
Executes(argument, term) ==
    LET value == ExecutedAt(argument, term[1])
    IN  IF term[2] = "absent" THEN value = Empty
        ELSE WellTyped(value, term[2]) =>
                 IF term[2] = "numeric"
                 THEN CanonicalAmount(Executed(value)) = CanonicalAmount(term[3])
                 ELSE Executed(value) = term[3]

\* The terms that are executed are the terms that were verified, and the
\* wallet's party alone acts: the validator and the participant never read
\* different amounts, parties, instruments or contracts in one message.
SignedTermsAreExecuted ==
    Signed =>
        /\ Range(ExecutedActAs(tx)) = {"agent"}
        /\ \A argument \in RootArguments :
              \A k \in DOMAIN Terms(intent) :
                  Executes(argument, Terms(intent)[k])

----------------------------------------------------------------------------

\* the parties the caller named, or trusts
Named(i) ==
    LET e == Expect(i)
    IN  CASE i \in Transfers ->
               {e.sender, e.receiver, e.instrumentAdmin} \cup e.registry
          [] i = "registry-preapproval" -> {e.party, e.admin} \cup e.registry
          [] i = "amulet-preapproval" -> {e.party, e.dso}
          [] i \in {"allocation", "allocation-empty", "fund"} ->
               {e.party, e.venue, e.vault, e.instrument.admin, e.dso}
                  \cup e.registry
          [] i = "orders" ->
               {e.party, e.venue, e.vault, e.sellInstrument.admin}
          [] i = "cancel" -> {e.party, e.venue, e.vault} \cup e.instrumentAdmins
          [] i = "withdrawal" -> {e.party, e.venue, e.instrument.admin}
          [] OTHER -> {e.party, e.venue, e.vault}

\* the values of a node that are executed
ValuesOf(body) ==
    CASE body.kind = "exercise" -> ExecutedIn(body.body.chosen)
           \cup ExecutedIn(body.body.result)
      [] body.kind = "create" -> ExecutedIn(body.body.argument)
      [] OTHER -> {}

IsNamedOrKin(p) ==
    \/ p \in Named(intent)
    \/ Namespace(p) = Namespace("registrar")
    \/ p = "provider" /\ intent = "amulet-transfer-provider"

\* The participant finds no party in what runs that the caller did not name,
\* but for one of the registrar's own namespace and the provider of the
\* preapproval that pays this receiver, neither of them in the root argument.
NobodyElseIsNamed ==
    Signed /\ intent \notin {"amulet-accept", "registry-accept"} =>
        /\ RootChoice(intent) # Undefined =>
              \A argument \in RootArguments :
                  ExecutedParties(argument) \subseteq Named(intent)
        /\ \A n \in Range(Running) :
              \A p \in ValuesOf(BodyOf(n)) : IsNamedOrKin(p)

\* who must own, or at least be named in, the holdings a message creates
OwnersOf(i) ==
    CASE i \in Transfers -> {"agent", "merchant"}
      [] OTHER -> {"agent"}

HasOwner(template) == template \in {Amulet, LockedAmulet, RegistryHolding}
OwnerPath(template) ==
    CASE template = Amulet -> <<1>>
      [] template = LockedAmulet -> <<0, 1>>
      [] OTHER -> <<3>>

OwnerIsPinned == intent \in {"allocation", "allocation-empty", "fund"}
OwnerIsNamed(template) ==
    \/ /\ template = RegistryHolding
       /\ intent \in {"registry-offer", "registry-merge", "registry-accept"}
    \/ template = Amulet /\ intent = "amulet-preapproval"

\* Every holding a signed registry transfer, accept, fee payment or allocation
\* creates is the caller's, as the participant reads it: a Tradecraft arm pins
\* the owner field, the others that an owner is named.  A holding whose
\* Identifier names its template twice is not among them: the validator may
\* have looked for the owner of another template.
CreatedHoldingsAreTheCallers ==
    Signed =>
        \A n \in {m \in Range(RunningOf("create")) :
                    Cardinality(NamesOf(m)) = 1} :
            LET template == ExecutedName(TemplateOf(n))
                argument == Last(BodyOf(n).body.argument)
                owner == ExecutedAt(argument, OwnerPath(template))
            IN  /\ OwnerIsPinned /\ HasOwner(template)
                     /\ WellTyped(owner, "party") => Executed(owner) = "agent"
                /\ OwnerIsNamed(template) =>
                      ExecutedParties(argument) \cap OwnersOf(intent) # {}
=============================================================================
