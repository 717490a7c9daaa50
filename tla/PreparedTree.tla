----------------------------- MODULE PreparedTree -----------------------------
(* What every arm of verify-before-sign demands of the whole transaction    *)
(* (core/src/prepared-transfer.ts): one root exercise and nothing beside    *)
(* it, the signed metadata, and the backstop that refuses any party the     *)
(* caller did not name.                                                     *)
EXTENDS PreparedDecode, FiniteSets

CONSTANTS
    Now,            \* the validator's clock
    TimingSkew,     \* TIMING_SKEW_MS
    Namespace(_)    \* the key fingerprint of a party id, or Undefined

----------------------------------------------------------------------------
(* The shape of the tree.                                                  *)

\* a rule of ConsequenceChoiceRule: AnyTemplate for a bare choice name
AnyTemplate == {"*"}
Rule(choice, templates) == [choice |-> choice, templates |-> templates]
Bare(choice) == Rule(choice, AnyTemplate)

IsAllowedConsequence(ex, rules) ==
    \E r \in rules :
        /\ r.choice = ex.choice
        /\ r.templates = AnyTemplate
             \/ (ex.template # Undefined /\ ex.template \in r.templates)

\* (1) one exercise of the choice, every other one an allowed consequence
SingleAllowedExercise(decoded, choice, rules) ==
    LET exercises == Exercises(decoded)
    IN  /\ Len(SelectSeq(exercises, LAMBDA e : e.choice = choice)) = 1
        /\ \A i \in DOMAIN exercises :
              \/ exercises[i].choice = choice
              \/ IsAllowedConsequence(exercises[i], rules)

\* as AllRecognized, looking at the exercises alone
ExercisesRecognized(decoded) ==
    \A n \in Nodes(decoded) : n.kind = "exercise" => n.choice # Undefined

\* (2) every node recognised, no exercise opaque
AllRecognized(decoded) ==
    \A n \in Nodes(decoded) :
        /\ n.recognized
        /\ n.kind # Undefined
        /\ n.kind = "exercise" => n.choice # Undefined

UniqueNodeIds(decoded) ==
    IsInjective([i \in DOMAIN decoded.nodes |-> decoded.nodes[i].id])

NodeOf(decoded, id) == CHOOSE n \in Nodes(decoded) : n.id = id
NodeIds(decoded) == {n.id : n \in Nodes(decoded)}

\* the ids the walk over `children` visits from the root, step by step
Reachable(decoded, root) ==
    LET children(ids) ==
            UNION {Range(n.children) : n \in {m \in Nodes(decoded) : m.id \in ids}}
        step[k \in 0 .. Len(decoded.nodes)] ==
            IF k = 0 THEN {root} ELSE step[k - 1] \cup children(step[k - 1])
    IN  step[Len(decoded.nodes)]

\* (3) one root, and it is the exercise of the choice
RootIsExercise(decoded, choice) ==
    /\ Len(decoded.roots) = 1
    /\ UniqueNodeIds(decoded)
    /\ decoded.roots[1] \in NodeIds(decoded)
    /\ LET root == NodeOf(decoded, decoded.roots[1])
       IN  root.kind = "exercise" /\ root.choice = choice

\* (4) no child is missing and no node is an orphan
NoOrphans(decoded) ==
    Reachable(decoded, decoded.roots[1]) = NodeIds(decoded)

AssertSingleAllowedRootExercise(decoded, choice, rules) ==
    /\ SingleAllowedExercise(decoded, choice, rules)
    /\ AllRecognized(decoded)
    /\ RootIsExercise(decoded, choice)
    /\ NoOrphans(decoded)

Root(decoded) == NodeOf(decoded, decoded.roots[1])

----------------------------------------------------------------------------
(* The signed metadata, and the pins of the exercised contract.            *)

\* as AssertSynchronizerMatches, comparing the whole id
ComparesWholeId(decoded, expected) ==
    expected # Undefined =>
        /\ decoded.synchronizer # <<>>
        /\ decoded.synchronizer[1] = [logical |-> expected, suffix |-> ""]

\* expected = Undefined where the caller does not pin.  A synchronizer is its
\* logical id and the suffix the participant may append to it.
AssertSynchronizerMatches(decoded, expected) ==
    expected # Undefined =>
        /\ decoded.synchronizer # <<>>
        /\ decoded.synchronizer[1].logical = expected
        /\ decoded.synchronizer[1].suffix \in {"", "version-serial"}

InThePast(occ, now) == occ # <<>> /\ occ[1] <= now

AssertTimingPlausible(timing) ==
    LET prep == timing["preparationTime"]
        minLet == timing["minLedgerEffectiveTime"]
    IN  /\ prep # <<>> => prep[1] \in Now - TimingSkew .. Now + TimingSkew
        /\ ~InThePast(timing["maxRecordTime"], Now)
        /\ ~InThePast(timing["maxLedgerEffectiveTime"], Now)
        /\ minLet # <<>> => minLet[1] <= Now + TimingSkew

AssertTemplateMatches(ex, expected) ==
    expected # Undefined => ex.template = expected

AssertContractIdMatches(ex, expected) ==
    expected # Undefined => ex.cid = expected

AssertActAsIsSender(decoded, sender) ==
    decoded.actAs # <<>> /\ Range(decoded.actAs) = {sender}

----------------------------------------------------------------------------
(* The parties of the signed message, by where they stand.                 *)

Tagged(template, parties, signatories) ==
    [template |-> template, parties |-> parties, signatories |-> signatories]

NonEmpty(buckets) == SelectSeq(buckets, LAMBDA b : b.parties # <<>>)

\* collectSplitPartyLeaves, with the input contracts the caller leaves in
CollectSplitPartyLeaves(decoded, rootId, inputs) ==
    LET isRoot(n) == n.id = rootId /\ n.kind = "exercise"
        values(n) == IF isRoot(n) THEN Tail(n.values) ELSE n.values
        tag(n) == IF n.kind = "create" THEN n.template ELSE Undefined
        bucket(n) == [i \in DOMAIN values(n) |->
                         Tagged(tag(n), PartyLeaves(values(n)[i], 0), {})]
        roots == SelectSeq(decoded.nodes, isRoot)
    IN  [rootArg |-> IF roots = <<>> THEN <<>>
                     ELSE PartyLeaves(roots[1].chosen[1], 0),
         nodeValues |-> NonEmpty(FlattenSeq([i \in DOMAIN decoded.nodes |->
                                               bucket(decoded.nodes[i])])),
         inputArgs |->
            NonEmpty([i \in DOMAIN inputs |->
                        Tagged(inputs[i].template,
                               LeavesAt(inputs[i].argument, -1),
                               inputs[i].signatories)]),
         elsewhere |->
            FlattenSeq([i \in DOMAIN decoded.nodes |->
                          decoded.nodes[i].partyMeta])
              \o FlattenSeq([i \in DOMAIN decoded.inputs |->
                               decoded.inputs[i].partyMeta])]

InstrumentConfiguration ==
    "Utility.Registry.V0.Configuration.Instrument:InstrumentConfiguration"
Preapproval == "Splice.AmuletRules:TransferPreapproval"
FeaturedAppRight == "Splice.Amulet:FeaturedAppRight"
FeaturedAppMarker == "Splice.Amulet:FeaturedAppActivityMarker"

\* isRegistrarInstrumentConfiguration
RegistrarConfiguration(bucket, admin) ==
    bucket.template = InstrumentConfiguration /\ admin \in bucket.signatories

\* who the backstop admits: the caller's parties, the admin and whether the
\* caller pinned it, how often it may stand in the root argument, the provider
\* of the matched preapproval, the trusted registry parties
Admits(allowed, admin, rootMax, trusted, provider, registry) ==
    [allowed |-> allowed, admin |-> admin, rootMax |-> rootMax,
     trusted |-> trusted, provider |-> provider, registry |-> registry]

Admitted(p, a) ==
    \/ p \in a.allowed
    \/ a.trusted /\ a.admin # Undefined /\ p = a.admin
    \/ p \in a.registry
    \/ /\ a.trusted /\ a.admin # Undefined
       /\ Namespace(a.admin) # Undefined
       /\ Namespace(p) = Namespace(a.admin)

ProviderAllowedIn(template) ==
    template \in {Preapproval, FeaturedAppRight, FeaturedAppMarker}

\* as RootArgIsClean, counting without comparing
RootArgIsShort(rootArg, a) ==
    Len(SelectSeq(rootArg, LAMBDA p : p \notin a.allowed)) <= a.rootMax

\* the occurrences of the admin in the root argument are budgeted
RootArgIsClean(rootArg, a) ==
    LET others == SelectSeq(rootArg, LAMBDA p : p \notin a.allowed)
    IN  \/ others = <<>>
        \/ /\ a.admin # Undefined
           /\ Range(others) = {a.admin}
           /\ Len(others) <= a.rootMax

BucketIsClean(bucket, a) ==
    \A p \in Range(bucket.parties) :
        \/ Admitted(p, a)
        \/ p = a.provider /\ ProviderAllowedIn(bucket.template)

AssertNoForeignParties(leaves, a) ==
    /\ RootArgIsClean(leaves.rootArg, a)
    /\ \A i \in DOMAIN leaves.elsewhere :
          Admitted(leaves.elsewhere[i], a) \/ leaves.elsewhere[i] = a.provider
    /\ \A i \in DOMAIN leaves.nodeValues :
          BucketIsClean(leaves.nodeValues[i], a)
    /\ \A i \in DOMAIN leaves.inputArgs :
          \/ a.trusted /\ RegistrarConfiguration(leaves.inputArgs[i], a.admin)
          \/ BucketIsClean(leaves.inputArgs[i], a)

\* a Value that the walk could not read throws wherever it stands
LeavesDecode(leaves) ==
    /\ Undecodable \notin Range(leaves.rootArg)
    /\ \A i \in DOMAIN leaves.nodeValues :
          Undecodable \notin Range(leaves.nodeValues[i].parties)
    /\ \A i \in DOMAIN leaves.inputArgs :
          Undecodable \notin Range(leaves.inputArgs[i].parties)

PartiesAreKnown(decoded, rootId, inputs, a) ==
    LET leaves == CollectSplitPartyLeaves(decoded, rootId, inputs)
    IN  LeavesDecode(leaves) /\ AssertNoForeignParties(leaves, a)

----------------------------------------------------------------------------
(* The provider of the preapproval a transfer delivers through.            *)

\* extractTransferPreapproval
ExtractTransferPreapproval(argument) ==
    [dso |-> LeafOf(At(argument, 0, "dso"), "party"),
     receiver |-> LeafOf(At(argument, 1, "receiver"), "party"),
     provider |-> LeafOf(At(argument, 2, "provider"), "party")]

SendChoices == {"TransferPreapproval_Send", "TransferPreapproval_SendV2"}

PreapprovalInputs(decoded) ==
    SelectSeq(decoded.inputs, LAMBDA c : c.template = Preapproval)

\* its labels are checked outside the try: a divergence throws
PreapprovalDecodes(decoded) ==
    LET candidates == PreapprovalInputs(decoded)
        c == candidates[1]
        entries == RecordEntries(c.argument[1])
    IN  /\ Len(candidates) = 1
        /\ c.argument # <<>>
        /\ c.cid # Undefined
        /\ RecordDecodes(c.argument[1])
        => /\ Agrees(entries, 0, "dso")
           /\ Agrees(entries, 1, "receiver")
           /\ Agrees(entries, 2, "provider")

MatchPreapprovalProvider(decoded, receiver, admin) ==
    LET candidates == PreapprovalInputs(decoded)
        c == candidates[1]
        pre == ExtractTransferPreapproval(c.argument[1])
        trio == {pre.dso, pre.receiver, pre.provider}
    IN  IF /\ Len(candidates) = 1
           /\ c.argument # <<>>
           /\ c.cid # Undefined
           /\ Undecodable \notin trio
           /\ pre.receiver = receiver
           /\ pre.dso = admin
           /\ Cardinality(c.signatories) = 3
           /\ trio \subseteq c.signatories
           /\ Cardinality(trio) > 1
           /\ \E n \in Nodes(decoded) :
                 /\ n.kind = "exercise"
                 /\ n.choice \in SendChoices
                 /\ n.template = Preapproval
                 /\ n.cid = c.cid
        THEN pre.provider
        ELSE Undefined
=============================================================================
