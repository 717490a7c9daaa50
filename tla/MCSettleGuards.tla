---------------------------- MODULE MCSettleGuards ----------------------------
(* A small instance of SettleGuards for TLC: three payers, each of whom may *)
(* settle again and again, through one merchant.                            *)
EXTENDS SettleGuards, TLC

CONSTANTS a1, b1, c1, alice, bob, carol

MCPayments == {a1, b1, c1}
MCPayerOf == (a1 :> alice) @@ (b1 :> bob) @@ (c1 :> carol)
MCRateLimit == [maxPerPayer |-> 1, maxPerIp |-> 2, maxGlobal |-> 2,
                windowMs |-> 2]
MCBreakerConfig == [threshold |-> 2, cooldownMs |-> 1, windowMs |-> 2,
                    rate |-> <<2, 3>>, minSamples |-> 2]

\* renamings that keep MCPayerOf
MCSymmetry ==
    Permutations(Requests)
      \cup {(a1 :> b1) @@ (b1 :> a1) @@ (alice :> bob) @@ (bob :> alice),
            (b1 :> c1) @@ (c1 :> b1) @@ (bob :> carol) @@ (carol :> bob)}
=============================================================================
