-------------------------- MODULE MCNativeTraining --------------------------
\* Two documents and two answers, of which one fits the longer context only.
EXTENDS NativeTraining, TLC
CONSTANTS text, vision, essay, note, reply, caption

Chain == <<"p1", "indexer", "p2", "p3">>
Budgets == <<12, 9, 12, 12>>
Domains2 == {text, vision}
RankOf == (text :> 0) @@ (vision :> 1)
TwoToOne == (text :> 2) @@ (vision :> 1)
ThreeToTwo == (text :> 3) @@ (vision :> 2)
WeightOf == <<TwoToOne, TwoToOne, TwoToOne, ThreeToTwo>>
BucketOf == (text :> {essay, note}) @@ (vision :> {reply, caption})
LengthOf == (essay :> 9) @@ (note :> 4) @@ (reply :> 5) @@ (caption :> 3)
TargetsOf == (essay :> 1 .. 8) @@ (note :> 1 .. 3) @@ (reply :> 2 .. 4) @@ (caption :> {2})
Documents == {essay, note}

Shuffled2(sd, d, n) ==
  LET ab == IF d = text THEN <<essay, note>> ELSE <<reply, caption>>
  IN IF (n + sd) % 2 = 0 THEN ab ELSE <<ab[2], ab[1]>>
\* The longer context is drawn in p3 only after the first tokens.
Contexts(sd, k, n, tokens) ==
  IF (n \div 2 + sd) % 2 = 0 /\ ~(k = 4 /\ tokens = 0) THEN 6 ELSE 4
Sparse2(sd, n, tokens) == tokens > 0 /\ (n + sd) % 2 = 0

ASSUME GeneratorHere == GeneratorAssumption(0 .. 60)

=============================================================================
