------------------------ MODULE MCPretrainingProgram ------------------------
(* Two programs over a backbone and an indexer.                            *)
EXTENDS PretrainingProgram, TLC

Phase(u, b, names) == [unit |-> u, budget |-> b, trainable |-> names]

\* Dense pretraining, frozen indexer, both; and two CE phases in a row.
IndexerAndDirect ==
  {<<Phase("ce_tokens", 5, {"backbone"}), Phase("input_tokens", 1, {"indexer"}),
     Phase("ce_tokens", 1, {"backbone", "indexer"})>>,
   <<Phase("ce_tokens", 1, {"backbone"}),
     Phase("ce_tokens", 3, {"backbone", "indexer"})>>}

BackboneAndIndexer == {"backbone", "indexer"}

\* Windows of two targets: every budget is exceeded by one.
TwoTargets == {[ce |-> 2, inputs |-> 1]}

\* Directories and corpora are interchangeable.
Interchangeable == Permutations(Dirs) \cup Permutations(Corpora)

=============================================================================
