-------------------------- MODULE MCDataParallel --------------------------
(* Two ranks on short streams of rows.                                     *)
EXTENDS DataParallel

\* Rows of mixed length, full rows (the target is hit exactly), empty rows.
MixedFullEmpty == {<<1, 2, 0, 2, 1, 1, 2>>, <<2, 2, 2>>, <<0, 0>>}

OneOrThree == {1, 3}
FirstOrNever == {1, 9}

=============================================================================
