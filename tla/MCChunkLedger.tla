---------------------------- MODULE MCChunkLedger ----------------------------
(* ChunkLedger for TLC: two reservations, two handlers that may serve the  *)
(* same one, a provider that reports up to two chunks.                     *)
EXTENDS ChunkLedger, TLC

Symmetry == Permutations(Handlers) \cup Permutations(Resv)
=============================================================================
