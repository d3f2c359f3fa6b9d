----------------------------- MODULE MCConsensus -----------------------------
(* Consensus for TLC: one proposer, and as many voters as the threshold. *)
EXTENDS Consensus, TLC

CONSTANTS P, V1, V2, V3, B

VoterSymmetry == Permutations({V1, V2, V3})
==============================================================================
