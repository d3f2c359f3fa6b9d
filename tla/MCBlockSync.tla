----------------------------- MODULE MCBlockSync -----------------------------
(* BlockSync for TLC: the chains the nodes start with. *)
EXTENDS BlockSync, TLC

CONSTANTS A, B, C

\* Three different chains: B has only a part of what A asks for.
AllDiffer == (A :> 0) @@ (B :> 1) @@ (C :> 2)

\* Two nodes, one without blocks and one with more than two chunks of them.
OneBehind == (A :> 0) @@ (B :> 5)

\* Numbers with one and with two digits.
NineAndTen == (A :> 9) @@ (B :> 10)

Same == (A :> 1) @@ (B :> 1)

\* Hashes stored as integers: none, or that of one block.
NoneConverted == [n \in Nodes |-> {}]
OneOfC == [n \in Nodes |-> IF n = C THEN {1} ELSE {}]

\* Packets with all the keys that are read, and packets that lack one.
FullBlocks == {{"block", "blocks"}}
FullTxs == {{"transaction", "transactions"}}
ReadmeTxs == {{"transaction"}}
AnyBlocks == FullBlocks \cup {{"blocks"}}
AnyTxs == FullTxs \cup ReadmeTxs
==============================================================================
