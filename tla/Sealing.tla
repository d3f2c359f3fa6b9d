------------------------------- MODULE Sealing -------------------------------
(***************************************************************************)
(* What the consensus managers of a network promise together: a node puts  *)
(* a block to the vote, nodes sign blocks, and a block that is put to the  *)
(* vote can be sealed once, when threshold nodes have signed it.  There    *)
(* are no messages here: Consensus implements it over a network that       *)
(* loses, repeats and reorders (ImplementsSealing).                        *)
(***************************************************************************)
EXTENDS Naturals, FiniteSets

CONSTANTS Nodes, Blocks, threshold

VARIABLES
    open,       \* per node and block: put to the vote, not sealed
    sealed,     \* per node and block: how often the node has stored it
    signed      \* who has signed what

vars == <<open, sealed, signed>>

Signers(b) == {n \in Nodes : [signer |-> n, block |-> b] \in signed}

Init ==
    /\ open = [n \in Nodes |-> [b \in Blocks |-> FALSE]]
    /\ sealed = [n \in Nodes |-> [b \in Blocks |-> 0]]
    /\ signed = {}

Publish(n, b) ==
    /\ open' = [open EXCEPT ![n][b] = TRUE]
    /\ UNCHANGED <<sealed, signed>>

Sign(n, b) ==
    /\ signed' = signed \cup {[signer |-> n, block |-> b]}
    /\ UNCHANGED <<open, sealed>>

Seal(n, b) ==
    /\ open[n][b] /\ Cardinality(Signers(b)) >= threshold
    /\ open' = [open EXCEPT ![n][b] = FALSE]
    /\ sealed' = [sealed EXCEPT ![n][b] = @ + 1]
    /\ UNCHANGED signed

Next == \E n \in Nodes, b \in Blocks : Publish(n, b) \/ Sign(n, b) \/ Seal(n, b)

Spec == Init /\ [][Next]_vars
==============================================================================
