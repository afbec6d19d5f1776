----------------------------- MODULE MCFrostAux -----------------------------
(***************************************************************************)
(* One auxiliary node and one further verifier that only occurs in signer  *)
(* lists.  Nodes share no state, so one node shows what any node does.     *)
(* The node holds a registry snapshot at epoch 1 in which both verifiers   *)
(* are active.  Three ticks let an entry (PendingTTL = 2) become stale     *)
(* after its session's Round 1.                                            *)
(***************************************************************************)
EXTENDS FrostAux, TLC

CONSTANTS n1, v2, s1, s2, b1

MCVerifier == {n1, v2}
MCNode == {n1}
MCSession == {s1, s2}
MCBody == {b1}
MCSignerLists == {<<n1, v2>>, <<v2, n1>>}
MCConn == {1}
MCEpochs == {0, 1}
MCExpiry == 0..2
MCRegistry == [n \in MCNode |->
                 [held |-> TRUE, epoch |-> 1, active |-> MCVerifier]]

Symmetry == Permutations(MCSession)
=============================================================================
