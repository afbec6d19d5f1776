--------------------------- MODULE MCFrostSigning ---------------------------
(***************************************************************************)
(* Small instances of the signing phase: two or three nodes, up to four    *)
(* sessions, of which MaxOpen are opened in a run.  MaxNonce leaves room   *)
(* for every Round-1 call, so that the bound never blocks a node.          *)
(***************************************************************************)
EXTENDS FrostSigning, TLC

CONSTANTS n1, n2, n3, s1, s2, s3, s4

TwoNodes == {n1, n2}
ThreeNodes == {n1, n2, n3}
OneSession == {s1}
FourSessions == {s1, s2, s3, s4}

Pair == <<n1, n2>>
Triple == <<n1, n2, n3>>
Twice == <<n1, n1>>
Single == <<n1>>

\* Two sessions with both nodes, one whose caller passes a node twice, and one
\* with too few transports.
MixedLists == [s \in Session |-> CASE s \in {s1, s2} -> Pair
                                   [] s = s3 -> Twice
                                   [] s = s4 -> Single]
TripleLists == [s \in Session |-> Triple]

AllLists == {Pair, Twice, Single}
ListTriple == {Triple}
Conns == 1..3

\* s1 and s2 are alike.
Alike == Permutations({s1, s2})

MCEpochs == {0}
MCExpiry == 0..8
NoRegistry == [n \in Node |-> [held |-> FALSE, epoch |-> 0, active |-> {}]]

NodeFaults == {"timeout", "restart"}
AllFaults == {"timeout", "restart", "crash", "prepare"}
=============================================================================
