----------------------------- MODULE DkgProofs -----------------------------
(***************************************************************************)
(* Proofs about key generation, for any participants, lists, ceremonies,   *)
(* slices and registry histories.                                          *)
(*                                                                         *)
(* The argument follows the Round-1 packages.  A polynomial is sent once,  *)
(* and once a ceremony has left part1 its packages are fixed: it is sealed.*)
(* A node that passed part2 holds exactly the other packages of one sealed *)
(* ceremony, and its list is the one the identifiers in them determine.    *)
(* part3 compares shares with these packages, so shares of one ceremony    *)
(* are accepted only by nodes of that ceremony, and give its key.          *)
(*                                                                         *)
(* Type correctness and the success of ceremonies and deliveries need more *)
(* than this invariant: how many polynomials a node has drawn, and that    *)
(* the shares of the nodes that passed part2 are complete.                 *)
(***************************************************************************)
EXTENDS Dkg, FiniteSetTheorems, TLAPS

\* The Round-1 packages of a ceremony.
Of(c) == {m \in sent : m.c = c}

\* The group key they determine.
KeyOf(M) == {<<m.p, m.poly>> : m \in M}

\* The list numbers the senders of M the way the packages say.
Fits(list, M) ==
  /\ list \in Lists /\ IsInjective(list)
  /\ Range(list) = {m.p : m \in M}
  /\ \A m \in M : m.id = vid_to_identifier(list, m.p)

\* No package will be added to ceremony c.
Sealed(c) == c \in used /\ (run.step = "part1" => run.c # c)

NodeStates == {"none", "Initial", "AfterPart1", "AfterPart2", "Completed", "Failed"}

NodeType == [gen : Nat, state : NodeStates, list : Lists \cup {<<>>}, poly : Nat,
             r1 : SUBSET sent]

\* The checks of FrostDkgNode::new hold for the node n of p.
NodeFits(p, n) ==
  /\ n.gen = 0 => n.state = "none"
  /\ n.gen # 0 => /\ n.list \in Lists /\ IsInjective(n.list)
                  /\ Len(n.list) >= 2 /\ p \in Range(n.list)

NodesOK ==
  /\ nodes \in [Participant -> NodeType] /\ drawn \in [Participant -> Nat]
  /\ \A p \in Participant : NodeFits(p, nodes[p])

SentOK ==
  /\ IsFiniteSet(sent)
  /\ \A m \in sent : /\ m.p \in Participant /\ m.c \in used
                     /\ m.poly \in Nat /\ m.poly <= drawn[m.p]
  /\ \A m1, m2 \in sent :
       m1.p = m2.p /\ (m1.poly = m2.poly \/ m1.c = m2.c) => m1 = m2

\* The package of node q in ceremony c.
OwnSent(q, c) ==
  \E m \in Of(c) : /\ m.p = q /\ m.poly = nodes[q].poly
                   /\ m.id = vid_to_identifier(nodes[q].list, q)

\* The share u belongs to a package of ceremony c.
Genuine(u, c) == \E m \in Of(c) : m.p = u.from /\ m.poly = u.poly

\* The participants in S are admitted by a snapshot of the epoch of b.
BoundOK(b, S) ==
  /\ S \subseteq DOMAIN b.by
  /\ \E r \in Range(regs) :
       /\ r.epoch = b.epoch
       /\ \A p \in S : get_active(r, p) /\ b.by[p].key = r.key[p]

RunFields == {"step", "kind", "c", "slice", "todo", "enc", "bound", "uni", "outs"}

RunOK ==
  Running =>
    /\ DOMAIN run = RunFields
    /\ run.c \in used /\ run.slice \subseteq Participant /\ run.todo \subseteq run.slice
    /\ \A q \in run.slice : nodes[q].gen # 0
    /\ \A m \in Of(run.c) : /\ m.p \in run.slice
                            /\ run.step = "part1" => m.p \notin run.todo
    /\ \A q \in run.slice :
         (run.step = "part1" => q \notin run.todo) => OwnSent(q, run.c)
    /\ \A u \in run.uni : Genuine(u, run.c)
    /\ \A b \in run.bound : BoundOK(b, run.slice)
    /\ run.step = "part1" => run.outs = {}

\* Node q passed part2 in a sealed ceremony.
Accepted(q) ==
  \E c \in used :
    /\ Sealed(c) /\ OwnSent(q, c)
    /\ nodes[q].r1 = {m \in Of(c) : m.p # q}
    /\ Fits(nodes[q].list, Of(c))

AcceptedOK ==
  \A q \in Participant : nodes[q].state = "AfterPart2" => Accepted(q)

DeliveryOK(d) == Sealed(d.c) /\ \A u \in d.packages : Genuine(u, d.c)

OutputOK(o) ==
  /\ Sealed(o.c) /\ o.key = KeyOf(Of(o.c)) /\ Fits(o.list, Of(o.c))
  /\ o.p \in Participant /\ o.gen \in Nat /\ o.gen <= nodes[o.p].gen
  /\ nodes[o.p].gen = o.gen => nodes[o.p].state = "Completed"
  /\ \A b \in o.bound : BoundOK(b, Range(o.list))

OutputsOK ==
  /\ \A o \in outputs : OutputOK(o)
  /\ Running => \A o \in run.outs : OutputOK(o)

Snapshot == [epoch : Nat, status : [Participant -> Statuses],
             key : [Participant -> Nat]]

\* Epochs increase, so an epoch belongs to one snapshot.
RegsOK ==
  /\ regs \in Seq(Snapshot)
  /\ regs # <<>>
  /\ \A i, j \in DOMAIN regs : i < j => regs[i].epoch < regs[j].epoch

DkgInv ==
  /\ NodesOK /\ SentOK /\ RunOK /\ AcceptedOK /\ OutputsOK /\ RegsOK
  /\ \A d \in deliveries : DeliveryOK(d)
-----------------------------------------------------------------------------
(* Lists and identifiers.                                                  *)

\* A participant is at the position that is its identifier.
LEMMA IdentifierPosition ==
  ASSUME NEW list, NEW p \in Range(list)
  PROVE  vid_to_identifier(list, p) \in DOMAIN list /\ list[vid_to_identifier(list, p)] = p
  BY Zenon DEF vid_to_identifier, Range

\* In a list without duplicates the participant at a position has no other
\* identifier.
LEMMA PositionIdentifier ==
  ASSUME NEW list, IsInjective(list), NEW i \in DOMAIN list
  PROVE  vid_to_identifier(list, list[i]) = i
<1>1. list[i] \in Range(list)
  BY Zenon DEF Range
<1> QED
  BY <1>1, IdentifierPosition, Zenon DEF IsInjective

\* The packages of a ceremony determine the list.
LEMMA FitsUnique ==
  ASSUME NEW M, NEW l1, NEW l2, Fits(l1, M), Fits(l2, M)
  PROVE  l1 = l2
<1>1. ASSUME NEW la, NEW lb, Fits(la, M), Fits(lb, M), NEW i \in DOMAIN la
      PROVE  i \in DOMAIN lb /\ lb[i] = la[i]
  <2>1. PICK m \in M : m.p = la[i]
    BY <1>1 DEF Fits, Range
  <2>2. m.id = i
    BY <1>1, <2>1, PositionIdentifier, Zenon DEF Fits
  <2>3. m.p \in Range(lb) /\ m.id = vid_to_identifier(lb, m.p)
    BY <1>1, Zenon DEF Fits
  <2> QED
    BY <2>1, <2>2, <2>3, IdentifierPosition, Zenon
<1>2. l1 \in Seq(Range(l1)) /\ l2 \in Seq(Range(l2))
  BY DkgAssumption, Zenon DEF Fits
<1>3. DOMAIN l1 = DOMAIN l2
  BY <1>1, Zenon
<1>4. \A i \in DOMAIN l1 : l1[i] = l2[i]
  BY <1>1
<1>5. /\ l1 = [i \in DOMAIN l1 |-> l1[i]]
      /\ l2 = [i \in DOMAIN l2 |-> l2[i]]
  BY <1>2
<1> QED
  BY <1>3, <1>4, <1>5, Zenon

\* A set of participants of a list that has as many elements as the list is
\* all of them.
LEMMA AllOfList ==
  ASSUME NEW list, list \in Seq(Range(list)), IsInjective(list),
         NEW S, S \subseteq Range(list), Cardinality(S) = Len(list)
  PROVE  S = Range(list)
<1>0. Len(list) \in Nat
  OBVIOUS
<1>1. IsFiniteSet(1..Len(list)) /\ Cardinality(1..Len(list)) = Len(list)
  <2>1. ASSUME NEW n \in Nat
        PROVE  IsFiniteSet(1..n) /\ Cardinality(1..n) = n
    <3>0. 1 \in Int /\ n \in Int
      OBVIOUS
    <3>1. IsFiniteSet(1..n) /\ Cardinality(1..n) = IF 1 > n THEN 0 ELSE n - 1 + 1
      BY <3>0, FS_Interval, Zenon
    <3> QED
      BY <3>1
  <2> QED
    BY <1>0, <2>1, Zenon
<1>2. DOMAIN list = 1..Len(list)
  OBVIOUS
<1>3. IsFiniteSet(Range(list)) /\ Cardinality(Range(list)) <= Len(list)
  <2>1. list \in Surjection(1..Len(list), Range(list))
    BY <1>2 DEF Surjection, Range
  <2> QED
    BY <1>1, <2>1, FS_Surjection
<1> QED
  BY <1>3, FS_Subset, FS_CardinalityType

\* Packages of different senders are as many as their senders.
LEMMA SenderCount ==
  ASSUME NEW M, IsFiniteSet(M), \A m1, m2 \in M : m1.p = m2.p => m1 = m2
  PROVE  /\ IsFiniteSet({m.p : m \in M})
         /\ Cardinality({m.p : m \in M}) = Cardinality(M)
<1> DEFINE S == {m.p : m \in M}
           f == [m \in M |-> m.p]
<1>1. f \in Surjection(M, S)
  BY Zenon DEF Surjection
<1>2. f \in Injection(M, S)
  BY Zenon DEF Injection, IsInjective
<1> QED
  BY <1>1, <1>2, FS_Surjection, Zenon

\* A list that part2 accepts fits all packages of the ceremony.
LEMMA Part2Fits ==
  ASSUME NEW list \in Lists, IsInjective(list),
         NEW M, IsFiniteSet(M), \A m1, m2 \in M : m1.p = m2.p => m1 = m2,
         NEW own \in M, own.p \in Range(list),
         own.id = vid_to_identifier(list, own.p),
         \A m \in M : m.p # own.p => m.p \in Range(list),
         dkg_part2(list, {m \in M : m.p # own.p})
  PROVE  Fits(list, M)
<1> DEFINE others == {m \in M : m.p # own.p}
           S == {m.p : m \in M}
<1>1. list \in Seq(Range(list)) /\ Len(list) \in Nat
  BY DkgAssumption
<1>2. M = others \cup {own} /\ own \notin others
  BY Zenon
<1>3. IsFiniteSet(others)
  BY <1>2, FS_Subset, Zenon
<1>4. Cardinality(others \cup {own}) = Cardinality(others) + 1
  BY <1>2, <1>3, FS_AddElement, Zenon
<1>5. Cardinality(others) = Len(list) - 1
  BY Zenon DEF dkg_part2
<1>6. Cardinality(S) = Len(list)
  <2>1. Cardinality(S) = Cardinality(M)
    BY SenderCount, Zenon
  <2>2. Cardinality(M) = Cardinality(others) + 1
    BY <1>2, <1>4, Zenon
  <2> HIDE DEF S, others
  <2> QED
    BY <1>1, <1>5, <2>1, <2>2
<1>7. S \subseteq Range(list)
  BY Zenon
<1>8. S = Range(list)
  BY <1>1, <1>6, <1>7, AllOfList, Zenon
<1>9. \A m \in M : m.id = vid_to_identifier(list, m.p)
  BY Zenon DEF dkg_part2
<1> QED
  BY <1>8, <1>9, Zenon DEF Fits

\* What Advance does to the ceremony's record.
LEMMA AdvanceFields ==
  ASSUME NEW r, DOMAIN r = RunFields, NEW p, NEW step
  PROVE  /\ DOMAIN Advance(r, p, step) = RunFields
         /\ Advance(r, p, step).c = r.c /\ Advance(r, p, step).slice = r.slice
         /\ Advance(r, p, step).uni = r.uni /\ Advance(r, p, step).outs = r.outs
         /\ Advance(r, p, step).bound = r.bound
         /\ \/ /\ r.todo = {p} /\ Advance(r, p, step).todo = r.slice
               /\ Advance(r, p, step).step = step
            \/ /\ r.todo # {p} /\ Advance(r, p, step).todo = r.todo \ {p}
               /\ Advance(r, p, step).step = r.step
  BY Zenon DEF Advance, RunFields
-----------------------------------------------------------------------------
(* What every step keeps.                                                  *)

\* Sealed ceremonies stay as they are, nodes are only replaced by newer ones
\* and stay completed, snapshots stay in circulation.
Kept ==
  /\ \A c : Sealed(c) => Sealed(c)' /\ Of(c)' = Of(c)
  /\ \A q \in Participant :
       /\ nodes'[q].gen \in Nat /\ nodes[q].gen <= nodes'[q].gen
       /\ nodes'[q].gen = nodes[q].gen /\ nodes[q].state = "Completed"
            => nodes'[q].state = "Completed"
  /\ Range(regs) \subseteq Range(regs')

\* A share handed out stays one of its sealed ceremony.
LEMMA OutputKept ==
  ASSUME NodesOK, Kept, NEW o, OutputOK(o)
  PROVE  OutputOK(o)'
<1>1. Sealed(o.c)' /\ Of(o.c)' = Of(o.c)
  BY Zenon DEF Kept, OutputOK
<1>2. /\ o.p \in Participant /\ o.gen \in Nat /\ o.gen <= nodes'[o.p].gen
      /\ nodes'[o.p].gen = o.gen => nodes'[o.p].state = "Completed"
  BY DEF Kept, OutputOK, NodesOK, NodeType
<1>3. \A b \in o.bound : BoundOK(b, Range(o.list))'
  BY Zenon DEF Kept, OutputOK, BoundOK
<1>4. o.key = KeyOf(Of(o.c)') /\ Fits(o.list, Of(o.c)')
  BY <1>1, Zenon DEF OutputOK
<1> QED
  BY <1>1, <1>2, <1>3, <1>4, Zenon DEF OutputOK

\* A delivery stays genuine while later packages are sent.
LEMMA DeliveryKept ==
  ASSUME Kept, NEW d, DeliveryOK(d)
  PROVE  DeliveryOK(d)'
  BY Zenon DEF Kept, DeliveryOK, Genuine

\* What part2 accepted stays what its sealed ceremony sent.
LEMMA AcceptedKept ==
  ASSUME Kept, NEW q \in Participant, Accepted(q),
         nodes'[q].poly = nodes[q].poly, nodes'[q].list = nodes[q].list,
         nodes'[q].r1 = nodes[q].r1
  PROVE  Accepted(q)'
<1>1. PICK c \in used : /\ Sealed(c) /\ OwnSent(q, c)
                        /\ nodes[q].r1 = {m \in Of(c) : m.p # q}
                        /\ Fits(nodes[q].list, Of(c))
  BY Zenon DEF Accepted
<1>2. Sealed(c)' /\ Of(c)' = Of(c) /\ c \in used'
  BY <1>1, Zenon DEF Kept, Sealed
<1>3. OwnSent(q, c)'
  BY <1>1, <1>2, Zenon DEF OwnSent
<1>4. Fits(nodes'[q].list, Of(c)')
  BY <1>1, <1>2, Zenon
<1> QED
  BY <1>1, <1>2, <1>3, <1>4, Zenon DEF Accepted

\* What a ceremony is bound to stays backed by a snapshot in circulation.
LEMMA BoundKept ==
  ASSUME NEW b, NEW S, BoundOK(b, S), Range(regs) \subseteq Range(regs'), run'.slice = S
  PROVE  BoundOK(b, run.slice)'
<1>1. S \subseteq DOMAIN b.by
  BY Zenon DEF BoundOK
<1>2. \E r \in Range(regs') :
        /\ r.epoch = b.epoch
        /\ \A p \in S : get_active(r, p) /\ b.by[p].key = r.key[p]
  BY Zenon DEF BoundOK
<1> QED
  BY <1>1, <1>2, Zenon DEF BoundOK

\* A node's own package stays on record.
LEMMA OwnSentKept ==
  ASSUME NEW q, NEW c, OwnSent(q, c), Of(c)' = Of(c), run'.c = c,
         nodes'[q].poly = nodes[q].poly, nodes'[q].list = nodes[q].list
  PROVE  OwnSent(q, run.c)'
<1>1. PICK m \in Of(c) : /\ m.p = q /\ m.poly = nodes[q].poly
                         /\ m.id = vid_to_identifier(nodes[q].list, q)
  BY Zenon DEF OwnSent
<1>2. m \in Of(run.c)'
  BY <1>1, Zenon DEF Of
<1> QED
  BY <1>1, <1>2, Zenon DEF OwnSent

\* One node is replaced by n.
LEMMA NodeReplaced ==
  ASSUME NodesOK, NEW p \in Participant, NEW n, nodes' = [nodes EXCEPT ![p] = n],
         sent \subseteq sent', n \in NodeType', NodeFits(p, n),
         drawn' \in [Participant -> Nat]
  PROVE  /\ NodesOK' /\ nodes'[p] = n
         /\ \A q \in Participant : q # p => nodes'[q] = nodes[q]
<1>1. nodes'[p] = n /\ \A q \in Participant : q # p => nodes'[q] = nodes[q]
  BY Zenon DEF NodesOK
<1>2. \A q \in Participant : nodes[q] \in NodeType'
  BY Zenon DEF NodesOK, NodeType
<1>3. nodes' \in [Participant -> NodeType']
  BY <1>1, <1>2, Zenon DEF NodesOK
<1>4. \A q \in Participant : NodeFits(q, nodes'[q])
  BY <1>1, Zenon DEF NodesOK
<1> QED
  BY <1>1, <1>3, <1>4, Zenon DEF NodesOK
-----------------------------------------------------------------------------
(* The invariant holds initially and outside the ceremony's loops.         *)

\* Initially nothing was drawn, sent or announced.
LEMMA DkgInitInv == Init => DkgInv
<1> SUFFICES ASSUME Init PROVE DkgInv
  BY Zenon
<1>1. NodesOK
  BY Zenon DEF Init, NodesOK, NodeType, NodeFits, NoNode, NodeStates
<1>2. SentOK
  BY FS_EmptySet, Zenon DEF Init, SentOK
<1>3. ~ Running
  BY Zenon DEF Init, Running, Idle
<1>4. AcceptedOK
  BY Zenon DEF Init, AcceptedOK, NoNode
<1>5. RegsOK
  <2>1. Genesis \in Snapshot
    BY Zenon DEF Genesis, Statuses, Snapshot
  <2> QED
    BY <2>1 DEF Init, RegsOK
<1> QED
  BY <1>1, <1>2, <1>3, <1>4, <1>5, Zenon DEF Init, DkgInv, RunOK, OutputsOK

\* A participant starts again; only its own node changes.
LEMMA NewInv ==
  ASSUME DkgInv, NEW p \in Participant, NEW list \in Lists, new(p, list)
  PROVE  DkgInv'
<1>0. NodesOK /\ SentOK /\ RunOK /\ AcceptedOK /\ OutputsOK /\ RegsOK
  BY Zenon DEF DkgInv
<1> DEFINE n == [gen |-> nodes[p].gen + 1, state |-> "Initial", list |-> list,
                 poly |-> 0, r1 |-> {}]
<1>1. /\ nodes' = [nodes EXCEPT ![p] = n]
      /\ drawn' = drawn /\ sent' = sent /\ regs' = regs /\ run' = run /\ used' = used
      /\ deliveries' = deliveries /\ outputs' = outputs
      /\ Running => p \notin run.slice
      /\ IsInjective(list) /\ Len(list) >= 2 /\ p \in Range(list)
  BY Zenon DEF new, Free
<1>2. n \in NodeType' /\ NodeFits(p, n)
  BY <1>0, <1>1 DEF NodesOK, NodeType, NodeStates, NodeFits
<1> HIDE DEF n
<1>3. /\ NodesOK' /\ nodes'[p] = n
      /\ \A q \in Participant : q # p => nodes'[q] = nodes[q]
  BY <1>0, <1>1, <1>2, NodeReplaced, Zenon DEF NodesOK
<1>4. Kept
  <2>1. \A c : Sealed(c)' = Sealed(c) /\ Of(c)' = Of(c)
    BY <1>1, Zenon DEF Sealed, Of
  <2>2. nodes'[p].gen = nodes[p].gen + 1 /\ \A q \in Participant : nodes[q].gen \in Nat
    BY <1>0, <1>3 DEF NodesOK, NodeType, n
  <2> QED
    BY <1>1, <1>3, <2>1, <2>2 DEF Kept
<1>5. SentOK'
  BY <1>0, <1>1, Zenon DEF SentOK
<1>6. RunOK'
  BY <1>0, <1>1, <1>3 DEF RunOK, Running, OwnSent, Of, Genuine, BoundOK
<1>7. AcceptedOK'
  BY <1>0, <1>1, <1>3, <1>4, AcceptedKept DEF AcceptedOK, n
<1>8. OutputsOK'
  BY <1>0, <1>1, <1>4, OutputKept, Zenon DEF OutputsOK, Running
<1>9. RegsOK' /\ \A d \in deliveries' : DeliveryOK(d)'
  BY <1>0, <1>1, <1>4, DeliveryKept, Zenon DEF RegsOK, DkgInv
<1> QED
  BY <1>0, <1>3, <1>5, <1>6, <1>7, <1>8, <1>9, Zenon DEF DkgInv

\* Announcements are not part of the invariant, and it keeps if snapshots are
\* added.
LEMMA QuietInv ==
  ASSUME DkgInv, RegsOK', Range(regs) \subseteq Range(regs'),
         UNCHANGED <<nodes, drawn, sent, run, used, deliveries, outputs>>
  PROVE  DkgInv'
<1>0. NodesOK /\ SentOK /\ RunOK /\ AcceptedOK /\ OutputsOK
  BY Zenon DEF DkgInv
<1>1. NodesOK' /\ SentOK'
  BY <1>0, Zenon DEF NodesOK, NodeType, SentOK
<1>2. Kept
  <2>1. \A c : Sealed(c)' = Sealed(c) /\ Of(c)' = Of(c)
    BY Zenon DEF Sealed, Of
  <2>2. \A q \in Participant : nodes[q].gen \in Nat
    BY <1>0, Zenon DEF NodesOK, NodeType
  <2> QED
    BY <2>1, <2>2 DEF Kept
<1>3. RunOK'
  BY <1>0 DEF RunOK, Running, OwnSent, Of, Genuine, BoundOK
<1>4. AcceptedOK'
  BY <1>0, <1>2, AcceptedKept, Zenon DEF AcceptedOK
<1>5. OutputsOK'
  BY <1>0, <1>2, OutputKept, Zenon DEF OutputsOK, Running
<1>6. \A d \in deliveries' : DeliveryOK(d)'
  BY <1>2, DeliveryKept, Zenon DEF DkgInv
<1> QED
  BY <1>1, <1>3, <1>4, <1>5, <1>6, Zenon DEF DkgInv

\* The registry's operations make snapshots of a later epoch.
LEMMA SnapshotUpdated ==
  ASSUME NEW r \in Snapshot, NEW p, NEW e \in Nat,
         NEW s \in with_revocation(r, p, e) \cup with_retirement(r, p, e)
                   \cup with_key_rotation(r, p, r.key[p] + 1, e)
  PROVE  s \in Snapshot /\ s.epoch <= e /\ s.epoch > r.epoch
<1>1. CASE s \in with_revocation(r, p, e)
  <2> DEFINE t == [r.status EXCEPT ![p] = "Revoked"]
             k == r.key
  <2>1. /\ s = [r EXCEPT !.epoch = e, !.status[p] = "Revoked"]
        /\ e > r.epoch /\ p \in DOMAIN r.status
    BY <1>1, Zenon DEF with_revocation
  <2>2. t \in [Participant -> Statuses] /\ k \in [Participant -> Nat]
    BY <2>1, Zenon DEF Snapshot, Statuses
  <2>3. s = [epoch |-> e, status |-> t, key |-> k]
    BY <2>1, Zenon DEF Snapshot
  <2> HIDE DEF t, k
  <2> QED
    BY <2>1, <2>2, <2>3 DEF Snapshot
<1>2. CASE s \in with_retirement(r, p, e)
  <2> DEFINE t == [r.status EXCEPT ![p] = "Retired"]
             k == r.key
  <2>1. /\ s = [r EXCEPT !.epoch = e, !.status[p] = "Retired"]
        /\ e > r.epoch /\ p \in DOMAIN r.status
    BY <1>2, Zenon DEF with_retirement
  <2>2. t \in [Participant -> Statuses] /\ k \in [Participant -> Nat]
    BY <2>1, Zenon DEF Snapshot, Statuses
  <2>3. s = [epoch |-> e, status |-> t, key |-> k]
    BY <2>1, Zenon DEF Snapshot
  <2> HIDE DEF t, k
  <2> QED
    BY <2>1, <2>2, <2>3 DEF Snapshot
<1>3. CASE s \in with_key_rotation(r, p, r.key[p] + 1, e)
  <2> DEFINE t == [r.status EXCEPT ![p] = "Active"]
             k == [r.key EXCEPT ![p] = r.key[p] + 1]
  <2>1. /\ s = [r EXCEPT !.epoch = e, !.status[p] = "Active", !.key[p] = r.key[p] + 1]
        /\ e > r.epoch /\ p \in DOMAIN r.status
    BY <1>3, Zenon DEF with_key_rotation
  <2>2. t \in [Participant -> Statuses] /\ k \in [Participant -> Nat]
    BY <2>1 DEF Snapshot, Statuses
  <2>3. s = [epoch |-> e, status |-> t, key |-> k]
    BY <2>1, Zenon DEF Snapshot
  <2> HIDE DEF t, k
  <2> QED
    BY <2>1, <2>2, <2>3 DEF Snapshot
<1> QED
  BY <1>1, <1>2, <1>3, Zenon

\* A new snapshot has a higher epoch than all before it.
LEMMA UpdateInv ==
  ASSUME DkgInv, NEW p, NEW e \in 0..MaxEpoch, update_registry(p, e)
  PROVE  DkgInv'
<1> DEFINE n == Len(regs)
<1>0. NodesOK /\ SentOK /\ RunOK /\ AcceptedOK /\ OutputsOK /\ RegsOK
  BY Zenon DEF DkgInv
<1>1. /\ nodes' = nodes /\ drawn' = drawn /\ sent' = sent /\ run' = run
      /\ used' = used /\ deliveries' = deliveries /\ outputs' = outputs
  BY <1>0, Zenon DEF update_registry
<1>2. e \in Nat
  BY DkgAssumption
<1>3. /\ n \in Nat /\ n # 0 /\ regs \in Seq(Snapshot)
      /\ DOMAIN regs = 1..n /\ regs[n] \in Snapshot
  BY <1>0 DEF RegsOK
<1>4. PICK s : /\ regs' = Append(regs, s)
               /\ s \in with_revocation(regs[n], p, e) \cup with_retirement(regs[n], p, e)
                        \cup with_key_rotation(regs[n], p, regs[n].key[p] + 1, e)
  BY <1>0, Zenon DEF update_registry
<1>a. s \in Snapshot /\ s.epoch > regs[n].epoch
  BY <1>0, <1>2, <1>3, <1>4, SnapshotUpdated, Zenon
<1>5. /\ regs' \in Seq(Snapshot) /\ regs' # <<>>
      /\ DOMAIN regs' = 1..(n + 1)
      /\ \A i \in DOMAIN regs : regs'[i] = regs[i]
      /\ regs'[n + 1] = s
  BY <1>0, <1>3, <1>4, <1>a
<1>6. RegsOK'
  <2> HIDE DEF n
  <2>1. \A i \in DOMAIN regs : regs[i].epoch \in Nat /\ regs[i].epoch <= regs[n].epoch
    <3>1. \A i \in DOMAIN regs : regs[i] \in Snapshot
      BY <1>3
    <3>2. \A i \in DOMAIN regs : i = n \/ i < n
      BY <1>3
    <3> QED
      <4>1. \A i \in DOMAIN regs : regs[i].epoch \in Nat
        BY <3>1, Zenon DEF Snapshot
      <4>2. n \in DOMAIN regs
        BY <1>3
      <4>3. \A i, j \in DOMAIN regs : i < j => regs[i].epoch < regs[j].epoch
        BY <1>0, Zenon DEF RegsOK
      <4> QED
        BY <3>2, <4>1, <4>2, <4>3
  <2>2. ASSUME NEW i \in DOMAIN regs', NEW j \in DOMAIN regs', i < j
        PROVE  regs'[i].epoch < regs'[j].epoch
    <3>1. i \in DOMAIN regs
      BY <1>3, <1>5, <2>2
    <3>2. CASE j \in DOMAIN regs
      BY <1>0, <1>5, <2>2, <3>1, <3>2, Zenon DEF RegsOK
    <3>3. CASE j = n + 1
      BY <1>3, <1>a, <1>5, <2>1, <3>1, <3>3 DEF Snapshot
    <3> QED
      BY <1>3, <1>5, <3>2, <3>3
  <2> QED
    BY <1>5, <2>2, Zenon DEF RegsOK
<1>7. Range(regs) \subseteq Range(regs')
  BY <1>0, <1>3, <1>5 DEF Range
<1> QED
  BY <1>1, <1>6, <1>7, QuietInv, Zenon

\* A ceremony begins under a fresh id, which no package has yet.
LEMMA BeginInv ==
  ASSUME DkgInv, NEW kind, NEW c, NEW ps \in SUBSET Participant, NEW enc, NEW bound,
         Begin(kind, c, ps, enc, bound), \A b \in bound : BoundOK(b, ps)
  PROVE  DkgInv'
<1>0. NodesOK /\ SentOK /\ AcceptedOK /\ OutputsOK /\ RegsOK
  BY Zenon DEF DkgInv
<1>1. /\ ~ Running /\ c \notin used /\ \A p \in ps : nodes[p].gen # 0
      /\ used' = used \cup {c}
      /\ UNCHANGED <<nodes, drawn, sent, regs, deliveries, outputs>>
  BY Zenon DEF Begin
<1>2. /\ DOMAIN run' = RunFields /\ run'.step = "part1" /\ run'.c = c
      /\ run'.slice = ps /\ run'.todo = ps /\ run'.bound = bound
      /\ run'.uni = {} /\ run'.outs = {}
  BY Zenon DEF Begin, RunFields
<1>3. Of(c)' = {}
  BY <1>0, <1>1, Zenon DEF Of, SentOK
<1>4. NodesOK' /\ SentOK' /\ RegsOK'
  BY <1>0, <1>1, Zenon DEF NodesOK, NodeType, SentOK, RegsOK
<1>5. Kept
  <2>1. \A x : Sealed(x) => Sealed(x)' /\ Of(x)' = Of(x)
    BY <1>1, <1>2, Zenon DEF Sealed, Of
  <2>2. \A q \in Participant : nodes[q].gen \in Nat
    BY <1>0, Zenon DEF NodesOK, NodeType
  <2> QED
    BY <1>1, <2>1, <2>2 DEF Kept
<1>6. RunOK'
  <2>1. \A b \in run'.bound : BoundOK(b, run.slice)'
    BY <1>1, <1>2, BoundKept, Zenon
  <2> QED
    BY <1>1, <1>2, <1>3, <2>1, Zenon DEF RunOK
<1>7. AcceptedOK'
  BY <1>0, <1>1, <1>5, AcceptedKept, Zenon DEF AcceptedOK
<1>8. OutputsOK'
  BY <1>0, <1>1, <1>2, <1>5, OutputKept, Zenon DEF OutputsOK
<1>9. \A d \in deliveries' : DeliveryOK(d)'
  BY <1>1, <1>5, DeliveryKept, Zenon DEF DkgInv
<1> QED
  BY <1>4, <1>6, <1>7, <1>8, <1>9, Zenon DEF DkgInv

\* A node that is in use changes its state and nothing else.
LEMMA StateSet ==
  ASSUME NodesOK, NEW p \in Participant, NEW x \in NodeStates, nodes[p].gen # 0,
         nodes' = [nodes EXCEPT ![p].state = x], UNCHANGED <<sent, drawn>>
  PROVE  /\ NodesOK'
         /\ \A q \in Participant : q # p => nodes'[q] = nodes[q]
         /\ nodes'[p].state = x /\ nodes'[p].gen = nodes[p].gen
         /\ nodes'[p].list = nodes[p].list /\ nodes'[p].poly = nodes[p].poly
         /\ nodes'[p].r1 = nodes[p].r1
<1> DEFINE n == [nodes[p] EXCEPT !.state = x]
<1>1. nodes' = [nodes EXCEPT ![p] = n]
  BY Zenon DEF NodesOK
<1>2. nodes[p] \in NodeType /\ NodeFits(p, nodes[p])
  BY Zenon DEF NodesOK
<1>3. /\ n \in NodeType' /\ n.state = x /\ n.gen = nodes[p].gen
      /\ n.list = nodes[p].list /\ n.poly = nodes[p].poly /\ n.r1 = nodes[p].r1
  BY <1>2, Zenon DEF NodeType
<1> HIDE DEF n
<1>4. NodeFits(p, n)
  BY <1>2, <1>3, Zenon DEF NodeFits
<1> QED
  BY <1>1, <1>3, <1>4, NodeReplaced, Zenon DEF NodesOK

\* At most one node finishes, and no ceremony goes back to part1.
LEMMA FinishKept ==
  ASSUME DkgInv, NEW p \in Participant, nodes[p].gen # 0,
         run' = run \/ run'.step # "part1", UNCHANGED <<sent, drawn, used, regs>>,
         \/ nodes' = nodes
         \/ /\ nodes[p].state # "Completed"
            /\ \E x \in {"Failed", "Completed"} : nodes' = [nodes EXCEPT ![p].state = x]
  PROVE  /\ NodesOK' /\ SentOK' /\ AcceptedOK' /\ RegsOK' /\ Kept
         /\ \A q \in Participant :
              /\ nodes'[q].gen = nodes[q].gen /\ nodes'[q].list = nodes[q].list
              /\ nodes'[q].poly = nodes[q].poly
<1>0. NodesOK /\ SentOK /\ AcceptedOK /\ RegsOK
  BY Zenon DEF DkgInv
<1>1. /\ NodesOK' /\ \A q \in Participant :
           /\ nodes'[q].gen = nodes[q].gen /\ nodes'[q].list = nodes[q].list
           /\ nodes'[q].poly = nodes[q].poly /\ nodes'[q].r1 = nodes[q].r1
           /\ \/ nodes'[q].state = nodes[q].state
              \/ /\ nodes[q].state # "Completed"
                 /\ nodes'[q].state \in {"Failed", "Completed"}
  <2>1. CASE nodes' = nodes
    BY <1>0, <2>1, Zenon DEF NodesOK, NodeType
  <2>2. CASE /\ nodes[p].state # "Completed"
             /\ \E x \in {"Failed", "Completed"} : nodes' = [nodes EXCEPT ![p].state = x]
    <3>1. PICK x \in {"Failed", "Completed"} : nodes' = [nodes EXCEPT ![p].state = x]
      BY <2>2, Zenon
    <3>2. x \in NodeStates
      BY Zenon DEF NodeStates
    <3>3. /\ NodesOK'
          /\ \A q \in Participant : q # p => nodes'[q] = nodes[q]
          /\ nodes'[p].state = x /\ nodes'[p].gen = nodes[p].gen
          /\ nodes'[p].list = nodes[p].list /\ nodes'[p].poly = nodes[p].poly
          /\ nodes'[p].r1 = nodes[p].r1
      BY <1>0, <3>1, <3>2, StateSet, Zenon
    <3> QED
      BY <2>2, <3>3, Zenon
  <2> QED
    BY <2>1, <2>2, Zenon
<1>2. SentOK' /\ RegsOK'
  BY <1>0, Zenon DEF SentOK, RegsOK
<1>4. Kept
  <2>1. \A c : Sealed(c) => Sealed(c)' /\ Of(c)' = Of(c)
    BY Zenon DEF Sealed, Of
  <2>2. \A q \in Participant : nodes[q].gen \in Nat
    BY <1>0, Zenon DEF NodesOK, NodeType
  <2> QED
    BY <1>1, <2>1, <2>2 DEF Kept
<1>5. AcceptedOK'
  BY <1>0, <1>1, <1>4, AcceptedKept, Zenon DEF AcceptedOK
<1> QED
  BY <1>1, <1>2, <1>4, <1>5, Zenon

\* A ceremony ends without giving anything out.
LEMMA FailInv ==
  ASSUME DkgInv, NEW p \in Participant, nodes[p].gen # 0, Fail,
         UNCHANGED <<sent, drawn, used, regs, deliveries, outputs>>,
         \/ nodes' = nodes
         \/ /\ nodes[p].state # "Completed"
            /\ \E x \in {"Failed", "Completed"} : nodes' = [nodes EXCEPT ![p].state = x]
  PROVE  DkgInv'
<1>1. run'.step = "err"
  BY Zenon DEF Fail
<1>2. NodesOK' /\ SentOK' /\ AcceptedOK' /\ RegsOK' /\ Kept
  BY <1>1, FinishKept, Zenon
<1>3. ~ Running' /\ RunOK'
  BY <1>1, Zenon DEF RunOK, Running
<1>4. OutputsOK'
  BY <1>2, <1>3, OutputKept, Zenon DEF OutputsOK, DkgInv
<1>5. \A d \in deliveries' : DeliveryOK(d)'
  BY <1>2, DeliveryKept, Zenon DEF DkgInv
<1> QED
  BY <1>2, <1>3, <1>4, <1>5, Zenon DEF DkgInv

\* The entry points; only the last one binds the ceremony to a snapshot.
LEMMA EntryInv ==
  ASSUME DkgInv, NEW c, NEW ps \in Slices,
         \/ run_dkg_ceremony(c, ps)
         \/ run_dkg_ceremony_encrypted(c, ps)
         \/ run_dkg_ceremony_with_authenticated_keys(c, ps)
         \/ build_dkg_network_messages(c, ps)
         \/ run_dkg_ceremony_with_registry(c, ps)
  PROVE  DkgInv'
<1>0. ps \in SUBSET Participant
  BY DkgAssumption, Zenon
<1>1. ASSUME NEW kind, NEW enc, NEW bound, bound = {}, Begin(kind, c, ps, enc, bound)
      PROVE  DkgInv'
  <2>1. \A b \in bound : BoundOK(b, ps)
    BY <1>1, Zenon
  <2> QED
    BY <1>0, <1>1, <2>1, BeginInv, Zenon
<1>2. CASE run_dkg_ceremony_with_registry(c, ps)
  <2>1. PICK r \in Range(regs), e \in 0..MaxEpoch :
          /\ check_ceremony_admission(r, e, ps)
          /\ \E f \in collect_verified_enc_keys(to_dkg_registry(r), c, ps) :
               Begin("encrypted", c, ps, own_keys(ps), {[epoch |-> e, by |-> f]})
    BY <1>2, Zenon DEF run_dkg_ceremony_with_registry
  <2>2. PICK f \in collect_verified_enc_keys(to_dkg_registry(r), c, ps) :
          Begin("encrypted", c, ps, own_keys(ps), {[epoch |-> e, by |-> f]})
    BY <2>1, Zenon
  <2>3. DOMAIN f = ps /\ \A p \in ps : f[p].key = r.key[p]
    BY Zenon DEF collect_verified_enc_keys, to_dkg_registry
  <2>4. r.epoch = e /\ \A p \in ps : get_active(r, p)
    BY <2>1, Zenon DEF check_ceremony_admission
  <2>5. BoundOK([epoch |-> e, by |-> f], ps)
    BY <2>3, <2>4, Zenon DEF BoundOK
  <2>6. \A b \in {[epoch |-> e, by |-> f]} : BoundOK(b, ps)
    BY <2>5, Zenon
  <2> QED
    BY <1>0, <2>2, <2>6, BeginInv, Zenon
<1> QED
  BY <1>1, <1>2, Zenon DEF run_dkg_ceremony, run_dkg_ceremony_encrypted,
    run_dkg_ceremony_with_authenticated_keys, build_dkg_network_messages
-----------------------------------------------------------------------------
(* The loops of a ceremony.                                                *)

\* part1 of a node: its package is the first with the new polynomial, and the
\* first of the node in this ceremony, which is not sealed yet.
LEMMA Part1Inv ==
  ASSUME DkgInv, NEW p \in Participant, ceremony_part1(p)
  PROVE  DkgInv'
<1>0. NodesOK /\ SentOK /\ RunOK /\ AcceptedOK /\ OutputsOK /\ RegsOK
  BY Zenon DEF DkgInv
<1>1. /\ run.step = "part1" /\ Running /\ p \in run.todo
      /\ UNCHANGED <<regs, used, deliveries, outputs>>
  BY Zenon DEF ceremony_part1, Running
<1>2. /\ DOMAIN run = RunFields /\ run.c \in used /\ run.slice \subseteq Participant
      /\ run.todo \subseteq run.slice /\ p \in run.slice
      /\ \A q \in run.slice : nodes[q].gen # 0
      /\ \A m \in Of(run.c) : m.p \in run.slice /\ m.p \notin run.todo
      /\ \A q \in run.slice : q \notin run.todo => OwnSent(q, run.c)
      /\ run.outs = {}
  BY <1>0, <1>1, Zenon DEF RunOK
<1>3. CASE Fail /\ UNCHANGED <<nodes, drawn, sent>>
  BY <1>1, <1>2, <1>3, FailInv, Zenon
<1>4. CASE nodes[p].state = "Initial" /\ Broadcast(p, drawn[p] + 1)
  <2> DEFINE poly == drawn[p] + 1
             id == vid_to_identifier(nodes[p].list, p)
             mm == [c |-> run.c, p |-> p, poly |-> poly, id |-> id]
             n == [nodes[p] EXCEPT !.state = "AfterPart1", !.poly = poly]
  <2>1. drawn[p] \in Nat /\ poly \in Nat /\ poly > drawn[p]
    BY <1>0 DEF NodesOK
  <2>2. /\ nodes' = [nodes EXCEPT ![p] = n]
        /\ drawn' = [drawn EXCEPT ![p] = poly]
        /\ sent' = sent \cup {mm} /\ run' = Advance(run, p, "part2")
    BY <1>0, <1>4, <2>1, Zenon DEF Broadcast, NodesOK
  <2>3. /\ n \in NodeType' /\ n.state = "AfterPart1" /\ n.gen = nodes[p].gen
        /\ n.list = nodes[p].list /\ n.poly = poly
    <3>1. nodes[p] \in NodeType
      BY <1>0, Zenon DEF NodesOK
    <3> QED
      BY <2>1, <2>2, <3>1, Zenon DEF NodeType, NodeStates
  <2>4. mm.c = run.c /\ mm.p = p /\ mm.poly = poly /\ mm.id = id
    OBVIOUS
  <2> HIDE DEF n, mm, poly, id
  <2>5. drawn' \in [Participant -> Nat] /\ \A q \in Participant : drawn[q] <= drawn'[q]
    BY <1>0, <2>1, <2>2 DEF NodesOK
  <2>6. /\ NodesOK' /\ nodes'[p] = n
        /\ \A q \in Participant : q # p => nodes'[q] = nodes[q]
    <3>1. NodeFits(p, n)
      BY <1>0, <1>2, <2>3, Zenon DEF NodesOK, NodeFits
    <3> QED
      BY <1>0, <2>2, <2>3, <2>5, <3>1, NodeReplaced, Zenon
  <2>7. SentOK'
    <3>1. IsFiniteSet(sent')
      BY <1>0, <2>2, FS_AddElement, Zenon DEF SentOK
    <3>2. \A m \in sent : m.poly \in Nat /\ drawn'[m.p] \in Nat /\ m.poly <= drawn'[m.p]
      BY <1>0, <2>5 DEF SentOK, NodesOK
    <3>3. mm.poly <= drawn'[mm.p]
      BY <1>0, <2>1, <2>2, <2>4 DEF NodesOK
    <3>4. \A m \in sent : m.p = p => m.poly # poly /\ m.c # run.c
      BY <1>0, <1>1, <1>2, <2>1 DEF SentOK, Of
    <3>5. \A m \in sent' : /\ m.p \in Participant /\ m.c \in used'
                           /\ m.poly \in Nat /\ m.poly <= drawn'[m.p]
      <4>1. \A m \in sent : m.p \in Participant /\ m.c \in used'
        BY <1>0, <1>1, Zenon DEF SentOK
      <4>2. mm.p \in Participant /\ mm.c \in used' /\ mm.poly \in Nat
        BY <1>1, <1>2, <2>1, <2>4, Zenon
      <4> QED
        BY <2>2, <3>2, <3>3, <4>1, <4>2, Zenon
    <3>6. \A m1, m2 \in sent' :
            m1.p = m2.p /\ (m1.poly = m2.poly \/ m1.c = m2.c) => m1 = m2
      BY <1>0, <2>2, <2>4, <3>4 DEF SentOK
    <3> QED
      BY <3>1, <3>5, <3>6, Zenon DEF SentOK
  <2>8. /\ DOMAIN run' = RunFields /\ run'.c = run.c /\ run'.slice = run.slice
        /\ run'.uni = run.uni /\ run'.outs = run.outs /\ run'.bound = run.bound
        /\ \/ run.todo = {p} /\ run'.todo = run.slice /\ run'.step = "part2"
           \/ run.todo # {p} /\ run'.todo = run.todo \ {p} /\ run'.step = "part1"
    BY <1>1, <1>2, <2>2, Zenon DEF Advance, RunFields
  <2>9. /\ Of(run.c)' = Of(run.c) \cup {mm}
        /\ \A c : c # run.c => Of(c)' = Of(c)
    BY <2>2, <2>4, <2>8, Zenon DEF Of
  <2>10. Kept
    <3>1. \A c : Sealed(c) => Sealed(c)' /\ Of(c)' = Of(c)
      BY <1>1, <2>8, <2>9, Zenon DEF Sealed
    <3>2. \A q \in Participant : nodes[q].gen \in Nat
      BY <1>0, Zenon DEF NodesOK, NodeType
    <3>3. \A q \in Participant :
            /\ nodes'[q].gen = nodes[q].gen
            /\ nodes[q].state = "Completed" => nodes'[q].state = "Completed"
      BY <1>4, <2>3, <2>6, Zenon
    <3> QED
      BY <1>1, <3>1, <3>2, <3>3 DEF Kept
  <2>11. RunOK'
    <3>1. \A q \in run.slice : nodes'[q].gen # 0
      BY <1>2, <2>3, <2>6, Zenon
    <3>2. \A m \in Of(run.c)' : m.p \in run.slice /\ (run'.step = "part1" => m.p \notin run'.todo)
      BY <1>2, <2>4, <2>8, <2>9
    <3>3. ASSUME NEW q \in run.slice, run'.step = "part1" => q \notin run'.todo
          PROVE  OwnSent(q, run.c)'
      <4>1. CASE q = p
        BY <2>3, <2>4, <2>6, <2>8, <2>9, <4>1 DEF OwnSent, id
      <4>2. CASE q # p
        <5>1. OwnSent(q, run.c)
          BY <1>2, <2>8, <3>3, <4>2, Zenon
        <5>2. nodes'[q] = nodes[q]
          BY <1>2, <2>6, <4>2, Zenon
        <5> QED
          BY <2>8, <2>9, <5>1, <5>2, Zenon DEF OwnSent
      <4> QED
        BY <4>1, <4>2, Zenon
    <3>4. \A u \in run.uni : Genuine(u, run.c)'
      BY <1>0, <1>1, <2>8, <2>9, Zenon DEF RunOK, Genuine
    <3>5. \A b \in run.bound : BoundOK(b, run.slice)'
      BY <1>0, <1>1, <2>8, BoundKept DEF RunOK
    <3>6. run'.todo \subseteq run'.slice
      BY <1>2, <2>8, Zenon
    <3> QED
      BY <1>1, <1>2, <2>8, <3>1, <3>2, <3>3, <3>4, <3>5, <3>6, Zenon DEF RunOK
  <2>12. AcceptedOK'
    <3> SUFFICES ASSUME NEW q \in Participant, nodes'[q].state = "AfterPart2"
                 PROVE  Accepted(q)'
      BY DEF AcceptedOK
    <3>1. nodes'[q] = nodes[q]
      BY <2>3, <2>6, Zenon
    <3> QED
      BY <1>0, <2>10, <3>1, AcceptedKept, Zenon DEF AcceptedOK
  <2>13. OutputsOK'
    BY <1>0, <1>1, <1>2, <2>8, <2>10, OutputKept, Zenon DEF OutputsOK
  <2>14. \A d \in deliveries' : DeliveryOK(d)'
    BY <1>1, <2>10, DeliveryKept DEF DkgInv
  <2>15. RegsOK'
    BY <1>0, <1>1, Zenon DEF RegsOK
  <2> QED
    BY <2>6, <2>7, <2>11, <2>12, <2>13, <2>14, <2>15 DEF DkgInv
<1> QED
  BY <1>3, <1>4, Zenon DEF ceremony_part1

\* part2 of a node: its ceremony is sealed, and the node keeps what it was
\* sent only if the packages fit its list.
LEMMA Part2Inv ==
  ASSUME DkgInv, NEW p \in Participant, ceremony_part2(p)
  PROVE  DkgInv'
<1> DEFINE others == {m \in sent : m.c = run.c /\ m.p # p}
           uni == run.uni \cup encrypt_round2_package(p, others)
<1>0. NodesOK /\ SentOK /\ RunOK /\ AcceptedOK /\ OutputsOK /\ RegsOK
  BY DEF DkgInv
<1>1. /\ run.step = "part2" /\ Running /\ p \in run.todo
      /\ UNCHANGED <<drawn, sent, regs, used, outputs>>
  BY Zenon DEF ceremony_part2, Running
<1>2. /\ DOMAIN run = RunFields /\ run.c \in used /\ run.slice \subseteq Participant
      /\ run.todo \subseteq run.slice /\ p \in run.slice
      /\ \A q \in run.slice : nodes[q].gen # 0
      /\ \A m \in Of(run.c) : m.p \in run.slice
      /\ \A q \in run.slice : OwnSent(q, run.c)
      /\ \A u \in run.uni : Genuine(u, run.c)
      /\ \A b \in run.bound : BoundOK(b, run.slice)
  BY <1>0, <1>1, Zenon DEF RunOK
<1>3. Sealed(run.c)
  BY <1>1, <1>2, Zenon DEF Sealed
<1>4. CASE Fail /\ UNCHANGED <<nodes, deliveries>>
  BY <1>1, <1>2, <1>4, FailInv
<1>5. CASE /\ nodes[p].state = "AfterPart1"
           /\ nodes' = [nodes EXCEPT ![p].state = "Failed"]
           /\ Fail /\ UNCHANGED deliveries
  BY <1>1, <1>2, <1>5, FailInv, Zenon
<1>6. CASE /\ nodes[p].state = "AfterPart1"
           /\ \A m \in others : m.p \in Range(nodes[p].list)
           /\ dkg_part2(nodes[p].list, others)
           /\ nodes' = [nodes EXCEPT ![p].state = "AfterPart2", ![p].r1 = others]
           /\ \/ /\ deliveries' = deliveries \cup
                      {[c |-> run.c, to |-> q, enc |-> run.enc,
                        packages |-> {u \in uni : u.to = q}] : q \in run.slice}
                 /\ run' = Idle
              \/ /\ run' = Advance([run EXCEPT !.uni = uni], p, "part3")
                 /\ UNCHANGED deliveries
  <2> DEFINE n == [nodes[p] EXCEPT !.state = "AfterPart2", !.r1 = others]
  <2>1. nodes' = [nodes EXCEPT ![p] = n]
    BY <1>0, <1>6, Zenon DEF NodesOK
  <2>2. /\ n \in NodeType' /\ n.state = "AfterPart2" /\ n.gen = nodes[p].gen
        /\ n.list = nodes[p].list /\ n.poly = nodes[p].poly /\ n.r1 = others
    <3>1. nodes[p] \in NodeType
      BY <1>0 DEF NodesOK
    <3> QED
      BY <1>1, <3>1, Zenon DEF NodeType, NodeStates
  <2>3. others = {m \in Of(run.c) : m.p # p}
    BY Zenon DEF Of
  <2>4. \A u \in uni : Genuine(u, run.c)
    <3>1. \A u \in encrypt_round2_package(p, others) :
            u.from = p /\ u.poly = nodes[p].poly
      BY DEF encrypt_round2_package
    <3>2. \E m \in Of(run.c) : m.p = p /\ m.poly = nodes[p].poly
      BY <1>2, Zenon DEF OwnSent
    <3> QED
      BY <1>2, <3>1, <3>2, Zenon DEF Genuine
  <2> HIDE DEF n, others, uni
  <2>5. /\ NodesOK' /\ nodes'[p] = n
        /\ \A q \in Participant : q # p => nodes'[q] = nodes[q]
    <3>1. NodeFits(p, n)
      BY <1>0, <1>2, <2>2, Zenon DEF NodesOK, NodeFits
    <3>2. drawn' \in [Participant -> Nat]
      BY <1>0, <1>1 DEF NodesOK
    <3> QED
      BY <1>0, <1>1, <2>1, <2>2, <3>1, <3>2, NodeReplaced, Zenon
  <2>6. Fits(nodes[p].list, Of(run.c))
    <3>1. PICK own \in Of(run.c) : /\ own.p = p /\ own.poly = nodes[p].poly
                                   /\ own.id = vid_to_identifier(nodes[p].list, p)
      BY <1>2, Zenon DEF OwnSent
    <3>2. IsFiniteSet(Of(run.c))
      BY <1>0, FS_Subset, Zenon DEF SentOK, Of
    <3>3. \A m1, m2 \in Of(run.c) : m1.p = m2.p => m1 = m2
      BY <1>0, Zenon DEF SentOK, Of
    <3>4. /\ nodes[p].list \in Lists /\ IsInjective(nodes[p].list)
          /\ p \in Range(nodes[p].list)
      BY <1>0, <1>2, Zenon DEF NodesOK, NodeFits
    <3>5. /\ \A m \in Of(run.c) : m.p # own.p => m.p \in Range(nodes[p].list)
          /\ dkg_part2(nodes[p].list, {m \in Of(run.c) : m.p # own.p})
      BY <1>6, <2>3, <3>1, Zenon
    <3> QED
      BY <3>1, <3>2, <3>3, <3>4, <3>5, Part2Fits, Zenon
  <2>7. \/ run' = Idle /\ run'.step = "idle"
        \/ /\ DOMAIN run' = RunFields /\ run'.c = run.c /\ run'.slice = run.slice
           /\ run'.uni = uni /\ run'.outs = run.outs /\ run'.bound = run.bound
           /\ run'.todo \subseteq run.slice /\ run'.step \in {"part2", "part3"}
    <3>1. CASE run' = Idle
      BY <3>1, Zenon DEF Idle
    <3>2. CASE run' = Advance([run EXCEPT !.uni = uni], p, "part3")
      <4>1. PICK r : r = [run EXCEPT !.uni = uni]
        BY Zenon
      <4>2. /\ DOMAIN r = RunFields /\ r.c = run.c /\ r.slice = run.slice /\ r.uni = uni
            /\ r.outs = run.outs /\ r.bound = run.bound /\ r.todo = run.todo
            /\ r.step = run.step
        BY <1>2, <4>1, Zenon DEF RunFields
      <4>3. run' = Advance(r, p, "part3")
        BY <3>2, <4>1, Zenon
      <4> QED
        <5>1. /\ DOMAIN run' = RunFields /\ run'.c = r.c /\ run'.slice = r.slice
              /\ run'.uni = r.uni /\ run'.outs = r.outs /\ run'.bound = r.bound
              /\ run'.todo = r.slice \/ run'.todo = r.todo \ {p}
              /\ run'.step = "part3" \/ run'.step = r.step
          BY <4>2, <4>3, Zenon DEF Advance, RunFields
        <5> QED
          BY <1>1, <1>2, <4>2, <5>1, Zenon
    <3> QED
      BY <1>6, <3>1, <3>2, Zenon
  <2>8. \A c : Of(c)' = Of(c)
    BY <1>1, Zenon DEF Of
  <2>9. Kept
    <3>1. \A c : Sealed(c) => Sealed(c)' /\ Of(c)' = Of(c)
      BY <1>1, <2>7, <2>8, Zenon DEF Sealed
    <3>2. \A q \in Participant : nodes[q].gen \in Nat
      BY <1>0 DEF NodesOK, NodeType
    <3>3. \A q \in Participant :
            /\ nodes'[q].gen = nodes[q].gen
            /\ nodes[q].state = "Completed" => nodes'[q].state = "Completed"
      BY <1>6, <2>2, <2>5, Zenon
    <3> QED
      BY <1>1, <3>1, <3>2, <3>3 DEF Kept
  <2>10. \A q \in Participant : OwnSent(q, run.c) => \E m \in Of(run.c) :
           /\ m.p = q /\ m.poly = nodes'[q].poly
           /\ m.id = vid_to_identifier(nodes'[q].list, q)
    BY <2>2, <2>5 DEF OwnSent
  <2>11. RunOK'
    <3>1. CASE run'.step = "idle"
      BY <3>1 DEF RunOK, Running
    <3>2. CASE /\ DOMAIN run' = RunFields /\ run'.c = run.c /\ run'.slice = run.slice
               /\ run'.uni = uni /\ run'.outs = run.outs /\ run'.bound = run.bound
               /\ run'.todo \subseteq run.slice /\ run'.step \in {"part2", "part3"}
      <4>1. \A q \in run.slice : nodes'[q].gen # 0
        BY <1>2, <2>2, <2>5
      <4>2. \A q \in run'.slice : OwnSent(q, run.c)'
        BY <1>2, <2>8, <2>10, <3>2, Zenon DEF OwnSent
      <4>3. \A u \in run'.uni : Genuine(u, run.c)'
        BY <2>4, <2>8, <3>2, Zenon DEF Genuine
      <4>4. \A b \in run'.bound : BoundOK(b, run.slice)'
        BY <1>1, <1>2, <3>2, BoundKept
      <4>5. \A m \in Of(run.c)' : m.p \in run'.slice
        BY <1>2, <2>8, <3>2, Zenon
      <4> QED
        BY <1>1, <1>2, <3>2, <4>1, <4>2, <4>3, <4>4, <4>5, Zenon DEF RunOK
    <3> QED
      BY <2>7, <3>1, <3>2, Zenon
  <2>12. AcceptedOK'
    <3>1. Accepted(p)'
      <4>1. PICK c \in used : /\ c = run.c /\ Sealed(c) /\ OwnSent(p, c)
                              /\ Fits(nodes[p].list, Of(c))
        BY <1>2, <1>3, <2>6, Zenon
      <4>2. c \in used' /\ Sealed(c)' /\ Of(c)' = Of(c)
        BY <1>1, <2>9, <4>1, Zenon DEF Kept
      <4>3. OwnSent(p, c)'
        BY <2>2, <2>5, <4>1, <4>2 DEF OwnSent
      <4>4. nodes'[p].r1 = {m \in Of(c)' : m.p # p} /\ Fits(nodes'[p].list, Of(c)')
        BY <2>2, <2>3, <2>5, <4>1, <4>2
      <4> QED
        BY <4>2, <4>3, <4>4 DEF Accepted
    <3>2. ASSUME NEW q \in Participant, q # p, nodes'[q].state = "AfterPart2"
          PROVE  Accepted(q)'
      BY <1>0, <2>5, <2>9, <3>2, AcceptedKept, Zenon DEF AcceptedOK
    <3> QED
      BY <3>1, <3>2, Zenon DEF AcceptedOK
  <2>13. OutputsOK'
    <3>1. CASE run'.step = "idle"
      BY <1>0, <1>1, <2>9, <3>1, OutputKept DEF OutputsOK, Running
    <3>2. CASE run'.outs = run.outs
      BY <1>0, <1>1, <2>9, <3>2, OutputKept, Zenon DEF OutputsOK
    <3> QED
      BY <2>7, <3>1, <3>2
  <2>14. \A d \in deliveries' : DeliveryOK(d)'
    <3>1. \A d \in deliveries : DeliveryOK(d)'
      BY <2>9, DeliveryKept, Zenon DEF DkgInv
    <3>2. ASSUME NEW q \in run.slice
          PROVE  DeliveryOK([c |-> run.c, to |-> q, enc |-> run.enc,
                             packages |-> {u \in uni : u.to = q}])
      BY <1>3, <2>4, Zenon DEF DeliveryOK
    <3>3. ASSUME NEW d, DeliveryOK(d)
          PROVE  DeliveryOK(d)'
      BY <2>9, <3>3, DeliveryKept, Zenon
    <3> QED
      BY <1>6, <3>1, <3>2, <3>3
  <2>15. SentOK' /\ RegsOK'
    BY <1>0, <1>1, Zenon DEF SentOK, RegsOK
  <2> QED
    BY <2>5, <2>11, <2>12, <2>13, <2>14, <2>15, Zenon DEF DkgInv
<1> QED
  BY <1>4, <1>5, <1>6, Zenon DEF ceremony_part2

\* Shares of ceremony c are accepted only by a node that passed part2 in c,
\* and what part3 returns is the key of c.
LEMMA Part3Key ==
  ASSUME DkgInv, NEW p \in Participant, NEW c, NEW packages, NEW bound,
         part3_ok(p, packages), \A u \in packages : Genuine(u, c)
  PROVE  /\ Sealed(c) /\ Fits(nodes[p].list, Of(c)) /\ nodes[p].gen # 0
         /\ Output(p, c, bound).key = KeyOf(Of(c))
<1>0. NodesOK /\ SentOK /\ AcceptedOK
  BY Zenon DEF DkgInv
<1>1. nodes[p].state = "AfterPart2" /\ dkg_part3(p, packages)
  BY Zenon DEF part3_ok
<1>2. PICK c0 \in used : /\ Sealed(c0) /\ OwnSent(p, c0)
                         /\ nodes[p].r1 = {m \in Of(c0) : m.p # p}
                         /\ Fits(nodes[p].list, Of(c0))
  BY <1>0, <1>1, Zenon DEF AcceptedOK, Accepted
<1>3. nodes[p].gen # 0 /\ Len(nodes[p].list) >= 2 /\ IsInjective(nodes[p].list)
  BY <1>0, <1>1, Zenon DEF NodesOK, NodeFits
<1>4. \E q \in Range(nodes[p].list) : q # p
  <2>1. PICK list : list = nodes[p].list
    BY Zenon
  <2>2. list \in Seq(Range(list)) /\ Len(list) >= 2 /\ IsInjective(list)
    BY <1>2, <1>3, <2>1, DkgAssumption, Zenon DEF Fits
  <2>3. 1 \in DOMAIN list /\ 2 \in DOMAIN list
    BY <2>2
  <2>4. list[1] # list[2] /\ list[1] \in Range(list) /\ list[2] \in Range(list)
    BY <2>2, <2>3 DEF IsInjective, Range
  <2> QED
    BY <2>1, <2>4, Zenon
<1>5. PICK m \in Of(c0) : m.p # p
  BY <1>2, <1>4, Zenon DEF Fits
<1>6. PICK u \in packages : u.from = m.p /\ u.poly = m.poly
  BY <1>1, <1>2, <1>5 DEF dkg_part3
<1>7. PICK m2 \in Of(c) : m2.p = u.from /\ m2.poly = u.poly
  BY Zenon DEF Genuine
<1>8. c = c0
  BY <1>0, <1>5, <1>6, <1>7, Zenon DEF SentOK, Of
<1>9. Output(p, c, bound).key = KeyOf(Of(c0))
  <2>1. PICK own \in Of(c0) : own.p = p /\ own.poly = nodes[p].poly
    BY <1>2, Zenon DEF OwnSent
  <2>2. \A x \in Of(c0) : x.p = p => x = own
    BY <1>0, <2>1, Zenon DEF SentOK, Of
  <2> QED
    BY <1>2, <2>1, <2>2, Zenon DEF Output, KeyOf
<1> QED
  BY <1>2, <1>3, <1>8, <1>9, Zenon

\* What part3 returns is right when the node is Completed.
LEMMA OutputNew ==
  ASSUME DkgInv, NEW p \in Participant, NEW c, NEW packages, NEW bound,
         part3_ok(p, packages), \A u \in packages : Genuine(u, c),
         \A b \in bound : BoundOK(b, Range(nodes[p].list)),
         nodes' = Completed(p), run' = run \/ run'.step # "part1",
         UNCHANGED <<sent, drawn, used, regs>>,
         NEW o, o = Output(p, c, bound)
  PROVE  OutputOK(o)'
<1>1. /\ Sealed(c) /\ Fits(nodes[p].list, Of(c)) /\ nodes[p].gen # 0
      /\ o.key = KeyOf(Of(c))
  BY Part3Key, Zenon
<1>2. /\ o.c = c /\ o.p = p /\ o.gen = nodes[p].gen /\ o.list = nodes[p].list
      /\ o.bound = bound
  BY Zenon DEF Output
<1>3. nodes'[p].state = "Completed" /\ nodes'[p].gen = nodes[p].gen
  <2>1. NodesOK /\ "Completed" \in NodeStates
    BY Zenon DEF DkgInv, NodeStates
  <2> QED
    BY <1>1, <2>1, StateSet, Zenon DEF Completed
<1>4. Sealed(c)' /\ Of(c)' = Of(c)
  BY <1>1, Zenon DEF Sealed, Of
<1>5. nodes[p].gen \in Nat
  BY Zenon DEF DkgInv, NodesOK, NodeType
<1>6. \A b \in bound : BoundOK(b, Range(o.list))'
  BY <1>2, Zenon DEF BoundOK
<1>7. /\ Sealed(o.c)' /\ o.key = KeyOf(Of(o.c)') /\ Fits(o.list, Of(o.c)')
  BY <1>1, <1>2, <1>4, Zenon
<1>8. /\ o.p \in Participant /\ o.gen \in Nat /\ o.gen <= nodes'[o.p].gen
      /\ nodes'[o.p].gen = o.gen => nodes'[o.p].state = "Completed"
  BY <1>2, <1>3, <1>5
<1>9. \A b \in o.bound : BoundOK(b, Range(o.list))'
  BY <1>2, <1>6, Zenon
<1> QED
  BY <1>7, <1>8, <1>9, Zenon DEF OutputOK

\* part3 on a delivery.
LEMMA DeliveryInv ==
  ASSUME DkgInv, NEW p \in Participant, NEW d \in deliveries,
         dkg_part3_from_delivery(p, d)
  PROVE  DkgInv'
<1>1. /\ part3_ok(p, d.packages) /\ nodes' = Completed(p)
      /\ outputs' = outputs \cup {Output(p, d.c, {})}
      /\ UNCHANGED <<drawn, sent, regs, run, used, deliveries>>
  BY Zenon DEF dkg_part3_from_delivery
<1>2. \A u \in d.packages : Genuine(u, d.c)
  BY Zenon DEF DkgInv, DeliveryOK
<1>3. nodes[p].gen # 0 /\ nodes[p].state = "AfterPart2"
  BY <1>1, <1>2, Part3Key, Zenon DEF part3_ok
<1>4. /\ NodesOK' /\ SentOK' /\ AcceptedOK' /\ RegsOK' /\ Kept
      /\ \A q \in Participant :
           /\ nodes'[q].gen = nodes[q].gen /\ nodes'[q].list = nodes[q].list
           /\ nodes'[q].poly = nodes[q].poly
  BY <1>1, <1>3, FinishKept, Zenon DEF Completed
<1>5. \A o \in outputs' : OutputOK(o)'
  <2>1. \A b \in {} : BoundOK(b, Range(nodes[p].list))
    BY Zenon
  <2>2. \A o : o = Output(p, d.c, {}) => OutputOK(o)'
    BY <1>1, <1>2, <2>1, OutputNew, Zenon
  <2>3. \A o \in outputs : OutputOK(o)'
    BY <1>4, OutputKept, Zenon DEF DkgInv, OutputsOK
  <2> QED
    BY <1>1, <2>2, <2>3, Zenon
<1>6. Running' => \A o \in run'.outs : OutputOK(o)'
  BY <1>1, <1>4, OutputKept DEF DkgInv, OutputsOK, Running
<1>7. RunOK'
  <2> SUFFICES ASSUME Running PROVE RunOK'
    BY <1>1, Zenon DEF RunOK, Running
  <2>1. RunOK
    BY Zenon DEF DkgInv
  <2>2. run.slice \subseteq Participant
    BY <2>1, Zenon DEF RunOK
  <2>3. \A q \in run.slice : /\ nodes'[q].gen = nodes[q].gen
                             /\ OwnSent(q, run.c) => OwnSent(q, run.c)'
    BY <1>1, <1>4, <2>2, Zenon DEF OwnSent, Of
  <2>4. Of(run.c)' = Of(run.c)
    BY <1>1, Zenon DEF Of
  <2>5. \A u : Genuine(u, run.c) => Genuine(u, run.c)'
    BY <1>1, <2>4, Zenon DEF Genuine
  <2>6. \A b : BoundOK(b, run.slice) => BoundOK(b, run.slice)'
    BY <1>1, BoundKept, Zenon
  <2> QED
    BY <1>1, <2>1, <2>3, <2>4, <2>5, <2>6, Zenon DEF RunOK
<1>8. \A x \in deliveries' : DeliveryOK(x)'
  BY <1>1, <1>4, DeliveryKept, Zenon DEF DkgInv
<1> QED
  BY <1>4, <1>5, <1>6, <1>7, <1>8, Zenon DEF DkgInv, OutputsOK

\* part3 of a node of an in-process ceremony.
LEMMA Part3Inv ==
  ASSUME DkgInv, NEW p \in Participant, ceremony_part3(p)
  PROVE  DkgInv'
<1> DEFINE packages == {u \in run.uni : u.to = p}
           outs == run.outs \cup {Output(p, run.c, run.bound)}
<1>0. RunOK /\ OutputsOK
  BY Zenon DEF DkgInv
<1>1. /\ run.step = "part3" /\ Running /\ p \in run.todo
      /\ UNCHANGED <<drawn, sent, regs, used, deliveries>>
  BY Zenon DEF ceremony_part3, Running
<1>2. /\ DOMAIN run = RunFields /\ run.c \in used /\ run.slice \subseteq Participant
      /\ run.todo \subseteq run.slice /\ p \in run.slice
      /\ \A q \in run.slice : nodes[q].gen # 0
      /\ \A m \in Of(run.c) : m.p \in run.slice
      /\ \A q \in run.slice : OwnSent(q, run.c)
      /\ \A u \in run.uni : Genuine(u, run.c)
      /\ \A b \in run.bound : BoundOK(b, run.slice)
  BY <1>0, <1>1, Zenon DEF RunOK
<1>3. CASE Fail /\ UNCHANGED <<nodes, outputs>>
  BY <1>1, <1>2, <1>3, FailInv, Zenon
<1>4. CASE /\ part3_ok(p, packages) /\ nodes' = Completed(p)
           /\ Fail /\ UNCHANGED outputs
  <2>1. nodes[p].state # "Completed"
    BY <1>4, Zenon DEF part3_ok
  <2> QED
    BY <1>1, <1>2, <1>4, <2>1, FailInv, Zenon DEF Completed
<1>5. CASE /\ part3_ok(p, packages) /\ nodes' = Completed(p)
           /\ \/ /\ run.todo # {p}
                 /\ run' = Advance([run EXCEPT !.outs = outs], p, "part3")
                 /\ UNCHANGED outputs
              \/ run' = Idle /\ outputs' = outputs \cup outs
  <2>1. \/ run'.step = "idle" /\ outputs' = outputs \cup outs
        \/ /\ DOMAIN run' = RunFields /\ run'.c = run.c /\ run'.slice = run.slice
           /\ run'.uni = run.uni /\ run'.outs = outs /\ run'.bound = run.bound
           /\ run'.todo \subseteq run.slice /\ run'.step = "part3"
           /\ outputs' = outputs
    <3>1. CASE run' = Idle /\ outputs' = outputs \cup outs
      BY <3>1, Zenon DEF Idle
    <3>2. CASE /\ run' = Advance([run EXCEPT !.outs = outs], p, "part3")
               /\ UNCHANGED outputs
      <4>1. PICK r : r = [run EXCEPT !.outs = outs]
        BY Zenon
      <4>2. /\ DOMAIN r = RunFields /\ r.c = run.c /\ r.slice = run.slice
            /\ r.uni = run.uni /\ r.outs = outs /\ r.bound = run.bound
            /\ r.todo = run.todo /\ r.step = run.step
        BY <1>2, <4>1, Zenon DEF RunFields
      <4>3. run' = Advance(r, p, "part3")
        BY <3>2, <4>1, Zenon
      <4> HIDE DEF outs
      <4> QED
        BY <1>1, <1>2, <3>2, <4>2, <4>3, AdvanceFields
    <3> QED
      BY <1>5, <3>1, <3>2
  <2>2. nodes[p].state = "AfterPart2"
    BY <1>5, Zenon DEF part3_ok
  <2>3. run'.step # "part1"
    BY <2>1, Zenon
  <2>4. /\ NodesOK' /\ SentOK' /\ AcceptedOK' /\ RegsOK' /\ Kept
        /\ \A q \in Participant :
             /\ nodes'[q].gen = nodes[q].gen /\ nodes'[q].list = nodes[q].list
             /\ nodes'[q].poly = nodes[q].poly
    BY <1>1, <1>2, <1>5, <2>2, <2>3, FinishKept, Zenon DEF Completed
  <2>5. \A o \in outs : OutputOK(o)'
    <3>1. \A o \in run.outs : OutputOK(o)'
      BY <1>0, <1>1, <2>4, OutputKept, Zenon DEF DkgInv, OutputsOK
    <3>2. \A u \in packages : Genuine(u, run.c)
      BY <1>2, Zenon
    <3>3. Range(nodes[p].list) \subseteq run.slice
      <4>1. Fits(nodes[p].list, Of(run.c))
        BY <1>5, <3>2, Part3Key, Zenon
      <4> QED
        BY <1>2, <4>1, Zenon DEF Fits
    <3>4. \A b \in run.bound : BoundOK(b, Range(nodes[p].list))
      BY <1>2, <3>3, Zenon DEF BoundOK
    <3>5. ASSUME NEW o, o = Output(p, run.c, run.bound)
          PROVE  OutputOK(o)'
      BY <1>1, <1>5, <2>3, <3>2, <3>4, <3>5, OutputNew
    <3> QED
      BY <3>1, <3>5, Zenon
  <2>6. \A o \in outputs : OutputOK(o)'
    BY <1>0, <2>4, OutputKept, Zenon DEF DkgInv, OutputsOK
  <2> HIDE DEF outs
  <2>7. OutputsOK'
    <3>1. CASE run'.step = "idle" /\ outputs' = outputs \cup outs
      BY <2>5, <2>6, <3>1, Zenon DEF OutputsOK, Running
    <3>2. CASE run'.outs = outs /\ outputs' = outputs
      BY <2>5, <2>6, <3>2, Zenon DEF OutputsOK
    <3> QED
      BY <2>1, <3>1, <3>2, Zenon
  <2>8. RunOK'
    <3>1. CASE run'.step = "idle"
      BY <3>1 DEF RunOK, Running
    <3>2. CASE /\ DOMAIN run' = RunFields /\ run'.c = run.c /\ run'.slice = run.slice
               /\ run'.uni = run.uni /\ run'.bound = run.bound
               /\ run'.todo \subseteq run.slice /\ run'.step = "part3"
      <4>1. Of(run.c)' = Of(run.c)
        BY <1>1, <3>2, Zenon DEF Of
      <4>2. \A q \in run.slice : nodes'[q].gen # 0 /\ OwnSent(q, run.c)'
        <5>1. PICK c : c = run.c
          BY Zenon
        <5>2. Of(c)' = Of(c) /\ run'.c = c
          BY <1>1, <3>2, <5>1, Zenon DEF Of
        <5> QED
          BY <1>2, <2>4, <5>1, <5>2, OwnSentKept, Zenon
      <4>3. \A u \in run'.uni : Genuine(u, run.c)'
        BY <1>2, <3>2, <4>1, Zenon DEF Genuine
      <4>4. \A b \in run'.bound : BoundOK(b, run.slice)'
        BY <1>1, <1>2, <3>2, BoundKept, Zenon
      <4> QED
        BY <1>1, <1>2, <3>2, <4>1, <4>2, <4>3, <4>4, Zenon DEF RunOK
    <3> QED
      BY <2>1, <3>1, <3>2
  <2>9. \A x \in deliveries' : DeliveryOK(x)'
    BY <1>1, <2>4, DeliveryKept, Zenon DEF DkgInv
  <2> QED
    BY <2>4, <2>7, <2>8, <2>9, Zenon DEF DkgInv
<1> QED
  BY <1>3, <1>4, <1>5, Zenon DEF ceremony_part3
-----------------------------------------------------------------------------
\* DkgInv is an inductive invariant of key generation.
THEOREM DkgInvHolds == Spec => []DkgInv
<1>1. DkgInv /\ [Next]_vars => DkgInv'
  <2> SUFFICES ASSUME DkgInv, [Next]_vars PROVE DkgInv'
    BY Zenon
  <2>1. ASSUME NEW p \in Changing, NEW e \in 0..MaxEpoch, update_registry(p, e)
        PROVE  DkgInv'
    BY <2>1, UpdateInv, Zenon
  <2>2. ASSUME NEW p \in Participant, NEW list \in Lists, new(p, list)
        PROVE  DkgInv'
    BY <2>2, NewInv, Zenon
  <2>3. ASSUME UNCHANGED <<nodes, drawn, sent, regs, run, used, deliveries, outputs>>
        PROVE  DkgInv'
    <3>1. RegsOK' /\ Range(regs) \subseteq Range(regs')
      BY <2>3, Zenon DEF DkgInv, RegsOK
    <3> QED
      BY <2>3, <3>1, QuietInv, Zenon
  <2>4. ASSUME NEW p \in Participant, NEW c \in Ceremony, create_dkg_key_announcement(p, c)
        PROVE  DkgInv'
    BY <2>3, <2>4, Zenon DEF create_dkg_key_announcement
  <2>5. ASSUME NEW p \in Participant, ceremony_part1(p)
        PROVE  DkgInv'
    BY <2>5, Part1Inv, Zenon
  <2>6. ASSUME NEW p \in Participant, ceremony_part2(p)
        PROVE  DkgInv'
    BY <2>6, Part2Inv, Zenon
  <2>7. ASSUME NEW p \in Participant, ceremony_part3(p)
        PROVE  DkgInv'
    BY <2>7, Part3Inv
  <2>8. ASSUME NEW p \in Participant, NEW d \in deliveries, dkg_part3_from_delivery(p, d)
        PROVE  DkgInv'
    BY <2>8, DeliveryInv, Zenon
  <2>9. ASSUME NEW c \in Ceremony, NEW ps \in Slices,
               \/ run_dkg_ceremony(c, ps)
               \/ run_dkg_ceremony_encrypted(c, ps)
               \/ run_dkg_ceremony_with_authenticated_keys(c, ps)
               \/ build_dkg_network_messages(c, ps)
               \/ run_dkg_ceremony_with_registry(c, ps)
        PROVE  DkgInv'
    BY <2>9, EntryInv, Zenon
  <2>10. CASE UNCHANGED vars
    BY <2>3, <2>10, Zenon DEF vars
  <2> QED
    BY <2>1, <2>2, <2>4, <2>5, <2>6, <2>7, <2>8, <2>9, <2>10, Zenon DEF Next
<1> QED
  BY <1>1, DkgInitInv, PTL DEF Spec

\* The shares of one ceremony belong to one group key and one numbering of
\* the participants, also where nobody compares the keys (deliveries).
THEOREM SharesOfOneKey == Spec => []GroupKeysAgree
<1>1. DkgInv => GroupKeysAgree
  <2> SUFFICES ASSUME DkgInv, NEW o1 \in outputs, NEW o2 \in outputs, o1.c = o2.c
               PROVE  o1.key = o2.key /\ o1.list = o2.list
    BY Zenon DEF GroupKeysAgree
  <2>1. OutputOK(o1) /\ OutputOK(o2)
    BY Zenon DEF DkgInv, OutputsOK
  <2>2. o1.key = KeyOf(Of(o1.c)) /\ o2.key = KeyOf(Of(o1.c))
    BY <2>1, Zenon DEF OutputOK
  <2>3. Fits(o1.list, Of(o1.c)) /\ Fits(o2.list, Of(o1.c))
    BY <2>1, Zenon DEF OutputOK
  <2>4. o1.list = o2.list
    BY <2>3, FitsUnique, Zenon
  <2> QED
    BY <2>2, <2>4, Zenon
<1> QED
  BY <1>1, DkgInvHolds, PTL

\* The polynomials of one ceremony's key are not used for another key, however
\* ceremonies were aborted, retried and interleaved with deliveries.
THEOREM NoSecretReused == Spec => []SecretsUsedOnce
<1>1. DkgInv => SecretsUsedOnce
  <2> SUFFICES ASSUME DkgInv, NEW o1 \in outputs, NEW o2 \in outputs, o1.c # o2.c,
                      NEW x \in o1.key, x \in o2.key
               PROVE  FALSE
    BY Zenon DEF SecretsUsedOnce
  <2>1. OutputOK(o1) /\ OutputOK(o2) /\ SentOK
    BY Zenon DEF DkgInv, OutputsOK
  <2>2. PICK m1 \in Of(o1.c) : x = <<m1.p, m1.poly>>
    BY <2>1, Zenon DEF OutputOK, KeyOf
  <2>3. PICK m2 \in Of(o2.c) : x = <<m2.p, m2.poly>>
    BY <2>1, Zenon DEF OutputOK, KeyOf
  <2> QED
    BY <2>1, <2>2, <2>3 DEF SentOK, Of
<1> QED
  BY <1>1, DkgInvHolds, PTL

\* A node gives out one key share at most: it is Completed from then on.
THEOREM OneShareEach == Spec => []EmittedOnce
<1>1. DkgInv => EmittedOnce
  BY Zenon DEF DkgInv, OutputsOK, OutputOK, EmittedOnce
<1> QED
  BY <1>1, DkgInvHolds, PTL

\* The epoch that a ceremony is bound to identifies one snapshot, in which
\* everybody in the ceremony is active under the key it signed with.
THEOREM AdmittedAtEpoch == Spec => []AdmittedOnly
<1>1. DkgInv => AdmittedOnly
  <2> SUFFICES ASSUME DkgInv, NEW o \in outputs, NEW b \in o.bound,
                      NEW r \in Range(regs), r.epoch = b.epoch,
                      NEW p \in Range(o.list)
               PROVE  get_active(r, p) /\ b.by[p].key = r.key[p]
    BY Zenon DEF AdmittedOnly
  <2>1. BoundOK(b, Range(o.list)) /\ RegsOK
    BY Zenon DEF DkgInv, OutputsOK, OutputOK
  <2>2. PICK r0 \in Range(regs) :
          /\ r0.epoch = b.epoch
          /\ \A q \in Range(o.list) : get_active(r0, q) /\ b.by[q].key = r0.key[q]
    BY <2>1, Zenon DEF BoundOK
  <2>3. PICK i \in DOMAIN regs : r = regs[i]
    BY Zenon DEF Range
  <2>4. PICK j \in DOMAIN regs : r0 = regs[j]
    BY Zenon DEF Range
  <2>5. i \in Int /\ j \in Int /\ r.epoch \in Nat /\ r0.epoch \in Nat
    <3>1. i \in Int /\ j \in Int /\ r \in Snapshot /\ r0 \in Snapshot
      BY <2>1, <2>3, <2>4 DEF RegsOK
    <3> QED
      BY <3>1, Zenon DEF Snapshot
  <2>6. ~ (i < j) /\ ~ (j < i)
    BY <2>1, <2>2, <2>3, <2>4, <2>5 DEF RegsOK
  <2>7. r = r0
    BY <2>3, <2>4, <2>5, <2>6
  <2> QED
    BY <2>2, <2>7, Zenon
<1> QED
  BY <1>1, DkgInvHolds, PTL
-----------------------------------------------------------------------------
(* Type correctness, with the bounds of the model.                         *)

\* What TypeOK needs besides DkgInv: an object draws one polynomial at most.
NodeTyped(q) ==
  /\ nodes[q].gen <= MaxObjects /\ nodes[q].poly <= drawn[q]
  /\ drawn[q] <= nodes[q].gen
  /\ nodes[q].state = "Initial" => drawn[q] < nodes[q].gen

DkgTyped ==
  /\ \A q \in Participant : NodeTyped(q)
  /\ run.step \in {"idle", "err", "part1", "part2", "part3"}
  /\ Running => run.slice \in Slices
  /\ used \subseteq Ceremony
  /\ \A r \in Range(regs) : r.epoch <= MaxEpoch

\* A node is only replaced by new, and only part1 draws.
LEMMA NodeTypedKept ==
  ASSUME NodesOK, NodesOK', NEW q \in Participant, NodeTyped(q),
         \/ /\ nodes'[q].gen = nodes[q].gen /\ nodes'[q].poly = nodes[q].poly
            /\ drawn'[q] = drawn[q]
            /\ nodes'[q].state = "Initial" => nodes[q].state = "Initial"
         \/ /\ nodes'[q].gen = nodes[q].gen + 1 /\ nodes[q].gen < MaxObjects
            /\ nodes'[q].poly = 0 /\ drawn'[q] = drawn[q]
         \/ /\ nodes'[q].gen = nodes[q].gen /\ nodes[q].state = "Initial"
            /\ nodes'[q].poly = drawn[q] + 1 /\ drawn'[q] = drawn[q] + 1
            /\ nodes'[q].state # "Initial"
  PROVE  NodeTyped(q)'
<1>1. /\ nodes[q].gen \in Nat /\ nodes[q].poly \in Nat /\ drawn[q] \in Nat
      /\ nodes'[q].gen \in Nat /\ nodes'[q].poly \in Nat /\ drawn'[q] \in Nat
  BY Zenon DEF NodesOK, NodeType
<1> QED
  BY <1>1, DkgAssumption DEF NodeTyped

\* What part1 does to the nodes, if it does not fail.
LEMMA Part1Nodes ==
  ASSUME DkgInv, NEW p \in Participant, Broadcast(p, drawn[p] + 1)
  PROVE  /\ nodes'[p].gen = nodes[p].gen /\ nodes'[p].list = nodes[p].list
         /\ nodes'[p].poly = drawn[p] + 1 /\ nodes'[p].state = "AfterPart1"
         /\ drawn'[p] = drawn[p] + 1
         /\ \A q \in Participant : q # p => nodes'[q] = nodes[q] /\ drawn'[q] = drawn[q]
<1>1. nodes[p] \in NodeType /\ nodes \in [Participant -> NodeType]
      /\ drawn \in [Participant -> Nat]
  BY Zenon DEF DkgInv, NodesOK
<1>2. drawn' = [drawn EXCEPT ![p] = drawn[p] + 1]
  <2>1. drawn[p] + 1 > drawn[p]
    BY <1>1
  <2> QED
    BY <2>1, Zenon DEF Broadcast
<1> DEFINE n == [nodes[p] EXCEPT !.state = "AfterPart1", !.poly = drawn[p] + 1]
<1>3. nodes' = [nodes EXCEPT ![p] = n]
  BY <1>1, Zenon DEF Broadcast
<1>4. /\ n.gen = nodes[p].gen /\ n.list = nodes[p].list /\ n.poly = drawn[p] + 1
      /\ n.state = "AfterPart1"
  BY <1>1, Zenon DEF NodeType
<1> HIDE DEF n
<1> QED
  BY <1>1, <1>2, <1>3, <1>4, Zenon

\* What part2 does to the nodes, if it accepts the packages.
LEMMA Part2Nodes ==
  ASSUME DkgInv, NEW p \in Participant, NEW r1,
         nodes' = [nodes EXCEPT ![p].state = "AfterPart2", ![p].r1 = r1]
  PROVE  /\ nodes'[p].gen = nodes[p].gen /\ nodes'[p].list = nodes[p].list
         /\ nodes'[p].poly = nodes[p].poly /\ nodes'[p].state = "AfterPart2"
         /\ nodes'[p].r1 = r1
         /\ \A q \in Participant : q # p => nodes'[q] = nodes[q]
<1>1. nodes[p] \in NodeType /\ nodes \in [Participant -> NodeType]
  BY Zenon DEF DkgInv, NodesOK
<1> DEFINE n == [nodes[p] EXCEPT !.state = "AfterPart2", !.r1 = r1]
<1>3. nodes' = [nodes EXCEPT ![p] = n]
  BY <1>1, Zenon
<1>4. /\ n.gen = nodes[p].gen /\ n.list = nodes[p].list /\ n.poly = nodes[p].poly
      /\ n.state = "AfterPart2" /\ n.r1 = r1
  BY <1>1, Zenon DEF NodeType
<1> HIDE DEF n
<1> QED
  BY <1>1, <1>3, <1>4, Zenon

\* A state is set and nothing else.
LEMMA StateNodes ==
  ASSUME DkgInv, NEW p \in Participant, NEW x,
         nodes' = [nodes EXCEPT ![p].state = x]
  PROVE  /\ nodes'[p].gen = nodes[p].gen /\ nodes'[p].list = nodes[p].list
         /\ nodes'[p].poly = nodes[p].poly /\ nodes'[p].state = x
         /\ nodes'[p].r1 = nodes[p].r1
         /\ \A q \in Participant : q # p => nodes'[q] = nodes[q]
<1>1. nodes[p] \in NodeType /\ nodes \in [Participant -> NodeType]
  BY Zenon DEF DkgInv, NodesOK
<1> DEFINE n == [nodes[p] EXCEPT !.state = x]
<1>3. nodes' = [nodes EXCEPT ![p] = n]
  BY <1>1, Zenon
<1>4. /\ n.gen = nodes[p].gen /\ n.list = nodes[p].list /\ n.poly = nodes[p].poly
      /\ n.state = x /\ n.r1 = nodes[p].r1
  BY <1>1, Zenon DEF NodeType
<1> HIDE DEF n
<1> QED
  BY <1>1, <1>3, <1>4, Zenon

\* Steps of a ceremony leave its slice alone.
LEMMA AdvanceSlice ==
  ASSUME NEW r, DOMAIN r = RunFields, NEW p, NEW step, run' = Advance(r, p, step)
  PROVE  run'.slice = r.slice /\ run'.step \in {r.step, step}
  BY AdvanceFields

\* Every step of the nodes and ceremonies keeps the counts and lists in range.
LEMMA TypedStep == DkgInv /\ DkgInv' /\ DkgTyped /\ [Next]_vars => DkgTyped'
<1> SUFFICES ASSUME DkgInv, DkgInv', DkgTyped, [Next]_vars PROVE DkgTyped'
  BY Zenon
<1>0. NodesOK /\ NodesOK' /\ RunOK /\ RegsOK
  BY Zenon DEF DkgInv
<1>1. ASSUME NEW p \in Changing, NEW e \in 0..MaxEpoch, update_registry(p, e)
      PROVE  DkgTyped'
  <2> DEFINE r == regs[Len(regs)]
  <2>1. PICK s : /\ regs' = Append(regs, s)
                 /\ s \in with_revocation(r, p, e) \cup with_retirement(r, p, e)
                          \cup with_key_rotation(r, p, r.key[p] + 1, e)
    BY <1>1, Zenon DEF update_registry
  <2>2. r \in Snapshot /\ regs \in Seq(Snapshot)
    BY <1>0 DEF RegsOK
  <2>3. e \in Nat
    BY DkgAssumption
  <2> HIDE DEF r
  <2>4. s \in Snapshot /\ s.epoch <= e
    <3>1. s \in with_revocation(r, p, e) \cup with_retirement(r, p, e)
               \cup with_key_rotation(r, p, r.key[p] + 1, e)
      BY <2>1, Zenon
    <3>2. r \in Snapshot
      BY <2>2, Zenon
    <3> QED
      BY <2>3, <3>1, <3>2, SnapshotUpdated, Zenon
  <2>5. \A x \in Range(regs') : x \in Range(regs) \/ x = s
    BY <2>1, <2>2, <2>4 DEF Range
  <2>6. \A x \in Range(regs') : x.epoch <= MaxEpoch
    BY <2>4, <2>5, DkgAssumption DEF DkgTyped, Snapshot
  <2> QED
    BY <1>1, <2>6, Zenon DEF update_registry, DkgTyped, NodeTyped, Running
<1>2. ASSUME NEW p \in Participant, NEW list \in Lists, new(p, list)
      PROVE  DkgTyped'
  <2>1. /\ nodes[p].gen < MaxObjects /\ drawn' = drawn
        /\ nodes'[p].gen = nodes[p].gen + 1 /\ nodes'[p].poly = 0
        /\ \A q \in Participant : q # p => nodes'[q] = nodes[q]
    BY <1>0, <1>2, Zenon DEF new, NodesOK
  <2>2. \A q \in Participant : NodeTyped(q)'
    BY <1>0, <2>1, NodeTypedKept, Zenon DEF DkgTyped
  <2> QED
    BY <1>2, <2>2, Zenon DEF new, DkgTyped, Running
<1>3. ASSUME NEW p \in Participant, NEW c \in Ceremony, create_dkg_key_announcement(p, c)
      PROVE  DkgTyped'
  BY <1>3, Zenon DEF create_dkg_key_announcement, DkgTyped, NodeTyped, Running
<1>4. ASSUME NEW p \in Participant, ceremony_part1(p)
      PROVE  DkgTyped'
  <2>1. Running /\ UNCHANGED <<regs, used>>
    BY <1>4, Zenon DEF ceremony_part1, Running
  <2>2. CASE Fail /\ UNCHANGED <<nodes, drawn>>
    BY <2>1, <2>2, Zenon DEF Fail, DkgTyped, NodeTyped, Running
  <2>3. CASE nodes[p].state = "Initial" /\ Broadcast(p, drawn[p] + 1)
    <3>1. \A q \in Participant : NodeTyped(q)'
      BY <1>0, <2>3, Part1Nodes, NodeTypedKept DEF DkgTyped
    <3>2. run' = Advance(run, p, "part2") /\ DOMAIN run = RunFields
      BY <1>0, <2>1, <2>3, Zenon DEF Broadcast, RunOK
    <3> QED
      BY <2>1, <3>1, <3>2, AdvanceSlice, Zenon DEF DkgTyped
  <2> QED
    BY <1>4, <2>2, <2>3, Zenon DEF ceremony_part1
<1>5. ASSUME NEW p \in Participant, ceremony_part2(p)
      PROVE  DkgTyped'
  <2>1. Running /\ UNCHANGED <<regs, used, drawn>> /\ DOMAIN run = RunFields
    BY <1>0, <1>5, Zenon DEF ceremony_part2, Running, RunOK
  <2>2. \/ nodes' = nodes
        \/ nodes' = [nodes EXCEPT ![p].state = "Failed"]
        \/ \E r1 : nodes' = [nodes EXCEPT ![p].state = "AfterPart2", ![p].r1 = r1]
    BY <1>5, Zenon DEF ceremony_part2
  <2>3. \A q \in Participant : NodeTyped(q)'
    <3>1. \A q \in Participant : /\ nodes'[q].gen = nodes[q].gen
                                 /\ nodes'[q].poly = nodes[q].poly
                                 /\ nodes'[q].state = "Initial" => nodes[q].state = "Initial"
      BY <2>2, StateNodes, Part2Nodes
    <3> QED
      BY <1>0, <2>1, <3>1, NodeTypedKept, Zenon DEF DkgTyped
  <2>4. \/ Fail \/ run' = Idle
        \/ \E uni : run' = Advance([run EXCEPT !.uni = uni], p, "part3")
    BY <1>5, Zenon DEF ceremony_part2
  <2>5. run'.step \in {"idle", "err"} \/ (run'.step \in {"part2", "part3"} /\ run'.slice = run.slice)
    <3>1. ASSUME NEW uni, run' = Advance([run EXCEPT !.uni = uni], p, "part3")
          PROVE  run'.step \in {run.step, "part3"} /\ run'.slice = run.slice
      <4> DEFINE r == [run EXCEPT !.uni = uni]
      <4>1. DOMAIN r = RunFields /\ r.slice = run.slice /\ r.step = run.step
        BY <2>1, Zenon DEF RunFields
      <4> HIDE DEF r
      <4> QED
        BY <3>1, <4>1, AdvanceSlice, Zenon DEF r
    <3>2. run.step = "part2"
      BY <1>5, Zenon DEF ceremony_part2
    <3>3. Fail \/ run' = Idle => run'.step \in {"idle", "err"}
      BY DEF Fail, Idle
    <3> QED
      BY <2>4, <3>1, <3>2, <3>3, Zenon
  <2> QED
    BY <2>1, <2>3, <2>5, Zenon DEF DkgTyped, Running
<1>6. ASSUME NEW p \in Participant, ceremony_part3(p)
      PROVE  DkgTyped'
  <2>1. Running /\ UNCHANGED <<regs, used, drawn>> /\ DOMAIN run = RunFields
    BY <1>0, <1>6, Zenon DEF ceremony_part3, Running, RunOK
  <2>2. \/ nodes' = nodes
        \/ nodes' = [nodes EXCEPT ![p].state = "Completed"]
    BY <1>6, Zenon DEF ceremony_part3, Completed
  <2>3. \A q \in Participant : NodeTyped(q)'
    <3>1. \A q \in Participant : /\ nodes'[q].gen = nodes[q].gen
                                 /\ nodes'[q].poly = nodes[q].poly
                                 /\ nodes'[q].state = "Initial" => nodes[q].state = "Initial"
      BY <2>2, StateNodes
    <3> QED
      BY <1>0, <2>1, <3>1, NodeTypedKept DEF DkgTyped
  <2>4. \/ Fail \/ run' = Idle
        \/ \E outs : run' = Advance([run EXCEPT !.outs = outs], p, "part3")
    BY <1>6, Zenon DEF ceremony_part3
  <2>5. run'.step \in {"idle", "err"} \/ (run'.step = "part3" /\ run'.slice = run.slice)
    <3>1. ASSUME NEW outs, run' = Advance([run EXCEPT !.outs = outs], p, "part3")
          PROVE  run'.step \in {run.step, "part3"} /\ run'.slice = run.slice
      <4> DEFINE r == [run EXCEPT !.outs = outs]
      <4>1. DOMAIN r = RunFields /\ r.slice = run.slice /\ r.step = run.step
        BY <2>1, Zenon DEF RunFields
      <4> HIDE DEF r
      <4> QED
        BY <3>1, <4>1, AdvanceSlice, Zenon DEF r
    <3>2. run.step = "part3"
      BY <1>6, Zenon DEF ceremony_part3
    <3>3. Fail \/ run' = Idle => run'.step \in {"idle", "err"}
      BY DEF Fail, Idle
    <3> QED
      BY <2>4, <3>1, <3>2, <3>3, Zenon
  <2> QED
    BY <2>1, <2>3, <2>5, Zenon DEF DkgTyped, Running
<1>7. ASSUME NEW p \in Participant, NEW d \in deliveries, dkg_part3_from_delivery(p, d)
      PROVE  DkgTyped'
  <2>1. /\ nodes' = [nodes EXCEPT ![p].state = "Completed"]
        /\ UNCHANGED <<regs, used, drawn, run>>
    BY <1>7, Zenon DEF dkg_part3_from_delivery, Completed
  <2>2. \A q \in Participant : /\ nodes'[q].gen = nodes[q].gen
                               /\ nodes'[q].poly = nodes[q].poly
                               /\ nodes'[q].state = "Initial" => nodes[q].state = "Initial"
    BY <2>1, StateNodes
  <2>3. \A q \in Participant : NodeTyped(q)'
    BY <1>0, <2>1, <2>2, NodeTypedKept, Zenon DEF DkgTyped
  <2> QED
    BY <2>1, <2>3, Zenon DEF DkgTyped, Running
<1>8. ASSUME NEW c \in Ceremony, NEW ps \in Slices,
             NEW kind, NEW enc, NEW bound, Begin(kind, c, ps, enc, bound)
      PROVE  DkgTyped'
  BY <1>8, Zenon DEF Begin, DkgTyped, NodeTyped
<1>9. CASE UNCHANGED vars
  BY <1>9, Zenon DEF vars, DkgTyped, NodeTyped, Running
<1>10. ASSUME NEW c \in Ceremony, NEW ps \in Slices,
             \/ run_dkg_ceremony(c, ps)
             \/ run_dkg_ceremony_encrypted(c, ps)
             \/ run_dkg_ceremony_with_authenticated_keys(c, ps)
             \/ build_dkg_network_messages(c, ps)
             \/ run_dkg_ceremony_with_registry(c, ps)
       PROVE DkgTyped'
  BY <1>8, <1>10, Zenon DEF run_dkg_ceremony, run_dkg_ceremony_encrypted,
     run_dkg_ceremony_with_authenticated_keys, build_dkg_network_messages,
     run_dkg_ceremony_with_registry
<1> QED
  BY <1>1, <1>2, <1>3, <1>4, <1>5, <1>6, <1>7, <1>9, <1>10 DEF Next

\* Type correctness, with the bounds: a participant draws no more polynomials
\* than it made nodes, and a ceremony runs over one of the slices.
THEOREM DkgTypeCorrect == Spec => []TypeOK
<1>1. Init => DkgTyped
  BY DkgAssumption DEF Init, DkgTyped, NodeTyped, NoNode, Idle, Running, Genesis, Range
<1>2. DkgInv /\ DkgTyped => TypeOK
  <2> SUFFICES ASSUME DkgInv, DkgTyped PROVE TypeOK
    BY Zenon
  <2>1. NodesOK /\ RunOK /\ RegsOK
    BY Zenon DEF DkgInv
  <2>2. ASSUME NEW p \in Participant
        PROVE  /\ nodes[p].gen \in 0..MaxObjects
               /\ nodes[p].state \in {"none", "Initial", "AfterPart1", "AfterPart2",
                                      "Completed", "Failed"}
               /\ nodes[p].poly \in 0..drawn[p]
               /\ nodes[p].gen # 0 => nodes[p].list \in Lists
               /\ drawn[p] \in 0..nodes[p].gen
    <3>1. /\ nodes[p].gen \in Nat /\ nodes[p].poly \in Nat /\ drawn[p] \in Nat
          /\ nodes[p].state \in NodeStates /\ NodeFits(p, nodes[p])
      BY <2>1, Zenon DEF NodesOK, NodeType
    <3>2. NodeTyped(p)
      BY Zenon DEF DkgTyped
    <3> QED
      BY <3>1, <3>2, DkgAssumption DEF NodeTyped, NodeFits, NodeStates
  <2>3. \A r \in Range(regs) :
          r.epoch \in 0..MaxEpoch /\ r.status \in [Participant -> Statuses]
    <3>1. \A r \in Range(regs) : r \in Snapshot
      BY <2>1 DEF RegsOK, Range
    <3> QED
      BY <3>1, DkgAssumption DEF DkgTyped, Snapshot
  <2>4. DOMAIN nodes = Participant
    BY <2>1, Zenon DEF NodesOK
  <2> QED
    BY <2>1, <2>2, <2>3, <2>4, Zenon DEF TypeOK, DkgTyped, RunOK
<1> QED
  BY <1>1, <1>2, TypedStep, DkgInvHolds, PTL DEF Spec
-----------------------------------------------------------------------------
(* Ceremonies whose nodes have passed part2 succeed.  The shares of a node *)
(* that passed part2 are complete, are evaluated at the identifiers in the *)
(* Round-1 packages and made for the keys of the ceremony, and a node      *)
(* keeps what it needs to accept its own until it is replaced.             *)

\* packages are the shares for q of the senders of ceremony c that are in S.
SharesFor(packages, c, S, q, enc) ==
  /\ \A u \in packages : \E m1, m2 \in Of(c) :
       /\ m1.p \in S /\ m1.p # q /\ m2.p = q
       /\ u.from = m1.p /\ u.poly = m1.poly /\ u.to = q /\ u.at = m2.id
       /\ u.c = c /\ u.recipient_pub = enc[q]
  /\ \A m \in Of(c) : m.p \in S /\ m.p # q => \E u \in packages : u.from = m.p

\* Node q kept the packages of ceremony c, and they fit its list.
HasPackages(q, c) ==
  nodes[q].r1 = {m \in Of(c) : m.p # q} /\ Fits(nodes[q].list, Of(c))

\* The nodes that have passed part2 of the ceremony in progress.
Passed ==
  {q \in run.slice : \/ run.step = "part3"
                     \/ run.step = "part2" /\ q \notin run.todo}

EncOK ==
  /\ \A an \in announced :
       an.p \in Participant /\ an.enc \in Nat /\ an.enc <= nodes[an.p].gen
  /\ Running => \A q \in run.slice :
       /\ run.enc[q] \in Nat /\ run.enc[q] <= nodes[q].gen
       /\ run.kind = "encrypted" => run.enc[q] = nodes[q].gen

RunComplete ==
  Running =>
    /\ \A q \in run.slice :
         SharesFor({u \in run.uni : u.to = q}, run.c, Passed, q, run.enc)
    /\ \A u \in run.uni : u.sender_key = nodes[u.from].gen
    /\ \A q \in Passed :
         /\ HasPackages(q, run.c)
         /\ (run.step = "part3" => q \in run.todo) => nodes[q].state = "AfterPart2"
    /\ \A o \in run.outs : o.c = run.c
    /\ run.step = "part1" => run.uni = {}

DeliveryComplete(d) ==
  /\ d.to \in Participant
  /\ d.enc[d.to] \in Nat /\ d.enc[d.to] <= nodes[d.to].gen
  /\ SharesFor(d.packages, d.c, Participant, d.to, d.enc)
  /\ nodes[d.to].gen = d.enc[d.to] =>
       nodes[d.to].state \in {"AfterPart2", "Completed"} /\ HasPackages(d.to, d.c)

DkgComplete ==
  /\ EncOK /\ RunComplete /\ CompletesAfterPart2
  /\ \A d \in deliveries : DeliveryComplete(d)

\* All shares for a node that waits for them are accepted.
LEMMA SharesAccepted ==
  ASSUME SentOK, NEW q, NEW c, NEW packages, NEW S, NEW enc,
         nodes[q].state = "AfterPart2", HasPackages(q, c),
         SharesFor(packages, c, S, q, enc), \A m \in Of(c) : m.p \in S
  PROVE  part3_ok(q, packages)
<1>1. \A m1, m2 \in Of(c) : m1.p = m2.p => m1 = m2
  BY Zenon DEF SentOK, Of
<1>2. /\ nodes[q].r1 = {m \in Of(c) : m.p # q}
      /\ Range(nodes[q].list) = {m.p : m \in Of(c)}
      /\ \A m \in Of(c) : m.id = vid_to_identifier(nodes[q].list, m.p)
  BY Zenon DEF HasPackages, Fits
<1>3. ASSUME NEW u \in packages
      PROVE  /\ u.from \in Range(nodes[q].list)
             /\ u.from \in {m.p : m \in nodes[q].r1}
             /\ u.at = vid_to_identifier(nodes[q].list, q)
             /\ \A m \in nodes[q].r1 : m.p = u.from => m.poly = u.poly
  <2>1. PICK m1 \in Of(c), m2 \in Of(c) :
          /\ m1.p # q /\ m2.p = q /\ u.from = m1.p /\ u.poly = m1.poly /\ u.at = m2.id
    BY Zenon DEF SharesFor
  <2> QED
    BY <1>1, <1>2, <2>1, Zenon
<1>4. \A m \in nodes[q].r1 : \E u \in packages : u.from = m.p
  BY <1>2, Zenon DEF SharesFor
<1>5. {u.from : u \in packages} = {m.p : m \in nodes[q].r1}
  BY <1>3, <1>4, Zenon
<1> QED
  BY <1>3, <1>5, Zenon DEF part3_ok, dkg_part3

\* A node that passed part2 keeps its packages until it is replaced.
Steady(q) ==
  /\ nodes'[q].gen \in Nat /\ nodes[q].gen <= nodes'[q].gen
  /\ nodes'[q].gen = nodes[q].gen /\ nodes[q].state \in {"AfterPart2", "Completed"} =>
       /\ nodes'[q].state \in {"AfterPart2", "Completed"}
       /\ nodes'[q].list = nodes[q].list /\ nodes'[q].r1 = nodes[q].r1

\* A complete delivery stays complete while nodes only go on.
LEMMA DeliveryCompleteKept ==
  ASSUME NodesOK, \A q \in Participant : Steady(q),
         NEW d, DeliveryComplete(d), Of(d.c)' = Of(d.c)
  PROVE  DeliveryComplete(d)'
<1>1. /\ d.to \in Participant /\ Steady(d.to) /\ nodes[d.to].gen \in Nat
      /\ d.enc[d.to] \in Nat /\ d.enc[d.to] <= nodes[d.to].gen
  BY Zenon DEF DeliveryComplete, NodesOK, NodeType
<1>2. d.enc[d.to] <= nodes'[d.to].gen
  BY <1>1 DEF Steady
<1>3. SharesFor(d.packages, d.c, Participant, d.to, d.enc)'
  <2>1. SharesFor(d.packages, d.c, Participant, d.to, d.enc)
    BY Zenon DEF DeliveryComplete
  <2> QED
    BY <2>1, Zenon DEF SharesFor
<1>4. ASSUME nodes'[d.to].gen = d.enc[d.to]
      PROVE  nodes'[d.to].state \in {"AfterPart2", "Completed"} /\ HasPackages(d.to, d.c)'
  <2>1. nodes[d.to].gen = d.enc[d.to] /\ nodes'[d.to].gen = nodes[d.to].gen
    BY <1>1, <1>4 DEF Steady
  <2>2. nodes[d.to].state \in {"AfterPart2", "Completed"} /\ HasPackages(d.to, d.c)
    BY <2>1, Zenon DEF DeliveryComplete
  <2>3. /\ nodes'[d.to].state \in {"AfterPart2", "Completed"}
        /\ nodes'[d.to].list = nodes[d.to].list /\ nodes'[d.to].r1 = nodes[d.to].r1
    BY <1>1, <2>1, <2>2, Zenon DEF Steady
  <2> QED
    BY <2>2, <2>3, Zenon DEF HasPackages
<1> QED
  BY <1>1, <1>2, <1>3, <1>4, Zenon DEF DeliveryComplete

\* Announcements outlive nodes.
LEMMA AnnouncedKept ==
  ASSUME NodesOK, EncOK, \A q \in Participant : Steady(q), announced' \subseteq announced
  PROVE  \A an \in announced' :
           an.p \in Participant /\ an.enc \in Nat /\ an.enc <= nodes'[an.p].gen
<1>1. \A q \in Participant : nodes[q].gen \in Nat /\ nodes'[q].gen \in Nat
                             /\ nodes[q].gen <= nodes'[q].gen
  BY Zenon DEF Steady, NodesOK, NodeType
<1> QED
  BY <1>1 DEF EncOK

\* Steps that are not of the ceremony in progress.
LEMMA OutsideComplete ==
  ASSUME DkgInv, DkgComplete, \A q \in Participant : Steady(q),
         announced' \subseteq announced, UNCHANGED <<run, sent, deliveries>>,
         Running => \A q \in run.slice : nodes'[q] = nodes[q]
  PROVE  DkgComplete'
<1>0. NodesOK /\ RunOK /\ EncOK /\ RunComplete
  BY Zenon DEF DkgInv, DkgComplete
<1>1. \A c : Of(c)' = Of(c)
  BY Zenon DEF Of
<1>2. \A d \in deliveries' : DeliveryComplete(d)'
  BY <1>0, <1>1, DeliveryCompleteKept, Zenon DEF DkgComplete
<1>3. EncOK'
  BY <1>0, AnnouncedKept, Zenon DEF EncOK, Running
<1>4. RunComplete'
  <2> SUFFICES ASSUME Running PROVE RunComplete'
    BY Zenon DEF RunComplete, Running
  <2>1. Passed' = Passed /\ Passed \subseteq run.slice
    BY Zenon DEF Passed
  <2>2. ASSUME NEW q \in run.slice
        PROVE  SharesFor({u \in run.uni : u.to = q}, run.c, Passed, q, run.enc)'
    <3>1. SharesFor({u \in run.uni : u.to = q}, run.c, Passed, q, run.enc)
      BY <1>0, Zenon DEF RunComplete
    <3> QED
      BY <1>1, <2>1, <3>1 DEF SharesFor
  <2>3. \A u \in run.uni : u.from \in run.slice
    <3>1. \A u \in run.uni : Genuine(u, run.c)
      BY <1>0, Zenon DEF RunOK
    <3>2. \A m \in Of(run.c) : m.p \in run.slice
      BY <1>0, Zenon DEF RunOK
    <3> QED
      BY <3>1, <3>2, Zenon DEF Genuine
  <2>4. \A u \in run'.uni : u.sender_key = nodes'[u.from].gen
    BY <1>0, <2>3, Zenon DEF RunComplete
  <2>5. \A q \in Passed' :
         /\ HasPackages(q, run.c)'
         /\ (run'.step = "part3" => q \in run'.todo) => nodes'[q].state = "AfterPart2"
    BY <1>0, <1>1, <2>1 DEF RunComplete, HasPackages
  <2> QED
    BY <1>0, <2>2, <2>4, <2>5, Zenon DEF RunComplete
<1> QED
  BY <1>2, <1>3, <1>4, Zenon DEF DkgComplete, CompletesAfterPart2

\* A failed part1 or part2 ends the ceremony.
LEMMA FailComplete ==
  ASSUME DkgInv, DkgComplete, \A q \in Participant : Steady(q), Fail, run.step # "part3",
         UNCHANGED <<announced, sent, deliveries>>
  PROVE  DkgComplete'
<1>1. NodesOK /\ EncOK /\ \A c : Of(c)' = Of(c)
  BY Zenon DEF DkgInv, DkgComplete, Of
<1>2. run'.step = "err" /\ run'.at = run.step
  BY Zenon DEF Fail
<1>3. \A d \in deliveries' : DeliveryComplete(d)'
  BY <1>1, DeliveryCompleteKept, Zenon DEF DkgComplete
<1>4. EncOK' /\ RunComplete'
  BY <1>1, <1>2, AnnouncedKept, Zenon DEF EncOK, RunComplete, Running
<1> QED
  BY <1>2, <1>3, <1>4, Zenon DEF DkgComplete, CompletesAfterPart2

\* A ceremony begins: nobody has passed part2 yet.
LEMMA BeginComplete ==
  ASSUME DkgInv, DkgComplete, NEW kind, NEW c, NEW ps \in SUBSET Participant,
         NEW enc, NEW bound, Begin(kind, c, ps, enc, bound),
         \A q \in ps : /\ enc[q] \in Nat /\ enc[q] <= nodes[q].gen
                       /\ kind = "encrypted" => enc[q] = nodes[q].gen
  PROVE  DkgComplete'
<1>1. NodesOK /\ EncOK /\ \A x : Of(x)' = Of(x)
  BY Zenon DEF DkgInv, DkgComplete, Of, Begin
<1>2. /\ UNCHANGED <<nodes, sent, deliveries>> /\ announced' \subseteq announced
      /\ run' = [step |-> "part1", kind |-> kind, c |-> c, slice |-> ps, todo |-> ps,
                 enc |-> enc, bound |-> bound, uni |-> {}, outs |-> {}]
  BY Zenon DEF Begin
<1>3. /\ run'.step = "part1" /\ run'.uni = {} /\ run'.outs = {} /\ run'.slice = ps
      /\ run'.enc = enc /\ run'.kind = kind
  BY <1>2
<1>4. \A q \in Participant : Steady(q)
  BY <1>1, <1>2 DEF Steady, NodesOK, NodeType
<1>5. \A d \in deliveries' : DeliveryComplete(d)'
  BY <1>1, <1>2, <1>4, DeliveryCompleteKept, Zenon DEF DkgComplete
<1>6. EncOK'
  BY <1>1, <1>2, <1>3, <1>4, AnnouncedKept, Zenon DEF EncOK
<1>7. Passed' = {}
  BY <1>3, Zenon DEF Passed
<1>8. RunComplete'
  BY <1>3, <1>7, Zenon DEF RunComplete, SharesFor
<1> QED
  BY <1>3, <1>5, <1>6, <1>8, Zenon DEF DkgComplete, CompletesAfterPart2

\* The entry points: the keys of the ceremony are held or were announced.
LEMMA EntryComplete ==
  ASSUME DkgInv, DkgComplete, NEW c, NEW ps \in Slices,
         \/ run_dkg_ceremony(c, ps)
         \/ run_dkg_ceremony_encrypted(c, ps)
         \/ run_dkg_ceremony_with_authenticated_keys(c, ps)
         \/ build_dkg_network_messages(c, ps)
         \/ run_dkg_ceremony_with_registry(c, ps)
  PROVE  DkgComplete'
<1>1. ps \in SUBSET Participant /\ EncOK
  BY DkgAssumption, Zenon DEF DkgComplete
<1>2. \A q \in ps : nodes[q].gen \in Nat /\ own_keys(ps)[q] = nodes[q].gen
  BY <1>1, Zenon DEF DkgInv, NodesOK, NodeType, own_keys
<1>3. ASSUME NEW kind, NEW bound, Begin(kind, c, ps, own_keys(ps), bound)
      PROVE  DkgComplete'
  <2>1. \A q \in ps : /\ own_keys(ps)[q] \in Nat /\ own_keys(ps)[q] <= nodes[q].gen
                      /\ kind = "encrypted" => own_keys(ps)[q] = nodes[q].gen
    BY <1>2
  <2> QED
    BY <1>1, <1>3, <2>1, BeginComplete, Zenon
<1>4. ASSUME NEW reg, NEW f \in collect_verified_enc_keys(reg, c, ps),
             Begin("network", c, ps, Announced(f), {})
      PROVE  DkgComplete'
  <2>1. \A q \in ps : f[q] \in announced /\ f[q].p = q /\ Announced(f)[q] = f[q].enc
    BY Zenon DEF collect_verified_enc_keys, Announced
  <2>2. \A q \in ps : Announced(f)[q] \in Nat /\ Announced(f)[q] <= nodes[q].gen
    BY <1>1, <2>1, Zenon DEF EncOK
  <2> QED
    BY <1>1, <1>4, <2>2, BeginComplete
<1> QED
  BY <1>3, <1>4, Zenon DEF run_dkg_ceremony, run_dkg_ceremony_encrypted,
     run_dkg_ceremony_with_authenticated_keys, build_dkg_network_messages,
     run_dkg_ceremony_with_registry

\* part1 of a node: no shares yet, and no other ceremony is concerned.
LEMMA Part1Complete ==
  ASSUME DkgInv, DkgComplete, NEW p \in Participant, ceremony_part1(p)
  PROVE  DkgComplete'
<1>0. NodesOK /\ RunOK /\ EncOK /\ RunComplete
  BY Zenon DEF DkgInv, DkgComplete
<1>1. /\ run.step = "part1" /\ Running /\ UNCHANGED <<announced, deliveries>>
  BY Zenon DEF ceremony_part1, Running
<1>2. CASE Fail /\ UNCHANGED <<nodes, drawn, sent>>
  <2>1. \A q \in Participant : Steady(q)
    BY <1>0, <1>2 DEF Steady, NodesOK, NodeType
  <2> QED
    BY <1>1, <1>2, <2>1, FailComplete, Zenon
<1>3. CASE nodes[p].state = "Initial" /\ Broadcast(p, drawn[p] + 1)
  <2>1. /\ nodes'[p].gen = nodes[p].gen
        /\ \A q \in Participant : q # p => nodes'[q] = nodes[q]
    BY <1>3, Part1Nodes, Zenon
  <2>2. \A q \in Participant : Steady(q) /\ nodes'[q].gen = nodes[q].gen
    <3>1. \A q \in Participant : nodes[q].gen \in Nat
      BY <1>0, Zenon DEF NodesOK, NodeType
    <3> QED
      BY <1>3, <2>1, <3>1 DEF Steady
  <2>3. run' = Advance(run, p, "part2") /\ DOMAIN run = RunFields
        /\ run.slice \subseteq Participant
    BY <1>0, <1>1, <1>3, Zenon DEF Broadcast, RunOK
  <2>4. /\ run'.slice = run.slice /\ run'.c = run.c /\ run'.uni = run.uni
        /\ run'.outs = run.outs
        /\ \/ run'.step = "part1"
           \/ run'.step = "part2" /\ run'.todo = run'.slice
    BY <1>1, <2>3, AdvanceFields
  <2>5. run'.enc = run.enc /\ run'.kind = run.kind
    BY <2>3, Zenon DEF Advance, RunFields
  <2>6. run.uni = {} /\ run.outs = {}
    BY <1>0, <1>1, Zenon DEF RunComplete, RunOK
  <2>7. Passed' = {}
    BY <2>4, Zenon DEF Passed
  <2>8. RunComplete'
    BY <2>4, <2>6, <2>7, Zenon DEF RunComplete, SharesFor
  <2>9. EncOK'
    <3>1. \A q \in run'.slice :
            /\ run'.enc[q] \in Nat /\ run'.enc[q] <= nodes'[q].gen
            /\ run'.kind = "encrypted" => run'.enc[q] = nodes'[q].gen
      BY <1>0, <1>1, <2>2, <2>3, <2>4, <2>5 DEF EncOK
    <3> QED
      BY <1>0, <1>1, <2>2, <3>1, AnnouncedKept, Zenon DEF EncOK
  <2>10. \A d \in deliveries' : DeliveryComplete(d)'
    <3>1. \A d \in deliveries : d.c # run.c
      BY <1>1, Zenon DEF DkgInv, DeliveryOK, Sealed
    <3>2. \A c : c # run.c => Of(c)' = Of(c)
      BY <1>3 DEF Of, Broadcast
    <3> QED
      BY <1>0, <1>1, <2>2, <3>1, <3>2, DeliveryCompleteKept, Zenon DEF DkgComplete
  <2> QED
    BY <2>4, <2>8, <2>9, <2>10, Zenon DEF DkgComplete, CompletesAfterPart2
<1> QED
  BY <1>2, <1>3, Zenon DEF ceremony_part1

\* The shares of a node that passes part2 are added.
LEMMA SharesAdded ==
  ASSUME DkgInv, RunComplete, NEW p \in run.slice, NEW q \in run.slice, run.step = "part2",
         NEW others, others = {m \in sent : m.c = run.c /\ m.p # p},
         dkg_part2(nodes[p].list, others),
         NEW uni, uni = run.uni \cup encrypt_round2_package(p, others)
  PROVE  SharesFor({u \in uni : u.to = q}, run.c, Passed \cup {p}, q, run.enc)
<1>1. Running /\ RunOK
  BY Zenon DEF Running, DkgInv
<1>2. OwnSent(p, run.c) /\ OwnSent(q, run.c)
  BY <1>1, Zenon DEF RunOK
<1>3. PICK own \in Of(run.c) : own.p = p /\ own.poly = nodes[p].poly
  BY <1>2, Zenon DEF OwnSent
<1>4. PICK mq \in Of(run.c) : mq.p = q
  BY <1>2, Zenon DEF OwnSent
<1>5. others = {m \in Of(run.c) : m.p # p}
  BY Zenon DEF Of
<1>6. SharesFor({u \in run.uni : u.to = q}, run.c, Passed, q, run.enc)
  BY <1>1, Zenon DEF RunComplete
<1>7. ASSUME NEW u \in encrypt_round2_package(p, others), u.to = q
      PROVE  \E m1, m2 \in Of(run.c) :
               /\ m1.p \in Passed \cup {p} /\ m1.p # q /\ m2.p = q
               /\ u.from = m1.p /\ u.poly = m1.poly /\ u.to = q /\ u.at = m2.id
               /\ u.c = run.c /\ u.recipient_pub = run.enc[q]
  <2>1. PICK m \in others :
          u = [from |-> p, to |-> m.p, c |-> run.c, poly |-> nodes[p].poly,
               at |-> vid_to_identifier(nodes[p].list, m.p),
               sender_key |-> nodes[p].gen, recipient_pub |-> run.enc[m.p]]
    BY Zenon DEF encrypt_round2_package
  <2>2. m.id = vid_to_identifier(nodes[p].list, m.p) /\ m \in Of(run.c) /\ m.p # p
    BY <1>5, Zenon DEF dkg_part2
  <2>3. /\ u.from = p /\ u.to = m.p /\ u.c = run.c /\ u.poly = nodes[p].poly
        /\ u.at = vid_to_identifier(nodes[p].list, m.p) /\ u.recipient_pub = run.enc[m.p]
    BY <2>1, Zenon
  <2> QED
    BY <1>3, <1>7, <2>2, <2>3, Zenon
<1>8. ASSUME NEW u \in run.uni, u.to = q
      PROVE  \E m1, m2 \in Of(run.c) :
               /\ m1.p \in Passed \cup {p} /\ m1.p # q /\ m2.p = q
               /\ u.from = m1.p /\ u.poly = m1.poly /\ u.to = q /\ u.at = m2.id
               /\ u.c = run.c /\ u.recipient_pub = run.enc[q]
  BY <1>6, <1>8 DEF SharesFor
<1>9. ASSUME NEW m \in Of(run.c), m.p \in Passed \cup {p}, m.p # q
      PROVE  \E u \in {x \in uni : x.to = q} : u.from = m.p
  <2>1. CASE m.p \in Passed
    BY <1>6, <1>9, <2>1, Zenon DEF SharesFor
  <2>2. CASE m.p = p
    <3>1. mq \in others
      BY <1>4, <1>5, <1>9, <2>2, Zenon
    <3>2. PICK u : u = [from |-> p, to |-> mq.p, c |-> run.c, poly |-> nodes[p].poly,
                        at |-> vid_to_identifier(nodes[p].list, mq.p),
                        sender_key |-> nodes[p].gen, recipient_pub |-> run.enc[mq.p]]
      BY Zenon
    <3>3. u \in encrypt_round2_package(p, others) /\ u.to = q /\ u.from = p
      BY <1>4, <3>1, <3>2, Zenon DEF encrypt_round2_package
    <3> QED
      BY <2>2, <3>3
  <2> QED
    BY <1>9, <2>1, <2>2, Zenon
<1> QED
  BY <1>7, <1>8, <1>9, Zenon DEF SharesFor

\* part2 of a node: its shares are complete, and after the last node of a
\* networked ceremony so are the deliveries.
LEMMA Part2Complete ==
  ASSUME DkgInv, DkgInv', DkgComplete, NEW p \in Participant, ceremony_part2(p)
  PROVE  DkgComplete'
<1> DEFINE others == {m \in sent : m.c = run.c /\ m.p # p}
           uni == run.uni \cup encrypt_round2_package(p, others)
<1>0. NodesOK /\ RunOK /\ EncOK /\ RunComplete /\ SentOK
  BY Zenon DEF DkgInv, DkgComplete
<1>1. /\ run.step = "part2" /\ Running /\ p \in run.todo
      /\ UNCHANGED <<announced, sent>> /\ \A c : Of(c)' = Of(c)
  BY Zenon DEF ceremony_part2, Running, Of
<1>2. /\ DOMAIN run = RunFields /\ run.slice \subseteq Participant
      /\ run.todo \subseteq run.slice /\ p \in run.slice
      /\ \A m \in Of(run.c) : m.p \in run.slice
      /\ \A q \in run.slice : OwnSent(q, run.c)
      /\ \A u \in run.uni : Genuine(u, run.c)
  BY <1>0, <1>1, Zenon DEF RunOK
<1>3. \A q \in Participant : nodes[q].gen \in Nat
  BY <1>0, Zenon DEF NodesOK, NodeType
<1>4. CASE Fail /\ UNCHANGED <<nodes, deliveries>>
  <2>1. \A q \in Participant : Steady(q)
    BY <1>3, <1>4 DEF Steady
  <2> QED
    BY <1>1, <1>4, <2>1, FailComplete, Zenon
<1>5. CASE /\ nodes[p].state = "AfterPart1"
           /\ nodes' = [nodes EXCEPT ![p].state = "Failed"]
           /\ Fail /\ UNCHANGED deliveries
  <2>1. nodes'[p].gen = nodes[p].gen /\ \A q \in Participant : q # p => nodes'[q] = nodes[q]
    BY <1>5, StateNodes, Zenon
  <2>2. \A q \in Participant : Steady(q)
    BY <1>3, <1>5, <2>1 DEF Steady
  <2> QED
    BY <1>1, <1>5, <2>2, FailComplete, Zenon
<1>6. CASE /\ nodes[p].state = "AfterPart1" /\ dkg_part2(nodes[p].list, others)
           /\ nodes' = [nodes EXCEPT ![p].state = "AfterPart2", ![p].r1 = others]
           /\ \/ /\ run.todo = {p}
                 /\ deliveries' = deliveries \cup
                      {[c |-> run.c, to |-> q, enc |-> run.enc,
                        packages |-> {u \in uni : u.to = q}] : q \in run.slice}
                 /\ run' = Idle
              \/ /\ run' = Advance([run EXCEPT !.uni = uni], p, "part3")
                 /\ UNCHANGED deliveries
  <2>1. others = {m \in Of(run.c) : m.p # p}
    BY DEF Of
  <2>2. \A q \in run.slice :
          SharesFor({u \in uni : u.to = q}, run.c, Passed \cup {p}, q, run.enc)
    BY <1>0, <1>1, <1>2, <1>6, SharesAdded, Zenon
  <2>3. \A u \in uni : u.from \in run.slice /\ u.sender_key = nodes[u.from].gen
    <3>1. \A u \in run.uni : u.from \in run.slice /\ u.sender_key = nodes[u.from].gen
      BY <1>0, <1>1, <1>2, Zenon DEF RunComplete, Genuine
    <3>2. \A u \in encrypt_round2_package(p, others) :
            u.from = p /\ u.sender_key = nodes[p].gen
      BY DEF encrypt_round2_package
    <3> QED
      BY <1>2, <3>1, <3>2
  <2> HIDE DEF others, uni
  <2>4. /\ nodes'[p].gen = nodes[p].gen /\ nodes'[p].list = nodes[p].list
        /\ nodes'[p].poly = nodes[p].poly /\ nodes'[p].state = "AfterPart2"
        /\ nodes'[p].r1 = others
        /\ \A q \in Participant : q # p => nodes'[q] = nodes[q]
    BY <1>6, Part2Nodes, Zenon
  <2>5. \A q \in Participant : Steady(q) /\ nodes'[q].gen = nodes[q].gen
    <3>1. nodes[p].state = "AfterPart1"
      BY <1>6, Zenon
    <3> QED
      BY <1>3, <2>4, <3>1 DEF Steady
  <2>7. nodes'[p].r1 = {m \in Of(run.c) : m.p # p} /\ Fits(nodes'[p].list, Of(run.c))
    <3>1. Accepted(p)'
      BY <2>4, Zenon DEF DkgInv, AcceptedOK
    <3>2. PICK c \in used' : /\ OwnSent(p, c)' /\ Fits(nodes'[p].list, Of(c)')
                             /\ nodes'[p].r1 = {m \in Of(c)' : m.p # p}
      BY <3>1, Zenon DEF Accepted
    <3>3. PICK m1 \in Of(c) : m1.p = p /\ m1.poly = nodes[p].poly
      BY <1>1, <2>4, <3>2, Zenon DEF OwnSent
    <3>4. PICK m2 \in Of(run.c) : m2.p = p /\ m2.poly = nodes[p].poly
      BY <1>2 DEF OwnSent
    <3>5. c = run.c
      BY <1>0, <3>3, <3>4, Zenon DEF SentOK, Of
    <3> QED
      BY <1>1, <3>2, <3>5, Zenon
  <2>8. \A q \in Passed \cup {p} :
          /\ nodes'[q].r1 = {m \in Of(run.c) : m.p # q} /\ Fits(nodes'[q].list, Of(run.c))
          /\ nodes'[q].state = "AfterPart2"
    <3>1. \A q \in Passed : HasPackages(q, run.c) /\ nodes[q].state = "AfterPart2"
      BY <1>0, <1>1, Zenon DEF RunComplete
    <3>2. Passed \subseteq Participant
      BY <1>2, Zenon DEF Passed
    <3> QED
      BY <2>4, <2>7, <3>1, <3>2 DEF HasPackages
  <2>9. \A d \in deliveries : DeliveryComplete(d)'
    BY <1>0, <1>1, <2>5, DeliveryCompleteKept, Zenon DEF DkgComplete
  <2>10. \A an \in announced' :
           an.p \in Participant /\ an.enc \in Nat /\ an.enc <= nodes'[an.p].gen
    BY <1>0, <1>1, <2>5, AnnouncedKept, Zenon
  <2>11. CASE /\ run.todo = {p} /\ run' = Idle
              /\ deliveries' = deliveries \cup
                   {[c |-> run.c, to |-> q, enc |-> run.enc,
                     packages |-> {u \in uni : u.to = q}] : q \in run.slice}
    <3>1. Passed \cup {p} = run.slice
      BY <1>1, <1>2, <2>11 DEF Passed
    <3>2. ASSUME NEW q \in run.slice, NEW d, d.c = run.c, d.to = q, d.enc = run.enc,
                 d.packages = {u \in uni : u.to = q}
          PROVE  DeliveryComplete(d)'
      <4>1. /\ q \in Participant /\ d.enc[q] \in Nat /\ d.enc[q] <= nodes'[q].gen
        BY <1>0, <1>1, <1>2, <2>5, <3>2 DEF EncOK
      <4>2. SharesFor(d.packages, run.c, run.slice, q, run.enc)
        BY <2>2, <3>1, <3>2, Zenon
      <4>3. SharesFor(d.packages, d.c, Participant, q, d.enc)'
        <5>1. Of(d.c)' = Of(run.c) /\ d.c = run.c /\ d.enc = run.enc
          BY <1>1, <3>2, Zenon
        <5>2. \A m \in Of(run.c) : m.p \in run.slice /\ m.p \in Participant
          BY <1>2, Zenon
        <5> QED
          BY <4>2, <5>1, <5>2 DEF SharesFor
      <4>4. HasPackages(q, d.c)' /\ nodes'[q].state = "AfterPart2"
        BY <1>1, <2>8, <3>1, <3>2, Zenon DEF HasPackages
      <4> QED
        BY <3>2, <4>1, <4>3, <4>4, Zenon DEF DeliveryComplete
    <3>3. \A d \in deliveries' : DeliveryComplete(d)'
      BY <2>9, <2>11, <3>2, Zenon
    <3>4. run'.step = "idle"
      BY <2>11, Zenon DEF Idle
    <3> QED
      BY <2>10, <3>3, <3>4 DEF DkgComplete, EncOK, RunComplete, CompletesAfterPart2, Running
  <2>12. CASE /\ run' = Advance([run EXCEPT !.uni = uni], p, "part3")
              /\ UNCHANGED deliveries
    <3>1. PICK r : r = [run EXCEPT !.uni = uni]
      BY Zenon
    <3>2. /\ DOMAIN r = RunFields /\ r.c = run.c /\ r.slice = run.slice /\ r.uni = uni
          /\ r.outs = run.outs /\ r.todo = run.todo /\ r.step = run.step
          /\ r.enc = run.enc /\ r.kind = run.kind
      BY <1>2, <3>1, Zenon DEF RunFields
    <3>3. run' = Advance(r, p, "part3")
      BY <2>12, <3>1, Zenon
    <3>4. /\ run'.c = run.c /\ run'.slice = run.slice /\ run'.uni = uni
          /\ run'.outs = run.outs
          /\ \/ run.todo = {p} /\ run'.todo = run.slice /\ run'.step = "part3"
             \/ run.todo # {p} /\ run'.todo = run.todo \ {p} /\ run'.step = "part2"
      BY <1>1, <3>2, <3>3, AdvanceFields
    <3>5. run'.enc = run.enc /\ run'.kind = run.kind
      BY <3>2, <3>3, Zenon DEF Advance, RunFields
    <3>6. Passed' = Passed \cup {p}
      BY <1>1, <1>2, <3>4, Zenon DEF Passed
    <3>7. \A q \in run'.slice :
            SharesFor({u \in run.uni : u.to = q}, run.c, Passed, q, run.enc)'
      BY <1>1, <2>2, <3>4, <3>5, <3>6 DEF SharesFor
    <3>8. \A q \in Passed' : HasPackages(q, run.c)' /\ nodes'[q].state = "AfterPart2"
      BY <1>1, <2>8, <3>4, <3>6, Zenon DEF HasPackages
    <3>9. \A u \in run'.uni : u.sender_key = nodes'[u.from].gen
      BY <1>2, <2>3, <2>5, <3>4, Zenon
    <3>10. \A o \in run'.outs : o.c = run'.c
      BY <1>0, <1>1, <3>4, Zenon DEF RunComplete
    <3>11. RunComplete'
      BY <3>4, <3>7, <3>8, <3>9, <3>10, Zenon DEF RunComplete
    <3>12. EncOK'
      BY <1>0, <1>1, <1>2, <2>5, <2>10, <3>4, <3>5, Zenon DEF EncOK
    <3> QED
      BY <2>9, <2>12, <3>4, <3>11, <3>12, Zenon DEF DkgComplete, CompletesAfterPart2
  <2> QED
    BY <1>6, <2>11, <2>12, Zenon
<1> QED
  BY <1>4, <1>5, <1>6, Zenon DEF ceremony_part2

\* part3 of a node of an in-process ceremony cannot fail, and the group keys
\* agree.
LEMMA Part3Complete ==
  ASSUME DkgInv, DkgComplete, NEW p \in Participant, ceremony_part3(p)
  PROVE  DkgComplete'
<1> DEFINE packages == {u \in run.uni : u.to = p}
           out == Output(p, run.c, run.bound)
           outs == run.outs \cup {out}
<1>0. NodesOK /\ RunOK /\ EncOK /\ RunComplete /\ SentOK /\ OutputsOK
  BY Zenon DEF DkgInv, DkgComplete
<1>1. /\ run.step = "part3" /\ Running /\ p \in run.todo
      /\ UNCHANGED <<announced, sent, deliveries>> /\ \A c : Of(c)' = Of(c)
  BY Zenon DEF ceremony_part3, Running, Of
<1>2. /\ DOMAIN run = RunFields /\ run.slice \subseteq Participant
      /\ run.todo \subseteq run.slice /\ p \in run.slice
      /\ \A m \in Of(run.c) : m.p \in run.slice
      /\ \A u \in run.uni : Genuine(u, run.c)
  BY <1>0, <1>1, Zenon DEF RunOK
<1>3. Passed = run.slice
  BY <1>1, Zenon DEF Passed
<1>4. SharesFor(packages, run.c, run.slice, p, run.enc)
  BY <1>0, <1>1, <1>2, <1>3, Zenon DEF RunComplete
<1>5. nodes[p].state = "AfterPart2" /\ HasPackages(p, run.c)
  BY <1>0, <1>1, <1>2, <1>3, Zenon DEF RunComplete
<1>6. part3_ok(p, packages)
  BY <1>0, <1>2, <1>4, <1>5, SharesAccepted
<1>7. run.kind = "encrypted" =>
        \A u \in packages : decrypt_round2_package(u, p, run.c, run.enc)
  <2> SUFFICES ASSUME run.kind = "encrypted", NEW u \in packages
               PROVE  decrypt_round2_package(u, p, run.c, run.enc)
    BY Zenon
  <2>1. u.c = run.c /\ u.to = p /\ u.recipient_pub = run.enc[p] /\ u.from \in run.slice
    BY <1>4 DEF SharesFor
  <2>2. u.sender_key = nodes[u.from].gen
    BY <1>0, <1>1, Zenon DEF RunComplete
  <2>3. run.enc[u.from] = nodes[u.from].gen /\ run.enc[p] = nodes[p].gen
    BY <1>0, <1>1, <1>2, <2>1, Zenon DEF EncOK
  <2> QED
    BY <2>1, <2>2, <2>3, Zenon DEF decrypt_round2_package
<1>8. \A o \in outs : o.c = run.c /\ o.key = KeyOf(Of(run.c))
  <2>1. \A u \in packages : Genuine(u, run.c)
    BY <1>2, Zenon
  <2>2. out.key = KeyOf(Of(run.c))
    BY <1>6, <2>1, Part3Key
  <2>3. out.c = run.c
    BY Zenon DEF Output
  <2>4. \A o \in run.outs : o.c = run.c /\ OutputOK(o)
    BY <1>0, <1>1, Zenon DEF RunComplete, OutputsOK
  <2> HIDE DEF out
  <2> QED
    BY <2>2, <2>3, <2>4 DEF OutputOK
<1>9. /\ nodes' = Completed(p)
      /\ \/ run.todo # {p} /\ run' = Advance([run EXCEPT !.outs = outs], p, "part3")
         \/ run' = Idle
  <2>1. \A o1, o2 \in outs : o1.key = o2.key
    BY <1>8, Zenon
  <2> QED
    BY <1>6, <1>7, <2>1, Zenon DEF ceremony_part3
<1> HIDE DEF packages, outs, out
<1>10. /\ nodes'[p].gen = nodes[p].gen /\ nodes'[p].list = nodes[p].list
       /\ nodes'[p].r1 = nodes[p].r1 /\ nodes'[p].state = "Completed"
       /\ \A q \in Participant : q # p => nodes'[q] = nodes[q]
  BY <1>9, StateNodes, Zenon DEF Completed
<1>11. \A q \in Participant : Steady(q) /\ nodes'[q].gen = nodes[q].gen
  <2>1. \A q \in Participant : nodes[q].gen \in Nat
    BY <1>0, Zenon DEF NodesOK, NodeType
  <2> QED
    BY <1>10, <2>1 DEF Steady
<1>12. \A d \in deliveries' : DeliveryComplete(d)'
  BY <1>0, <1>1, <1>11, DeliveryCompleteKept DEF DkgComplete
<1>13. \A an \in announced' :
         an.p \in Participant /\ an.enc \in Nat /\ an.enc <= nodes'[an.p].gen
  BY <1>0, <1>1, <1>11, AnnouncedKept, Zenon
<1>14. CASE run' = Idle
  <2>1. run'.step = "idle"
    BY <1>14, Zenon DEF Idle
  <2> QED
    BY <1>12, <1>13, <2>1, Zenon DEF DkgComplete, EncOK, RunComplete, CompletesAfterPart2, Running
<1>15. CASE run.todo # {p} /\ run' = Advance([run EXCEPT !.outs = outs], p, "part3")
  <2>1. PICK r : r = [run EXCEPT !.outs = outs]
    BY Zenon
  <2>2. /\ DOMAIN r = RunFields /\ r.c = run.c /\ r.slice = run.slice /\ r.uni = run.uni
        /\ r.outs = outs /\ r.todo = run.todo /\ r.step = run.step
        /\ r.enc = run.enc /\ r.kind = run.kind
    BY <1>2, <2>1 DEF RunFields
  <2>3. run' = Advance(r, p, "part3")
    BY <1>15, <2>1, Zenon
  <2>4. /\ run'.c = run.c /\ run'.slice = run.slice /\ run'.uni = run.uni
        /\ run'.outs = outs /\ run'.todo = run.todo \ {p} /\ run'.step = "part3"
    BY <1>1, <1>15, <2>2, <2>3, AdvanceFields
  <2>5. run'.enc = run.enc /\ run'.kind = run.kind
    BY <2>2, <2>3, Zenon DEF Advance, RunFields
  <2>6. Passed' = Passed
    BY <1>3, <2>4, Zenon DEF Passed
  <2>7. \A q \in run'.slice :
          SharesFor({u \in run.uni : u.to = q}, run.c, Passed, q, run.enc)'
    <3>1. \A q \in run.slice :
            SharesFor({u \in run.uni : u.to = q}, run.c, Passed, q, run.enc)
      BY <1>0, <1>1, Zenon DEF RunComplete
    <3>2. ASSUME NEW q \in run.slice, NEW shares
          PROVE  SharesFor(shares, run.c, Passed, q, run.enc) =>
                   SharesFor(shares, run.c, Passed, q, run.enc)'
      BY <1>1, <2>4, <2>5, <2>6 DEF SharesFor
    <3> QED
      BY <2>4, <3>1, <3>2, Zenon
  <2>8. ASSUME NEW q \in Passed'
        PROVE  /\ HasPackages(q, run.c)'
               /\ q \in run'.todo => nodes'[q].state = "AfterPart2"
    <3>1. q \in Passed /\ q \in Participant
      BY <1>2, <1>3, <2>6, Zenon
    <3>2. HasPackages(q, run.c) /\ (q \in run.todo => nodes[q].state = "AfterPart2")
      BY <1>0, <1>1, <3>1, Zenon DEF RunComplete
    <3>3. nodes'[q].r1 = nodes[q].r1 /\ nodes'[q].list = nodes[q].list
      BY <1>10, <3>1, Zenon
    <3>4. q \in run'.todo => nodes'[q] = nodes[q] /\ q \in run.todo
      BY <1>10, <2>4, <3>1, Zenon
    <3> QED
      BY <1>1, <2>4, <3>2, <3>3, <3>4, Zenon DEF HasPackages
  <2>9. \A u \in run'.uni : u.sender_key = nodes'[u.from].gen
    <3>1. \A u \in run.uni : u.from \in Participant /\ u.sender_key = nodes[u.from].gen
      BY <1>0, <1>1, <1>2, Zenon DEF RunComplete, Genuine
    <3> QED
      BY <1>11, <2>4, <3>1, Zenon
  <2>10. RunComplete'
    BY <1>8, <2>4, <2>7, <2>8, <2>9, Zenon DEF RunComplete
  <2>11. EncOK'
    BY <1>0, <1>1, <1>2, <1>11, <1>13, <2>4, <2>5 DEF EncOK
  <2> QED
    BY <1>12, <2>4, <2>10, <2>11, Zenon DEF DkgComplete, CompletesAfterPart2
<1> QED
  BY <1>9, <1>14, <1>15, Zenon

\* DkgComplete is kept by every step.
LEMMA CompleteStep == DkgInv /\ DkgInv' /\ DkgComplete /\ [Next]_vars => DkgComplete'
<1> SUFFICES ASSUME DkgInv, DkgInv', DkgComplete, [Next]_vars PROVE DkgComplete'
  OBVIOUS
<1>0. NodesOK /\ EncOK /\ \A q \in Participant : nodes[q].gen \in Nat
  BY Zenon DEF DkgInv, DkgComplete, NodesOK, NodeType
<1>1. ASSUME UNCHANGED <<nodes, run, sent, deliveries>>, announced' \subseteq announced
      PROVE  DkgComplete'
  <2>1. \A q \in Participant : Steady(q)
    BY <1>0, <1>1 DEF Steady
  <2> QED
    BY <1>1, <2>1, OutsideComplete, Zenon
<1>2. ASSUME NEW p \in Changing, NEW e \in 0..MaxEpoch, update_registry(p, e)
      PROVE  DkgComplete'
  BY <1>1, <1>2, Zenon DEF update_registry
<1>3. ASSUME NEW p \in Participant, NEW list \in Lists, new(p, list)
      PROVE  DkgComplete'
  <2>1. /\ nodes'[p].gen = nodes[p].gen + 1
        /\ \A q \in Participant : q # p => nodes'[q] = nodes[q]
    BY <1>0, <1>3, Zenon DEF new, NodesOK
  <2>2. \A q \in Participant : Steady(q)
    BY <1>0, <2>1 DEF Steady
  <2>3. Running => p \notin run.slice /\ run.slice \subseteq Participant
    BY <1>3, Zenon DEF new, Free, DkgInv, RunOK
  <2>4. UNCHANGED <<run, sent, deliveries, announced>>
    BY <1>3, Zenon DEF new
  <2> QED
    BY <2>1, <2>2, <2>3, <2>4, OutsideComplete, Zenon
<1>4. ASSUME NEW p \in Participant, NEW c \in Ceremony, create_dkg_key_announcement(p, c)
      PROVE  DkgComplete'
  <2>1. /\ ~ Running /\ UNCHANGED <<nodes, run, sent, deliveries>>
        /\ announced' = announced \cup
             {[p |-> p, c |-> c, enc |-> nodes[p].gen, key |-> regs[Len(regs)].key[p]]}
    BY <1>4, Zenon DEF create_dkg_key_announcement
  <2>2. \A q \in Participant : Steady(q)
    BY <1>0, <2>1 DEF Steady
  <2>3. \A c1 : Of(c1)' = Of(c1)
    BY <2>1, Zenon DEF Of
  <2>4. \A d \in deliveries' : DeliveryComplete(d)'
    BY <1>0, <2>1, <2>2, <2>3, DeliveryCompleteKept, Zenon DEF DkgComplete
  <2>5. EncOK' /\ RunComplete'
    <3>1. ~ Running'
      BY <2>1, Zenon DEF Running
    <3>2. \A an \in announced' :
            an.p \in Participant /\ an.enc \in Nat /\ an.enc <= nodes'[an.p].gen
      BY <1>0, <2>1 DEF EncOK
    <3> QED
      BY <3>1, <3>2, Zenon DEF EncOK, RunComplete
  <2> QED
    BY <2>1, <2>4, <2>5, Zenon DEF DkgComplete, CompletesAfterPart2
<1>5. ASSUME NEW p \in Participant, NEW d \in deliveries, dkg_part3_from_delivery(p, d)
      PROVE  DkgComplete'
  <2>1. /\ nodes' = [nodes EXCEPT ![p].state = "Completed"]
        /\ UNCHANGED <<run, sent, deliveries, announced>>
        /\ Running => p \notin run.slice
    BY <1>5, Zenon DEF dkg_part3_from_delivery, Completed, Free
  <2>2. /\ nodes'[p].gen = nodes[p].gen /\ nodes'[p].list = nodes[p].list
        /\ nodes'[p].r1 = nodes[p].r1 /\ nodes'[p].state = "Completed"
        /\ \A q \in Participant : q # p => nodes'[q] = nodes[q]
    BY <2>1, StateNodes, Zenon
  <2>3. \A q \in Participant : Steady(q)
    BY <1>0, <2>2 DEF Steady
  <2>4. Running => run.slice \subseteq Participant
    BY Zenon DEF DkgInv, RunOK
  <2> QED
    BY <2>1, <2>2, <2>3, <2>4, OutsideComplete, Zenon
<1>6. CASE UNCHANGED vars
  BY <1>1, <1>6, Zenon DEF vars
<1>7. ASSUME NEW c \in Ceremony, NEW ps \in Slices,
             \/ run_dkg_ceremony(c, ps)
             \/ run_dkg_ceremony_encrypted(c, ps)
             \/ run_dkg_ceremony_with_authenticated_keys(c, ps)
             \/ build_dkg_network_messages(c, ps)
             \/ run_dkg_ceremony_with_registry(c, ps)
      PROVE  DkgComplete'
  BY <1>7, EntryComplete
<1>8. ASSUME NEW p \in Participant,
             ceremony_part1(p) \/ ceremony_part2(p) \/ ceremony_part3(p)
      PROVE  DkgComplete'
  BY <1>8, Part1Complete, Part2Complete, Part3Complete
<1> QED
  BY <1>2, <1>3, <1>4, <1>5, <1>6, <1>7, <1>8, Zenon DEF Next

\* Shares of nodes that passed part2 are complete in every reachable state.
LEMMA DkgCompleteHolds == Spec => []DkgComplete
<1>1. Init => DkgComplete
  BY DEF Init, DkgComplete, EncOK, RunComplete, CompletesAfterPart2, Running, Idle
<1> QED
  BY <1>1, CompleteStep, DkgInvHolds, PTL DEF Spec

\* An in-process ceremony does not fail once all its nodes have passed part2.
THEOREM CeremoniesComplete == Spec => []CompletesAfterPart2
<1>1. DkgComplete => CompletesAfterPart2
  BY Zenon DEF DkgComplete
<1> QED
  BY <1>1, DkgCompleteHolds, PTL

\* A delivery whose keys are the ones its participants hold is accepted for as
\* long as its recipient waits for it.
THEOREM DeliveriesUsable == Spec => []DeliveryUsable
<1>1. DkgInv /\ DkgComplete => DeliveryUsable
  <2> SUFFICES ASSUME DkgInv, DkgComplete, NEW d \in deliveries,
                      nodes[d.to].gen = d.enc[d.to], nodes[d.to].state = "AfterPart2",
                      \A u \in d.packages : u.sender_key = d.enc[u.from]
               PROVE  /\ \A u \in d.packages : decrypt_round2_package(u, d.to, d.c, d.enc)
                      /\ part3_ok(d.to, d.packages)
    BY Zenon DEF DeliveryUsable
  <2>1. SentOK /\ DeliveryComplete(d) /\ \A m \in Of(d.c) : m.p \in Participant
    BY Zenon DEF DkgInv, DkgComplete, SentOK, Of
  <2>2. /\ SharesFor(d.packages, d.c, Participant, d.to, d.enc)
        /\ HasPackages(d.to, d.c)
    BY <2>1, Zenon DEF DeliveryComplete
  <2>3. \A u \in d.packages : decrypt_round2_package(u, d.to, d.c, d.enc)
    BY <2>2, Zenon DEF SharesFor, decrypt_round2_package
  <2>4. part3_ok(d.to, d.packages)
    BY <2>1, <2>2, SharesAccepted, Zenon
  <2> QED
    BY <2>3, <2>4, Zenon
<1> QED
  BY <1>1, DkgInvHolds, DkgCompleteHolds, PTL

=============================================================================
