-------------------------------- MODULE Dkg --------------------------------
(***************************************************************************)
(* Distributed key generation, node/dkg_node.rs with crypto/dkg.rs,        *)
(* dkg_announce.rs, dkg_encrypt.rs and the participant registry.           *)
(*                                                                         *)
(* nodes[p] is participant p's FrostDkgNode; a participant that starts     *)
(* again makes a new one, numbered gen, with a new encryption key of the   *)
(* same number.  A secret polynomial is <<p, poly>>; a group key is the    *)
(* set of the polynomials it sums.  A ceremony holds &mut its nodes, so    *)
(* one ceremony runs at a time and nobody else uses its nodes; its loops   *)
(* take the nodes in any order, which is the order of the slice.           *)
(***************************************************************************)
EXTENDS ParticipantRegistry, Sequences, FiniteSets, Functions

CONSTANTS Participant,  \* VerifierIds
          Slices,       \* sets of participants that ceremonies are run over
          Lists,        \* ordered lists given to FrostDkgNode::new
          Ceremony,     \* ceremony ids; fresh for every ceremony
          MinSigners,
          MaxObjects,   \* bound: nodes a participant makes
          Changing,     \* bound: participants whose registry entry changes
          MaxEpoch      \* bound: registry epochs

ASSUME DkgAssumption ==
  /\ \A list \in Lists : list \in Seq(Range(list))
  /\ Slices \subseteq SUBSET Participant
  /\ MaxObjects \in Nat /\ MaxEpoch \in Nat

VARIABLES nodes,      \* the current FrostDkgNode of each participant
          drawn,      \* number of polynomials each participant has drawn
          sent,       \* Round-1 packages broadcast so far
          announced,  \* signed key announcements in circulation
          regs,       \* registry snapshots, oldest first
          run,        \* the ceremony in progress, or how the last one ended
          used,       \* ids of ceremonies that were started
          deliveries, \* DkgRound2Delivery messages in circulation
          outputs     \* key shares handed to the participants

vars == <<nodes, drawn, sent, announced, regs, run, used, deliveries, outputs>>

NoNode == [gen |-> 0, state |-> "none", list |-> <<>>, poly |-> 0, r1 |-> {}]
Idle == [step |-> "idle"]
Genesis == [epoch |-> 0, status |-> [p \in Participant |-> "Active"],
            key |-> [p \in Participant |-> 0]]

Init ==
  /\ nodes = [p \in Participant |-> NoNode]
  /\ drawn = [p \in Participant |-> 0]
  /\ sent = {} /\ announced = {} /\ used = {} /\ deliveries = {} /\ outputs = {}
  /\ regs = <<Genesis>>
  /\ run = Idle

Running == run.step \in {"part1", "part2", "part3"}
Free(p) == Running => p \notin run.slice

vid_to_identifier(list, p) == CHOOSE i \in DOMAIN list : list[i] = p
-----------------------------------------------------------------------------
\* FrostDkgNode::new, for a participant that starts or starts again.
new(p, list) ==
  /\ Free(p) /\ nodes[p].gen < MaxObjects
  /\ Len(list) >= 2 /\ IsInjective(list) /\ p \in Range(list)
  /\ MinSigners \in 2..Len(list)
  /\ nodes' = [nodes EXCEPT ![p] =
                 [gen |-> nodes[p].gen + 1, state |-> "Initial", list |-> list,
                  poly |-> 0, r1 |-> {}]]
  /\ UNCHANGED <<drawn, sent, announced, regs, run, used, deliveries, outputs>>

\* Participant p announces its encryption key for ceremony c, signed with
\* its signing key of the latest snapshot.  Announcements and snapshots are
\* read when a ceremony begins, so new ones come between the ceremonies.
create_dkg_key_announcement(p, c) ==
  /\ ~ Running /\ c \notin used /\ nodes[p].gen # 0
  /\ announced' = announced \cup
       {[p |-> p, c |-> c, enc |-> nodes[p].gen, key |-> regs[Len(regs)].key[p]]}
  /\ UNCHANGED <<nodes, drawn, sent, regs, run, used, deliveries, outputs>>

\* The operator publishes a new snapshot.
update_registry(p, e) ==
  LET r == regs[Len(regs)] IN
  /\ ~ Running
  /\ \E s \in with_revocation(r, p, e) \cup with_retirement(r, p, e)
              \cup with_key_rotation(r, p, r.key[p] + 1, e) :
       regs' = Append(regs, s)
  /\ UNCHANGED <<nodes, drawn, sent, announced, run, used, deliveries, outputs>>
-----------------------------------------------------------------------------
(* The entry points.  One that rejects its arguments changes nothing.      *)

\* A ceremony id is fresh, so nothing reads its announcements after this.
Begin(kind, c, ps, enc, bound) ==
  /\ ~ Running /\ c \notin used /\ ps # {} /\ \A p \in ps : nodes[p].gen # 0
  /\ used' = used \cup {c}
  /\ announced' = {an \in announced : an.c # c}
  /\ run' = [step |-> "part1", kind |-> kind, c |-> c, slice |-> ps, todo |-> ps,
             enc |-> enc, bound |-> bound, uni |-> {}, outs |-> {}]
  /\ UNCHANGED <<nodes, drawn, sent, regs, deliveries, outputs>>

\* The public halves of the encryption keys the nodes hold.
own_keys(ps) == [p \in ps |-> nodes[p].gen]

\* run_dkg_ceremony; the id only names the call here.
run_dkg_ceremony(c, ps) == Begin("plain", c, ps, own_keys(ps), {})

run_dkg_ceremony_encrypted(c, ps) == Begin("encrypted", c, ps, own_keys(ps), {})

\* The accepted arguments: one announcement from every participant of ps and
\* no other, for this ceremony, signed with the key that registry reg has.
collect_verified_enc_keys(reg, c, ps) ==
  {f \in [ps -> {an \in announced : an.c = c}] :
     \A p \in ps : f[p].p = p /\ p \in DOMAIN reg /\ f[p].key = reg[p]}

Announced(f) == [p \in DOMAIN f |-> f[p].enc]

\* Mutant: the announced keys are used and not compared with the held ones.
with_authenticated_keys_unchecked(c, ps) ==
  \E r \in Range(regs) : \E f \in collect_verified_enc_keys(to_dkg_registry(r), c, ps) :
    Begin("encrypted", c, ps, Announced(f), {})

run_dkg_ceremony_with_authenticated_keys(c, ps) ==
  \E r \in Range(regs) : \E f \in collect_verified_enc_keys(to_dkg_registry(r), c, ps) :
    /\ Announced(f) = own_keys(ps)
    /\ Begin("encrypted", c, ps, own_keys(ps), {})

\* The snapshot may be an old copy; expected_epoch says which one is meant.
run_dkg_ceremony_with_registry(c, ps) ==
  \E r \in Range(regs), expected_epoch \in 0..MaxEpoch :
    /\ check_ceremony_admission(r, expected_epoch, ps)
    /\ \E f \in collect_verified_enc_keys(to_dkg_registry(r), c, ps) :
         /\ Announced(f) = own_keys(ps)
         /\ Begin("encrypted", c, ps, own_keys(ps),
                  {[epoch |-> expected_epoch, by |-> f]})

build_dkg_network_messages(c, ps) ==
  \E r \in Range(regs) : \E f \in collect_verified_enc_keys(to_dkg_registry(r), c, ps) :
    Begin("network", c, ps, Announced(f), {})
-----------------------------------------------------------------------------
(* The loops of a ceremony, one node at a time.                            *)

Fail == run' = [step |-> "err", at |-> run.step]

Advance(r, p, step) ==
  IF r.todo = {p} THEN [r EXCEPT !.todo = r.slice, !.step = step]
                  ELSE [r EXCEPT !.todo = r.todo \ {p}]

\* The node has drawn poly; its package is broadcast.
Broadcast(p, poly) ==
  /\ nodes' = [nodes EXCEPT ![p].state = "AfterPart1", ![p].poly = poly]
  /\ drawn' = [drawn EXCEPT ![p] = IF poly > drawn[p] THEN poly ELSE drawn[p]]
  /\ sent' = sent \cup {[c |-> run.c, p |-> p, poly |-> poly,
                         id |-> vid_to_identifier(nodes[p].list, p)]}
  /\ run' = Advance(run, p, "part2")

\* Mutant: part1 has no state guard and draws again.
ceremony_part1_redraws(p) ==
  /\ run.step = "part1" /\ p \in run.todo
  /\ Broadcast(p, drawn[p] + 1)
  /\ UNCHANGED <<announced, regs, used, deliveries, outputs>>

\* Mutant: a node that was in a ceremony before repeats its package.
ceremony_part1_repeats(p) ==
  /\ run.step = "part1" /\ p \in run.todo
  /\ Broadcast(p, IF nodes[p].poly = 0 THEN drawn[p] + 1 ELSE nodes[p].poly)
  /\ UNCHANGED <<announced, regs, used, deliveries, outputs>>

\* FrostDkgNode::part1 of the next node.
ceremony_part1(p) ==
  /\ run.step = "part1" /\ p \in run.todo
  /\ IF nodes[p].state = "Initial" THEN Broadcast(p, drawn[p] + 1)
                                   ELSE Fail /\ UNCHANGED <<nodes, drawn, sent>>
  /\ UNCHANGED <<announced, regs, used, deliveries, outputs>>

\* frost::keys::dkg::part2, as crypto/dkg.rs calls it: a package from every
\* other signer, with a proof of knowledge made for the identifier that it is
\* filed under.
dkg_part2(list, others) ==
  /\ Cardinality(others) = Len(list) - 1
  /\ \A m \in others : m.id = vid_to_identifier(list, m.p)

\* Mutant: the shares are evaluated at the sender's identifier.
encrypt_round2_package_for_self(p, others) ==
  {[from |-> p, to |-> m.p, c |-> run.c, poly |-> nodes[p].poly,
    at |-> vid_to_identifier(nodes[p].list, p),
    sender_key |-> nodes[p].gen, recipient_pub |-> run.enc[m.p]] : m \in others}

\* The Round-2 packages of p, encrypted with its own key and the
\* recipient's public key of the ceremony.
encrypt_round2_package(p, others) ==
  {[from |-> p, to |-> m.p, c |-> run.c, poly |-> nodes[p].poly,
    at |-> vid_to_identifier(nodes[p].list, m.p),
    sender_key |-> nodes[p].gen, recipient_pub |-> run.enc[m.p]] : m \in others}

\* FrostDkgNode::part2 of the next node.  A package of a participant that is
\* not in the node's list is refused before the secret is consumed.
ceremony_part2(p) ==
  LET node == nodes[p]
      others == {m \in sent : m.c = run.c /\ m.p # p} IN
  /\ run.step = "part2" /\ p \in run.todo
  /\ \/ /\ \/ node.state # "AfterPart1"
           \/ \E m \in others : m.p \notin Range(node.list)
        /\ Fail /\ UNCHANGED <<nodes, deliveries>>
     \/ /\ node.state = "AfterPart1" /\ \A m \in others : m.p \in Range(node.list)
        /\ ~ dkg_part2(node.list, others)
        /\ nodes' = [nodes EXCEPT ![p].state = "Failed"]
        /\ Fail /\ UNCHANGED deliveries
     \/ /\ node.state = "AfterPart1" /\ \A m \in others : m.p \in Range(node.list)
        /\ dkg_part2(node.list, others)
        /\ nodes' = [nodes EXCEPT ![p].state = "AfterPart2", ![p].r1 = others]
        /\ LET uni == run.uni \cup encrypt_round2_package(p, others) IN
           IF run.kind = "network" /\ run.todo = {p}
           THEN /\ deliveries' = deliveries \cup
                     {[c |-> run.c, to |-> q, enc |-> run.enc,
                       packages |-> {u \in uni : u.to = q}] : q \in run.slice}
                /\ run' = Idle
           ELSE /\ run' = Advance([run EXCEPT !.uni = uni], p, "part3")
                /\ UNCHANGED deliveries
  /\ UNCHANGED <<drawn, sent, announced, regs, used, outputs>>

\* Both ends derive the same key: the sender used its announced key, and the
\* recipient still has the one it announced.
decrypt_round2_package(u, p, c, enc) ==
  /\ u.c = c /\ u.to = p
  /\ u.sender_key = enc[u.from] /\ u.recipient_pub = nodes[p].gen

\* frost::keys::dkg::part3, as crypto/dkg.rs calls it: a share from the
\* sender of every Round-1 package, at this node's identifier, that fits the
\* sender's commitment.
dkg_part3(p, packages) ==
  /\ {u.from : u \in packages} = {m.p : m \in nodes[p].r1}
  /\ \A u \in packages :
       /\ u.at = vid_to_identifier(nodes[p].list, p)
       /\ \A m \in nodes[p].r1 : m.p = u.from => m.poly = u.poly

\* FrostDkgNode::part3 accepts the packages; if not, the node is unchanged.
part3_ok(p, packages) ==
  /\ nodes[p].state = "AfterPart2"
  /\ \A u \in packages : u.from \in Range(nodes[p].list)
  /\ dkg_part3(p, packages)

\* Mutant: a node that succeeded keeps its Round-2 state.
Completed_kept(p) == nodes

\* part3 returned Ok.
Completed(p) == [nodes EXCEPT ![p].state = "Completed"]

\* Mutant: the node's own commitment is left out of the group key.
Output_of_others(p, c, bound) ==
  [c |-> c, p |-> p, gen |-> nodes[p].gen, list |-> nodes[p].list, bound |-> bound,
   key |-> {<<m.p, m.poly>> : m \in nodes[p].r1}]

\* The FrostParticipant and FrostGroupKey of p.
Output(p, c, bound) ==
  [c |-> c, p |-> p, gen |-> nodes[p].gen, list |-> nodes[p].list, bound |-> bound,
   key |-> {<<p, nodes[p].poly>>} \cup {<<m.p, m.poly>> : m \in nodes[p].r1}]

\* part3 of the next node of an in-process ceremony; after the last one the
\* group keys are compared, and the shares are returned only if they agree.
ceremony_part3(p) ==
  LET packages == {u \in run.uni : u.to = p}
      outs == run.outs \cup {Output(p, run.c, run.bound)}
      decrypted == run.kind = "encrypted" =>
        \A u \in packages : decrypt_round2_package(u, p, run.c, run.enc)
      consistent == \A o1, o2 \in outs : o1.key = o2.key IN
  /\ run.step = "part3" /\ p \in run.todo
  /\ IF decrypted /\ part3_ok(p, packages)
     THEN /\ nodes' = Completed(p)
          /\ \/ /\ run.todo # {p}
                /\ run' = Advance([run EXCEPT !.outs = outs], p, "part3")
                /\ UNCHANGED outputs
             \/ /\ run.todo = {p}
                /\ IF consistent THEN run' = Idle /\ outputs' = outputs \cup outs
                                 ELSE Fail /\ UNCHANGED outputs
     ELSE Fail /\ UNCHANGED <<nodes, outputs>>
  /\ UNCHANGED <<drawn, sent, announced, regs, used, deliveries>>

\* A participant runs part3 on a delivery, perhaps late, again, or not its own.
dkg_part3_from_delivery(p, d) ==
  /\ Free(p)
  /\ \A u \in d.packages : decrypt_round2_package(u, p, d.c, d.enc)
  /\ part3_ok(p, d.packages)
  /\ nodes' = Completed(p)
  /\ outputs' = outputs \cup {Output(p, d.c, {})}
  /\ UNCHANGED <<drawn, sent, announced, regs, run, used, deliveries>>
-----------------------------------------------------------------------------
Next ==
  \/ \E p \in Changing, e \in 0..MaxEpoch : update_registry(p, e)
  \/ \E p \in Participant :
       \/ \E list \in Lists : new(p, list)
       \/ \E c \in Ceremony : create_dkg_key_announcement(p, c)
       \/ ceremony_part1(p)
       \/ ceremony_part2(p)
       \/ ceremony_part3(p)
       \/ \E d \in deliveries : dkg_part3_from_delivery(p, d)
  \/ \E c \in Ceremony, ps \in Slices :
       \/ run_dkg_ceremony(c, ps)
       \/ run_dkg_ceremony_encrypted(c, ps)
       \/ run_dkg_ceremony_with_authenticated_keys(c, ps)
       \/ run_dkg_ceremony_with_registry(c, ps)
       \/ build_dkg_network_messages(c, ps)

Spec == Init /\ [][Next]_vars
-----------------------------------------------------------------------------
TypeOK ==
  /\ DOMAIN nodes = Participant
  /\ \A p \in Participant :
       /\ nodes[p].gen \in 0..MaxObjects
       /\ nodes[p].state \in {"none", "Initial", "AfterPart1", "AfterPart2",
                              "Completed", "Failed"}
       /\ nodes[p].poly \in 0..drawn[p]
       /\ nodes[p].gen # 0 => nodes[p].list \in Lists
       /\ drawn[p] \in 0..nodes[p].gen
  /\ run.step \in {"idle", "err", "part1", "part2", "part3"}
  /\ Running => run.c \in used /\ run.slice \in Slices /\ run.todo \subseteq run.slice
  /\ used \subseteq Ceremony
  /\ \A r \in Range(regs) :
       r.epoch \in 0..MaxEpoch /\ r.status \in [Participant -> Statuses]

\* All participants that get a share from a ceremony get it for the same
\* group key and number the participants the same way, although only the
\* in-process variants compare the keys (dkg_node.rs, part2 and part3).
GroupKeysAgree ==
  \A o1, o2 \in outputs : o1.c = o2.c => o1.key = o2.key /\ o1.list = o2.list

\* No secret polynomial goes into the group keys of two ceremonies, whatever
\* was aborted and retried before (the state guards of part1 and part2).
SecretsUsedOnce ==
  \A o1, o2 \in outputs : o1.c # o2.c => o1.key \cap o2.key = {}

\* A node that gave out a key share is finished: a repeated or late delivery
\* cannot make part3 give out a second one.
EmittedOnce ==
  \A o \in outputs : nodes[o.p].gen = o.gen => nodes[o.p].state = "Completed"

\* A ceremony bound to an epoch (run_dkg_ceremony_with_registry) had only
\* participants that are active, under the keys they signed with, in every
\* snapshot that carries the epoch: the number alone identifies the members.
AdmittedOnly ==
  \A o \in outputs : \A b \in o.bound : \A r \in Range(regs) :
    r.epoch = b.epoch =>
      \A p \in Range(o.list) : get_active(r, p) /\ b.by[p].key = r.key[p]

\* An in-process ceremony whose nodes all passed part2 does not fail in
\* decryption, in part3 or in the final comparison.
CompletesAfterPart2 == run.step = "err" => run.at # "part3"

\* A delivery built with the keys that its participants hold is accepted by
\* its recipient for as long as the recipient waits for it
\* (build_dkg_network_messages, dkg_part3_from_delivery).
DeliveryUsable ==
  \A d \in deliveries :
    /\ nodes[d.to].gen = d.enc[d.to] /\ nodes[d.to].state = "AfterPart2"
    /\ \A u \in d.packages : u.sender_key = d.enc[u.from]
    => /\ \A u \in d.packages : decrypt_round2_package(u, d.to, d.c, d.enc)
       /\ part3_ok(d.to, d.packages)

=============================================================================
