-------------------------------- MODULE Dvrf --------------------------------
(***************************************************************************)
(* Distributed randomness: the secp256k1 adapter and key generation        *)
(* (frost_secp256k1_adapter.rs, dkg_secp256k1.rs) and the two FROST-based  *)
(* DVRFs (dvrf.rs, dvrf_secp256k1.rs).                                     *)
(* Digests are tuples that start with the domain tag of the hash.          *)
(***************************************************************************)
EXTENDS FrostAdapter

---------------------------------------------------------------------------
(* frost_secp256k1_adapter.rs.                                             *)

Secp256k1GroupKey(pub, ids) == [pub |-> pub, verifier_to_id |-> ids]

Secp256k1FrostParticipant(kp, vid) == [key_package |-> kp, verifier_id |-> vid]

secp256k1_group_key_to_json(gk) ==
  [pub |-> gk.pub,
   map |-> {<<v, gk.verifier_to_id[v]>> : v \in DOMAIN gk.verifier_to_id}]

secp256k1_group_key_from_json(json) ==
  IF json = Err \/ json.pub.suite # Secp256k1 THEN Err
  ELSE Secp256k1GroupKey(json.pub, InsertAll(Listed(json.map)))

secp256k1_participant_to_json(p) ==
  [pub |-> p.key_package, vid |-> p.verifier_id]

secp256k1_participant_from_json(json) ==
  IF json = Err \/ json.pub.suite # Secp256k1 THEN Err
  ELSE Secp256k1FrostParticipant(json.pub, json.vid)

\* Unlike the Ed25519 dealer, this one accepts a list that names a verifier
\* twice: the map keeps the later identifier.
secp256k1_trusted_dealer_keygen(vids, threshold, key) ==
  LET n == Len(vids)
  IN IF n < 2 \/ threshold < 2 \/ threshold > n THEN Err
     ELSE [participants |->
             [i \in 1..n |-> Secp256k1FrostParticipant(
                               KeyPackage(Secp256k1, key, i, threshold),
                               vids[i])],
           group_key |->
             Secp256k1GroupKey(
               PublicKeyPackage(Secp256k1, key, 1..n, threshold),
               InsertAll([i \in 1..n |-> <<vids[i], i>>]))]

secp256k1_round1(p, nonces) ==
  [nonces |-> nonces,
   commitment |-> [identifier |-> p.key_package.id, inner |-> Commit(nonces)]]

secp256k1_dvrf_nonce_seed(p, alpha) ==
  <<"dvrf-nonce-seed/secp256k1/v1", p.key_package.key, p.key_package.id, alpha>>

secp256k1_round1_dvrf(p, alpha) ==
  secp256k1_round1(p, secp256k1_dvrf_nonce_seed(p, alpha))

secp256k1_round2(p, pkg, nonces) ==
  LET share == sign(pkg, nonces, p.key_package)
  IN IF share = Err THEN Err
     ELSE [identifier |-> p.key_package.id, inner |-> share]

\* Commitments and shares carry their own identifier here.
secp256k1_build_signing_package(commitments, message) ==
  SigningPackage(
    InsertAll([i \in DOMAIN commitments |->
                 <<commitments[i].identifier, commitments[i].inner>>]),
    message)

secp256k1_aggregate_signature_shares(pkg, shares, gk) ==
  LET sig == aggregate(
               pkg,
               InsertAll([i \in DOMAIN shares |->
                            <<shares[i].identifier, shares[i].inner>>]),
               gk.pub)
  IN IF sig = Err THEN Err ELSE [signature |-> sig, group_key |-> gk.pub.key]

secp256k1_verify_approval(approval, message) ==
  VerifyingKeyVerifies(approval.group_key, message, approval.signature)

---------------------------------------------------------------------------
(* dkg_secp256k1.rs: the three parts of the Pedersen DKG.                  *)

\* A polynomial is named by the ceremony and the identifier that drew it.
secp256k1_dkg_part1(id, n, t, ceremony) ==
  IF n < 2 \/ t < 2 \/ t > n THEN Err
  ELSE [state |-> [id |-> id, n |-> n, t |-> t, poly |-> <<ceremony, id>>],
        package |-> <<"commitments", <<ceremony, id>>>>]

\* Needs the package of every other participant; yields one package for each.
secp256k1_dkg_part2(state, packages) ==
  IF Cardinality(DOMAIN packages) # state.n - 1 \/ state.id \in DOMAIN packages
  THEN Err
  ELSE [state |-> state,
        outbound |-> [j \in DOMAIN packages |-> <<"eval", state.poly, j>>]]

\* The inbound evaluations must match the broadcast commitments; the key is
\* the set of polynomials it sums.  Verifiers get the identifiers in order.
secp256k1_dkg_part3(vid, id, state, r1, r2, vids) ==
  LET ids == DOMAIN r1 \cup {id}
      sorted == Ascending(ids)
      key == {r1[j][2] : j \in DOMAIN r1} \cup {state.poly}
  IN IF \/ DOMAIN r1 # DOMAIN r2
        \/ Cardinality(DOMAIN r1) # state.n - 1
        \/ \E j \in DOMAIN r1 : r2[j] # <<"eval", r1[j][2], id>>
     THEN Err
     ELSE [participant |->
             Secp256k1FrostParticipant(KeyPackage(Secp256k1, key, id, state.t),
                                       vid),
           group_key |->
             Secp256k1GroupKey(
               PublicKeyPackage(Secp256k1, key, ids, state.t),
               InsertAll([i \in 1..(IF Len(vids) < Len(sorted)
                                    THEN Len(vids) ELSE Len(sorted)) |->
                            <<vids[i], sorted[i]>>]))]

run_secp256k1_dkg(vids, t, ceremony) ==
  LET n == Len(vids)
      p1 == [i \in 1..n |-> secp256k1_dkg_part1(i, n, t, ceremony)]
      others(i) == [j \in (1..n) \ {i} |-> p1[j].package]
      p2 == [i \in 1..n |-> secp256k1_dkg_part2(p1[i].state, others(i))]
      inbound(i) == [j \in (1..n) \ {i} |-> p2[j].outbound[i]]
      p3 == [i \in 1..n |-> secp256k1_dkg_part3(vids[i], i, p2[i].state,
                                               others(i), inbound(i), vids)]
  IN IF AnyErr(p1) \/ AnyErr(p2) \/ AnyErr(p3) THEN Err ELSE p3

---------------------------------------------------------------------------
(* dvrf.rs: the Ed25519 DVRF.                                              *)

for_session(s) ==
  <<"dvrf-input/v1", s.session_id, s.prover_id, s.nonce, s.epoch, s.quorum>>

dvrf_output(sig) == <<"dvrf-output/v1", sig>>

DvRF_evaluate(gk, alpha, participants) ==
  LET r1 == [i \in DOMAIN participants |-> round1_dvrf(participants[i], alpha)]
      vid(i) == participants[i].verifier_id
      pkg == build_signing_package(
               [i \in DOMAIN r1 |-> <<vid(i), r1[i].commitment.inner>>],
               alpha, gk)
      share(i) == sign(pkg, r1[i].nonces, participants[i].key_package)
      approval == aggregate_signature_shares(
                    pkg, [i \in DOMAIN r1 |-> <<vid(i), share(i)>>], gk, alpha)
  IN IF \/ Len(participants) = 0 \/ pkg = Err
        \/ \E i \in DOMAIN r1 : share(i) = Err
        \/ approval = Err
     THEN Err
     ELSE [value |-> dvrf_output(approval.signature),
           proof |-> [signature |-> approval.signature,
                      group_key |-> gk.pub.key, alpha |-> alpha]]

DvRF_verify(alpha, out) ==
  /\ out.proof.alpha = alpha
  /\ VerifyingKeyVerifies(out.proof.group_key, alpha, out.proof.signature)
  /\ out.value = dvrf_output(out.proof.signature)

---------------------------------------------------------------------------
(* dvrf_secp256k1.rs.                                                      *)

derive_rand(sigma) == <<"dvrf-output/secp256k1/v1", sigma>>

partial_eval(p, alpha) ==
  LET r1 == secp256k1_round1_dvrf(p, alpha)
  IN [verifier_id |-> p.verifier_id, commitment |-> r1.commitment,
      nonces |-> r1.nonces]

\* Evaluations and participants are paired by position.
round2_shares(participants, evals, pkg) ==
  [i \in 1..(IF Len(evals) < Len(participants)
             THEN Len(evals) ELSE Len(participants)) |->
     secp256k1_round2(participants[i], pkg, evals[i].nonces)]

combine(gk, alpha, evals, participants) ==
  LET pkg == secp256k1_build_signing_package(
               [i \in DOMAIN evals |-> evals[i].commitment], alpha)
      shares == round2_shares(participants, evals, pkg)
      approval == secp256k1_aggregate_signature_shares(pkg, shares, gk)
  IN IF AnyErr(shares) \/ approval = Err THEN Err
     ELSE [rand |-> derive_rand(approval.signature), proof |-> approval]

Secp256k1Dvrf_verify(alpha, out) ==
  /\ secp256k1_verify_approval(out.proof, alpha)
  /\ derive_rand(out.proof.signature) = out.rand
=============================================================================
