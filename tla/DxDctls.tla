------------------------------ MODULE DxDctls ------------------------------
(***************************************************************************)
(* The two published constructions of dx-DCTLS: DECO over TLS 1.2 with a   *)
(* co-SNARK (attestation/src/deco_dx_dctls.rs) and DiStefano over TLS 1.3  *)
(* with two-party computation (distefano_dx_dctls.rs).                     *)
(*                                                                         *)
(* A 32-byte value that is split by XOR is a set of atoms, and XOR is the  *)
(* symmetric difference.                                                   *)
(***************************************************************************)
EXTENDS Engines

Xor(a, b) == (a \ b) \cup (b \ a)

---------------------------------------------------------------------------
(* DECO.                                                                   *)

deco_session_binding(sid, rand, kc, cert) ==
  <<"deco-dx-dctls/hsp-binding/v1", sid, rand, kc, cert>>

k_mac_commitment(k_mac) == <<"co-snark/k-mac/v1", k_mac>>

\* p: the bytes the seeded generator yields.
split_k_mac(k_mac, p) == [p |-> p, v |-> Xor(k_mac, p)]

CoSnarkRawOutput(groth16, kc, rb, k_mac) ==
  [groth16_bytes |-> groth16, k_mac_commitment_bytes |-> kc,
   rand_binding_bytes |-> rb, k_mac |-> k_mac]

\* What an executor that works returns: it recombines the shares.  A Groth16
\* proof is randomised, by r.
CoSnarkExecutor_execute(p, v, rb, r) ==
  CoSnarkRawOutput(<<"groth16", p, v, rb, r>>, <<"commitment", Xor(p, v)>>, rb,
                   Xor(p, v))

\* DecoAttestationSession::hsp; executor is TRUE when the co-SNARK succeeds.
deco_hsp(sid, rand, cert, executor, r) ==
  LET k_mac == {<<"deco-hsp/k-mac-seed/v1", rand, sid>>}
      shares == split_k_mac(k_mac, {<<"deco-hsp/split-seed/v1", rand, sid>>})
      raw == CoSnarkExecutor_execute(shares.p, shares.v, rand, r)
      kc == k_mac_commitment(raw.k_mac)
  IN IF ~executor THEN Err
     ELSE [session_id |-> sid, sps |-> shares.p, spp |-> shares.v,
           spv |-> [k_mac |-> raw.k_mac, k_mac_commitment |-> kc,
                    pi_hsp |-> [session_id |-> sid, rand |-> rand,
                                groth16_bytes |-> raw.groth16_bytes,
                                k_mac_commitment_bytes |->
                                  raw.k_mac_commitment_bytes,
                                rand_binding_bytes |-> raw.rand_binding_bytes,
                                k_mac |-> raw.k_mac,
                                session_binding |->
                                  deco_session_binding(sid, rand, kc, cert)]]]

deco_commit_field(sid, k_mac, field, data) ==
  <<"deco-qp", field, sid, k_mac, data>>

deco_compute_mac(k_mac, data) == <<"hmac", k_mac, data>>

deco_transcript(qc, rc) == <<"deco-qp/transcript/v1", qc, rc>>

DecoQueryRecord_commit(sid, k_mac, query, response) ==
  LET qc == deco_commit_field(sid, k_mac, "query", query)
      rc == deco_commit_field(sid, k_mac, "response", response)
  IN [session_id |-> sid, query_commitment |-> qc, response_commitment |-> rc,
      transcript_commitment |-> deco_transcript(qc, rc),
      server_mac_tag |-> deco_compute_mac(k_mac, response)]

deco_qp(s, query, response) ==
  DecoQueryRecord_commit(s.session_id, s.spv.k_mac, query, response)

deco_verify_mac(qr, k_mac, response) ==
  qr.server_mac_tag = deco_compute_mac(k_mac, response)

deco_proof_digest(qr, statement) ==
  <<"deco-pgp/proof/v1", qr.session_id, qr.transcript_commitment, statement>>

\* A binding that leaves the handshake out.
BindingOfTranscript(session_binding, tc) == <<"deco-pgp/cross-binding/v1", tc>>

deco_cross_binding(session_binding, tc) ==
  <<"deco-pgp/cross-binding/v1", session_binding, tc>>

DecoDxDctlsProof_generate(pi_hsp, qr, statement) ==
  [pi_hsp |-> pi_hsp, query_record |-> qr, statement |-> statement,
   proof_digest |-> deco_proof_digest(qr, statement),
   cross_binding |-> deco_cross_binding(pi_hsp.session_binding,
                                        qr.transcript_commitment)]

deco_pgp(s, qr, statement) ==
  DecoDxDctlsProof_generate(s.spv.pi_hsp, qr, statement)

\* The Groth16 proof is not verified here.
verify_deco_dx_dctls(proof, rand, cert) ==
  LET hsp == proof.pi_hsp
      qr == proof.query_record
  IN /\ hsp.rand = rand
     /\ hsp.session_binding
          = deco_session_binding(hsp.session_id, rand,
                                 k_mac_commitment(hsp.k_mac), cert)
     /\ proof.cross_binding
          = deco_cross_binding(hsp.session_binding, qr.transcript_commitment)
     /\ hsp.session_id = qr.session_id
     /\ proof.proof_digest = deco_proof_digest(qr, proof.statement)

---------------------------------------------------------------------------
(* DiStefano.                                                              *)

\* A party's shares of the client and of the server traffic key.
TrafficShare(client, server) ==
  [client_key_share |-> client, server_key_share |-> server]

compute_prover_commitment(sid, sv, spp) == <<"v2pc/prover-commit/v1", sid, sv, spp>>

compute_verifier_commitment(sid, sv, spv) ==
  <<"v2pc/verifier-commit/v1", sid, sv, spv>>

compute_joint_commitment(pc, vc) == <<"v2pc/joint-commit/v1", pc, vc>>

v2pc_session_binding(sid, sv, jc, cert) ==
  <<"v2pc/session-binding/v1", sid, sv, jc, cert>>

derive_traffic_material(sv, sp) ==
  [label \in {"c-traffic", "s-traffic"} |->
     {<<"tls13-key-derive/v1", sv, sp.transcript_hash, sp.dhe_secret, label>>}]

\* The prover's shares are a seed and the same seed rotated by seven bytes.
split_shares(material, sid, sv) ==
  LET seed == <<"v2pc/prover-seed/v1", sid, sv>>
      p == TrafficShare({seed}, {<<"rotated", seed>>})
  IN [spp |-> p,
      spv |-> TrafficShare(Xor(material["c-traffic"], p.client_key_share),
                           Xor(material["s-traffic"], p.server_key_share))]

\* CommitmentV2pcExecutor::execute binds a zero certificate hash.
v2pc_execute(sid, sv, sp) ==
  LET sh == split_shares(derive_traffic_material(sv, sp), sid, sv)
      pc == compute_prover_commitment(sid, sv, sh.spp)
      vc == compute_verifier_commitment(sid, sv, sh.spv)
      jc == compute_joint_commitment(pc, vc)
  IN [spp |-> sh.spp, spv |-> sh.spv,
      pi_2pc |-> [session_id |-> sid, sv |-> sv, prover_share_commitment |-> pc,
                  verifier_share_commitment |-> vc, joint_commitment |-> jc,
                  session_binding |->
                    v2pc_session_binding(sid, sv, jc, ZeroDigest)]]

v2pc_verify(pi, sv) ==
  /\ pi.sv = sv
  /\ pi.joint_commitment = compute_joint_commitment(pi.prover_share_commitment,
                             pi.verifier_share_commitment)

\* DistefanoAttestationSession::hsp binds the real certificate hash.
distefano_hsp(sid, sv, sp, cert, version, clock) ==
  LET x == v2pc_execute(sid, sv, sp)
  IN [session_id |-> sid, spp |-> x.spp, spv |-> x.spv,
      pi_hsp |->
        [session_id |-> sid, sv |-> sv,
         pi_2pc |-> [x.pi_2pc EXCEPT !.session_binding =
                       v2pc_session_binding(sid, sv, x.pi_2pc.joint_commitment,
                                            cert)],
         server_cert_hash |-> cert, tls_version |-> version,
         server_name |-> sp.server_name, established_at |-> clock]]

\* The commitments bind the session, not the randomness.
DistefanoQueryRecord_commit(sid, query, response, tag) ==
  LET qc == <<"distefano-qp/query/v1", sid, query>>
      rc == <<"distefano-qp/response/v1", sid, response>>
  IN [session_id |-> sid, query_commitment |-> qc, response_commitment |-> rc,
      transcript_commitment |-> <<"distefano-qp/transcript/v1", qc, rc>>,
      server_auth_tag |-> tag]

distefano_qp(s, query, response, tag) ==
  DistefanoQueryRecord_commit(s.session_id, query, response, tag)

distefano_proof_digest(qr, statement) ==
  <<"distefano-pgp/proof/v1", qr.session_id, qr.transcript_commitment, statement>>

distefano_cross_binding(session_binding, tc) ==
  <<"distefano-pgp/cross-binding/v1", session_binding, tc>>

DistefanoDxDctlsProof_generate(pi_hsp, qr, statement) ==
  [pi_hsp |-> pi_hsp, query_record |-> qr, statement |-> statement,
   proof_digest |-> distefano_proof_digest(qr, statement),
   cross_binding |-> distefano_cross_binding(pi_hsp.pi_2pc.session_binding,
                                             qr.transcript_commitment)]

distefano_pgp(s, qr, statement) ==
  DistefanoDxDctlsProof_generate(s.pi_hsp, qr, statement)

verify_distefano_dx_dctls(proof, sv, cert) ==
  LET pi == proof.pi_hsp.pi_2pc
      qr == proof.query_record
  IN /\ v2pc_verify(pi, sv)
     /\ pi.session_binding
          = v2pc_session_binding(pi.session_id, sv, pi.joint_commitment, cert)
     /\ proof.cross_binding
          = distefano_cross_binding(pi.session_binding, qr.transcript_commitment)
     /\ proof.pi_hsp.session_id = qr.session_id
     /\ proof.proof_digest = distefano_proof_digest(qr, proof.statement)
=============================================================================
