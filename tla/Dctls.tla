------------------------------- MODULE Dctls -------------------------------
(***************************************************************************)
(* What a session's evidence is made of and how each part is checked:      *)
(* sessions and quorums (core/src/types.rs, attestation/src/session.rs),   *)
(* transcript commitments (crypto/src/transcript.rs), statements           *)
(* (attestation/src/statement.rs), the three dx-DCTLS proofs and their     *)
(* cross-checks (attestation/src/dctls.rs) and the commitment backend      *)
(* (attestation/src/zk_backend.rs).  A digest is the tuple of what it      *)
(* hashes, domain tag first; a verification is TRUE where the code returns *)
(* Ok.                                                                     *)
(***************************************************************************)
EXTENDS Dvrf

CONSTANT HSP_PROOF_MAX_AGE   \* HSP_PROOF_MAX_AGE_SECS, in ticks of the clock

None == "None"               \* the absent Option

---------------------------------------------------------------------------
(* Sessions and quorums.                                                   *)

QuorumSpec_new(verifiers, threshold) ==
  IF verifiers = <<>> \/ threshold = 0 \/ threshold > Len(verifiers) THEN Err
  ELSE [verifiers |-> verifiers, threshold |-> threshold]

\* Counts the entries of the quorum's list, not the approvers.
is_satisfied_by(quorum, approvers) ==
  Cardinality({i \in DOMAIN quorum.verifiers :
                 quorum.verifiers[i] \in approvers}) >= quorum.threshold

has_expired(t, now) == now > t

session_context_digest(id, prover, coord, quorum, epoch, created, exp, nonce) ==
  <<"session-context/v1", id, prover, coord, epoch, created, exp, nonce, quorum>>

\* An expiry that is not after the creation is moved to one second after it.
SessionContext_new(id, prover, coord, quorum, epoch, created, expires, nonce) ==
  LET exp == IF expires <= created THEN created + 1 ELSE expires
  IN [session_id |-> id, prover_id |-> prover, coordinator_id |-> coord,
      quorum |-> quorum, epoch |-> epoch, created_at |-> created,
      expires_at |-> exp, nonce |-> nonce,
      session_digest |-> session_context_digest(id, prover, coord, quorum, epoch,
                                                created, exp, nonce)]

\* Expired already at the last second.
ExpiredAtEnd(ctx, now) == now >= ctx.expires_at

is_expired(ctx, now) == has_expired(ctx.expires_at, now)

---------------------------------------------------------------------------
(* Transcripts and statements.                                             *)

TranscriptCommitment_compute(role, sid, rand, data) ==
  [role |-> role, digest |-> <<"transcript/v1", role, sid, rand, data>>]

session_transcript_digest(sid, q, r) == <<"session-transcript/v1", sid, q, r>>

TranscriptCommitments_build(sid, rand, query, response) ==
  LET q == TranscriptCommitment_compute("query", sid, rand, query)
      r == TranscriptCommitment_compute("response", sid, rand, response)
  IN [query |-> q, response |-> r,
      session_transcript_digest |->
        session_transcript_digest(sid, q.digest, r.digest)]

derive_statement_digest(tag, transcript_digest, content) ==
  <<"statement/v1", tag, transcript_digest, content>>

StatementPayload_new(content, tag, transcript_digest) ==
  [content |-> content, derivation_tag |-> tag,
   statement_digest |-> derive_statement_digest(tag, transcript_digest, content)]

StatementPayload_verify_digest(st, transcript_digest) ==
  st.statement_digest
    = derive_statement_digest(st.derivation_tag, transcript_digest, st.content)

---------------------------------------------------------------------------
(* The handshake proof.                                                    *)

DCTLS_ENGINE_TAG == "dx-dctls/commitment-v1"

compute_handshake_transcript_hash(cert, version, name, at) ==
  <<"hsp-ht/v1", cert, version, name, at>>

hsp_commitment(sid, rand, exporter, cert, ht) ==
  <<"hsp/v1", sid, rand, exporter, cert, ht>>

proof_digest(hsp) ==
  <<"hsp-proof/v1", hsp.session_id, hsp.rand_value, hsp.commitment,
    hsp.server_cert_hash, hsp.handshake_transcript_hash>>

\* sps: the secret parameters; spp: the public ones.
HSPProof_generate(sid, rand, sps, spp) ==
  LET ht == compute_handshake_transcript_hash(
              spp.server_cert_hash, spp.tls_version, spp.server_name,
              spp.established_at)
  IN [session_id |-> sid, rand_value |-> rand,
      dvrf_exporter |-> sps.dvrf_exporter,
      commitment |-> hsp_commitment(sid, rand, sps.dvrf_exporter,
                                    spp.server_cert_hash, ht),
      server_cert_hash |-> spp.server_cert_hash,
      handshake_transcript_hash |-> ht, tls_version |-> spp.tls_version,
      server_name |-> spp.server_name, established_at |-> spp.established_at,
      engine_tag |-> DCTLS_ENGINE_TAG, zk_proof |-> None, zk_binding |-> None]

\* The handshake digest and the commitment are recomputed from the fields.
hsp_consistent(hsp) ==
  /\ hsp.handshake_transcript_hash
       = compute_handshake_transcript_hash(hsp.server_cert_hash,
           hsp.tls_version, hsp.server_name, hsp.established_at)
  /\ hsp.commitment
       = hsp_commitment(hsp.session_id, hsp.rand_value, hsp.dvrf_exporter,
           hsp.server_cert_hash, hsp.handshake_transcript_hash)

\* clock: the system time, which the function reads itself.
verify_hsp_proof(hsp, rand, cert, clock) ==
  /\ hsp.engine_tag = DCTLS_ENGINE_TAG
  /\ hsp.rand_value = rand
  /\ hsp.server_cert_hash = cert
  /\ hsp.zk_proof = None
  /\ hsp.established_at > 0 =>
       clock <= hsp.established_at + HSP_PROOF_MAX_AGE
  /\ hsp_consistent(hsp)

---------------------------------------------------------------------------
(* The query proof.                                                        *)

qp_query_commitment(sid, rand, query) == <<"query-commitment/v1", sid, rand, query>>

qp_response_commitment(sid, rand, response) ==
  <<"response-commitment/v1", sid, rand, response>>

qp_transcript(qc, rc) == <<"qp-transcript/v1", qc, rc>>

QueryRecord_build(sid, rand, query, response) ==
  LET qc == qp_query_commitment(sid, rand, query)
      rc == qp_response_commitment(sid, rand, response)
  IN [session_id |-> sid, rand_value |-> rand, query_commitment |-> qc,
      response_commitment |-> rc, transcript_commitment |-> qp_transcript(qc, rc)]

verify_query_record(qr, query, response) ==
  /\ qr.query_commitment = qp_query_commitment(qr.session_id, qr.rand_value, query)
  /\ qr.response_commitment
       = qp_response_commitment(qr.session_id, qr.rand_value, response)
  /\ qr.transcript_commitment
       = qp_transcript(qr.query_commitment, qr.response_commitment)

---------------------------------------------------------------------------
(* The statement proof, and the three proofs together.                     *)

pgp_statement_digest(tag, tc, content) == <<"pgp-statement/v1", tag, tc, content>>

Statement_derive(content, tag, tc) ==
  [content |-> content, derivation_tag |-> tag,
   statement_digest |-> pgp_statement_digest(tag, tc, content)]

pgp_commitment(sid, rand, tc, statement_digest, hspc) ==
  <<"pgp/v1", sid, rand, tc, statement_digest, hspc>>

PGPProof_generate(sid, rand, qr, statement, hsp) ==
  [session_id |-> sid, statement |-> statement,
   pgp_commitment |-> pgp_commitment(sid, rand, qr.transcript_commitment,
                        statement.statement_digest, hsp.commitment),
   hsp_proof_digest |-> proof_digest(hsp),
   qp_transcript_commitment |-> qr.transcript_commitment]

verify_pgp_proof(pgp, rand, hsp) ==
  /\ pgp.pgp_commitment
       = pgp_commitment(pgp.session_id, rand, pgp.qp_transcript_commitment,
           pgp.statement.statement_digest, hsp.commitment)
  /\ pgp.hsp_proof_digest = proof_digest(hsp)
  /\ pgp.statement.statement_digest
       = pgp_statement_digest(pgp.statement.derivation_tag,
           pgp.qp_transcript_commitment, pgp.statement.content)

\* No caller looks at the TranscriptBinding that success returns.
verify_transcript_consistency(hsp, qr, pgp) ==
  /\ hsp.session_id = qr.session_id
  /\ hsp.session_id = pgp.session_id
  /\ hsp.rand_value = qr.rand_value
  /\ pgp.qp_transcript_commitment = qr.transcript_commitment
  /\ pgp.hsp_proof_digest = proof_digest(hsp)

evidence_digest(ev) ==
  <<"dctls-evidence/v1", proof_digest(ev.hsp_proof),
    ev.query_record.transcript_commitment, ev.pgp_proof.pgp_commitment>>

verify_all(ev, rand, cert, query, response, clock) ==
  /\ verify_hsp_proof(ev.hsp_proof, rand, cert, clock)
  /\ verify_query_record(ev.query_record, query, response)
  /\ verify_pgp_proof(ev.pgp_proof, rand, ev.hsp_proof)
  /\ verify_transcript_consistency(ev.hsp_proof, ev.query_record, ev.pgp_proof)

---------------------------------------------------------------------------
(* The commitment backend: the statement proof takes its session and its   *)
(* randomness from the query record.                                       *)

CommitmentBackend_verify_session_params(hsp, rand, cert, clock) ==
  verify_hsp_proof(hsp, rand, cert, clock)

CommitmentBackend_verify_query_response(qr, query, response) ==
  verify_query_record(qr, query, response)

CommitmentBackend_prove_pgp(sid, rand, qr, statement, hsp) ==
  PGPProof_generate(qr.session_id, qr.rand_value, qr, statement, hsp)

CommitmentBackend_verify_pgp(pgp, rand, hsp) == verify_pgp_proof(pgp, rand, hsp)
=============================================================================
