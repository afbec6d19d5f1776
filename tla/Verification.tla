---------------------------- MODULE Verification ----------------------------
(***************************************************************************)
(* What an auxiliary verifier checks before it approves a package          *)
(* (attestation/src/verify.rs, node/src/auxiliary.rs), the envelope        *)
(* (attestation/src/envelope.rs) and the prototype threshold approval over *)
(* it (crypto/src/threshold.rs).                                           *)
(***************************************************************************)
EXTENDS Engines

CONSTANT MaxSessionDuration    \* max_session_duration_secs of permissive()

---------------------------------------------------------------------------
(* verify.rs.                                                              *)

permissive ==
  [allowed_engine_tags |-> {PROTOTYPE_ENGINE_TAG, DCTLS_ENGINE_TAG},
   allowed_statement_tags |-> {},
   max_session_duration |-> MaxSessionDuration]

\* now: the time the caller passes.  An empty set of statement tags admits
\* every tag.
check(policy, package, st, now) ==
  LET sc == package.session_context
      tc == package.transcript_commitments
      ev == package.evidence
  IN /\ ~is_expired(sc, now)
     /\ sc.session_digest
          = session_context_digest(sc.session_id, sc.prover_id,
              sc.coordinator_id, sc.quorum, sc.epoch, sc.created_at,
              sc.expires_at, sc.nonce)
     /\ StatementPayload_verify_digest(st, tc.session_transcript_digest)
     /\ package.package_digest
          = package_digest(sc.session_digest, package.randomness_value,
              tc.session_transcript_digest, ev.evidence_digest)
     /\ ev.engine_tag \in policy.allowed_engine_tags
     /\ policy.allowed_statement_tags # {} =>
          st.derivation_tag \in policy.allowed_statement_tags
     /\ sc.expires_at > sc.created_at =>
          sc.expires_at - sc.created_at <= policy.max_session_duration
     /\ tc.session_transcript_digest
          = session_transcript_digest(sc.session_id, tc.query.digest,
                                      tc.response.digest)
     /\ ev.evidence_digest = exportable_digest(ev.engine_tag, ev.bytes)

\* alpha: the DVRF input the verifier derives itself; cert, query and response
\* are its own view of the exchange.
check_full(policy, package, st, ev, dvrf, alpha, cert, query, resp, now, clock) ==
  /\ check(policy, package, st, now)
  /\ DvRF_verify(alpha, dvrf)
  /\ verify_hsp_proof(ev.hsp_proof, dvrf.value, cert, clock)
  /\ verify_query_record(ev.query_record, query, resp)
  /\ verify_pgp_proof(ev.pgp_proof, dvrf.value, ev.hsp_proof)
  /\ package.randomness_value = dvrf.value
  /\ verify_transcript_consistency(ev.hsp_proof, ev.query_record, ev.pgp_proof)

---------------------------------------------------------------------------
(* threshold.rs: one Ed25519 signature per verifier.  A signature records  *)
(* its key and what it signs; the key of a verifier is its name.           *)

sign_raw(key, data) == [by |-> key, over |-> data]

approval_digest(envelope_digest) == <<"threshold-approval/v1", envelope_digest>>

sign_partial(vid, payload) == [verifier_id |-> vid, bytes |-> sign_raw(vid, payload)]

\* A partial of a verifier without a configured key passes.
SignedByItsName(p, digest, keys) == p.bytes = sign_raw(p.verifier_id, digest)

\* keys: the verifiers whose public key is configured.
partial_ok(p, digest, keys) ==
  p.verifier_id \in keys /\ p.bytes = sign_raw(p.verifier_id, digest)

\* Partials from outside the quorum are skipped; a bad one from a member is an
\* error; of several by one member the first is kept.
aggregate_signatures(partials, quorum, envelope_digest, keys) ==
  LET digest == approval_digest(envelope_digest)
      members == Range(quorum.verifiers)
      mine == Filtered(partials, {i \in DOMAIN partials :
                                    partials[i].verifier_id \in members})
      First(i) == \A j \in 1..(i - 1) : mine[j].verifier_id # mine[i].verifier_id
      valid == Filtered(mine, {i \in DOMAIN mine : First(i)})
      signers == [k \in DOMAIN valid |-> valid[k].verifier_id]
  IN IF \/ \E i \in DOMAIN mine : ~partial_ok(mine[i], digest, keys)
        \/ ~is_satisfied_by(quorum, Range(signers))
     THEN Err
     ELSE [quorum |-> quorum, signers |-> signers, signatures |-> valid,
           signed_digest |-> digest]

verify_threshold_approval(approval, envelope_digest, keys) ==
  LET members == Range(approval.quorum.verifiers)
      sigs == approval.signatures
      mine == Filtered(sigs, {i \in DOMAIN sigs : sigs[i].verifier_id \in members})
  IN /\ approval.signed_digest = approval_digest(envelope_digest)
     /\ \A i \in DOMAIN mine : partial_ok(mine[i], approval.signed_digest, keys)
     /\ is_satisfied_by(approval.quorum, Range(approval.signers))
     /\ Len(mine) >= approval.quorum.threshold

---------------------------------------------------------------------------
(* auxiliary.rs: a verifier signs the digest it is given once the package  *)
(* passes; it does not derive the digest from the package.                 *)

verify_and_sign(vid, policy, package, st, claimed_digest, now) ==
  IF ~check(policy, package, st, now) THEN Err
  ELSE sign_partial(vid, approval_digest(claimed_digest))

---------------------------------------------------------------------------
(* envelope.rs.                                                            *)

RandomnessBinding(id, value, epoch, binding) ==
  [id |-> id, value |-> value, epoch |-> epoch, session_binding |-> binding]

CoordinatorEvidence(ev, package) ==
  [engine_tag |-> ev.engine_tag, evidence_digest |-> ev.evidence_digest,
   package_digest |-> package.package_digest]

\* The content of the statement is covered through its digest, the session
\* digest and the approval are not covered.
envelope_digest_of(session, randomness, transcript, st, ce) ==
  <<"envelope/v1", session.session_id, session.prover_id, session.coordinator_id,
    session.epoch, session.created_at, session.expires_at, session.nonce,
    session.quorum, randomness.id, randomness.value, randomness.epoch,
    randomness.session_binding, transcript.query.digest,
    transcript.response.digest, transcript.session_transcript_digest,
    st.derivation_tag, st.statement_digest, ce.engine_tag, ce.evidence_digest,
    ce.package_digest>>

AttestationEnvelope_assemble(session, randomness, transcript, st, ce, approval) ==
  [session |-> session, randomness |-> randomness, transcript |-> transcript,
   statement |-> st, coordinator_evidence |-> ce, approval |-> approval,
   envelope_digest |-> envelope_digest_of(session, randomness, transcript, st, ce)]

AttestationEnvelope_verify_digest(e) ==
  e.envelope_digest = envelope_digest_of(e.session, e.randomness, e.transcript,
                        e.statement, e.coordinator_evidence)
=============================================================================
