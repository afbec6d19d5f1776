------------------------- MODULE AttestationProofs -------------------------
(***************************************************************************)
(* Proofs about attestations that are put together from several runs, for  *)
(* any sessions and lifetimes, connections, subsets of the verifiers and   *)
(* number of attempts:                                                     *)
(*  - the parts of DECO or DiStefano proofs are accepted together exactly  *)
(*    if runs tied handshake to record and record to statement;            *)
(*  - check_full approves exactly what matches the verifier's own view;    *)
(*    the statement's exchange is not part of that view.                   *)
(* Neither property is inductive.  Each invariant says of everything kept  *)
(* from a run how the run computed it; that the digests name their inputs  *)
(* then leaves no other way for the parts to fit together.                 *)
(***************************************************************************)
EXTENDS Attestation, TLAPS

---------------------------------------------------------------------------
(* The proofs of DECO and DiStefano.                                       *)

Cert(p) == cert_hash(DxConns[p.c].cert)
Response(p) == DxConns[p.c].chunks

\* The MAC key, the handshake binding and the record of a DECO run.
DecoMac(p) == {<<"deco-hsp/k-mac-seed/v1", p.rand, p.s>>}
DecoBinding(p) ==
  deco_session_binding(p.s, p.rand, k_mac_commitment(DecoMac(p)), Cert(p))
DecoRecord(p) == DecoQueryRecord_commit(p.s, DecoMac(p), Query, Response(p))

\* A proof that a DECO run made, part by part.  The bytes of its Groth16 proof
\* are arbitrary.
DecoRun(p) ==
  /\ p.kind = "deco"
  /\ p.session.spv.k_mac = DecoMac(p)
  /\ p.proof.pi_hsp.session_id = p.s
  /\ p.proof.pi_hsp.rand = p.rand
  /\ p.proof.pi_hsp.k_mac = DecoMac(p)
  /\ p.proof.pi_hsp.session_binding = DecoBinding(p)
  /\ p.proof.query_record = DecoRecord(p)
  /\ p.proof.statement = p.claim
  /\ p.proof.proof_digest = deco_proof_digest(DecoRecord(p), p.claim)
  /\ p.proof.cross_binding
       = deco_cross_binding(DecoBinding(p), DecoRecord(p).transcript_commitment)

\* The two parties' commitments of a DiStefano run, its handshake binding and
\* what its record commits to.
SecretOf(p) == DxConns[p.c].secret
DistefanoShares(p) ==
  split_shares(derive_traffic_material(p.rand,
                 [transcript_hash |-> <<"th", SecretOf(p)>>,
                  dhe_secret |-> SecretOf(p), server_name |-> "host"]),
               p.s, p.rand)
ProverCommitment(p) ==
  compute_prover_commitment(p.s, p.rand, DistefanoShares(p).spp)
VerifierCommitment(p) ==
  compute_verifier_commitment(p.s, p.rand, DistefanoShares(p).spv)
JointCommitment(p) ==
  compute_joint_commitment(ProverCommitment(p), VerifierCommitment(p))
DistefanoBinding(p) ==
  v2pc_session_binding(p.s, p.rand, JointCommitment(p), Cert(p))
DistefanoTranscript(p) ==
  DistefanoQueryRecord_commit(p.s, Query, Response(p), "").transcript_commitment
DistefanoDigest(s, transcript, claim) ==
  distefano_proof_digest([session_id |-> s, transcript_commitment |-> transcript],
                         claim)

\* A proof that a DiStefano run made.  The server's tag and the time of the
\* handshake are arbitrary.
DistefanoRun(p) ==
  /\ p.kind = "distefano"
  /\ p.proof.pi_hsp.session_id = p.s
  /\ p.proof.pi_hsp.pi_2pc =
       [session_id |-> p.s, sv |-> p.rand,
        prover_share_commitment |-> ProverCommitment(p),
        verifier_share_commitment |-> VerifierCommitment(p),
        joint_commitment |-> JointCommitment(p),
        session_binding |-> DistefanoBinding(p)]
  /\ p.proof.query_record.session_id = p.s
  /\ p.proof.query_record.transcript_commitment = DistefanoTranscript(p)
  /\ p.proof.statement = p.claim
  /\ p.proof.proof_digest = DistefanoDigest(p.s, DistefanoTranscript(p), p.claim)
  /\ p.proof.cross_binding
       = distefano_cross_binding(DistefanoBinding(p), DistefanoTranscript(p))

\* The proofs held are all of one construction, each made by a run.
DxInv ==
  /\ \A p \in dxproofs : DecoRun(p) \/ DistefanoRun(p)
  /\ \A p, q \in dxproofs : p.kind = q.kind

\* Exclusive or with the same value twice gives back the first, and different
\* values stay different.
LEMMA XorTwice ==
  ASSUME NEW a, NEW b
  PROVE  Xor(b, Xor(a, b)) = a
BY DEF Xor

LEMMA XorCancels ==
  ASSUME NEW a, NEW b, NEW c, Xor(a, c) = Xor(b, c)
  PROVE  a = b
<1>1. \A x : x \in a <=> x \in b
  BY DEF Xor
<1> QED BY <1>1

---------------------------------------------------------------------------
(* DECO: what its digests name.                                            *)

\* Two handshake bindings agree exactly if the session, the randomness and the
\* certificate do.
LEMMA DecoBindingNames ==
  ASSUME NEW a, NEW b, a.kind = "deco", b.kind = "deco"
  PROVE  DecoBinding(a) = DecoBinding(b) <=> HandshakeId(a) = HandshakeId(b)
<1>1. HandshakeId(a) = HandshakeId(b)
        <=> a.s = b.s /\ a.rand = b.rand /\ Cert(a) = Cert(b)
  BY DEF HandshakeId, Cert
<1>2. ASSUME DecoBinding(a) = DecoBinding(b)
      PROVE  a.s = b.s /\ a.rand = b.rand /\ Cert(a) = Cert(b)
  BY <1>2, Zenon DEF DecoBinding, deco_session_binding
<1>3. ASSUME a.s = b.s, a.rand = b.rand, Cert(a) = Cert(b)
      PROVE  DecoBinding(a) = DecoBinding(b)
  BY <1>3, Zenon DEF DecoBinding, DecoMac
<1> QED BY <1>1, <1>2, <1>3, Zenon

\* Two transcript commitments agree exactly if the session, the response and,
\* through the MAC key, the randomness do.
LEMMA DecoRecordNames ==
  ASSUME NEW a, NEW b, a.kind = "deco", b.kind = "deco"
  PROVE  DecoRecord(a).transcript_commitment = DecoRecord(b).transcript_commitment
           <=> RecordId(a) = RecordId(b)
<1> DEFINE TC(p) == deco_transcript(
                      deco_commit_field(p.s, DecoMac(p), "query", Query),
                      deco_commit_field(p.s, DecoMac(p), "response", Response(p)))
<1>1. RecordId(a) = RecordId(b)
        <=> a.s = b.s /\ a.rand = b.rand /\ Response(a) = Response(b)
  BY DEF RecordId, Response
<1>2. ASSUME NEW p PROVE DecoRecord(p).transcript_commitment = TC(p)
  BY Zenon DEF DecoRecord, DecoQueryRecord_commit
<1>3. ASSUME TC(a) = TC(b)
      PROVE  a.s = b.s /\ a.rand = b.rand /\ Response(a) = Response(b)
  <2>1. a.s = b.s /\ DecoMac(a) = DecoMac(b) /\ Response(a) = Response(b)
    BY <1>3, Zenon DEF deco_transcript, deco_commit_field
  <2>2. <<"deco-hsp/k-mac-seed/v1", a.rand, a.s>> \in DecoMac(b)
    BY <2>1, Zenon DEF DecoMac
  <2>3. a.rand = b.rand
    BY <2>2, Zenon DEF DecoMac
  <2> QED BY <2>1, <2>3, Zenon
<1>4. ASSUME a.s = b.s, a.rand = b.rand, Response(a) = Response(b)
      PROVE  TC(a) = TC(b)
  BY <1>4, Zenon DEF DecoMac
<1> HIDE DEF TC
<1> QED BY <1>1, <1>2, <1>3, <1>4, Zenon

\* verify_deco_dx_dctls accepts parts of several DECO runs exactly if their
\* digests fit.
LEMMA DecoAccepted ==
  ASSUME NEW h, NEW q, NEW st, NEW d, NEW x, NEW rand, NEW cert,
         DecoRun(h), DecoRun(q), DecoRun(st), DecoRun(d), DecoRun(x)
  PROVE  verify_deco_dx_dctls(
           [pi_hsp |-> h.proof.pi_hsp,
            query_record |-> q.proof.query_record,
            statement |-> st.proof.statement,
            proof_digest |-> d.proof.proof_digest,
            cross_binding |-> x.proof.cross_binding], rand, cert)
         <=> /\ h.rand = rand /\ Cert(h) = cert /\ h.s = q.s
             /\ HandshakeId(x) = HandshakeId(h) /\ RecordId(x) = RecordId(q)
             /\ RecordId(d) = RecordId(q) /\ d.claim = st.claim
<1> DEFINE TC(p) == DecoRecord(p).transcript_commitment
<1>k. /\ h.kind = "deco" /\ q.kind = "deco" /\ d.kind = "deco" /\ x.kind = "deco"
  BY Zenon DEF DecoRun
<1>1. verify_deco_dx_dctls(
           [pi_hsp |-> h.proof.pi_hsp,
            query_record |-> q.proof.query_record,
            statement |-> st.proof.statement,
            proof_digest |-> d.proof.proof_digest,
            cross_binding |-> x.proof.cross_binding], rand, cert)
      <=> /\ h.proof.pi_hsp.rand = rand
          /\ h.proof.pi_hsp.session_binding
               = deco_session_binding(h.proof.pi_hsp.session_id, rand,
                   k_mac_commitment(h.proof.pi_hsp.k_mac), cert)
          /\ x.proof.cross_binding
               = deco_cross_binding(h.proof.pi_hsp.session_binding,
                   q.proof.query_record.transcript_commitment)
          /\ h.proof.pi_hsp.session_id = q.proof.query_record.session_id
          /\ d.proof.proof_digest
               = deco_proof_digest(q.proof.query_record, st.proof.statement)
  BY Zenon DEF verify_deco_dx_dctls
<1>2. /\ h.proof.pi_hsp.rand = h.rand /\ h.proof.pi_hsp.session_id = h.s
      /\ h.proof.pi_hsp.k_mac = DecoMac(h)
      /\ h.proof.pi_hsp.session_binding = DecoBinding(h)
      /\ q.proof.query_record = DecoRecord(q)
      /\ st.proof.statement = st.claim
      /\ d.proof.proof_digest = deco_proof_digest(DecoRecord(d), d.claim)
      /\ x.proof.cross_binding = deco_cross_binding(DecoBinding(x), TC(x))
  BY Zenon DEF DecoRun
<1>3. \A p : DecoRecord(p).session_id = p.s
  BY Zenon DEF DecoRecord, DecoQueryRecord_commit
<1>4. h.rand = rand =>
        (DecoBinding(h) = deco_session_binding(h.s, rand,
                            k_mac_commitment(DecoMac(h)), cert)
           <=> Cert(h) = cert)
  <2> SUFFICES ASSUME h.rand = rand
               PROVE  DecoBinding(h) = deco_session_binding(h.s, h.rand,
                            k_mac_commitment(DecoMac(h)), cert) <=> Cert(h) = cert
    BY Zenon
  <2> QED BY Zenon DEF DecoBinding, deco_session_binding
<1>5. deco_cross_binding(DecoBinding(x), TC(x)) = deco_cross_binding(DecoBinding(h), TC(q))
        <=> HandshakeId(x) = HandshakeId(h) /\ RecordId(x) = RecordId(q)
  <2>1. deco_cross_binding(DecoBinding(x), TC(x))
          = deco_cross_binding(DecoBinding(h), TC(q))
          <=> DecoBinding(x) = DecoBinding(h) /\ TC(x) = TC(q)
    <3> HIDE DEF TC
    <3> QED BY Zenon DEF deco_cross_binding
  <2>2. DecoBinding(x) = DecoBinding(h) <=> HandshakeId(x) = HandshakeId(h)
    BY <1>k, DecoBindingNames
  <2>3. TC(x) = TC(q) <=> RecordId(x) = RecordId(q)
    BY <1>k, DecoRecordNames
  <2> QED BY <2>1, <2>2, <2>3, Zenon
<1>6. deco_proof_digest(DecoRecord(d), d.claim) = deco_proof_digest(DecoRecord(q), st.claim)
        <=> RecordId(d) = RecordId(q) /\ d.claim = st.claim
  <2>1. TC(d) = TC(q) <=> RecordId(d) = RecordId(q)
    BY <1>k, DecoRecordNames
  <2>2. RecordId(d) = RecordId(q) => d.s = q.s
    BY DEF RecordId
  <2>3. deco_proof_digest(DecoRecord(d), d.claim)
          = deco_proof_digest(DecoRecord(q), st.claim)
          <=> d.s = q.s /\ TC(d) = TC(q) /\ d.claim = st.claim
    BY <1>3, Zenon DEF deco_proof_digest
  <2> QED BY <2>1, <2>2, <2>3, Zenon
<1>7. q.proof.query_record.transcript_commitment = TC(q)
      /\ q.proof.query_record.session_id = q.s
  BY <1>2, <1>3, Zenon
<1> HIDE DEF TC
<1> QED BY ONLY <1>1, <1>2, <1>4, <1>5, <1>6, <1>7, Zenon

\* The MAC of a DECO record verifies with its handshake's key for its own
\* response only.
LEMMA DecoMacIsOfResponse ==
  ASSUME NEW q, DecoRun(q), NEW data
  PROVE  deco_verify_mac(q.proof.query_record, q.session.spv.k_mac, data)
           <=> data = Response(q)
<1>1. q.session.spv.k_mac = DecoMac(q) /\ q.proof.query_record = DecoRecord(q)
  BY Zenon DEF DecoRun
<1>2. DecoRecord(q).server_mac_tag = deco_compute_mac(DecoMac(q), Response(q))
  BY Zenon DEF DecoRecord, DecoQueryRecord_commit
<1>3. deco_verify_mac(q.proof.query_record, q.session.spv.k_mac, data)
        <=> deco_compute_mac(DecoMac(q), Response(q))
              = deco_compute_mac(DecoMac(q), data)
  BY <1>1, <1>2, Zenon DEF deco_verify_mac
<1>4. deco_compute_mac(DecoMac(q), Response(q)) = deco_compute_mac(DecoMac(q), data)
        <=> Response(q) = data
  BY Zenon DEF deco_compute_mac
<1> QED BY <1>3, <1>4, Zenon

---------------------------------------------------------------------------
(* DiStefano: what its digests name.                                       *)

\* The verifier's share of the client key determines the connection's secret.
LEMMA SharesNameSecret ==
  ASSUME NEW a, NEW b, a.s = b.s, a.rand = b.rand,
         DistefanoShares(a).spv = DistefanoShares(b).spv
  PROVE  SecretOf(a) = SecretOf(b)
<1> DEFINE seed == {<<"v2pc/prover-seed/v1", a.s, a.rand>>}
           key(p) == <<"tls13-key-derive/v1", a.rand, <<"th", SecretOf(p)>>,
                       SecretOf(p), "c-traffic">>
<1>1. ASSUME NEW p, p.s = a.s, p.rand = a.rand
      PROVE  DistefanoShares(p).spv.client_key_share = Xor({key(p)}, seed)
  BY <1>1, Zenon DEF DistefanoShares, split_shares, derive_traffic_material,
     TrafficShare
<1>2. Xor({key(a)}, seed) = Xor({key(b)}, seed)
  BY <1>1, Zenon
<1>3. {key(a)} = {key(b)}
  BY <1>2, XorCancels
<1>4. key(a) = key(b)
  BY <1>3, Zenon
<1> QED BY <1>4, Zenon

\* Two handshake bindings agree exactly if the session, the randomness, the
\* certificate and the connection's secret do.
LEMMA DistefanoBindingNames ==
  ASSUME NEW a, NEW b, a.kind = "distefano", b.kind = "distefano"
  PROVE  DistefanoBinding(a) = DistefanoBinding(b) <=> HandshakeId(a) = HandshakeId(b)
<1>1. HandshakeId(a) = HandshakeId(b)
        <=> /\ a.s = b.s /\ a.rand = b.rand /\ Cert(a) = Cert(b)
            /\ SecretOf(a) = SecretOf(b)
  BY DEF HandshakeId, Cert, SecretOf
<1>2. ASSUME DistefanoBinding(a) = DistefanoBinding(b)
      PROVE  /\ a.s = b.s /\ a.rand = b.rand /\ Cert(a) = Cert(b)
             /\ SecretOf(a) = SecretOf(b)
  <2>1. /\ a.s = b.s /\ a.rand = b.rand /\ Cert(a) = Cert(b)
        /\ JointCommitment(a) = JointCommitment(b)
    BY <1>2, Zenon DEF DistefanoBinding, v2pc_session_binding
  <2>2. VerifierCommitment(a) = VerifierCommitment(b)
    BY <2>1, Zenon DEF JointCommitment, compute_joint_commitment
  <2>3. DistefanoShares(a).spv = DistefanoShares(b).spv
    BY <2>2, Zenon DEF VerifierCommitment, compute_verifier_commitment
  <2> QED BY <2>1, <2>3, SharesNameSecret
<1>3. ASSUME a.s = b.s, a.rand = b.rand, Cert(a) = Cert(b), SecretOf(a) = SecretOf(b)
      PROVE  DistefanoBinding(a) = DistefanoBinding(b)
  <2>1. DistefanoShares(a) = DistefanoShares(b)
    BY <1>3, Zenon DEF DistefanoShares
  <2>2. JointCommitment(a) = JointCommitment(b)
    BY <1>3, <2>1, Zenon DEF JointCommitment, ProverCommitment, VerifierCommitment
  <2> QED BY <1>3, <2>2, Zenon DEF DistefanoBinding
<1> QED BY <1>1, <1>2, <1>3, Zenon

\* Two transcript commitments agree exactly if the session and the response do.
LEMMA DistefanoRecordNames ==
  ASSUME NEW a, NEW b, a.kind = "distefano", b.kind = "distefano"
  PROVE  DistefanoTranscript(a) = DistefanoTranscript(b) <=> RecordId(a) = RecordId(b)
<1>1. RecordId(a) = RecordId(b) <=> a.s = b.s /\ Response(a) = Response(b)
  BY DEF RecordId, Response
<1>2. ASSUME NEW p
      PROVE  DistefanoTranscript(p)
               = <<"distefano-qp/transcript/v1", <<"distefano-qp/query/v1", p.s, Query>>,
                   <<"distefano-qp/response/v1", p.s, Response(p)>> >>
  BY Zenon DEF DistefanoTranscript, DistefanoQueryRecord_commit
<1>3. DistefanoTranscript(a) = DistefanoTranscript(b)
        <=> a.s = b.s /\ Response(a) = Response(b)
  BY <1>2, Zenon
<1> QED BY <1>1, <1>3, Zenon

\* verify_distefano_dx_dctls accepts parts of several DiStefano runs exactly if
\* their digests fit.
LEMMA DistefanoAccepted ==
  ASSUME NEW h, NEW q, NEW st, NEW d, NEW x, NEW rand, NEW cert,
         DistefanoRun(h), DistefanoRun(q), DistefanoRun(st), DistefanoRun(d),
         DistefanoRun(x)
  PROVE  verify_distefano_dx_dctls(
           [pi_hsp |-> h.proof.pi_hsp,
            query_record |-> q.proof.query_record,
            statement |-> st.proof.statement,
            proof_digest |-> d.proof.proof_digest,
            cross_binding |-> x.proof.cross_binding], rand, cert)
         <=> /\ h.rand = rand /\ Cert(h) = cert /\ h.s = q.s
             /\ HandshakeId(x) = HandshakeId(h) /\ RecordId(x) = RecordId(q)
             /\ RecordId(d) = RecordId(q) /\ d.claim = st.claim
<1> DEFINE pi == h.proof.pi_hsp.pi_2pc
           TC(p) == DistefanoTranscript(p)
<1>k. /\ h.kind = "distefano" /\ q.kind = "distefano"
      /\ d.kind = "distefano" /\ x.kind = "distefano"
  BY Zenon DEF DistefanoRun
<1>1. verify_distefano_dx_dctls(
           [pi_hsp |-> h.proof.pi_hsp,
            query_record |-> q.proof.query_record,
            statement |-> st.proof.statement,
            proof_digest |-> d.proof.proof_digest,
            cross_binding |-> x.proof.cross_binding], rand, cert)
      <=> /\ pi.sv = rand
          /\ pi.joint_commitment
               = compute_joint_commitment(pi.prover_share_commitment,
                                          pi.verifier_share_commitment)
          /\ pi.session_binding
               = v2pc_session_binding(pi.session_id, rand, pi.joint_commitment, cert)
          /\ x.proof.cross_binding
               = distefano_cross_binding(pi.session_binding,
                   q.proof.query_record.transcript_commitment)
          /\ h.proof.pi_hsp.session_id = q.proof.query_record.session_id
          /\ d.proof.proof_digest
               = distefano_proof_digest(q.proof.query_record, st.proof.statement)
  BY Zenon DEF verify_distefano_dx_dctls, v2pc_verify
<1>2. /\ pi = [session_id |-> h.s, sv |-> h.rand,
               prover_share_commitment |-> ProverCommitment(h),
               verifier_share_commitment |-> VerifierCommitment(h),
               joint_commitment |-> JointCommitment(h),
               session_binding |-> DistefanoBinding(h)]
      /\ h.proof.pi_hsp.session_id = h.s
      /\ q.proof.query_record.session_id = q.s
      /\ q.proof.query_record.transcript_commitment = TC(q)
      /\ st.proof.statement = st.claim
      /\ d.proof.proof_digest = DistefanoDigest(d.s, TC(d), d.claim)
      /\ x.proof.cross_binding = distefano_cross_binding(DistefanoBinding(x), TC(x))
  BY Zenon DEF DistefanoRun
<1>3. /\ pi.session_id = h.s /\ pi.sv = h.rand
      /\ pi.joint_commitment = JointCommitment(h)
      /\ pi.joint_commitment
           = compute_joint_commitment(pi.prover_share_commitment,
                                      pi.verifier_share_commitment)
      /\ pi.session_binding = DistefanoBinding(h)
  BY <1>2 DEF JointCommitment
<1> HIDE DEF pi
<1>4. h.rand = rand =>
        (DistefanoBinding(h) = v2pc_session_binding(h.s, rand, JointCommitment(h), cert)
           <=> Cert(h) = cert)
  <2> SUFFICES ASSUME h.rand = rand
               PROVE  DistefanoBinding(h)
                        = v2pc_session_binding(h.s, h.rand, JointCommitment(h), cert)
                        <=> Cert(h) = cert
    BY Zenon
  <2> QED BY Zenon DEF DistefanoBinding, v2pc_session_binding
<1>5. distefano_cross_binding(DistefanoBinding(x), TC(x))
        = distefano_cross_binding(DistefanoBinding(h), TC(q))
        <=> HandshakeId(x) = HandshakeId(h) /\ RecordId(x) = RecordId(q)
  <2>1. distefano_cross_binding(DistefanoBinding(x), TC(x))
          = distefano_cross_binding(DistefanoBinding(h), TC(q))
          <=> DistefanoBinding(x) = DistefanoBinding(h) /\ TC(x) = TC(q)
    BY Zenon DEF distefano_cross_binding
  <2>2. DistefanoBinding(x) = DistefanoBinding(h) <=> HandshakeId(x) = HandshakeId(h)
    BY <1>k, DistefanoBindingNames
  <2>3. TC(x) = TC(q) <=> RecordId(x) = RecordId(q)
    BY <1>k, DistefanoRecordNames
  <2> QED BY <2>1, <2>2, <2>3, Zenon
<1>6. DistefanoDigest(d.s, TC(d), d.claim)
        = distefano_proof_digest(q.proof.query_record, st.claim)
        <=> RecordId(d) = RecordId(q) /\ d.claim = st.claim
  <2>1. TC(d) = TC(q) <=> RecordId(d) = RecordId(q)
    BY <1>k, DistefanoRecordNames
  <2>2. RecordId(d) = RecordId(q) => d.s = q.s
    BY DEF RecordId
  <2>3. distefano_proof_digest(q.proof.query_record, st.claim)
          = <<"distefano-pgp/proof/v1", q.s, TC(q), st.claim>>
    BY <1>2, Zenon DEF distefano_proof_digest
  <2>4. DistefanoDigest(d.s, TC(d), d.claim)
          = <<"distefano-pgp/proof/v1", d.s, TC(d), d.claim>>
    BY Zenon DEF DistefanoDigest, distefano_proof_digest
  <2>5. DistefanoDigest(d.s, TC(d), d.claim)
          = distefano_proof_digest(q.proof.query_record, st.claim)
          <=> d.s = q.s /\ TC(d) = TC(q) /\ d.claim = st.claim
    BY ONLY <2>3, <2>4
  <2> QED BY <2>1, <2>2, <2>5, Zenon
<1> HIDE DEF TC
<1>7. h.proof.pi_hsp.session_id = q.proof.query_record.session_id <=> h.s = q.s
  BY <1>2, Zenon
<1>8. x.proof.cross_binding
        = distefano_cross_binding(pi.session_binding,
            q.proof.query_record.transcript_commitment)
        <=> HandshakeId(x) = HandshakeId(h) /\ RecordId(x) = RecordId(q)
  BY ONLY <1>2, <1>3, <1>5, Zenon
<1>9. d.proof.proof_digest
        = distefano_proof_digest(q.proof.query_record, st.proof.statement)
        <=> RecordId(d) = RecordId(q) /\ d.claim = st.claim
  BY ONLY <1>2, <1>6, Zenon
<1>10. pi.sv = rand /\ pi.session_binding
           = v2pc_session_binding(pi.session_id, rand, pi.joint_commitment, cert)
        <=> h.rand = rand /\ Cert(h) = cert
  BY ONLY <1>3, <1>4, Zenon
<1> QED BY ONLY <1>1, <1>3, <1>7, <1>8, <1>9, <1>10, Zenon

---------------------------------------------------------------------------
(* Runs.                                                                   *)

\* A DECO run that succeeds makes such a proof: the TLS 1.2 capture takes the
\* certificate of the connection.
LEMMA DecoGenerates ==
  ASSUME NEW s, NEW rand, NEW c, NEW claim, NEW fresh,
         DxSession("deco", s, rand, DxConns[c], fresh) # Err, NEW p,
         p.kind = "deco", p.s = s, p.rand = rand, p.c = c, p.claim = claim,
         p.session = DxSession("deco", s, rand, DxConns[c], fresh),
         p.proof = DxProof("deco", p.session, DxConns[c], claim, fresh)
  PROVE  DecoRun(p)
<1> DEFINE conn == DxConns[c]
           cap == Tls12Connector_connect("host", conn, clock)
           k == {<<"deco-hsp/k-mac-seed/v1", rand, s>>}
           b == {<<"deco-hsp/split-seed/v1", rand, s>>}
           cert == cert_hash(conn.cert)
           r == deco_hsp(s, rand, cert, TRUE, fresh)
<1>1. p.session = deco_hsp(s, rand, to_session_params_public(cap).server_cert_hash,
                           cap # Err, fresh)
  BY Zenon DEF DxSession
<1>2. cap # Err
  <2>1. deco_hsp(s, rand, to_session_params_public(cap).server_cert_hash, FALSE, fresh)
          = Err
    BY Zenon DEF deco_hsp
  <2> HIDE DEF cap
  <2>2. CASE cap = Err
    <3>1. (cap # Err) = FALSE
      BY <2>2, Zenon
    <3> QED BY <3>1, <2>1, <1>1, Zenon
  <2> QED BY <2>2, Zenon
<1>3. cap.server_cert_hash = cert
  BY <1>2, Zenon DEF Tls12Connector_connect
<1> HIDE DEF cap
<1>4. to_session_params_public(cap).server_cert_hash = cert
  BY <1>3, Zenon DEF to_session_params_public
<1>5. p.session = r
  <2>1. (cap # Err) = TRUE
    BY <1>2, Zenon
  <2> QED BY <2>1, <1>1, <1>4, Zenon
<1>6. Xor(b, Xor(k, b)) = k
  BY XorTwice
<1>7. /\ r.session_id = s
      /\ r.spv.k_mac = Xor(b, Xor(k, b))
      /\ r.spv.pi_hsp.session_id = s
      /\ r.spv.pi_hsp.rand = rand
      /\ r.spv.pi_hsp.k_mac = Xor(b, Xor(k, b))
      /\ r.spv.pi_hsp.session_binding
           = deco_session_binding(s, rand, k_mac_commitment(Xor(b, Xor(k, b))), cert)
  BY Zenon DEF deco_hsp, split_k_mac, CoSnarkExecutor_execute, CoSnarkRawOutput
<1>8. DecoMac(p) = k /\ Cert(p) = cert /\ Response(p) = conn.chunks
  BY Zenon DEF DecoMac, Cert, Response
<1> HIDE DEF r, k, b, cert
<1>9. /\ r.session_id = p.s
      /\ r.spv.k_mac = DecoMac(p)
      /\ r.spv.pi_hsp.session_id = p.s
      /\ r.spv.pi_hsp.rand = p.rand
      /\ r.spv.pi_hsp.k_mac = DecoMac(p)
      /\ r.spv.pi_hsp.session_binding = DecoBinding(p)
  BY <1>6, <1>7, <1>8, Zenon DEF DecoBinding
<1>10. deco_qp(r, Query, conn.chunks) = DecoRecord(p)
  BY <1>8, <1>9, Zenon DEF deco_qp, DecoRecord
<1>11. p.proof = DecoDxDctlsProof_generate(r.spv.pi_hsp, DecoRecord(p), p.claim)
  BY <1>5, <1>10, Zenon DEF DxProof, deco_pgp
<1>12. /\ p.proof.pi_hsp = r.spv.pi_hsp
       /\ p.proof.query_record = DecoRecord(p)
       /\ p.proof.statement = p.claim
       /\ p.proof.proof_digest = deco_proof_digest(DecoRecord(p), p.claim)
       /\ p.proof.cross_binding
            = deco_cross_binding(r.spv.pi_hsp.session_binding,
                                 DecoRecord(p).transcript_commitment)
  BY <1>11 DEF DecoDxDctlsProof_generate
<1> QED BY <1>5, <1>9, <1>12, Zenon DEF DecoRun

\* So does a DiStefano run, which needs TLS 1.3.
LEMMA DistefanoGenerates ==
  ASSUME NEW s, NEW rand, NEW c, NEW claim, NEW fresh,
         DxSession("distefano", s, rand, DxConns[c], fresh) # Err, NEW p,
         p.kind = "distefano", p.s = s, p.rand = rand, p.c = c, p.claim = claim,
         p.session = DxSession("distefano", s, rand, DxConns[c], fresh),
         p.proof = DxProof("distefano", p.session, DxConns[c], claim, fresh)
  PROVE  DistefanoRun(p)
<1> DEFINE conn == DxConns[c]
           sp == [transcript_hash |-> <<"th", conn.secret>>,
                  dhe_secret |-> conn.secret, server_name |-> "host"]
           cert == cert_hash(conn.cert)
           e == v2pc_execute(s, rand, sp)
           record == DistefanoQueryRecord_commit(s, Query, conn.chunks, fresh)
           TC == <<"distefano-qp/transcript/v1", <<"distefano-qp/query/v1", p.s, Query>>,
                   <<"distefano-qp/response/v1", p.s, Response(p)>> >>
           pi == [session_id |-> p.s, sv |-> p.rand,
                  prover_share_commitment |-> ProverCommitment(p),
                  verifier_share_commitment |-> VerifierCommitment(p),
                  joint_commitment |-> JointCommitment(p),
                  session_binding |-> v2pc_session_binding(p.s, p.rand,
                                        JointCommitment(p), ZeroDigest)]
<1>1. p.session = distefano_hsp(s, rand, sp, cert, conn.version, clock)
  BY Zenon DEF DxSession
<1>2. /\ SecretOf(p) = conn.secret /\ Cert(p) = cert /\ Response(p) = conn.chunks
  BY Zenon DEF SecretOf, Cert, Response
<1>3. DistefanoShares(p) = split_shares(derive_traffic_material(rand, sp), s, rand)
  BY <1>2, Zenon DEF DistefanoShares
<1>4. e.pi_2pc = pi
  BY <1>3, Zenon DEF v2pc_execute, ProverCommitment, VerifierCommitment, JointCommitment
<1> HIDE DEF sp, e, cert
<1>5. /\ p.session.session_id = s
      /\ p.session.pi_hsp.session_id = s
      /\ p.session.pi_hsp.pi_2pc = [e.pi_2pc EXCEPT !.session_binding =
            v2pc_session_binding(s, rand, e.pi_2pc.joint_commitment, cert)]
  <2> DEFINE y == [e.pi_2pc EXCEPT !.session_binding =
                     v2pc_session_binding(s, rand, e.pi_2pc.joint_commitment, cert)]
  <2>1. p.session = [session_id |-> s, spp |-> e.spp, spv |-> e.spv,
                     pi_hsp |-> [session_id |-> s, sv |-> rand, pi_2pc |-> y,
                                 server_cert_hash |-> cert,
                                 tls_version |-> conn.version,
                                 server_name |-> sp.server_name,
                                 established_at |-> clock]]
    BY <1>1, Zenon DEF distefano_hsp, e
  <2> HIDE DEF y
  <2>2. /\ p.session.session_id = s /\ p.session.pi_hsp.session_id = s
        /\ p.session.pi_hsp.pi_2pc = y
    BY ONLY <2>1
  <2> QED BY <2>2, Zenon DEF y
<1>6. p.session.pi_hsp.pi_2pc =
        [session_id |-> p.s, sv |-> p.rand,
         prover_share_commitment |-> ProverCommitment(p),
         verifier_share_commitment |-> VerifierCommitment(p),
         joint_commitment |-> JointCommitment(p),
         session_binding |-> DistefanoBinding(p)]
  BY ONLY <1>2, <1>4, <1>5, p.s = s, p.rand = rand DEF DistefanoBinding
<1>7. /\ record.session_id = p.s /\ record.transcript_commitment = TC
      /\ DistefanoTranscript(p) = TC
  BY <1>2, Zenon DEF DistefanoQueryRecord_commit, DistefanoTranscript
<1>8. distefano_qp(p.session, Query, conn.chunks, fresh) = record
  BY <1>5, Zenon DEF distefano_qp
<1> HIDE DEF record, TC
<1>9. p.proof = DistefanoDxDctlsProof_generate(p.session.pi_hsp, record, p.claim)
  BY <1>8, Zenon DEF DxProof, distefano_pgp
<1>10. /\ p.proof.pi_hsp = p.session.pi_hsp
       /\ p.proof.query_record = record
       /\ p.proof.statement = p.claim
       /\ p.proof.proof_digest = distefano_proof_digest(record, p.claim)
       /\ p.proof.cross_binding
            = distefano_cross_binding(p.session.pi_hsp.pi_2pc.session_binding,
                                      record.transcript_commitment)
  BY <1>9 DEF DistefanoDxDctlsProof_generate
<1>11. p.session.pi_hsp.pi_2pc.session_binding = DistefanoBinding(p)
  BY <1>6
<1>12. distefano_proof_digest(record, p.claim)
         = DistefanoDigest(p.s, DistefanoTranscript(p), p.claim)
  BY <1>7, Zenon DEF DistefanoDigest, distefano_proof_digest
<1> QED BY <1>5, <1>6, <1>7, <1>10, <1>11, <1>12, Zenon DEF DistefanoRun

\* Every step keeps the proofs held made by runs of one construction.
LEMMA DxKept ==
  ASSUME DxInv, [AtNext]_atvars
  PROVE  DxInv'
<1>1. CASE UNCHANGED dxproofs
  BY <1>1, Zenon DEF DxInv
<1>2. ASSUME NEW s \in AtSessions, NEW D \in DvrfSets, NEW c \in DOMAIN DxConns,
             NEW kind \in {"deco", "distefano"}, NEW claim \in Claims,
             NEW fresh \in Fresh, GenerateDx(kind, s, D, c, claim, fresh)
      PROVE  DxInv'
  <2> DEFINE rand == dvrfs[<<s, D>>].value
             session == DxSession(kind, s, rand, DxConns[c], fresh)
             p == [kind |-> kind, s |-> s, rand |-> rand, c |-> c, claim |-> claim,
                   session |-> session,
                   proof |-> DxProof(kind, session, DxConns[c], claim, fresh)]
  <2>1. /\ session # Err
        /\ \A q \in dxproofs : q.kind = kind
        /\ dxproofs' = dxproofs \cup {p}
    BY <1>2, Zenon DEF GenerateDx
  <2>2. /\ p.kind = kind /\ p.s = s /\ p.rand = rand /\ p.c = c /\ p.claim = claim
        /\ p.session = session
        /\ p.proof = DxProof(kind, session, DxConns[c], claim, fresh)
    BY Zenon
  <2> HIDE DEF p, rand
  <2>3. CASE kind = "deco"
    <3>1. DecoRun(p)
      BY <2>1, <2>2, <2>3, DecoGenerates
    <3> QED BY <3>1, <2>1, <2>2, Zenon DEF DxInv
  <2>4. CASE kind = "distefano"
    <3>1. DistefanoRun(p)
      BY <2>1, <2>2, <2>4, DistefanoGenerates
    <3> QED BY <3>1, <2>1, <2>2, Zenon DEF DxInv
  <2> QED BY <2>3, <2>4, Zenon
<1>3. ASSUME NEW s \in AtSessions, NEW D \in DvrfSets, NEW c \in DOMAIN Conns,
             NEW e \in {"prototype", "dctls", "tls", "2pc"}, Execute(s, D, e, c)
      PROVE  UNCHANGED dxproofs
  BY <1>3, Zenon DEF Execute
<1>4. CASE Tick
  BY <1>1, <1>4, Zenon DEF Tick
<1>5. CASE UNCHANGED atvars
  BY <1>1, <1>5, Zenon DEF atvars
<1> QED BY <1>1, <1>2, <1>3, <1>4, <1>5, Zenon DEF AtNext

\* verify_deco_dx_dctls and verify_distefano_dx_dctls accept exactly the parts
\* that runs tie together.
LEMMA DxAccepted ==
  ASSUME DxInv
  PROVE  DxAcceptsMatchingRuns
<1> USE DEF DxAcceptsMatchingRuns
<1> TAKE h, q, st, d, x, e \in dxproofs
<1> DEFINE proof == [pi_hsp |-> h.proof.pi_hsp,
                     query_record |-> q.proof.query_record,
                     statement |-> st.proof.statement,
                     proof_digest |-> d.proof.proof_digest,
                     cross_binding |-> x.proof.cross_binding]
           cert == cert_hash(DxConns[e.c].cert)
           fits == /\ h.rand = e.rand /\ cert_hash(DxConns[h.c].cert) = cert
                   /\ h.s = q.s
                   /\ HandshakeId(x) = HandshakeId(h) /\ RecordId(x) = RecordId(q)
                   /\ RecordId(d) = RecordId(q) /\ d.claim = st.claim
           macs == q.kind = "deco" =>
                     \A c \in DOMAIN DxConns :
                       deco_verify_mac(q.proof.query_record, q.session.spv.k_mac,
                                       DxConns[c].chunks)
                         <=> DxConns[c].chunks = DxConns[q.c].chunks
<1>1. DxVerify(h.kind, proof, e.rand, cert) <=> fits
  <2>1. CASE h.kind = "deco"
    <3>1. /\ DecoRun(h) /\ DecoRun(q) /\ DecoRun(st) /\ DecoRun(d) /\ DecoRun(x)
      BY <2>1, Zenon DEF DxInv, DistefanoRun
    <3>2. DxVerify(h.kind, proof, e.rand, cert)
            <=> verify_deco_dx_dctls(proof, e.rand, cert)
      BY <2>1, Zenon DEF DxVerify
    <3>3. verify_deco_dx_dctls(proof, e.rand, cert) <=> fits
      BY <3>1, DecoAccepted DEF Cert
    <3> QED BY <3>2, <3>3, Zenon
  <2>2. CASE h.kind = "distefano"
    <3>1. /\ DistefanoRun(h) /\ DistefanoRun(q) /\ DistefanoRun(st)
          /\ DistefanoRun(d) /\ DistefanoRun(x)
      BY <2>2, Zenon DEF DxInv, DecoRun
    <3>2. DxVerify(h.kind, proof, e.rand, cert)
            <=> verify_distefano_dx_dctls(proof, e.rand, cert)
      BY <2>2, Zenon DEF DxVerify
    <3>3. verify_distefano_dx_dctls(proof, e.rand, cert) <=> fits
      BY <3>1, DistefanoAccepted DEF Cert
    <3> QED BY <3>2, <3>3, Zenon
  <2> QED BY <2>1, <2>2, Zenon DEF DxInv, DecoRun, DistefanoRun
<1>2. macs
  <2> SUFFICES ASSUME q.kind = "deco", NEW c \in DOMAIN DxConns
               PROVE  deco_verify_mac(q.proof.query_record, q.session.spv.k_mac,
                                      DxConns[c].chunks)
                        <=> DxConns[c].chunks = DxConns[q.c].chunks
    BY Zenon
  <2>1. DecoRun(q)
    BY Zenon DEF DxInv, DistefanoRun
  <2> QED BY <2>1, DecoMacIsOfResponse, Zenon DEF Response
<1> QED BY ONLY <1>1, <1>2, Zenon

\* A DECO or DiStefano proof assembled from the parts of any number of runs is
\* accepted exactly if one of them made its handshake with its record and one
\* made its record with its statement, for the expected randomness and
\* certificate: whatever the connections, statements, tags, times and Groth16
\* randomness of the runs.
THEOREM DxProofsMatchRuns == AtSpec => []DxAcceptsMatchingRuns
<1>1. AtInit => DxInv
  BY Zenon DEF AtInit, DxInv
<1>2. DxInv /\ [AtNext]_atvars => DxInv'
  BY DxKept, Zenon
<1>3. DxInv => DxAcceptsMatchingRuns
  BY DxAccepted, Zenon
<1> QED BY <1>1, <1>2, <1>3, PTL DEF AtSpec

---------------------------------------------------------------------------
(* Attestation: what check_full approves.                                  *)

\* A DVRF output for alpha of the participants at positions D.
DvrfOutputOf(out, alpha, D) ==
  \E commits :
    LET sig == [key |-> "at", pkg |-> SigningPackage(commits, alpha)]
    IN /\ DOMAIN commits = Range(D)
       /\ out.value = dvrf_output(sig)
       /\ out.proof.signature = sig
       /\ out.proof.group_key = "at"
       /\ out.proof.alpha = alpha

\* The dealer's verifiers and participants are numbered alike.
LEMMA DealerNumbers ==
  /\ AtDealer.group_key.pub.key = "at"
  /\ \A i \in 1..3 :
       /\ AtDealer.participants[i].verifier_id = AtVids[i]
       /\ verifier_to_identifier(AtDealer.group_key, AtVids[i]) = i
<1> DEFINE pairs == [i \in 1..3 |-> <<AtVids[i], i>>]
           ps == [i \in 1..3 |->
                    FrostParticipant(KeyPackage(Ed25519, "at", i, 2), i, AtVids[i])]
           gk == FrostGroupKey(PublicKeyPackage(Ed25519, "at", 1..3, 2),
                               InsertAll(pairs))
<1>1. AtDealer = [participants |-> ps, group_key |-> gk]
  <2>1. Len(AtVids) = 3
    BY Zenon DEF AtVids
  <2> QED BY <2>1, AtAssumption, Zenon DEF AtDealer, frost_trusted_dealer_keygen
<1>2. AtDealer.group_key = gk /\ AtDealer.participants = ps
  BY <1>1, Zenon
<1>3. gk.pub.key = "at" /\ gk.verifier_to_id = InsertAll(pairs)
  BY Zenon DEF FrostGroupKey, PublicKeyPackage
<1>4. ASSUME NEW i \in 1..3
      PROVE  /\ ps[i].verifier_id = AtVids[i]
             /\ AtVids[i] \in DOMAIN InsertAll(pairs)
             /\ InsertAll(pairs)[AtVids[i]] = i
  <2>1. ps[i].verifier_id = AtVids[i]
    BY Zenon DEF FrostParticipant
  <2>2. DOMAIN pairs = 1..3 /\ \A j \in 1..3 : pairs[j][1] = AtVids[j] /\ pairs[j][2] = j
    BY Zenon
  <2> HIDE DEF pairs
  <2>3. AtVids[i] \in DOMAIN InsertAll(pairs)
    BY <2>2, Zenon DEF InsertAll
  <2>4. \A j \in 1..3 : AtVids[j] = AtVids[i] => j = i
    BY DEF AtVids
  <2>5. (CHOOSE m \in DOMAIN pairs :
           /\ pairs[m][1] = AtVids[i]
           /\ \A j \in DOMAIN pairs : pairs[j][1] = AtVids[i] => j <= m) = i
    BY <2>2, <2>4
  <2>6. InsertAll(pairs)[AtVids[i]] = pairs[i][2]
    BY <2>3, <2>5, Zenon DEF InsertAll
  <2> QED BY <2>1, <2>2, <2>3, <2>6, Zenon
<1> HIDE DEF gk, ps, pairs
<1> QED BY <1>2, <1>3, <1>4, Zenon DEF verifier_to_identifier

\* DvRF::evaluate signs alpha with the participants it is given, no others.
LEMMA DvrfOutput ==
  ASSUME NEW alpha, NEW D \in DvrfSets,
         DvRF_evaluate(AtDealer.group_key, alpha,
           [i \in DOMAIN D |-> AtDealer.participants[D[i]]]) # Err
  PROVE  DvrfOutputOf(DvRF_evaluate(AtDealer.group_key, alpha,
                        [i \in DOMAIN D |-> AtDealer.participants[D[i]]]), alpha, D)
<1> DEFINE gk == AtDealer.group_key
           ps == [i \in DOMAIN D |-> AtDealer.participants[D[i]]]
           r1 == [i \in DOMAIN ps |-> round1_dvrf(ps[i], alpha)]
           collected == [i \in DOMAIN r1 |->
                           <<ps[i].verifier_id, r1[i].commitment.inner>>]
           pkg == build_signing_package(collected, alpha, gk)
           shares == [i \in DOMAIN r1 |->
                        <<ps[i].verifier_id,
                          sign(pkg, r1[i].nonces, ps[i].key_package)>>]
           approval == aggregate_signature_shares(pkg, shares, gk, alpha)
           cs == [i \in DOMAIN collected |->
                    commitment_from_bytes(collected[i][2], collected[i][1], gk)]
           pairs == [i \in DOMAIN cs |-> <<cs[i].identifier, cs[i].inner>>]
           commits == InsertAll(pairs)
           sig == [key |-> "at", pkg |-> SigningPackage(commits, alpha)]
           out == DvRF_evaluate(gk, alpha, ps)
<1>1. /\ pkg # Err /\ approval # Err
      /\ out = [value |-> dvrf_output(approval.signature),
                proof |-> [signature |-> approval.signature,
                           group_key |-> gk.pub.key, alpha |-> alpha]]
  BY Zenon DEF DvRF_evaluate
<1>2. DOMAIN D \subseteq Nat /\ D \in Seq(1..3) /\ \A i \in DOMAIN D : D[i] \in 1..3
  BY AtAssumption
<1>3. /\ DOMAIN collected = DOMAIN D
      /\ \A i \in DOMAIN D : collected[i][1] = AtVids[D[i]]
  <2>1. /\ DOMAIN ps = DOMAIN D
        /\ \A i \in DOMAIN D : ps[i].verifier_id = AtVids[D[i]]
    <3>1. \A i \in DOMAIN D : AtDealer.participants[D[i]].verifier_id = AtVids[D[i]]
      BY <1>2, DealerNumbers, Zenon
    <3> QED BY <3>1, Zenon
  <2>2. DOMAIN r1 = DOMAIN ps
    BY Zenon
  <2> HIDE DEF ps, r1
  <2> QED BY <2>1, <2>2, Zenon
<1>4. pkg = SigningPackage(commits, alpha) /\ ~AnyErr(cs)
  BY <1>1, Zenon DEF build_signing_package
<1>5. approval.signature = sig
  <2> DEFINE ss == [i \in DOMAIN shares |->
                      share_from_bytes(shares[i][2], shares[i][1], gk)]
             its == InsertAll([i \in DOMAIN ss |-> <<ss[i].identifier, ss[i].inner>>])
  <2>1. /\ aggregate(pkg, its, gk.pub) # Err
        /\ approval = FrostThresholdApproval(alpha, aggregate(pkg, its, gk.pub), gk)
    BY <1>1, Zenon DEF aggregate_signature_shares
  <2> HIDE DEF its
  <2>2. aggregate(pkg, its, gk.pub) = [key |-> gk.pub.key, pkg |-> pkg]
    BY <2>1, Zenon DEF aggregate
  <2> HIDE DEF pkg, approval, commits
  <2> QED BY <2>1, <2>2, <1>4, DealerNumbers, Zenon DEF FrostThresholdApproval
<1> HIDE DEF collected, pkg, approval, out
<1>6. DOMAIN commits = Range(D)
  <2>1. ASSUME NEW i \in DOMAIN D PROVE cs[i].identifier = D[i]
    <3>1. cs[i] = commitment_from_bytes(collected[i][2], AtVids[D[i]], gk)
      BY <1>3, Zenon
    <3>2. cs[i] # Err
      BY <1>3, <1>4, Zenon DEF AnyErr
    <3>3. cs[i] = [identifier |-> verifier_to_identifier(gk, AtVids[D[i]]),
                   inner |-> collected[i][2]]
      BY <3>1, <3>2, Zenon DEF commitment_from_bytes
    <3> HIDE DEF cs
    <3> QED BY <3>3, <1>2, DealerNumbers
  <2>2. DOMAIN pairs = DOMAIN D /\ \A i \in DOMAIN D : pairs[i][1] = D[i]
    BY <2>1, <1>3, Zenon
  <2>3. DOMAIN commits = {pairs[i][1] : i \in DOMAIN pairs}
    BY Zenon DEF InsertAll
  <2> HIDE DEF pairs
  <2> QED BY <2>2, <2>3, Zenon DEF Range
<1> HIDE DEF commits
<1>7. /\ out.value = dvrf_output(sig)
      /\ out.proof.signature = sig
      /\ out.proof.group_key = "at"
      /\ out.proof.alpha = alpha
  BY <1>1, <1>5, DealerNumbers, Zenon
<1>8. DvrfOutputOf(out, alpha, D)
  BY <1>6, <1>7, Zenon DEF DvrfOutputOf
<1> QED BY <1>8, Zenon DEF out

\* The context of session s, open since time 1.
SessionOf(ctx, s) ==
  /\ ctx.session_id = s
  /\ for_session(ctx)
       = <<"dvrf-input/v1", s, "prover", <<"nonce", s>>, 0, AtQuorum>>
  /\ ctx.created_at = 1 /\ ctx.expires_at \in Nat /\ ctx.expires_at > 1
  /\ ctx.session_digest
       = session_context_digest(ctx.session_id, ctx.prover_id, ctx.coordinator_id,
           ctx.quorum, ctx.epoch, ctx.created_at, ctx.expires_at, ctx.nonce)

\* A package an engine's run leads to: the commitments are to the query and to
\* the data read, under the session and the randomness.
PackageOf(pkg, engine, ctx, rand, data) ==
  \E tag, bytes :
    /\ tag \in {PROTOTYPE_ENGINE_TAG, DCTLS_ENGINE_TAG} <=> engine # "2pc"
    /\ pkg = AttestationPackage_build(ctx, rand,
               TranscriptCommitments_build(ctx.session_id, rand, Query, data),
               ExportableEvidence_new(tag, bytes))

\* The dx-DCTLS evidence of a run: three proofs under one session and one
\* randomness, of the certificate and the data of one connection.
EvidenceOf(ev, s, rand, cert, data, at) ==
  \E sps, spp, stag :
    LET hsp == HSPProof_generate(s, rand, sps, spp)
        qr == QueryRecord_build(s, rand, Query, data)
    IN /\ spp.server_cert_hash = cert /\ spp.established_at = at
       /\ ev = [hsp_proof |-> hsp, query_record |-> qr,
                pgp_proof |-> PGPProof_generate(s, rand, qr,
                                Statement_derive("attested-session", stag,
                                                 qr.transcript_commitment), hsp)]

\* What a run made: r is what the engine returned.
RunOf(r, engine, ctx, rand, conn, at) ==
  /\ r.tc = TranscriptCommitments_build(ctx.session_id, rand, Query, conn.chunks)
  /\ \E tag, bytes :
       /\ tag \in {PROTOTYPE_ENGINE_TAG, DCTLS_ENGINE_TAG} <=> engine # "2pc"
       /\ r.evidence = ExportableEvidence_new(tag, bytes)
  /\ engine # "prototype" =>
       EvidenceOf(r.dctls, ctx.session_id, rand, cert_hash(conn.cert), conn.chunks, at)

\* The new contexts are of their sessions, with an expiry after the creation.
LEMMA NewSession ==
  ASSUME NEW s, NEW ttl \in Nat
  PROVE  SessionOf(NewContext(s, ttl, 1), s)
BY DEF SessionOf, NewContext, SessionContext_new, for_session

\* The common end of the dx-DCTLS engines makes the evidence of a run.
LEMMA RunEvidence ==
  ASSUME NEW ctx, NEW rand, NEW data, NEW sps, NEW spp, NEW stag, NEW etag
  PROVE  LET r == DctlsRun(ctx, rand, Query, data, sps, spp, stag, etag)
         IN /\ r.tc = TranscriptCommitments_build(ctx.session_id, rand, Query, data)
            /\ r.evidence = ExportableEvidence_new(etag, r.dctls)
            /\ EvidenceOf(r.dctls, ctx.session_id, rand, spp.server_cert_hash, data,
                          spp.established_at)
<1> DEFINE sid == ctx.session_id
           hsp == HSPProof_generate(sid, rand, sps, spp)
           qr == QueryRecord_build(sid, rand, Query, data)
           ev == [hsp_proof |-> hsp, query_record |-> qr,
                  pgp_proof |-> PGPProof_generate(sid, rand, qr,
                                  Statement_derive("attested-session", stag,
                                                   qr.transcript_commitment), hsp)]
           tc == TranscriptCommitments_build(sid, rand, Query, data)
           r == DctlsRun(ctx, rand, Query, data, sps, spp, stag, etag)
<1>1. r = [tc |-> tc, evidence |-> ExportableEvidence_new(etag, ev), dctls |-> ev]
  BY Zenon DEF DctlsRun
<1>2. EvidenceOf(ev, sid, rand, spp.server_cert_hash, data, spp.established_at)
  BY Zenon DEF EvidenceOf
<1> HIDE DEF ev, tc, r
<1>3. r.tc = tc /\ r.dctls = ev /\ r.evidence = ExportableEvidence_new(etag, ev)
  BY <1>1, Zenon
<1> QED BY <1>2, <1>3, Zenon DEF tc, r

\* Every engine that succeeds makes a run of its connection: the TLS engines
\* take the certificate and the data of what they captured.
LEMMA EngineMakesRun ==
  ASSUME NEW ctx, NEW rand, NEW conn, NEW at,
         NEW engine \in {"prototype", "dctls", "tls", "2pc"},
         engine \notin {"tls", "2pc"} => at = ctx.created_at,
         EngineRun(engine, ctx, rand, conn, at) # Err
  PROVE  RunOf(EngineRun(engine, ctx, rand, conn, at), engine, ctx, rand, conn, at)
<1> DEFINE r == EngineRun(engine, ctx, rand, conn, at)
           cert == cert_hash(conn.cert)
           data == conn.chunks
           cap == connect_and_capture("host", conn, Query, rand, at)
<1>0. /\ DCTLS_ENGINE_TAG \in {PROTOTYPE_ENGINE_TAG, DCTLS_ENGINE_TAG}
      /\ PROTOTYPE_ENGINE_TAG \in {PROTOTYPE_ENGINE_TAG, DCTLS_ENGINE_TAG}
      /\ "dx-dctls/handshake-2pc/v1"
            \notin {PROTOTYPE_ENGINE_TAG, DCTLS_ENGINE_TAG}
  BY Zenon DEF DCTLS_ENGINE_TAG, PROTOTYPE_ENGINE_TAG
<1>1. CASE engine = "prototype"
  <2>1. r = [tc |-> TranscriptCommitments_build(ctx.session_id, rand, Query, data),
             evidence |-> ExportableEvidence_new(PROTOTYPE_ENGINE_TAG,
                            <<"prototype", ctx.session_id>>)]
    BY <1>1, Zenon DEF EngineRun, PrototypeAttestationEngine_execute
  <2> HIDE DEF r
  <2>2. /\ r.tc = TranscriptCommitments_build(ctx.session_id, rand, Query, data)
        /\ r.evidence = ExportableEvidence_new(PROTOTYPE_ENGINE_TAG,
                          <<"prototype", ctx.session_id>>)
    BY <2>1, Zenon
  <2>3. RunOf(r, engine, ctx, rand, conn, at)
    BY <2>2, <1>1, <1>0, Zenon DEF RunOf
  <2> QED BY <2>3, Zenon DEF r
<1>2. ASSUME NEW sps, NEW spp, NEW stag, NEW etag, engine # "prototype",
             etag \in {PROTOTYPE_ENGINE_TAG, DCTLS_ENGINE_TAG} <=> engine # "2pc",
             spp.server_cert_hash = cert, spp.established_at = at,
             r = DctlsRun(ctx, rand, Query, data, sps, spp, stag, etag)
      PROVE  RunOf(r, engine, ctx, rand, conn, at)
  <2> HIDE DEF r
  <2> QED BY <1>2, RunEvidence DEF RunOf
<1>3. CASE engine = "dctls"
  <2> DEFINE sps == [dvrf_exporter |-> <<"prototype-exporter/v1", ctx.session_id,
                                         rand>>,
                     session_nonce |-> <<"prototype-session-nonce/v1",
                                         ctx.session_id>>]
             spp == [server_cert_hash |-> cert, tls_version |-> TLSv1_3,
                     server_name |-> <<"prototype-server", ctx.session_id>>,
                     established_at |-> ctx.created_at]
             stag == "dx-dctls/prototype-statement/v1"
  <2>1. r = DctlsRun(ctx, rand, Query, data, sps, spp, stag, DCTLS_ENGINE_TAG)
    BY <1>3, Zenon DEF EngineRun, PrototypeDctlsEngine_execute_dctls
  <2>2. spp.server_cert_hash = cert /\ spp.established_at = at
    BY <1>3, Zenon
  <2> HIDE DEF sps, spp, stag, r
  <2>3. RunOf(r, engine, ctx, rand, conn, at)
    BY <1>0, <1>2, <1>3, <2>1, <2>2, Zenon
  <2> QED BY <2>3 DEF r
<1>4. ASSUME cap # Err
      PROVE  /\ cap.server_cert_hash = cert /\ cap.response = data
             /\ cap.established_at = at
  BY <1>4, Zenon DEF connect_and_capture
<1>5. CASE engine = "tls"
  <2> DEFINE sps == [dvrf_exporter |-> cap.dvrf_keying_material,
                     session_nonce |-> cap.nonce_keying_material]
             spp == [server_cert_hash |-> cap.server_cert_hash,
                     tls_version |-> cap.tls_version,
                     server_name |-> cap.server_name,
                     established_at |-> cap.established_at]
             stag == "dx-dctls/tls-engine/v1"
  <2>1. cap # Err /\ r = build_dctls_evidence(ctx, rand, Query, cap)
    BY <1>5, Zenon DEF EngineRun, TlsAttestationEngine_execute_dctls
  <2> HIDE DEF cap
  <2>2. r = DctlsRun(ctx, rand, Query, data, sps, spp, stag, DCTLS_ENGINE_TAG)
    BY <2>1, <1>4, Zenon DEF build_dctls_evidence
  <2>3. spp.server_cert_hash = cert /\ spp.established_at = at
    BY <2>1, <1>4, Zenon
  <2> HIDE DEF sps, spp, stag, r
  <2>4. RunOf(r, engine, ctx, rand, conn, at)
    BY <1>0, <1>2, <1>5, <2>2, <2>3, Zenon
  <2> QED BY <2>4 DEF r
<1>6. CASE engine = "2pc"
  <2> DEFINE c2 == capture_for_2pc("host", conn, Query, rand, at)
             ps == TlsSessionParams(cap)
             exp == derive_2pc_dvrf_exporter(HbSignature(ctx.session_id, rand, ps))
             sps == [dvrf_exporter |-> exp, session_nonce |-> ps.session_nonce]
             spp == [server_cert_hash |-> ps.server_cert_hash,
                     tls_version |-> ps.tls_version,
                     server_name |-> ps.server_name,
                     established_at |-> ps.established_at]
             tag == "dx-dctls/handshake-2pc/v1"
  <2>1. c2 # Err /\ r = build_evidence_2pc(ctx, rand, Query, c2.params, c2.response,
                          derive_2pc_dvrf_exporter(
                            HbSignature(ctx.session_id, rand, c2.params)))
    BY <1>6, Zenon DEF EngineRun
  <2>2. cap # Err /\ c2 = [params |-> ps, response |-> cap.response]
    BY <2>1, Zenon DEF capture_for_2pc
  <2>3. c2.params = ps /\ c2.response = data
    BY <2>2, <1>4
  <2> HIDE DEF c2, cap
  <2>4. r = DctlsRun(ctx, rand, Query, data, sps, spp, tag, tag)
    BY <2>1, <2>3, Zenon DEF build_evidence_2pc
  <2>5. spp.server_cert_hash = cert /\ spp.established_at = at
    BY <2>2, <1>4, Zenon DEF TlsSessionParams
  <2> HIDE DEF sps, spp, r
  <2>6. RunOf(r, engine, ctx, rand, conn, at)
    BY <1>0, <1>2, <1>6, <2>4, <2>5, Zenon
  <2> QED BY <2>6 DEF r
<1> QED BY <1>1, <1>3, <1>5, <1>6, Zenon

\* What VerificationPolicy::check says of a package comes down to the expiry,
\* the duration and the engine.
PackageVerdict(pkg, st, engine, ctx, rand, now) ==
  /\ pkg.randomness_value = rand
  /\ check(permissive, pkg, st, now)
       <=> /\ now <= ctx.expires_at
           /\ ctx.expires_at - ctx.created_at <= MaxSessionDuration
           /\ engine # "2pc"

\* The statement the coordinator makes of the data of an attempt.
StatementOf(st, ctx, rand, data) ==
  st = StatementPayload_new(data, "balance/v1",
         TranscriptCommitments_build(ctx.session_id, rand, Query,
                                     data).session_transcript_digest)

\* Every digest of a package and its statement is of what it should be, so
\* that nothing else decides.
LEMMA PackageChecked ==
  ASSUME NEW pkg, NEW engine, NEW ctx, NEW s, NEW rand, NEW data, NEW st,
         NEW now \in Int, SessionOf(ctx, s),
         PackageOf(pkg, engine, ctx, rand, data), StatementOf(st, ctx, rand, data)
  PROVE  PackageVerdict(pkg, st, engine, ctx, rand, now)
<1> DEFINE tc == TranscriptCommitments_build(ctx.session_id, rand, Query, data)
<1>1. PICK tag, bytes :
        /\ tag \in {PROTOTYPE_ENGINE_TAG, DCTLS_ENGINE_TAG} <=> engine # "2pc"
        /\ pkg = AttestationPackage_build(ctx, rand, tc,
                                          ExportableEvidence_new(tag, bytes))
  BY Zenon DEF PackageOf
<1> DEFINE ev == ExportableEvidence_new(tag, bytes)
<1>2. /\ ev.engine_tag = tag /\ ev.bytes = bytes
      /\ ev.evidence_digest = exportable_digest(tag, bytes)
  BY Zenon DEF ExportableEvidence_new
<1>3. tc.session_transcript_digest
        = session_transcript_digest(ctx.session_id, tc.query.digest,
                                    tc.response.digest)
  BY Zenon DEF TranscriptCommitments_build
<1>4. StatementPayload_verify_digest(st, tc.session_transcript_digest)
  BY Zenon DEF StatementPayload_verify_digest, StatementPayload_new, StatementOf
<1>5. /\ permissive.allowed_engine_tags = {PROTOTYPE_ENGINE_TAG, DCTLS_ENGINE_TAG}
      /\ permissive.allowed_statement_tags = {}
      /\ permissive.max_session_duration = MaxSessionDuration
  BY Zenon DEF permissive
<1> HIDE DEF ev, tc
<1>6. /\ pkg.session_context = ctx /\ pkg.randomness_value = rand
      /\ pkg.transcript_commitments = tc /\ pkg.evidence = ev
      /\ pkg.package_digest = package_digest(ctx.session_digest, rand,
                                tc.session_transcript_digest, ev.evidence_digest)
  BY <1>1, Zenon DEF AttestationPackage_build, ev
<1>7. /\ ctx.created_at = 1 /\ ctx.expires_at \in Nat /\ ctx.expires_at > 1
      /\ ctx.session_digest
           = session_context_digest(ctx.session_id, ctx.prover_id,
               ctx.coordinator_id, ctx.quorum, ctx.epoch, ctx.created_at,
               ctx.expires_at, ctx.nonce)
  BY Zenon DEF SessionOf
<1>8. ~is_expired(ctx, now) <=> now <= ctx.expires_at
  BY <1>7 DEF is_expired, has_expired
<1>9. check(permissive, pkg, st, now)
        <=> /\ ~is_expired(ctx, now) /\ tag \in permissive.allowed_engine_tags
            /\ ctx.expires_at - ctx.created_at <= MaxSessionDuration
  BY <1>2, <1>3, <1>4, <1>5, <1>6, <1>7, Zenon DEF check
<1>10. check(permissive, pkg, st, now)
         <=> /\ now <= ctx.expires_at
             /\ ctx.expires_at - ctx.created_at <= MaxSessionDuration
             /\ engine # "2pc"
  BY <1>1, <1>5, <1>8, <1>9, Zenon
<1> QED BY <1>6, <1>10, Zenon DEF PackageVerdict

\* What the three proofs of a run hold.
PartsOf(ev, s, rand, cert, data, at) ==
  LET hsp == ev.hsp_proof
      qr == ev.query_record
      pgp == ev.pgp_proof
  IN /\ hsp.session_id = s /\ hsp.rand_value = rand /\ hsp.server_cert_hash = cert
     /\ hsp.engine_tag = DCTLS_ENGINE_TAG /\ hsp.zk_proof = None
     /\ hsp.established_at = at /\ hsp_consistent(hsp)
     /\ qr = QueryRecord_build(s, rand, Query, data)
     /\ pgp = PGPProof_generate(s, rand, qr, pgp.statement, hsp)
     /\ pgp.statement.statement_digest
          = pgp_statement_digest(pgp.statement.derivation_tag,
              qr.transcript_commitment, pgp.statement.content)

\* The evidence of a run has these parts.
LEMMA EvidenceParts ==
  ASSUME NEW ev, NEW s, NEW rand, NEW cert, NEW data, NEW at,
         EvidenceOf(ev, s, rand, cert, data, at)
  PROVE  PartsOf(ev, s, rand, cert, data, at)
<1> DEFINE qr == QueryRecord_build(s, rand, Query, data)
<1>1. PICK sps, spp, stag :
        /\ spp.server_cert_hash = cert /\ spp.established_at = at
        /\ ev = [hsp_proof |-> HSPProof_generate(s, rand, sps, spp),
                 query_record |-> qr,
                 pgp_proof |-> PGPProof_generate(s, rand, qr,
                                 Statement_derive("attested-session", stag,
                                                  qr.transcript_commitment),
                                 HSPProof_generate(s, rand, sps, spp))]
  BY Zenon DEF EvidenceOf
<1> DEFINE hsp == HSPProof_generate(s, rand, sps, spp)
           st == Statement_derive("attested-session", stag, qr.transcript_commitment)
<1>2. /\ hsp.session_id = s /\ hsp.rand_value = rand /\ hsp.server_cert_hash = cert
      /\ hsp.engine_tag = DCTLS_ENGINE_TAG /\ hsp.zk_proof = None
      /\ hsp.established_at = at
  BY <1>1, Zenon DEF HSPProof_generate
<1>3. hsp_consistent(hsp)
  BY Zenon DEF HSPProof_generate, hsp_consistent
<1>4. st.statement_digest
        = pgp_statement_digest(st.derivation_tag, qr.transcript_commitment, st.content)
  BY Zenon DEF Statement_derive
<1> HIDE DEF hsp, qr, st
<1>5. /\ ev.hsp_proof = hsp /\ ev.query_record = qr
      /\ ev.pgp_proof = PGPProof_generate(s, rand, qr, st, hsp)
  BY <1>1, Zenon DEF hsp, qr, st
<1>6. PGPProof_generate(s, rand, qr, st, hsp).statement = st
  BY Zenon DEF PGPProof_generate
<1> QED BY <1>2, <1>3, <1>4, <1>5, <1>6, Zenon DEF PartsOf, qr

\* verify_hsp_proof accepts the handshake of a run exactly for its randomness
\* and certificate, while it is not too old.
LEMMA HandshakeChecked ==
  ASSUME NEW ev, NEW s, NEW rand, NEW cert, NEW data, NEW at \in Nat \ {0},
         PartsOf(ev, s, rand, cert, data, at),
         NEW r2, NEW c2, NEW now \in Nat
  PROVE  verify_hsp_proof(ev.hsp_proof, r2, c2, now)
           <=> rand = r2 /\ cert = c2 /\ now - at <= HSP_PROOF_MAX_AGE
<1>1. now <= at + HSP_PROOF_MAX_AGE <=> now - at <= HSP_PROOF_MAX_AGE
  BY AtAssumption
<1> DEFINE hsp == ev.hsp_proof
<1>2. /\ hsp.rand_value = rand /\ hsp.server_cert_hash = cert
      /\ hsp.engine_tag = DCTLS_ENGINE_TAG /\ hsp.zk_proof = None
      /\ hsp.established_at = at /\ hsp_consistent(hsp)
  BY Zenon DEF PartsOf
<1> HIDE DEF hsp
<1>3. verify_hsp_proof(hsp, r2, c2, now)
        <=> rand = r2 /\ cert = c2 /\ now <= at + HSP_PROOF_MAX_AGE
  BY <1>2 DEF verify_hsp_proof
<1> QED BY <1>1, <1>3, Zenon DEF hsp

\* verify_query_record accepts the record of a run exactly for its response.
LEMMA QueryChecked ==
  ASSUME NEW s, NEW rand, NEW data, NEW d2
  PROVE  verify_query_record(QueryRecord_build(s, rand, Query, data), Query, d2)
           <=> data = d2
BY Zenon DEF verify_query_record, QueryRecord_build, qp_query_commitment,
       qp_response_commitment, qp_transcript

\* verify_pgp_proof accepts a statement proof exactly for its randomness.
LEMMA StatementChecked ==
  ASSUME NEW s, NEW rand, NEW qr, NEW st, NEW hsp, NEW r2,
         st.statement_digest
           = pgp_statement_digest(st.derivation_tag, qr.transcript_commitment,
                                  st.content)
  PROVE  verify_pgp_proof(PGPProof_generate(s, rand, qr, st, hsp), r2, hsp)
           <=> rand = r2
<1> DEFINE pgp == PGPProof_generate(s, rand, qr, st, hsp)
<1>1. /\ pgp.session_id = s /\ pgp.statement = st
      /\ pgp.pgp_commitment = pgp_commitment(s, rand, qr.transcript_commitment,
                                st.statement_digest, hsp.commitment)
      /\ pgp.hsp_proof_digest = proof_digest(hsp)
      /\ pgp.qp_transcript_commitment = qr.transcript_commitment
  BY Zenon DEF PGPProof_generate
<1> HIDE DEF pgp
<1>2. verify_pgp_proof(pgp, r2, hsp)
        <=> pgp_commitment(s, rand, qr.transcript_commitment,
                           st.statement_digest, hsp.commitment)
              = pgp_commitment(s, r2, qr.transcript_commitment,
                               st.statement_digest, hsp.commitment)
  BY <1>1, Zenon DEF verify_pgp_proof
<1>3. verify_pgp_proof(pgp, r2, hsp) <=> rand = r2
  BY <1>2, Zenon DEF pgp_commitment
<1> QED BY <1>3, Zenon DEF pgp

\* What the three checks of an evidence say for a verifier's randomness r2,
\* certificate c2 and data d2, and their cross-check.
EvidenceVerdict(ev, rand, cert, data, at, r2, c2, d2, now) ==
  /\ /\ verify_hsp_proof(ev.hsp_proof, r2, c2, now)
     /\ verify_query_record(ev.query_record, Query, d2)
     /\ verify_pgp_proof(ev.pgp_proof, r2, ev.hsp_proof)
     <=> /\ rand = r2 /\ cert = c2 /\ data = d2
         /\ now - at <= HSP_PROOF_MAX_AGE
  /\ verify_transcript_consistency(ev.hsp_proof, ev.query_record, ev.pgp_proof)

\* The evidence of one run passes exactly for what the run was of.
LEMMA EvidenceChecked ==
  ASSUME NEW ev, NEW s, NEW rand, NEW cert, NEW data, NEW at \in Nat \ {0},
         PartsOf(ev, s, rand, cert, data, at),
         NEW r2, NEW c2, NEW d2, NEW now \in Nat
  PROVE  EvidenceVerdict(ev, rand, cert, data, at, r2, c2, d2, now)
<1>1. verify_hsp_proof(ev.hsp_proof, r2, c2, now)
        <=> rand = r2 /\ cert = c2 /\ now - at <= HSP_PROOF_MAX_AGE
  BY HandshakeChecked, ZenonT(30)
<1> DEFINE hsp == ev.hsp_proof
           qr == ev.query_record
           pgp == ev.pgp_proof
<1>2. /\ hsp.session_id = s /\ hsp.rand_value = rand
      /\ qr = QueryRecord_build(s, rand, Query, data)
      /\ pgp = PGPProof_generate(s, rand, qr, pgp.statement, hsp)
      /\ pgp.statement.statement_digest
           = pgp_statement_digest(pgp.statement.derivation_tag,
               qr.transcript_commitment, pgp.statement.content)
  BY Zenon DEF PartsOf
<1> HIDE DEF hsp, qr, pgp
<1>3. verify_query_record(qr, Query, d2) <=> data = d2
  BY <1>2, QueryChecked, Zenon
<1>4. verify_pgp_proof(pgp, r2, hsp) <=> rand = r2
  <2>1. verify_pgp_proof(PGPProof_generate(s, rand, qr, pgp.statement, hsp), r2, hsp)
          <=> rand = r2
    BY <1>2, StatementChecked
  <2> QED BY <2>1, <1>2, Zenon
<1>5. verify_transcript_consistency(hsp, qr, pgp)
  <2>1. qr.session_id = s /\ qr.rand_value = rand
    BY <1>2, Zenon DEF QueryRecord_build
  <2>2. /\ pgp.session_id = s
        /\ pgp.qp_transcript_commitment = qr.transcript_commitment
        /\ pgp.hsp_proof_digest = proof_digest(hsp)
    BY <1>2 DEF PGPProof_generate
  <2> QED BY <1>2, <2>1, <2>2, Zenon DEF verify_transcript_consistency
<1> QED BY <1>1, <1>3, <1>4, <1>5, Zenon DEF hsp, qr, pgp, EvidenceVerdict

---------------------------------------------------------------------------
(* The attempts kept, and the checks on what is put together from them.    *)

\* The attempts kept are those of runs under the randomness of their sessions.
AttemptOf(x) ==
  /\ x.s \in AtSessions /\ x.D \in DvrfSets /\ x.at \in Nat \ {0}
  /\ dvrfs[<<x.s, x.D>>] # Err
  /\ LET rand == dvrfs[<<x.s, x.D>>].value
         data == Conns[x.c].chunks
     IN /\ PackageOf(x.pkg, x.engine, ctxs[x.s], rand, data)
        /\ StatementOf(x.st, ctxs[x.s], rand, data)
        /\ x.ev # Err =>
             EvidenceOf(x.ev, x.s, rand, cert_hash(Conns[x.c].cert), data, x.at)

\* Sessions and DVRF outputs stay what they were at the start.
SessionsInv ==
  /\ clock \in Nat \ {0}
  /\ \A s \in AtSessions : SessionOf(ctxs[s], s)
  /\ \A s \in AtSessions, D \in DvrfSets :
       dvrfs[<<s, D>>] # Err =>
         DvrfOutputOf(dvrfs[<<s, D>>], for_session(ctxs[s]), D)

\* The inductive invariant.
AtInv == SessionsInv /\ \A x \in attempts : AttemptOf(x)

\* Sessions are opened and the DVRF evaluated before the first attempt.
LEMMA AtStart == AtInit => AtInv
<1> SUFFICES ASSUME AtInit PROVE AtInv
  BY Zenon
<1>1. PICK ttl \in Ttls : ctxs = [s \in AtSessions |-> NewContext(s, ttl[s], 1)]
  BY Zenon DEF AtInit
<1>2. ASSUME NEW s \in AtSessions PROVE SessionOf(ctxs[s], s)
  <2>1. ttl[s] \in Nat
    BY AtAssumption, Zenon
  <2> QED BY <1>1, <2>1, NewSession, Zenon
<1>3. ASSUME NEW s \in AtSessions, NEW D \in DvrfSets, dvrfs[<<s, D>>] # Err
      PROVE  DvrfOutputOf(dvrfs[<<s, D>>], for_session(ctxs[s]), D)
  <2>1. dvrfs[<<s, D>>]
          = DvRF_evaluate(AtDealer.group_key, for_session(ctxs[s]),
              [i \in DOMAIN D |-> AtDealer.participants[D[i]]])
    BY Zenon DEF AtInit
  <2> QED BY <1>3, <2>1, DvrfOutput, Zenon
<1>4. clock = 1 /\ attempts = {}
  BY Zenon DEF AtInit
<1> QED BY <1>2, <1>3, <1>4 DEF AtInv, SessionsInv

\* Every step keeps the attempts those of runs.
LEMMA AttemptsKept ==
  ASSUME AtInv, [AtNext]_atvars
  PROVE  AtInv'
<1>1. /\ UNCHANGED <<ctxs, dvrfs>> /\ clock' \in Nat \ {0}
  <2>1. ASSUME NEW s, NEW D, NEW e, NEW c, Execute(s, D, e, c)
        PROVE  UNCHANGED <<ctxs, dvrfs, clock>>
    BY <2>1, Zenon DEF Execute
  <2>2. ASSUME NEW kind, NEW s, NEW D, NEW c, NEW claim, NEW fresh,
               GenerateDx(kind, s, D, c, claim, fresh)
        PROVE  UNCHANGED <<ctxs, dvrfs, clock>>
    BY <2>2, Zenon DEF GenerateDx
  <2>3. CASE Tick
    BY <2>3 DEF Tick, AtInv, SessionsInv
  <2>4. CASE UNCHANGED atvars
    BY <2>4, Zenon DEF atvars, AtInv, SessionsInv
  <2> QED BY <2>1, <2>2, <2>3, <2>4, Zenon DEF AtNext, AtInv, SessionsInv
<1>2. SessionsInv'
  BY <1>1 DEF AtInv, SessionsInv, SessionOf, DvrfOutputOf
<1>a. ASSUME NEW x, AttemptOf(x) PROVE AttemptOf(x)'
  BY <1>1, <1>a, Zenon DEF AttemptOf
<1>3. \A x \in attempts : AttemptOf(x)'
  BY <1>a, Zenon DEF AtInv
<1>4. ASSUME NEW s \in AtSessions, NEW D \in DvrfSets, NEW c \in DOMAIN Conns,
             NEW e \in {"prototype", "dctls", "tls", "2pc"}, Execute(s, D, e, c)
      PROVE  \A x \in attempts' : AttemptOf(x)'
  <2> DEFINE rand == dvrfs[<<s, D>>].value
             at == IF e \in {"tls", "2pc"} THEN clock ELSE ctxs[s].created_at
             r == EngineRun(e, ctxs[s], rand, Conns[c], at)
             n == [s |-> s, D |-> D, engine |-> e, c |-> c, at |-> at,
                   pkg |-> AttestationPackage_build(ctxs[s], rand, r.tc, r.evidence),
                   st |-> StatementPayload_new(Conns[c].chunks, "balance/v1",
                                               r.tc.session_transcript_digest),
                   ev |-> IF e = "prototype" THEN Err ELSE r.dctls]
  <2>1. dvrfs[<<s, D>>] # Err /\ r # Err /\ attempts' = attempts \cup {n}
    BY <1>4, Zenon DEF Execute
  <2>2. SessionOf(ctxs[s], s) /\ clock \in Nat \ {0}
    BY Zenon DEF AtInv, SessionsInv
  <2>3. at \in Nat \ {0} /\ (e \notin {"tls", "2pc"} => at = ctxs[s].created_at)
    BY <2>2 DEF SessionOf
  <2> HIDE DEF at, rand
  <2>4. RunOf(r, e, ctxs[s], rand, Conns[c], at)
    BY <2>1, <2>3, EngineMakesRun, Zenon
  <2> HIDE DEF r
  <2>5. /\ n.s = s /\ n.D = D /\ n.engine = e /\ n.c = c /\ n.at = at
        /\ n.pkg = AttestationPackage_build(ctxs[s], rand, r.tc, r.evidence)
        /\ n.st = StatementPayload_new(Conns[c].chunks, "balance/v1",
                                       r.tc.session_transcript_digest)
        /\ n.ev # Err => e # "prototype" /\ n.ev = r.dctls
    BY Zenon
  <2> HIDE DEF n
  <2>6. PackageOf(n.pkg, e, ctxs[s], rand, Conns[c].chunks)
    BY <2>4, <2>5, Zenon DEF RunOf, PackageOf
  <2>7. StatementOf(n.st, ctxs[s], rand, Conns[c].chunks)
    BY <2>4, <2>5, Zenon DEF RunOf, StatementOf
  <2>8. n.ev # Err => EvidenceOf(n.ev, s, rand, cert_hash(Conns[c].cert),
                                 Conns[c].chunks, at)
    BY <2>2, <2>4, <2>5, Zenon DEF RunOf, SessionOf
  <2>9. AttemptOf(n)
    BY <2>1, <2>3, <2>5, <2>6, <2>7, <2>8, Zenon DEF AttemptOf, rand
  <2>10. PICK m : m = n
    BY Zenon
  <2>11. AttemptOf(m)'
    BY <2>9, <2>10, <1>a, Zenon
  <2> QED BY <1>3, <2>1, <2>10, <2>11, Zenon
<1>5. CASE UNCHANGED attempts
  BY <1>2, <1>3, <1>5, Zenon DEF AtInv
<1>6. ASSUME NEW kind, NEW s, NEW D, NEW c, NEW claim, NEW fresh,
             GenerateDx(kind, s, D, c, claim, fresh)
      PROVE  UNCHANGED attempts
  BY <1>6, Zenon DEF GenerateDx
<1>7. CASE Tick
  BY <1>5, <1>7, Zenon DEF Tick
<1>8. CASE UNCHANGED atvars
  BY <1>5, <1>8, Zenon DEF atvars
<1> QED BY <1>2, <1>4, <1>5, <1>6, <1>7, <1>8, Zenon DEF AtNext, AtInv

\* The DVRF input names the session.
LEMMA InputNamesSession ==
  ASSUME SessionsInv, NEW s \in AtSessions, NEW t \in AtSessions
  PROVE  for_session(ctxs[s]) = for_session(ctxs[t]) <=> s = t
<1>1. /\ for_session(ctxs[s])
           = <<"dvrf-input/v1", s, "prover", <<"nonce", s>>, 0, AtQuorum>>
      /\ for_session(ctxs[t])
           = <<"dvrf-input/v1", t, "prover", <<"nonce", t>>, 0, AtQuorum>>
  BY Zenon DEF SessionsInv, SessionOf
<1> HIDE DEF for_session
<1> QED BY <1>1

\* DvRF::verify accepts an output for its own session's input only.
LEMMA OutputChecked ==
  ASSUME SessionsInv, NEW s \in AtSessions, NEW t \in AtSessions,
         NEW D \in DvrfSets, dvrfs[<<t, D>>] # Err
  PROVE  DvRF_verify(for_session(ctxs[s]), dvrfs[<<t, D>>]) <=> s = t
<1> DEFINE out == dvrfs[<<t, D>>]
           alpha == for_session(ctxs[t])
<1>1. DvrfOutputOf(out, alpha, D)
  BY Zenon DEF SessionsInv
<1> HIDE DEF out, alpha
<1>2. PICK commits :
        LET sig == [key |-> "at", pkg |-> SigningPackage(commits, alpha)]
        IN /\ out.value = dvrf_output(sig)
           /\ out.proof.signature = sig
           /\ out.proof.group_key = "at"
           /\ out.proof.alpha = alpha
  BY <1>1, Zenon DEF DvrfOutputOf
<1>3. VerifyingKeyVerifies(out.proof.group_key, alpha, out.proof.signature)
  BY <1>2 DEF VerifyingKeyVerifies, SigningPackage
<1>4. DvRF_verify(for_session(ctxs[s]), out) <=> for_session(ctxs[s]) = alpha
  BY <1>2, <1>3, Zenon DEF DvRF_verify
<1>5. for_session(ctxs[s]) = alpha <=> s = t
  BY InputNamesSession, Zenon DEF alpha
<1> QED BY <1>4, <1>5, Zenon DEF out

\* Different sessions or participants have different randomness.
LEMMA RandomnessNames ==
  ASSUME SessionsInv, NEW s \in AtSessions, NEW t \in AtSessions,
         NEW D \in DvrfSets, NEW E \in DvrfSets,
         dvrfs[<<s, D>>] # Err, dvrfs[<<t, E>>] # Err
  PROVE  dvrfs[<<s, D>>].value = dvrfs[<<t, E>>].value <=> s = t /\ D = E
<1> SUFFICES ASSUME dvrfs[<<s, D>>].value = dvrfs[<<t, E>>].value
             PROVE  s = t /\ D = E
  BY Zenon
<1> DEFINE a == for_session(ctxs[s])
           b == for_session(ctxs[t])
<1>1. DvrfOutputOf(dvrfs[<<s, D>>], a, D) /\ DvrfOutputOf(dvrfs[<<t, E>>], b, E)
  BY Zenon DEF SessionsInv
<1>2. a = b <=> s = t
  BY InputNamesSession, Zenon
<1> HIDE DEF a, b
<1>3. PICK f : /\ DOMAIN f = Range(D)
               /\ dvrfs[<<s, D>>].value
                    = dvrf_output([key |-> "at", pkg |-> SigningPackage(f, a)])
  BY <1>1, Zenon DEF DvrfOutputOf
<1>4. PICK g : /\ DOMAIN g = Range(E)
               /\ dvrfs[<<t, E>>].value
                    = dvrf_output([key |-> "at", pkg |-> SigningPackage(g, b)])
  BY <1>1, Zenon DEF DvrfOutputOf
<1>5. dvrf_output([key |-> "at", pkg |-> SigningPackage(f, a)])
        = dvrf_output([key |-> "at", pkg |-> SigningPackage(g, b)])
  BY <1>3, <1>4, Zenon
<1>6. [key |-> "at", pkg |-> SigningPackage(f, a)]
        = [key |-> "at", pkg |-> SigningPackage(g, b)]
  BY <1>5, Zenon DEF dvrf_output
<1>7. SigningPackage(f, a) = SigningPackage(g, b)
  BY <1>6, Zenon
<1>8. f = g /\ a = b
  BY <1>7, Zenon DEF SigningPackage
<1> QED BY <1>2, <1>3, <1>4, <1>8, AtAssumption, Zenon

\* The randomness of an attempt tells its session and participants.
LEMMA AttemptRandomness ==
  ASSUME AtInv, NEW x \in attempts,
         NEW t \in AtSessions, NEW D \in DvrfSets, dvrfs[<<t, D>>] # Err
  PROVE  dvrfs[<<x.s, x.D>>].value = dvrfs[<<t, D>>].value <=> x.s = t /\ x.D = D
<1>1. /\ x.s \in AtSessions /\ x.D \in DvrfSets
      /\ dvrfs[<<x.s, x.D>>] # Err /\ SessionsInv
  BY Zenon DEF AtInv, AttemptOf
<1> QED BY <1>1, RandomnessNames, SMT

\* The times a verifier checks at are integers.
LEMMA ClockIsInt ==
  ASSUME AtInv
  PROVE  clock \in Nat /\ \A now \in {clock - 1, clock} : now \in Int
<1>1. clock \in Nat \ {0}
  BY Zenon DEF AtInv, SessionsInv
<1> QED BY ONLY <1>1, SMT

\* The parts of an attempt's evidence.
LEMMA AttemptParts ==
  ASSUME AtInv, NEW x \in attempts, x.ev # Err
  PROVE  PartsOf(x.ev, x.s, dvrfs[<<x.s, x.D>>].value, cert_hash(Conns[x.c].cert),
                 Conns[x.c].chunks, x.at)
<1>1. EvidenceOf(x.ev, x.s, dvrfs[<<x.s, x.D>>].value, cert_hash(Conns[x.c].cert),
                 Conns[x.c].chunks, x.at)
  BY Zenon DEF AtInv, AttemptOf
<1> QED BY <1>1, EvidenceParts

\* The first half of FullApprovalMatchesView: what check_full approves.
LEMMA FullCheck ==
  ASSUME AtInv, NEW a \in attempts, NEW b \in attempts, b.ev # Err,
         NEW t \in AtSessions, NEW D \in DvrfSets, dvrfs[<<t, D>>] # Err,
         NEW mine, NEW s \in AtSessions, NEW now \in Int
  PROVE  check_full(permissive, a.pkg, a.st, b.ev, dvrfs[<<t, D>>],
                    for_session(ctxs[s]), cert_hash(mine.cert), Query,
                    mine.chunks, now, clock)
         <=> /\ a.s = s /\ b.s = s /\ t = s /\ a.D = D /\ b.D = D
             /\ Conns[b.c].cert = mine.cert /\ Conns[b.c].chunks = mine.chunks
             /\ now <= ctxs[a.s].expires_at
             /\ ctxs[a.s].expires_at - ctxs[a.s].created_at <= MaxSessionDuration
             /\ clock - b.at <= HSP_PROOF_MAX_AGE /\ a.engine # "2pc"
<1> DEFINE V(x) == dvrfs[<<x.s, x.D>>].value
           out == dvrfs[<<t, D>>]
           in_time == /\ now <= ctxs[a.s].expires_at
                      /\ ctxs[a.s].expires_at - ctxs[a.s].created_at
                           <= MaxSessionDuration
<1>1. /\ AttemptOf(a) /\ AttemptOf(b) /\ SessionsInv /\ clock \in Nat
  BY Zenon DEF AtInv, SessionsInv
<1>2. /\ a.pkg.randomness_value = V(a)
      /\ check(permissive, a.pkg, a.st, now) <=> in_time /\ a.engine # "2pc"
  <2>1. SessionOf(ctxs[a.s], a.s)
    BY <1>1, Zenon DEF AttemptOf, SessionsInv
  <2>2. /\ PackageOf(a.pkg, a.engine, ctxs[a.s], V(a), Conns[a.c].chunks)
        /\ StatementOf(a.st, ctxs[a.s], V(a), Conns[a.c].chunks)
    BY <1>1, Zenon DEF AttemptOf
  <2> HIDE DEF V
  <2>3. PackageVerdict(a.pkg, a.st, a.engine, ctxs[a.s], V(a), now)
    BY <2>1, <2>2, PackageChecked, Zenon
  <2> QED BY <2>3, Zenon DEF PackageVerdict
<1>3. DvRF_verify(for_session(ctxs[s]), out) <=> s = t
  BY <1>1, OutputChecked, Zenon
<1>4. /\ /\ verify_hsp_proof(b.ev.hsp_proof, out.value, cert_hash(mine.cert), clock)
         /\ verify_query_record(b.ev.query_record, Query, mine.chunks)
         /\ verify_pgp_proof(b.ev.pgp_proof, out.value, b.ev.hsp_proof)
         <=> /\ V(b) = out.value /\ cert_hash(Conns[b.c].cert) = cert_hash(mine.cert)
             /\ Conns[b.c].chunks = mine.chunks
             /\ clock - b.at <= HSP_PROOF_MAX_AGE
      /\ verify_transcript_consistency(b.ev.hsp_proof, b.ev.query_record,
                                       b.ev.pgp_proof)
  <2>1. PartsOf(b.ev, b.s, V(b), cert_hash(Conns[b.c].cert), Conns[b.c].chunks, b.at)
    BY AttemptParts, Zenon
  <2>2. b.at \in Nat \ {0}
    BY <1>1, Zenon DEF AttemptOf
  <2> HIDE DEF V
  <2>3. EvidenceVerdict(b.ev, V(b), cert_hash(Conns[b.c].cert), Conns[b.c].chunks,
                        b.at, out.value, cert_hash(mine.cert), mine.chunks, clock)
    BY <1>1, <2>1, <2>2, EvidenceChecked
  <2> QED BY <2>3, Zenon DEF EvidenceVerdict
<1>5. V(a) = out.value <=> a.s = t /\ a.D = D
  BY AttemptRandomness, SMT
<1>6. V(b) = out.value <=> b.s = t /\ b.D = D
  BY AttemptRandomness, SMT
<1>7. cert_hash(Conns[b.c].cert) = cert_hash(mine.cert) <=> Conns[b.c].cert = mine.cert
  BY Zenon DEF cert_hash
<1> HIDE DEF V, out, in_time
<1>8. check_full(permissive, a.pkg, a.st, b.ev, out, for_session(ctxs[s]),
                 cert_hash(mine.cert), Query, mine.chunks, now, clock)
      <=> /\ check(permissive, a.pkg, a.st, now)
          /\ DvRF_verify(for_session(ctxs[s]), out)
          /\ verify_hsp_proof(b.ev.hsp_proof, out.value, cert_hash(mine.cert), clock)
          /\ verify_query_record(b.ev.query_record, Query, mine.chunks)
          /\ verify_pgp_proof(b.ev.pgp_proof, out.value, b.ev.hsp_proof)
          /\ a.pkg.randomness_value = out.value
          /\ verify_transcript_consistency(b.ev.hsp_proof, b.ev.query_record,
                                           b.ev.pgp_proof)
  BY Zenon DEF check_full
<1> QED
  BY <1>2, <1>3, <1>4, <1>5, <1>6, <1>7, <1>8, Zenon DEF out, in_time

\* The second half: evidence assembled from the handshake of one attempt and
\* the record of another.
LEMMA AssembledCheck ==
  ASSUME AtInv, NEW a \in attempts, NEW b \in attempts, a.ev # Err, b.ev # Err,
         NEW t \in AtSessions, NEW D \in DvrfSets, dvrfs[<<t, D>>] # Err, NEW mine
  PROVE  LET ev == Assembled(a, b)
             rand == dvrfs[<<t, D>>].value
             whole == /\ a.s = t /\ a.D = D /\ b.s = t /\ b.D = D
                      /\ Conns[a.c].cert = mine.cert
                      /\ Conns[b.c].chunks = mine.chunks
                      /\ clock - a.at <= HSP_PROOF_MAX_AGE
         IN /\ verify_all(ev, rand, cert_hash(mine.cert), Query, mine.chunks, clock)
                 <=> whole
            /\ BackendAccepts(ev, rand, mine) <=> whole
<1> DEFINE V(x) == dvrfs[<<x.s, x.D>>].value
           C(x) == cert_hash(Conns[x.c].cert)
           T(x) == Conns[x.c].chunks
           ev == Assembled(a, b)
           rand == dvrfs[<<t, D>>].value
           hsp == a.ev.hsp_proof
           qr == b.ev.query_record
           st == b.ev.pgp_proof.statement
           pgp == PGPProof_generate(b.s, V(b), qr, st, hsp)
<1>1. /\ AttemptOf(a) /\ AttemptOf(b) /\ SessionsInv /\ clock \in Nat
      /\ a.at \in Nat \ {0}
  BY Zenon DEF AtInv, SessionsInv, AttemptOf
<1>2. /\ PartsOf(a.ev, a.s, V(a), C(a), T(a), a.at)
      /\ PartsOf(b.ev, b.s, V(b), C(b), T(b), b.at)
  BY AttemptParts, Zenon
<1>3. /\ V(a) = rand <=> a.s = t /\ a.D = D
      /\ V(b) = rand <=> b.s = t /\ b.D = D
  BY AttemptRandomness, SMT
<1>4. C(a) = cert_hash(mine.cert) <=> Conns[a.c].cert = mine.cert
  BY Zenon DEF cert_hash
<1> HIDE DEF V, C, T, rand
<1>5. /\ hsp.session_id = a.s /\ hsp.rand_value = V(a)
      /\ qr = QueryRecord_build(b.s, V(b), Query, T(b))
      /\ st.statement_digest
           = pgp_statement_digest(st.derivation_tag, qr.transcript_commitment,
                                  st.content)
  BY <1>2, Zenon DEF PartsOf
<1>6. qr.session_id = b.s /\ qr.rand_value = V(b)
  <2> HIDE DEF qr
  <2> QED BY <1>5, Zenon DEF QueryRecord_build
<1>7. ev.hsp_proof = hsp /\ ev.query_record = qr /\ ev.pgp_proof = pgp
  <2>1. PICK h, q, g : a.ev = [hsp_proof |-> h, query_record |-> q, pgp_proof |-> g]
    BY <1>1, Zenon DEF AttemptOf, EvidenceOf
  <2>2. ev = [a.ev EXCEPT !.query_record = qr,
                          !.pgp_proof = PGPProof_generate(qr.session_id,
                                          qr.rand_value, qr, st, hsp)]
    BY Zenon DEF Assembled, CommitmentBackend_prove_pgp
  <2>3. ev = [a.ev EXCEPT !.query_record = qr, !.pgp_proof = pgp]
    BY <2>2, <1>6, Zenon
  <2> HIDE DEF ev, qr, pgp
  <2>4. hsp = h
    BY <2>1
  <2>5. ev = [[hsp_proof |-> h, query_record |-> q, pgp_proof |-> g] EXCEPT
                !.query_record = qr, !.pgp_proof = pgp]
    BY <2>1, <2>3, Zenon
  <2>6. ev = [hsp_proof |-> h, query_record |-> qr, pgp_proof |-> pgp]
    BY <2>5, Zenon
  <2> QED BY <2>4, <2>6, Zenon
<1> HIDE DEF ev
<1>8. verify_hsp_proof(hsp, rand, cert_hash(mine.cert), clock)
        <=> /\ V(a) = rand /\ C(a) = cert_hash(mine.cert)
            /\ clock - a.at <= HSP_PROOF_MAX_AGE
  <2> DEFINE cert == cert_hash(mine.cert)
  <2> HIDE DEF cert
  <2>1. verify_hsp_proof(a.ev.hsp_proof, rand, cert, clock)
          <=> V(a) = rand /\ C(a) = cert /\ clock - a.at <= HSP_PROOF_MAX_AGE
    <3>1. /\ PartsOf(a.ev, a.s, V(a), C(a), T(a), a.at)
          /\ a.at \in Nat \ {0} /\ clock \in Nat
      BY <1>1, <1>2, Zenon
    <3> QED BY ONLY <3>1, HandshakeChecked, ZenonT(30)
  <2> QED BY <2>1, Zenon DEF cert
<1>9. verify_query_record(qr, Query, mine.chunks) <=> T(b) = mine.chunks
  <2> HIDE DEF qr
  <2> QED BY <1>5, QueryChecked
<1>10. verify_pgp_proof(pgp, rand, hsp) <=> V(b) = rand
  <2> HIDE DEF qr, st, hsp
  <2>1. st.statement_digest
          = pgp_statement_digest(st.derivation_tag, qr.transcript_commitment,
                                 st.content)
    BY <1>5, Zenon
  <2> QED BY ONLY <2>1, StatementChecked, SMTT(30)
<1>11. V(a) = V(b) /\ a.s = b.s => verify_transcript_consistency(hsp, qr, pgp)
  <2>1. /\ pgp.session_id = b.s
        /\ pgp.qp_transcript_commitment = qr.transcript_commitment
        /\ pgp.hsp_proof_digest = proof_digest(hsp)
    BY Zenon DEF PGPProof_generate
  <2> HIDE DEF pgp, qr, hsp
  <2> QED BY <1>5, <1>6, <2>1, Zenon DEF verify_transcript_consistency
<1> HIDE DEF hsp, qr, pgp
<1>12. verify_all(ev, rand, cert_hash(mine.cert), Query, mine.chunks, clock)
         <=> /\ verify_hsp_proof(hsp, rand, cert_hash(mine.cert), clock)
             /\ verify_query_record(qr, Query, mine.chunks)
             /\ verify_pgp_proof(pgp, rand, hsp)
             /\ verify_transcript_consistency(hsp, qr, pgp)
  BY <1>7, Zenon DEF verify_all
<1>13. BackendAccepts(ev, rand, mine)
         <=> /\ verify_hsp_proof(hsp, rand, cert_hash(mine.cert), clock)
             /\ verify_query_record(qr, Query, mine.chunks)
             /\ verify_pgp_proof(pgp, rand, hsp)
  BY <1>7, Zenon DEF BackendAccepts, CommitmentBackend_verify_session_params,
              CommitmentBackend_verify_query_response, CommitmentBackend_verify_pgp
<1> DEFINE whole == /\ a.s = t /\ a.D = D /\ b.s = t /\ b.D = D
                    /\ Conns[a.c].cert = mine.cert /\ T(b) = mine.chunks
                    /\ clock - a.at <= HSP_PROOF_MAX_AGE
<1>14. verify_all(ev, rand, cert_hash(mine.cert), Query, mine.chunks, clock) <=> whole
  BY <1>3, <1>4, <1>8, <1>9, <1>10, <1>11, <1>12, Zenon
<1>15. BackendAccepts(ev, rand, mine) <=> whole
  BY <1>3, <1>4, <1>8, <1>9, <1>10, <1>13, Zenon
<1> QED BY <1>14, <1>15, Zenon DEF ev, rand, T

\* The invariant gives the property.
LEMMA FullApproval ==
  ASSUME AtInv
  PROVE  FullApprovalMatchesView
<1> USE DEF FullApprovalMatchesView
<1> TAKE a, b \in attempts
<1> TAKE t \in AtSessions
<1> TAKE D \in DvrfSets
<1> TAKE c \in {x.c : x \in attempts}
<1> DEFINE mine == Conns[c]
           whole == /\ a.s = t /\ a.D = D /\ b.s = t /\ b.D = D
                    /\ Conns[a.c].cert = mine.cert
                    /\ Conns[b.c].chunks = mine.chunks
                    /\ clock - a.at <= HSP_PROOF_MAX_AGE
           accepted == verify_all(Assembled(a, b), dvrfs[<<t, D>>].value,
                         cert_hash(mine.cert), Query, mine.chunks, clock)
<1>1. ASSUME dvrfs[<<t, D>>] # Err, b.ev # Err,
             NEW s \in AtSessions, NEW now \in {clock - 1, clock}
      PROVE  Approves(a, b, t, D, s, c, now)
             <=> /\ a.s = s /\ b.s = s /\ t = s /\ a.D = D /\ b.D = D
                 /\ Conns[b.c].cert = mine.cert /\ Conns[b.c].chunks = mine.chunks
                 /\ now <= ctxs[a.s].expires_at
                 /\ ctxs[a.s].expires_at - ctxs[a.s].created_at <= MaxSessionDuration
                 /\ clock - b.at <= HSP_PROOF_MAX_AGE /\ a.engine # "2pc"
  <2>1. now \in Int
    BY <1>1, ClockIsInt, Zenon
  <2> HIDE DEF mine
  <2> QED BY <1>1, <2>1, FullCheck, Zenon DEF Approves, mine
<1>2. ASSUME dvrfs[<<t, D>>] # Err, a.ev # Err, b.ev # Err
      PROVE  /\ accepted <=> BackendAccepts(Assembled(a, b), dvrfs[<<t, D>>].value,
                                            mine)
             /\ accepted <=> whole
  <2> HIDE DEF mine
  <2>1. /\ accepted <=> whole
        /\ BackendAccepts(Assembled(a, b), dvrfs[<<t, D>>].value, mine) <=> whole
    BY <1>2, AssembledCheck, Zenon
  <2> HIDE DEF accepted, whole
  <2> QED BY <2>1, Zenon
<1> QED BY ONLY <1>1, <1>2, Zenon

\* check_full approves a package, its statement, an evidence and a DVRF output
\* exactly if they are of one session and randomness, of the verifier's own view
\* of the connection and in time; evidence assembled from two runs verifies
\* exactly if both halves match that view.
THEOREM FullApprovalsMatchTheView == AtSpec => []FullApprovalMatchesView
<1>1. AtInit => AtInv
  BY AtStart, Zenon
<1>2. AtInv /\ [AtNext]_atvars => AtInv'
  BY AttemptsKept
<1>3. AtInv => FullApprovalMatchesView
  BY FullApproval
<1> QED BY <1>1, <1>2, <1>3, PTL DEF AtSpec
=============================================================================
