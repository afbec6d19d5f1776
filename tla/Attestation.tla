---------------------------- MODULE Attestation ----------------------------
(***************************************************************************)
(* Evidence in flight.  Engines are run for several sessions and run again *)
(* after a failure, each time with another response, connection or set of  *)
(* DVRF participants.  A verifier later holds a package, a statement, a    *)
(* dx-DCTLS evidence and a DVRF output that need not come from the same    *)
(* attempt, and decides with its own view of the session whether to        *)
(* approve.  Likewise for the parts of a DECO or DiStefano proof.          *)
(***************************************************************************)
EXTENDS Verification, DxDctls

CONSTANTS
  AtSessions,    \* session identifiers
  Ttls,          \* the lifetimes sessions are opened with: session -> time
  Conns,         \* name -> what one TLS connection does (see Engines)
  DxConns,       \* likewise, the connections of DECO and DiStefano runs
  Claims,        \* the statements such a run may disclose
  Fresh,         \* what is drawn or received anew in such a run: the
                 \* randomness of a Groth16 proof, the tag of a server
  DvrfSets,      \* the participants a DVRF evaluation may use
  MaxClock,      \* bound on the clock
  MaxAttempts    \* bound on the attempts kept

VARIABLES
  clock,      \* the system time
  ctxs,       \* session -> its SessionContext
  dvrfs,      \* session, participants -> the DVRF output
  attempts,   \* the engine runs that succeeded, and what they made
  dxproofs    \* the DECO and DiStefano proofs generated

atvars == <<clock, ctxs, dvrfs, attempts, dxproofs>>

Query == "GET /"
AtVids == <<"v1", "v2", "v3">>
AtQuorum == QuorumSpec_new(AtVids, 2)
AtDealer == frost_trusted_dealer_keygen(AtVids, 2, "at")

\* Lifetimes and maximal ages are numbers of seconds, the set-up has succeeded,
\* and participants are always listed in the same order.
ASSUME AtAssumption ==
  /\ Ttls \subseteq [AtSessions -> Nat]
  /\ HSP_PROOF_MAX_AGE \in Nat /\ MaxSessionDuration \in Nat
  /\ AtDealer # Err
  /\ DvrfSets \subseteq Seq(1..3)
  /\ \A D, E \in DvrfSets : Range(D) = Range(E) => D = E

NewContext(s, ttl, now) ==
  SessionContext_new(s, "prover", "coordinator", AtQuorum, 0, now, now + ttl,
                     <<"nonce", s>>)

\* The signature of the handshake-binding round: every node answers.
HbSignature(s, rand, params) ==
  run_handshake_binding(s, compute_2pc_binding_input(s, rand, params),
    AtDealer.group_key, AtVids,
    [v \in Range(AtVids) |->
       AtDealer.participants[CHOOSE i \in 1..3 : AtVids[i] = v]])

\* One run of an engine on a connection that starts at time at.
EngineRun(engine, ctx, rand, conn, at) ==
  LET cap == capture_for_2pc("host", conn, Query, rand, at)
  IN CASE engine = "prototype" ->
            PrototypeAttestationEngine_execute(ctx, rand, Query, conn.chunks)
       [] engine = "dctls" ->
            PrototypeDctlsEngine_execute_dctls(ctx, rand, Query, conn.chunks,
                                               cert_hash(conn.cert))
       [] engine = "tls" ->
            TlsAttestationEngine_execute_dctls("host", conn, at, ctx, rand, Query)
       [] engine = "2pc" ->
            IF cap = Err THEN Err
            ELSE build_evidence_2pc(ctx, rand, Query, cap.params, cap.response,
                   derive_2pc_dvrf_exporter(
                     HbSignature(ctx.session_id, rand, cap.params)))

AtInit ==
  /\ clock = 1
  /\ ctxs \in {[s \in AtSessions |-> NewContext(s, ttl[s], 1)] : ttl \in Ttls}
  /\ dvrfs = [x \in AtSessions \X DvrfSets |->
                DvRF_evaluate(AtDealer.group_key, for_session(ctxs[x[1]]),
                  [i \in DOMAIN x[2] |-> AtDealer.participants[x[2][i]]])]
  /\ attempts = {}
  /\ dxproofs = {}

Tick ==
  /\ clock < MaxClock /\ clock' = clock + 1
  /\ UNCHANGED <<ctxs, dvrfs, attempts, dxproofs>>

\* An engine succeeds; the coordinator makes the package and the statement.
Execute(s, D, engine, c) ==
  LET rand == dvrfs[<<s, D>>].value
      at == IF engine \in {"tls", "2pc"} THEN clock ELSE ctxs[s].created_at
      r == EngineRun(engine, ctxs[s], rand, Conns[c], at)
  IN /\ dxproofs = {} /\ Cardinality(attempts) < MaxAttempts
     /\ dvrfs[<<s, D>>] # Err /\ r # Err
     /\ attempts' = attempts \cup
          {[s |-> s, D |-> D, engine |-> engine, c |-> c, at |-> at,
            pkg |-> AttestationPackage_build(ctxs[s], rand, r.tc, r.evidence),
            st |-> StatementPayload_new(Conns[c].chunks, "balance/v1",
                                        r.tc.session_transcript_digest),
            ev |-> IF engine = "prototype" THEN Err ELSE r.dctls]}
     /\ UNCHANGED <<clock, ctxs, dvrfs, dxproofs>>

\* A DECO or DiStefano run: handshake with randomness rand, then a query and
\* a statement.  The TLS 1.2 capture is where DECO's certificate comes from.
DxSession(kind, s, rand, conn, fresh) ==
  IF kind = "deco"
  THEN LET cap == Tls12Connector_connect("host", conn, clock)
       IN deco_hsp(s, rand, to_session_params_public(cap).server_cert_hash,
                   cap # Err, fresh)
  ELSE IF conn.opens /\ conn.version = TLSv1_3
       THEN distefano_hsp(s, rand,
              [transcript_hash |-> <<"th", conn.secret>>,
               dhe_secret |-> conn.secret, server_name |-> "host"],
              cert_hash(conn.cert), conn.version, clock)
       ELSE Err

DxProof(kind, session, conn, claim, fresh) ==
  IF kind = "deco"
  THEN deco_pgp(session, deco_qp(session, Query, conn.chunks), claim)
  ELSE distefano_pgp(session, distefano_qp(session, Query, conn.chunks, fresh),
                     claim)

DxVerify(kind, proof, rand, cert) ==
  IF kind = "deco" THEN verify_deco_dx_dctls(proof, rand, cert)
  ELSE verify_distefano_dx_dctls(proof, rand, cert)

GenerateDx(kind, s, D, c, claim, fresh) ==
  LET rand == dvrfs[<<s, D>>].value
      session == DxSession(kind, s, rand, DxConns[c], fresh)
  IN /\ attempts = {} /\ Cardinality(dxproofs) < MaxAttempts
     /\ \A q \in dxproofs : q.kind = kind
     /\ dvrfs[<<s, D>>] # Err /\ session # Err
     /\ dxproofs' = dxproofs \cup
          {[kind |-> kind, s |-> s, rand |-> rand, c |-> c, claim |-> claim,
            session |-> session,
            proof |-> DxProof(kind, session, DxConns[c], claim, fresh)]}
     /\ UNCHANGED <<clock, ctxs, dvrfs, attempts>>

AtNext ==
  \/ Tick
  \/ \E s \in AtSessions, D \in DvrfSets, c \in DOMAIN Conns :
       \E e \in {"prototype", "dctls", "tls", "2pc"} : Execute(s, D, e, c)
  \/ \E s \in AtSessions, D \in DvrfSets, c \in DOMAIN DxConns :
       \E kind \in {"deco", "distefano"}, claim \in Claims, fresh \in Fresh :
         GenerateDx(kind, s, D, c, claim, fresh)

AtSpec == AtInit /\ [][AtNext]_atvars

---------------------------------------------------------------------------

\* A prover that proves a statement about the record of run b with the
\* handshake of run a, through the commitment backend.
Assembled(a, b) ==
  [a.ev EXCEPT
     !.query_record = b.ev.query_record,
     !.pgp_proof = CommitmentBackend_prove_pgp(
                     a.s, dvrfs[<<a.s, a.D>>].value, b.ev.query_record,
                     b.ev.pgp_proof.statement, a.ev.hsp_proof)]

BackendAccepts(ev, rand, conn) ==
  /\ CommitmentBackend_verify_session_params(ev.hsp_proof, rand,
                                             cert_hash(conn.cert), clock)
  /\ CommitmentBackend_verify_query_response(ev.query_record, Query, conn.chunks)
  /\ CommitmentBackend_verify_pgp(ev.pgp_proof, rand, ev.hsp_proof)

\* check_full with the package and statement of attempt a, the evidence of
\* attempt b and the DVRF output of participants D for session t, by a verifier
\* of session s that saw connection c.
Approves(a, b, t, D, s, c, now) ==
  check_full(permissive, a.pkg, a.st, b.ev, dvrfs[<<t, D>>], for_session(ctxs[s]),
             cert_hash(Conns[c].cert), Query, Conns[c].chunks, now, clock)

\* check_full approves if and only if package, evidence and DVRF output are of
\* the verifier's session and of one randomness, the evidence is of the
\* certificate and the data of the connection the verifier saw, the session was
\* not expired when the request arrived and is no longer than the policy's
\* maximum, the handshake is not older than the proof's maximum age, and the
\* engine is one the policy names.  The connection of the package and of the
\* statement is not among the conditions (see StatementIsOfTheTranscript).
\* Evidence assembled from the handshake of one run and the record of another
\* verifies, for verify_all and for the backend's three checks alike, exactly if
\* both runs are of that session and randomness and each half matches the
\* verifier's own view: nothing else ties a record to a handshake.
FullApprovalMatchesView ==
  \A a, b \in attempts : \A t \in AtSessions : \A D \in DvrfSets :
  \A c \in {x.c : x \in attempts} :
    LET ctx == ctxs[a.s]
        mine == Conns[c]
        its == Conns[b.c]
        dvrf == dvrfs[<<t, D>>]
        ev == Assembled(a, b)
        fresh(x) == clock - x.at <= HSP_PROOF_MAX_AGE
    IN dvrf # Err =>
       /\ b.ev # Err =>
            \A s \in AtSessions, now \in {clock - 1, clock} :
              Approves(a, b, t, D, s, c, now)
              <=> /\ a.s = s /\ b.s = s /\ t = s /\ a.D = D /\ b.D = D
                  /\ its.cert = mine.cert /\ its.chunks = mine.chunks
                  /\ now <= ctx.expires_at
                  /\ ctx.expires_at - ctx.created_at <= MaxSessionDuration
                  /\ fresh(b) /\ a.engine # "2pc"
       /\ a.ev # Err /\ b.ev # Err =>
            LET accepted == verify_all(ev, dvrf.value, cert_hash(mine.cert), Query,
                                       mine.chunks, clock)
            IN /\ accepted <=> BackendAccepts(ev, dvrf.value, mine)
               /\ accepted <=> /\ a.s = t /\ a.D = D /\ b.s = t /\ b.D = D
                               /\ Conns[a.c].cert = mine.cert
                               /\ its.chunks = mine.chunks /\ fresh(a)

\* "Even if the coordinator is fully malicious, passing all 14 checks guarantees:
\* ... 4. The statement is correctly derived from the transcript." (check_full):
\* an approved statement is made from the response of the exchange that the
\* verifier saw and the evidence proves.
StatementIsOfTheTranscript ==
  \A a, b \in attempts : \A D \in DvrfSets : \A c \in {x.c : x \in attempts} :
    b.ev # Err /\ dvrfs[<<a.s, D>>] # Err /\ Approves(a, b, a.s, D, a.s, c, clock) =>
      a.st = StatementPayload_new(Conns[c].chunks, a.st.derivation_tag,
               TranscriptCommitments_build(a.s, a.pkg.randomness_value, Query,
                 Conns[c].chunks).session_transcript_digest)

---------------------------------------------------------------------------

\* What the digests of a DECO or DiStefano proof name of the run that made it:
\* of its handshake, and of its query record.
HandshakeId(p) ==
  <<p.s, p.rand, cert_hash(DxConns[p.c].cert),
    IF p.kind = "deco" THEN "" ELSE DxConns[p.c].secret>>
RecordId(p) ==
  <<p.s, DxConns[p.c].chunks, IF p.kind = "deco" THEN p.rand ELSE "">>

\* A DECO or DiStefano proof put together from the handshake, query record,
\* statement, proof digest and cross-binding of several runs is accepted if and
\* only if the handshake is of the expected randomness and certificate, one run
\* made this handshake with this record, and one run made this record with this
\* statement.  The two runs need not be the same; and neither the server's
\* authentication tag, nor the time of the handshake, nor the bytes of the
\* Groth16 proof has a part in it.  The MAC of a DECO record verifies with the key
\* of its handshake for its response only.
DxAcceptsMatchingRuns ==
  \A h, q, st, d, x, e \in dxproofs :
    LET proof == [pi_hsp |-> h.proof.pi_hsp,
                  query_record |-> q.proof.query_record,
                  statement |-> st.proof.statement,
                  proof_digest |-> d.proof.proof_digest,
                  cross_binding |-> x.proof.cross_binding]
        cert == cert_hash(DxConns[e.c].cert)
    IN /\ DxVerify(h.kind, proof, e.rand, cert) <=>
            /\ h.rand = e.rand /\ cert_hash(DxConns[h.c].cert) = cert
            /\ h.s = q.s
            /\ HandshakeId(x) = HandshakeId(h) /\ RecordId(x) = RecordId(q)
            /\ RecordId(d) = RecordId(q) /\ d.claim = st.claim
       /\ q.kind = "deco" =>
            \A c \in DOMAIN DxConns :
              deco_verify_mac(q.proof.query_record, q.session.spv.k_mac,
                              DxConns[c].chunks)
                <=> DxConns[c].chunks = DxConns[q.c].chunks
=============================================================================
