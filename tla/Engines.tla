------------------------------ MODULE Engines ------------------------------
(***************************************************************************)
(* The attestation engines: the prototype ones (attestation/src/engine.rs),*)
(* the one that makes a TLS connection (tls_engine.rs), its variant with a *)
(* threshold-signed exporter (tls_2pc.rs, node/src/handshake_binding.rs)   *)
(* and the TLS 1.2 session capture (tls12_session.rs).  Each turns a       *)
(* session, its randomness, a query and a response into transcript         *)
(* commitments and evidence.                                               *)
(*                                                                         *)
(* A connection is what rustls and the network do in one run:              *)
(*   opens      the name is valid and TCP, handshake and write succeed     *)
(*   version    the negotiated version, cert the leaf certificate or Err   *)
(*   chunks,end the data read and how reading ended: eof, timeout, error   *)
(*   secret     names the master secret; keylog what the KeyLog is told    *)
(*   raw        the bytes read from the socket                             *)
(***************************************************************************)
EXTENDS Dctls

TLSv1_2 == 771      \* 0x0303
TLSv1_3 == 772      \* 0x0304

ZeroDigest == <<"zero">>

---------------------------------------------------------------------------
(* Evidence and packages.                                                  *)

exportable_digest(tag, bytes) == <<"evidence/v1", tag, bytes>>

ExportableEvidence_new(tag, bytes) ==
  [engine_tag |-> tag, bytes |-> bytes,
   evidence_digest |-> exportable_digest(tag, bytes)]

package_digest(session_digest, rand, transcript_digest, ev_digest) ==
  <<"attestation-package/v1", session_digest, rand, transcript_digest, ev_digest>>

AttestationPackage_build(ctx, rand, tc, ev) ==
  [session_context |-> ctx, randomness_value |-> rand,
   transcript_commitments |-> tc, evidence |-> ev,
   package_digest |-> package_digest(ctx.session_digest, rand,
                        tc.session_transcript_digest, ev.evidence_digest)]

\* The dx-DCTLS evidence of one exchange: the three proofs over the same
\* session and randomness, exported under a tag.
DctlsRun(ctx, rand, query, response, sps, spp, statement_tag, engine_tag) ==
  LET sid == ctx.session_id
      hsp == HSPProof_generate(sid, rand, sps, spp)
      qr == QueryRecord_build(sid, rand, query, response)
      st == Statement_derive("attested-session", statement_tag,
                             qr.transcript_commitment)
      ev == [hsp_proof |-> hsp, query_record |-> qr,
             pgp_proof |-> PGPProof_generate(sid, rand, qr, st, hsp)]
  IN [tc |-> TranscriptCommitments_build(sid, rand, query, response),
      evidence |-> ExportableEvidence_new(engine_tag, ev), dctls |-> ev]

---------------------------------------------------------------------------
(* The prototype engines.                                                  *)

PROTOTYPE_ENGINE_TAG == "prototype-attestation/v1"

\* The evidence of the first holds the lengths, here the data itself is left
\* out, and the session.
PrototypeAttestationEngine_execute(ctx, rand, query, response) ==
  [tc |-> TranscriptCommitments_build(ctx.session_id, rand, query, response),
   evidence |-> ExportableEvidence_new(PROTOTYPE_ENGINE_TAG,
                                       <<"prototype", ctx.session_id>>)]

PrototypeDctlsEngine_execute_dctls(ctx, rand, query, response, cert) ==
  DctlsRun(ctx, rand, query, response,
    [dvrf_exporter |-> <<"prototype-exporter/v1", ctx.session_id, rand>>,
     session_nonce |-> <<"prototype-session-nonce/v1", ctx.session_id>>],
    [server_cert_hash |-> cert, tls_version |-> TLSv1_3,
     server_name |-> <<"prototype-server", ctx.session_id>>,
     established_at |-> ctx.created_at],
    "dx-dctls/prototype-statement/v1", DCTLS_ENGINE_TAG)

PrototypeDctlsEngine_execute(ctx, rand, query, response) ==
  PrototypeDctlsEngine_execute_dctls(ctx, rand, query, response, ZeroDigest)

---------------------------------------------------------------------------
(* The TLS engine.                                                         *)

export_keying_material(conn, label, context) ==
  <<"tls-exporter", label, context, conn.secret>>

cert_hash(cert) == <<"sha256", cert>>

\* The response is what was read until the end of the stream or a timeout.
connect_and_capture(host, conn, query, rand, clock) ==
  IF \/ ~conn.opens \/ conn.end = "error"
     \/ conn.version \notin {TLSv1_2, TLSv1_3} \/ conn.cert = Err
  THEN Err
  ELSE [server_cert_hash |-> cert_hash(conn.cert), tls_version |-> conn.version,
        server_name |-> host, established_at |-> clock,
        response |-> conn.chunks,
        dvrf_keying_material |->
          export_keying_material(conn, "dvrf-exporter/v1", rand),
        nonce_keying_material |->
          export_keying_material(conn, "session-nonce/v1", None)]

build_dctls_evidence(ctx, rand, query, capture) ==
  DctlsRun(ctx, rand, query, capture.response,
    [dvrf_exporter |-> capture.dvrf_keying_material,
     session_nonce |-> capture.nonce_keying_material],
    [server_cert_hash |-> capture.server_cert_hash,
     tls_version |-> capture.tls_version, server_name |-> capture.server_name,
     established_at |-> capture.established_at],
    "dx-dctls/tls-engine/v1", DCTLS_ENGINE_TAG)

\* The response and certificate hash of the trait are not looked at.
TlsAttestationEngine_execute_dctls(host, conn, clock, ctx, rand, query) ==
  LET capture == connect_and_capture(host, conn, query, rand, clock)
  IN IF capture = Err THEN Err ELSE build_dctls_evidence(ctx, rand, query, capture)

TlsAttestationEngine_execute(host, conn, clock, ctx, rand, query) ==
  LET capture == connect_and_capture(host, conn, query, rand, clock)
  IN IF capture = Err THEN Err ELSE build_dctls_evidence(ctx, rand, query, capture)

---------------------------------------------------------------------------
(* The threshold-signed exporter.                                          *)

TlsSessionParams(capture) ==
  [server_cert_hash |-> capture.server_cert_hash,
   tls_version |-> capture.tls_version, server_name |-> capture.server_name,
   established_at |-> capture.established_at,
   session_nonce |-> capture.nonce_keying_material]

capture_for_2pc(host, conn, query, rand, clock) ==
  LET capture == connect_and_capture(host, conn, query, rand, clock)
  IN IF capture = Err THEN Err
     ELSE [params |-> TlsSessionParams(capture), response |-> capture.response]

compute_2pc_binding_input(sid, rand, params) ==
  <<"2pc-binding/v1", sid, rand, params.server_cert_hash, params.tls_version,
    params.server_name, params.session_nonce>>

derive_2pc_dvrf_exporter(aggregate_sig) == <<"2pc-exporter/v1", aggregate_sig>>

\* answers: verifier -> the participant that answers both rounds, or Err; the
\* nodes' own checks are those of FrostAux.  One error ends the run.
run_handshake_binding(sid, binding_input, gk, transports, answers) ==
  LET nonces(i) == <<"hb", sid, transports[i]>>
      pkg == build_signing_package(
               [i \in DOMAIN transports |-> <<transports[i], Commit(nonces(i))>>],
               binding_input, gk)
      share(i) == sign(pkg, nonces(i), answers[transports[i]].key_package)
      approval == aggregate_signature_shares(
                    pkg, [i \in DOMAIN transports |-> <<transports[i], share(i)>>],
                    gk, binding_input)
  IN IF \/ \E i \in DOMAIN transports : answers[transports[i]] = Err
        \/ pkg = Err
        \/ \E i \in DOMAIN transports : share(i) = Err
        \/ approval = Err
     THEN Err ELSE approval.signature

build_evidence_2pc(ctx, rand, query, params, response, exporter) ==
  DctlsRun(ctx, rand, query, response,
    [dvrf_exporter |-> exporter, session_nonce |-> params.session_nonce],
    [server_cert_hash |-> params.server_cert_hash,
     tls_version |-> params.tls_version, server_name |-> params.server_name,
     established_at |-> params.established_at],
    "dx-dctls/handshake-2pc/v1", "dx-dctls/handshake-2pc/v1")

---------------------------------------------------------------------------
(* The TLS 1.2 capture.                                                    *)

\* One KeyLog call; TLS 1.3 logs other labels.
TlsKeyCapture_log(cap, entry) ==
  IF entry.label # "CLIENT_RANDOM" THEN cap
  ELSE [client_random |-> IF Len(entry.client_random) = 32
                          THEN entry.client_random ELSE cap.client_random,
        master_secret |-> entry.secret]

TlsKeyCapture(keylog) ==
  MapThenFoldSet(LAMBDA entry, cap : TlsKeyCapture_log(cap, entry),
                 [client_random |-> Err, master_secret |-> Err],
                 LAMBDA i : keylog[i], Max, DOMAIN keylog)

\* The first offset that looks like a handshake record with a ServerHello.
parse_server_random(captured) ==
  LET hits == {i \in 0..(Len(captured) - 43) :
                 captured[i + 1] = 22 /\ captured[i + 6] = 2}
      first == CHOOSE i \in hits : \A j \in hits : i <= j
  IN IF hits = {} THEN Err ELSE SubSeq(captured, first + 12, first + 43)

\* Tls12Connector::connect.  The version is a constant, and a server random
\* that cannot be found becomes zeros.
Tls12Connector_connect(name, conn, clock) ==
  LET keys == TlsKeyCapture(conn.keylog)
      sr == parse_server_random(conn.raw)
  IN IF \/ ~conn.opens \/ conn.cert = Err
        \/ keys.client_random = Err \/ keys.master_secret = Err
     THEN Err
     ELSE [server_cert_hash |-> cert_hash(conn.cert), tls_version |-> TLSv1_2,
           server_name |-> name, established_at |-> clock,
           session_nonce |-> export_keying_material(conn, "session-nonce/v1", None),
           pre_master_secret |-> keys.master_secret,
           client_random |-> keys.client_random,
           server_random |-> IF sr = Err THEN [i \in 1..32 |-> 0] ELSE sr]

to_session_params_public(cap) ==
  [server_cert_hash |-> cap.server_cert_hash, tls_version |-> cap.tls_version,
   server_name |-> cap.server_name, established_at |-> cap.established_at]

=============================================================================
