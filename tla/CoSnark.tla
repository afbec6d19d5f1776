------------------------------ MODULE CoSnark ------------------------------
(***************************************************************************)
(* The proofs of crates/zk: the HSP proof of the MAC key, from shares      *)
(* (co_snark.rs, tls_prf_circuit.rs) or from shares masked by two parties  *)
(* (co_snark_split.rs), the session-binding proof of the record MACs       *)
(* (tls_session_binding.rs) and the MiMC proof of the session parameters   *)
(* (backend.rs, circuit.rs).  CRSs of every kind are set up at any time, a *)
(* proof can be made under the wrong one, and parties restart with new     *)
(* keys.  Proofs are verified under every CRS.                             *)
(***************************************************************************)
EXTENDS TlsPrf, FiniteSets

CONSTANTS
  ZkNone,        \* None
  ZkConns,    \* connections: [pms, cr, sr]; a pms is 3 units, or another length
  ZkShares,   \* the prover's shares drawn by split_mac_key
  ZkRands,    \* DVRF outputs
  ZkRecords,  \* TLS records: [header, data_hash]
  ZkCerts,    \* certificate digests
  MaxCrs,     \* bound on the set-ups
  MaxParties  \* bound on the X25519 keys drawn

\* Types; a PMS is no longer than the block of an HMAC key.
ASSUME ZkAssumption ==
  /\ ZkConns \subseteq [pms : Bytes, cr : Bytes, sr : Bytes]
  /\ \A c \in ZkConns : Len(c.pms) <= Block
  /\ ZkShares \cup ZkRands \cup ZkCerts \subseteq Digest
  /\ ZkRecords \subseteq [header : Bytes, data_hash : Bytes]
  /\ ZkNone \notin ZkConns \cup Nat \cup Seq(Nat)
  /\ ZkNone \notin [crs : {"seed"}, publics : Seq(Nat), ok : BOOLEAN]

VARIABLES
  zkCrss,      \* the CRSs set up
  zkHsp,       \* the last HspProof and how it was made
  zkBinding,   \* the last SessionBindingProof and how it was made
  zkParams,    \* the last session-parameters proof and how it was made
  zkParty,     \* role -> the CoSnarkParty that has not sent its share
  zkMasked,    \* role -> the MaskedShare it sent, and for which key
  dhKeys     \* X25519 keys drawn

zkvars == <<zkCrss, zkHsp, zkBinding, zkParams, zkParty, zkMasked, dhKeys>>

Role == {"p", "v"}

---------------------------------------------------------------------------
(* Groth16 of the ark library.  A proof made for a circuit that is not     *)
(* satisfied, or is not the one of the CRS, is returned but never valid.   *)

Crs(id, shape, inputs) == [id |-> id, shape |-> shape, inputs |-> inputs]

Groth16Prove(crs, circuit) ==
  [crs |-> crs.id, publics |-> circuit.publics,
   ok |-> circuit.satisfied /\ circuit.shape = crs.shape]

Groth16Verify(crs, publics, proof) ==
  /\ Len(publics) = crs.inputs
  /\ proof.crs = crs.id /\ proof.publics = publics /\ proof.ok

---------------------------------------------------------------------------
(* tls_prf_circuit.rs.                                                     *)

\* Mode 1: the commitment is to the XOR of the shares.
TlsPrfCircuit_new(p, v, rand) ==
  LET r == bytes32_to_fr(rand)
  IN [commitment |-> commit_k_mac(combine_mac_key_shares(p, v), r), rand |-> r,
      pms_hash |-> ZkNone, p |-> p, v |-> v, conn |-> ZkNone]

with_tls_prf(p, v, rand, conn) ==
  [TlsPrfCircuit_new(p, v, rand) EXCEPT
     !.pms_hash = pms_hash(conn.pms), !.conn = conn]

TlsPrf_share_constraints(c) ==
  (pack_bytes_to_fpvar(combine_mac_key_shares(c.p, c.v)) + c.rand) % Fp
    = c.commitment

\* Mode 2: the committed key is the one the PRF derives from the PMS.
TlsPrf_pms_constraints(c) ==
  LET ms == tls12_master_secret_constrained(c.conn.pms, c.conn.cr, c.conn.sr)
      key_block == tls12_key_expansion_constrained(ms, c.conn.cr, c.conn.sr)
  IN /\ pack_bytes_to_fpvar(sha256_from_byte_vars(c.conn.pms)) = c.pms_hash
     /\ (pack_bytes_to_fpvar(Truncate(key_block, Hash)) + c.rand) % Fp
          = c.commitment

TlsPrf_generate_constraints(c) ==
  IF c.conn = ZkNone
  THEN [shape |-> <<"mode1">>, publics |-> <<c.commitment, c.rand>>,
        satisfied |-> TlsPrf_share_constraints(c)]
  ELSE [shape |-> <<"mode2", Len(c.conn.pms)>>,
        publics |-> <<c.commitment, c.rand, c.pms_hash>>,
        satisfied |-> /\ TlsPrf_share_constraints(c)
                      /\ TlsPrf_pms_constraints(c)]

---------------------------------------------------------------------------
(* co_snark.rs.                                                            *)

CoSnarkCrs_setup(id) == Crs(id, <<"mode1">>, 2)

\* dummy_full_prf has a 48-byte PMS.
CoSnarkCrs_setup_mode2(id) == Crs(id, <<"mode2", 3>>, 3)

HspProof(groth16, c, k_mac) ==
  [groth16 |-> groth16, commitment |-> c.commitment, rand |-> c.rand,
   k_mac |-> k_mac, pms_hash |-> c.pms_hash]

co_snark_execute(crs, p, v, rand) ==
  LET c == TlsPrfCircuit_new(p, v, rand)
  IN HspProof(Groth16Prove(crs, TlsPrf_generate_constraints(c)), c,
              combine_mac_key_shares(p, v))

co_snark_execute_mode2(crs, p, v, rand, conn) ==
  LET c == with_tls_prf(p, v, rand, conn)
  IN HspProof(Groth16Prove(crs, TlsPrf_generate_constraints(c)), c,
              combine_mac_key_shares(p, v))

co_snark_verify(crs, proof, expected_pms_hash) ==
  LET publics == <<proof.commitment, proof.rand>>
                 \o (IF proof.pms_hash = ZkNone THEN <<>> ELSE <<proof.pms_hash>>)
  IN /\ Groth16Verify(crs, publics, proof.groth16)
     /\ commit_k_mac(proof.k_mac, proof.rand) = proof.commitment
     /\ expected_pms_hash = proof.pms_hash

---------------------------------------------------------------------------
(* co_snark_split.rs.                                                      *)

\* X25519: the shared secret of two keys is the same from both sides.
DiffieHellman(a, b) == <<(a * b) % 16, (a + b) % 16>>

derive_mask(shared) == Sha256(<<3>> \o shared)

CoSnarkParty_new(mac_share, dh) == [dh |-> dh, mac_share |-> mac_share]

compute_masked_share(self, other_pk) ==
  [dh_public_key |-> self.dh,
   masked_bytes |-> combine_mac_key_shares(
                      self.mac_share,
                      derive_mask(DiffieHellman(self.dh, other_pk)))]

\* The tags are for the parties; the coordinator cannot check them.
co_snark_combine(crs, p, v, p_pk, v_pk, rand) ==
  LET k_mac == combine_mac_key_shares(p.masked_bytes, v.masked_bytes)
  IN IF p.dh_public_key # p_pk \/ v.dh_public_key # v_pk THEN ZkNone
     ELSE co_snark_execute(crs, k_mac, Zeros(Hash), rand)

co_snark_execute_split(crs, p, v, rand, dh_p, dh_v) ==
  LET party_p == CoSnarkParty_new(p, dh_p)
      party_v == CoSnarkParty_new(v, dh_v)
  IN co_snark_combine(crs, compute_masked_share(party_p, dh_v),
                      compute_masked_share(party_v, dh_p), dh_p, dh_v, rand)

---------------------------------------------------------------------------
(* tls_session_binding.rs.                                                 *)

hmac_input(r) == r.header \o r.data_hash

TlsSessionBindingCircuit_new(k_mac, rand, q, r, mac_q, mac_r) ==
  LET fe == bytes32_to_fr(rand)
  IN [commitment |-> commit_k_mac(k_mac, fe), rand |-> fe,
      mac_q |-> (bytes32_to_fr(mac_q) + fe) % Fp,
      mac_r |-> (bytes32_to_fr(mac_r) + fe) % Fp,
      k_mac |-> k_mac, q |-> q, r |-> r]

SessionBinding_generate_constraints(c) ==
  LET committed(bytes, fe) == (pack_bytes_to_fpvar(bytes) + c.rand) % Fp = fe
      mac(rec) == hmac_sha256_gadget_constrained(c.k_mac, hmac_input(rec))
  IN [shape |-> <<"binding">>,
      publics |-> <<c.commitment, c.rand, c.mac_q, c.mac_r>>,
      satisfied |-> /\ committed(c.k_mac, c.commitment)
                    /\ committed(mac(c.q), c.mac_q)
                    /\ committed(mac(c.r), c.mac_r)]

SessionBindingCrs_setup(id) == Crs(id, <<"binding">>, 4)

session_binding_prove(crs, k_mac, rand, q, r, mac_q, mac_r) ==
  LET c == TlsSessionBindingCircuit_new(k_mac, rand, q, r, mac_q, mac_r)
  IN [groth16 |-> Groth16Prove(crs, SessionBinding_generate_constraints(c)),
      commitment |-> c.commitment, rand |-> c.rand,
      mac_q |-> c.mac_q, mac_r |-> c.mac_r]

BindingOfAnyKey(crs, proof, expected) ==
  Groth16Verify(crs, <<proof.commitment, proof.rand, proof.mac_q, proof.mac_r>>,
                proof.groth16)

\* expected: a commitment, or ZkNone for the empty byte string.
session_binding_verify(crs, proof, expected) ==
  /\ Groth16Verify(crs, <<proof.commitment, proof.rand, proof.mac_q, proof.mac_r>>,
                   proof.groth16)
  /\ expected # ZkNone => proof.commitment = expected

---------------------------------------------------------------------------
(* backend.rs and circuit.rs.                                              *)

\* The parameters are drawn from a fixed seed: every backend has the same.
GrothZkBackend_setup == Crs("seed", <<"hsp">>, 4)

HspCircuit_generate_constraints(c) ==
  [shape |-> <<"hsp">>, publics |-> <<c.sid, c.rand, c.cert, c.zk_binding>>,
   satisfied |-> mimc7_sponge_gadget(<<c.sid, c.rand, c.dvrf, c.cert, c.ht>>)
                   = c.zk_binding]

prove_hsp_internal(sid, rand, exporter, cert, ht) ==
  LET c == [sid |-> bytes16_to_fe(sid), rand |-> bytes31_to_fe(rand),
            cert |-> bytes31_to_fe(cert), dvrf |-> bytes31_to_fe(exporter),
            ht |-> bytes31_to_fe(ht)]
      b == mimc7_sponge(<<c.sid, c.rand, c.dvrf, c.cert, c.ht>>)
  IN [zk_binding |-> <<b % 16, b \div 16>>,
      zk_proof |-> Groth16Prove(
        GrothZkBackend_setup,
        HspCircuit_generate_constraints(
          [sid |-> c.sid, rand |-> c.rand, cert |-> c.cert, dvrf |-> c.dvrf,
           ht |-> c.ht, zk_binding |-> b]))]

verify_hsp_zk(sid, rand, cert, zk_binding, proof) ==
  Groth16Verify(GrothZkBackend_setup,
                <<bytes16_to_fe(sid), bytes31_to_fe(rand), bytes31_to_fe(cert),
                  (zk_binding[1] + 16 * zk_binding[2]) % Fp>>, proof)

\* The exporter is left out of the proof; ht is the handshake digest of the
\* certificate and the other public parameters.
prove_session_params(sid, rand, exporter, cert) ==
  LET ht == Sha256(cert)
      zk == prove_hsp_internal(sid, rand, exporter, cert, ht)
  IN [session_id |-> sid, rand_value |-> rand, dvrf_exporter |-> Zeros(Hash),
      server_cert_hash |-> cert, handshake_transcript_hash |-> ht,
      zk_proof |-> zk.zk_proof, zk_binding |-> zk.zk_binding]

verify_session_params(proof, rand, cert) ==
  /\ proof.rand_value = rand
  /\ proof.server_cert_hash = cert
  /\ proof.zk_binding # ZkNone /\ proof.zk_proof # ZkNone
  /\ verify_hsp_zk(proof.session_id, rand, cert, proof.zk_binding, proof.zk_proof)

---------------------------------------------------------------------------

ZkInit ==
  /\ zkCrss = {}
  /\ zkHsp = ZkNone /\ zkBinding = ZkNone /\ zkParams = ZkNone
  /\ zkParty = [r \in Role |-> ZkNone] /\ zkMasked = [r \in Role |-> ZkNone]
  /\ dhKeys = 0

Forget == zkHsp' = ZkNone /\ zkBinding' = ZkNone /\ zkParams' = ZkNone

NextCrs == Cardinality(zkCrss)

ZkSetup(crs) ==
  /\ NextCrs < MaxCrs
  /\ zkCrss' = zkCrss \cup {crs}
  /\ Forget /\ UNCHANGED <<zkParty, zkMasked, dhKeys>>

\* The keys of the connections, as the TLS stack derives them.
ZkKeys == [c \in ZkConns |-> derive_k_mac_from_pms(c.pms, c.cr, c.sr)]

\* The shares are of the key of connection k.
CoSnarkExecute(crs, k, p, rand) ==
  /\ LET v == split_mac_key(ZkKeys[k], p).v
     IN zkHsp' = [proof |-> co_snark_execute(crs, p, v, rand), crs |-> crs,
                key |-> ZkKeys[k], conn |-> ZkNone, rand |-> rand]
  /\ zkBinding' = ZkNone /\ zkParams' = ZkNone
  /\ UNCHANGED <<zkCrss, zkParty, zkMasked, dhKeys>>

\* The PMS is of connection c; after a reconnection the shares may not be.
ExecuteMode2(crs, k, c, p, rand) ==
  /\ LET v == split_mac_key(ZkKeys[k], p).v
     IN zkHsp' = [proof |-> co_snark_execute_mode2(crs, p, v, rand, c),
                crs |-> crs, key |-> ZkKeys[k], conn |-> c, rand |-> rand]
  /\ zkBinding' = ZkNone /\ zkParams' = ZkNone
  /\ UNCHANGED <<zkCrss, zkParty, zkMasked, dhKeys>>

\* A party starts, or starts again with a new key, and announces the key.
PartyNew(r, mac_share) ==
  /\ dhKeys < MaxParties
  /\ dhKeys' = dhKeys + 1
  /\ zkParty' = [zkParty EXCEPT ![r] = CoSnarkParty_new(mac_share, dhKeys + 1)]
  /\ Forget /\ UNCHANGED <<zkCrss, zkMasked>>

\* It masks its share for the key it was told, and is consumed.
PartyMask(r, other_pk) ==
  /\ zkParty[r] # ZkNone
  /\ zkMasked' = [zkMasked EXCEPT
                  ![r] = [share |-> compute_masked_share(zkParty[r], other_pk),
                          mac_share |-> zkParty[r].mac_share, peer |-> other_pk]]
  /\ zkParty' = [zkParty EXCEPT ![r] = ZkNone]
  /\ Forget /\ UNCHANGED <<zkCrss, dhKeys>>

\* The coordinator combines the shares it has for the keys announced to it.
CombineShares(crs, p_pk, v_pk, rand) ==
  /\ zkMasked["p"] # ZkNone /\ zkMasked["v"] # ZkNone
  /\ LET proof == co_snark_combine(crs, zkMasked["p"].share, zkMasked["v"].share,
                                   p_pk, v_pk, rand)
     IN zkHsp' = IF proof = ZkNone THEN ZkNone
               ELSE [proof |-> proof, crs |-> crs, conn |-> ZkNone, rand |-> rand,
                     key |-> IF /\ zkMasked["p"].peer = v_pk
                                /\ zkMasked["v"].peer = p_pk
                             THEN combine_mac_key_shares(zkMasked["p"].mac_share,
                                                         zkMasked["v"].mac_share)
                             ELSE proof.k_mac]
  /\ zkBinding' = ZkNone /\ zkParams' = ZkNone
  /\ UNCHANGED <<zkCrss, zkParty, zkMasked, dhKeys>>

ExecuteSplit(crs, k, p, rand) ==
  /\ LET v == split_mac_key(ZkKeys[k], p).v
     IN zkHsp' = [proof |-> co_snark_execute_split(crs, p, v, rand, 5, 9),
                crs |-> crs, key |-> ZkKeys[k], conn |-> ZkNone, rand |-> rand]
  /\ zkBinding' = ZkNone /\ zkParams' = ZkNone
  /\ UNCHANGED <<zkCrss, zkParty, zkMasked, dhKeys>>

\* As field elements, which is how the circuits compare.
SameKey(a, b) == bytes32_to_fr(a) = bytes32_to_fr(b)

\* The MACs are those of records m_q and m_r, as the TLS stack computed them.
SessionBindingProve(crs, k, rand, q, r, m_q, m_r) ==
  /\ LET mac(rec) == HmacSha256(ZkKeys[k], hmac_input(rec))
     IN zkBinding' = [proof |-> session_binding_prove(crs, ZkKeys[k], rand, q, r,
                                                    mac(m_q), mac(m_r)),
                    crs |-> crs, key |-> ZkKeys[k], rand |-> rand,
                    macs |-> SameKey(mac(q), mac(m_q))
                            /\ SameKey(mac(r), mac(m_r))]
  /\ zkParams' = ZkNone
  /\ UNCHANGED <<zkCrss, zkHsp, zkParty, zkMasked, dhKeys>>

ProveSessionParams(sid, rand, exporter, cert) ==
  /\ zkParams' = [proof |-> prove_session_params(sid, rand, exporter, cert),
                sid |-> sid, rand |-> rand, cert |-> cert]
  /\ zkHsp' = ZkNone /\ zkBinding' = ZkNone
  /\ UNCHANGED <<zkCrss, zkParty, zkMasked, dhKeys>>

\* Bound: a session-binding proof is the last one that is made.
ZkProofsNext ==
  /\ zkBinding = ZkNone
  /\ \/ ZkSetup(CoSnarkCrs_setup(NextCrs))
     \/ ZkSetup(CoSnarkCrs_setup_mode2(NextCrs))
     \/ ZkSetup(SessionBindingCrs_setup(NextCrs))
     \/ \E crs \in zkCrss, k \in ZkConns, p \in ZkShares, rand \in ZkRands :
          \/ CoSnarkExecute(crs, k, p, rand)
          \/ \E c \in ZkConns : ExecuteMode2(crs, k, c, p, rand)
          \/ ExecuteSplit(crs, k, p, rand)
     \/ \E crs \in zkCrss, k \in ZkConns, rand \in ZkRands, q, r \in ZkRecords :
          \E m \in {<<q, r>>, <<r, q>>} :
            SessionBindingProve(crs, k, rand, q, r, m[1], m[2])
     \/ \E sid \in 1..2, rand \in ZkRands, x, cert \in ZkCerts :
          ProveSessionParams(sid, rand, x, cert)

ZkSplitNext ==
  \/ ZkSetup(CoSnarkCrs_setup(NextCrs))
  \/ \E r \in Role :
       \/ \E s \in ZkShares : PartyNew(r, s)
       \/ \E pk \in 1..dhKeys : PartyMask(r, pk)
  \/ \E crs \in zkCrss, p_pk, v_pk \in 1..dhKeys, rand \in ZkRands :
       CombineShares(crs, p_pk, v_pk, rand)

ZkNext == ZkProofsNext \/ ZkSplitNext

ZkSpec == ZkInit /\ [][ZkNext]_zkvars

---------------------------------------------------------------------------

\* Both forms of the PRF gadgets give what the TLS stack derives.
GadgetsAgree ==
  \A c \in ZkConns :
    LET ms == tls12_master_secret_gadget(c.pms, c.cr, c.sr)
        block == tls12_key_expansion_constrained(ms, c.cr, c.sr)
        keys == tls12_key_expansion_gadget(ms, c.cr, c.sr)
    IN /\ ms = tls12_master_secret_constrained(c.pms, c.cr, c.sr)
       /\ keys.client_write_mac_key \o keys.server_write_mac_key
            \o keys.client_write_key \o keys.server_write_key = block
       /\ keys.client_write_mac_key = ZkKeys[c]

\* An HSP proof is accepted exactly under the CRS it was made with and for
\* the PMS hash it carries, and only when the circuit of that CRS holds: a
\* Mode 2 proof whose shares are those of the key that the PRF derives from
\* the 48-byte PMS is accepted although the circuit computes the PRF with
\* its own HMAC and SHA-256, in either form of the gadgets, and a proof
\* with the shares of another connection, or for another mode, is not.
\* Shares masked for each other's announced keys give the key they were
\* split from (co_snark_verify, TlsPrfCircuit, co_snark_combine).
HspProofIsOfItsKey ==
  zkHsp # ZkNone =>
    LET conn == zkHsp.conn
        mode == IF conn = ZkNone THEN <<"mode1">> ELSE <<"mode2", Len(conn.pms)>>
        own == IF conn = ZkNone THEN ZkNone ELSE pms_hash(conn.pms)
    IN /\ GadgetsAgree
       /\ zkHsp.proof.k_mac = zkHsp.key
       /\ \A crs \in zkCrss, e \in {ZkNone} \cup {pms_hash(c.pms) : c \in ZkConns} :
            co_snark_verify(crs, zkHsp.proof, e) <=>
              /\ crs = zkHsp.crs /\ crs.shape = mode /\ e = own
              /\ conn # ZkNone => SameKey(zkHsp.key, ZkKeys[conn])

\* A session-binding proof is accepted exactly when the MACs it commits to
\* are those the TLS stack computes for its two records with its key, and,
\* next to an HSP proof with the same randomness, exactly when the key is
\* the one of the HSP proof (session_binding_verify).  A session-parameters
\* proof is accepted for its own randomness and certificate and no others,
\* although the circuit sees only 31 bytes of each (verify_session_params).
BoundToWhatWasProved ==
  /\ zkBinding # ZkNone =>
       LET expected == IF zkHsp = ZkNone THEN ZkNone ELSE zkHsp.proof.commitment
           same_rand == zkHsp # ZkNone /\ zkHsp.rand = zkBinding.rand
           accepted(crs) == session_binding_verify(crs, zkBinding.proof, expected)
       IN \A crs \in zkCrss :
            /\ accepted(crs) => /\ crs = zkBinding.crs /\ crs.shape = <<"binding">>
                                /\ zkBinding.macs
                                /\ same_rand => SameKey(zkBinding.key, zkHsp.key)
            /\ /\ crs = zkBinding.crs /\ crs.shape = <<"binding">> /\ zkBinding.macs
               /\ zkHsp = ZkNone \/ (same_rand /\ SameKey(zkBinding.key, zkHsp.key))
               => accepted(crs)
  /\ zkParams # ZkNone =>
       \A rand \in ZkRands, cert \in ZkCerts :
         verify_session_params(zkParams.proof, rand, cert) <=>
           rand = zkParams.rand /\ cert = zkParams.cert
=============================================================================
