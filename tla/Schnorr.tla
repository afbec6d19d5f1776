------------------------------ MODULE Schnorr ------------------------------
(***************************************************************************)
(* Attestations on the way to the chain: the encodings of onchain.rs and   *)
(* onchain_secp256k1.rs and the signature check of contract FrostVerifier, *)
(* a public function that anyone may ask about any numbers.                *)
(*                                                                         *)
(* The curve is y^2 = x^3 + 7 as in secp256k1, over the field of 43        *)
(* elements, where it has the prime order 31: as in secp256k1 the order    *)
(* is below the field's, so a coordinate need not be a scalar.  The        *)
(* signature equation and the contract's ecrecover detour are computed; a  *)
(* hash is a tuple, except the challenge, which is a number.               *)
(***************************************************************************)
EXTENDS Integers, Sequences, FiniteSets, SequencesExt, FiniteSetsExt

CONSTANT OcKeys   \* the secret keys verify is asked about

VARIABLE probe    \* the last question asked of the verifiers

OcErr == [revert |-> TRUE]
Zero == "0x0"

---------------------------------------------------------------------------
(* The curve, as the EVM precompiles and k256 compute on it.  A point is   *)
(* known by its multiple of the generator, 0 for the point at infinity.    *)

P == 43
N == 31

modExp(base, exp) ==
  FoldLeftDomain(LAMBDA acc, i : (acc * base) % P, 1, [i \in 1..exp |-> i])

Inverted(a) == CHOOSE i \in 1..(P - 1) : (i * a) % P = 1

PointAdd(p, q) ==
  LET m == IF p = q THEN (3 * p[1] * p[1] * Inverted(2 * p[2])) % P
           ELSE ((q[2] - p[2] + P) * Inverted(q[1] - p[1] + P)) % P
      x == (m * m - p[1] - q[1] + 2 * P) % P
  IN <<x, (m * (p[1] - x + P) - p[2] + P) % P>>

G == <<2, 12>>
Points ==
  FoldLeft(LAMBDA ps, d : Append(ps, PointAdd(Last(ps), G)), <<G>>,
           [d \in 1..(N - 2) |-> d])
\* The multiple with that x-coordinate and parity, 0 if x is on no point.
Dlog(x, odd) ==
  IF \E d \in 1..(N - 1) : Points[d][1] = x
  THEN CHOOSE d \in 1..(N - 1) : Points[d][1] = x /\ (Points[d][2] % 2 = 1) = odd
  ELSE 0

Neg(a) == N - (a % N)

address_of(d) == IF d = 0 THEN Zero ELSE <<"address", Points[d]>>

\* keccak256(R_x, pk_x, message) as a number that may exceed the order.
Challenge(rx, pkx, message) == (5 * rx + 3 * pkx + message) % (N + 3)

ecrecover(hash, odd, r, s) ==
  LET R == Dlog(r, odd)
      inv == CHOOSE i \in 1..(N - 1) : (i * r) % N = 1
  IN IF r \notin 1..(N - 1) \/ s \notin 1..(N - 1) \/ R = 0 THEN Zero
     ELSE address_of((inv * (s * R + Neg(hash))) % N)

---------------------------------------------------------------------------
(* FrostVerifier.                                                          *)

\* The root as the exponentiation gives it.
RootOfAnyParity(x) ==
  LET y == modExp((x * x * x + 7) % P, (P + 1) \div 4)
  IN IF (y * y) % P # (x * x * x + 7) % P THEN 0 ELSE y

recoverY(x) ==
  LET rhs == (x * x * x + 7) % P
      y == modExp(rhs, (P + 1) \div 4)
      even == IF y % 2 # 0 THEN P - y ELSE y
  IN IF (even * even) % P # rhs THEN 0 ELSE even

verifyWithPrecompiles(pk_x, pk_y, sig_R_x, sig_s, e) ==
  LET R_y == recoverY(sig_R_x)
      recovered == ecrecover(N - ((sig_s * pk_x) % N), pk_y % 2 = 0, pk_x,
                             (e * pk_x) % N)
  IN R_y # 0 /\ recovered # Zero /\ recovered = <<"address", <<sig_R_x, R_y>>>>

verify(message_hash, pk_x, pk_y, sig_R_x, sig_s) ==
  verifyWithPrecompiles(pk_x, pk_y, sig_R_x, sig_s,
                        Challenge(sig_R_x, pk_x, message_hash) % N)

---------------------------------------------------------------------------
(* onchain_secp256k1.rs.                                                   *)

\* The group key is laid out uncompressed, 65 bytes, but k256 reads a point
\* from the 33 bytes of a compressed one and panics on any other length: the
\* lines that follow are never reached, whatever the key.
PkBytes == 65
AffinePoint_from_bytes(len, pk) ==
  IF len # 33 THEN "panic"
  ELSE IF pk \in Range(Points) THEN "point" ELSE "invalid group key"

\* s and e must be canonical scalars; only R's x-coordinate is compared.
verify_schnorr(att) ==
  LET e == Challenge(att.sig_R_x, att.group_key_x, att.envelope_digest)
      parsed == AffinePoint_from_bytes(PkBytes, <<att.group_key_x, att.group_key_y>>)
      pk == Dlog(att.group_key_x, att.group_key_y % 2 = 1)
      R == (att.sig_s + Neg(e * pk)) % N
  IN IF att.sig_s >= N THEN "invalid s"
     ELSE IF e >= N THEN "invalid e"
     ELSE IF parsed # "point" THEN parsed
     ELSE IF att.sig_R_x # (IF R = 0 THEN 0 ELSE Points[R][1]) THEN "R.x mismatch"
     ELSE IF att.threshold > att.verifier_count THEN "threshold not met"
     ELSE "ok"

statement_digest_for(tag, content) == <<"onchain-statement/v1", tag, content>>

extract_secp256k1_attestation(st, dvrf, alpha, sid, env, sig, key, t, n) ==
  [statement_digest |-> st, dvrf_value |-> dvrf, envelope_digest |-> env,
   group_key_x |-> key[1], group_key_y |-> key[2], sig_R_x |-> sig[1],
   sig_s |-> sig[2], threshold |-> t, verifier_count |-> n,
   alpha_commitment |-> alpha, session_id |-> sid]

\* gen-test-vectors: k is negated when the nonce commitment has an odd y.
gen_test_vector(sk, k, message) ==
  LET kf == IF Points[k][2] % 2 = 1 THEN N - k ELSE k
      rx == Points[kf][1]
      e == Challenge(rx, Points[sk][1], message) % N
  IN <<rx, (kf + e * sk) % N>>

\* A buffer is its 32-byte words; a word is its first 31 bytes and its last.
Word(value) == <<value, value>>
Byte(value) == <<0, value>>
Bytes32(w) == w[1]
LastByte(w) == w[2]

secp_abi_encode(a) ==
  << Word(a.statement_digest), Word(a.dvrf_value), Word(a.envelope_digest),
     Word(a.group_key_x), Word(a.group_key_y), Word(a.sig_R_x), Word(a.sig_s),
     Byte(a.threshold), Byte(a.verifier_count), Word(a.alpha_commitment),
     Word(a.session_id) >>

secp_abi_decode(raw) ==
  IF Len(raw) # 11 THEN OcErr
  ELSE [statement_digest |-> Bytes32(raw[1]), dvrf_value |-> Bytes32(raw[2]),
        envelope_digest |-> Bytes32(raw[3]), group_key_x |-> Bytes32(raw[4]),
        group_key_y |-> Bytes32(raw[5]), sig_R_x |-> Bytes32(raw[6]),
        sig_s |-> Bytes32(raw[7]), threshold |-> LastByte(raw[8]),
        verifier_count |-> LastByte(raw[9]), alpha_commitment |-> Bytes32(raw[10]),
        session_id |-> Bytes32(raw[11])]

---------------------------------------------------------------------------
(* onchain.rs: the Ed25519 attestation, verified off chain.                *)

derive_onchain_statement_digest(tag, content) ==
  <<"onchain-statement/v1", tag, content>>

compute_statement_dvrf_binding(st, dvrf) == <<"stmt-dvrf-binding/v1", st, dvrf>>

\* approval: a signature names its key and what it signs, in two halves.
extract_on_chain_attestation(st, dvrf, env, approval, t, n) ==
  [statement_digest |-> st, dvrf_value |-> dvrf, envelope_digest |-> env,
   group_verifying_key |-> approval.key, aggregate_signature |-> approval.sig,
   threshold |-> t, verifier_count |-> n,
   statement_dvrf_binding |-> compute_statement_dvrf_binding(st, dvrf)]

OnChainAttestation_verify(a) ==
  /\ a.aggregate_signature = << <<"R", a.group_verifying_key>>,
                                <<"s", a.group_verifying_key, a.envelope_digest>> >>
  /\ a.threshold # 0
  /\ a.threshold <= a.verifier_count
  /\ a.statement_dvrf_binding
       = compute_statement_dvrf_binding(a.statement_digest, a.dvrf_value)

abi_encode(a) ==
  << Word(a.statement_digest), Word(a.dvrf_value), Word(a.envelope_digest),
     Word(a.group_verifying_key), Word(a.aggregate_signature[1]),
     Word(a.aggregate_signature[2]), Byte(a.threshold), Byte(a.verifier_count),
     Word(a.statement_dvrf_binding) >>

abi_decode(raw) ==
  IF Len(raw) # 9 THEN OcErr
  ELSE [statement_digest |-> Bytes32(raw[1]), dvrf_value |-> Bytes32(raw[2]),
        envelope_digest |-> Bytes32(raw[3]),
        group_verifying_key |-> Bytes32(raw[4]),
        aggregate_signature |-> <<Bytes32(raw[5]), Bytes32(raw[6])>>,
        threshold |-> LastByte(raw[7]), verifier_count |-> LastByte(raw[8]),
        statement_dvrf_binding |-> Bytes32(raw[9])]

\* Callers hand over the Attestation itself or, to verifyRaw, its encoding.
decode(raw) ==
  [statementDigest |-> Bytes32(raw[1]), dvrf_value |-> Bytes32(raw[2]),
   envelopeDigest |-> Bytes32(raw[3]), groupKeyX |-> Bytes32(raw[4]),
   groupKeyY |-> Bytes32(raw[5]), sigRX |-> Bytes32(raw[6]),
   sigS |-> Bytes32(raw[7]), threshold |-> LastByte(raw[8]),
   verifierCount |-> LastByte(raw[9])]

---------------------------------------------------------------------------

SchnorrInit == probe = OcErr

\* A holder of key sk signs with the nonce k, of either parity, and one of the
\* numbers they hand over is not the canonical one.
callVerify(sk, k, message, off) ==
  LET e == Challenge(Points[k][1], Points[sk][1], message)
  IN probe' = [kind |-> "signature", message |-> message,
               pk |-> <<Points[sk][1], Points[sk][2] + off.pk_y>>,
               rx |-> Points[k][1] + off.rx, s |-> ((k + e * sk) % N) + off.s]

Offs ==
  LET none == [s |-> 0, rx |-> 0, pk_y |-> 0]
  IN {none} \cup {[none EXCEPT !.s = d] : d \in {1, N}}
            \cup {[none EXCEPT !.rx = d] : d \in {1, P}}
            \cup {[none EXCEPT !.pk_y = d] : d \in {1, 2}}

\* An attestation of a 1-of-1 key is encoded and some of its last words lost.
sendEncoded(t, n, lost) ==
  LET st == statement_digest_for("income/v1", "content")
      sig == gen_test_vector(4, 1, 1)
      key == [key |-> "ed", sig |-> << <<"R", "ed">>, <<"s", "ed", 1>> >>]
      a == extract_secp256k1_attestation(st, "dvrf", "alpha", "sid", 1, sig,
                                         Points[4], t, n)
      b == extract_on_chain_attestation(
             derive_onchain_statement_digest("income/v1", "content"), "dvrf", 1,
             key, t, n)
      Cut(raw) == SubSeq(raw, 1, Len(raw) - lost)
  IN probe' = [kind |-> "encoding", secp |-> a, ed |-> b, lost |-> lost,
               secpRaw |-> Cut(secp_abi_encode(a)), edRaw |-> Cut(abi_encode(b))]

SchnorrNext ==
  /\ probe = OcErr
  /\ \/ \E sk \in OcKeys, k \in 1..(N - 1), message \in 0..(N + 2), off \in Offs :
          callVerify(sk, k, message, off)
     \/ \E t, n \in {0, 1, 2, 255}, lost \in 0..2 : sendEncoded(t, n, lost)

---------------------------------------------------------------------------

\* The equation s * G = R + e * PK for an R with an even y, where PK is the
\* point with the key's x-coordinate and the parity of its y.
SignatureHolds(q) ==
  LET e == Challenge(q.rx, q.pk[1], q.message) % N
      pk == Dlog(q.pk[1], q.pk[2] % 2 = 1)
  IN \E R \in 1..(N - 1) : /\ Points[R][1] = q.rx /\ Points[R][2] % 2 = 0
                          /\ q.s % N = (R + e * pk) % N

\* FrostVerifier.sol decides the signature equation, although it computes an
\* address with ecrecover and a square root instead: verify accepts exactly the
\* numbers for which s * G = R + e * PK with an even R, s being read modulo the
\* order and the key's y by its parity alone, except where ecrecover has no
\* answer: a challenge of zero, or a key whose x-coordinate is not below the
\* order.  And it reads what the Rust code wrote: abi_decode of onchain.rs and
\* onchain_secp256k1.rs and the contract's decoder find the same numbers and
\* digests in an encoding, both Rust decoders refuse one that lost its end, the
\* contract verifies the decoded signature, and the Ed25519 attestation
\* verifies off chain exactly for thresholds in range.
ContractDecidesTheEquation ==
  probe # OcErr =>
    LET q == probe
        s == secp_abi_decode(q.secpRaw)
        e == abi_decode(q.edRaw)
        c == decode(q.secpRaw)
    IN IF q.kind = "signature"
       THEN verify(q.message, q.pk[1], q.pk[2], q.rx, q.s)
            <=> /\ SignatureHolds(q)
                /\ Challenge(q.rx, q.pk[1], q.message) % N # 0 /\ q.pk[1] < N
       ELSE IF q.lost # 0 THEN s = OcErr /\ e = OcErr
       ELSE /\ s = q.secp /\ e = q.ed
            /\ c.threshold = s.threshold /\ c.verifierCount = s.verifier_count
            /\ c.statementDigest = s.statement_digest
            /\ verify(c.envelopeDigest, c.groupKeyX, c.groupKeyY, c.sigRX, c.sigS)
            /\ OnChainAttestation_verify(e) <=> e.threshold \in 1..e.verifier_count

\* "Rust-side Schnorr verification (mirrors `FrostVerifier.sol::verify`)": an
\* attestation that the contract accepts, verify_schnorr accepts as well.
RustMirrorsContract ==
  probe # OcErr /\ probe.kind = "signature" =>
    LET q == probe
    IN verify(q.message, q.pk[1], q.pk[2], q.rx, q.s) =>
         verify_schnorr(extract_secp256k1_attestation(
           "st", "dvrf", "alpha", "sid", q.message, <<q.rx, q.s>>, q.pk, 1, 1)) = "ok"
=============================================================================
