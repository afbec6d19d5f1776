---------------------------- MODULE FrostAdapter ----------------------------
(***************************************************************************)
(* The two FROST adapters, crates/crypto/src/frost_adapter.rs (Ed25519)    *)
(* and frost_secp256k1_adapter.rs with dkg_secp256k1.rs (secp256k1).       *)
(*                                                                         *)
(* Cryptography is symbolic.  A key is the name of the ceremony that made  *)
(* it; a nonce pair is a value, and its commitment is that value under the *)
(* tag "commit"; a share records the package, the key and the nonces that  *)
(* made it; a signature records the group key and the package it covers.   *)
(* An operation that returns an error has the value Err.                   *)
(***************************************************************************)
EXTENDS Integers, Sequences, FiniteSets, FiniteSetsExt

CONSTANT Err    \* the error of a Result

Ed25519 == "FROST-ED25519-SHA512-v1"
Secp256k1 == "FROST-secp256k1-EVM-KECCAK256-v1"

---------------------------------------------------------------------------
(* The frost crates, as the adapters use them.                             *)

\* A participant's share of the key: identifiers are 1..n.
KeyPackage(suite, key, id, min) ==
  [suite |-> suite, key |-> key, id |-> id, min |-> min]

\* The public half: the group key and the identifiers that hold a share.
PublicKeyPackage(suite, key, ids, min) ==
  [suite |-> suite, key |-> key, ids |-> ids, min |-> min]

Commit(nonces) == <<"commit", nonces>>

SigningPackage(commits, message) == [commits |-> commits, message |-> message]

\* frost::round2::sign: enough commitments, the signer's own among them and
\* equal to the commitment of the nonces it signs with.
sign(pkg, nonces, kp) ==
  IF /\ Cardinality(DOMAIN pkg.commits) >= kp.min
     /\ kp.id \in DOMAIN pkg.commits
     /\ pkg.commits[kp.id] = Commit(nonces)
  THEN [pkg |-> pkg, key |-> kp.key, id |-> kp.id] ELSE Err

\* frost::aggregate: one share for every commitment, made by the holder of
\* that identifier with its share of this key, for this package.
aggregate(pkg, shares, pub) ==
  IF /\ DOMAIN shares = DOMAIN pkg.commits
     /\ DOMAIN shares \subseteq pub.ids
     /\ Cardinality(DOMAIN shares) >= pub.min
     /\ \A i \in DOMAIN shares :
          shares[i] = [pkg |-> pkg, key |-> pub.key, id |-> i]
  THEN [key |-> pub.key, pkg |-> pkg] ELSE Err

VerifyingKeyVerifies(vk, message, sig) ==
  sig.key = vk /\ sig.pkg.message = message

\* A map built by inserting the pairs of a sequence in order: a later pair
\* replaces an earlier one with the same key.
InsertAll(pairs) ==
  [k \in {pairs[i][1] : i \in DOMAIN pairs} |->
     LET last == CHOOSE i \in DOMAIN pairs :
                   /\ pairs[i][1] = k
                   /\ \A j \in DOMAIN pairs : pairs[j][1] = k => j <= i
     IN pairs[last][2]]

\* A set of positions in ascending order, and the elements of a sequence at
\* these positions, which is what an iterator's filter passes on.
Ascending(S) ==
  CHOOSE f \in [1..Cardinality(S) -> S] :
    \A i, j \in DOMAIN f : i < j => f[i] < f[j]

Filtered(s, P) ==
  LET pos == Ascending(P) IN [k \in DOMAIN pos |-> s[pos[k]]]

\* The elements of a set in some order: what a hash map's iterator yields.
Listed(S) == CHOOSE f \in Bijection(1..Cardinality(S), S) : TRUE

\* Results collected with `?`: the first error is the error of all.
AnyErr(results) == \E i \in DOMAIN results : results[i] = Err

---------------------------------------------------------------------------
(* Ed25519: frost_adapter.rs.                                              *)

FrostGroupKey(pub, ids) == [pub |-> pub, verifier_to_id |-> ids]

FrostParticipant(kp, id, vid) ==
  [key_package |-> kp, identifier |-> id, verifier_id |-> vid]

verifier_to_identifier(gk, vid) ==
  IF vid \in DOMAIN gk.verifier_to_id THEN gk.verifier_to_id[vid] ELSE Err

\* The key files.  The map is exported as a list of pairs, in hash order;
\* both packages carry the name of their ciphersuite, and the crate refuses
\* to read a package of another one.
group_key_to_json(gk) ==
  [pub |-> gk.pub,
   map |-> {<<v, gk.verifier_to_id[v]>> : v \in DOMAIN gk.verifier_to_id}]

group_key_from_json(json) ==
  IF json = Err \/ json.pub.suite # Ed25519 THEN Err
  ELSE FrostGroupKey(json.pub, InsertAll(Listed(json.map)))

participant_to_json(p) ==
  [pub |-> p.key_package, id |-> p.identifier, vid |-> p.verifier_id]

participant_from_json(json) ==
  IF json = Err \/ json.pub.suite # Ed25519 THEN Err
  ELSE FrostParticipant(json.pub, json.id, json.vid)

frost_trusted_dealer_keygen(vids, threshold, key) ==
  LET n == Len(vids)
      pub == PublicKeyPackage(Ed25519, key, 1..n, threshold)
  IN IF \/ n < 2 \/ threshold < 2 \/ threshold > n
        \/ Cardinality(Range(vids)) # n
     THEN Err
     ELSE [participants |->
             [i \in 1..n |->
                FrostParticipant(KeyPackage(Ed25519, key, i, threshold),
                                 i, vids[i])],
           group_key |->
             FrostGroupKey(pub, InsertAll([i \in 1..n |-> <<vids[i], i>>]))]

\* Nonces from the operating system are named by whoever draws them; the
\* DVRF's are a function of the key share and of alpha.
round1(p, nonces) ==
  [nonces |-> nonces,
   commitment |-> [identifier |-> p.identifier, inner |-> Commit(nonces)]]

dvrf_nonce_seed(p, alpha) == <<"dvrf-nonce-seed/v1", p.key_package, alpha>>

round1_dvrf(p, alpha) == round1(p, dvrf_nonce_seed(p, alpha))

\* On the wire a commitment or a share travels without its identifier: the
\* receiver takes the identifier of the verifier it got it from.
commitment_from_bytes(bytes, vid, gk) ==
  IF verifier_to_identifier(gk, vid) = Err THEN Err
  ELSE [identifier |-> verifier_to_identifier(gk, vid), inner |-> bytes]

share_from_bytes(bytes, vid, gk) ==
  IF verifier_to_identifier(gk, vid) = Err THEN Err
  ELSE [identifier |-> verifier_to_identifier(gk, vid), inner |-> bytes]

\* collected is a sequence of <<vid, bytes>>.
build_signing_package(collected, digest, gk) ==
  LET cs == [i \in DOMAIN collected |->
               commitment_from_bytes(collected[i][2], collected[i][1], gk)]
  IN IF AnyErr(cs) THEN Err
     ELSE SigningPackage(
            InsertAll([i \in DOMAIN cs |-> <<cs[i].identifier, cs[i].inner>>]),
            digest)

FrostThresholdApproval(digest, sig, gk) ==
  [signed_digest |-> digest, signature |-> sig, group_key |-> gk.pub.key]

aggregate_signature_shares(pkg, shares, gk, digest) ==
  LET ss == [i \in DOMAIN shares |->
               share_from_bytes(shares[i][2], shares[i][1], gk)]
      sig == aggregate(
               pkg,
               InsertAll([i \in DOMAIN ss |-> <<ss[i].identifier, ss[i].inner>>]),
               gk.pub)
  IN IF AnyErr(ss) \/ sig = Err THEN Err
     ELSE FrostThresholdApproval(digest, sig, gk)

\* The whole protocol in one process: nonces[i] are what signer i draws.
frost_collect_approval(signers, digest, gk, threshold, nonces) ==
  LET id(i) == verifier_to_identifier(gk, signers[i].verifier_id)
      pkg == SigningPackage(
               InsertAll([i \in DOMAIN signers |->
                            <<id(i), Commit(nonces[i])>>]), digest)
      share(i) == sign(pkg, nonces[i], signers[i].key_package)
      sig == aggregate(
               pkg, InsertAll([i \in DOMAIN signers |-> <<id(i), share(i)>>]),
               gk.pub)
  IN IF \/ Len(signers) < threshold
        \/ \E i \in DOMAIN signers : id(i) = Err \/ share(i) = Err
        \/ sig = Err
     THEN Err ELSE FrostThresholdApproval(digest, sig, gk)

verify_signature(a) ==
  VerifyingKeyVerifies(a.group_key, a.signed_digest, a.signature)

verify_binding(a, signed_digest_of_envelope) ==
  a.signed_digest = signed_digest_of_envelope
=============================================================================
