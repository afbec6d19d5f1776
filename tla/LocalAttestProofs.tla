------------------------- MODULE LocalAttestProofs --------------------------
(***************************************************************************)
(* Proofs about the in-process coordinator that attests over a session     *)
(* store, for any quorum, requests and registries.                         *)
(***************************************************************************)
EXTENDS LocalAttest, FrostAdapterProofs

LN == Len(LVids)

\* The quorum and the dealer's shares are those of the list of verifiers.
LEMMA LocalConfig ==
  /\ LN \in Nat /\ DOMAIN LVids = 1..LN /\ LThreshold \in 2..LN
  /\ LQuorum.verifiers = LVids /\ LQuorum.threshold = LThreshold
  /\ LDealer = [participants |->
                  [i \in 1..LN |->
                     FrostParticipant(KeyPackage(Ed25519, "local", i, LThreshold),
                                      i, LVids[i])],
                group_key |->
                  FrostGroupKey(PublicKeyPackage(Ed25519, "local", 1..LN, LThreshold),
                                InsertAll([i \in 1..LN |-> <<LVids[i], i>>]))]
<1>1. LN \in Nat /\ DOMAIN LVids = 1..LN /\ LThreshold \in 2..LN
  BY LAssumption DEF LN
<1>2. LVids # <<>> /\ LThreshold # 0 /\ ~(LThreshold > Len(LVids))
  BY <1>1
<1>3. LQuorum = [verifiers |-> LVids, threshold |-> LThreshold]
  BY <1>2, Zenon DEF LQuorum, QuorumSpec_new
<1>4. Cardinality(Range(LVids)) = LN
  <2>1. LVids \in Surjection(1..LN, Range(LVids))
    BY <1>1, LAssumption DEF Range, Surjection
  <2>2. LVids \in Injection(1..LN, Range(LVids))
    BY <1>1, <2>1, LAssumption, Zenon DEF Surjection, Injection, IsInjective
  <2>3. IsFiniteSet(1..LN) /\ Cardinality(1..LN) = LN
    BY <1>1, FS_Interval
  <2> QED BY <1>1, <2>1, <2>2, <2>3, FS_Surjection, Zenon
<1>5. ~(Len(LVids) < 2 \/ LThreshold < 2 \/ LThreshold > Len(LVids))
  BY <1>1 DEF LN
<1> QED BY <1>1, <1>3, <1>4, <1>5 DEF LDealer, frost_trusted_dealer_keygen, LN

\* More approvals never unsettle a quorum.
LEMMA MoreSatisfy ==
  ASSUME NEW S, NEW T, S \subseteq T, is_satisfied_by(LQuorum, S)
  PROVE  is_satisfied_by(LQuorum, T)
<1> DEFINE At(X) == {i \in 1..LN : LVids[i] \in X}
<1>1. IsFiniteSet(1..LN)
  BY LocalConfig, FS_Interval
<1>2. IsFiniteSet(At(T)) /\ IsFiniteSet(At(S))
  BY <1>1, FS_Subset, Zenon
<1>3. Cardinality(At(S)) <= Cardinality(At(T))
  BY <1>2, FS_Subset, Zenon
<1>4. Cardinality(At(S)) \in Nat /\ Cardinality(At(T)) \in Nat
  BY <1>2, FS_CardinalityType, Zenon
<1>5. Cardinality(At(S)) >= LThreshold
  BY LocalConfig, Zenon DEF is_satisfied_by
<1>6. Cardinality(At(T)) >= LThreshold
  BY <1>3, <1>4, <1>5, LocalConfig
<1> QED BY <1>6, LocalConfig, Zenon DEF is_satisfied_by

\* An approval of the quorum that verifies and names verifiers that have a
\* configured key and sent one of the partials.
AggregateOk(A, partials, d, keys) ==
  /\ is_satisfied_by(LQuorum, Range(A.signers))
  /\ Range(A.signers) \subseteq keys
  /\ \A v \in Range(A.signers) : \E k \in DOMAIN partials : partials[k].verifier_id = v
  /\ Range(A.signatures)
       = {sign_partial(v, approval_digest(d)) : v \in Range(A.signers)}
  /\ verify_threshold_approval(A, d, keys)

\* What aggregate_signatures returns when every partial it is given is a
\* signature of the digest by the verifier it names.
LEMMA Aggregated ==
  ASSUME NEW m \in Nat, NEW partials, DOMAIN partials = 1..m, NEW keys, NEW d, NEW A,
         \A k \in 1..m :
           partials[k] = sign_partial(partials[k].verifier_id, approval_digest(d)),
         A = aggregate_signatures(partials, LQuorum, d, keys), A # Err
  PROVE  AggregateOk(A, partials, d, keys)
<1> DEFINE digest == approval_digest(d)
           members == Range(LQuorum.verifiers)
           Pos == {i \in DOMAIN partials : partials[i].verifier_id \in members}
           mine == Filtered(partials, Pos)
           First(i) == \A j \in 1..(i - 1) : mine[j].verifier_id # mine[i].verifier_id
           Q == {i \in DOMAIN mine : First(i)}
           valid == Filtered(mine, Q)
           signers == [k \in DOMAIN valid |-> valid[k].verifier_id]
           p == Cardinality(Pos)
           n == Cardinality(Q)
<1>1. /\ \A i \in DOMAIN mine : partial_ok(mine[i], digest, keys)
      /\ is_satisfied_by(LQuorum, Range(signers))
      /\ A = [quorum |-> LQuorum, signers |-> signers, signatures |-> valid,
              signed_digest |-> digest]
  BY Zenon DEF aggregate_signatures
<1>2. IsPositions(Pos)
  BY Zenon DEF IsPositions
<1>3. /\ p \in Nat /\ DOMAIN mine = 1..p
      /\ \A k \in 1..p : \E i \in Pos : mine[k] = partials[i]
  <2> HIDE DEF Pos
  <2> DEFINE f == Ascending(Pos)
  <2>1. /\ p \in Nat /\ DOMAIN mine = 1..p /\ f \in [1..p -> Pos]
        /\ \A k \in 1..p : mine[k] = partials[f[k]]
    <3>1. p \in Nat
      BY <1>2, FilteredOf
    <3>2. DOMAIN mine = 1..p
      BY <1>2, FilteredOf, Zenon
    <3>3. f \in [1..p -> Pos]
      BY <1>2, FilteredOf, Zenon
    <3>4. \A k \in 1..p : mine[k] = partials[f[k]]
      BY <1>2, FilteredOf
    <3> QED BY <3>1, <3>2, <3>3, <3>4, Zenon
  <2> HIDE DEF f, mine, p
  <2> QED BY <2>1, Zenon
<1>4. \A k \in 1..p : /\ mine[k].verifier_id \in members
                       /\ \E i \in 1..m : mine[k] = partials[i]
  BY <1>3, Zenon
<1> HIDE DEF mine, Pos, p
<1>5. IsPositions(Q)
  BY <1>3, Zenon DEF IsPositions
<1>6. /\ n \in Nat /\ DOMAIN valid = 1..n
      /\ \A k \in 1..n : \E i \in DOMAIN mine : valid[k] = mine[i]
  <2> HIDE DEF Q
  <2>1. /\ n \in Nat /\ DOMAIN valid = 1..n
        /\ \A k \in 1..n : \E i \in Q : valid[k] = mine[i]
    BY <1>5, FilteredOf
  <2> QED BY <2>1, Zenon DEF Q
<1> HIDE DEF valid, Q, n
<1>7. \A k \in 1..n :
        /\ valid[k].verifier_id \in members
        /\ \E i \in 1..m : valid[k] = partials[i]
        /\ partial_ok(valid[k], digest, keys)
  BY <1>1, <1>3, <1>4, <1>6
<1>8. \A k \in 1..n : valid[k] = sign_partial(valid[k].verifier_id, digest)
  BY <1>7, Zenon
<1>9. /\ DOMAIN signers = 1..n /\ \A k \in 1..n : signers[k] = valid[k].verifier_id
      /\ Range(signers) = {valid[k].verifier_id : k \in 1..n}
  BY <1>6, Zenon DEF Range
<1>10. A.signers = signers /\ A.signatures = valid /\ A.quorum = LQuorum
       /\ A.signed_digest = digest
  <2> HIDE DEF signers, digest
  <2> QED BY <1>1
<1> HIDE DEF signers
<1>11. Range(signers) \subseteq keys
  BY <1>7, <1>9, Zenon DEF partial_ok
<1>12. \A v \in Range(signers) : \E k \in DOMAIN partials : partials[k].verifier_id = v
  BY <1>7, <1>9
<1>13. Range(valid) = {sign_partial(v, digest) : v \in Range(signers)}
  <2>1. Range(valid) = {valid[k] : k \in 1..n}
    BY <1>6, Zenon DEF Range
  <2> HIDE DEF digest
  <2> QED BY <1>8, <1>9, <2>1
<1>14. n >= LThreshold
  <2> DEFINE T == {i \in 1..LN : LVids[i] \in Range(signers)}
             f == [i \in T |-> CHOOSE k \in 1..n : valid[k].verifier_id = LVids[i]]
  <2>1. \A i \in T : f[i] \in 1..n /\ valid[f[i]].verifier_id = LVids[i]
    BY <1>9, Zenon
  <2>2. \A i, j \in T : f[i] = f[j] => i = j
    <3> SUFFICES ASSUME NEW i \in T, NEW j \in T, f[i] = f[j] PROVE i = j
      BY Zenon
    <3>1. LVids[i] = LVids[j]
      BY <2>1, Zenon
    <3> QED BY <3>1, LAssumption, LocalConfig, Zenon
  <2>3. f \in [T -> 1..n]
    BY <2>1, Zenon
  <2> HIDE DEF f
  <2>4. f \in Injection(T, 1..n)
    BY <2>2, <2>3, Zenon DEF Injection, IsInjective
  <2>5. IsFiniteSet(1..n) /\ Cardinality(1..n) = n
    <3>1. n \in Nat
      BY <1>6, Zenon
    <3> QED BY ONLY <3>1, FS_Interval
  <2>6. IsFiniteSet(T) /\ Cardinality(T) <= n
    BY <2>4, <2>5, FS_Injection
  <2>7. Cardinality(T) >= LThreshold
    BY <1>1, LocalConfig, Zenon DEF is_satisfied_by
  <2>8. Cardinality(T) \in Nat
    BY <2>6, FS_CardinalityType, Zenon
  <2> HIDE DEF T
  <2> QED BY <1>6, <2>6, <2>7, <2>8, LocalConfig
<1>15. verify_threshold_approval(A, d, keys)
  <2> DEFINE W == {i \in DOMAIN valid : valid[i].verifier_id \in members}
             w == Filtered(valid, W)
  <2>1. W = 1..n
    BY <1>6, <1>7
  <2>2. DOMAIN w = 1..n /\ \A k \in 1..n : w[k] = valid[k]
    <3>1. n \in Nat
      BY <1>6
    <3> HIDE DEF W
    <3> QED BY ONLY <2>1, <3>1, FilteredAll, Zenon
  <2>3. Len(w) = n
    BY <1>6, <2>2
  <2>4. \A i \in DOMAIN w : partial_ok(w[i], digest, keys)
    BY <1>7, <2>2, Zenon
  <2>5. Len(w) >= LQuorum.threshold
    BY <1>14, <2>3, LocalConfig, Zenon
  <2> HIDE DEF w
  <2>6. w = Filtered(A.signatures, {i \in DOMAIN A.signatures :
                         A.signatures[i].verifier_id \in Range(A.quorum.verifiers)})
    BY <1>10, Zenon DEF w
  <2> HIDE DEF digest
  <2>7. A.signed_digest = approval_digest(d)
    BY <1>10, Zenon DEF digest
  <2> QED BY <1>1, <1>10, <2>4, <2>5, <2>6, <2>7, Zenon DEF verify_threshold_approval
<1> QED BY <1>1, <1>10, <1>11, <1>12, <1>13, <1>15, Zenon DEF AggregateOk

\* The share of a verifier, as CollectFrost picks it.
ShareOf(v) == LDealer.participants[CHOOSE i \in DOMAIN LVids : LVids[i] = v]

\* The dealer's share for a verifier of the list names it, and the group key
\* maps it to its position.
LEMMA ShareOfVerifier ==
  ASSUME NEW j \in 1..LN
  PROVE  /\ ShareOf(LVids[j]).verifier_id = LVids[j]
         /\ verifier_to_identifier(LDealer.group_key, LVids[j]) = j
<1>1. (CHOOSE i \in DOMAIN LVids : LVids[i] = LVids[j]) = j
  BY LocalConfig, LAssumption, Zenon
<1>2. ShareOf(LVids[j]).verifier_id = LVids[j]
  <2> DEFINE kp(i) == KeyPackage(Ed25519, "local", i, LThreshold)
             ps == [i \in 1..LN |-> FrostParticipant(kp(i), i, LVids[i])]
  <2>1. LDealer.participants = ps
    BY LocalConfig, Zenon
  <2>2. ShareOf(LVids[j]) = FrostParticipant(kp(j), j, LVids[j])
    BY <1>1, <2>1, Zenon DEF ShareOf
  <2> HIDE DEF kp
  <2> QED BY <2>2 DEF FrostParticipant
<1> DEFINE pairs == [i \in 1..LN |-> <<LVids[i], i>>]
           D == Range(LVids)
           pos == [v \in D |-> CHOOSE i \in 1..LN : LVids[i] = v]
<1>3. InsertAll(pairs) = pos
  <2>1. \A i \in 1..LN : pairs[i][1] = LVids[i] /\ pairs[i][2] = i
    BY Zenon
  <2>2. \A i \in 1..LN : LVids[i] \in D
    BY LocalConfig, Zenon DEF Range
  <2>3. \A v \in D : \E i \in 1..LN : LVids[i] = v
    BY LocalConfig, Zenon DEF Range
  <2>4. \A i \in 1..LN : pos[LVids[i]] = i
    BY <2>2, LocalConfig, LAssumption
  <2>5. DOMAIN pairs = 1..LN /\ pos = [v \in D |-> pos[v]]
    OBVIOUS
  <2> HIDE DEF pairs, pos, D
  <2>6. PairsOf(pairs, LN, D, pos)
    <3>1. ASSUME NEW i \in 1..LN
          PROVE  pairs[i][1] \in D /\ pairs[i][2] = pos[pairs[i][1]]
      BY <2>1, <2>2, <2>4, Zenon
    <3>2. ASSUME NEW v \in D PROVE \E i \in 1..LN : pairs[i][1] = v
      <4>1. PICK i \in 1..LN : LVids[i] = v
        BY <2>3, Zenon
      <4>2. pairs[i][1] = v
        BY <2>1, <4>1, Zenon
      <4> QED
        BY <4>2, Zenon
    <3> QED
      BY <2>5, <3>1, <3>2, Zenon DEF PairsOf
  <2> QED BY <2>6, LocalConfig, InsertedFunction, Zenon
<1>4. LVids[j] \in D /\ pos[LVids[j]] = j
  BY LocalConfig, LAssumption, Zenon DEF Range
<1>5. LDealer.group_key.verifier_to_id = pos
  <2> DEFINE gk == FrostGroupKey(PublicKeyPackage(Ed25519, "local", 1..LN, LThreshold),
                                 InsertAll(pairs))
  <2>1. gk.verifier_to_id = InsertAll(pairs)
    BY Zenon DEF FrostGroupKey
  <2>2. LDealer.group_key = gk
    <3> HIDE DEF gk
    <3> QED BY LocalConfig, Zenon DEF gk
  <2> QED BY <1>3, <2>1, <2>2, Zenon
<1>6. verifier_to_identifier(LDealer.group_key, LVids[j]) = j
  <2>1. DOMAIN pos = D
    BY Zenon
  <2> HIDE DEF pos, D
  <2> QED BY <1>4, <1>5, <2>1, Zenon DEF verifier_to_identifier
<1> QED BY <1>2, <1>6, Zenon

\* What frost_collect_approval returns verifies, and it needed shares of a
\* quorum of different verifiers, however often one was listed.
LEMMA FrostApproved ==
  ASSUME NEW r \in LRequests, r.path = "frost", NEW digest, NEW nonces, NEW A,
         A = frost_collect_approval([i \in DOMAIN r.signers |-> ShareOf(r.signers[i])],
               digest, LDealer.group_key, LQuorum.threshold, nonces),
         A # Err
  PROVE  /\ verify_signature(A) /\ verify_binding(A, digest)
         /\ is_satisfied_by(LQuorum, Range(r.signers))
<1> DEFINE ss == r.signers
           n == Len(ss)
           gk == LDealer.group_key
           signers == [i \in DOMAIN ss |-> ShareOf(ss[i])]
           id(i) == verifier_to_identifier(gk, signers[i].verifier_id)
           commits == InsertAll([i \in DOMAIN signers |-> <<id(i), Commit(nonces[i])>>])
           pkg == SigningPackage(commits, digest)
           share(i) == sign(pkg, nonces[i], signers[i].key_package)
           shares == InsertAll([i \in DOMAIN signers |-> <<id(i), share(i)>>])
           sig == aggregate(pkg, shares, gk.pub)
<1>1. sig # Err /\ A = FrostThresholdApproval(digest, sig, gk)
  BY Zenon DEF frost_collect_approval
<1>2. /\ n \in Nat /\ DOMAIN ss = 1..n
      /\ \A i \in 1..n : \E j \in 1..LN : ss[i] = LVids[j]
  <2>1. ss \in Seq(Range(ss)) /\ Range(ss) \subseteq Range(LVids)
    BY LAssumption, Zenon
  <2>2. Range(LVids) = {LVids[j] : j \in 1..LN}
    BY LocalConfig, Zenon DEF Range
  <2>3. \A i \in DOMAIN ss : ss[i] \in Range(ss)
    BY Zenon DEF Range
  <2> QED BY <2>1, <2>2, <2>3
<1>3. DOMAIN signers = 1..n
  BY <1>2, Zenon
<1>4. \A i \in 1..n : id(i) \in 1..LN /\ LVids[id(i)] = ss[i]
  <2> TAKE i \in 1..n
  <2>1. PICK j \in 1..LN : ss[i] = LVids[j]
    BY <1>2, Zenon
  <2>2. signers[i] = ShareOf(LVids[j])
    BY <1>2, <2>1, Zenon
  <2> HIDE DEF signers
  <2> QED BY <2>1, <2>2, ShareOfVerifier, Zenon
<1>5. DOMAIN shares = {id(i) : i \in 1..n}
  <2> HIDE DEF id, share, signers
  <2> QED BY <1>3, Zenon DEF InsertAll
<1>6. gk.pub.min = LThreshold /\ pkg.message = digest
  <2> DEFINE pub == PublicKeyPackage(Ed25519, "local", 1..LN, LThreshold)
             g == FrostGroupKey(pub, InsertAll([i \in 1..LN |-> <<LVids[i], i>>]))
  <2>1. pub.min = LThreshold
    BY Zenon DEF PublicKeyPackage
  <2> HIDE DEF pub
  <2>2. g.pub = pub
    BY Zenon DEF FrostGroupKey
  <2> HIDE DEF g
  <2>3. gk = g
    BY LocalConfig, Zenon DEF g, pub
  <2>4. pkg.message = digest
    <3> HIDE DEF commits
    <3> QED BY Zenon DEF SigningPackage
  <2> QED BY <2>1, <2>2, <2>3, <2>4, Zenon
<1> HIDE DEF pkg, shares, id, signers, gk
<1>7. Cardinality(DOMAIN shares) >= gk.pub.min /\ sig = [key |-> gk.pub.key, pkg |-> pkg]
  BY <1>1, Zenon DEF aggregate
<1>8. verify_signature(A) /\ verify_binding(A, digest)
  <2> HIDE DEF sig
  <2>1. A.signed_digest = digest /\ A.signature = sig /\ A.group_key = gk.pub.key
    BY <1>1 DEF FrostThresholdApproval
  <2>2. sig.key = gk.pub.key /\ sig.pkg = pkg
    BY <1>7, Zenon
  <2> QED BY <1>6, <2>1, <2>2, Zenon DEF verify_signature, verify_binding, VerifyingKeyVerifies
<1>9. is_satisfied_by(LQuorum, Range(ss))
  <2> DEFINE T == {i \in 1..LN : LVids[i] \in Range(ss)}
             I == {id(i) : i \in 1..n}
  <2>1. I \subseteq T
    <3>1. \A i \in 1..n : ss[i] \in Range(ss)
      BY <1>2, Zenon DEF Range
    <3> QED BY <1>4, <3>1, Zenon
  <2>2. IsFiniteSet(1..LN)
    BY LocalConfig, FS_Interval
  <2>3. IsFiniteSet(T)
    BY <2>2, FS_Subset
  <2> HIDE DEF T, I
  <2>4. IsFiniteSet(I) /\ Cardinality(I) <= Cardinality(T)
    BY <2>1, <2>3, FS_Subset, Zenon
  <2>5. Cardinality(I) \in Nat /\ Cardinality(T) \in Nat
    BY <2>3, <2>4, FS_CardinalityType, Zenon
  <2>6. Cardinality(T) >= LThreshold
    BY <1>5, <1>6, <1>7, <2>4, <2>5, LocalConfig DEF I
  <2> QED BY <2>6, LocalConfig, Zenon DEF is_satisfied_by, T
<1> QED BY <1>8, <1>9, Zenon

\* A context as prepare_session makes it, an engine's run for it, and the
\* parts of an envelope made of them.
CtxOk(ctx) ==
  /\ ~is_expired(ctx, LClock)
  /\ ctx.session_digest
       = session_context_digest(ctx.session_id, ctx.prover_id, ctx.coordinator_id,
           ctx.quorum, ctx.epoch, ctx.created_at, ctx.expires_at, ctx.nonce)
  /\ ctx.expires_at - ctx.created_at <= MaxSessionDuration

\* What every engine returns: a transcript of the session and its evidence.
RunOk(ctx, run) ==
  LET tc == run.tc
      ev == run.evidence
  IN /\ tc.session_transcript_digest
          = session_transcript_digest(ctx.session_id, tc.query.digest,
                                      tc.response.digest)
     /\ ev.evidence_digest = exportable_digest(ev.engine_tag, ev.bytes)
     /\ ev.engine_tag = DCTLS_ENGINE_TAG

\* A prepared session: the envelope digest is of its parts, the verifiers sign
\* its approval digest, and the verifier checks accept its package.
PrepOk(p) ==
  /\ p.envelope_digest = envelope_digest_of(p.ctx, p.binding, p.tc, p.st, p.ce)
  /\ p.signed_digest = approval_digest(p.envelope_digest)
  /\ check(permissive, p.package, p.st, LClock)

\* A time to live of zero becomes one second.
LEMMA ContextOk ==
  ASSUME NEW ttl \in Nat, ttl <= DefaultTtl, NEW q, NEW cid, NEW quorum,
         NEW epoch, NEW nonce
  PROVE  CtxOk(SessionContext_new(q, "prover", cid, quorum, epoch, LClock,
                                  LClock + ttl, nonce))
<1> DEFINE exp == IF LClock + ttl <= LClock THEN LClock + 1 ELSE LClock + ttl
           sd == session_context_digest(q, "prover", cid, quorum, epoch, LClock, exp, nonce)
           ctx == SessionContext_new(q, "prover", cid, quorum, epoch, LClock,
                                     LClock + ttl, nonce)
<1>1. /\ exp \in Int /\ LClock \in Int /\ ~(LClock > exp)
      /\ exp - LClock <= MaxSessionDuration
  BY LAssumption DEF LClock
<1> HIDE DEF exp, sd
<1>2. ctx = [session_id |-> q, prover_id |-> "prover", coordinator_id |-> cid,
             quorum |-> quorum, epoch |-> epoch, created_at |-> LClock,
             expires_at |-> exp, nonce |-> nonce, session_digest |-> sd]
  BY Zenon DEF SessionContext_new, exp, sd
<1> HIDE DEF ctx
<1>3. /\ ctx.session_id = q /\ ctx.prover_id = "prover" /\ ctx.coordinator_id = cid
      /\ ctx.quorum = quorum /\ ctx.epoch = epoch /\ ctx.created_at = LClock
      /\ ctx.expires_at = exp /\ ctx.nonce = nonce /\ ctx.session_digest = sd
  BY <1>2
<1>4. CtxOk(ctx)
  BY <1>1, <1>3, Zenon DEF CtxOk, is_expired, has_expired, sd
<1> QED BY <1>4, Zenon DEF ctx

\* Both engines that attest can be started with export evidence of the same
\* form.
LEMMA DctlsRunOk ==
  ASSUME NEW ctx, NEW rand, NEW query, NEW response, NEW sps, NEW spp, NEW tag
  PROVE  RunOk(ctx, DctlsRun(ctx, rand, query, response, sps, spp, tag, DCTLS_ENGINE_TAG))
<1> DEFINE run == DctlsRun(ctx, rand, query, response, sps, spp, tag, DCTLS_ENGINE_TAG)
           sid == ctx.session_id
           tq == TranscriptCommitment_compute("query", sid, rand, query)
           tr == TranscriptCommitment_compute("response", sid, rand, response)
           d == session_transcript_digest(sid, tq.digest, tr.digest)
           tc == TranscriptCommitments_build(sid, rand, query, response)
<1>1. PICK ev : run.tc = tc /\ run.evidence = ExportableEvidence_new(DCTLS_ENGINE_TAG, ev)
  BY Zenon DEF DctlsRun
<1>2. tc = [query |-> tq, response |-> tr, session_transcript_digest |-> d]
  BY Zenon DEF TranscriptCommitments_build
<1> HIDE DEF run, tc, tq, tr, d
<1>3. tc.query = tq /\ tc.response = tr /\ tc.session_transcript_digest = d
  BY <1>2, Zenon
<1> DEFINE x == ExportableEvidence_new(DCTLS_ENGINE_TAG, ev)
<1>4. /\ x.engine_tag = DCTLS_ENGINE_TAG /\ x.bytes = ev
      /\ x.evidence_digest = exportable_digest(DCTLS_ENGINE_TAG, ev)
  BY DEF ExportableEvidence_new
<1> HIDE DEF x
<1>5. RunOk(ctx, run)
  BY <1>1, <1>3, <1>4 DEF RunOk, x, d
<1> QED BY <1>5, Zenon DEF run

\* Whatever the engine ran, the package passes a verifier's own checks.
LEMMA PreparedOk ==
  ASSUME NEW q, NEW ctx, CtxOk(ctx), NEW out, NEW run, RunOk(ctx, run)
  PROVE  PrepOk(PreparedSession(q, ctx, out, run.tc, run.evidence))
<1> DEFINE tc == run.tc
           ev == run.evidence
           pd == package_digest(ctx.session_digest, out.value,
                                tc.session_transcript_digest, ev.evidence_digest)
           package == AttestationPackage_build(ctx, out.value, tc, ev)
           sd == derive_statement_digest("balance/v1", tc.session_transcript_digest,
                                         lreq[q].response)
           st == StatementPayload_new(lreq[q].response, "balance/v1",
                                      tc.session_transcript_digest)
           binding == RandomnessBinding(<<"random-id", q>>, out.value, lconfig.epoch,
                                        out.session_binding)
           ce == CoordinatorEvidence(ev, package)
           digest == envelope_digest_of(ctx, binding, tc, st, ce)
           signed == approval_digest(digest)
           p == PreparedSession(q, ctx, out, tc, ev)
<1>1. p = [ctx |-> ctx, binding |-> binding, tc |-> tc, st |-> st, ce |-> ce,
           package |-> package, envelope_digest |-> digest, signed_digest |-> signed]
  BY Zenon DEF PreparedSession
<1>2. package = [session_context |-> ctx, randomness_value |-> out.value,
                 transcript_commitments |-> tc, evidence |-> ev, package_digest |-> pd]
  BY Zenon DEF AttestationPackage_build
<1>3. st = [content |-> lreq[q].response, derivation_tag |-> "balance/v1",
            statement_digest |-> sd]
  BY Zenon DEF StatementPayload_new
<1> HIDE DEF tc, ev, pd, package, sd, st, binding, ce, digest, signed, p
<1>4. /\ p.ctx = ctx /\ p.binding = binding /\ p.tc = tc /\ p.st = st /\ p.ce = ce
      /\ p.package = package /\ p.envelope_digest = digest /\ p.signed_digest = signed
  BY <1>1, Zenon
<1>5. /\ package.session_context = ctx /\ package.randomness_value = out.value
      /\ package.transcript_commitments = tc /\ package.evidence = ev
      /\ package.package_digest = pd
  BY <1>2, Zenon
<1>6. /\ st.content = lreq[q].response /\ st.derivation_tag = "balance/v1"
      /\ st.statement_digest = sd
  BY <1>3, Zenon
<1>7. StatementPayload_verify_digest(st, tc.session_transcript_digest)
  BY <1>6 DEF StatementPayload_verify_digest, sd
<1>8. /\ permissive.allowed_engine_tags = {PROTOTYPE_ENGINE_TAG, DCTLS_ENGINE_TAG}
      /\ permissive.allowed_statement_tags = {}
      /\ permissive.max_session_duration = MaxSessionDuration
  BY DEF permissive
<1>9. check(permissive, package, st, LClock)
  <2>1. /\ tc.session_transcript_digest
             = session_transcript_digest(ctx.session_id, tc.query.digest, tc.response.digest)
        /\ ev.evidence_digest = exportable_digest(ev.engine_tag, ev.bytes)
        /\ ev.engine_tag = DCTLS_ENGINE_TAG
    BY Zenon DEF RunOk, tc, ev
  <2>2. pd = package_digest(ctx.session_digest, out.value,
                            tc.session_transcript_digest, ev.evidence_digest)
    BY Zenon DEF pd
  <2> QED BY <1>5, <1>7, <1>8, <2>1, <2>2, Zenon DEF check, CtxOk
<1>10. PrepOk(p)
  BY <1>4, <1>9, Zenon DEF PrepOk, digest, signed
<1> QED BY <1>10, Zenon DEF p, tc, ev

\* The run of the engine of a request, and what it is when it is no error.
LocalRun(ctx, rand, conn, response) ==
  IF conn = Err
  THEN PrototypeDctlsEngine_execute(ctx, rand, "query", response)
  ELSE TlsAttestationEngine_execute("host", conn, LClock, ctx, rand, "query")

\* Both engines of the coordinator return such a run or an error.
LEMMA LocalRunOk ==
  ASSUME NEW ctx, NEW rand, NEW conn, NEW response,
         LocalRun(ctx, rand, conn, response) # Err
  PROVE  RunOk(ctx, LocalRun(ctx, rand, conn, response))
<1> DEFINE run == LocalRun(ctx, rand, conn, response)
<1>0. run # Err /\ run = LocalRun(ctx, rand, conn, response)
  BY Zenon
<1> HIDE DEF run
<1>1. ASSUME conn = Err PROVE RunOk(ctx, run)
  <2>1. run = PrototypeDctlsEngine_execute_dctls(ctx, rand, "query", response, ZeroDigest)
    BY <1>0, <1>1 DEF PrototypeDctlsEngine_execute, LocalRun
  <2> QED BY <2>1, DctlsRunOk, Zenon DEF PrototypeDctlsEngine_execute_dctls
<1>2. ASSUME conn # Err PROVE RunOk(ctx, run)
  <2> DEFINE capture == connect_and_capture("host", conn, "query", rand, LClock)
  <2>1. run = build_dctls_evidence(ctx, rand, "query", capture)
    <3> HIDE DEF capture
    <3>1. run = IF capture = Err THEN Err
                ELSE build_dctls_evidence(ctx, rand, "query", capture)
      BY <1>0, <1>2, Zenon DEF TlsAttestationEngine_execute, capture, LocalRun
    <3> QED BY <1>0, <3>1, Zenon
  <2> HIDE DEF capture
  <2> QED BY <2>1, DctlsRunOk, Zenon DEF build_dctls_evidence
<1>3. RunOk(ctx, run)
  BY <1>1, <1>2, Zenon
<1> QED BY <1>0, <1>3

\* The state of one call: its context and its parts are good, the partials of
\* attest are signatures of recorded approvals, and an envelope that
\* attest_frost is about to return verifies and has a quorum, of which the
\* signers before the next one are recorded.
PartialsOk(q, partials, digest, ap) ==
  \E T : /\ partials \in Seq(T)
         /\ \A t \in T : /\ t = sign_partial(t.verifier_id, digest)
                          /\ <<q, t.verifier_id>> \in ap

\* An envelope of attest_frost that its own checks accept.
FrostOk(e, r) ==
  /\ AttestationEnvelope_verify_digest(e)
  /\ verify_signature(e.approval)
  /\ verify_binding(e.approval, approval_digest(e.envelope_digest))
  /\ is_satisfied_by(LQuorum, Range(r.signers))

\* What is known of a request at each step of attest and attest_frost.
LCallInv(q, c, ap, r) ==
  /\ c.pc \in {"start", "activate", "execute", "collect", "threshold", "frost",
               "record", "ok", "error", "crashed"}
  /\ c.pc \in {"activate", "execute"} => CtxOk(c.ctx)
  /\ c.pc \in {"collect", "threshold", "frost", "record", "ok"} => PrepOk(c.prep)
  /\ c.pc = "threshold" =>
       /\ r.path = "threshold"
       /\ c = [pc |-> "threshold", prep |-> c.prep, next |-> c.next,
               partials |-> c.partials]
       /\ PartialsOk(q, c.partials, c.prep.signed_digest, ap)
  /\ c.pc = "frost" => r.path = "frost"
  /\ c.pc = "record" =>
       /\ r.path = "frost" /\ c.next \in Nat \ {0} /\ FrostOk(c.envelope, r)
       /\ c = [pc |-> "record", prep |-> c.prep, next |-> c.next,
               envelope |-> c.envelope]
       /\ \A i \in DOMAIN r.signers : i < c.next => <<q, r.signers[i]>> \in ap

\* FinalizedMeansApproved for one request.
Approved(q, c, st, ap, cf, r) ==
  LET keys == cf.verifier_public_keys
      threshold == r.path = "threshold"
      Recorded(S) == {v \in S : <<q, v>> \in ap}
  IN /\ st = "Finalized" =>
          is_satisfied_by(cf.quorum, Recorded(IF threshold THEN keys ELSE Range(LVids)))
     /\ c.pc # "crashed" => (c.pc = "ok") = (st = "Finalized")
     /\ c.pc = "ok" =>
          LET e == c.envelope
              a == e.approval
              by == Range(IF threshold THEN a.signers ELSE r.signers)
          IN /\ AttestationEnvelope_verify_digest(e)
             /\ Recorded(by) = by
             /\ IF threshold
                THEN /\ verify_threshold_approval(a, e.envelope_digest, keys)
                     /\ {verify_and_sign(v, permissive, c.prep.package,
                           c.prep.st, e.envelope_digest, LClock) : v \in by}
                        = Range(a.signatures)
                ELSE /\ verify_signature(a)
                     /\ verify_binding(a, approval_digest(e.envelope_digest))

\* The inductive invariant: the steps of the requests, and FinalizedMeansApproved.
LInv ==
  /\ \E reg \in LRegistries : lconfig = from_registry(reg)
  /\ lreq \in [LReq -> LRequests] /\ DOMAIN lcall = LReq /\ DOMAIN lstore = LReq
  /\ \A q \in LReq :
       /\ LCallInv(q, lcall[q], lapproved, lreq[q])
       /\ Approved(q, lcall[q], lstore[q], lapproved, lconfig, lreq[q])

\* Whichever keys are registered, quorum and time to live are the configured.
LEMMA ConfigOf ==
  ASSUME NEW cf, \E reg \in LRegistries : cf = from_registry(reg)
  PROVE  cf.quorum = LQuorum /\ cf.default_ttl = DefaultTtl
BY DEF from_registry

\* More rows in the approvals table disturb no call.
LEMMA MoreApprovals ==
  ASSUME NEW q, NEW c, NEW st, NEW ap, NEW more, NEW cf, NEW r, ap \subseteq more,
         cf.quorum = LQuorum, LCallInv(q, c, ap, r), Approved(q, c, st, ap, cf, r)
  PROVE  LCallInv(q, c, more, r) /\ Approved(q, c, st, more, cf, r)
<1>1. \A x, d : PartialsOk(q, x, d, ap) => PartialsOk(q, x, d, more)
  BY Zenon DEF PartialsOk
<1>2. LCallInv(q, c, more, r)
  BY <1>1 DEF LCallInv
<1>3. Approved(q, c, st, more, cf, r)
  <2> DEFINE S == IF r.path = "threshold" THEN cf.verifier_public_keys ELSE Range(LVids)
             A == {v \in S : <<q, v>> \in ap}
             B == {v \in S : <<q, v>> \in more}
  <2>1. A \subseteq B
    BY Zenon
  <2>2. st = "Finalized" => is_satisfied_by(LQuorum, A)
    BY Zenon DEF Approved
  <2> HIDE DEF A, B
  <2>3. st = "Finalized" => is_satisfied_by(LQuorum, B)
    BY <2>1, <2>2, MoreSatisfy, Zenon
  <2>4. st = "Finalized" => is_satisfied_by(cf.quorum, B)
    BY <2>3, Zenon
  <2>5. c.pc = "ok" =>
          LET by == Range(IF r.path = "threshold" THEN c.envelope.approval.signers
                          ELSE r.signers)
          IN  {v \in by : <<q, v>> \in more} = by
    <3> DEFINE by == Range(IF r.path = "threshold" THEN c.envelope.approval.signers
                           ELSE r.signers)
    <3>1. c.pc = "ok" => {v \in by : <<q, v>> \in ap} = by
      BY Zenon DEF Approved
    <3> HIDE DEF by
    <3>2. c.pc = "ok" => {v \in by : <<q, v>> \in more} = by
      BY <3>1, Zenon
    <3> QED BY <3>2, Zenon DEF by
  <2> QED BY <2>4, <2>5, Zenon DEF Approved, B
<1> QED BY <1>2, <1>3, Zenon

\* One call moves, the others do not, and the approvals table only grows.
LEMMA OneCallMoves ==
  ASSUME LInv, NEW q \in LReq, lapproved \subseteq lapproved',
         lconfig' = lconfig, lreq' = lreq,
         DOMAIN lcall' = LReq, DOMAIN lstore' = LReq,
         \A x \in LReq \ {q} : lcall'[x] = lcall[x] /\ lstore'[x] = lstore[x],
         LCallInv(q, lcall'[q], lapproved', lreq[q]),
         Approved(q, lcall'[q], lstore'[q], lapproved', lconfig, lreq[q])
  PROVE  LInv'
<1>1. lconfig.quorum = LQuorum
  BY ConfigOf, Zenon DEF LInv
<1>2. ASSUME NEW x \in LReq \ {q}
      PROVE  /\ LCallInv(x, lcall'[x], lapproved', lreq[x])
             /\ Approved(x, lcall'[x], lstore'[x], lapproved', lconfig, lreq[x])
  <2>1. /\ LCallInv(x, lcall[x], lapproved, lreq[x])
        /\ Approved(x, lcall[x], lstore[x], lapproved, lconfig, lreq[x])
    BY DEF LInv
  <2>2. /\ LCallInv(x, lcall[x], lapproved', lreq[x])
        /\ Approved(x, lcall[x], lstore[x], lapproved', lconfig, lreq[x])
    BY <1>1, <2>1, MoreApprovals, Zenon
  <2> QED BY <2>2, Zenon
<1>3. \A x \in LReq : /\ LCallInv(x, lcall'[x], lapproved', lreq'[x])
                      /\ Approved(x, lcall'[x], lstore'[x], lapproved', lconfig', lreq'[x])
  BY <1>2, Zenon
<1>4. /\ \E reg \in LRegistries : lconfig' = from_registry(reg)
      /\ lreq' \in [LReq -> LRequests]
  BY Zenon DEF LInv
<1> QED BY <1>3, <1>4, Zenon DEF LInv

\* A call that is not done, in a session that is not Finalized, claims
\* nothing.
LEMMA NotDone ==
  ASSUME NEW q, NEW c, NEW st, NEW ap, NEW cf, NEW r, c.pc # "ok", st # "Finalized"
  PROVE  Approved(q, c, st, ap, cf, r)
BY Zenon DEF Approved

\* What makes a call of each path a good one.
LEMMA ApprovedOk ==
  ASSUME NEW q, NEW d, NEW ap, NEW cf, NEW r, d.pc = "ok", r.path = "threshold",
         is_satisfied_by(cf.quorum, {v \in cf.verifier_public_keys : <<q, v>> \in ap}),
         AttestationEnvelope_verify_digest(d.envelope),
         \A v \in Range(d.envelope.approval.signers) : <<q, v>> \in ap,
         verify_threshold_approval(d.envelope.approval, d.envelope.envelope_digest,
                                   cf.verifier_public_keys),
         {verify_and_sign(v, permissive, d.prep.package, d.prep.st,
                          d.envelope.envelope_digest, LClock) :
            v \in Range(d.envelope.approval.signers)}
           = Range(d.envelope.approval.signatures)
  PROVE  Approved(q, d, "Finalized", ap, cf, r)
BY Zenon DEF Approved

\* What attest_frost has checked when it finalizes a session is enough.
LEMMA FrostApprovedOk ==
  ASSUME NEW q, NEW d, NEW ap, NEW cf, NEW r, d.pc = "ok", r.path = "frost",
         is_satisfied_by(cf.quorum, {v \in Range(LVids) : <<q, v>> \in ap}),
         FrostOk(d.envelope, r), \A v \in Range(r.signers) : <<q, v>> \in ap
  PROVE  Approved(q, d, "Finalized", ap, cf, r)
BY DEF Approved, FrostOk

\* prepare_session.
LEMMA PrepareKeeps ==
  ASSUME LInv, NEW q \in LReq,
         PrepareOpen(q) \/ PrepareRandomness(q) \/ PrepareExecute(q) \/ Collect(q)
  PROVE  LInv'
<1> DEFINE c == lcall[q]
           r == lreq[q]
<1>1. /\ r \in LRequests /\ r.ttl \in Nat /\ r.path \in {"threshold", "frost"}
      /\ DOMAIN lcall = LReq /\ DOMAIN lstore = LReq
      /\ LCallInv(q, c, lapproved, r)
      /\ lconfig.default_ttl = DefaultTtl /\ lconfig.quorum = LQuorum
  BY ConfigOf, LAssumption, Zenon DEF LInv
<1>2. ASSUME NEW d, NEW st, st # "Finalized", d.pc # "ok",
             lcall' = [lcall EXCEPT ![q] = d], lstore' = [lstore EXCEPT ![q] = st],
             UNCHANGED <<lconfig, lreq, lapproved>>, LCallInv(q, d, lapproved, r)
      PROVE  LInv'
  <2>1. /\ lcall'[q] = d /\ lstore'[q] = st
        /\ \A x \in LReq \ {q} : lcall'[x] = lcall[x] /\ lstore'[x] = lstore[x]
        /\ DOMAIN lcall' = LReq /\ DOMAIN lstore' = LReq
    BY <1>1, <1>2
  <2>2. Approved(q, d, st, lapproved, lconfig, r)
    BY <1>2, NotDone, Zenon
  <2> QED BY <1>2, <2>1, <2>2, OneCallMoves
<1>e. LCallInv(q, [pc |-> "error"], lapproved, r)
  BY DEF LCallInv
<1>3. CASE PrepareOpen(q)
  <2> DEFINE ttl == IF r.ttl < lconfig.default_ttl THEN r.ttl ELSE lconfig.default_ttl
             ctx == SessionContext_new(q, "prover", lconfig.coordinator_id,
                      lconfig.quorum, lconfig.epoch, LClock, LClock + ttl, <<"nonce", q>>)
             d == [pc |-> "activate", ctx |-> ctx]
  <2>1. ttl \in Nat /\ ttl <= DefaultTtl
    BY <1>1, LAssumption
  <2>2. /\ lcall' = [lcall EXCEPT ![q] = d] /\ lstore' = [lstore EXCEPT ![q] = "Pending"]
        /\ UNCHANGED <<lconfig, lreq, lapproved>>
    BY <1>3 DEF PrepareOpen
  <2> HIDE DEF ttl
  <2>3. CtxOk(ctx)
    BY <2>1, ContextOk, Zenon
  <2> HIDE DEF ctx
  <2>4. d.pc = "activate" /\ d.ctx = ctx
    BY Zenon
  <2> HIDE DEF d
  <2>5. LCallInv(q, d, lapproved, r)
    BY <2>3, <2>4, Zenon DEF LCallInv
  <2> QED BY <1>2, <2>2, <2>4, <2>5
<1>4. CASE PrepareRandomness(q)
  <2>1. PICK out :
          /\ c.pc = "activate" /\ lstore' = [lstore EXCEPT ![q] = "Active"]
          /\ lcall' = [lcall EXCEPT ![q] =
               IF out = Err THEN [pc |-> "error"]
               ELSE [pc |-> "execute", ctx |-> c.ctx, rand |-> out]]
          /\ UNCHANGED <<lconfig, lreq, lapproved>>
    BY <1>4, Zenon DEF PrepareRandomness
  <2> DEFINE g == [pc |-> "execute", ctx |-> c.ctx, rand |-> out]
             d == IF out = Err THEN [pc |-> "error"] ELSE g
  <2>2. g.pc = "execute" /\ g.ctx = c.ctx
    BY Zenon
  <2>3. CtxOk(c.ctx)
    BY <1>1, <2>1, Zenon DEF LCallInv
  <2> HIDE DEF g, c, r
  <2>4. LCallInv(q, g, lapproved, r)
    BY <2>2, <2>3 DEF LCallInv
  <2>5. LCallInv(q, d, lapproved, r) /\ d.pc # "ok"
    BY <1>e, <2>2, <2>4, Zenon
  <2>6. lcall' = [lcall EXCEPT ![q] = d]
    BY <2>1, Zenon DEF g
  <2> HIDE DEF d
  <2> QED BY <1>2, <2>1, <2>5, <2>6
<1>5. CASE PrepareExecute(q)
  <2> DEFINE run == LocalRun(c.ctx, c.rand.value, r.conn, r.response)
             prep == PreparedSession(q, c.ctx, c.rand, run.tc, run.evidence)
             g == [pc |-> "collect", prep |-> prep]
             d == IF run = Err THEN [pc |-> "error"] ELSE g
  <2>1. /\ c.pc = "execute" /\ lstore' = [lstore EXCEPT ![q] = "Attesting"]
        /\ lcall' = [lcall EXCEPT ![q] = d]
        /\ UNCHANGED <<lconfig, lreq, lapproved>>
    BY <1>5, Zenon DEF PrepareExecute, LocalRun
  <2>2. CtxOk(c.ctx)
    BY <1>1, <2>1, Zenon DEF LCallInv
  <2>3. run # Err => RunOk(c.ctx, run)
    BY LocalRunOk, Zenon
  <2> HIDE DEF run, c, r
  <2>4. run # Err => PrepOk(prep)
    BY <2>2, <2>3, PreparedOk
  <2> HIDE DEF prep
  <2>5. g.pc = "collect" /\ g.prep = prep
    BY Zenon
  <2> HIDE DEF g
  <2>6. run # Err => LCallInv(q, g, lapproved, r)
    BY <2>4, <2>5, Zenon DEF LCallInv
  <2>7. LCallInv(q, d, lapproved, r) /\ d.pc # "ok"
    BY <1>e, <2>5, <2>6
  <2> HIDE DEF d
  <2> QED BY <1>2, <2>1, <2>7, Zenon
<1>6. CASE Collect(q)
  <2> DEFINE d == [pc |-> r.path, prep |-> c.prep, next |-> 1, partials |-> <<>>]
  <2>1. /\ c.pc = "collect" /\ lstore' = [lstore EXCEPT ![q] = "Collecting"]
        /\ lcall' = [lcall EXCEPT ![q] = d]
        /\ UNCHANGED <<lconfig, lreq, lapproved>>
    BY <1>6, Zenon DEF Collect
  <2>2. PrepOk(c.prep)
    BY <1>1, <2>1 DEF LCallInv
  <2>3. /\ d.pc = r.path /\ d.prep = c.prep /\ d.next = 1 /\ d.partials = <<>>
        /\ r.path = "threshold" =>
             d = [pc |-> "threshold", prep |-> d.prep, next |-> d.next,
                  partials |-> d.partials]
    BY Zenon
  <2>4. PartialsOk(q, <<>>, c.prep.signed_digest, lapproved)
    <3> DEFINE none == {}
    <3>1. <<>> \in Seq(none)
      OBVIOUS
    <3>2. \A t \in none : /\ t = sign_partial(t.verifier_id, c.prep.signed_digest)
                          /\ <<q, t.verifier_id>> \in lapproved
      OBVIOUS
    <3> HIDE DEF none, c
    <3> QED BY <3>1, <3>2, Zenon DEF PartialsOk
  <2> HIDE DEF d, c, r
  <2>5. LCallInv(q, d, lapproved, r) /\ d.pc # "ok"
    BY <1>1, <2>2, <2>3, <2>4, Zenon DEF LCallInv
  <2> QED BY <1>2, <2>1, <2>5, Zenon
<1> QED BY <1>3, <1>4, <1>5, <1>6

\* attest: the loop over the signers, and aggregate_signatures.
LEMMA AttestKeeps ==
  ASSUME LInv, NEW q \in LReq, ApproveNext(q) \/ Aggregate(q)
  PROVE  LInv'
<1> DEFINE c == lcall[q]
           r == lreq[q]
           digest == c.prep.signed_digest
           keys == lconfig.verifier_public_keys
<1>1. /\ DOMAIN lcall = LReq /\ DOMAIN lstore = LReq /\ lconfig.quorum = LQuorum
      /\ LCallInv(q, c, lapproved, r)
      /\ Approved(q, c, lstore[q], lapproved, lconfig, r)
  BY ConfigOf, Zenon DEF LInv
<1>2. c.pc = "threshold"
  BY Zenon DEF ApproveNext, Aggregate
<1>3. /\ r.path = "threshold" /\ PrepOk(c.prep)
      /\ c = [pc |-> "threshold", prep |-> c.prep, next |-> c.next, partials |-> c.partials]
      /\ PartialsOk(q, c.partials, digest, lapproved)
      /\ lstore[q] # "Finalized"
  BY <1>1, <1>2, Zenon DEF LCallInv, Approved
<1>4. PICK T : /\ c.partials \in Seq(T)
               /\ \A t \in T : /\ t = sign_partial(t.verifier_id, digest)
                                /\ <<q, t.verifier_id>> \in lapproved
  BY <1>3, Zenon DEF PartialsOk
<1>5. CASE ApproveNext(q)
  <2> DEFINE v == r.signers[c.next]
             skip == <<q, v>> \in lapproved \/ v \in r.down
             sp == sign_partial(v, digest)
             ps == IF skip THEN c.partials ELSE Append(c.partials, sp)
             d == [pc |-> "threshold", prep |-> c.prep, next |-> c.next + 1,
                   partials |-> ps]
             ap == IF skip THEN lapproved ELSE lapproved \cup {<<q, v>>}
  <2>1. /\ lapproved' = ap /\ UNCHANGED <<lconfig, lreq, lstore>>
        /\ lcall' = [lcall EXCEPT ![q] = [c EXCEPT !.next = c.next + 1, !.partials = ps]]
    BY <1>1, <1>5, Zenon DEF ApproveNext
  <2>2. [c EXCEPT !.next = c.next + 1, !.partials = ps] = d
    <3> DEFINE pr == c.prep
               nx == c.next
               pt == c.partials
    <3>1. c = [pc |-> "threshold", prep |-> pr, next |-> nx, partials |-> pt]
      BY <1>3
    <3> HIDE DEF ps, c, pr, nx, pt
    <3> DEFINE n1 == nx + 1
               c1 == [c EXCEPT !.next = n1]
    <3> HIDE DEF n1
    <3>2. c1 = [pc |-> "threshold", prep |-> pr, next |-> n1, partials |-> pt]
      BY <3>1
    <3> HIDE DEF c1
    <3>3. [c1 EXCEPT !.partials = ps]
            = [pc |-> "threshold", prep |-> pr, next |-> n1, partials |-> ps]
      BY <3>2
    <3> QED BY <3>3, Zenon DEF c1, n1, pr, nx
  <2>3. PartialsOk(q, ps, digest, ap)
    <3>1. CASE skip
      BY <1>3, <3>1
    <3>2. CASE ~skip
      <4> HIDE DEF digest
      <4>1. sp.verifier_id = v
        BY Zenon DEF sign_partial
      <4> HIDE DEF sp, v, skip, c
      <4> DEFINE U == T \cup {sp}
                 x == Append(c.partials, sp)
      <4>2. x \in Seq(U)
        <5>1. c.partials \in Seq(U) /\ sp \in U
          BY <1>4
        <5> HIDE DEF U
        <5> QED BY <5>1
      <4>3. \A t \in U : /\ t = sign_partial(t.verifier_id, digest)
                         /\ <<q, t.verifier_id>> \in ap
        <5>1. sp = sign_partial(sp.verifier_id, digest) /\ <<q, sp.verifier_id>> \in ap
          BY <3>2, <4>1, Zenon DEF sp, ap
        <5> HIDE DEF ap
        <5>2. lapproved \subseteq ap
          BY Zenon DEF ap
        <5> QED BY <1>4, <5>1, <5>2, Zenon
      <4> HIDE DEF U, x
      <4>6. PartialsOk(q, x, digest, ap)
        BY <4>2, <4>3, Zenon DEF PartialsOk
      <4>7. ps = x
        BY <3>2, Zenon DEF ps, x
      <4> QED BY <4>6, <4>7, Zenon
    <3> QED BY <3>1, <3>2, Zenon
  <2>4. lapproved \subseteq ap
    BY Zenon
  <2> HIDE DEF ps, ap
  <2>5. /\ d.pc = "threshold" /\ d.prep = c.prep /\ d.partials = ps
        /\ d = [pc |-> "threshold", prep |-> d.prep, next |-> d.next,
                partials |-> d.partials]
    BY Zenon
  <2> HIDE DEF d
  <2>6. lcall' = [lcall EXCEPT ![q] = d]
    BY <2>1, <2>2, Zenon
  <2> HIDE DEF c
  <2>7. LCallInv(q, d, ap, r)
    BY <1>3, <2>3, <2>5 DEF LCallInv
  <2>8. Approved(q, d, lstore[q], ap, lconfig, r)
    BY <1>3, <2>5, NotDone
  <2>9. /\ lcall'[q] = d /\ DOMAIN lcall' = LReq
        /\ \A x \in LReq \ {q} : lcall'[x] = lcall[x]
    BY <1>1, <2>6, Zenon
  <2> QED BY <1>1, <2>1, <2>4, <2>7, <2>8, <2>9, OneCallMoves
<1>6. CASE Aggregate(q)
  <2> DEFINE p == c.prep
             a == aggregate_signatures(c.partials, lconfig.quorum, p.envelope_digest, keys)
             e == AttestationEnvelope_assemble(p.ctx, p.binding, p.tc, p.st, p.ce, a)
  <2>1. CASE a = Err
    <3> DEFINE d == [pc |-> "error"]
    <3>1. lcall' = [lcall EXCEPT ![q] = d] /\ UNCHANGED <<lconfig, lreq, lapproved, lstore>>
      BY <1>6, <2>1, Zenon DEF Aggregate
    <3>2. LCallInv(q, d, lapproved, r) /\ d.pc = "error"
      BY DEF LCallInv
    <3>3. Approved(q, d, lstore[q], lapproved, lconfig, r)
      BY <1>3, <3>2, NotDone, Zenon
    <3> HIDE DEF d
    <3>4. /\ lcall'[q] = d /\ DOMAIN lcall' = LReq
          /\ \A x \in LReq \ {q} : lcall'[x] = lcall[x]
      BY <1>1, <3>1, Zenon
    <3> QED BY <1>1, <3>1, <3>2, <3>3, <3>4, OneCallMoves
  <2>2. CASE a # Err
    <3> DEFINE d == [pc |-> "ok", prep |-> p, envelope |-> e]
    <3>1. /\ lcall' = [lcall EXCEPT ![q] = d]
          /\ lstore' = [lstore EXCEPT ![q] = "Finalized"]
          /\ UNCHANGED <<lconfig, lreq, lapproved>>
      BY <1>6, <2>2, Zenon DEF Aggregate
    <3>2. /\ p.envelope_digest = envelope_digest_of(p.ctx, p.binding, p.tc, p.st, p.ce)
          /\ digest = approval_digest(p.envelope_digest)
          /\ check(permissive, p.package, p.st, LClock)
      BY <1>3, Zenon DEF PrepOk
    <3> HIDE DEF c, digest, keys
    <3>3. AggregateOk(a, c.partials, p.envelope_digest, keys)
      <4> DEFINE m == Len(c.partials)
      <4>1. m \in Nat /\ DOMAIN c.partials = 1..m
        BY <1>4
      <4>2. \A k \in 1..m : c.partials[k]
              = sign_partial(c.partials[k].verifier_id, approval_digest(p.envelope_digest))
        <5>1. \A k \in 1..m : c.partials[k] \in T
          BY <1>4
        <5> HIDE DEF m, p
        <5> QED BY <1>4, <3>2, <5>1, Zenon
      <4>3. a = aggregate_signatures(c.partials, LQuorum, p.envelope_digest, keys)
        BY <1>1, Zenon
      <4> HIDE DEF a, m, p
      <4> QED BY <2>2, <4>1, <4>2, <4>3, Aggregated, Zenon
    <3> HIDE DEF a, p
    <3>4. /\ e.session = p.ctx /\ e.randomness = p.binding /\ e.transcript = p.tc
          /\ e.statement = p.st /\ e.coordinator_evidence = p.ce /\ e.approval = a
          /\ e.envelope_digest = p.envelope_digest
      BY <3>2, Zenon DEF AttestationEnvelope_assemble
    <3> HIDE DEF e
    <3>5. d.pc = "ok" /\ d.prep = p /\ d.envelope = e
      BY Zenon
    <3> HIDE DEF d
    <3>6. LCallInv(q, d, lapproved, r)
      BY <1>3, <3>5 DEF LCallInv, p
    <3>7. \A v \in Range(a.signers) : <<q, v>> \in lapproved
      BY <1>4, <3>3 DEF AggregateOk
    <3>8. Approved(q, d, "Finalized", lapproved, lconfig, r)
      <4> USE <3>3 DEF AggregateOk
      <4>1. Range(a.signers) \subseteq {v \in keys : <<q, v>> \in lapproved}
        BY <3>7, Zenon
      <4>2. is_satisfied_by(lconfig.quorum, {v \in keys : <<q, v>> \in lapproved})
        BY <1>1, <3>3, <4>1, MoreSatisfy
      <4>3. AttestationEnvelope_verify_digest(e)
        BY <3>2, <3>4, Zenon DEF AttestationEnvelope_verify_digest
      <4>4. {v \in Range(a.signers) : <<q, v>> \in lapproved} = Range(a.signers)
        BY <3>7, Zenon
      <4>5. {verify_and_sign(v, permissive, p.package, p.st, p.envelope_digest, LClock) :
               v \in Range(a.signers)} = Range(a.signatures)
        BY <3>2, <3>3, Zenon DEF verify_and_sign
      <4>6. verify_threshold_approval(a, p.envelope_digest, keys)
        BY Zenon
      <4>7. /\ AttestationEnvelope_verify_digest(d.envelope)
            /\ \A v \in Range(d.envelope.approval.signers) : <<q, v>> \in lapproved
            /\ verify_threshold_approval(d.envelope.approval,
                 d.envelope.envelope_digest, lconfig.verifier_public_keys)
        BY <3>4, <3>5, <3>7, <4>3, <4>6, Zenon DEF keys
      <4>8. {verify_and_sign(v, permissive, d.prep.package, d.prep.st,
                             d.envelope.envelope_digest, LClock) :
               v \in Range(d.envelope.approval.signers)}
              = Range(d.envelope.approval.signatures)
        BY <3>4, <3>5, <4>5, Zenon
      <4>9. r.path = "threshold" /\ d.pc = "ok"
        BY <1>3, <3>5, Zenon
      <4> QED BY ONLY <4>2, <4>7, <4>8, <4>9, ApprovedOk, Zenon DEF keys
    <3>9. /\ lcall'[q] = d /\ lstore'[q] = "Finalized"
          /\ DOMAIN lcall' = LReq /\ DOMAIN lstore' = LReq
          /\ \A x \in LReq \ {q} : lcall'[x] = lcall[x] /\ lstore'[x] = lstore[x]
      BY <1>1, <3>1, Zenon
    <3> QED BY <3>1, <3>6, <3>8, <3>9, OneCallMoves
  <2> QED BY <2>1, <2>2
<1> QED BY <1>5, <1>6, Zenon

\* The verifiers a request names.
LEMMA RequestSigners ==
  ASSUME NEW r \in LRequests
  PROVE  /\ Len(r.signers) \in Nat /\ DOMAIN r.signers = 1..Len(r.signers)
         /\ \A i \in DOMAIN r.signers : ~(i < 1)
         /\ r.path = "frost" => Range(r.signers) \subseteq Range(LVids)
<1>1. /\ r.signers \in Seq(Range(r.signers))
      /\ r.path = "frost" => Range(r.signers) \subseteq Range(LVids)
  BY LAssumption, Zenon
<1>2. Len(r.signers) \in Nat /\ DOMAIN r.signers = 1..Len(r.signers)
  BY ONLY <1>1
<1>3. \A i \in DOMAIN r.signers : ~(i < 1)
  BY ONLY <1>2
<1> QED BY <1>1, <1>2, <1>3, Zenon

\* attest_frost: the approval, the rows of the signers and the end.
LEMMA FrostKeeps ==
  ASSUME LInv, NEW q \in LReq, CollectFrost(q) \/ RecordNext(q)
  PROVE  LInv'
<1> DEFINE c == lcall[q]
           r == lreq[q]
           ss == r.signers
<1>1. /\ DOMAIN lcall = LReq /\ DOMAIN lstore = LReq /\ lconfig.quorum = LQuorum
      /\ LCallInv(q, c, lapproved, r)
      /\ Approved(q, c, lstore[q], lapproved, lconfig, r)
      /\ r \in LRequests
  BY ConfigOf, Zenon DEF LInv
<1>2. CASE CollectFrost(q)
  <2> DEFINE p == c.prep
             shares == [i \in DOMAIN ss |-> ShareOf(ss[i])]
             nonces == [i \in DOMAIN ss |-> <<"os", q, i>>]
             a == frost_collect_approval(shares, p.signed_digest, LDealer.group_key,
                                         lconfig.quorum.threshold, nonces)
             bad == [pc |-> "error"]
             good == [pc |-> "record", prep |-> p, next |-> 1,
                      envelope |-> FrostAttestationEnvelope(p, a)]
  <2>1. /\ c.pc = "frost" /\ UNCHANGED <<lconfig, lreq, lapproved>>
        /\ \/ /\ lstore' = [lstore EXCEPT ![q] = "Failed"]
              /\ lcall' = [lcall EXCEPT ![q] = bad]
           \/ UNCHANGED lstore /\ lcall' = [lcall EXCEPT ![q] = bad]
           \/ UNCHANGED lstore /\ a # Err /\ lcall' = [lcall EXCEPT ![q] = good]
    BY <1>2, Zenon DEF CollectFrost, ShareOf
  <2>2. PrepOk(p) /\ r.path = "frost" /\ lstore[q] # "Finalized"
    BY <1>1, <2>1, Zenon DEF LCallInv, Approved
  <2>3. ASSUME NEW d, d.pc # "ok", lcall' = [lcall EXCEPT ![q] = d],
               \/ UNCHANGED lstore \/ lstore' = [lstore EXCEPT ![q] = "Failed"],
               LCallInv(q, d, lapproved, r)
        PROVE  LInv'
    <3>1. /\ lcall'[q] = d /\ DOMAIN lcall' = LReq /\ DOMAIN lstore' = LReq
          /\ \A x \in LReq \ {q} : lcall'[x] = lcall[x] /\ lstore'[x] = lstore[x]
          /\ lstore'[q] # "Finalized"
      BY <1>1, <2>2, <2>3
    <3>2. Approved(q, d, lstore'[q], lapproved, lconfig, r)
      BY <2>3, <3>1, NotDone, Zenon
    <3> QED BY <2>1, <2>3, <3>1, <3>2, OneCallMoves
  <2>4. ASSUME lcall' = [lcall EXCEPT ![q] = bad],
               \/ UNCHANGED lstore \/ lstore' = [lstore EXCEPT ![q] = "Failed"]
        PROVE  LInv'
    <3>1. bad.pc = "error" /\ LCallInv(q, bad, lapproved, r)
      BY DEF LCallInv
    <3> HIDE DEF bad
    <3> QED BY <2>3, <2>4, <3>1
  <2>5. ASSUME a # Err, UNCHANGED lstore, lcall' = [lcall EXCEPT ![q] = good]
        PROVE  LInv'
    <3> DEFINE e == FrostAttestationEnvelope(p, a)
    <3>1. /\ verify_signature(a) /\ verify_binding(a, p.signed_digest)
          /\ is_satisfied_by(LQuorum, Range(ss))
      <4>1. a = frost_collect_approval([i \in DOMAIN r.signers |-> ShareOf(r.signers[i])],
                  p.signed_digest, LDealer.group_key, LQuorum.threshold, nonces)
        BY <1>1, Zenon
      <4> HIDE DEF a, p, nonces, r
      <4> QED BY <1>1, <2>2, <2>5, <4>1, FrostApproved
    <3>2. /\ p.envelope_digest = envelope_digest_of(p.ctx, p.binding, p.tc, p.st, p.ce)
          /\ p.signed_digest = approval_digest(p.envelope_digest)
      BY <2>2, Zenon DEF PrepOk
    <3> HIDE DEF a, p
    <3>3. /\ e.session = p.ctx /\ e.randomness = p.binding /\ e.transcript = p.tc
          /\ e.statement = p.st /\ e.coordinator_evidence = p.ce /\ e.approval = a
          /\ e.envelope_digest = p.envelope_digest
      BY <3>2, Zenon DEF FrostAttestationEnvelope, AttestationEnvelope_assemble
    <3> HIDE DEF e
    <3>4. FrostOk(e, r)
      BY <3>1, <3>2, <3>3, Zenon DEF FrostOk, AttestationEnvelope_verify_digest
    <3>5. /\ good.pc = "record" /\ good.prep = p /\ good.next = 1 /\ good.envelope = e
          /\ good = [pc |-> "record", prep |-> good.prep, next |-> good.next,
                     envelope |-> good.envelope]
      BY Zenon DEF e
    <3> HIDE DEF good
    <3>6. \A i \in DOMAIN ss : ~(i < 1)
      BY <1>1, RequestSigners, Zenon
    <3> HIDE DEF ss, r
    <3>7. LCallInv(q, good, lapproved, r)
      BY <2>2, <3>4, <3>5, <3>6 DEF LCallInv, ss
    <3> QED BY <2>3, <2>5, <3>5, <3>7, Zenon
  <2> QED BY <2>1, <2>4, <2>5
<1>3. CASE RecordNext(q)
  <2>1. /\ r.path = "frost" /\ c.next \in Nat \ {0} /\ FrostOk(c.envelope, r)
        /\ c = [pc |-> "record", prep |-> c.prep, next |-> c.next, envelope |-> c.envelope]
        /\ \A i \in DOMAIN ss : i < c.next => <<q, ss[i]>> \in lapproved
        /\ PrepOk(c.prep) /\ lstore[q] # "Finalized"
    BY <1>1, <1>3, Zenon DEF LCallInv, Approved, RecordNext
  <2>2. Len(ss) \in Nat /\ DOMAIN ss = 1..Len(ss) /\ Range(ss) \subseteq Range(LVids)
    BY <1>1, <2>1, RequestSigners, Zenon
  <2>3. CASE c.next <= Len(ss)
    <3> DEFINE pr == c.prep
               ev == c.envelope
               nx == c.next
               d == [pc |-> "record", prep |-> pr, next |-> nx + 1, envelope |-> ev]
               ap == lapproved \cup {<<q, ss[nx]>>}
    <3>1. /\ lapproved' = ap /\ UNCHANGED <<lconfig, lreq, lstore>>
          /\ lcall' = [lcall EXCEPT ![q] = [c EXCEPT !.next = nx + 1]]
      BY <1>1, <1>3, <2>3, Zenon DEF RecordNext
    <3>2. c = [pc |-> "record", prep |-> pr, next |-> nx, envelope |-> ev]
      BY <2>1, Zenon
    <3>3. [c EXCEPT !.next = nx + 1] = d
      <4> HIDE DEF c, pr, ev, nx
      <4> DEFINE n1 == nx + 1
      <4> HIDE DEF n1
      <4>1. [c EXCEPT !.next = n1]
              = [pc |-> "record", prep |-> pr, next |-> n1, envelope |-> ev]
        BY <3>2
      <4> QED BY <4>1, Zenon DEF n1
    <3>4. \A i \in DOMAIN ss : i < nx + 1 => <<q, ss[i]>> \in ap
      <4> SUFFICES ASSUME NEW i \in DOMAIN ss, i < nx + 1 PROVE <<q, ss[i]>> \in ap
        BY Zenon
      <4>1. i = nx \/ i < nx
        BY <2>1, <2>2
      <4> QED BY <2>1, <4>1, Zenon
    <3> HIDE DEF pr, ev
    <3>5. /\ d.pc = "record" /\ d.prep = pr /\ d.next = nx + 1 /\ d.envelope = ev
          /\ d = [pc |-> "record", prep |-> d.prep, next |-> d.next,
                  envelope |-> d.envelope]
      BY Zenon
    <3>6. nx + 1 \in Nat \ {0} /\ FrostOk(ev, r) /\ PrepOk(pr)
      <4>1. nx \in Nat /\ FrostOk(ev, r) /\ PrepOk(pr)
        BY <2>1, Zenon DEF ev, pr
      <4>2. nx + 1 \in Nat \ {0}
        BY ONLY <4>1
      <4> QED BY <4>1, <4>2, Zenon
    <3>7. lcall' = [lcall EXCEPT ![q] = d]
      BY <3>1, <3>3, Zenon
    <3> HIDE DEF d, c, nx, ap, ss, r
    <3>8. LCallInv(q, d, ap, r)
      BY <2>1, <3>4, <3>5, <3>6 DEF LCallInv, ss
    <3>9. Approved(q, d, lstore[q], ap, lconfig, r)
      BY <2>1, <3>5, NotDone, Zenon
    <3>10. /\ lcall'[q] = d /\ DOMAIN lcall' = LReq /\ lapproved \subseteq ap
           /\ \A x \in LReq \ {q} : lcall'[x] = lcall[x]
      BY <1>1, <3>7 DEF ap
    <3> QED BY <1>1, <3>1, <3>8, <3>9, <3>10, OneCallMoves DEF r
  <2>4. CASE ~(c.next <= Len(ss))
    <3> DEFINE d == [pc |-> "ok", prep |-> c.prep, envelope |-> c.envelope]
    <3>1. /\ lcall' = [lcall EXCEPT ![q] = d]
          /\ lstore' = [lstore EXCEPT ![q] = "Finalized"]
          /\ UNCHANGED <<lconfig, lreq, lapproved>>
      BY <1>3, <2>4, Zenon DEF RecordNext
    <3>2. d.pc = "ok" /\ d.prep = c.prep /\ d.envelope = c.envelope
      BY Zenon
    <3>3. \A v \in Range(ss) : <<q, v>> \in lapproved
      <4>1. \A i \in DOMAIN ss : i < c.next
        BY ONLY <2>1, <2>2, <2>4, SMTT(30)
      <4> QED BY <2>1, <4>1 DEF Range
    <3> HIDE DEF d
    <3>4. is_satisfied_by(lconfig.quorum, {v \in Range(LVids) : <<q, v>> \in lapproved})
      <4>1. Range(ss) \subseteq {v \in Range(LVids) : <<q, v>> \in lapproved}
        BY <2>2, <3>3
      <4>2. is_satisfied_by(LQuorum, Range(ss))
        BY <2>1, Zenon DEF FrostOk
      <4> QED BY <1>1, <4>1, <4>2, MoreSatisfy, Zenon
    <3>5. LCallInv(q, d, lapproved, r)
      BY <2>1, <3>2, Zenon DEF LCallInv
    <3>6. FrostOk(d.envelope, r)
      BY <2>1, <3>2
    <3>7. Approved(q, d, "Finalized", lapproved, lconfig, r)
      BY <2>1, <3>2, <3>3, <3>4, <3>6, FrostApprovedOk, Zenon
    <3>8. /\ lcall'[q] = d /\ lstore'[q] = "Finalized"
          /\ DOMAIN lcall' = LReq /\ DOMAIN lstore' = LReq
          /\ \A x \in LReq \ {q} : lcall'[x] = lcall[x] /\ lstore'[x] = lstore[x]
      BY <1>1, <3>1, Zenon
    <3> QED BY <3>1, <3>5, <3>7, <3>8, OneCallMoves
  <2> QED BY <2>3, <2>4, Zenon
<1> QED BY <1>2, <1>3

\* The process stops: what the table says of a session stays true.
LEMMA CrashKeeps == ASSUME LInv, LCrash PROVE LInv'
<1>1. ASSUME NEW q \in LReq
      PROVE  /\ LCallInv(q, lcall'[q], lapproved', lreq'[q])
             /\ Approved(q, lcall'[q], lstore'[q], lapproved', lconfig', lreq'[q])
  <2>1. /\ LCallInv(q, lcall[q], lapproved, lreq[q])
        /\ Approved(q, lcall[q], lstore[q], lapproved, lconfig, lreq[q])
    BY Zenon DEF LInv
  <2> DEFINE d == [pc |-> "crashed"]
  <2>2. d.pc = "crashed" /\ (lcall'[q] = lcall[q] \/ lcall'[q] = d)
        /\ UNCHANGED <<lconfig, lreq, lstore, lapproved>>
    BY Zenon DEF LCrash
  <2> HIDE DEF d
  <2>3. LCallInv(q, d, lapproved, lreq[q])
    BY <2>2, Zenon DEF LCallInv
  <2>4. Approved(q, d, lstore[q], lapproved, lconfig, lreq[q])
    BY <2>1, <2>2, Zenon DEF Approved
  <2> QED BY <2>1, <2>2, <2>3, <2>4, Zenon
<1>2. DOMAIN lcall' = LReq /\ UNCHANGED <<lconfig, lreq, lstore>>
  BY Zenon DEF LCrash
<1> QED BY <1>1, <1>2 DEF LInv

\* Before the first request nothing is stored.
LEMMA LStart == LInit => LInv
<1> SUFFICES ASSUME LInit PROVE LInv
  BY Zenon
<1>1. ASSUME NEW q \in LReq
      PROVE  /\ LCallInv(q, lcall[q], lapproved, lreq[q])
             /\ Approved(q, lcall[q], lstore[q], lapproved, lconfig, lreq[q])
  <2>1. lcall[q].pc = "start" /\ lstore[q] # "Finalized"
    BY Zenon DEF LInit, Absent
  <2> QED BY <2>1, NotDone DEF LCallInv
<1> QED BY <1>1, Zenon DEF LInit, LInv

\* For any list of verifiers, threshold, requests and registries, with any
\* number of requests running at the same time and the process stopping
\* between any two writes: a Finalized session has recorded approvals of a
\* quorum, and an envelope that was returned verifies, with an approval that
\* its recorded signers would give again (attest and attest_frost).
THEOREM FinalizedIsApproved == LSpec => []FinalizedMeansApproved
<1>1. LInv /\ [LNext]_lvars => LInv'
  <2> SUFFICES ASSUME LInv, [LNext]_lvars PROVE LInv'
    BY Zenon
  <2>1. CASE UNCHANGED lvars
    BY <2>1, Zenon DEF lvars, LInv
  <2> QED BY <2>1, PrepareKeeps, AttestKeeps, FrostKeeps, CrashKeeps DEF LNext
<1>2. LInv => FinalizedMeansApproved
  BY Zenon DEF LInv, Approved, FinalizedMeansApproved
<1> QED BY <1>1, <1>2, LStart, PTL DEF LSpec

=============================================================================
