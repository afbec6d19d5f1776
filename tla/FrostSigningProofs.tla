------------------------- MODULE FrostSigningProofs -------------------------
(***************************************************************************)
(* Proofs about the auxiliary nodes, for any nodes, sessions, requests,    *)
(* registry snapshots, thresholds and time bounds, and about the signing   *)
(* phase, for any transports (repeated ones too), any number of sessions   *)
(* and any faults:                                                         *)
(*  - a node never signs twice with a nonce, and a share honours the       *)
(*    commitment it answers;                                               *)
(*  - the composed system is an environment of the nodes that FrostAux     *)
(*    allows, so what is proved of the nodes holds in it;                  *)
(*  - an envelope is returned only for a session all signers signed;       *)
(*  - a node signs at most one nonce set for a session;                    *)
(*  - the system implements ThresholdSigning;                              *)
(*  - approvals on record are earned, the store follows the life cycle and *)
(*    packages consist of the signers' commitments.                        *)
(***************************************************************************)
EXTENDS FrostSigning, FiniteSetTheorems, WellFoundedInduction, TLAPS

---------------------------------------------------------------------------
(* The auxiliary nodes.  NonceUsedOnce is not inductive: a share consumes  *)
(* an entry, an entry comes from a handler and a handler draws its nonce   *)
(* from `drawn`.  The invariant therefore follows a nonce through all three*)
(* places: it is in at most one of them, and none of them is ahead of      *)
(* `drawn`.                                                                *)

SameNonce(a, b) == a.n = b.n /\ a.nonce = b.nonce

\* No handler, entry or share holds a nonce its node has not drawn.
Drawn ==
  /\ \A w \in work : w.nonce <= drawn[w.n]
  /\ \A e \in pending : e.nonce <= drawn[e.n]
  /\ \A sh \in shares : sh.nonce <= drawn[sh.n]

\* A nonce is held by one handler, one entry or one share only.
Separate ==
  /\ \A a, b \in work : SameNonce(a, b) => a = b
  /\ \A a, b \in pending : SameNonce(a, b) => a = b
  /\ \A w \in work, e \in pending : ~ SameNonce(w, e)
  /\ \A w \in work, sh \in shares : ~ SameNonce(w, sh)
  /\ \A e \in pending, sh \in shares : ~ SameNonce(e, sh)

\* Every cached entry was announced by a Round-1 response.
Announced ==
  \A e \in pending : \E c \in commitments :
    /\ c.k = e.k /\ c.n = e.n /\ c.s = e.s /\ c.nonce = e.nonce
    /\ c.digest = e.digest /\ c.signers = e.signers

\* The caches are maps: one entry per protocol, node and session.
Keyed ==
  \A a, b \in pending : a.k = b.k /\ a.n = b.n /\ a.s = b.s => a = b

AuxInv ==
  TypeOK /\ Drawn /\ Separate /\ Keyed /\ NonceUsedOnce /\ Announced
    /\ ShareHonoursCommitment
-----------------------------------------------------------------------------
\* No node has done anything yet.
LEMMA AuxInitInv == AuxInit => AuxInv
  BY AuxAssumption
  DEF AuxInit, AuxInv, TypeOK, Drawn, Separate, Keyed, NonceUsedOnce, Announced,
      ShareHonoursCommitment

\* Drawing nonces for a new handler: the drawn number is above all others.
LEMMA StartRound1Inv ==
  ASSUME AuxInv, NEW k \in Protocol, NEW n \in Node, NEW req \in Round1Request,
         StartRound1(k, n, req)
  PROVE  AuxInv'
<1> DEFINE h == HandlerFor(k, n, req)
<1>1. /\ drawn[n] < MaxNonce
      /\ drawn' = [drawn EXCEPT ![n] = @ + 1]
      /\ work' = work \cup {h}
      /\ clock' = clock /\ pending' = pending
      /\ commitments' = commitments /\ shares' = shares
  BY Zenon DEF StartRound1
<1>2. TypeOK /\ drawn[n] \in 0..MaxNonce /\ MaxNonce \in Nat
  BY AuxAssumption, Zenon DEF AuxInv, TypeOK
<1>3. /\ h \in Handler /\ h.n = n /\ h.nonce = drawn[n] + 1
  BY <1>1, <1>2 DEF HandlerFor, Handler, Round1Request, Nonce
<1>4. TypeOK'
  BY <1>1, <1>2, <1>3 DEF TypeOK
<1>5. /\ drawn'[n] = drawn[n] + 1
      /\ \A m \in Node : drawn[m] <= drawn'[m] /\ drawn[m] \in Nat
                         /\ drawn'[m] \in Nat
  BY <1>1, <1>2 DEF TypeOK
<1>6. Drawn'
  <2>1. \A w \in work : w.n \in Node /\ w.nonce \in Nat
    BY <1>2 DEF TypeOK, Handler, Nonce
  <2>2. \A e \in pending : e.n \in Node /\ e.nonce \in Nat
    BY <1>2 DEF TypeOK, PendingRound, Nonce
  <2>3. \A sh \in shares : sh.n \in Node /\ sh.nonce \in Nat
    BY <1>2 DEF TypeOK, Share, Nonce
  <2> QED
    BY <1>1, <1>3, <1>5, <2>1, <2>2, <2>3 DEF AuxInv, Drawn
<1>7. /\ \A w \in work : ~ SameNonce(w, h) /\ ~ SameNonce(h, w)
      /\ \A e \in pending : ~ SameNonce(h, e)
      /\ \A sh \in shares : ~ SameNonce(h, sh)
  BY <1>2, <1>3 DEF AuxInv, Drawn, SameNonce, TypeOK, Nonce
<1>8. Separate'
  BY <1>1, <1>7 DEF AuxInv, Separate
<1>9. Keyed' /\ NonceUsedOnce' /\ Announced' /\ ShareHonoursCommitment'
  BY <1>1 DEF AuxInv, Keyed, NonceUsedOnce, Announced, ShareHonoursCommitment
<1> QED
  BY <1>4, <1>6, <1>8, <1>9, Zenon DEF AuxInv
\* A handler moves its nonces into the cache, the rest of which shrinks.
LEMMA CacheInv ==
  ASSUME AuxInv, NEW w \in work, NEW kept \in SUBSET pending,
         \A e \in kept : ~ (e.k = w.k /\ e.n = w.n /\ e.s = w.s),
         work' = work \ {w},
         pending' = kept \cup {Entry(w)},
         commitments' = commitments \cup {w},
         clock' = clock, drawn' = drawn, shares' = shares
  PROVE  AuxInv'
<1>1. TypeOK /\ w \in Handler /\ clock \in Nat
  BY AuxAssumption DEF AuxInv, TypeOK
<1>2. Entry(w) \in PendingRound
  BY <1>1, Zenon DEF Entry, Handler, PendingRound
<1>3. /\ Entry(w).k = w.k /\ Entry(w).n = w.n /\ Entry(w).s = w.s
      /\ Entry(w).nonce = w.nonce /\ Entry(w).digest = w.digest
      /\ Entry(w).signers = w.signers
  BY Zenon DEF Entry
<1>4. TypeOK'
  BY <1>1, <1>2, Zenon DEF TypeOK
<1>5. Drawn'
  BY <1>3, Zenon DEF AuxInv, Drawn
<1>6. Separate'
  BY <1>3 DEF AuxInv, Separate, SameNonce
<1>7. Keyed' /\ NonceUsedOnce'
  BY <1>3 DEF AuxInv, Keyed, NonceUsedOnce
<1>8. Announced'
  <2> SUFFICES ASSUME NEW e \in pending'
               PROVE  \E c \in commitments' :
                        /\ c.k = e.k /\ c.n = e.n /\ c.s = e.s
                        /\ c.nonce = e.nonce
                        /\ c.digest = e.digest /\ c.signers = e.signers
    BY Zenon DEF Announced
  <2>1. CASE e \in pending
    BY <2>1, Zenon DEF AuxInv, Announced
  <2>2. CASE e = Entry(w)
    BY <2>2, <1>3, Zenon
  <2> QED
    BY <2>1, <2>2, Zenon
<1>9. ShareHonoursCommitment'
  BY Zenon DEF AuxInv, ShareHonoursCommitment
<1> QED
  BY <1>4, <1>5, <1>6, <1>7, <1>8, <1>9, Zenon DEF AuxInv

\* Entries and handlers may disappear: refusal, eviction, restart.
LEMMA ForgetInv ==
  ASSUME AuxInv, work' \in SUBSET work, pending' \in SUBSET pending,
         clock' \in 0..MaxTime,
         drawn' = drawn, commitments' = commitments, shares' = shares
  PROVE  AuxInv'
<1>1. TypeOK'
  BY Zenon DEF AuxInv, TypeOK
<1>2. Drawn' /\ Separate' /\ Keyed' /\ NonceUsedOnce'
  BY Zenon DEF AuxInv, Drawn, Separate, Keyed, NonceUsedOnce
<1>3. Announced' /\ ShareHonoursCommitment'
  BY Zenon DEF AuxInv, Announced, ShareHonoursCommitment
<1> QED
  BY <1>1, <1>2, <1>3, Zenon DEF AuxInv

\* Round 2: the entry leaves the cache; its nonce may go to a share.
LEMMA Round2Inv ==
  ASSUME AuxInv, NEW k \in Protocol, NEW n \in Node, NEW req \in Round2Request,
         Round2(k, n, req)
  PROVE  AuxInv'
<1>1. PICK e \in Cached(k, n, req.s) :
        /\ pending' = pending \ {e}
        /\ shares' =
             IF /\ req.signers = e.signers
                /\ req.parses
                /\ req.pkg.msg = e.digest
                /\ SignAccepts(n, e.nonce, req.pkg)
             THEN shares \cup
                    {[k |-> k, n |-> n, s |-> req.s, nonce |-> e.nonce,
                      signers |-> req.signers, pkg |-> req.pkg,
                      conn |-> req.conn]}
             ELSE shares
        /\ clock' = clock /\ drawn' = drawn /\ work' = work
        /\ commitments' = commitments
  BY ZenonT(30) DEF Round2
<1> DEFINE sh == [k |-> k, n |-> n, s |-> req.s, nonce |-> e.nonce,
                  signers |-> req.signers, pkg |-> req.pkg,
                  conn |-> req.conn]
<1>2. e \in pending /\ e.k = k /\ e.n = n /\ e.s = req.s
  BY Zenon DEF Cached
<1>3. CASE shares' = shares
  BY <1>1, <1>3, ForgetInv, Zenon DEF AuxInv, TypeOK
<1>4. CASE /\ req.signers = e.signers /\ req.pkg.msg = e.digest
           /\ SignAccepts(n, e.nonce, req.pkg)
           /\ shares' = shares \cup {sh}
  <2>1. TypeOK /\ e \in PendingRound
    BY <1>2, Zenon DEF AuxInv, TypeOK
  <2>2. sh \in Share
    BY <2>1, Zenon DEF Round2Request, PendingRound, Share
  <2>3. TypeOK'
    BY <1>1, <1>4, <2>1, <2>2, Zenon DEF TypeOK
  <2>4. sh.n = e.n /\ sh.nonce = e.nonce
    BY <1>2, Zenon
  <2>5. Drawn'
    BY <1>1, <1>2, <1>4, <2>4, Zenon DEF AuxInv, Drawn
  <2>6. Separate'
    BY <1>1, <1>2, <1>4, <2>4 DEF AuxInv, Separate, SameNonce
  <2>7. Keyed' /\ NonceUsedOnce'
    BY <1>1, <1>2, <1>4, <2>4
    DEF AuxInv, Separate, Keyed, SameNonce, NonceUsedOnce
  <2>8. Announced'
    BY <1>1, Zenon DEF AuxInv, Announced
  <2>9. ShareHonoursCommitment'
    <3> SUFFICES ASSUME NEW x \in shares'
                 PROVE  \E c \in commitments' :
                   /\ c.k = x.k /\ c.n = x.n /\ c.s = x.s
                   /\ c.nonce = x.nonce
                   /\ c.digest = x.pkg.msg
                   /\ c.signers = x.signers
                   /\ x.pkg.commits[x.n] = c.nonce
      BY Zenon DEF ShareHonoursCommitment
    <3>1. CASE x \in shares
      BY <1>1, <3>1, Zenon DEF AuxInv, ShareHonoursCommitment
    <3>2. CASE x = sh
      <4>1. PICK c \in commitments :
              /\ c.k = e.k /\ c.n = e.n /\ c.s = e.s /\ c.nonce = e.nonce
              /\ c.digest = e.digest /\ c.signers = e.signers
        BY <1>2, Zenon DEF AuxInv, Announced
      <4>2. req.pkg.commits[n] = e.nonce
        BY <1>4, Zenon DEF SignAccepts
      <4> QED
        BY <1>1, <1>2, <1>4, <3>2, <4>1, <4>2
    <3> QED
      BY <1>4, <3>1, <3>2, Zenon
  <2> QED
    BY <2>3, <2>5, <2>6, <2>7, <2>8, <2>9, Zenon DEF AuxInv
<1> QED
  BY <1>1, <1>3, <1>4, Zenon

\* One step of the nodes preserves the invariant.
LEMMA AuxStepInv == AuxInv /\ [AuxNext]_auxvars => AuxInv'
<1> SUFFICES ASSUME AuxInv, [AuxNext]_auxvars PROVE AuxInv'
  BY Zenon
<1>1. CASE UNCHANGED auxvars
  BY <1>1, ForgetInv, Zenon DEF auxvars, AuxInv, TypeOK
<1>2. ASSUME NEW n \in Node, NEW req \in Round1Request,
             \/ frost_round1_check(n, req)
             \/ handshake_binding_round1_check(n, req)
      PROVE  AuxInv'
  BY <1>2, StartRound1Inv, Zenon
  DEF frost_round1_check, handshake_binding_round1_check, Protocol
<1>3. ASSUME NEW w \in work, frost_round1_cache(w)
      PROVE  AuxInv'
  <2> DEFINE kept == pending \ Evicted("frost", w.n)
  <2>1. CASE /\ pending' = kept \cup {Entry(w)}
             /\ commitments' = commitments \cup {w}
             /\ \A e \in kept : ~ (e.k = "frost" /\ e.n = w.n /\ e.s = w.s)
    BY <1>3, <2>1, CacheInv, ZenonT(30) DEF frost_round1_cache
  <2>2. CASE pending' = kept /\ commitments' = commitments
    BY <1>3, <2>2, ForgetInv, Zenon DEF frost_round1_cache, AuxInv, TypeOK
  <2> QED
    BY <1>3, <2>1, <2>2, Zenon DEF frost_round1_cache
<1>4. ASSUME NEW w \in work, handshake_binding_round1_cache(w)
      PROVE  AuxInv'
  <2> DEFINE kept == (pending \ Evicted("hb", w.n)) \ Cached("hb", w.n, w.s)
  <2>1. /\ kept \in SUBSET pending
        /\ \A e \in kept : ~ (e.k = w.k /\ e.n = w.n /\ e.s = w.s)
    BY <1>4, Zenon DEF handshake_binding_round1_cache, Cached
  <2> HIDE DEF kept
  <2>2. pending' = kept \cup {Entry(w)}
    BY <1>4, Zenon DEF handshake_binding_round1_cache, kept
  <2> QED
    BY <1>4, <2>1, <2>2, CacheInv, Zenon DEF handshake_binding_round1_cache
<1>5. ASSUME NEW n \in Node, NEW req \in Round2Request,
             frost_round2(n, req) \/ handshake_binding_round2(n, req)
      PROVE  AuxInv'
  BY <1>5, Round2Inv, Zenon DEF frost_round2, handshake_binding_round2, Protocol
<1>6. ASSUME NEW n \in Node, Restart(n)
      PROVE  AuxInv'
  BY <1>6, ForgetInv, Zenon DEF Restart, AuxInv, TypeOK
<1>7. CASE Tick
  BY <1>7, ForgetInv, AuxAssumption DEF Tick, AuxInv, TypeOK
<1> QED
  BY <1>1, <1>2, <1>3, <1>4, <1>5, <1>6, <1>7, Zenon DEF AuxNext

\* The inductive invariant holds in every reachable state of the nodes.
THEOREM AuxInvariant == AuxSpec => []AuxInv
  BY AuxInitInv, AuxStepInv, PTL DEF AuxSpec

\* The state of the nodes is always well typed.
THEOREM AuxTypeCorrect == AuxSpec => []TypeOK
<1>1. AuxInv => TypeOK
  BY Zenon DEF AuxInv
<1> QED
  BY <1>1, AuxInvariant, PTL

\* No nonce pair yields two shares: frost_round2 and handshake_binding_round2
\* remove the entry first, and every Round 1 draws fresh nonces.
THEOREM NoncesUsedOnce == AuxSpec => []NonceUsedOnce
<1>1. AuxInv => NonceUsedOnce
  BY Zenon DEF AuxInv
<1> QED
  BY <1>1, AuxInvariant, PTL

\* Every share is over what its node committed to in Round 1.
THEOREM SharesHonourCommitments == AuxSpec => []ShareHonoursCommitment
<1>1. AuxInv => ShareHonoursCommitment
  BY Zenon DEF AuxInv
<1> QED
  BY <1>1, AuxInvariant, PTL
\* A cached FROST round that has not expired is never displaced by another
\* Round 1 for the same session, whatever runs concurrently.
THEOREM FrostRoundsKept == AuxSpec => FrostRoundKept
<1>1. ASSUME AuxInv, [AuxNext]_auxvars PROVE [LiveRoundKept("frost")]_auxvars
  <2> SUFFICES ASSUME AuxNext,
                      NEW e \in pending, e.k = "frost", e \notin pending',
                      ~ Expired(e),
                      NEW f \in pending', f.k = "frost", f.n = e.n, f.s = e.s
               PROVE  FALSE
    BY <1>1, Zenon DEF LiveRoundKept
  <2>1. pending' # pending
    BY Zenon
  <2>2. ASSUME NEW w \in work, frost_round1_cache(w) PROVE FALSE
    BY <2>2, Zenon DEF frost_round1_cache, Evicted, Entry
  <2>3. ASSUME NEW w \in work, handshake_binding_round1_cache(w) PROVE FALSE
    BY <2>3, Zenon DEF handshake_binding_round1_cache, Evicted, Cached
  <2>4. ASSUME NEW n \in Node, NEW req \in Round2Request,
               frost_round2(n, req) \/ handshake_binding_round2(n, req)
        PROVE  FALSE
    BY <1>1, <2>4, Zenon
    DEF frost_round2, handshake_binding_round2, Round2, AuxInv, Keyed
  <2>5. ASSUME NEW n \in Node, Restart(n) PROVE FALSE
    BY <2>5, Zenon DEF Restart
  <2> QED
    BY <2>1, <2>2, <2>3, <2>4, <2>5, Zenon
    DEF AuxNext, frost_round1_check, handshake_binding_round1_check,
        StartRound1, Tick
<1> QED
  BY <1>1, AuxInvariant, PTL DEF AuxSpec, FrostRoundKept

---------------------------------------------------------------------------
(* The signing phase: the inductive invariant, and the steps that leave    *)
(* the calls alone.                                                        *)

Early == {"idle", "activate", "randomness", "engine", "collect", "quorum"}

\* Everything the nodes hold comes from a Round-1 call of this phase.
FromCalls ==
  /\ \A w \in work : w.k = "frost" /\ w.conn \in 1..N(w.s)
                     /\ w.n = Transports[w.s][w.conn]
  /\ \A c \in commitments : c.conn \in 1..N(c.s)
  /\ \A e \in pending : e.k = "frost" /\ e.n \in Range(Transports[e.s])
  /\ \A sh \in shares : sh.k = "frost"

\* A Round-1 call is in one place: request, handler or response.
OnePlace ==
  /\ \A w \in work : <<1, w.s, w.conn>> \notin requests
  /\ \A c \in commitments : <<1, c.s, c.conn>> \notin requests
  /\ \A w \in work, c \in commitments : ~ (w.s = c.s /\ w.conn = c.conn)
  /\ \A v, w \in work : v.s = w.s /\ v.conn = w.conn => v = w

\* No Round-1 call is ahead of the thread that makes it.
NotAhead ==
  \A s \in Session :
    /\ pc[s] \in Early =>
         /\ idx[s] = 1
         /\ \A i \in 1..N(s) : <<1, s, i>> \notin requests
         /\ \A w \in work : w.s # s
         /\ \A c \in commitments : c.s # s
    /\ pc[s] = "round1" =>
         /\ \A i \in 1..N(s) : <<1, s, i>> \in requests => i <= idx[s]
         /\ \A w \in work : w.s = s => w.conn <= idx[s]
         /\ \A c \in commitments : c.s = s => c.conn <= idx[s]
         /\ \A i \in 1..N(s) : i < idx[s] =>
              \E c \in commitments : c.s = s /\ c.conn = i

\* Round 2 has started: a request of it is on its way, or a share is made.
Started2(s) ==
  \/ \E i \in 1..N(s) : <<2, s, i>> \in requests
  \/ \E sh \in shares : sh.s = s

\* Round 2 starts after the thread has left Round 1 and all calls of Round 1
\* have been answered.
RoundsInOrder ==
  \A s \in Session :
    /\ pc[s] \in Early \cup {"round1"} => ~ Started2(s)
    /\ Started2(s) \/ pc[s] = "round2" =>
         /\ \A i \in 1..N(s) : <<1, s, i>> \notin requests
         /\ \A w \in work : w.s # s

\* A node that has signed a session holds no nonces for it any more.
Spent == \A sh \in shares, e \in pending : ~ (sh.n = e.n /\ sh.s = e.s)

OneShare == \A a, b \in shares : a.n = b.n /\ a.s = b.s => a = b

\* What the thread has collected, and has checked, at each point.
Collected ==
  \A s \in Session :
    /\ \A sh \in r2[s] : sh \in shares /\ sh.s = s
    /\ pc[s] \in {"record", "finalize", "done"} => AggregateAccepts(s, r2[s])
    /\ pc[s] \in {"round1", "round2", "record", "finalize", "done"} =>
         N(s) >= Threshold

\* The loop over record_approval rejects a signer that occurs twice.
DistinctSigners ==
  \A s \in Session :
    /\ pc[s] = "record" =>
         /\ \A i \in 1..N(s) : i < idx[s] => <<s, Transports[s][i]>> \in approvals
         /\ \A i, j \in 1..N(s) :
              i < idx[s] /\ j < idx[s] /\ Transports[s][i] = Transports[s][j] => i = j
    /\ pc[s] \in {"finalize", "done"} =>
         \A i, j \in 1..N(s) : Transports[s][i] = Transports[s][j] => i = j

CoInv ==
  /\ CoTypeOK /\ AuxInv
  /\ FromCalls /\ OnePlace /\ NotAhead /\ RoundsInOrder
  /\ Spent /\ OneShare /\ Collected /\ DistinctSigners
-----------------------------------------------------------------------------
\* Facts about the constants that the proofs use.
LEMMA TransportFacts ==
  ASSUME NEW s \in Session
  PROVE
  /\ N(s) \in Nat /\ N(s) >= 1
  /\ \A i \in 1..N(s) : Transports[s][i] \in Node /\ i \in Conn
  /\ Range(Transports[s]) = {Transports[s][i] : i \in 1..N(s)}
  /\ Range(Transports[s]) \subseteq Node
  BY SigningAssumption DEF N, Range

\* The requests the coordinator sends are requests of FrostAux.
LEMMA RequestTypes ==
  ASSUME CoTypeOK, NEW s \in Session, NEW i \in 1..N(s)
  PROVE  /\ Round1RequestOf(s, i) \in Round1Request
         /\ PackageOf(s) \in Package
         /\ Round2RequestOf(s, i) \in Round2Request
<1>1. signed_digest(s) \in Digest /\ s \in Body
  BY SigningAssumption, Zenon DEF signed_digest, approval_signed_digest, Digest
<1>2. Round1RequestOf(s, i) \in Round1Request
  BY <1>1, SigningAssumption, AuxAssumption, TransportFacts, Zenon
  DEF Round1RequestOf, Round1Request, CoTypeOK
<1>3. \A v \in Verifier : LastCommit(s, v) \in 0..MaxNonce
  <2> TAKE v \in Verifier
  <2>1. CASE LastPosition(s, v) = {}
    BY <2>1, AuxAssumption DEF LastCommit
  <2>2. CASE LastPosition(s, v) # {}
    <3>1. (CHOOSE j \in LastPosition(s, v) : TRUE) \in LastPosition(s, v)
      BY <2>2, Zenon
    <3>2. (CHOOSE j \in LastPosition(s, v) : TRUE) \in 1..N(s)
      BY <3>1, Zenon DEF LastPosition
    <3>3. (CHOOSE j \in LastPosition(s, v) : TRUE) \in Conn
      BY <3>2, TransportFacts, Zenon
    <3> QED
      BY <2>2, <3>3, ZenonT(30) DEF LastCommit, CoTypeOK
  <2> QED
    BY <2>1, <2>2, Zenon
<1>4. PackageOf(s) \in Package
  BY <1>1, <1>3, Zenon DEF PackageOf, Package
<1>5. Round2RequestOf(s, i) \in Round2Request
  BY <1>4, SigningAssumption, TransportFacts, Zenon DEF Round2RequestOf, Round2Request
<1> QED
  BY <1>2, <1>4, <1>5, Zenon

\* Every step of the composed system is a step of the nodes or leaves them
\* as they are.
LEMMA StepIsAux == CoTypeOK /\ [Next]_vars => [AuxNext]_auxvars
<1> SUFFICES ASSUME CoTypeOK, [Next]_vars PROVE [AuxNext]_auxvars
  BY Zenon
<1>1. CASE UNCHANGED vars
  BY <1>1, Zenon DEF vars
<1>2. ASSUME NEW s \in Session, Prepare(s) \/ Attest(s)
      PROVE  UNCHANGED auxvars
  BY <1>2, Zenon
  DEF Prepare, Attest, prepare_insert, prepare_activate, prepare_randomness,
      prepare_engine, attest_collect, attest_quorum, attest_round1, attest_round2,
      attest_call_fails, attest_record_approval, attest_finalize
<1>3. CASE Crash
  BY <1>3, Zenon DEF Crash
<1>4. ASSUME NEW m \in requests, serve_round1(m) \/ serve_round2(m)
      PROVE  [AuxNext]_auxvars
  <2>1. m[2] \in Session /\ m[3] \in 1..N(m[2])
    BY Zenon DEF CoTypeOK, Calls
  <2>2. /\ Transports[m[2]][m[3]] \in Node
        /\ Round1RequestOf(m[2], m[3]) \in Round1Request
        /\ Round2RequestOf(m[2], m[3]) \in Round2Request
    BY <2>1, RequestTypes, TransportFacts, Zenon
  <2> QED
    BY <1>4, <2>2, Zenon DEF serve_round1, serve_round2, AuxNext
<1>5. ASSUME NEW w \in work, serve_cache(w)
      PROVE  AuxNext
  BY <1>5, Zenon DEF serve_cache, AuxNext
<1>6. ASSUME NEW n \in Node, NodeRestart(n)
      PROVE  AuxNext
  BY <1>6, Zenon DEF NodeRestart, AuxNext
<1>7. CASE Clock
  BY <1>7, Zenon DEF Clock, AuxNext
<1> QED
  BY <1>1, <1>2, <1>3, <1>4, <1>5, <1>6, <1>7, Zenon DEF Next, Serve
\* The initial state satisfies the invariant: no call has been made.
LEMMA CoInitInv == Init => CoInv
<1> SUFFICES ASSUME Init PROVE CoInv
  BY Zenon
<1>1. AuxInv
  BY AuxInitInv, Zenon DEF Init
<1>2. Ttl \in Expiry
  <2>1. 0 \in 0..MaxTime
    BY AuxAssumption
  <2>2. 0 + Ttl \in Expiry
    BY <2>1, SigningAssumption, Zenon
  <2> QED
    BY <2>2, SigningAssumption
<1>3. CoTypeOK
  BY <1>1, <1>2, TransportFacts, AuxAssumption DEF Init, CoTypeOK, AuxInv
<1>4. FromCalls /\ OnePlace /\ Spent /\ OneShare
  BY Zenon DEF Init, AuxInit, FromCalls, OnePlace, Spent, OneShare
<1>5. NotAhead
  BY Zenon DEF Init, AuxInit, NotAhead
<1>6. RoundsInOrder
  BY Zenon DEF Init, AuxInit, RoundsInOrder, Started2
<1>7. Collected /\ DistinctSigners
  BY Zenon DEF Init, AuxInit, Collected, DistinctSigners
<1> QED
  BY <1>1, <1>3, <1>4, <1>5, <1>6, <1>7, Zenon DEF CoInv

\* Every step keeps the coordinator's variables well typed.
LEMMA CoTypeStep ==
  ASSUME CoTypeOK, FromCalls, TypeOK', [Next]_vars
  PROVE  CoTypeOK'
<1>1. CASE UNCHANGED vars
  BY <1>1, Zenon DEF vars, covars, CoTypeOK
<1>2. ASSUME NEW s \in Session, Prepare(s)
      PROVE  CoTypeOK'
  <2>1. clock + Ttl \in Expiry
    BY SigningAssumption, Zenon DEF CoTypeOK, TypeOK
  <2>2. CASE prepare_insert(s)
    BY <2>1, <2>2, Zenon
    DEF prepare_insert, Goto, SetState, CoTypeOK, Running, States
  <2>3. CASE prepare_activate(s)
    BY <2>3, Zenon DEF prepare_activate, Goto, SetState, CoTypeOK, Running, States
  <2>4. CASE prepare_randomness(s)
    BY <2>4, ZenonT(30)
    DEF prepare_randomness, Goto, SetState, CoTypeOK, Running, Returned, States
  <2>5. CASE prepare_engine(s)
    BY <2>5, ZenonT(30) DEF prepare_engine, Goto, CoTypeOK, Running, Returned
  <2> QED
    BY <1>2, <2>2, <2>3, <2>4, <2>5, Zenon DEF Prepare
<1>3. ASSUME NEW s \in Session, Attest(s)
      PROVE  CoTypeOK'
  <2>0. idx[s] \in 1..N(s) /\ Transports[s][idx[s]] \in Node /\ 1 \in 1..N(s)
        /\ N(s) \in Nat
    BY TransportFacts DEF CoTypeOK
  <2>1. \A r \in {1, 2}, i \in 1..N(s) : <<r, s, i>> \in Calls
    <3>1. \A i \in 1..N(s) : i \in Conn
      BY TransportFacts, Zenon
    <3> QED
      BY <3>1 DEF Calls
  <2>9. CASE attest_collect(s)
    BY <2>9, ZenonT(30) DEF attest_collect, Goto, SetState, CoTypeOK, Running, States
  <2>2. CASE attest_quorum(s)
    <3>1. pc' \in [Session -> {"idle"} \cup Running \cup Returned]
      BY <2>2, ZenonT(30) DEF attest_quorum, Goto, CoTypeOK, Running, Returned
    <3>2. store' \in [Session -> States \cup {Absent}]
      BY <2>2, ZenonT(30) DEF attest_quorum, SetState, CoTypeOK, States
    <3>3. requests' \in SUBSET Calls
      BY <2>0, <2>1, <2>2 DEF attest_quorum, CoTypeOK
    <3> QED
      BY <2>2, <3>1, <3>2, <3>3, Zenon DEF attest_quorum, CoTypeOK
  <2>3. CASE attest_round1(s)
    <3>1. PICK c \in commitments : r1' = [r1 EXCEPT ![s][idx[s]] = c.nonce]
      BY <2>3, ZenonT(30) DEF attest_round1
    <3>2. c.nonce \in 0..MaxNonce
      BY DEF CoTypeOK, TypeOK, Handler, Nonce
    <3>3. r1' \in [Session -> [Conn -> 0..MaxNonce]]
      BY <2>0, <3>1, <3>2, Zenon DEF CoTypeOK
    <3>4. idx' \in [Session -> Nat] /\ \A t \in Session : idx'[t] \in 1..N(t)
      BY <2>0, <2>3, SMTT(30) DEF attest_round1, CoTypeOK
    <3>5. requests' \in SUBSET Calls
      <4>1. idx[s] < N(s) => idx[s] + 1 \in 1..N(s)
        BY <2>0
      <4> QED
        BY <2>0, <2>1, <2>3, <4>1 DEF attest_round1, CoTypeOK
    <3>6. pc' \in [Session -> {"idle"} \cup Running \cup Returned]
      BY <2>3, ZenonT(30) DEF attest_round1, Goto, CoTypeOK, Running, Returned
    <3> QED
      BY <2>3, <3>3, <3>4, <3>5, <3>6, ZenonT(30) DEF attest_round1, CoTypeOK
  <2>4. CASE attest_round2(s)
    <3>1. r2' \in [Session -> SUBSET Share]
      BY <2>4 DEF attest_round2, CoTypeOK, TypeOK
    <3>2. idx' \in [Session -> Nat] /\ \A t \in Session : idx'[t] \in 1..N(t)
      <4>1. \/ idx[s] < N(s) /\ idx' = [idx EXCEPT ![s] = @ + 1]
            \/ idx' = [idx EXCEPT ![s] = 1]
        BY <2>4, Zenon DEF attest_round2
      <4>2. idx[s] < N(s) => idx[s] + 1 \in 1..N(s)
        BY <2>0
      <4>3. idx \in [Session -> Nat] /\ \A t \in Session : idx[t] \in 1..N(t)
        BY Zenon DEF CoTypeOK
      <4> QED
        BY <2>0, <4>1, <4>2, <4>3
    <3>3. requests' \in SUBSET Calls
      <4>1. idx[s] < N(s) => idx[s] + 1 \in 1..N(s)
        BY <2>0
      <4> QED
        BY <2>0, <2>1, <2>4, <4>1 DEF attest_round2, CoTypeOK
    <3>4. pc' \in [Session -> {"idle"} \cup Running \cup Returned]
      BY <2>4, ZenonT(30) DEF attest_round2, Goto, CoTypeOK, Running, Returned
    <3> QED
      BY <2>4, <3>1, <3>2, <3>3, <3>4, SMTT(30) DEF attest_round2, CoTypeOK
  <2>5. CASE attest_call_fails(s)
    BY <2>5, Zenon DEF attest_call_fails, Goto, SetState, CoTypeOK, Returned, States
  <2>6. CASE attest_record_approval(s)
    <3>1. pc' \in [Session -> {"idle"} \cup Running \cup Returned]
      BY <2>6, ZenonT(30) DEF attest_record_approval, Goto, CoTypeOK, Running, Returned
    <3>2. idx' \in [Session -> Nat] /\ \A t \in Session : idx'[t] \in 1..N(t)
      <4>1. \/ idx[s] < N(s) /\ idx' = [idx EXCEPT ![s] = @ + 1]
            \/ idx' = [idx EXCEPT ![s] = 1]
            \/ idx' = idx
        BY <2>6, Zenon DEF attest_record_approval
      <4>2. idx[s] < N(s) => idx[s] + 1 \in 1..N(s)
        BY <2>0
      <4>3. idx \in [Session -> Nat] /\ \A t \in Session : idx[t] \in 1..N(t)
        BY DEF CoTypeOK
      <4> QED
        BY <2>0, <4>1, <4>2, <4>3
    <3>3. approvals' \in SUBSET (Session \X Node)
      BY <2>0, <2>6 DEF attest_record_approval, CoTypeOK
    <3> QED
      BY <2>6, <3>1, <3>2, <3>3, Zenon DEF attest_record_approval, CoTypeOK
  <2>7. CASE attest_finalize(s)
    BY <2>7, Zenon DEF attest_finalize, Goto, SetState, CoTypeOK, Returned, States
  <2> QED
    BY <1>3, <2>2, <2>3, <2>4, <2>5, <2>6, <2>7, <2>9, Zenon DEF Attest
<1>4. CASE Crash
  BY <1>4, Zenon DEF Crash, CoTypeOK, Running, Returned
<1>5. ASSUME NEW m \in requests, serve_round1(m) \/ serve_round2(m)
      PROVE  CoTypeOK'
  BY <1>5, Zenon DEF serve_round1, serve_round2, covars, CoTypeOK
<1>6. ASSUME NEW w \in work, serve_cache(w)
      PROVE  CoTypeOK'
  <2>1. <<1, w.s, w.conn>> \in Calls
    BY Zenon DEF CoTypeOK, TypeOK, Handler, FromCalls, Calls
  <2> QED
    BY <1>6, <2>1, ZenonT(30) DEF serve_cache, covars, CoTypeOK
<1>7. ASSUME NEW n \in Node, NodeRestart(n)
      PROVE  CoTypeOK'
  BY <1>7, Zenon DEF NodeRestart, covars, CoTypeOK
<1>8. CASE Clock
  BY <1>8, Zenon DEF Clock, covars, CoTypeOK
<1> QED
  BY <1>1, <1>2, <1>3, <1>4, <1>5, <1>6, <1>7, <1>8, Zenon DEF Next, Serve
\* The package of a session depends on the commitments it received only.
LEMMA PackageStable ==
  ASSUME NEW s \in Session, r1'[s] = r1[s]
  PROVE  PackageOf(s)' = PackageOf(s)
  BY DEF PackageOf, LastCommit, LastPosition, N, signed_digest,
         approval_signed_digest

\* What a thread has collected stays good as long as its responses do.
LEMMA AggregateStable ==
  ASSUME NEW s \in Session, r1'[s] = r1[s], r2'[s] = r2[s],
         AggregateAccepts(s, r2[s])
  PROVE  AggregateAccepts(s, r2[s])'
<1>1. PackageOf(s)' = PackageOf(s)
  BY PackageStable, Zenon
<1> QED
  BY <1>1 DEF AggregateAccepts

\* The positions a thread may take in a step that neither sends nor receives.
QuietMove(t) ==
  \/ pc'[t] = pc[t] /\ idx'[t] = idx[t]
  \/ pc[t] \in Early /\ pc'[t] \in Early /\ idx'[t] = idx[t]
  \/ pc[t] = "record" /\ pc'[t] \in {"record", "finalize"}
  \/ pc[t] = "finalize" /\ pc'[t] = "done"
  \/ pc'[t] \in {"error", "down"}

\* Steps of the coordinator alone.
LEMMA QuietStep ==
  ASSUME CoInv, UNCHANGED <<auxvars, requests, r1, r2>>,
         \A t \in Session : QuietMove(t),
         CoTypeOK', DistinctSigners'
  PROVE  CoInv'
<1> USE DEF auxvars
<1>1. AuxInv'
  BY AuxStepInv, Zenon DEF CoInv
<1>2. FromCalls' /\ OnePlace' /\ Spent' /\ OneShare'
  BY Zenon DEF CoInv, FromCalls, OnePlace, Spent, OneShare
<1>3. NotAhead'
  BY DEF CoInv, NotAhead, QuietMove, Early
<1>4. RoundsInOrder'
  BY Zenon DEF CoInv, RoundsInOrder, Started2, QuietMove, Early
<1>5. Collected'
  BY AggregateStable, Zenon DEF CoInv, Collected, QuietMove, Early
<1> QED
  BY <1>1, <1>2, <1>3, <1>4, <1>5, Zenon DEF CoInv

\* Steps that lose requests, handlers or entries and send nothing.
LEMMA LoseStep ==
  ASSUME CoInv, UNCHANGED <<covars, commitments, shares>>,
         requests' \in SUBSET requests,
         work' \in SUBSET work, pending' \in SUBSET pending,
         AuxInv', CoTypeOK'
  PROVE  CoInv'
<1> USE DEF covars
<1>1. FromCalls' /\ OnePlace' /\ Spent' /\ OneShare'
  BY Zenon DEF CoInv, FromCalls, OnePlace, Spent, OneShare
<1>2. NotAhead'
  BY Zenon DEF CoInv, NotAhead
<1>3. RoundsInOrder'
  BY Zenon DEF CoInv, RoundsInOrder, Started2
<1>4. Collected' /\ DistinctSigners'
  BY AggregateStable, Zenon DEF CoInv, Collected, DistinctSigners
<1> QED
  BY <1>1, <1>2, <1>3, <1>4, Zenon DEF CoInv

\* Preparing a session (insert, randomness, Attesting) sends nothing and touches
\* no node: the invariant carries over.
LEMMA PrepareInv ==
  ASSUME CoInv, CoTypeOK', NEW s \in Session, Prepare(s)
  PROVE  CoInv'
<1>1. UNCHANGED <<auxvars, requests, r1, r2, idx, approvals>>
  BY Zenon DEF Prepare, prepare_insert, prepare_activate, prepare_randomness,
         prepare_engine
<1>2. /\ pc[s] \in Early
      /\ \E where \in Early \cup {"error"} : pc' = [pc EXCEPT ![s] = where]
  BY Zenon DEF Prepare, prepare_insert, prepare_activate, prepare_randomness,
         prepare_engine, Goto, Early
<1>3. \A t \in Session : QuietMove(t)
  <2>1. PICK where \in Early \cup {"error"} : pc' = [pc EXCEPT ![s] = where]
    BY <1>2, Zenon
  <2>2. pc \in [Session -> {"idle"} \cup Running \cup Returned]
    BY Zenon DEF CoInv, CoTypeOK
  <2> QED
    BY <1>1, <1>2, <2>1, <2>2, Zenon DEF QuietMove
<1>4. \A t \in Session : pc'[t] = pc[t] \/ pc'[t] \notin {"record", "finalize", "done"}
  <2>1. PICK where \in Early \cup {"error"} : pc' = [pc EXCEPT ![s] = where]
    BY <1>2, Zenon
  <2>2. where \notin {"record", "finalize", "done"}
    BY <2>1 DEF Early
  <2>3. pc \in [Session -> {"idle"} \cup Running \cup Returned]
    BY Zenon DEF CoInv, CoTypeOK
  <2> QED
    BY <2>1, <2>2, <2>3, Zenon
<1>5. DistinctSigners'
  BY <1>1, <1>4, Zenon DEF CoInv, DistinctSigners, N
<1> QED
  BY <1>1, <1>3, <1>5, QuietStep, Zenon

\* A failed call fails its session and leaves every message and node alone.
LEMMA CallFailsInv ==
  ASSUME CoInv, CoTypeOK', NEW s \in Session, attest_call_fails(s)
  PROVE  CoInv'
<1>1. UNCHANGED <<auxvars, requests, r1, r2, idx, approvals>>
      /\ pc' = [pc EXCEPT ![s] = "error"]
  BY Zenon DEF attest_call_fails, Goto
<1>2. \A t \in Session : QuietMove(t)
  BY <1>1, Zenon DEF QuietMove, CoInv, CoTypeOK
<1>3. DistinctSigners'
  BY <1>1, Zenon DEF CoInv, CoTypeOK, DistinctSigners
<1> QED
  BY <1>1, <1>2, <1>3, QuietStep, Zenon

\* A restarted node has an empty nonce cache: what it had consumed stays consumed.
LEMMA CrashInv ==
  ASSUME CoInv, CoTypeOK', Crash
  PROVE  CoInv'
<1>1. UNCHANGED <<auxvars, requests, r1, r2, idx>>
  BY Zenon DEF Crash
<1>2. \A t \in Session : pc'[t] = "down" \/ (pc'[t] = pc[t] /\ pc[t] \notin Running)
  BY Zenon DEF Crash
<1>3. \A t \in Session : QuietMove(t)
  BY <1>1, <1>2, Zenon DEF QuietMove
<1>4. DistinctSigners'
  BY <1>1, <1>2, Zenon DEF CoInv, DistinctSigners, Running
<1> QED
  BY <1>1, <1>3, <1>4, QuietStep, Zenon

\* The loop over record_approval: a signer met before is an error.
LEMMA RecordInv ==
  ASSUME CoInv, CoTypeOK', NEW s \in Session, attest_record_approval(s)
  PROVE  CoInv'
<1>1. UNCHANGED <<auxvars, requests, r1, r2>> /\ pc[s] = "record"
  BY Zenon DEF attest_record_approval
<1>2. \A t \in Session \ {s} : pc'[t] = pc[t] /\ idx'[t] = idx[t]
  BY ZenonT(30) DEF attest_record_approval, Goto, CoInv, CoTypeOK
<1>3. approvals \subseteq approvals'
  BY Zenon DEF attest_record_approval
<1>4. N(s) \in Nat /\ idx[s] \in 1..N(s) /\ Transports[s][idx[s]] \in Node
  BY TransportFacts, Zenon DEF CoInv, CoTypeOK
<1>5. CASE pc'[s] = "error"
  <2>1. \A t \in Session : QuietMove(t)
    BY <1>2, <1>5, Zenon DEF QuietMove
  <2>2. DistinctSigners'
    BY <1>2, <1>3, <1>5, Zenon DEF CoInv, DistinctSigners
  <2> QED
    BY <1>1, <2>1, <2>2, QuietStep, Zenon
<1>6. CASE pc'[s] # "error"
  <2>1. /\ <<s, Transports[s][idx[s]]>> \notin approvals
        /\ approvals' = approvals \cup {<<s, Transports[s][idx[s]]>>}
        /\ \/ idx[s] < N(s) /\ idx'[s] = idx[s] + 1 /\ pc'[s] = "record"
           \/ idx[s] = N(s) /\ pc'[s] = "finalize"
    <3>1. /\ pc \in [Session -> {"idle"} \cup Running \cup Returned]
          /\ idx \in [Session -> Nat]
      BY Zenon DEF CoInv, CoTypeOK
    <3>2. ~ (idx[s] < N(s)) => idx[s] = N(s)
      BY <1>4
    <3> QED
      BY <1>1, <1>4, <1>6, <3>1, <3>2 DEF attest_record_approval, Goto
  <2>2. \A t \in Session : QuietMove(t)
    BY <1>1, <1>2, <2>1, Zenon DEF QuietMove
  <2>3. \A i \in 1..N(s) : i < idx[s] => <<s, Transports[s][i]>> \in approvals
    BY <1>1, Zenon DEF CoInv, DistinctSigners
  <2>4. \A i, j \in 1..N(s) : i <= idx[s] /\ j <= idx[s]
                            /\ Transports[s][i] = Transports[s][j] => i = j
    <3> SUFFICES ASSUME NEW i \in 1..N(s), NEW j \in 1..N(s),
                        i <= idx[s], j <= idx[s], Transports[s][i] = Transports[s][j]
                 PROVE  i = j
      BY Zenon
    <3>1. CASE i < idx[s] /\ j < idx[s]
      BY <1>1, <3>1, Zenon DEF CoInv, DistinctSigners
    <3>2. CASE i = idx[s] /\ j = idx[s]
      BY <3>2, Zenon
    <3>3. CASE i < idx[s] /\ j = idx[s]
      BY <2>1, <2>3, <3>3, Zenon
    <3>4. CASE i = idx[s] /\ j < idx[s]
      BY <2>1, <2>3, <3>4, Zenon
    <3> QED
      BY <1>4, <3>1, <3>2, <3>3, <3>4
  <2>5. \A i \in 1..N(s) : i <= idx[s] => <<s, Transports[s][i]>> \in approvals'
    <3> SUFFICES ASSUME NEW i \in 1..N(s), i <= idx[s]
                 PROVE  <<s, Transports[s][i]>> \in approvals'
      BY Zenon
    <3>1. i < idx[s] \/ i = idx[s]
      BY <1>4
    <3> QED
      BY <2>1, <2>3, <3>1, Zenon
  <2>6. DistinctSigners'
    <3> SUFFICES ASSUME NEW t \in Session
        PROVE  /\ pc'[t] = "record" =>
                   /\ \A i \in 1..N(t) : i < idx'[t] =>
                        <<t, Transports[t][i]>> \in approvals'
                   /\ \A i, j \in 1..N(t) :
                        i < idx'[t] /\ j < idx'[t]
                          /\ Transports[t][i] = Transports[t][j] => i = j
               /\ pc'[t] \in {"finalize", "done"} =>
                   \A i, j \in 1..N(t) : Transports[t][i] = Transports[t][j] => i = j
      BY Zenon DEF DistinctSigners, N
    <3>1. CASE t # s
      BY <1>2, <1>3, <3>1, Zenon DEF CoInv, DistinctSigners
    <3>2. CASE t = s /\ idx[s] < N(s) /\ idx'[s] = idx[s] + 1 /\ pc'[s] = "record"
      <4>1. \A i \in 1..N(s) : i < idx'[s] => i <= idx[s]
        BY <1>4, <3>2
      <4> QED
        BY <2>4, <2>5, <3>2, <4>1, Zenon
    <3>3. CASE t = s /\ idx[s] = N(s) /\ pc'[s] = "finalize"
      <4>1. \A i \in 1..N(s) : i <= idx[s]
        BY <1>4, <3>3
      <4> QED
        BY <2>4, <3>3, <4>1, Zenon
    <3> QED
      BY <2>1, <3>1, <3>2, <3>3, Zenon
  <2> QED
    BY <1>1, <2>2, <2>6, QuietStep
<1> QED
  BY <1>5, <1>6, Zenon

\* Finalizing adds an envelope only for a session every chosen node has signed.
LEMMA FinalizeInv ==
  ASSUME CoInv, CoTypeOK', NEW s \in Session, attest_finalize(s)
  PROVE  CoInv'
<1>1. /\ UNCHANGED <<auxvars, requests, r1, r2, idx, approvals>>
      /\ pc[s] = "finalize" /\ pc' = [pc EXCEPT ![s] = "done"]
  BY Zenon DEF attest_finalize, Goto
<1>2. \A t \in Session : QuietMove(t)
  BY <1>1, Zenon DEF QuietMove, CoInv, CoTypeOK
<1>3. DistinctSigners'
  BY <1>1, Zenon DEF CoInv, CoTypeOK, DistinctSigners
<1> QED
  BY <1>1, <1>2, <1>3, QuietStep, Zenon

---------------------------------------------------------------------------
(* What the signing thread does with the responses of the two rounds.      *)

\* The session is stored as Collecting: nothing is sent.
LEMMA CollectInv ==
  ASSUME CoInv, CoTypeOK', NEW s \in Session, attest_collect(s)
  PROVE  CoInv'
<1>1. UNCHANGED <<auxvars, requests, r1, r2, idx, approvals>>
      /\ pc[s] = "collect" /\ pc' = [pc EXCEPT ![s] = "quorum"]
  BY Zenon DEF attest_collect, Goto
<1>2. \A t \in Session : QuietMove(t)
  BY <1>1, Zenon DEF QuietMove, CoInv, CoTypeOK, Early
<1>3. DistinctSigners'
  BY <1>1, Zenon DEF CoInv, CoTypeOK, DistinctSigners
<1> QED
  BY <1>1, <1>2, <1>3, QuietStep, Zenon

\* The quorum check, and the first Round-1 request of a session.
LEMMA QuorumInv ==
  ASSUME CoInv, CoTypeOK', NEW s \in Session, attest_quorum(s)
  PROVE  CoInv'
<1>1. UNCHANGED <<auxvars, r1, r2, idx, approvals>> /\ pc[s] = "quorum"
  BY Zenon DEF attest_quorum
<1>2. CASE requests' = requests /\ pc' = [pc EXCEPT ![s] = "error"]
  <2>1. \A t \in Session : QuietMove(t)
    BY <1>1, <1>2, Zenon DEF QuietMove, CoInv, CoTypeOK
  <2>2. DistinctSigners'
    BY <1>1, <1>2, Zenon DEF CoInv, CoTypeOK, DistinctSigners
  <2> QED
    BY <1>1, <1>2, <2>1, <2>2, QuietStep, Zenon
<1>3. CASE /\ ~ (N(s) < Threshold)
           /\ requests' = requests \cup {<<1, s, 1>>}
           /\ pc' = [pc EXCEPT ![s] = "round1"]
  <2>0. /\ idx[s] = 1 /\ N(s) \in Nat
        /\ \A i \in 1..N(s) : <<1, s, i>> \notin requests
        /\ \A w \in work : w.s # s
        /\ \A c \in commitments : c.s # s
        /\ ~ Started2(s)
    BY <1>1, TransportFacts, Zenon DEF CoInv, NotAhead, RoundsInOrder, Early
  <2>1. AuxInv'
    BY <1>1, AuxStepInv, Zenon DEF CoInv
  <2>2. FromCalls' /\ Spent' /\ OneShare'
    BY <1>1, Zenon DEF auxvars, CoInv, FromCalls, Spent, OneShare
  <2>3. OnePlace'
    BY <1>1, <1>3, <2>0, Zenon DEF auxvars, CoInv, OnePlace
  <2>4. NotAhead'
    <3>1. pc'[s] = "round1" /\ \A t \in Session \ {s} : pc'[t] = pc[t]
      BY <1>3, Zenon DEF CoInv, CoTypeOK
    <3>2. \A t \in Session \ {s}, i \in Conn :
            <<1, t, i>> \in requests' <=> <<1, t, i>> \in requests
      BY <1>3, Zenon
    <3>3. \A i \in 1..N(s) : <<1, s, i>> \in requests' => i <= 1
      BY <1>3, <2>0
    <3>4. \A i \in 1..N(s) : ~ (i < 1)
      BY <2>0
    <3>5. \A t \in Session : \A i \in 1..N(t) : i \in Conn
      BY TransportFacts, Zenon
    <3>6. ASSUME NEW t \in Session, t # s
          PROVE  /\ pc'[t] = pc[t] /\ idx'[t] = idx[t]
                 /\ \A i \in 1..N(t) : <<1, t, i>> \in requests' <=> <<1, t, i>> \in requests
      BY <1>1, <3>1, <3>2, <3>5, <3>6, Zenon
    <3>7. NotAhead /\ UNCHANGED <<work, commitments, idx>>
      BY <1>1, Zenon DEF auxvars, CoInv
    <3> QED
      BY <2>0, <3>1, <3>3, <3>4, <3>6, <3>7, SMTT(30) DEF NotAhead, Early, N
  <2>5. \A t \in Session : Started2(t)' <=> Started2(t)
    BY <1>1, <1>3 DEF auxvars, Started2
  <2>6. RoundsInOrder'
    BY <1>1, <1>3, <2>0, <2>5, Zenon DEF auxvars, CoInv, CoTypeOK, RoundsInOrder, Early
  <2>7. Collected'
    <3>1. pc'[s] = "round1" /\ \A t \in Session \ {s} : pc'[t] = pc[t]
      BY <1>3 DEF CoInv, CoTypeOK
    <3>2. N(s) >= Threshold
      BY <1>3, <2>0, SigningAssumption
    <3> QED
      BY <1>1, <3>1, <3>2, AggregateStable, Zenon DEF auxvars, CoInv, Collected, N
  <2>8. DistinctSigners'
    BY <1>1, <1>3, Zenon DEF CoInv, CoTypeOK, DistinctSigners
  <2> QED
    BY <2>1, <2>2, <2>3, <2>4, <2>6, <2>7, <2>8, Zenon DEF CoInv
<1> QED
  BY <1>2, <1>3, Zenon DEF attest_quorum, Goto

\* A Round-1 response: the next call goes out, or Round 2 starts.
LEMMA Round1ResponseInv ==
  ASSUME CoInv, CoTypeOK', NEW s \in Session, attest_round1(s)
  PROVE  CoInv'
<1>1. UNCHANGED <<auxvars, r2, approvals>> /\ pc[s] = "round1"
  BY Zenon DEF attest_round1
<1>2. PICK c \in commitments : c.s = s /\ c.conn = idx[s]
  BY Zenon DEF attest_round1
<1>3. \A t \in Session \ {s} :
        pc'[t] = pc[t] /\ idx'[t] = idx[t] /\ r1'[t] = r1[t]
  <2>1. \A t \in Session \ {s} : pc'[t] = pc[t]
    BY ZenonT(30) DEF attest_round1, Goto, CoInv, CoTypeOK
  <2>2. \A t \in Session \ {s} : idx'[t] = idx[t]
    BY ZenonT(30) DEF attest_round1, CoInv, CoTypeOK
  <2>3. \A t \in Session \ {s} : r1'[t] = r1[t]
    BY ZenonT(30) DEF attest_round1, CoInv, CoTypeOK
  <2> QED
    BY <2>1, <2>2, <2>3, Zenon
<1>4. N(s) \in Nat /\ idx[s] \in 1..N(s)
  BY TransportFacts, Zenon DEF CoInv, CoTypeOK
<1>5. \A i \in 1..N(s) : i < idx[s] => \E d \in commitments : d.s = s /\ d.conn = i
  BY <1>1, Zenon DEF CoInv, NotAhead
<1>6. AuxInv'
  BY <1>1, AuxStepInv, Zenon DEF CoInv
<1>7. FromCalls' /\ Spent' /\ OneShare'
  BY <1>1, Zenon DEF auxvars, CoInv, FromCalls, Spent, OneShare
<1>8. ~ Started2(s)
  BY <1>1, Zenon DEF CoInv, RoundsInOrder
<1>9. Collected'
  <2>0. /\ Collected /\ UNCHANGED <<shares, r2>>
        /\ pc[s] = "round1" /\ pc'[s] \in {"round1", "round2", "error"}
    <3>1. pc \in [Session -> {"idle"} \cup Running \cup Returned]
      BY Zenon DEF CoInv, CoTypeOK
    <3> QED
      BY <3>1, Zenon DEF attest_round1, Goto, auxvars, CoInv
  <2>1. \A t \in Session \ {s} : r1'[t] = r1[t]
    BY <1>3, Zenon DEF CoInv, CoTypeOK
  <2>2. ASSUME NEW t \in Session \ {s},
               pc'[t] \in {"record", "finalize", "done"}
        PROVE  AggregateAccepts(t, r2[t])'
    BY <1>3, <2>0, <2>1, <2>2, AggregateStable, Zenon DEF Collected
  <2>3. \A t \in Session :
          pc'[t] \in {"round1", "round2", "record", "finalize", "done"} =>
            N(t) >= Threshold
    BY <1>3, <2>0, Zenon DEF Collected
  <2>4. pc'[s] \notin {"record", "finalize", "done"}
    BY <2>0, Zenon
  <2>5. \A t \in Session : \A sh \in r2'[t] : sh \in shares' /\ sh.s = t
    BY <2>0, Zenon DEF Collected
  <2> QED
    BY <2>2, <2>3, <2>4, <2>5, Zenon DEF Collected, N
<1>10. DistinctSigners'
  <2>1. DistinctSigners /\ pc'[s] \in {"round1", "round2", "error"}
    <3>1. pc \in [Session -> {"idle"} \cup Running \cup Returned]
      BY DEF CoInv, CoTypeOK
    <3> QED
      BY <3>1, Zenon DEF attest_round1, Goto, CoInv
  <2>2. pc'[s] \notin {"record", "finalize", "done"}
    BY <2>1, Zenon
  <2> QED
    BY <1>1, <1>3, <2>1, <2>2, Zenon DEF DistinctSigners, N
<1>11. CASE /\ idx[s] < N(s) /\ idx'[s] = idx[s] + 1 /\ pc'[s] = "round1"
            /\ requests' = requests \cup {<<1, s, idx[s] + 1>>}
  <2>1. /\ \A i \in 1..N(s) : <<1, s, i>> \in requests => i <= idx[s]
        /\ \A w \in work : w.s = s => w.conn <= idx[s]
        /\ \A d \in commitments : d.s = s => d.conn <= idx[s]
    BY <1>1, Zenon DEF CoInv, NotAhead
  <2>2. /\ \A w \in work : w.conn \in 1..N(w.s)
        /\ \A d \in commitments : d.conn \in 1..N(d.s)
    BY Zenon DEF CoInv, FromCalls
  <2>3. OnePlace'
    <3>1. OnePlace /\ UNCHANGED <<work, commitments>>
      BY <1>1, Zenon DEF auxvars, CoInv
    <3> QED
      BY <1>4, <1>11, <2>1, <2>2, <3>1 DEF OnePlace
  <2>4. \A i \in 1..N(s) : i < idx[s] + 1 =>
          \E d \in commitments : d.s = s /\ d.conn = i
    BY <1>2, <1>4, <1>5
  <2>5. NotAhead'
    <3> SUFFICES ASSUME NEW t \in Session
        PROVE  /\ pc'[t] \in Early =>
                   /\ idx'[t] = 1
                   /\ \A i \in 1..N(t) : <<1, t, i>> \notin requests'
                   /\ \A w \in work' : w.s # t
                   /\ \A d \in commitments' : d.s # t
               /\ pc'[t] = "round1" =>
                   /\ \A i \in 1..N(t) : <<1, t, i>> \in requests' => i <= idx'[t]
                   /\ \A w \in work' : w.s = t => w.conn <= idx'[t]
                   /\ \A d \in commitments' : d.s = t => d.conn <= idx'[t]
                   /\ \A i \in 1..N(t) : i < idx'[t] =>
                        \E d \in commitments' : d.s = t /\ d.conn = i
      BY Zenon DEF NotAhead, N, Early
    <3>1. CASE t # s
      BY <1>1, <1>3, <1>11, <3>1, Zenon DEF auxvars, CoInv, NotAhead
    <3>2. CASE t = s
      BY <1>1, <1>4, <1>11, <2>1, <2>2, <2>4, <3>2, SMTT(30) DEF auxvars, Early
    <3> QED
      BY <3>1, <3>2, Zenon
  <2>6. \A t \in Session : Started2(t)' <=> Started2(t)
    <3>1. \A t \in Session, i \in Conn :
            <<2, t, i>> \in requests' <=> <<2, t, i>> \in requests
      BY <1>11
    <3>2. \A t \in Session : \A i \in 1..N(t) : i \in Conn
      BY TransportFacts, Zenon
    <3> QED
      BY <1>1, <3>1, <3>2, ZenonT(30) DEF auxvars, Started2, N
  <2>7. RoundsInOrder'
    BY <1>1, <1>3, <1>8, <1>11, <2>6, Zenon DEF auxvars, CoInv, RoundsInOrder, Early
  <2> QED
    BY <1>6, <1>7, <1>9, <1>10, <2>3, <2>5, <2>7, Zenon DEF CoInv
<1>12. CASE /\ idx[s] = N(s) /\ pc'[s] = "round2"
            /\ requests' = requests \cup {<<2, s, 1>>}
  <2>1. \A i \in 1..N(s) : \E d \in commitments : d.s = s /\ d.conn = i
    BY <1>2, <1>4, <1>5, <1>12
  <2>2. \A i \in 1..N(s) : <<1, s, i>> \notin requests
    BY <2>1, Zenon DEF CoInv, OnePlace
  <2>3. \A w \in work : w.s # s
    <3>1. \A w \in work : w.conn \in 1..N(w.s)
      BY Zenon DEF CoInv, FromCalls
    <3> QED
      BY <2>1, <3>1 DEF CoInv, OnePlace
  <2>4. OnePlace'
    BY <1>1, <1>12 DEF auxvars, CoInv, OnePlace
  <2>5. NotAhead'
    BY <1>1, <1>3, <1>12, Zenon DEF auxvars, CoInv, NotAhead, Early
  <2>6. \A t \in Session \ {s} : Started2(t)' <=> Started2(t)
    BY <1>1, <1>12, Zenon DEF auxvars, Started2
  <2>7. RoundsInOrder'
    BY <1>1, <1>3, <1>12, <2>2, <2>3, <2>6
    DEF auxvars, CoInv, RoundsInOrder, Early
  <2> QED
    BY <1>6, <1>7, <1>9, <1>10, <2>4, <2>5, <2>7 DEF CoInv
<1>13. CASE pc'[s] = "error" /\ requests' = requests
  <2>1. OnePlace'
    BY <1>1, <1>13, Zenon DEF auxvars, CoInv, OnePlace
  <2>2. NotAhead'
    BY <1>1, <1>3, <1>13 DEF auxvars, CoInv, NotAhead, Early
  <2>3. RoundsInOrder'
    BY <1>1, <1>3, <1>8, <1>13, Zenon DEF auxvars, CoInv, RoundsInOrder, Started2, Early
  <2> QED
    BY <1>6, <1>7, <1>9, <1>10, <2>1, <2>2, <2>3 DEF CoInv
<1> QED
  <2>1. pc \in [Session -> {"idle"} \cup Running \cup Returned]
        /\ idx \in [Session -> Nat] /\ \A t \in Session : idx[t] \in 1..N(t)
    BY Zenon DEF CoInv, CoTypeOK
  <2> QED
    BY <1>1, <1>4, <1>11, <1>12, <1>13, <2>1 DEF attest_round1, Goto

\* What frost_round2 does: it takes the entry out, and may add one share.
LEMMA Round2Effect ==
  ASSUME NEW n, NEW req, frost_round2(n, req)
  PROVE  \E e \in pending :
           /\ e.k = "frost" /\ e.n = n /\ e.s = req.s
           /\ pending' = pending \ {e}
           /\ UNCHANGED <<work, commitments>>
           /\ \/ UNCHANGED shares
              \/ \E sh : /\ shares' = shares \cup {sh}
                         /\ sh.k = "frost" /\ sh.n = n /\ sh.s = req.s
                         /\ sh.nonce = e.nonce
<1>1. PICK e \in Cached("frost", n, req.s) :
        /\ pending' = pending \ {e}
        /\ UNCHANGED <<clock, drawn, work, commitments>>
        /\ \/ UNCHANGED shares
           \/ shares' = shares \cup
                {[k |-> "frost", n |-> n, s |-> req.s, nonce |-> e.nonce,
                  signers |-> req.signers, pkg |-> req.pkg, conn |-> req.conn]}
  BY Zenon DEF frost_round2, Round2
<1>2. e \in pending /\ e.k = "frost" /\ e.n = n /\ e.s = req.s
  BY Zenon DEF Cached
<1> DEFINE sh == [k |-> "frost", n |-> n, s |-> req.s, nonce |-> e.nonce,
                  signers |-> req.signers, pkg |-> req.pkg, conn |-> req.conn]
<1>3. sh.k = "frost" /\ sh.n = n /\ sh.s = req.s /\ sh.nonce = e.nonce
  BY Zenon
<1>4. UNCHANGED shares \/ shares' = shares \cup {sh}
  BY <1>1, Zenon
<1> HIDE DEF sh
<1> QED
  BY <1>1, <1>2, <1>3, <1>4, Zenon

\* A session past the aggregation has a share of every signer.
LEMMA AllSigned ==
  ASSUME CoInv, NEW s \in Session, pc[s] \in {"record", "finalize", "done"},
         NEW v \in Range(Transports[s])
  PROVE  \E sh \in shares : /\ sh.k = "frost" /\ sh.n = v /\ sh.s = s
                            /\ sh.pkg = PackageOf(s)
<1>1. Collected /\ FromCalls
  BY Zenon DEF CoInv
<1>2. AggregateAccepts(s, r2[s]) /\ \A x \in r2[s] : x \in shares /\ x.s = s
  BY <1>1, Zenon DEF Collected
<1>3. PICK sh \in r2[s] : sh.n = v /\ sh.pkg = PackageOf(s)
  BY <1>2, Zenon DEF AggregateAccepts
<1> QED
  BY <1>1, <1>2, <1>3, Zenon DEF FromCalls

\* A Round-2 response: the next call goes out, or the aggregation decides.
LEMMA Round2ResponseInv ==
  ASSUME CoInv, CoTypeOK', NEW s \in Session, attest_round2(s)
  PROVE  CoInv'
<1>1. UNCHANGED <<auxvars, r1, approvals>> /\ pc[s] = "round2"
  BY Zenon DEF attest_round2
<1>2. PICK sh \in shares : sh.s = s /\ r2' = [r2 EXCEPT ![s] = @ \cup {sh}]
  BY ZenonT(30) DEF attest_round2
<1>3. \A t \in Session \ {s} : pc'[t] = pc[t] /\ idx'[t] = idx[t]
  BY DEF attest_round2, Goto, CoInv, CoTypeOK
<1>4. /\ pc'[s] \in {"round2", "record", "error"}
      /\ pc'[s] = "record" => idx'[s] = 1 /\ AggregateAccepts(s, r2'[s])
      /\ requests' = requests \/ requests' = requests \cup {<<2, s, idx[s] + 1>>}
  <2>1. pc \in [Session -> {"idle"} \cup Running \cup Returned]
        /\ idx \in [Session -> Nat] /\ \A t \in Session : idx[t] \in 1..N(t)
    BY DEF CoInv, CoTypeOK
  <2> QED
    BY <1>1, <2>1, Zenon DEF attest_round2, Goto
<1>5. AuxInv'
  BY <1>1, AuxStepInv, Zenon DEF CoInv
<1>6. FromCalls' /\ Spent' /\ OneShare'
  BY <1>1, Zenon DEF auxvars, CoInv, FromCalls, Spent, OneShare
<1>7. \A t, i : <<1, t, i>> \in requests' <=> <<1, t, i>> \in requests
  BY <1>4
<1>8. Spent'
  BY <1>1, Zenon DEF auxvars, CoInv, Spent
<1>9. OnePlace'
  <2>1. OnePlace /\ UNCHANGED <<work, commitments>>
    BY <1>1, Zenon DEF auxvars, CoInv
  <2> QED
    BY <1>7, <2>1, Zenon DEF OnePlace
<1>10. NotAhead'
  <2>1. NotAhead /\ UNCHANGED <<work, commitments>>
    BY <1>1, Zenon DEF auxvars, CoInv
  <2>2. pc'[s] \notin Early /\ pc'[s] # "round1"
    BY <1>4, Zenon DEF Early
  <2> QED
    BY <1>3, <1>7, <2>1, <2>2 DEF NotAhead, N
<1>11. \A t \in Session \ {s} : Started2(t)' <=> Started2(t)
  BY <1>1, <1>4 DEF auxvars, Started2, N
<1>12. RoundsInOrder'
  <2>1. RoundsInOrder /\ UNCHANGED work
    BY <1>1, Zenon DEF auxvars, CoInv
  <2>2. pc'[s] \notin Early \cup {"round1"}
    BY <1>4, Zenon DEF Early
  <2> QED
    BY <1>1, <1>3, <1>7, <1>11, <2>1, <2>2, Zenon DEF RoundsInOrder, N
<1>13. Collected'
  <2>1. PackageOf(s)' = PackageOf(s)
    BY <1>1, PackageStable, Zenon
  <2>2. \A t \in Session \ {s} : r2'[t] = r2[t]
    BY <1>2, Zenon DEF CoInv, CoTypeOK
  <2>0. Collected /\ UNCHANGED shares /\ r2'[s] = r2[s] \cup {sh}
    BY <1>1, <1>2, Zenon DEF auxvars, CoInv, CoTypeOK
  <2>3. \A x \in r2'[s] : x \in shares' /\ x.s = s
    BY <1>2, <2>0, Zenon DEF Collected
  <2>4. pc'[s] = "record" => AggregateAccepts(s, r2[s])'
    BY <1>4, <2>1 DEF AggregateAccepts
  <2>5. N(s) >= Threshold
    BY <1>1, <2>0, Zenon DEF Collected
  <2>6. ASSUME NEW t \in Session \ {s}
        PROVE  /\ \A x \in r2'[t] : x \in shares' /\ x.s = t
               /\ pc'[t] \in {"record", "finalize", "done"} =>
                    AggregateAccepts(t, r2[t])'
    BY <1>1, <1>3, <2>0, <2>2, AggregateStable, Zenon DEF Collected
  <2>7. pc'[s] \in {"record", "finalize", "done"} => AggregateAccepts(s, r2[s])'
    BY <1>4, <2>4, Zenon
  <2>8. \A t \in Session :
          pc'[t] \in {"round1", "round2", "record", "finalize", "done"} =>
            N(t) >= Threshold
    BY <1>3, <2>0, <2>5, Zenon DEF Collected
  <2> QED
    BY <2>3, <2>6, <2>7, <2>8, Zenon DEF Collected, N
<1>14. DistinctSigners'
  <2>1. \A i \in 1..N(s) : ~ (i < 1)
    BY TransportFacts
  <2> QED
    BY <1>1, <1>3, <1>4, <2>1, Zenon DEF CoInv, DistinctSigners, N
<1> QED
  BY <1>5, <1>6, <1>9, <1>10, <1>12, <1>13, <1>14, Zenon DEF CoInv

---------------------------------------------------------------------------
(* What the nodes do with the requests, and the theorems.                  *)

\* A node takes up a Round-1 request.
LEMMA ServeRound1Inv ==
  ASSUME CoInv, CoTypeOK', AuxInv', NEW m \in requests, serve_round1(m)
  PROVE  CoInv'
<1> DEFINE s == m[2]
           i == m[3]
<1>1. m = <<1, s, i>> /\ s \in Session /\ i \in 1..N(s)
  BY DEF serve_round1, CoInv, CoTypeOK, Calls
<1>2. UNCHANGED covars /\ requests' = requests \ {m}
  BY Zenon DEF serve_round1
<1>3. CASE UNCHANGED auxvars
  BY <1>2, <1>3, LoseStep, Zenon DEF auxvars
<1>4. CASE frost_round1_check(Transports[s][i], Round1RequestOf(s, i))
  <2> DEFINE h == HandlerFor("frost", Transports[s][i], Round1RequestOf(s, i))
  <2>1. /\ work' = work \cup {h}
        /\ UNCHANGED <<clock, pending, commitments, shares>>
    BY <1>4, Zenon DEF frost_round1_check, StartRound1
  <2>2. h.k = "frost" /\ h.n = Transports[s][i] /\ h.s = s /\ h.conn = i
    BY ZenonT(30) DEF HandlerFor, Round1RequestOf
  <2> HIDE DEF h
  <2>3. FromCalls' /\ Spent' /\ OneShare'
    BY <1>1, <2>1, <2>2, Zenon DEF CoInv, FromCalls, Spent, OneShare, N
  <2>4. OnePlace'
    BY <1>1, <1>2, <2>1, <2>2 DEF CoInv, OnePlace
  <2>5. NotAhead'
    <3>1. NotAhead /\ UNCHANGED <<pc, idx, commitments>>
      BY <1>2, <2>1, Zenon DEF covars, CoInv
    <3>2. pc[s] \notin Early /\ (pc[s] = "round1" => i <= idx[s])
      BY <1>1, <3>1 DEF NotAhead
    <3> QED
      BY <1>2, <2>1, <2>2, <3>1, <3>2 DEF NotAhead, N
  <2>6. \A t \in Session : Started2(t)' <=> Started2(t)
    BY <1>1, <1>2, <2>1 DEF Started2, N
  <2>7. ~ Started2(s) /\ pc[s] # "round2"
    BY <1>1, Zenon DEF CoInv, RoundsInOrder
  <2>8. RoundsInOrder'
    BY <1>2, <2>1, <2>2, <2>6, <2>7, Zenon DEF covars, CoInv, RoundsInOrder, N
  <2>9. Collected' /\ DistinctSigners'
    BY <1>2, <2>1, AggregateStable, ZenonT(30)
    DEF covars, CoInv, Collected, DistinctSigners, N
  <2> QED
    BY <2>3, <2>4, <2>5, <2>8, <2>9, Zenon DEF CoInv
<1> QED
  BY <1>3, <1>4, Zenon DEF serve_round1
\* The handler of a Round-1 request reaches the cache.
LEMMA ServeCacheInv ==
  ASSUME CoInv, CoTypeOK', AuxInv', NEW w \in work, serve_cache(w)
  PROVE  CoInv'
<1>1. UNCHANGED <<covars, requests>> /\ frost_round1_cache(w)
  BY Zenon DEF serve_cache
<1>2. UNCHANGED shares /\ work' = work \ {w}
  BY <1>1, Zenon DEF frost_round1_cache
<1>3. CASE UNCHANGED commitments
  <2>1. w \notin commitments
    BY Zenon DEF CoInv, OnePlace
  <2>2. pending' \in SUBSET pending
    BY <1>1, <1>3, <2>1, Zenon DEF frost_round1_cache
  <2> QED
    BY <1>1, <1>2, <1>3, <2>2, LoseStep, Zenon
<1>4. CASE commitments' # commitments
  <2>1. commitments' = commitments \cup {w}
    BY <1>1, <1>4, Zenon DEF frost_round1_cache
  <2>2. \A e \in pending' : e \in pending \/ (e.k = w.k /\ e.n = w.n /\ e.s = w.s)
    BY <1>1, <1>4 DEF frost_round1_cache, Evicted, Entry
  <2>3. w.s \in Session
    BY Zenon DEF CoInv, AuxInv, TypeOK, Handler
  <2>4. \A sh \in shares : sh.s # w.s
    BY <2>3, Zenon DEF CoInv, RoundsInOrder, Started2
  <2>5. FromCalls' /\ OneShare'
    <3>1. w.n \in Range(Transports[w.s])
      BY <2>3, TransportFacts, Zenon DEF CoInv, FromCalls
    <3> QED
      BY <1>2, <2>1, <2>2, <3>1, Zenon DEF CoInv, FromCalls, OneShare, N
  <2>6. Spent'
    BY <1>2, <2>2, <2>4, Zenon DEF CoInv, Spent
  <2>7. OnePlace'
    BY <1>1, <1>2, <2>1 DEF CoInv, OnePlace
  <2>8. NotAhead'
    <3>1. NotAhead /\ UNCHANGED <<pc, idx, requests>>
      BY <1>1, Zenon DEF covars, CoInv
    <3> QED
      BY <1>2, <2>1, <2>3, <3>1 DEF NotAhead, N
  <2>9. \A t \in Session : Started2(t)' <=> Started2(t)
    BY <1>1, <1>2, Zenon DEF Started2, N
  <2>10. RoundsInOrder'
    BY <1>1, <1>2, <2>9, Zenon DEF covars, CoInv, RoundsInOrder, N
  <2>11. Collected' /\ DistinctSigners'
    BY <1>1, <1>2, AggregateStable, Zenon
    DEF covars, CoInv, Collected, DistinctSigners, N
  <2> QED
    BY <2>5, <2>6, <2>7, <2>8, <2>10, <2>11, Zenon DEF CoInv
<1> QED
  BY <1>3, <1>4, Zenon

\* A node takes up a Round-2 request.
LEMMA ServeRound2Inv ==
  ASSUME CoInv, CoTypeOK', AuxInv', NEW m \in requests, serve_round2(m)
  PROVE  CoInv'
<1> DEFINE s == m[2]
           i == m[3]
<1>1. m = <<2, s, i>> /\ s \in Session /\ i \in 1..N(s)
  BY DEF serve_round2, CoInv, CoTypeOK, Calls
<1>2. UNCHANGED covars /\ requests' = requests \ {m}
  BY Zenon DEF serve_round2
<1>3. CASE UNCHANGED auxvars
  BY <1>2, <1>3, LoseStep DEF auxvars
<1>4. CASE frost_round2(Transports[s][i], Round2RequestOf(s, i))
  <2>1. PICK e \in pending :
          /\ e.k = "frost" /\ e.n = Transports[s][i] /\ e.s = s
          /\ pending' = pending \ {e}
          /\ UNCHANGED <<work, commitments>>
          /\ \/ UNCHANGED shares
             \/ \E sh : /\ shares' = shares \cup {sh}
                        /\ sh.k = "frost" /\ sh.n = Transports[s][i] /\ sh.s = s
    <3>1. Round2RequestOf(s, i).s = s
      BY Zenon DEF Round2RequestOf
    <3> HIDE DEF s, i
    <3> QED
      BY <1>4, <3>1, Round2Effect
  <2>2. CASE UNCHANGED shares
    BY <1>2, <2>1, <2>2, LoseStep, Zenon
  <2>3. ASSUME NEW sh, shares' = shares \cup {sh},
               sh.k = "frost", sh.n = Transports[s][i], sh.s = s
        PROVE  CoInv'
    <3>1. FromCalls'
      BY <2>1, <2>3, Zenon DEF CoInv, FromCalls, N
    <3>2. OneShare'
      BY <2>1, <2>3 DEF CoInv, Spent, OneShare
    <3>3. Spent'
      <4>1. Keyed /\ Spent /\ \A f \in pending : f.k = "frost"
        BY Zenon DEF CoInv, AuxInv, FromCalls
      <4> QED
        BY <2>1, <2>3, <4>1 DEF Keyed, Spent
    <3>4. \A t, j : <<1, t, j>> \in requests' <=> <<1, t, j>> \in requests
      BY <1>1, <1>2
    <3>5. OnePlace'
      BY <2>1, <3>4, Zenon DEF CoInv, OnePlace
    <3>6. NotAhead'
      BY <1>2, <2>1, <3>4 DEF covars, CoInv, NotAhead, N
    <3>7. Started2(s)
      BY <1>1, Zenon DEF Started2
    <3>8. \A t \in Session : Started2(t)' => Started2(t)
      BY <1>2, <2>3, <3>7, Zenon DEF Started2, N
    <3>9. RoundsInOrder'
      BY <1>2, <2>1, <3>4, <3>8, Zenon DEF covars, CoInv, RoundsInOrder, N
    <3>10. Collected' /\ DistinctSigners'
      BY <1>2, <2>3, AggregateStable, Zenon
      DEF covars, CoInv, Collected, DistinctSigners, N
    <3> QED
      BY <3>1, <3>2, <3>3, <3>5, <3>6, <3>9, <3>10, Zenon DEF CoInv
  <2> QED
    BY <2>1, <2>2, <2>3, Zenon
<1> QED
  BY <1>3, <1>4, Zenon DEF serve_round2

\* Every step keeps the invariant.
LEMMA CoStepInv == CoInv /\ [Next]_vars => CoInv'
<1> SUFFICES ASSUME CoInv, [Next]_vars PROVE CoInv'
  OBVIOUS
<1>1. AuxInv'
  BY StepIsAux, AuxStepInv, Zenon DEF CoInv
<1>2. CoTypeOK'
  BY <1>1, CoTypeStep, Zenon DEF CoInv, AuxInv
<1>3. CASE UNCHANGED vars
  BY <1>1, <1>2, <1>3, LoseStep, Zenon DEF vars, auxvars
<1>4. ASSUME NEW s \in Session, Prepare(s)
      PROVE  CoInv'
  BY <1>2, <1>4, PrepareInv, Zenon
<1>5. ASSUME NEW s \in Session, Attest(s)
      PROVE  CoInv'
  BY <1>2, <1>5, CollectInv, QuorumInv, Round1ResponseInv, Round2ResponseInv,
     CallFailsInv, RecordInv, FinalizeInv, Zenon
  DEF Attest
<1>6. CASE Crash
  BY <1>2, <1>6, CrashInv, Zenon
<1>7. ASSUME NEW m \in requests, serve_round1(m) \/ serve_round2(m)
      PROVE  CoInv'
  BY <1>1, <1>2, <1>7, ServeRound1Inv, ServeRound2Inv, Zenon
<1>8. ASSUME NEW w \in work, serve_cache(w)
      PROVE  CoInv'
  BY <1>1, <1>2, <1>8, ServeCacheInv, Zenon
<1>9. ASSUME NEW n \in Node, NodeRestart(n)
      PROVE  CoInv'
  BY <1>1, <1>2, <1>9, LoseStep, Zenon DEF NodeRestart, Restart
<1>10. CASE Clock
  BY <1>1, <1>2, <1>10, LoseStep, Zenon DEF Clock, Tick
<1> QED
  BY <1>3, <1>4, <1>5, <1>6, <1>7, <1>8, <1>9, <1>10, Zenon DEF Next, Serve

\* The inductive invariant holds in every reachable state.
THEOREM CoInvariant == Spec => []CoInv
<1>1. Init => CoInv
  BY CoInitInv, Zenon
<1> QED
  BY <1>1, CoStepInv, PTL DEF Spec

\* The composition is type correct: the threads, the messages, the store and
\* the nodes stay within their types.
THEOREM SigningTypeCorrect == Spec => []CoTypeOK
<1>1. CoInv => CoTypeOK
  BY Zenon DEF CoInv
<1> QED
  BY <1>1, CoInvariant, PTL

\* The coordinator over TCP is an environment FrostAux allows: what is
\* proved of the nodes holds in the composition.
THEOREM SigningUsesNodes == Spec => AuxSpec
<1>1. Init => AuxInit
  BY Zenon DEF Init
<1> QED
  BY <1>1, StepIsAux, SigningTypeCorrect, PTL DEF Spec, AuxSpec

\* The approvals on record for a session are those of the signers the loop of its
\* thread has passed.
RecordedFor(s) ==
  /\ pc[s] \in Early \cup {"round1", "round2"} =>
       \A v \in Node : <<s, v>> \notin approvals
  /\ pc[s] = "record" =>
       \A v \in Node : <<s, v>> \in approvals =>
         \E i \in 1..N(s) : i < idx[s] /\ Transports[s][i] = v
  /\ pc[s] = "finalize" \/ (pc[s] = "done" /\ store[s] # Absent) =>
       \A v \in Node : <<s, v>> \in approvals <=> v \in Range(Transports[s])

Recorded == \A s \in Session : RecordedFor(s)

\* The loop over record_approval adds the signer it is at.
LEMMA RecordRecorded ==
  ASSUME CoInv, Recorded, NEW s \in Session, attest_record_approval(s)
  PROVE  Recorded'
<1>1. /\ pc[s] = "record" /\ UNCHANGED store
      /\ N(s) \in Nat /\ idx[s] \in 1..N(s)
      /\ Transports[s][idx[s]] \in Node
      /\ pc \in [Session -> {"idle"} \cup Running \cup Returned]
      /\ idx \in [Session -> Nat]
  BY TransportFacts, Zenon DEF attest_record_approval, CoInv, CoTypeOK
<1>2. \A t \in Session \ {s} : pc'[t] = pc[t] /\ idx'[t] = idx[t]
  BY <1>1, ZenonT(30) DEF attest_record_approval, Goto
<1>3. \A t \in Session \ {s} : \A v : <<t, v>> \in approvals' <=> <<t, v>> \in approvals
  BY DEF attest_record_approval
<1>4. \/ pc'[s] = "error"
      \/ /\ approvals' = approvals \cup {<<s, Transports[s][idx[s]]>>}
         /\ \/ idx[s] < N(s) /\ idx'[s] = idx[s] + 1 /\ pc'[s] = "record"
            \/ ~ (idx[s] < N(s)) /\ pc'[s] = "finalize"
  BY <1>1, Zenon DEF attest_record_approval, Goto
<1>5. \A v \in Node : <<s, v>> \in approvals =>
        \E i \in 1..N(s) : i < idx[s] /\ Transports[s][i] = v
  BY <1>1, Zenon DEF Recorded, RecordedFor
<1>6. \A i \in 1..N(s) : i < idx[s] => <<s, Transports[s][i]>> \in approvals
  BY <1>1, Zenon DEF CoInv, DistinctSigners
<1>7. ASSUME pc'[s] = "record"
      PROVE  \A v \in Node : <<s, v>> \in approvals' =>
               \E i \in 1..N(s) : i < idx'[s] /\ Transports[s][i] = v
  <2>1. /\ approvals' = approvals \cup {<<s, Transports[s][idx[s]]>>}
        /\ idx'[s] = idx[s] + 1
    BY <1>4, <1>7, Zenon
  <2>2. idx[s] < idx'[s] /\ \A i \in 1..N(s) : i < idx[s] => i < idx'[s]
    BY <1>1, <2>1
  <2>3. \A v \in Node : <<s, v>> \in approvals' =>
          <<s, v>> \in approvals \/ v = Transports[s][idx[s]]
    BY <2>1
  <2> QED
    BY <1>1, <1>5, <2>2, <2>3, Zenon
<1>8. ASSUME pc'[s] = "finalize"
      PROVE  \A v \in Node : <<s, v>> \in approvals' <=> v \in Range(Transports[s])
  <2>1. approvals' = approvals \cup {<<s, Transports[s][idx[s]]>>} /\ ~ (idx[s] < N(s))
    BY <1>4, <1>8, Zenon
  <2>2. \A i \in 1..N(s) : i < idx[s] \/ i = idx[s]
    BY <1>1, <2>1
  <2>3. \A v \in Node : <<s, v>> \in approvals' <=>
          <<s, v>> \in approvals \/ v = Transports[s][idx[s]]
    BY <2>1
  <2>4. Range(Transports[s]) = {Transports[s][i] : i \in 1..N(s)}
    BY TransportFacts, Zenon
  <2> QED
    BY <1>1, <1>5, <1>6, <2>2, <2>3, <2>4, Zenon
<1>9. pc'[s] \in {"error", "record", "finalize"}
  BY <1>4, Zenon
<1>10. ASSUME NEW t \in Session, t # s
       PROVE  /\ pc'[t] \in Early \cup {"round1", "round2"} =>
                   \A v \in Node : <<t, v>> \notin approvals'
              /\ pc'[t] = "record" =>
                   \A v \in Node : <<t, v>> \in approvals' =>
                     \E i \in 1..N(t) : i < idx'[t] /\ Transports[t][i] = v
              /\ pc'[t] = "finalize" \/ (pc'[t] = "done" /\ store'[t] # Absent) =>
                   \A v \in Node : <<t, v>> \in approvals' <=> v \in Range(Transports[t])
  <2>1. pc'[t] = pc[t] /\ idx'[t] = idx[t] /\ store'[t] = store[t]
    BY <1>1, <1>2, <1>10, Zenon
  <2>2. \A v : <<t, v>> \in approvals' <=> <<t, v>> \in approvals
    BY <1>3, <1>10, Zenon
  <2>3. /\ pc[t] \in Early \cup {"round1", "round2"} =>
             \A v \in Node : <<t, v>> \notin approvals
        /\ pc[t] = "record" =>
             \A v \in Node : <<t, v>> \in approvals =>
               \E i \in 1..N(t) : i < idx[t] /\ Transports[t][i] = v
        /\ pc[t] = "finalize" \/ (pc[t] = "done" /\ store[t] # Absent) =>
             \A v \in Node : <<t, v>> \in approvals <=> v \in Range(Transports[t])
    BY Zenon DEF Recorded, RecordedFor
  <2>4. pc'[t] \in Early \cup {"round1", "round2"} =>
          \A v \in Node : <<t, v>> \notin approvals'
    BY <2>1, <2>2, <2>3, Zenon
  <2>5. pc'[t] = "record" =>
          \A v \in Node : <<t, v>> \in approvals' =>
            \E i \in 1..N(t) : i < idx'[t] /\ Transports[t][i] = v
    BY <2>1, <2>2, <2>3, Zenon
  <2>6. pc'[t] = "finalize" \/ (pc'[t] = "done" /\ store'[t] # Absent) =>
          \A v \in Node : <<t, v>> \in approvals' <=> v \in Range(Transports[t])
    BY <2>1, <2>2, <2>3, Zenon
  <2> QED
    BY <2>4, <2>5, <2>6, Zenon
<1> QED
  <2>1. /\ pc'[s] \notin Early \cup {"round1", "round2"}
        /\ pc'[s] # "done"
    BY <1>9 DEF Early
  <2>2. RecordedFor(s)'
    BY <1>7, <1>8, <2>1, Zenon DEF RecordedFor, N, Early, Range
  <2>3. ASSUME NEW t \in Session, t # s
        PROVE  RecordedFor(t)'
    BY <1>10, <2>3, Zenon DEF RecordedFor, N, Early, Range
  <2> QED
    BY <2>2, <2>3, Zenon DEF Recorded

\* Every step keeps Recorded.
LEMMA RecordedStep ==
  ASSUME CoInv, Recorded, [Next]_vars
  PROVE  Recorded'
<1>1. /\ pc \in [Session -> {"idle"} \cup Running \cup Returned]
      /\ store \in [Session -> States \cup {Absent}]
  BY Zenon DEF CoInv, CoTypeOK
<1>2. ASSUME UNCHANGED approvals, NEW s \in Session,
             \A t \in Session \ {s} : /\ pc'[t] = pc[t] /\ store'[t] = store[t]
                                      /\ idx'[t] = idx[t],
             \/ pc[s] \in Early \cup {"round1", "round2"} /\ pc'[s] \notin {"record", "finalize", "done"}
             \/ pc[s] = "round2" /\ pc'[s] = "record"
             \/ pc[s] = "finalize" /\ pc'[s] = "done"
             \/ pc'[s] \in {"error", "down"}
      PROVE  Recorded'
  <2>1. ASSUME NEW t \in Session \ {s}
        PROVE  /\ pc'[t] \in Early \cup {"round1", "round2"} =>
                    \A v \in Node : <<t, v>> \notin approvals'
               /\ pc'[t] = "record" =>
                    \A v \in Node : <<t, v>> \in approvals' =>
                      \E i \in 1..N(t) : i < idx'[t] /\ Transports[t][i] = v
               /\ pc'[t] = "finalize" \/ (pc'[t] = "done" /\ store'[t] # Absent) =>
                    \A v \in Node : <<t, v>> \in approvals' <=> v \in Range(Transports[t])
    BY <1>2, Zenon DEF Recorded, RecordedFor
  <2>0. /\ pc'[s] \in Early \cup {"round1", "round2"} =>
             pc[s] \in Early \cup {"round1", "round2"}
        /\ pc'[s] = "record" => pc[s] \in Early \cup {"round1", "round2"}
        /\ pc'[s] \in {"finalize", "done"} => pc[s] = "finalize"
    BY <1>2 DEF Early
  <2>2. /\ pc'[s] \in Early \cup {"round1", "round2"} =>
             \A v \in Node : <<s, v>> \notin approvals'
        /\ pc'[s] = "record" =>
             \A v \in Node : <<s, v>> \in approvals' =>
               \E i \in 1..N(s) : i < idx'[s] /\ Transports[s][i] = v
        /\ pc'[s] = "finalize" \/ (pc'[s] = "done" /\ store'[s] # Absent) =>
             \A v \in Node : <<s, v>> \in approvals' <=> v \in Range(Transports[s])
    BY <1>2, <2>0, Zenon DEF Recorded, RecordedFor
  <2>3. RecordedFor(s)'
    BY <2>2, Zenon DEF RecordedFor, N, Early, Range
  <2>4. ASSUME NEW t \in Session \ {s}
        PROVE  RecordedFor(t)'
    BY <2>1, Zenon DEF RecordedFor, N, Early, Range
  <2> QED
    BY <2>3, <2>4, Zenon DEF Recorded
<1>3. ASSUME UNCHANGED <<pc, idx, store, approvals>>
      PROVE  Recorded'
  BY <1>3, Zenon DEF Recorded, RecordedFor, N, Early, Range
<1>4. ASSUME NEW s \in Session, Prepare(s)
      PROVE  Recorded'
  <2>1. /\ UNCHANGED <<approvals, idx>>
        /\ \A t \in Session \ {s} : pc'[t] = pc[t] /\ store'[t] = store[t]
    BY <1>1, <1>4, ZenonT(30)
    DEF Prepare, prepare_insert, prepare_activate, prepare_randomness, prepare_engine,
        Goto, SetState
  <2>2. pc[s] \in Early /\ pc'[s] \notin {"record", "finalize", "done"}
    BY <1>1, <1>4, ZenonT(30)
    DEF Prepare, prepare_insert, prepare_activate, prepare_randomness, prepare_engine,
        Goto, Early
  <2> QED
    BY <1>2, <2>1, <2>2, Zenon
<1>5. ASSUME NEW s \in Session, attest_collect(s) \/ attest_quorum(s)
      PROVE  Recorded'
  <2>1. /\ UNCHANGED <<approvals, idx>>
        /\ \A t \in Session \ {s} : pc'[t] = pc[t] /\ store'[t] = store[t]
    BY <1>1, <1>5, ZenonT(30) DEF attest_collect, attest_quorum, Goto, SetState
  <2>2. pc[s] \in Early /\ pc'[s] \notin {"record", "finalize", "done"}
    BY <1>1, <1>5, ZenonT(30) DEF attest_collect, attest_quorum, Goto, Early
  <2> QED
    BY <1>2, <2>1, <2>2, Zenon
<1>6. ASSUME NEW s \in Session, attest_round1(s)
      PROVE  Recorded'
  <2>0. idx \in [Session -> Nat]
    BY Zenon DEF CoInv, CoTypeOK
  <2>1. /\ UNCHANGED <<approvals, store>>
        /\ \A t \in Session \ {s} : pc'[t] = pc[t] /\ idx'[t] = idx[t]
    BY <1>1, <1>6, <2>0, ZenonT(30) DEF attest_round1, Goto
  <2>2. pc[s] = "round1" /\ pc'[s] \notin {"record", "finalize", "done"}
    BY <1>1, <1>6, ZenonT(30) DEF attest_round1, Goto
  <2> QED
    BY <1>2, <2>1, <2>2, Zenon
<1>7. ASSUME NEW s \in Session, attest_round2(s)
      PROVE  Recorded'
  <2>0. idx \in [Session -> Nat]
    BY Zenon DEF CoInv, CoTypeOK
  <2>1. /\ UNCHANGED <<approvals, store>>
        /\ \A t \in Session \ {s} : pc'[t] = pc[t] /\ idx'[t] = idx[t]
    BY <1>1, <1>7, <2>0, ZenonT(30) DEF attest_round2, Goto
  <2>2. pc[s] = "round2" /\ pc'[s] \in {"round2", "record", "error"}
    BY <1>1, <1>7, ZenonT(30) DEF attest_round2, Goto
  <2> QED
    BY <1>2, <2>1, <2>2, Zenon
<1>8. ASSUME NEW s \in Session, attest_call_fails(s) \/ attest_finalize(s)
      PROVE  Recorded'
  <2>1. /\ UNCHANGED <<approvals, idx>>
        /\ \A t \in Session \ {s} : pc'[t] = pc[t] /\ store'[t] = store[t]
    BY <1>1, <1>8, ZenonT(30) DEF attest_call_fails, attest_finalize, Goto, SetState
  <2>2. pc'[s] = "error" \/ (pc[s] = "finalize" /\ pc'[s] = "done")
    BY <1>1, <1>8, ZenonT(30) DEF attest_call_fails, attest_finalize, Goto
  <2> QED
    BY <1>2, <2>1, <2>2, Zenon
<1>9. CASE Crash
  <2>1. \A t \in Session : \/ pc'[t] = "down"
                           \/ pc'[t] = pc[t] /\ pc[t] \notin Running
    BY <1>9, Zenon DEF Crash
  <2>2. \/ UNCHANGED <<store, approvals>>
        \/ approvals' = {} /\ \A t \in Session : store'[t] = Absent
    BY <1>9, Zenon DEF Crash
  <2> QED
    BY <2>1, <2>2, Zenon DEF Recorded, RecordedFor, Running, Early, N, Range
<1>10. ASSUME Serve \/ Clock \/ (\E n \in Node : NodeRestart(n)) \/ UNCHANGED vars
       PROVE  UNCHANGED <<pc, idx, store, approvals>>
  BY <1>10, Zenon DEF Serve, serve_round1, serve_round2, serve_cache, Clock, NodeRestart,
               covars, vars
<1> QED
  BY <1>3, <1>4, <1>5, <1>6, <1>7, <1>8, <1>9, <1>10, RecordRecorded, Zenon
  DEF Next, Attest

\* Distinct transports are as many verifiers as there are positions.
LEMMA DistinctCount ==
  ASSUME NEW s \in Session,
         \A i, j \in 1..N(s) : Transports[s][i] = Transports[s][j] => i = j
  PROVE  Cardinality(Range(Transports[s])) = N(s)
<1>1. N(s) \in Nat /\ Range(Transports[s]) = {Transports[s][i] : i \in 1..N(s)}
  BY TransportFacts, Zenon
<1> DEFINE f == [i \in 1..N(s) |-> Transports[s][i]]
<1>2. f \in Bijection(1..N(s), Range(Transports[s]))
  BY <1>1 DEF Bijection, Injection, Surjection, IsInjective
<1> HIDE DEF f
<1> QED
  BY <1>1, <1>2, FS_CountingElements, Zenon DEF ExistsBijection

\* attest_frost_distributed_over_transport returns an envelope only for a session
\* that the node of every transport signed in the package it assembled; they are
\* at least Threshold different nodes, also for a caller that passes a node twice,
\* and exactly the approvals on record.
THEOREM EnvelopesAreQuorumSigned == Spec => []EnvelopeIsQuorumSigned
<1>1. Init => Recorded
  BY Zenon DEF Init, Recorded, RecordedFor
<1>2. CoInv /\ Recorded /\ [Next]_vars => Recorded'
  BY RecordedStep, Zenon
<1>3. ASSUME CoInv, Recorded, NEW s \in Session, pc[s] = "done"
      PROVE  /\ Cardinality(Range(Transports[s])) >= Threshold
             /\ store[s] # Absent =>
                  {v \in Node : <<s, v>> \in approvals} = Range(Transports[s])
  <2>1. /\ \A i, j \in 1..N(s) : Transports[s][i] = Transports[s][j] => i = j
        /\ N(s) >= Threshold
    BY <1>3, Zenon DEF CoInv, Collected, DistinctSigners
  <2>2. Cardinality(Range(Transports[s])) = N(s)
    BY <2>1, DistinctCount, Zenon
  <2>3. Range(Transports[s]) \subseteq Node
    BY TransportFacts, Zenon
  <2>4. store[s] # Absent =>
          \A v \in Node : <<s, v>> \in approvals <=> v \in Range(Transports[s])
    BY <1>3, Zenon DEF Recorded, RecordedFor
  <2> QED
    BY <2>1, <2>2, <2>3, <2>4, Zenon
<1>4. CoInv /\ Recorded => EnvelopeIsQuorumSigned
  BY <1>3, AllSigned, Zenon DEF EnvelopeIsQuorumSigned
<1> QED
  BY <1>1, <1>2, <1>4, CoInvariant, PTL DEF Spec

\* "A node never signs two nonce sets for the same session" (frost_round1),
\* under the coordinator, whatever is lost, late, restarted or crashed.
THEOREM OneNonceSetPerSession == Spec => []OneNonceSetSigned
<1>1. CoInv => OneNonceSetSigned
  BY Zenon DEF CoInv, OneShare, OneNonceSetSigned
<1> QED
  BY <1>1, CoInvariant, PTL

\* After an envelope no node holds a nonce of the session, and no handler
\* that could still add one is running.
THEOREM NoncesAreConsumed == Spec => []NoncesConsumed
<1>1. CoInv => NoncesConsumed
  <2> SUFFICES ASSUME CoInv, NEW s \in Session, pc[s] = "done"
               PROVE  /\ \A e \in pending : e.s # s
                      /\ \A w \in work : w.s # s
    BY Zenon DEF NoncesConsumed
  <2>1. \A v \in Range(Transports[s]) : \E sh \in shares : sh.n = v /\ sh.s = s
    BY AllSigned
  <2>2. \A e \in pending : e.s # s
    BY <2>1, SMTT(30) DEF CoInv, FromCalls, Spent
  <2>3. Transports[s][1] \in Range(Transports[s])
    BY TransportFacts
  <2>4. Started2(s)
    BY <2>1, <2>3, Zenon DEF Started2
  <2> QED
    BY <2>2, <2>4, Zenon DEF CoInv, RoundsInOrder
<1> QED
  BY <1>1, CoInvariant, PTL

\* The outcome ThresholdSigning sees of a session.
OutcomeOf(s) == IF pc[s] = "done" THEN "envelope"
                ELSE IF pc[s] \in {"error", "down"} THEN "closed"
                ELSE "open"

\* A step that makes no share and at most closes sessions gives them up.
LEMMA GiveUpStep ==
  ASSUME UNCHANGED shares,
         \A s \in Session :
           \/ OutcomeOf(s)' = OutcomeOf(s)
           \/ OutcomeOf(s) = "open" /\ OutcomeOf(s)' = "closed"
  PROVE  Abstract!Next
<1> DEFINE given == {s \in Session : OutcomeOf(s)' # OutcomeOf(s)}
<1>1. given \in SUBSET {s \in Session : OutcomeOf(s) = "open"}
  BY Zenon
<1>2. [s \in Session |-> OutcomeOf(s)'] =
        [s \in Session |-> IF s \in given THEN "closed" ELSE OutcomeOf(s)]
  BY Zenon
<1> QED
  BY <1>1, <1>2, ZenonT(30) DEF OutcomeOf, Abstract!Next, Abstract!GiveUp

\* A step of the composition is a step of ThresholdSigning.
LEMMA RefinementStep ==
  ASSUME CoInv, CoInv', [Next]_vars
  PROVE  [Abstract!Next]_(Abstract!vars)
<1> USE DEF OutcomeOf
<1>1. pc \in [Session -> {"idle"} \cup Running \cup Returned]
  BY Zenon DEF CoInv, CoTypeOK
<1>2. CASE UNCHANGED <<pc, shares>>
  BY <1>2, GiveUpStep
<1>3. ASSUME NEW s \in Session, Prepare(s)
      PROVE  Abstract!Next
  BY <1>1, <1>3, GiveUpStep, Zenon
  DEF Prepare, prepare_insert, prepare_activate, prepare_randomness,
      prepare_engine, Goto, auxvars
<1>4. ASSUME NEW s \in Session,
             \/ attest_collect(s) \/ attest_quorum(s)
             \/ attest_round1(s) \/ attest_round2(s)
             \/ attest_call_fails(s) \/ attest_record_approval(s)
      PROVE  Abstract!Next
  BY <1>1, <1>4, GiveUpStep
  DEF attest_collect, attest_quorum, attest_round1, attest_round2, attest_call_fails,
      attest_record_approval, Goto, auxvars
<1>5. ASSUME NEW s \in Session, attest_finalize(s)
      PROVE  Abstract!Next
  <2>1. pc[s] = "finalize" /\ pc' = [pc EXCEPT ![s] = "done"]
        /\ UNCHANGED shares
    BY <1>5, Zenon DEF attest_finalize, Goto, auxvars
  <2>2. [t \in Session |-> OutcomeOf(t)'] =
          [[t \in Session |-> OutcomeOf(t)] EXCEPT ![s] = "envelope"]
    BY <1>1, <2>1, ZenonT(30)
  <2>3. \A v \in Range(Transports[s]) : \E nonce \in Nonce :
          <<s, v, nonce>> \in {<<sh.s, sh.n, sh.nonce>> : sh \in shares}
    <3> TAKE v \in Range(Transports[s])
    <3>1. PICK sh \in shares : sh.n = v /\ sh.s = s
      BY <2>1, AllSigned
    <3>2. sh.nonce \in Nonce
      BY Zenon DEF CoInv, AuxInv, TypeOK, Share
    <3> QED
      BY <3>1, <3>2, Zenon
  <2> QED
    BY <2>1, <2>2, <2>3, ZenonT(30) DEF Abstract!Next, Abstract!Deliver
<1>6. CASE Crash
  BY <1>1, <1>6, GiveUpStep, Zenon DEF Crash, auxvars, Running
<1>7. ASSUME NEW m \in requests, serve_round2(m), shares' # shares
      PROVE  Abstract!Next
  <2> DEFINE s == m[2]
             n == Transports[m[2]][m[3]]
  <2>1. s \in Session /\ m[3] \in 1..N(m[2])
    BY Zenon DEF CoInv, CoTypeOK, Calls
  <2>2. PICK e \in pending, sh \in shares' :
          /\ e.k = "frost" /\ e.n = n /\ e.s = s
          /\ shares' = shares \cup {sh}
          /\ sh.n = n /\ sh.s = s /\ sh.nonce = e.nonce
    <3>1. frost_round2(n, Round2RequestOf(s, m[3]))
      BY <1>7, Zenon DEF serve_round2, auxvars
    <3>2. Round2RequestOf(s, m[3]).s = s
      BY Zenon DEF Round2RequestOf
    <3> HIDE DEF s, n
    <3> QED
      BY <1>7, <3>1, <3>2, Round2Effect
  <2>3. UNCHANGED pc
    BY <1>7, ZenonT(30) DEF serve_round2, covars
  <2>4. n \in Verifier /\ e.nonce \in Nonce
    <3>1. n \in Verifier
      BY <2>1, TransportFacts, AuxAssumption, Zenon
    <3>2. pending \subseteq PendingRound
      BY Zenon DEF CoInv, AuxInv, TypeOK
    <3> QED
      BY <3>1, <3>2, Zenon DEF PendingRound
  <2>5. pc[s] # "done"
    <3>1. n \in Range(Transports[s])
      BY <2>1, TransportFacts, Zenon
    <3>2. Spent
      BY Zenon DEF CoInv
    <3> HIDE DEF s, n
    <3> QED
      BY <2>1, <2>2, <3>1, <3>2, AllSigned DEF Spent
  <2>6. \A a \in shares : a.n = n => a.s # s /\ a.nonce # e.nonce
    <3>1. Spent /\ \A a \in shares : ~ SameNonce(e, a)
      BY Zenon DEF CoInv, AuxInv, Separate
    <3> HIDE DEF s, n
    <3> QED
      BY <2>2, <3>1, Zenon DEF SameNonce, Spent
  <2>7. {<<a.s, a.n, a.nonce>> : a \in shares'} =
          {<<a.s, a.n, a.nonce>> : a \in shares} \cup {<<s, n, e.nonce>>}
    BY <2>2, Zenon
  <2> HIDE DEF s, n
  <2>8. Abstract!Approve(s, n, e.nonce)
    BY <2>1, <2>3, <2>5, <2>6, <2>7 DEF Abstract!Approve
  <2> QED
    BY <2>1, <2>4, <2>8, Zenon DEF Abstract!Next
<1>8. ASSUME NEW m \in requests, serve_round1(m)
      PROVE  UNCHANGED <<pc, shares>>
  BY <1>8, Zenon DEF serve_round1, frost_round1_check, StartRound1, covars, auxvars
<1>9. ASSUME NEW w \in work, serve_cache(w)
      PROVE  UNCHANGED <<pc, shares>>
  BY <1>9, Zenon DEF serve_cache, frost_round1_cache, covars
<1>10. ASSUME NEW n \in Node, NodeRestart(n)
       PROVE  UNCHANGED <<pc, shares>>
  BY <1>10, Zenon DEF NodeRestart, Restart, covars
<1>11. ASSUME Clock \/ UNCHANGED vars
       PROVE  UNCHANGED <<pc, shares>>
  BY <1>11, Zenon DEF Clock, Tick, covars, vars, auxvars
<1>12. ASSUME NEW m \in requests, serve_round2(m)
       PROVE  UNCHANGED pc
  BY <1>12, Zenon DEF serve_round2, covars
<1> QED
  BY <1>2, <1>3, <1>4, <1>5, <1>6, <1>7, <1>8, <1>9, <1>10, <1>11, <1>12
  DEF Next, Attest, Serve

\* The coordinator, its transports, the nodes and the store implement
\* ThresholdSigning.
THEOREM SigningRefinesThreshold == Spec => ImplementsThresholdSigning
<1>1. Init => Abstract!Init
  BY Zenon DEF Init, AuxInit, Abstract!Init
<1>2. CoInv /\ CoInv' /\ [Next]_vars => [Abstract!Next]_(Abstract!vars)
  BY RefinementStep, Zenon
<1> QED
  BY <1>1, <1>2, CoInvariant, PTL DEF Spec, ImplementsThresholdSigning, Abstract!Spec

-----------------------------------------------------------------------------
(* The session store.                                                      *)

\* Shares are never taken back, and approvals are recorded only for the next
\* signer of a session whose shares were aggregated.
LEMMA ApprovalStep ==
  ASSUME CoInv, [Next]_vars
  PROVE  /\ shares \subseteq shares'
         /\ \A a \in approvals' : \/ a \in approvals
                                 \/ \E s \in Session : \E v \in Range(Transports[s]) :
                                      /\ a = <<s, v>>
                                      /\ pc[s] \in {"record", "finalize", "done"}
<1>1. ASSUME NEW s \in Session, Prepare(s)
      PROVE  UNCHANGED <<shares, approvals>>
  BY <1>1, Zenon DEF Prepare, prepare_insert, prepare_activate, prepare_randomness,
              prepare_engine, auxvars
<1>2. ASSUME NEW s \in Session,
             \/ attest_collect(s) \/ attest_quorum(s)
             \/ attest_round1(s) \/ attest_round2(s)
             \/ attest_call_fails(s) \/ attest_finalize(s)
      PROVE  UNCHANGED <<shares, approvals>>
  BY <1>2, Zenon
  DEF attest_collect, attest_quorum, attest_round1, attest_round2, attest_call_fails,
              attest_finalize, auxvars
<1>3. ASSUME NEW s \in Session, attest_record_approval(s)
      PROVE  /\ UNCHANGED shares /\ pc[s] = "record"
             /\ approvals' \subseteq approvals \cup {<<s, Transports[s][idx[s]]>>}
             /\ Transports[s][idx[s]] \in Range(Transports[s])
  <2>1. idx[s] \in 1..N(s)
    BY Zenon DEF CoInv, CoTypeOK
  <2>2. Transports[s][idx[s]] \in Range(Transports[s])
    BY <2>1, TransportFacts, Zenon
  <2> QED
    BY <1>3, <2>2, Zenon DEF attest_record_approval, auxvars
<1>4. CASE Crash
  BY <1>4, Zenon DEF Crash, auxvars
<1>5. ASSUME NEW m \in requests, serve_round1(m)
      PROVE  UNCHANGED <<shares, approvals>>
  BY <1>5, Zenon DEF serve_round1, frost_round1_check, StartRound1, covars, auxvars
<1>6. ASSUME NEW m \in requests, serve_round2(m)
      PROVE  shares \subseteq shares' /\ UNCHANGED approvals
  <2>1. UNCHANGED approvals
    BY <1>6, Zenon DEF serve_round2, covars
  <2>2. CASE UNCHANGED auxvars
    BY <2>1, <2>2, Zenon DEF auxvars
  <2>3. CASE frost_round2(Transports[m[2]][m[3]], Round2RequestOf(m[2], m[3]))
    BY <2>1, <2>3, Round2Effect
  <2> QED
    BY <1>6, <2>2, <2>3 DEF serve_round2
<1>7. ASSUME NEW w \in work, serve_cache(w)
      PROVE  UNCHANGED <<shares, approvals>>
  BY <1>7, Zenon DEF serve_cache, frost_round1_cache, covars
<1>8. ASSUME NEW n \in Node, NodeRestart(n)
      PROVE  UNCHANGED <<shares, approvals>>
  BY <1>8, Zenon DEF NodeRestart, Restart, covars
<1>9. ASSUME Clock \/ UNCHANGED vars
      PROVE  UNCHANGED <<shares, approvals>>
  BY <1>9, Zenon DEF Clock, Tick, covars, vars, auxvars
<1> QED
  BY <1>1, <1>2, <1>3, <1>4, <1>5, <1>6, <1>7, <1>8, <1>9, Zenon DEF Next, Attest, Serve

\* The approvals record_approval puts on record are earned: the verifier gave
\* a share for the session.
THEOREM ApprovalsEarned == Spec => []ApprovalsAreEarned
<1>1. Init => ApprovalsAreEarned
  BY Zenon DEF Init, ApprovalsAreEarned
<1>2. CoInv /\ ApprovalsAreEarned /\ [Next]_vars => ApprovalsAreEarned'
  <2> SUFFICES ASSUME CoInv, ApprovalsAreEarned, [Next]_vars, NEW a \in approvals'
               PROVE  \E sh \in shares' : sh.k = "frost" /\ sh.s = a[1] /\ sh.n = a[2]
    BY Zenon DEF ApprovalsAreEarned
  <2>1. shares \subseteq shares'
    BY ApprovalStep, Zenon
  <2>2. CASE a \in approvals
    BY <2>1, <2>2 DEF ApprovalsAreEarned
  <2>3. ASSUME NEW s \in Session, NEW v \in Range(Transports[s]), a = <<s, v>>,
               pc[s] \in {"record", "finalize", "done"}
        PROVE  \E sh \in shares' : sh.k = "frost" /\ sh.s = a[1] /\ sh.n = a[2]
    BY <2>1, <2>3, AllSigned
  <2>4. CASE a \notin approvals
    <3>1. PICK s \in Session : \E v \in Range(Transports[s]) :
            a = <<s, v>> /\ pc[s] \in {"record", "finalize", "done"}
      BY <2>4, ApprovalStep, Zenon
    <3> QED
      BY <2>3, <3>1, Zenon
  <2> QED
    BY <2>2, <2>4, Zenon
<1> QED
  BY <1>1, <1>2, CoInvariant, PTL DEF Spec

\* What the store says of a session a thread works on.
StoreFollows ==
  /\ pc \in [Session -> {"idle"} \cup Running \cup Returned]
  /\ store \in [Session -> States \cup {Absent}]
  /\ \A s \in Session :
       /\ pc[s] = "idle" => store[s] = Absent
       /\ pc[s] = "activate" => store[s] = "Pending"
       /\ pc[s] = "randomness" => store[s] = "Active"
       /\ pc[s] \in {"engine", "collect"} => store[s] = "Attesting"
       /\ pc[s] \in {"quorum", "round1", "round2", "record", "finalize"} =>
            store[s] = "Collecting"

\* One step of a session's stored state is an edge of the lifecycle, and the
\* store keeps up with the threads.
LEMMA StoreStep ==
  ASSUME StoreFollows, [Next]_vars
  PROVE  /\ StoreFollows'
         /\ \A s \in Session : store'[s] # store[s] =>
              \/ store[s] = Absent /\ store'[s] = "Pending"
              \/ can_transition_to(store[s], store'[s])
              \/ ~ Durable /\ store'[s] = Absent
<1> USE DEF StoreFollows, Running, Returned, States, Absent, can_transition_to,
            is_terminal, Edges, Goto, SetState
<1> DEFINE Allowed ==
             \A s \in Session : store'[s] # store[s] =>
               \/ store[s] = Absent /\ store'[s] = "Pending"
               \/ can_transition_to(store[s], store'[s])
               \/ ~ Durable /\ store'[s] = Absent
<1>1. ASSUME NEW s \in Session, prepare_insert(s) \/ prepare_activate(s)
      PROVE  StoreFollows' /\ Allowed
  BY <1>1 DEF prepare_insert, prepare_activate
<1>2. ASSUME NEW s \in Session, prepare_randomness(s) \/ prepare_engine(s)
      PROVE  StoreFollows' /\ Allowed
  <2>1. CASE prepare_randomness(s)
    BY <2>1 DEF prepare_randomness
  <2>2. CASE prepare_engine(s)
    BY <2>2 DEF prepare_engine
  <2> QED
    BY <1>2, <2>1, <2>2, Zenon
<1>3. ASSUME NEW s \in Session, attest_collect(s) \/ attest_quorum(s)
      PROVE  StoreFollows' /\ Allowed
  <2>1. CASE attest_collect(s)
    BY <2>1 DEF attest_collect
  <2>2. CASE attest_quorum(s)
    BY <2>2 DEF attest_quorum
  <2> QED
    BY <1>3, <2>1, <2>2, Zenon
<1>4. ASSUME NEW s \in Session, attest_round1(s) \/ attest_round2(s)
      PROVE  StoreFollows' /\ Allowed
  <2>1. CASE attest_round1(s)
    BY <2>1 DEF attest_round1
  <2>2. CASE attest_round2(s)
    BY <2>2 DEF attest_round2
  <2> QED
    BY <1>4, <2>1, <2>2
<1>5. ASSUME NEW s \in Session, attest_call_fails(s) \/ attest_finalize(s)
      PROVE  StoreFollows' /\ Allowed
  BY <1>5 DEF attest_call_fails, attest_finalize
<1>6. ASSUME NEW s \in Session, attest_record_approval(s)
      PROVE  StoreFollows' /\ Allowed
  BY <1>6 DEF attest_record_approval
<1>7. CASE Crash
  BY <1>7, Zenon DEF Crash
<1>8. ASSUME UNCHANGED <<pc, store>>
      PROVE  StoreFollows' /\ Allowed
  BY <1>8, Zenon
<1>9. ASSUME Serve \/ Clock \/ (\E n \in Node : NodeRestart(n)) \/ UNCHANGED vars
      PROVE  UNCHANGED <<pc, store>>
  BY <1>9, Zenon DEF Serve, serve_round1, serve_round2, serve_cache, Clock, NodeRestart,
              covars, vars
<1> QED
  BY <1>1, <1>2, <1>3, <1>4, <1>5, <1>6, <1>7, <1>8, <1>9 DEF Next, Prepare, Attest

\* Every update of the store is an edge of the lifecycle graph, for any number
\* of concurrent sessions and any faults.
THEOREM StoreFollowsLifecycle == Spec => LifecycleFollowed
<1>1. Init => StoreFollows
  BY Zenon DEF Init, StoreFollows
<1>2. StoreFollows /\ [Next]_vars => StoreFollows'
  BY StoreStep, Zenon
<1>3. StoreFollows /\ [Next]_vars =>
        [\A s \in Session : store'[s] # store[s] =>
           \/ store[s] = Absent /\ store'[s] = "Pending"
           \/ can_transition_to(store[s], store'[s])
           \/ ~ Durable /\ store'[s] = Absent]_vars
  BY StoreStep, Zenon
<1> QED
  BY <1>1, <1>2, <1>3, PTL DEF Spec, LifecycleFollowed

-----------------------------------------------------------------------------
(* The signing package.                                                    *)

\* A verifier of the list has a last position in it: the least of the distances
\* of its positions from the end.
LEMMA LastPositionExists ==
  ASSUME NEW s \in Session, NEW v \in Range(Transports[s])
  PROVE  LastPosition(s, v) # {}
<1> DEFINE T == {N(s) - i : i \in {j \in 1..N(s) : Transports[s][j] = v}}
<1>1. T \subseteq Nat /\ T # {}
  BY TransportFacts
<1>2. PICK x \in T : \A y \in T : <<y, x>> \notin OpToRel(<, Nat)
  <2> HIDE DEF T
  <2> QED
    BY <1>1, NatLessThanWellFounded, WFMin, Zenon
<1>3. \A y \in T : ~ (y < x)
  BY <1>1, <1>2, Zenon DEF OpToRel
<1>4. PICK i \in 1..N(s) : Transports[s][i] = v /\ x = N(s) - i
  BY Zenon
<1>5. ASSUME NEW j \in 1..N(s), Transports[s][j] = v
      PROVE  j <= i
  <2>1. N(s) - j \in T
    BY <1>5, Zenon
  <2>2. ~ (N(s) - j < N(s) - i)
    BY <1>3, <1>4, <2>1, Zenon
  <2> QED
    BY <2>2, TransportFacts
<1> QED
  BY <1>4, <1>5 DEF LastPosition

\* The Round-1 call of session s to transport i was answered with the nonces the
\* thread holds, for the digest of the session.
Answered(s, i) ==
  \E c \in commitments :
    /\ c.k = "frost" /\ c.s = s /\ c.conn = i /\ c.n = Transports[s][i]
    /\ c.nonce = r1[s][i] /\ c.digest = signed_digest(s)

\* Nodes commit to the session's digest, the thread holds what they answered,
\* and every share is in the package made of all the answers.
GenuineInv ==
  /\ \A w \in work \cup commitments : w.k = "frost" /\ w.digest = signed_digest(w.s)
  /\ \A s \in Session :
       /\ pc[s] = "round1" => \A i \in 1..N(s) : i < idx[s] => Answered(s, i)
       /\ Started2(s) \/ pc[s] = "round2" => \A i \in 1..N(s) : Answered(s, i)
  /\ \A sh \in shares : sh.pkg = PackageOf(sh.s)

\* The package of a session whose commitments are all in holds, for every
\* signer, the nonces of its answer.
LEMMA PackageHoldsAnswers ==
  ASSUME NEW s \in Session, \A i \in 1..N(s) : Answered(s, i),
         NEW v \in Range(Transports[s]), v \in Verifier
  PROVE  \E c \in commitments :
           /\ c.k = "frost" /\ c.s = s /\ c.n = v
           /\ c.nonce = PackageOf(s).commits[v] /\ c.digest = PackageOf(s).msg
<1> DEFINE i == CHOOSE j \in LastPosition(s, v) : TRUE
<1>1. i \in LastPosition(s, v)
  BY LastPositionExists, Zenon
<1>2. i \in 1..N(s) /\ Transports[s][i] = v
  BY <1>1, Zenon DEF LastPosition
<1>3. LastCommit(s, v) = r1[s][i]
  BY LastPositionExists, Zenon DEF LastCommit
<1>4. PackageOf(s).commits[v] = r1[s][i] /\ PackageOf(s).msg = signed_digest(s)
  BY <1>3, Zenon DEF PackageOf
<1> HIDE DEF i
<1>5. Answered(s, i)
  BY <1>2, Zenon
<1> QED
  BY <1>2, <1>4, <1>5, Zenon DEF Answered

\* A step keeps GenuineInv if it stores no answer, drops no commitment, and no
\* thread gets further than its answers allow.
LEMMA GenuineStep ==
  ASSUME GenuineInv, CoTypeOK', UNCHANGED r1, commitments \subseteq commitments',
         \A w \in work' \cup commitments' :
           w.k = "frost" /\ w.digest = signed_digest(w.s),
         \A sh \in shares' : sh \in shares \/ sh.pkg = PackageOf(sh.s),
         \A t \in Session :
           /\ Started2(t)' \/ pc'[t] = "round2" => Started2(t) \/ pc[t] = "round2"
           /\ pc'[t] = "round1" => \/ idx'[t] = 1
                                   \/ pc[t] = "round1" /\ idx'[t] = idx[t]
  PROVE  GenuineInv'
<1>1. ASSUME NEW t \in Session, NEW i \in 1..N(t), Answered(t, i)
      PROVE  Answered(t, i)'
  BY <1>1, Zenon DEF Answered, signed_digest, approval_signed_digest
<1>2. ASSUME NEW sh \in shares'
      PROVE  (sh.pkg = PackageOf(sh.s))'
  <2>1. sh.pkg = PackageOf(sh.s) /\ sh.s \in Session
    BY Zenon DEF GenuineInv, CoTypeOK, TypeOK, Share
  <2> QED
    BY <2>1, PackageStable, Zenon
<1>3. \A w \in work' \cup commitments' :
        w.k = "frost" /\ w.digest = signed_digest(w.s)'
  BY Zenon DEF signed_digest, approval_signed_digest
<1>4. ASSUME NEW t \in Session
      PROVE  /\ pc'[t] = "round1" =>
                  \A i \in 1..N(t) : i < idx'[t] => Answered(t, i)'
             /\ Started2(t)' \/ pc'[t] = "round2" =>
                  \A i \in 1..N(t) : Answered(t, i)'
  <2>1. ASSUME pc'[t] = "round1", NEW i \in 1..N(t), i < idx'[t]
        PROVE  Answered(t, i)'
    <3>1. idx'[t] # 1
      BY <2>1, TransportFacts
    <3>2. pc[t] = "round1" /\ i < idx[t]
      BY <2>1, <3>1, Zenon
    <3>3. Answered(t, i)
      BY <3>2, Zenon DEF GenuineInv
    <3> QED
      BY <1>1, <3>3, Zenon
  <2>2. ASSUME Started2(t)' \/ pc'[t] = "round2", NEW i \in 1..N(t)
        PROVE  Answered(t, i)'
    <3>1. Answered(t, i)
      BY <2>2, Zenon DEF GenuineInv
    <3> QED
      BY <1>1, <3>1
  <2> QED
    BY <2>1, <2>2, Zenon
<1> QED
  BY <1>2, <1>3, <1>4, Zenon DEF GenuineInv, N

\* A Round-1 response is stored at its position: it answers the call there.
LEMMA Round1Genuine ==
  ASSUME CoInv, CoTypeOK', GenuineInv, NEW s \in Session, attest_round1(s)
  PROVE  GenuineInv'
<1>1. PICK c \in commitments :
        /\ c.k = "frost" /\ c.s = s
        /\ c.conn = idx[s] /\ c.n = Transports[s][idx[s]]
        /\ r1' = [r1 EXCEPT ![s][idx[s]] = c.nonce]
  BY Zenon DEF attest_round1
<1>2. /\ pc[s] = "round1" /\ idx[s] \in 1..N(s)
      /\ UNCHANGED <<work, commitments, shares>>
      /\ r1 \in [Session -> [Conn -> 0..MaxNonce]]
      /\ pc \in [Session -> {"idle"} \cup Running \cup Returned]
      /\ idx \in [Session -> Nat] /\ \A t \in Session : idx[t] \in 1..N(t)
  BY Zenon DEF attest_round1, CoInv, CoTypeOK, auxvars
<1>0. idx[s] \in Conn /\ \A i \in 1..N(s) : i \in Conn
  BY <1>2, TransportFacts, Zenon
<1>3. /\ \A t \in Session : t # s => /\ r1'[t] = r1[t] /\ pc'[t] = pc[t]
                                     /\ idx'[t] = idx[t]
      /\ r1'[s][idx[s]] = c.nonce
      /\ \A i \in 1..N(s) : i # idx[s] => r1'[s][i] = r1[s][i]
  <2>1. \A t \in Session : t # s => pc'[t] = pc[t] /\ idx'[t] = idx[t]
    BY <1>2, Zenon DEF attest_round1, Goto
  <2>2. r1' = [r1 EXCEPT ![s] = [r1[s] EXCEPT ![idx[s]] = c.nonce]]
    BY <1>1, Zenon
  <2>3. \A t \in Session : t # s => r1'[t] = r1[t]
    BY <1>2, <2>2, Zenon
  <2>4. r1'[s] = [r1[s] EXCEPT ![idx[s]] = c.nonce] /\ r1[s] \in [Conn -> 0..MaxNonce]
    BY <1>2, <2>2, Zenon
  <2>5. /\ r1'[s][idx[s]] = c.nonce
        /\ \A i \in 1..N(s) : i # idx[s] => r1'[s][i] = r1[s][i]
    BY <1>0, <2>4, Zenon
  <2> QED
    BY <2>1, <2>3, <2>5, Zenon
<1>4. ~ Started2(s)
  BY <1>2, Zenon DEF CoInv, RoundsInOrder
<1>5. c.digest = signed_digest(s)
  BY <1>1, Zenon DEF GenuineInv
<1>6. ASSUME NEW i \in 1..N(s), i <= idx[s]
      PROVE  Answered(s, i)'
  <2>1. CASE i = idx[s]
    BY <1>1, <1>2, <1>3, <1>5, <2>1 DEF Answered, signed_digest, approval_signed_digest
  <2>2. CASE i # idx[s]
    <3>0. N(s) \in Nat
      BY TransportFacts, Zenon
    <3>1. i < idx[s]
      <4>1. idx[s] \in 1..N(s)
        BY <1>2, Zenon
      <4> QED
        BY ONLY <1>6, <2>2, <3>0, <4>1, i \in 1..N(s), SMT
    <3>2. Answered(s, i)
      BY <1>2, <3>1, Zenon DEF GenuineInv
    <3> QED
      BY <1>2, <1>3, <2>2, <3>2, Zenon DEF Answered, signed_digest, approval_signed_digest
  <2> QED
    BY <2>1, <2>2, Zenon
<1>7. ASSUME NEW t \in Session, t # s
      PROVE  /\ Started2(t)' <=> Started2(t)
             /\ \A i \in 1..N(t) : Answered(t, i) => Answered(t, i)'
  <2>1. \A i \in 1..N(t) : <<2, t, i>> \in requests' <=> <<2, t, i>> \in requests
    BY <1>7 DEF attest_round1
  <2>2. \A i \in 1..N(t) : Answered(t, i) => Answered(t, i)'
    BY <1>2, <1>3, <1>7, Zenon DEF Answered, signed_digest, approval_signed_digest
  <2> QED
    BY <1>2, <2>1, <2>2 DEF Started2, N
<1>8. /\ pc'[s] = "round1" => idx'[s] = idx[s] + 1
      /\ Started2(s)' \/ pc'[s] = "round2" => idx[s] = N(s)
  <2>1. CASE idx[s] < N(s)
    <3>1. /\ idx'[s] = idx[s] + 1 /\ pc'[s] = "round1"
          /\ requests' = requests \cup {<<1, s, idx[s] + 1>>}
      BY <1>2, <2>1, Zenon DEF attest_round1
    <3>2. ~ Started2(s)'
      <4>1. \A i \in 1..N(s) : <<2, s, i>> \notin requests'
        BY <1>4, <3>1 DEF Started2
      <4> QED
        BY <1>2, <1>4, <4>1, Zenon DEF Started2, N
    <3> QED
      BY <3>1, <3>2, Zenon
  <2>2. CASE ~ (idx[s] < N(s))
    <3>1. idx[s] = N(s)
      <4>1. N(s) \in Nat /\ idx[s] \in 1..N(s)
        BY <1>2, TransportFacts, Zenon
      <4> QED
        BY <2>2, <4>1
    <3>2. pc'[s] # "round1"
      BY <1>2, <2>2, Zenon DEF attest_round1, Goto
    <3> QED
      BY <3>1, <3>2, Zenon
  <2> QED
    BY <2>1, <2>2, Zenon
<1>9. ASSUME NEW t \in Session
      PROVE  /\ pc'[t] = "round1" =>
                  \A i \in 1..N(t) : i < idx'[t] => Answered(t, i)'
             /\ Started2(t)' \/ pc'[t] = "round2" =>
                  \A i \in 1..N(t) : Answered(t, i)'
  <2>1. CASE t = s
    <3>1. ASSUME pc'[s] = "round1", NEW i \in 1..N(s), i < idx'[s]
          PROVE  Answered(s, i)'
      <4>1. i <= idx[s]
        BY <1>2, <1>8, <3>1, TransportFacts, SMTT(30)
      <4> QED
        BY <1>6, <4>1, Zenon
    <3>2. ASSUME Started2(s)' \/ pc'[s] = "round2", NEW i \in 1..N(s)
          PROVE  Answered(s, i)'
      <4>1. i <= idx[s]
        BY <1>8, <3>2, TransportFacts
      <4> QED
        BY <1>6, <4>1
    <3> QED
      BY <2>1, <3>1, <3>2, Zenon
  <2>2. CASE t # s
    BY <1>3, <1>7, <2>2, Zenon DEF GenuineInv
  <2> QED
    BY <2>1, <2>2, Zenon
<1>10. ASSUME NEW sh \in shares'
       PROVE  (sh.pkg = PackageOf(sh.s))'
  <2>1. sh.pkg = PackageOf(sh.s) /\ sh.s \in Session /\ sh \in shares
    BY <1>2, Zenon DEF GenuineInv, CoInv, CoTypeOK, TypeOK, Share
  <2>2. sh.s # s
    BY <1>4, <2>1, Zenon DEF Started2
  <2> QED
    BY <1>3, <2>1, <2>2, PackageStable, Zenon
<1>11. \A w \in work' \cup commitments' :
         w.k = "frost" /\ w.digest = signed_digest(w.s)'
  BY <1>2, Zenon DEF GenuineInv, signed_digest, approval_signed_digest
<1> QED
  BY <1>9, <1>10, <1>11, Zenon DEF GenuineInv, N

\* Steps of the threads other than a Round-1 response.
LEMMA ThreadGenuine ==
  ASSUME CoInv, CoTypeOK', GenuineInv, NEW s \in Session,
         \/ Prepare(s) \/ attest_collect(s) \/ attest_quorum(s) \/ attest_round2(s)
         \/ attest_call_fails(s) \/ attest_record_approval(s) \/ attest_finalize(s)
  PROVE  GenuineInv'
<1>1. UNCHANGED <<r1, work, commitments, shares>>
  BY Zenon DEF Prepare, prepare_insert, prepare_activate, prepare_randomness,
         prepare_engine, attest_collect, attest_quorum, attest_round2, attest_call_fails,
         attest_record_approval, attest_finalize, auxvars
<1>2. /\ pc \in [Session -> {"idle"} \cup Running \cup Returned]
      /\ idx \in [Session -> Nat] /\ \A t \in Session : idx[t] \in 1..N(t)
  BY Zenon DEF CoInv, CoTypeOK
<1>3. ASSUME NEW t \in Session
      PROVE  /\ Started2(t)' \/ pc'[t] = "round2" => Started2(t) \/ pc[t] = "round2"
             /\ pc'[t] = "round1" => \/ idx'[t] = 1
                                     \/ pc[t] = "round1" /\ idx'[t] = idx[t]
  <2>1. CASE attest_quorum(s)
    <3>1. idx[s] = 1
      BY <2>1, Zenon DEF attest_quorum, CoInv, NotAhead, Early
    <3>2. \A i \in 1..N(t) : <<2, t, i>> \in requests' <=> <<2, t, i>> \in requests
      BY <2>1 DEF attest_quorum
    <3> QED
      BY <1>1, <1>2, <2>1, <3>1, <3>2, Zenon DEF attest_quorum, Goto, Started2, N
  <2>2. CASE attest_round2(s)
    <3>1. t # s => \A i \in 1..N(t) : <<2, t, i>> \in requests' <=> <<2, t, i>> \in requests
      <4>1. requests' = requests \/ requests' = requests \cup {<<2, s, idx[s] + 1>>}
        BY <2>2, Zenon DEF attest_round2
      <4>2. t # s => \A i \in 1..N(t) : <<2, t, i>> # <<2, s, idx[s] + 1>>
        BY Zenon
      <4> QED
        BY <4>1, <4>2, Zenon
    <3>2. /\ pc[s] = "round2" /\ pc'[s] # "round1"
          /\ t # s => pc'[t] = pc[t] /\ idx'[t] = idx[t]
      BY <1>2, <2>2, Zenon DEF attest_round2, Goto
    <3>3. CASE t = s
      BY <3>2, <3>3
    <3>4. CASE t # s
      BY <1>1, <3>1, <3>2, <3>4 DEF Started2, N
    <3> QED
      BY <3>3, <3>4, Zenon
  <2>3. CASE Prepare(s) \/ attest_collect(s) \/ attest_call_fails(s)
             \/ attest_record_approval(s) \/ attest_finalize(s)
    <3>1. UNCHANGED requests
      <4>1. CASE Prepare(s)
        BY <4>1, Zenon DEF Prepare, prepare_insert, prepare_activate, prepare_randomness,
                           prepare_engine
      <4>2. CASE attest_call_fails(s)
        BY <4>2, Zenon DEF attest_call_fails
      <4>3. CASE attest_record_approval(s)
        BY <4>3, Zenon DEF attest_record_approval
      <4>4. CASE attest_finalize(s)
        BY <4>4, Zenon DEF attest_finalize
      <4>5. CASE attest_collect(s)
        BY <4>5, Zenon DEF attest_collect
      <4> QED
        BY <2>3, <4>1, <4>2, <4>3, <4>4, <4>5, Zenon
    <3>2. /\ t # s => pc'[t] = pc[t] /\ idx'[t] = idx[t]
          /\ pc'[s] \notin {"round1", "round2"}
      BY <1>2, <2>3, Zenon
      DEF Prepare, prepare_insert, prepare_activate, prepare_randomness,
          prepare_engine, attest_collect, attest_call_fails,
          attest_record_approval, attest_finalize, Goto
    <3>3. Started2(t)' => Started2(t)
      BY <1>1, <3>1, Zenon DEF Started2, N
    <3>4. pc'[s] # "round1" /\ pc'[s] # "round2"
      BY ONLY <3>2
    <3> HIDE DEF Started2
    <3>5. CASE t = s
      BY <3>3, <3>4, <3>5, Zenon
    <3>6. CASE t # s
      BY <3>2, <3>3, <3>6, Zenon
    <3> QED
      BY <3>5, <3>6, Zenon
  <2> QED
    BY <2>1, <2>2, <2>3
<1> QED
  BY <1>1, <1>3, GenuineStep, Zenon DEF GenuineInv

\* A node takes up a Round-1 request: it commits to the digest of the request.
LEMMA ServeRound1Genuine ==
  ASSUME CoInv, CoTypeOK', GenuineInv, NEW m \in requests, serve_round1(m)
  PROVE  GenuineInv'
<1>1. UNCHANGED <<covars, commitments, shares>> /\ requests' \subseteq requests
  BY Zenon DEF serve_round1, frost_round1_check, StartRound1, auxvars
<1>2. \A w \in work' : w.k = "frost" /\ w.digest = signed_digest(w.s)
  <2>1. CASE UNCHANGED auxvars
    BY <2>1, Zenon DEF auxvars, GenuineInv
  <2>2. CASE frost_round1_check(Transports[m[2]][m[3]], Round1RequestOf(m[2], m[3]))
    <3> DEFINE h == HandlerFor("frost", Transports[m[2]][m[3]], Round1RequestOf(m[2], m[3]))
    <3>1. work' = work \cup {h}
      BY <2>2, Zenon DEF frost_round1_check, StartRound1
    <3>2. h.k = "frost" /\ h.s = m[2] /\ h.digest = signed_digest(m[2])
      BY ZenonT(30) DEF HandlerFor, Round1RequestOf
    <3> HIDE DEF h
    <3> QED
      BY <3>1, <3>2, Zenon DEF GenuineInv
  <2> QED
    BY <2>1, <2>2, Zenon DEF serve_round1
<1>3. ASSUME NEW t \in Session
      PROVE  Started2(t)' => Started2(t)
  BY <1>1, Zenon DEF Started2, N
<1>4. /\ \A w \in work' \cup commitments' :
           w.k = "frost" /\ w.digest = signed_digest(w.s)
      /\ UNCHANGED <<r1, pc, idx, commitments, shares>>
  BY <1>1, <1>2, Zenon DEF GenuineInv, covars
<1> QED
  BY <1>3, <1>4, GenuineStep, Zenon

\* A node takes up a Round-2 request: its share is in the package of the session.
LEMMA ServeRound2Genuine ==
  ASSUME CoInv, CoTypeOK', GenuineInv, NEW m \in requests, serve_round2(m)
  PROVE  GenuineInv'
<1> DEFINE s == m[2]
           i == m[3]
<1>1. m = <<2, s, i>> /\ s \in Session /\ i \in 1..N(s)
  <2>1. requests \subseteq Calls
    BY Zenon DEF CoInv, CoTypeOK
  <2>2. m[1] = 2
    BY Zenon DEF serve_round2
  <2> QED
    BY <2>1, <2>2 DEF Calls
<1>2. UNCHANGED covars /\ requests' = requests \ {m}
  BY Zenon DEF serve_round2
<1>3. /\ UNCHANGED <<work, commitments>>
      /\ \A sh \in shares' : sh \in shares \/ (sh.s = s /\ sh.pkg = PackageOf(s))
  <2>1. CASE UNCHANGED auxvars
    BY <2>1, Zenon DEF auxvars
  <2>2. CASE frost_round2(Transports[s][i], Round2RequestOf(s, i))
    <3> DEFINE req == Round2RequestOf(s, i)
    <3>1. req.s = s /\ req.pkg = PackageOf(s)
      BY Zenon DEF Round2RequestOf
    <3> HIDE DEF req, s, i
    <3>2. PICK e \in Cached("frost", Transports[s][i], req.s) :
            /\ UNCHANGED <<work, commitments>>
            /\ \/ shares' = shares
               \/ shares' = shares \cup
                    {[k |-> "frost", n |-> Transports[s][i], s |-> req.s,
                      nonce |-> e.nonce, signers |-> req.signers, pkg |-> req.pkg,
                      conn |-> req.conn]}
      BY <2>2, Zenon DEF frost_round2, Round2, req
    <3>3. PICK new : new = [k |-> "frost", n |-> Transports[s][i], s |-> req.s,
                            nonce |-> e.nonce, signers |-> req.signers,
                            pkg |-> req.pkg, conn |-> req.conn]
      BY Zenon
    <3>4. new.s = s /\ new.pkg = PackageOf(s)
      BY <3>1, <3>3, Zenon
    <3>5. shares' = shares \/ shares' = shares \cup {new}
      BY <3>2, <3>3, Zenon
    <3> QED
      BY <3>2, <3>4, <3>5, Zenon
  <2> QED
    BY <2>1, <2>2, Zenon DEF serve_round2
<1> HIDE DEF s, i
<1>4. ASSUME NEW t \in Session
      PROVE  Started2(t)' => Started2(t)
  BY <1>1, <1>2, <1>3 DEF Started2, N
<1> QED
  BY <1>2, <1>3, <1>4, GenuineStep, Zenon DEF GenuineInv, covars

\* Every step keeps GenuineInv.
LEMMA GenuineInvStep ==
  ASSUME CoInv, CoInv', GenuineInv, [Next]_vars
  PROVE  GenuineInv'
<1>1. CoTypeOK'
  BY Zenon DEF CoInv
<1>2. ASSUME UNCHANGED <<r1, shares, requests>>, commitments \subseteq commitments',
             work' \cup commitments' \subseteq work \cup commitments,
             \A t \in Session : \/ pc'[t] = pc[t] /\ idx'[t] = idx[t]
                               \/ pc'[t] = "down"
      PROVE  GenuineInv'
  <2>1. \A t \in Session : Started2(t)' <=> Started2(t)
    BY <1>2 DEF Started2, N
  <2> QED
    BY <1>1, <1>2, <2>1, GenuineStep, Zenon DEF GenuineInv
<1>3. ASSUME NEW s \in Session, Prepare(s) \/ Attest(s)
      PROVE  GenuineInv'
  BY <1>1, <1>3, ThreadGenuine, Round1Genuine, Zenon DEF Attest
<1>4. CASE Crash
  BY <1>2, <1>4 DEF Crash, auxvars, CoInv, CoTypeOK
<1>5. ASSUME NEW m \in requests, serve_round1(m) \/ serve_round2(m)
      PROVE  GenuineInv'
  BY <1>1, <1>5, ServeRound1Genuine, ServeRound2Genuine, Zenon
<1>6. ASSUME NEW w \in work, serve_cache(w)
      PROVE  GenuineInv'
  BY <1>2, <1>6, Zenon DEF serve_cache, frost_round1_cache, covars
<1>7. ASSUME NEW n \in Node, NodeRestart(n)
      PROVE  GenuineInv'
  BY <1>2, <1>7, Zenon DEF NodeRestart, Restart, covars
<1>8. ASSUME Clock \/ UNCHANGED vars
      PROVE  GenuineInv'
  BY <1>2, <1>8 DEF Clock, Tick, covars, vars, auxvars
<1> QED
  BY <1>3, <1>4, <1>5, <1>6, <1>7, <1>8 DEF Next, Serve

\* Nobody releases a share before all signers have committed: the package of a
\* share holds a Round-1 response of every signer, for the same session and
\* digest, also when a verifier occurs twice in the list.
THEOREM PackagesAreGenuine == Spec => []PackageIsGenuine
<1>1. Init => GenuineInv
  BY Zenon DEF Init, AuxInit, GenuineInv, Started2
<1>2. CoInv /\ CoInv' /\ GenuineInv /\ [Next]_vars => GenuineInv'
  BY GenuineInvStep, Zenon
<1>3. CoInv /\ GenuineInv => PackageIsGenuine
  <2> SUFFICES ASSUME CoInv, GenuineInv, NEW sh \in shares, NEW v \in Range(Transports[sh.s])
               PROVE  \E c \in commitments :
                        /\ c.k = sh.k /\ c.s = sh.s /\ c.n = v
                        /\ c.nonce = sh.pkg.commits[v]
                        /\ c.digest = sh.pkg.msg
    BY Zenon DEF PackageIsGenuine
  <2>1. sh.s \in Session /\ sh.k = "frost" /\ v \in Verifier
    BY TransportFacts, AuxAssumption, Zenon DEF CoInv, FromCalls, CoTypeOK, TypeOK, Share
  <2>2. Started2(sh.s)
    BY DEF Started2
  <2>3. sh.pkg = PackageOf(sh.s) /\ \A i \in 1..N(sh.s) : Answered(sh.s, i)
    BY <2>1, <2>2, Zenon DEF GenuineInv
  <2>4. PICK c \in commitments :
          /\ c.k = "frost" /\ c.s = sh.s /\ c.n = v
          /\ c.nonce = PackageOf(sh.s).commits[v] /\ c.digest = PackageOf(sh.s).msg
    BY <2>1, <2>3, PackageHoldsAnswers
  <2> QED
    BY <2>1, <2>3, <2>4, Zenon
<1> QED
  BY <1>1, <1>2, <1>3, CoInvariant, PTL DEF Spec

=============================================================================
