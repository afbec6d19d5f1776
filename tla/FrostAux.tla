------------------------------ MODULE FrostAux ------------------------------
(***************************************************************************)
(* The auxiliary verifier nodes, crates/node/src/frost_aux.rs: the two     *)
(* rounds of FROST signing ("frost", cache `pending`) and of handshake     *)
(* binding ("hb", cache `hb_pending`).                                     *)
(*                                                                         *)
(* Requests arrive on threads of their own.  A Round-1 handler is two      *)
(* steps: the checks, then the critical section that caches the nonces;    *)
(* other handlers run in between.  A Round-2 handler touches shared state  *)
(* in its first critical section only, so it is one step.  A handler that  *)
(* returns an error before it changes anything is not a step.              *)
(*                                                                         *)
(* A nonce pair is a number, fresh for its node; the commitment published  *)
(* for it is the same number.  The two HashMaps of every node are the set  *)
(* `pending` of entries tagged with protocol and node.                     *)
(***************************************************************************)
EXTENDS Integers, Sequences, FiniteSets, Functions

CONSTANTS
  Verifier,      \* the verifier identities
  Node,          \* the verifiers that run an auxiliary node
  Session,       \* session identifiers
  Body,          \* envelope digests and binding inputs
  SignerLists,   \* the signer_set lists requests may carry
  Conn,          \* labels of the connections requests arrive on
  Registry,      \* the registry snapshot each node was built with
  Epochs,        \* registry epochs on the wire
  Expiry,        \* round_expires_at values on the wire
  MinSigners,    \* the FROST threshold of the key packages
  PendingTTL,    \* PENDING_TTL in clock ticks
  MaxTime,       \* bound on the clock
  MaxNonce       \* bound on the nonce pairs one node draws

GENESIS == 0

ASSUME AuxAssumption ==
  /\ Node \subseteq Verifier
  /\ SignerLists \subseteq Seq(Verifier)
  /\ Registry \in [Node -> [held : BOOLEAN, epoch : Nat,
                            active : SUBSET Verifier]]
  /\ Epochs \subseteq Nat
  /\ GENESIS \in Epochs
  /\ Expiry \subseteq Nat
  /\ MinSigners \in Nat
  /\ PendingTTL \in Nat
  /\ MaxTime \in Nat
  /\ MaxNonce \in Nat

VARIABLES
  clock,        \* wall-clock time
  drawn,        \* node -> how many nonce pairs it has drawn
  work,         \* Round-1 handlers between their checks and the cache
  pending,      \* the entries of pending and hb_pending
  commitments,  \* the Round-1 responses sent
  shares        \* the Round-2 responses sent

auxvars == <<clock, drawn, work, pending, commitments, shares>>

Protocol == {"frost", "hb"}
Nonce == 1..MaxNonce
Digest == {"approval", "binding"} \X Body

\* approval_signed_digest(envelope_digest) is a hash with its own domain tag.
approval_signed_digest(envelope) == <<"approval", envelope>>

\* What FrostRound1Request and HandshakeBindingRound1Request carry.  evidence
\* is the outcome of the proof checks on the HSP proof and DCTLS fields.
Round1Request ==
  [s : Session, envelope : Body, digest : Digest, signers : SignerLists,
   expires : Expiry, epoch : Epochs,
   evidence : {"none", "valid", "invalid"}, conn : Conn]

\* A signing package: the commitment of each signer (0: none) and the message.
Package == [commits : [Verifier -> 0..MaxNonce], msg : Digest]

Round2Request ==
  [s : Session, pkg : Package, parses : BOOLEAN, signers : SignerLists,
   conn : Conn]

Handler == [k : Protocol, n : Node, s : Session, nonce : Nonce,
            signers : SignerLists, digest : Digest, conn : Conn]

PendingRound == [k : Protocol, n : Node, s : Session, nonce : Nonce,
                 signers : SignerLists, digest : Digest, inserted_at : Nat]

Share == [k : Protocol, n : Node, s : Session, nonce : Nonce,
          signers : SignerLists, pkg : Package, conn : Conn]

TypeOK ==
  /\ clock \in 0..MaxTime
  /\ drawn \in [Node -> 0..MaxNonce]
  /\ work \in SUBSET Handler
  /\ pending \in SUBSET PendingRound
  /\ commitments \in SUBSET Handler
  /\ shares \in SUBSET Share

AuxInit ==
  /\ clock = 0
  /\ drawn = [n \in Node |-> 0]
  /\ work = {}
  /\ pending = {}
  /\ commitments = {}
  /\ shares = {}
-----------------------------------------------------------------------------
Cached(k, n, s) == {e \in pending : e.k = k /\ e.n = n /\ e.s = s}

\* evict_expired on the cache of node n for protocol k.
Expired(e) == clock - e.inserted_at >= PendingTTL

\* Mutant: the sweep takes every entry, whatever its age.
Evicted_any_age(k, n) == {e \in pending : e.k = k /\ e.n = n}

Evicted(k, n) == {e \in pending : e.k = k /\ e.n = n /\ Expired(e)}

\* Registry admission of frost_round1 and handshake_binding_round1.
RegistryAdmits(n, req) ==
  Registry[n].held /\ req.epoch # GENESIS =>
    /\ req.epoch = Registry[n].epoch
    /\ Range(req.signers) \subseteq Registry[n].active

\* The checks that both Round-1 handlers start with.
Admits(n, req) ==
  /\ req.expires >= clock
  /\ n \in Range(req.signers)
  /\ RegistryAdmits(n, req)

FrostAdmits(n, req) ==
  /\ Admits(n, req)
  /\ req.digest = approval_signed_digest(req.envelope)
  /\ req.evidence # "invalid"

\* Fresh nonces from the OS generator.
HandlerFor(k, n, req) ==
  [k |-> k, n |-> n, s |-> req.s, nonce |-> drawn[n] + 1,
   signers |-> req.signers, digest |-> req.digest, conn |-> req.conn]

StartRound1(k, n, req) ==
  /\ drawn[n] < MaxNonce
  /\ drawn' = [drawn EXCEPT ![n] = @ + 1]
  /\ work' = work \cup {HandlerFor(k, n, req)}
  /\ UNCHANGED <<clock, pending, commitments, shares>>

\* The PendingRound a handler inserts.
Entry(w) ==
  [k |-> w.k, n |-> w.n, s |-> w.s, nonce |-> w.nonce,
   signers |-> w.signers, digest |-> w.digest, inserted_at |-> clock]

\* frost_round1 up to the nonce generation.
frost_round1_check(n, req) ==
  /\ FrostAdmits(n, req)
  /\ StartRound1("frost", n, req)

\* Mutant: the check and the insertion under two locks, as hb still has it.
frost_round1_overwrite(w) ==
  /\ w \in work
  /\ w.k = "frost"
  /\ work' = work \ {w}
  /\ pending' = ((pending \ Evicted("frost", w.n)) \ Cached("frost", w.n, w.s))
                \cup {Entry(w)}
  /\ commitments' = commitments \cup {w}
  /\ UNCHANGED <<clock, drawn, shares>>

\* frost_round1, the critical section: eviction, then the duplicate check,
\* then the insertion.  The response is sent on success only.
frost_round1_cache(w) ==
  /\ w \in work
  /\ w.k = "frost"
  /\ work' = work \ {w}
  /\ LET kept == pending \ Evicted("frost", w.n)
         free == \A e \in kept : ~ (e.k = "frost" /\ e.n = w.n /\ e.s = w.s)
     IN  /\ pending' = IF free THEN kept \cup {Entry(w)} ELSE kept
         /\ commitments' = IF free THEN commitments \cup {w} ELSE commitments
  /\ UNCHANGED <<clock, drawn, shares>>

\* handshake_binding_round1 up to the nonce generation: the duplicate check
\* takes and releases the lock, and looks at entries of any age.
handshake_binding_round1_check(n, req) ==
  /\ Admits(n, req)
  /\ Cached("hb", n, req.s) = {}
  /\ StartRound1("hb", n, req)

\* The second critical section: eviction and insertion, over whatever entry
\* another handler has cached for the session meanwhile.
handshake_binding_round1_cache(w) ==
  /\ w \in work
  /\ w.k = "hb"
  /\ work' = work \ {w}
  /\ pending' = ((pending \ Evicted("hb", w.n)) \ Cached("hb", w.n, w.s))
                \cup {Entry(w)}
  /\ commitments' = commitments \cup {w}
  /\ UNCHANGED <<clock, drawn, shares>>

\* frost::round2::sign (external): the package must hold the commitment of
\* these nonces and at least min_signers commitments.
SignAccepts(n, nonce, pkg) ==
  /\ pkg.commits[n] = nonce
  /\ Cardinality({v \in Verifier : pkg.commits[v] # 0}) >= MinSigners

\* Mutant: the nonces stay cached until the share is computed and returned.
Round2_keeps_nonces(k, n, req) ==
  \E e \in Cached(k, n, req.s) :
    /\ req.signers = e.signers /\ req.parses /\ req.pkg.msg = e.digest
    /\ SignAccepts(n, e.nonce, req.pkg)
    /\ shares' = shares \cup
         {[k |-> k, n |-> n, s |-> req.s, nonce |-> e.nonce,
           signers |-> req.signers, pkg |-> req.pkg, conn |-> req.conn]}
    /\ UNCHANGED <<clock, drawn, work, pending, commitments>>

\* Mutant: the message of the package is not compared with the cached digest.
Round2_any_message(k, n, req) ==
  \E e \in Cached(k, n, req.s) :
    /\ pending' = pending \ {e}
    /\ shares' =
         IF /\ req.signers = e.signers /\ req.parses
            /\ SignAccepts(n, e.nonce, req.pkg)
         THEN shares \cup
                {[k |-> k, n |-> n, s |-> req.s, nonce |-> e.nonce,
                  signers |-> req.signers, pkg |-> req.pkg, conn |-> req.conn]}
         ELSE shares
    /\ UNCHANGED <<clock, drawn, work, commitments>>

\* The Round-2 handlers: the entry is removed first, whatever the checks on
\* the signer set, the package and its message then say.
Round2(k, n, req) ==
  \E e \in Cached(k, n, req.s) :
    /\ pending' = pending \ {e}
    /\ shares' =
         IF /\ req.signers = e.signers
            /\ req.parses
            /\ req.pkg.msg = e.digest
            /\ SignAccepts(n, e.nonce, req.pkg)
         THEN shares \cup
                {[k |-> k, n |-> n, s |-> req.s, nonce |-> e.nonce,
                  signers |-> req.signers, pkg |-> req.pkg, conn |-> req.conn]}
         ELSE shares
    /\ UNCHANGED <<clock, drawn, work, commitments>>

frost_round2(n, req) == Round2("frost", n, req)

handshake_binding_round2(n, req) == Round2("hb", n, req)

\* The process of node n stops and starts again: handlers and caches are lost.
Restart(n) ==
  /\ work' = {w \in work : w.n # n}
  /\ pending' = {e \in pending : e.n # n}
  /\ UNCHANGED <<clock, drawn, commitments, shares>>

Tick ==
  /\ clock < MaxTime
  /\ clock' = clock + 1
  /\ UNCHANGED <<drawn, work, pending, commitments, shares>>

AuxNext ==
  \/ \E n \in Node :
       \/ \E req \in Round1Request : \/ frost_round1_check(n, req)
                                     \/ handshake_binding_round1_check(n, req)
       \/ \E req \in Round2Request : \/ frost_round2(n, req)
                                     \/ handshake_binding_round2(n, req)
       \/ Restart(n)
  \/ \E w \in work : frost_round1_cache(w) \/ handshake_binding_round1_cache(w)
  \/ Tick

AuxSpec == AuxInit /\ [][AuxNext]_auxvars
-----------------------------------------------------------------------------
\* No nonce pair of a node ever yields two signature shares, across both
\* protocols, duplicate and delayed requests, evictions and restarts: Round 2
\* takes the nonces out of the cache before it looks at anything else.
NonceUsedOnce ==
  \A a, b \in shares : a.n = b.n /\ a.nonce = b.nonce => a = b

\* A share answers a Round-1 response of the same node, protocol and session
\* and is over the digest and the signer list that response committed to,
\* inside a package that holds the committed nonce.
ShareHonoursCommitment ==
  \A sh \in shares : \E c \in commitments :
    /\ c.k = sh.k /\ c.n = sh.n /\ c.s = sh.s /\ c.nonce = sh.nonce
    /\ c.digest = sh.pkg.msg
    /\ c.signers = sh.signers
    /\ sh.pkg.commits[sh.n] = c.nonce

\* A cached, unexpired Round-1 entry of protocol k is never displaced by the
\* entry of another Round-1 request for the same session.
LiveRoundKept(k) ==
  \A e \in pending : e.k = k /\ e \notin pending' /\ ~ Expired(e) =>
    ~ \E f \in pending' : f.k = k /\ f.n = e.n /\ f.s = e.s

\* frost_round1: "Merging both operations under a single lock acquisition
\* makes the check+insert atomic", so no concurrent Round 1 displaces nonces.
FrostRoundKept == [][LiveRoundKept("frost")]_auxvars

\* handshake_binding_round1: "No duplicate round - only one nonce set per
\* session".
HandshakeRoundKept == [][LiveRoundKept("hb")]_auxvars

\* frost_round1: "a node never signs two nonce sets for the same session".
OneNonceSetSigned ==
  \A a, b \in shares :
    a.k = "frost" /\ b.k = "frost" /\ a.n = b.n /\ a.s = b.s
      => a.nonce = b.nonce
=============================================================================
