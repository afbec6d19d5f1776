---------------------------- MODULE FrostSigning ----------------------------
(***************************************************************************)
(* The signing phase: the coordinator (crates/node/src/coordinator.rs,     *)
(* prepare_session and attest_frost_distributed_over_transport) drives the *)
(* auxiliary nodes of FrostAux over TCP (crates/node/src/transport.rs).    *)
(*                                                                         *)
(* Every session runs on a coordinator thread of its own.  A call to a     *)
(* node is a fresh connection that carries one request and one response;   *)
(* <<round, s, i>> names the call of session s to its i-th transport.  The *)
(* caller may give up at any time (connection refused, 30 s timeout, lost  *)
(* response); the request it sent may still be handled later, or never.    *)
(***************************************************************************)
EXTENDS FrostAux, SessionState

CONSTANTS
  Transports,   \* session -> the transports its caller passes, one node each
  Threshold,    \* config.quorum.threshold
  Group,        \* the verifiers the FROST group key lists
  Ttl,          \* session time to live, in ticks
  Faults,       \* what may go wrong, see below
  Durable,      \* TRUE: SQLite session store; FALSE: in-memory store
  MaxOpen       \* bound on the sessions opened

FaultKinds == {"timeout", "restart", "crash", "prepare"}

ASSUME SigningAssumption ==
  /\ Transports \in [Session -> Seq(Node)]
  /\ \A s \in Session : /\ Transports[s] \in SignerLists
                        /\ Len(Transports[s]) >= 1
                        /\ 1..Len(Transports[s]) \subseteq Conn
  /\ Threshold \in Nat
  /\ Group \subseteq Verifier
  /\ Ttl \in Nat
  /\ \A t \in 0..MaxTime : t + Ttl \in Expiry
  /\ Faults \subseteq FaultKinds
  /\ Durable \in BOOLEAN
  /\ MaxOpen \in Nat
  /\ Session \subseteq Body

VARIABLES
  pc,         \* session -> where its coordinator thread is
  idx,        \* session -> position in the loop over transports
  expires,    \* session -> expires_at
  r1,         \* session -> the commitments received, by transport
  r2,         \* session -> the shares received
  store,      \* session -> state in the session store
  approvals,  \* <<session, verifier>> approvals in the session store
  requests,   \* the calls whose request no node has taken up
  refused     \* the calls answered with an error

covars == <<pc, idx, expires, r1, r2, store, approvals>>
vars == <<auxvars, covars, requests, refused>>

N(s) == Len(Transports[s])
Calls == {m \in {1, 2} \X Session \X Conn : m[3] \in 1..N(m[2])}
Running == {"activate", "randomness", "engine", "collect", "quorum",
            "round1", "round2", "record", "finalize"}
Returned == {"done", "error", "down"}

CoTypeOK ==
  /\ TypeOK
  /\ pc \in [Session -> {"idle"} \cup Running \cup Returned]
  /\ idx \in [Session -> Nat] /\ \A s \in Session : idx[s] \in 1..N(s)
  /\ expires \in [Session -> Expiry]
  /\ r1 \in [Session -> [Conn -> 0..MaxNonce]]
  /\ r2 \in [Session -> SUBSET Share]
  /\ store \in [Session -> States \cup {Absent}]
  /\ approvals \in SUBSET (Session \X Node)
  /\ requests \in SUBSET Calls
  /\ refused \in SUBSET Calls

Init ==
  /\ AuxInit
  /\ pc = [s \in Session |-> "idle"]
  /\ idx = [s \in Session |-> 1]
  /\ expires = [s \in Session |-> Ttl]
  /\ r1 = [s \in Session |-> [i \in Conn |-> 0]]
  /\ r2 = [s \in Session |-> {}]
  /\ store = [s \in Session |-> Absent]
  /\ approvals = {}
  /\ requests = {}
  /\ refused = {}
-----------------------------------------------------------------------------
\* The envelope digest covers the session id, so the session stands for it.
signed_digest(s) == approval_signed_digest(s)

\* The FrostRound1Request of session s: no registry epoch, no proof fields.
Round1RequestOf(s, i) ==
  [s |-> s, envelope |-> s, digest |-> signed_digest(s),
   signers |-> Transports[s], expires |-> expires[s], epoch |-> GENESIS,
   evidence |-> "none", conn |-> i]

\* build_signing_package: the map keeps the last commitment of a verifier.
LastPosition(s, v) ==
  {i \in 1..N(s) : /\ Transports[s][i] = v
                  /\ \A j \in 1..N(s) : Transports[s][j] = v => j <= i}

LastCommit(s, v) ==
  IF LastPosition(s, v) = {} THEN 0
  ELSE r1[s][CHOOSE i \in LastPosition(s, v) : TRUE]

PackageOf(s) ==
  [commits |-> [v \in Verifier |-> LastCommit(s, v)],
   msg |-> signed_digest(s)]

Round2RequestOf(s, i) ==
  [s |-> s, pkg |-> PackageOf(s), parses |-> TRUE, signers |-> Transports[s],
   conn |-> i]

Goto(s, where) == pc' = [pc EXCEPT ![s] = where]
SetState(s, st) == store' = [store EXCEPT ![s] = st]
-----------------------------------------------------------------------------
\* prepare_session: the session is created under a fresh random id.
prepare_insert(s) ==
  /\ pc[s] = "idle"
  /\ Cardinality({t \in Session : pc[t] # "idle"}) < MaxOpen
  /\ Goto(s, "activate")
  /\ SetState(s, "Pending")
  /\ expires' = [expires EXCEPT ![s] = clock + Ttl]
  /\ UNCHANGED <<auxvars, idx, r1, r2, approvals, requests, refused>>

prepare_activate(s) ==
  /\ pc[s] = "activate"
  /\ Goto(s, "randomness")
  /\ SetState(s, "Active")
  /\ UNCHANGED <<auxvars, idx, expires, r1, r2, approvals, requests, refused>>

\* Mutant: the update to Attesting is forgotten.
prepare_randomness_not_attesting(s) ==
  /\ pc[s] = "randomness"
  /\ Goto(s, "engine")
  /\ UNCHANGED <<auxvars, idx, expires, r1, r2, store, approvals, requests,
                 refused>>

\* randomness_engine.generate; on an error prepare_session returns at once.
prepare_randomness(s) ==
  /\ pc[s] = "randomness"
  /\ \/ Goto(s, "engine") /\ SetState(s, "Attesting")
     \/ "prepare" \in Faults /\ Goto(s, "error") /\ UNCHANGED store
  /\ UNCHANGED <<auxvars, idx, expires, r1, r2, approvals, requests, refused>>

\* attestation_engine.execute, and the package and digests built from it.
prepare_engine(s) ==
  /\ pc[s] = "engine"
  /\ \/ Goto(s, "collect")
     \/ "prepare" \in Faults /\ Goto(s, "error")
  /\ UNCHANGED <<auxvars, idx, expires, r1, r2, store, approvals, requests,
                 refused>>

\* attest_frost_distributed_over_transport: the session is Collecting.
attest_collect(s) ==
  /\ pc[s] = "collect"
  /\ Goto(s, "quorum")
  /\ SetState(s, "Collecting")
  /\ UNCHANGED <<auxvars, idx, expires, r1, r2, approvals, requests, refused>>

\* The quorum check counts transports; then the first Round-1 request.
attest_quorum(s) ==
  /\ pc[s] = "quorum"
  /\ IF N(s) < Threshold
       THEN /\ Goto(s, "error") /\ SetState(s, "Failed")
            /\ UNCHANGED requests
       ELSE /\ Goto(s, "round1") /\ UNCHANGED store
            /\ requests' = requests \cup {<<1, s, 1>>}
  /\ UNCHANGED <<auxvars, idx, expires, r1, r2, approvals, refused>>

\* Mutant: every position gets the commitment that came first.
attest_round1_first_for_all(s) ==
  /\ pc[s] = "round1"
  /\ \E c \in commitments :
       /\ c.k = "frost" /\ c.s = s
       /\ c.conn = idx[s] /\ c.n = Transports[s][idx[s]]
       /\ r1' = IF idx[s] = 1 THEN [r1 EXCEPT ![s] = [i \in Conn |-> c.nonce]]
                              ELSE r1
  /\ IF idx[s] < N(s)
       THEN /\ idx' = [idx EXCEPT ![s] = @ + 1]
            /\ requests' = requests \cup {<<1, s, idx[s] + 1>>}
            /\ UNCHANGED pc
       ELSE /\ idx' = [idx EXCEPT ![s] = 1]
            /\ Goto(s, "round2")
            /\ requests' = requests \cup {<<2, s, 1>>}
  /\ UNCHANGED <<auxvars, expires, r2, store, approvals, refused>>

\* Mutant: the loop counter runs past the last transport.
attest_round1_overrun(s) ==
  /\ pc[s] = "round1"
  /\ \E c \in commitments :
       /\ c.k = "frost" /\ c.s = s
       /\ c.conn = idx[s] /\ c.n = Transports[s][idx[s]]
       /\ r1' = [r1 EXCEPT ![s][idx[s]] = c.nonce]
  /\ idx' = [idx EXCEPT ![s] = @ + 1]
  /\ requests' = requests \cup {<<1, s, idx[s] + 1>>}
  /\ UNCHANGED <<auxvars, pc, expires, r2, store, approvals, refused>>

\* The response to the Round-1 call the thread waits for.  After the last
\* one the signing package is assembled, which fails for a verifier that the
\* group key does not list; then the first Round-2 request goes out.
attest_round1(s) ==
  /\ pc[s] = "round1"
  /\ \E c \in commitments :
       /\ c.k = "frost" /\ c.s = s
       /\ c.conn = idx[s] /\ c.n = Transports[s][idx[s]]
       /\ r1' = [r1 EXCEPT ![s][idx[s]] = c.nonce]
  /\ IF idx[s] < N(s)
       THEN /\ idx' = [idx EXCEPT ![s] = @ + 1]
            /\ requests' = requests \cup {<<1, s, idx[s] + 1>>}
            /\ UNCHANGED pc
       ELSE /\ idx' = [idx EXCEPT ![s] = 1]
            /\ IF Range(Transports[s]) \subseteq Group
                 THEN /\ Goto(s, "round2")
                      /\ requests' = requests \cup {<<2, s, 1>>}
                 ELSE /\ Goto(s, "error")
                      /\ UNCHANGED requests
  /\ UNCHANGED <<auxvars, expires, r2, store, approvals, refused>>

\* frost::aggregate (external) verifies every share of the package.
AggregateAccepts(s, collected) ==
  \A v \in Range(Transports[s]) : \E sh \in collected :
    sh.n = v /\ sh.pkg = PackageOf(s)

\* Mutant: the coordinator goes on when a share of the package is missing.
attest_round2_any_quorum(s) ==
  /\ pc[s] = "round2"
  /\ r2' = [r2 EXCEPT ![s] = {sh \in shares : sh.k = "frost" /\ sh.s = s}]
  /\ r2'[s] # {}
  /\ idx' = [idx EXCEPT ![s] = 1]
  /\ Goto(s, "record")
  /\ UNCHANGED <<auxvars, expires, r1, store, approvals, requests, refused>>

\* The response to the Round-2 call; after the last one the aggregation.
attest_round2(s) ==
  /\ pc[s] = "round2"
  /\ \E sh \in shares :
       /\ sh.k = "frost" /\ sh.s = s
       /\ sh.conn = idx[s] /\ sh.n = Transports[s][idx[s]]
       /\ r2' = [r2 EXCEPT ![s] = @ \cup {sh}]
  /\ IF idx[s] < N(s)
       THEN /\ idx' = [idx EXCEPT ![s] = @ + 1]
            /\ requests' = requests \cup {<<2, s, idx[s] + 1>>}
            /\ UNCHANGED pc
       ELSE /\ idx' = [idx EXCEPT ![s] = 1]
            /\ Goto(s, IF AggregateAccepts(s, r2'[s]) THEN "record"
                                                      ELSE "error")
            /\ UNCHANGED requests
  /\ UNCHANGED <<auxvars, expires, r1, store, approvals, refused>>

\* The call in progress ends with an error: the node refused the request, or
\* the caller gave up on it.  The first error ends the session.
CurrentCall(s) == <<IF pc[s] = "round1" THEN 1 ELSE 2, s, idx[s]>>

\* Mutant: a failed call starts the signing of the same session again.
attest_call_fails_retries(s) ==
  /\ pc[s] \in {"round1", "round2"}
  /\ CurrentCall(s) \in refused \/ "timeout" \in Faults
  /\ Goto(s, "collect")
  /\ idx' = [idx EXCEPT ![s] = 1]
  /\ UNCHANGED <<auxvars, expires, r1, r2, store, approvals, requests, refused>>

attest_call_fails(s) ==
  /\ pc[s] \in {"round1", "round2"}
  /\ CurrentCall(s) \in refused \/ "timeout" \in Faults
  /\ Goto(s, "error")
  /\ SetState(s, "Failed")
  /\ UNCHANGED <<auxvars, idx, expires, r1, r2, approvals, requests, refused>>

\* store.record_approval for the next signer of the list.
attest_record_approval(s) ==
  /\ pc[s] = "record"
  /\ IF <<s, Transports[s][idx[s]]>> \in approvals \/ is_terminal(store[s])
       THEN /\ Goto(s, "error")
            /\ UNCHANGED <<idx, approvals>>
       ELSE /\ approvals' = approvals \cup {<<s, Transports[s][idx[s]]>>}
            /\ IF idx[s] < N(s)
                 THEN idx' = [idx EXCEPT ![s] = @ + 1] /\ UNCHANGED pc
                 ELSE idx' = [idx EXCEPT ![s] = 1] /\ Goto(s, "finalize")
  /\ UNCHANGED <<auxvars, expires, r1, r2, store, requests, refused>>

attest_finalize(s) ==
  /\ pc[s] = "finalize"
  /\ Goto(s, "done")
  /\ SetState(s, "Finalized")
  /\ UNCHANGED <<auxvars, idx, expires, r1, r2, approvals, requests, refused>>

\* The coordinator process stops and starts again.  No session is resumed;
\* requests already sent stay in the network.
Crash ==
  /\ "crash" \in Faults
  /\ pc' = [s \in Session |-> IF pc[s] \in Running THEN "down" ELSE pc[s]]
  /\ IF Durable THEN UNCHANGED <<store, approvals>>
     ELSE /\ store' = [s \in Session |-> Absent]
          /\ approvals' = {}
  /\ UNCHANGED <<auxvars, idx, expires, r1, r2, requests, refused>>
-----------------------------------------------------------------------------
\* A node takes a Round-1 request off its connection.
serve_round1(m) ==
  /\ m \in requests /\ m[1] = 1
  /\ requests' = requests \ {m}
  /\ LET n == Transports[m[2]][m[3]]
         req == Round1RequestOf(m[2], m[3])
     IN  \/ /\ frost_round1_check(n, req)
            /\ UNCHANGED refused
         \/ /\ ~ FrostAdmits(n, req)
            /\ refused' = refused \cup {m}
            /\ UNCHANGED auxvars
  /\ UNCHANGED covars

\* The handler of a Round-1 request reaches the cache and answers.
serve_cache(w) ==
  /\ frost_round1_cache(w)
  /\ refused' = IF w \in commitments' THEN refused
                ELSE refused \cup {<<1, w.s, w.conn>>}
  /\ UNCHANGED <<covars, requests>>

\* A node takes a Round-2 request off its connection and answers.
serve_round2(m) ==
  /\ m \in requests /\ m[1] = 2
  /\ requests' = requests \ {m}
  /\ LET n == Transports[m[2]][m[3]]
     IN  \/ /\ frost_round2(n, Round2RequestOf(m[2], m[3]))
            /\ refused' = IF shares' = shares THEN refused \cup {m} ELSE refused
         \/ /\ Cached("frost", n, m[2]) = {}
            /\ refused' = refused \cup {m}
            /\ UNCHANGED auxvars
  /\ UNCHANGED covars

NodeRestart(n) ==
  /\ "restart" \in Faults
  /\ Restart(n)
  /\ UNCHANGED <<covars, requests, refused>>

Clock == Tick /\ UNCHANGED <<covars, requests, refused>>

Prepare(s) == \/ prepare_insert(s) \/ prepare_activate(s)
              \/ prepare_randomness(s) \/ prepare_engine(s)

Attest(s) == \/ attest_collect(s) \/ attest_quorum(s)
             \/ attest_round1(s) \/ attest_round2(s) \/ attest_call_fails(s)
             \/ attest_record_approval(s) \/ attest_finalize(s)

Serve == \/ \E m \in requests : serve_round1(m) \/ serve_round2(m)
         \/ \E w \in work : serve_cache(w)

Next ==
  \/ \E s \in Session : Prepare(s) \/ Attest(s)
  \/ Crash
  \/ Serve
  \/ \E n \in Node : NodeRestart(n)
  \/ Clock

Spec == Init /\ [][Next]_vars

\* A coordinator thread keeps running, and its socket timeouts end every
\* call; the nodes keep serving the requests and handlers they have.
Fairness ==
  /\ \A s \in Session : WF_vars((pc[s] # "idle" /\ Prepare(s)) \/ Attest(s))
  /\ WF_vars(Serve)
-----------------------------------------------------------------------------
\* An envelope is returned only for a session that the node of every transport
\* signed, over this session's digest, in the one package the coordinator
\* assembled.  The nodes are at least Threshold many, a node that occurs twice
\* among the transports counted once, although the quorum check counts
\* transports; and they are the approvals on record, none more and none less,
\* as long as the store has not lost the session.
EnvelopeIsQuorumSigned ==
  \A s \in Session : pc[s] = "done" =>
    /\ \A v \in Range(Transports[s]) : \E sh \in shares :
         /\ sh.k = "frost" /\ sh.n = v /\ sh.s = s
         /\ sh.pkg = PackageOf(s)
    /\ Cardinality(Range(Transports[s])) >= Threshold
    /\ store[s] # Absent =>
         {v \in Node : <<s, v>> \in approvals} = Range(Transports[s])

\* The composition keeps the promise frost_round1 makes and the node alone
\* does not: no node signs two nonce sets for one session, because session
\* ids are fresh and every call is made once.  (OneNonceSetSigned)

\* A share exists only in a package whose every commitment is a Round-1
\* response of that signer for the same session and digest: nobody releases
\* a share before all signers have committed.
PackageIsGenuine ==
  \A sh \in shares : \A v \in Range(Transports[sh.s]) :
    \E c \in commitments :
      /\ c.k = sh.k /\ c.s = sh.s /\ c.n = v
      /\ c.nonce = sh.pkg.commits[v]
      /\ c.digest = sh.pkg.msg

\* After an envelope no node holds nonces for the session ("zero after a
\* successful round-2 confirms that nonces were consumed").
NoncesConsumed ==
  \A s \in Session : pc[s] = "done" =>
    /\ ~ \E e \in pending : e.k = "frost" /\ e.s = s
    /\ ~ \E w \in work : w.k = "frost" /\ w.s = s

\* An approval is on record only for a node that released its share.
ApprovalsAreEarned ==
  \A a \in approvals : \E sh \in shares :
    sh.k = "frost" /\ sh.s = a[1] /\ sh.n = a[2]

\* The store follows the lifecycle graph: each step of a session's stored
\* state is an edge can_transition_to allows, or the session's insertion,
\* or the loss of an in-memory store, for every interleaving of sessions.
LifecycleFollowed ==
  [][\A s \in Session : store'[s] # store[s] =>
       \/ store[s] = Absent /\ store'[s] = "Pending"
       \/ can_transition_to(store[s], store'[s])
       \/ ~ Durable /\ store'[s] = Absent]_vars

\* The composed system implements ThresholdSigning: a share is an approval,
\* the thread that returns an envelope delivers it, and a thread that fails
\* or is lost gives its session up.
Abstract == INSTANCE ThresholdSigning WITH
  Signers <- [s \in Session |-> Range(Transports[s])],
  approved <- {<<sh.s, sh.n, sh.nonce>> : sh \in shares},
  outcome <- [s \in Session |->
                IF pc[s] = "done" THEN "envelope"
                ELSE IF pc[s] \in {"error", "down"} THEN "closed"
                ELSE "open"]

\* At most one share per node and session, no envelope before all signers
\* have signed, no share after it and no envelope after an error, whatever
\* is lost, late, restarted or crashed.
ImplementsThresholdSigning == Abstract!Spec

\* A node failure is "a per-node failure" and the coordinator "may continue
\* with other nodes if the quorum threshold is still reachable": a session
\* fails only when the other nodes are too few.
NodeFailureTolerated ==
  \A s \in Session : store[s] = "Failed" => N(s) - 1 < Threshold
=============================================================================
