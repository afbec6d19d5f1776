---------------------------- MODULE LocalAttest ----------------------------
(***************************************************************************)
(* The coordinator's in-process paths, CoordinatorNode::attest and         *)
(* attest_frost of node/src/coordinator.rs, over a SQLite session store:   *)
(* several requests run at the same time, every `?` returns with the       *)
(* session in the state the store has then, and the process can stop       *)
(* between any two writes to the store.                                    *)
(***************************************************************************)
EXTENDS Randomness, Verification, ParticipantRegistry, SessionState

CONSTANTS
  LVids,        \* the verifiers of the quorum
  LThreshold,   \* its threshold
  DefaultTtl,   \* default_ttl_secs, in ticks of the clock
  LReq,         \* request ids
  LRequests,    \* what may be asked for, and what goes wrong
  LRegistries   \* the participant registries a coordinator is started with

VARIABLES
  lconfig,   \* the CoordinatorConfig
  lreq,      \* request id -> the request
  lcall,     \* request id -> the call: where it is and what it has so far
  lstore,    \* request id -> the state of its session, Absent if none
  lapproved  \* the <<request id, verifier>> rows of the approvals table

lvars == <<lconfig, lreq, lcall, lstore, lapproved>>

LQuorum == QuorumSpec_new(LVids, LThreshold)
LDealer == frost_trusted_dealer_keygen(LVids, LThreshold, "local")
LClock == 1

\* One quorum serves both paths, so its threshold suits the dealer; no verifier
\* is listed twice.  A session may be as long as the verifiers' policy admits
\* (both are 3600 seconds in the code).  attest_frost is handed shares that the
\* dealer made.
ASSUME LAssumption ==
  /\ LVids \in Seq(Range(LVids))
  /\ \A i, j \in DOMAIN LVids : LVids[i] = LVids[j] => i = j
  /\ LThreshold \in 2..Len(LVids)
  /\ DefaultTtl \in Nat /\ MaxSessionDuration \in Nat \ {0}
  /\ DefaultTtl <= MaxSessionDuration
  /\ \A r \in LRequests :
       /\ r.path \in {"threshold", "frost"} /\ r.ttl \in Nat
       /\ r.signers \in Seq(Range(r.signers))
       /\ r.path = "frost" => Range(r.signers) \subseteq Range(LVids)

active_verifier_keys(reg) == DOMAIN to_dkg_registry(reg)

from_registry(reg) ==
  [coordinator_id |-> "coordinator", epoch |-> reg.epoch, quorum |-> LQuorum,
   default_ttl |-> DefaultTtl, verifier_public_keys |-> active_verifier_keys(reg)]

LInit ==
  /\ lconfig \in {from_registry(reg) : reg \in LRegistries}
  /\ lreq \in [LReq -> LRequests]
  /\ lcall = [q \in LReq |-> [pc |-> "start"]]
  /\ lstore = [q \in LReq |-> Absent]
  /\ lapproved = {}

---------------------------------------------------------------------------
(* prepare_session.  A session is named after its request.                 *)

PrepareOpen(q) ==
  LET r == lreq[q]
      ttl == IF r.ttl < lconfig.default_ttl THEN r.ttl ELSE lconfig.default_ttl
  IN /\ lcall[q].pc = "start"
     /\ lstore' = [lstore EXCEPT ![q] = "Pending"]
     /\ lcall' = [lcall EXCEPT ![q] =
          [pc |-> "activate",
           ctx |-> SessionContext_new(q, "prover", lconfig.coordinator_id,
                     lconfig.quorum, lconfig.epoch, LClock, LClock + ttl,
                     <<"nonce", q>>)]]
     /\ UNCHANGED <<lconfig, lreq, lapproved>>

\* The session becomes Active; randomness_engine.generate can fail.
PrepareRandomness(q) ==
  LET r == lreq[q]
      out == IF r.dvrf = "prototype"
             THEN prototype_generate(r.secrets, q, <<"nonce", q>>, LVids)
             ELSE LET dkg == run_secp256k1_dkg(LVids, LThreshold, "local")
                  IN dvrf_engine_generate(
                       [i \in DOMAIN LVids |-> dkg[i].participant],
                       dkg[1].group_key, LThreshold, q, <<"nonce", q>>, LVids)
  IN /\ lcall[q].pc = "activate"
     /\ lstore' = [lstore EXCEPT ![q] = "Active"]
     /\ lcall' = [lcall EXCEPT ![q] =
          IF out = Err THEN [pc |-> "error"]
          ELSE [pc |-> "execute", ctx |-> @.ctx, rand |-> out]]
     /\ UNCHANGED <<lconfig, lreq, lapproved>>

\* The parts an envelope is made of.
PreparedSession(q, ctx, out, tc, evidence) ==
  LET package == AttestationPackage_build(ctx, out.value, tc, evidence)
      st == StatementPayload_new(lreq[q].response, "balance/v1",
                                 tc.session_transcript_digest)
      binding == RandomnessBinding(<<"random-id", q>>, out.value, lconfig.epoch,
                                   out.session_binding)
      ce == CoordinatorEvidence(evidence, package)
      digest == envelope_digest_of(ctx, binding, tc, st, ce)
  IN [ctx |-> ctx, binding |-> binding, tc |-> tc, st |-> st, ce |-> ce,
      package |-> package, envelope_digest |-> digest,
      signed_digest |-> approval_digest(digest)]

\* The session becomes Attesting; attestation_engine.execute can fail.
PrepareExecute(q) ==
  LET r == lreq[q]
      c == lcall[q]
      run == IF r.conn = Err
             THEN PrototypeDctlsEngine_execute(c.ctx, c.rand.value, "query",
                                               r.response)
             ELSE TlsAttestationEngine_execute("host", r.conn, LClock, c.ctx,
                                               c.rand.value, "query")
  IN /\ c.pc = "execute"
     /\ lstore' = [lstore EXCEPT ![q] = "Attesting"]
     /\ lcall' = [lcall EXCEPT ![q] =
          IF run = Err THEN [pc |-> "error"]
          ELSE [pc |-> "collect",
                prep |-> PreparedSession(q, c.ctx, c.rand, run.tc, run.evidence)]]
     /\ UNCHANGED <<lconfig, lreq, lapproved>>

---------------------------------------------------------------------------
(* The two ways to collect approvals.                                      *)

Collect(q) ==
  /\ lcall[q].pc = "collect"
  /\ lstore' = [lstore EXCEPT ![q] = "Collecting"]
  /\ lcall' = [lcall EXCEPT ![q] =
       [pc |-> lreq[q].path, prep |-> @.prep, next |-> 1, partials |-> <<>>]]
  /\ UNCHANGED <<lconfig, lreq, lapproved>>

\* One round of the loop of attest.  A signer that fails is passed over.
ApproveNext(q) ==
  LET c == lcall[q]
      v == lreq[q].signers[c.next]
      skip == <<q, v>> \in lapproved \/ v \in lreq[q].down
  IN /\ c.pc = "threshold" /\ c.next <= Len(lreq[q].signers)
     /\ lapproved' = IF skip THEN lapproved ELSE lapproved \cup {<<q, v>>}
     /\ lcall' = [lcall EXCEPT
          ![q].next = @ + 1,
          ![q].partials = IF skip THEN @
                          ELSE Append(@, sign_partial(v, c.prep.signed_digest))]
     /\ UNCHANGED <<lconfig, lreq, lstore>>

\* The end of attest: an error of aggregate_signatures returns at once.
Aggregate(q) ==
  LET c == lcall[q]
      p == c.prep
      approval == aggregate_signatures(c.partials, lconfig.quorum,
                    p.envelope_digest, lconfig.verifier_public_keys)
  IN /\ c.pc = "threshold" /\ c.next > Len(lreq[q].signers)
     /\ IF approval = Err
        THEN /\ lcall' = [lcall EXCEPT ![q] = [pc |-> "error"]]
             /\ UNCHANGED lstore
        ELSE /\ lcall' = [lcall EXCEPT ![q] =
                  [pc |-> "ok", prep |-> p,
                   envelope |-> AttestationEnvelope_assemble(p.ctx, p.binding,
                                  p.tc, p.st, p.ce, approval)]]
             /\ lstore' = [lstore EXCEPT ![q] = "Finalized"]
     /\ UNCHANGED <<lconfig, lreq, lapproved>>

FrostAttestationEnvelope(p, approval) ==
  AttestationEnvelope_assemble(p.ctx, p.binding, p.tc, p.st, p.ce, approval)

\* attest_frost after the session is Collecting.
CollectFrost(q) ==
  LET c == lcall[q]
      signers == lreq[q].signers
      share(v) == LDealer.participants[CHOOSE i \in DOMAIN LVids : LVids[i] = v]
      approval == frost_collect_approval(
                    [i \in DOMAIN signers |-> share(signers[i])],
                    c.prep.signed_digest, LDealer.group_key,
                    lconfig.quorum.threshold,
                    [i \in DOMAIN signers |-> <<"os", q, i>>])
  IN /\ c.pc = "frost"
     /\ \/ /\ Len(signers) < lconfig.quorum.threshold
           /\ lstore' = [lstore EXCEPT ![q] = "Failed"]
           /\ lcall' = [lcall EXCEPT ![q] = [pc |-> "error"]]
           /\ UNCHANGED lapproved
        \/ /\ Len(signers) >= lconfig.quorum.threshold /\ approval = Err
           /\ lcall' = [lcall EXCEPT ![q] = [pc |-> "error"]]
           /\ UNCHANGED <<lstore, lapproved>>
        \/ /\ Len(signers) >= lconfig.quorum.threshold /\ approval # Err
           /\ lcall' = [lcall EXCEPT ![q] =
                [pc |-> "record", prep |-> c.prep, next |-> 1,
                 envelope |-> FrostAttestationEnvelope(c.prep, approval)]]
           /\ UNCHANGED <<lstore, lapproved>>
     /\ UNCHANGED <<lconfig, lreq>>

\* attest_frost records every signer, then finalizes.
RecordNext(q) ==
  LET c == lcall[q]
      signers == lreq[q].signers
  IN /\ c.pc = "record"
     /\ IF c.next <= Len(signers)
        THEN /\ lapproved' = lapproved \cup {<<q, signers[c.next]>>}
             /\ lcall' = [lcall EXCEPT ![q].next = @ + 1]
             /\ UNCHANGED lstore
        ELSE /\ lstore' = [lstore EXCEPT ![q] = "Finalized"]
             /\ lcall' = [lcall EXCEPT ![q] = [pc |-> "ok", prep |-> c.prep,
                                              envelope |-> c.envelope]]
             /\ UNCHANGED lapproved
     /\ UNCHANGED <<lconfig, lreq>>

\* The process stops, perhaps before an envelope reaches the caller: the
\* calls are gone, the database stays.
LCrash ==
  /\ \E q \in LReq : lcall[q].pc \notin {"start", "error", "crashed"}
  /\ lcall' = [q \in LReq |-> IF lcall[q].pc \in {"start", "error"}
                              THEN lcall[q] ELSE [pc |-> "crashed"]]
  /\ UNCHANGED <<lconfig, lreq, lstore, lapproved>>

LNext ==
  \/ \E q \in LReq :
       \/ PrepareOpen(q) \/ PrepareRandomness(q) \/ PrepareExecute(q)
       \/ Collect(q) \/ ApproveNext(q) \/ Aggregate(q)
       \/ CollectFrost(q) \/ RecordNext(q)
  \/ LCrash

LSpec == LInit /\ [][LNext]_lvars

---------------------------------------------------------------------------

\* The database alone tells: wherever the process stopped, a session is
\* Finalized only with approvals of a quorum whose keys the coordinator has,
\* and while the process runs it is Finalized exactly if the request returned
\* an envelope.  That envelope's digest verifies, so does the approval of it,
\* every signer it names is recorded, and a verifier that runs its own checks
\* on the same package signs the same digest (attest, attest_frost).
FinalizedMeansApproved ==
  \A q \in LReq :
    LET c == lcall[q]
        keys == lconfig.verifier_public_keys
        threshold == lreq[q].path = "threshold"
        Recorded(S) == {v \in S : <<q, v>> \in lapproved}
    IN /\ lstore[q] = "Finalized" =>
            is_satisfied_by(lconfig.quorum,
                            Recorded(IF threshold THEN keys ELSE Range(LVids)))
       /\ c.pc # "crashed" => (c.pc = "ok") = (lstore[q] = "Finalized")
       /\ c.pc = "ok" =>
            LET e == c.envelope
                a == e.approval
                by == Range(IF threshold THEN a.signers ELSE lreq[q].signers)
            IN /\ AttestationEnvelope_verify_digest(e)
               /\ Recorded(by) = by
               /\ IF threshold
                  THEN /\ verify_threshold_approval(a, e.envelope_digest, keys)
                       /\ {verify_and_sign(v, permissive, c.prep.package,
                             c.prep.st, e.envelope_digest, LClock) : v \in by}
                          = Range(a.signatures)
                  ELSE /\ verify_signature(a)
                       /\ verify_binding(a, approval_digest(e.envelope_digest))
=============================================================================
