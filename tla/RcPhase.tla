------------------------------ MODULE RcPhase ------------------------------
(***************************************************************************)
(* The randomness of a session: the RC orchestrator                        *)
(* (attestation/src/rc_phase.rs) collects partial evaluations in the order *)
(* they arrive, retransmissions included, and combines them; a coordinator *)
(* uses a RandomnessEngine (crypto/src/randomness.rs) instead.  Outputs    *)
(* are kept, and verified later against the nonce of any session.          *)
(***************************************************************************)
EXTENDS Randomness

CONSTANTS
  RcVids,      \* the verifier list, in the order of the DKG
  RcThreshold,
  RcSessions,  \* session identifiers; the nonce of session s is <<"nonce", s>>
  MaxEvals     \* bound on the evaluations kept for one session

VARIABLES
  rcEvals,   \* session -> the partial evaluations collected
  rcOut,   \* what the last Combine returned, and whose evaluations it had
  rcRand     \* the RandomnessOutput generated last

rcvars == <<rcEvals, rcOut, rcRand>>

RcNonce(s) == <<"nonce", s>>

---------------------------------------------------------------------------
(* rc_phase.rs.                                                            *)

\* RcPhaseOrchestrator::run_dkg, in process, before the first session.
orchestrator == run_secp256k1_dkg(RcVids, RcThreshold, "rc")

rc_group_key == orchestrator[1].group_key

from_session(s) == <<"rc-phase/alpha/v1", s, RcNonce(s)>>

rc_partial_eval(i, alpha) ==
  [verifier_id |-> RcVids[i],
   inner |-> partial_eval(orchestrator[i].participant, alpha)]

\* Participants in the order of the DKG, whatever the order of arrival.
ParticipantsInDkgOrder(es) ==
  LET known == Ascending({i \in DOMAIN RcVids :
                           \E k \in DOMAIN es : es[k].verifier_id = RcVids[i]})
  IN [k \in DOMAIN known |-> orchestrator[known[k]].participant]

\* Evaluations of verifiers the orchestrator does not know have no
\* participant; the others are looked up in the order of the evaluations.
participant_refs(es) ==
  LET known == Filtered(es, {k \in DOMAIN es :
                               es[k].verifier_id \in Range(RcVids)})
      index(v) == CHOOSE i \in DOMAIN RcVids :
                    RcVids[i] = v /\ \A j \in 1..(i - 1) : RcVids[j] # v
  IN [k \in DOMAIN known |->
        orchestrator[index(known[k].verifier_id)].participant]

rc_combine(alpha, es) ==
  LET out == combine(rc_group_key, alpha,
                     [k \in DOMAIN es |-> es[k].inner], participant_refs(es))
  IN IF Len(es) < RcThreshold \/ out = Err THEN Err
     ELSE [rand |-> out.rand, dvrf_output |-> out, alpha |-> alpha]

run_rc_phase(alpha) ==
  rc_combine(alpha, [i \in 1..RcThreshold |-> rc_partial_eval(i, alpha)])

rc_phase_verify(out) == Secp256k1Dvrf_verify(out.alpha, out.dvrf_output)

\* What the steps of rc_combine return for the answers of the verifiers at D.
RcResults(s, D) ==
  LET alpha == from_session(s)
      nonces(i) == secp256k1_dvrf_nonce_seed(orchestrator[i].participant, alpha)
      pkg == SigningPackage([i \in D |-> Commit(nonces(i))], alpha)
      key == rc_group_key.pub.key
      share(i) == [pkg |-> pkg, key |-> key, id |-> i]
      sig == [key |-> key, pkg |-> pkg]
      approval == [signature |-> sig, group_key |-> key]
      out == [rand |-> derive_rand(sig), proof |-> approval]
  IN [shares |-> {share(i) : i \in D},
      replies |-> {[identifier |-> i, inner |-> share(i)] : i \in D},
      sig |-> sig, approval |-> approval, dvrf |-> out,
      out |-> [rand |-> out.rand, dvrf_output |-> out, alpha |-> alpha]]

\* The verifiers are different ones, run_dkg has succeeded, and an error is
\* not the same value as a result.
ASSUME RcAssumption ==
  /\ RcVids \in Seq(Range(RcVids)) /\ RcVids # <<>>
  /\ \A i, j \in DOMAIN RcVids : RcVids[i] = RcVids[j] => i = j
  /\ RcThreshold \in Nat /\ orchestrator # Err
  /\ \A s \in RcSessions, D \in SUBSET DOMAIN RcVids :
       LET r == RcResults(s, D)
       IN Err \notin r.shares \cup r.replies \cup {r.sig, r.approval, r.dvrf, r.out}

---------------------------------------------------------------------------

RcInit ==
  /\ rcEvals = [s \in RcSessions |-> <<>>]
  /\ rcOut = Err
  /\ rcRand = Err

\* A verifier answers, or answers again after a lost acknowledgement.
PartialEval(s, i) ==
  /\ Cardinality({x \in RcSessions \X (1..MaxEvals) :
                    x[2] <= Len(rcEvals[x[1]])}) < MaxEvals
  /\ rcEvals' = [rcEvals EXCEPT
                 ![s] = Append(@, rc_partial_eval(i, from_session(s)))]
  /\ UNCHANGED <<rcOut, rcRand>>

\* The evaluations, with their nonces, are consumed.
Combine(s) ==
  /\ rcOut' = [s |-> s, from |-> {rcEvals[s][k].verifier_id : k \in DOMAIN rcEvals[s]},
               out |-> rc_combine(from_session(s), rcEvals[s])]
  /\ rcEvals' = [rcEvals EXCEPT ![s] = <<>>]
  /\ UNCHANGED rcRand

RunRcPhase(s) ==
  /\ rcOut' = [s |-> s, from |-> {RcVids[i] : i \in 1..RcThreshold},
               out |-> run_rc_phase(from_session(s))]
  /\ UNCHANGED <<rcEvals, rcRand>>

\* The engine of a coordinator, its keys from a dealer by way of key files.
RcDealer == secp256k1_trusted_dealer_keygen(RcVids, RcThreshold, "dealer")
RcShares ==
  [i \in DOMAIN RcVids |->
     secp256k1_participant_from_json(
       secp256k1_participant_to_json(RcDealer.participants[i]))]
RcEngineKey ==
  secp256k1_group_key_from_json(secp256k1_group_key_to_json(RcDealer.group_key))

Generate(s, participants) ==
  /\ rcRand' \in
       {prototype_generate(Range(RcVids), s, RcNonce(s), participants),
        dvrf_engine_generate(RcShares, RcEngineKey, RcThreshold, s,
                             RcNonce(s), participants)}
  /\ UNCHANGED <<rcEvals, rcOut>>

RcNext ==
  \/ \E s \in RcSessions :
       \/ \E i \in DOMAIN RcVids : PartialEval(s, i)
       \/ Combine(s) \/ RunRcPhase(s)
  \/ LET reversed == [i \in DOMAIN RcVids |-> RcVids[Len(RcVids) + 1 - i]]
     IN \E s \in RcSessions, ps \in {RcVids, reversed, Tail(RcVids)} :
          Generate(s, ps)

RcSpec == RcInit /\ [][RcNext]_rcvars

---------------------------------------------------------------------------

\* Combine depends on who answered, never on the order of arrival or on
\* retransmitted answers: it succeeds exactly when a threshold of different
\* verifiers answered, and then returns what these verifiers' answers give in
\* the order of the DKG, which verifies (rc_phase.rs combine, whose shares are
\* paired with the participants by position).
CombineIgnoresArrival ==
  rcOut # Err =>
    LET alpha == from_session(rcOut.s)
        InOrder == Ascending({i \in DOMAIN RcVids : RcVids[i] \in rcOut.from})
    IN IF Cardinality(rcOut.from) < RcThreshold THEN rcOut.out = Err
       ELSE /\ rcOut.out # Err
            /\ rc_phase_verify(rcOut.out)
            /\ rcOut.out = rc_combine(alpha, [k \in DOMAIN InOrder |->
                                              rc_partial_eval(InOrder[k], alpha)])

\* A randomness output is accepted for the session it was generated for and
\* for no other session's nonce, by either engine's verify.
RandomnessIsForItsSession ==
  rcRand # Err =>
    \A s \in RcSessions :
      (IF rcRand.kind = "prototype"
       THEN prototype_verify(Range(RcVids), rcRand, RcNonce(s))
       ELSE dvrf_engine_verify(rcRand, RcNonce(s))) <=> rcRand.session_id = s
=============================================================================
