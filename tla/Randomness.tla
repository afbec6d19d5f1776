----------------------------- MODULE Randomness -----------------------------
(***************************************************************************)
(* The RandomnessEngine implementations of crypto/src/randomness.rs: the   *)
(* prototype, which XORs one contribution per verifier, and the engine     *)
(* over the secp256k1 DVRF.                                                *)
(***************************************************************************)
EXTENDS Dvrf

\* A binding that forgets the nonce.
BindingOfName(s, nonce) == <<"session-binding/v1", s>>

session_binding(s, nonce) == <<"session-binding/v1", s, nonce>>

compute_contribution(s, nonce, vid, secret) ==
  <<"dvrf-contribution/v1", s, nonce, vid, secret>>

\* XOR over the partials: a contribution that occurs twice cancels.
prototype_combine(partials) ==
  <<"dvrf-combine/v1",
    {c \in {partials[i].contribution : i \in DOMAIN partials} :
       Cardinality({i \in DOMAIN partials :
                      partials[i].contribution = c}) % 2 = 1}>>

RandomnessOutput(s, nonce, value, partials, kind) ==
  [session_id |-> s, value |-> value, partials |-> partials, kind |-> kind,
   session_binding |-> session_binding(s, nonce)]

\* secrets: the verifiers whose secret the engine holds.
prototype_generate(secrets, s, nonce, participants) ==
  LET partials == [i \in DOMAIN participants |->
                     [verifier_id |-> participants[i],
                      contribution |-> compute_contribution(
                        s, nonce, participants[i], participants[i])]]
  IN IF participants = <<>> \/ ~(Range(participants) \subseteq secrets) THEN Err
     ELSE RandomnessOutput(s, nonce, prototype_combine(partials), partials,
                           "prototype")

prototype_verify(secrets, out, nonce) ==
  /\ out.session_binding = session_binding(out.session_id, nonce)
  /\ \A i \in DOMAIN out.partials :
       LET p == out.partials[i]
       IN /\ p.verifier_id \in secrets
          /\ p.contribution = compute_contribution(
               out.session_id, nonce, p.verifier_id, p.verifier_id)
  /\ out.value = prototype_combine(out.partials)

derive_alpha(s, nonce) == <<"secp256k1-dvrf/alpha/v1", s, nonce>>

\* The engine's own order of participants decides which ones take part.
dvrf_engine_generate(shares, gk, threshold, s, nonce, participants) ==
  LET listed == SelectSeq(shares,
                          LAMBDA p : p.verifier_id \in Range(participants))
      selected == SubSeq(listed, 1, threshold)
      alpha == derive_alpha(s, nonce)
      out == combine(gk, alpha,
                     [i \in DOMAIN selected |-> partial_eval(selected[i], alpha)],
                     selected)
  IN IF Len(listed) < threshold \/ out = Err THEN Err
     ELSE RandomnessOutput(s, nonce, out.rand, <<>>, "secp256k1")

dvrf_engine_verify(out, nonce) ==
  out.session_binding = session_binding(out.session_id, nonce)
=============================================================================
