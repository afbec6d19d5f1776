--------------------------- MODULE DctlsVerifier ---------------------------
(***************************************************************************)
(* The on-chain Groth16 verifier (contracts/src/DctlsVerifier.sol) with    *)
(* the verifying keys that crates/zk/src/vk_export.rs writes for it.       *)
(* Points are discrete logarithms, as in Groth16: the precompiles at 0x06  *)
(* and 0x07 add and multiply, the one at 0x08 compares a sum of products   *)
(* with zero.  An all-zero verifying key, the storage before registration, *)
(* is the point at infinity everywhere.                                    *)
(***************************************************************************)
EXTENDS Groth16, SequencesExt

CONSTANTS
  DvKeys,     \* circuit -> the verifying keys of its set-ups
  DvProofs,   \* the proofs submitted
  DvInputs,   \* the field elements passed as public inputs
  DvSenders   \* the accounts; "owner" deployed the contract

Circuits == {"hsp_mode1", "hsp_mode2", "session_binding"}

VARIABLES
  dvVk,      \* circuit -> the registered key
  dvCall     \* the last verification: circuit, inputs, proof, key, result

dvvars == <<dvVk, dvCall>>

NoCall == [none |-> TRUE]
Arity(circuit) == CASE circuit = "hsp_mode1" -> 2 [] circuit = "hsp_mode2" -> 3
                    [] circuit = "session_binding" -> 4

---------------------------------------------------------------------------
(* vk_export.rs: only alpha is negated.                                    *)

g1_neg(p) == Fld(-p)

export_vk(vk) ==
  [alpha_neg |-> g1_neg(vk.alpha), beta |-> vk.beta, gamma |-> vk.gamma,
   delta |-> vk.delta, ic |-> vk.gamma_abc]

---------------------------------------------------------------------------

g1Add(a, b) == Fld(a + b)
g1ScalarMul(p, s) == Fld(p * s)

\* The four pairs handed to the pairing precompile, in the order they are
\* packed.
PairingInput(proof, acc, vk) ==
  << <<proof.a, proof.b>>, <<vk.alpha_neg, vk.beta>>, <<acc, vk.gamma>>,
     <<proof.c, vk.delta>> >>

pairing(pairs) == SumOf(DOMAIN pairs, LAMBDA i : pairs[i][1] * pairs[i][2]) = 0

groth16Verify(proof, inputs, vk) ==
  LET acc == FoldLeft(LAMBDA a, i : g1Add(a, g1ScalarMul(vk.ic[i], inputs[i])),
                      vk.ic[0], [i \in DOMAIN inputs |-> i])
  IN /\ Len(inputs) + 1 = Cardinality(DOMAIN vk.ic)
     /\ pairing(PairingInput(proof, acc, vk))

ZeroVk(circuit) ==
  [alpha_neg |-> 0, beta |-> 0, gamma |-> 0, delta |-> 0,
   ic |-> [i \in 0..Arity(circuit) |-> 0]]

DvInit ==
  /\ dvVk = [c \in Circuits |-> ZeroVk(c)]
  /\ dvCall = NoCall

Register(circuit, sender, vk) ==
  /\ sender = "owner"
  /\ dvVk' = [dvVk EXCEPT ![circuit] = export_vk(vk)]
  /\ dvCall' = NoCall

setHspMode1VK(sender, vk) == Register("hsp_mode1", sender, vk)
setHspMode2VK(sender, vk) == Register("hsp_mode2", sender, vk)
setSessionBindingVK(sender, vk) == Register("session_binding", sender, vk)

Verify(circuit, proof, inputs) ==
  /\ dvCall' = [circuit |-> circuit, proof |-> proof, inputs |-> inputs,
                valid |-> groth16Verify(proof, inputs, dvVk[circuit])]
  /\ UNCHANGED dvVk

verifyHspMode1(proof, k, r) == Verify("hsp_mode1", proof, <<k, r>>)
verifyHspMode2(proof, k, r, pms) == Verify("hsp_mode2", proof, <<k, r, pms>>)
verifySessionBinding(proof, k, r, q, s) ==
  Verify("session_binding", proof, <<k, r, q, s>>)

\* Reverts unless both proofs verify, over one commitment and one rand.
verifyFullAttestation(hsp, session, k, r, pms, q, s) ==
  /\ groth16Verify(hsp, <<k, r, pms>>, dvVk["hsp_mode2"])
  /\ groth16Verify(session, <<k, r, q, s>>, dvVk["session_binding"])
  /\ dvCall' = [circuit |-> "session_binding", proof |-> session,
                inputs |-> <<k, r, q, s>>, valid |-> TRUE]
  /\ UNCHANGED dvVk

DvNext ==
  \/ \E s \in DvSenders :
       \/ \E vk \in DvKeys["hsp_mode1"] : setHspMode1VK(s, vk)
       \/ \E vk \in DvKeys["hsp_mode2"] : setHspMode2VK(s, vk)
       \/ \E vk \in DvKeys["session_binding"] : setSessionBindingVK(s, vk)
  \/ \E p \in DvProofs, k, r \in DvInputs :
       \/ verifyHspMode1(p, k, r)
       \/ \E m \in DvInputs : verifyHspMode2(p, k, r, m)
       \/ \E q, t \in DvInputs :
            \/ verifySessionBinding(p, k, r, q, t)
            \/ \E h \in DvProofs, m \in DvInputs :
                 verifyFullAttestation(h, p, k, r, m, q, t)

DvSpec == DvInit /\ [][DvNext]_dvvars

---------------------------------------------------------------------------

\* A verification under a registered key returns true for every proof that is
\* valid for the key it was exported from, in the sense of the library that
\* made the proof ("@return valid true iff the proof is valid",
\* verifyHspMode1).
ValidProofIsAccepted ==
  dvCall # NoCall =>
    \A vk \in DvKeys[dvCall.circuit] :
      /\ dvVk[dvCall.circuit] = export_vk(vk)
      /\ verify_proof(vk, dvCall.inputs, dvCall.proof)
      => dvCall.valid
=============================================================================
