-------------------------- MODULE MCDctlsVerifier --------------------------
(***************************************************************************)
(* One set-up per circuit and every proof with elements among a few.       *)
(***************************************************************************)
EXTENDS DctlsVerifier

Vk(n) == [alpha |-> 3, beta |-> 5, gamma |-> 7, delta |-> 11,
          gamma_abc |-> [i \in 0..n |-> 2 * i + 1]]
MCDvKeys == [c \in Circuits |-> {Vk(Arity(c))}]
MCDvProofs == [a : 1..3, b : 1..3, c : 1..8]
=============================================================================
