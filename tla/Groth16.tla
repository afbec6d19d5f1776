------------------------------ MODULE Groth16 ------------------------------
(***************************************************************************)
(* The Groth16 prover of crates/co-snark-prover (circuit.rs, mpc_groth/)   *)
(* computed in a small field.  A group element is its discrete logarithm,  *)
(* so a scalar multiplication is a product and a pairing product a sum of  *)
(* products.  The field has the evaluation domain that TlsKeyCircuit needs *)
(* (one constraint and three instance variables) and a coset of it.        *)
(* Parameter generation, the verifier and the FFTs are those of the ark    *)
(* libraries.                                                              *)
(***************************************************************************)
EXTENDS Integers, Sequences, FiniteSetsExt

Q == 17            \* the scalar field
Omega == 4         \* generator of the evaluation domain
Shift == 3         \* multiplicative generator, the offset of the coset
Size == 4          \* the domain: constraints + instance variables
Row == 0..(Size - 1)

Fld(x) == x % Q
SumOf(S, f(_)) == Fld(MapThenSumSet(f, S))
Powers == [x \in 0..(Q - 1) |->
             LET power[n \in Row] == IF n = 0 THEN 1 ELSE Fld(power[n - 1] * x)
             IN power]
Power(x, n) == Powers[Fld(x)][n]
Reciprocals == [x \in 1..(Q - 1) |-> CHOOSE y \in 1..(Q - 1) : Fld(x * y) = 1]
Recip(x) == Reciprocals[Fld(x)]
Point(i) == Power(Omega, i)

\* The Lagrange basis of the domain, evaluated at x outside it.
Vanishing(x) == Fld(x * Power(x, Size - 1) - 1)
Lagrange(i, x) == Fld(Point(i) * Vanishing(x) * Recip(Size * (x - Point(i))))

\* The FFTs as matrices: coefficients of the polynomial with given values on
\* the domain, and its values on the coset.
Apply(m, e(_)) == [i \in Row |-> SumOf(Row, LAMBDA k : m[i][k] * e(k))]
ifft == [k \in Row |-> [i \in Row |->
           Fld(Recip(Size) * Power(Recip(Omega), (i * k) % Size))]]
coset_fft == [i \in Row |-> [k \in Row |-> Power(Shift * Point(i), k)]]
to_coset == [i \in Row |-> [j \in Row |->
               SumOf(Row, LAMBDA k : coset_fft[i][k] * ifft[k][j])]]
coset_ifft == [k \in Row |-> [i \in Row |->
                 Fld(ifft[k][i] * Power(Recip(Shift), k))]]

---------------------------------------------------------------------------
(* circuit.rs.  Shares are bit sets, read as little-endian numbers.        *)

xor_shares(a, b) == (a \ b) \cup (b \ a)

bytes32_to_field(bits) == SumOf(bits, LAMBDA i : 2 ^ i)

TlsKeyCircuit_new(p, v, rb) ==
  [p |-> bytes32_to_field(p), v |-> bytes32_to_field(v),
   commitment |-> Fld(bytes32_to_field(xor_shares(p, v)) + rb), rand |-> rb]

TlsKeyCircuit_new_mpc(p_fe, v_fe, commitment, rb) ==
  [p |-> p_fe, v |-> v_fe, commitment |-> commitment, rand |-> rb]

\* Instance variables 0..2 (one, commitment, rand), witnesses 3 and 4.
Instance == 0..2
Variable == 0..4

\* The one constraint, commitment - (p + v + rand) = 0, as the rows of the
\* three matrices.
generate_constraints ==
  [a |-> << <<1, 1>>, <<-1, 3>>, <<-1, 4>>, <<-1, 2>> >>,
   b |-> << <<1, 0>> >>,
   c |-> <<>>]

assignment(circuit) ==
  LET z == <<1, circuit.commitment, circuit.rand, circuit.p, circuit.v>>
  IN [j \in Variable |-> z[j + 1]]

---------------------------------------------------------------------------
(* ark-groth16: generate_random_parameters for a trapdoor t, and verify.   *)

Coefficient(row, j) == SumOf({k \in DOMAIN row : row[k][2] = j},
                             LAMBDA k : row[k][1])

generate_random_parameters(t) ==
  LET m == generate_constraints
      u == [j \in Variable |->
              Fld(Coefficient(m.a, j) * Lagrange(0, t.tau)
                  + IF j \in Instance THEN Lagrange(1 + j, t.tau) ELSE 0)]
      w == [j \in Variable |-> Fld(Coefficient(m.b, j) * Lagrange(0, t.tau))]
      y == [j \in Variable |-> Fld(Coefficient(m.c, j) * Lagrange(0, t.tau))]
      abc(j) == t.beta * u[j] + t.alpha * w[j] + y[j]
  IN [vk |-> [alpha |-> t.alpha, beta |-> t.beta, gamma |-> t.gamma,
              delta |-> t.delta,
              gamma_abc |-> [j \in Instance |-> Fld(abc(j) * Recip(t.gamma))]],
      a_query |-> u, b_query |-> w,
      l_query |-> [j \in Variable \ Instance |-> Fld(abc(j) * Recip(t.delta))],
      h_query |-> [i \in 0..(Size - 2) |->
                     Fld(Vanishing(t.tau) * Power(t.tau, i) * Recip(t.delta))]]

Prepared(vk, inputs) ==
  Fld(vk.gamma_abc[0] + SumOf(DOMAIN inputs, LAMBDA i : inputs[i] * vk.gamma_abc[i]))

verify_proof(vk, inputs, proof) ==
  Fld(proof.a * proof.b) =
    Fld(vk.alpha * vk.beta + Prepared(vk, inputs) * vk.gamma + proof.c * vk.delta)

---------------------------------------------------------------------------
(* mpc_groth/r1cs_to_qap.rs.                                               *)

evaluate_constraint(terms, z) ==
  SumOf(DOMAIN terms, LAMBDA k : z[terms[k][2]] * terms[k][1])

\* The instance variables follow the constraints in a, and only in a.
witness_map(z) ==
  LET m == generate_constraints
      a(i) == IF i = 0 THEN evaluate_constraint(m.a, z) ELSE z[i - 1]
      b(i) == IF i = 0 THEN evaluate_constraint(m.b, z) ELSE 0
      c(i) == IF i = 0 THEN evaluate_constraint(m.c, z) ELSE 0
      ca == Apply(to_coset, a)
      cb == Apply(to_coset, b)
      cc == Apply(to_coset, c)
      ab(i) == (ca[i] * cb[i] - cc[i]) * Recip(Vanishing(Shift))
  IN Apply(coset_ifft, ab)

---------------------------------------------------------------------------
(* mpc_groth/prover.rs.                                                    *)

calculate_coeff(initial, query, vk_param, z) ==
  Fld(initial + query[0] + vk_param
      + SumOf(Variable \ {0}, LAMBDA j : query[j] * z[j]))

create_proof(circuit, pk, r, s) ==
  LET z == assignment(circuit)
      h == witness_map(z)
      h_acc == SumOf(DOMAIN pk.h_query, LAMBDA i : pk.h_query[i] * h[i])
      l_aux_acc == SumOf(DOMAIN pk.l_query, LAMBDA j : pk.l_query[j] * z[j])
      g_a == calculate_coeff(r * pk.vk.delta, pk.a_query, pk.vk.alpha, z)
      g1_b == calculate_coeff(s * pk.vk.delta, pk.b_query, pk.vk.beta, z)
  IN [a |-> g_a, b |-> g1_b,
      c |-> Fld(s * g_a + r * g1_b - pk.vk.delta * r * s + l_aux_acc + h_acc)]

rerandomize_proof(vk, proof, r1, r2) ==
  [a |-> Fld(proof.a * Recip(r1)),
   b |-> Fld(proof.b * r1 + vk.delta * r1 * r2),
   c |-> Fld(proof.c + proof.a * r2)]
=============================================================================
