------------------------------- MODULE TlsPrf -------------------------------
(***************************************************************************)
(* SHA-256, HMAC and the TLS 1.2 PRF as crates/zk computes them natively   *)
(* (tls12_hmac.rs, over the hmac and sha2 libraries) and inside circuits   *)
(* (sha256_gadget.rs, hmac_sha256_gadget.rs, tls_prf_circuit.rs).          *)
(*                                                                         *)
(* Sizes are divided by 16: a unit of data is a nibble, a digest, a key    *)
(* and a random are 2 units, a hash block and an HMAC key block 4, a       *)
(* premaster or master secret 3, a label 1.  The compression function is a *)
(* mixing function on these sizes; padding, chaining, HMAC and the PRF     *)
(* iterate it as the code does.  The scalar field is smaller than the key  *)
(* space, as in the code, and keeps 6 of the 8 bits of a digest.           *)
(***************************************************************************)
EXTENDS Integers, Sequences

Nibble == 0..15
Bytes == Seq(Nibble)
Hash == 2
Block == 4
Digest == [1..Hash -> Nibble]
Fp == 53
FpBits == 6

\* A nibble is its bits, lowest first.
Bits == [x \in Nibble |-> <<x % 2, (x \div 2) % 2, (x \div 4) % 2, x \div 8>>]
XorTable ==
  [x \in Nibble |-> [y \in Nibble |->
     LET bit(i) == (Bits[x][i] + Bits[y][i]) % 2
     IN bit(1) + 2 * bit(2) + 4 * bit(3) + 8 * bit(4)]]
XorWith(s, c) == [i \in DOMAIN s |-> XorTable[s[i]][c]]

Zeros(n) == [i \in 1..n |-> 0]
Truncate(s, n) == SubSeq(s, 1, n)

---------------------------------------------------------------------------
(* The sha2 and hmac libraries.                                            *)

\* The compression function mixes a block of 4 units into the state.
IV == 166
Mixed(state, w, x, y, z) ==
  (7 * state + 3 * w + 5 * x * x + 11 * y + 13 * z * z + w * x + y * z + 5) % 251

Compress(padded) ==
  LET state[b \in 0..(Len(padded) \div Block)] ==
        IF b = 0 THEN IV
        ELSE Mixed(state[b - 1], padded[Block * b - 3], padded[Block * b - 2],
                   padded[Block * b - 1], padded[Block * b])
      h == state[Len(padded) \div Block]
  IN <<h % 16, h \div 16>>

Sha256(m) ==
  LET z == CHOOSE n \in 0..(Block - 1) : (Len(m) + n + 2) % Block = 0
  IN Compress(m \o <<8>> \o Zeros(z) \o <<Len(m) % 16>>)

HmacSha256(key, data) ==
  LET short == IF Len(key) > Block THEN Sha256(key) ELSE key
      k == short \o Zeros(Block - Len(short))
  IN Sha256(XorWith(k, 12) \o Sha256(XorWith(k, 6) \o data))

---------------------------------------------------------------------------
(* tls12_hmac.rs.                                                          *)

tls_prf_sha256(secret, label, seed, n) ==
  LET mac == [data \in Bytes |-> HmacSha256(secret, data)]
      ls == label \o seed
      a[i \in 0..n] == IF i = 0 THEN ls ELSE mac[a[i - 1]]
      output[i \in 0..n] ==
        IF i = 0 THEN <<>>
        ELSE LET done == output[i - 1]
             IN IF Len(done) < n THEN done \o mac[a[i] \o ls] ELSE done
  IN Truncate(output[n], n)

MasterSecret == <<13>>
KeyExpansion == <<11>>

tls12_key_expansion(ms, cr, sr) ==
  tls_prf_sha256(ms, KeyExpansion, sr \o cr, 8)

split_mac_key(k_mac, p) == [p |-> p, v |-> [i \in 1..Hash |-> XorTable[k_mac[i]][p[i]]]]

combine_mac_key_shares(p, v) == [i \in 1..Hash |-> XorTable[p[i]][v[i]]]

derive_k_mac_from_pms(pms, cr, sr) ==
  LET ms == tls_prf_sha256(pms, MasterSecret, cr \o sr, 3)
  IN Truncate(tls12_key_expansion(ms, cr, sr), Hash)

---------------------------------------------------------------------------
(* sha256_gadget.rs and hmac_sha256_gadget.rs.                             *)

sha256_pad(m) ==
  LET marked == Append(m, 8)
      fill == (Block - 1 - Len(marked)) % Block
  IN marked \o Zeros(fill) \o <<Len(m) % 16>>

\* The block is witness data.
sha256_gadget(m) == Compress(sha256_pad(m))

\* The message is variables, the padding constants.
sha256_from_byte_vars(vars) ==
  LET padded == sha256_pad(vars)
      padded_vars == vars \o SubSeq(padded, Len(vars) + 1, Len(padded))
  IN Compress(padded_vars)

hmac_sha256_gadget(key, data) ==
  LET used == IF Len(key) > Block THEN Sha256(key) ELSE key
      k_block == [i \in 1..Block |-> IF i <= Len(used) THEN used[i] ELSE 0]
  IN sha256_gadget(XorWith(k_block, 12)
                   \o sha256_gadget(XorWith(k_block, 6) \o data))

\* Longer keys are a synthesis error; no caller has one.
hmac_sha256_gadget_constrained(key, data) ==
  LET k_padded == key \o Zeros(Block - Len(key))
      inner_hash == sha256_from_byte_vars(XorWith(k_padded, 6) \o data)
  IN sha256_from_byte_vars(XorWith(k_padded, 12) \o inner_hash)

\* The loop of both PRF gadgets, for HMAC with the secret: A(i) chains, and
\* each round appends a block until the output is long enough.
P_Sha256(mac, ls, n) ==
  LET a[i \in 0..n] == IF i = 0 THEN ls ELSE mac[a[i - 1]]
      output[i \in 0..n] ==
        IF i = 0 THEN <<>>
        ELSE LET done == output[i - 1]
             IN IF Len(done) < n THEN done \o mac[a[i] \o ls] ELSE done
  IN Truncate(output[n], n)

tls_prf_p_sha256_constrained(secret, ls, n) ==
  P_Sha256([data \in Bytes |-> hmac_sha256_gadget_constrained(secret, data)], ls, n)

tls12_master_secret_constrained(pms, cr, sr) ==
  tls_prf_p_sha256_constrained(pms, MasterSecret \o cr \o sr, 3)

ClientRandomFirst(ms, cr, sr) ==
  tls_prf_p_sha256_constrained(ms, KeyExpansion \o cr \o sr, 6)

tls12_key_expansion_constrained(ms, cr, sr) ==
  tls_prf_p_sha256_constrained(ms, KeyExpansion \o sr \o cr, 6)

tls_prf_p_sha256_gadget(secret, ls, n) ==
  P_Sha256([data \in Bytes |-> hmac_sha256_gadget(secret, data)], ls, n)

tls12_master_secret_gadget(pms, cr, sr) ==
  tls_prf_p_sha256_gadget(pms, MasterSecret \o cr \o sr, 3)

tls12_key_expansion_gadget(ms, cr, sr) ==
  LET b == tls_prf_p_sha256_gadget(ms, KeyExpansion \o sr \o cr, 6)
  IN [client_write_mac_key |-> SubSeq(b, 1, 2),
      server_write_mac_key |-> SubSeq(b, 3, 4),
      client_write_key |-> <<b[5]>>, server_write_key |-> <<b[6]>>]

---------------------------------------------------------------------------
(* Field elements (tls_prf_circuit.rs, mimc.rs).                           *)

\* Clears the bits above the field's, then reduces.
bytes32_to_fr(b) == ((b[1] + 16 * b[2]) % 64) % Fp

\* Sums the bits, weighted in the field, and stops at the field's width.
pack_bytes_to_fpvar(vars) ==
  LET bit(i) == Bits[vars[((i - 1) \div 4) + 1]][((i - 1) % 4) + 1]
      coeff == <<1, 2, 4, 8, 16, 32>>
      result[i \in 0..FpBits] ==
        IF i = 0 THEN 0 ELSE (result[i - 1] + bit(i) * coeff[i]) % Fp
  IN result[FpBits]

commit_k_mac(k_mac, rand_fe) == (bytes32_to_fr(k_mac) + rand_fe) % Fp

pms_hash(pms) == bytes32_to_fr(Sha256(pms))

MimcConstants == <<17, 5, 29>>
Element == 0..(Fp - 1)

\* t^7 as t^6 * t, and in the circuit as t^4 * t^3.
Times(x, y) == (x * y) % Fp
Seventh ==
  [t \in Element |->
     LET t2 == Times(t, t)
     IN Times(Times(Times(t2, t2), t2), t)]
SeventhVar ==
  [t \in Element |->
     LET t2 == Times(t, t)
     IN Times(Times(t2, t2), Times(t2, t))]

Mimc(seventh, msg, key) ==
  LET round(i, state) == seventh[(state + key + MimcConstants[i]) % Fp]
  IN (round(3, round(2, round(1, msg))) + key) % Fp

mimc7_enc(msg, key) == Mimc(Seventh, msg, key)

mimc7_enc_gadget(msg, key) == Mimc(SeventhVar, msg, key)

Encryptions == [x \in Element |-> mimc7_enc(x, 0)]
EncryptionVars == [x \in Element |-> mimc7_enc_gadget(x, 0)]

mimc7_sponge(inputs) ==
  LET state[i \in 0..Len(inputs)] ==
        IF i = 0 THEN 0
        ELSE LET sum == (state[i - 1] + inputs[i]) % Fp
             IN (Encryptions[sum] + sum) % Fp
  IN state[Len(inputs)]

mimc7_sponge_gadget(inputs) ==
  LET state[i \in 0..Len(inputs)] ==
        IF i = 0 THEN 0
        ELSE LET sum == (state[i - 1] + inputs[i]) % Fp
             IN (EncryptionVars[sum] + sum) % Fp
  IN state[Len(inputs)]

\* The last byte of a digest is dropped.
bytes31_to_fe(b) == b[1] % Fp

bytes16_to_fe(b) == b % Fp
=============================================================================
