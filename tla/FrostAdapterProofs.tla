------------------------- MODULE FrostAdapterProofs -------------------------
(***************************************************************************)
(* Proofs about what is built directly on the FROST adapters: the lists and*)
(* maps they handle (what a filter and a sequence of insertions leave), the*)
(* key ceremony with the nodes that start from its files, and the          *)
(* randomness of a session.  They hold for any number of verifiers,        *)
(* threshold, number of ceremonies, sessions and order of arrival.         *)
(***************************************************************************)
EXTENDS KeyCeremony, RcPhase, FiniteSetTheorems, TLAPS

---------------------------------------------------------------------------
(* Positions, filters and maps.                                            *)

\* A nonempty set of positions has a last one.
LEMMA LastPosition ==
  ASSUME NEW n \in Nat, NEW T, T \subseteq 1..n, T # {}
  PROVE  \E m \in T : \A j \in T : j <= m
<1> DEFINE D == {n - j : j \in T}
<1>1. D \subseteq Nat /\ D # {}
  <2>1. \A j \in T : n - j \in Nat
    OBVIOUS
  <2>2. PICK j \in T : TRUE
    BY Zenon
  <2> QED BY <2>1, <2>2, Zenon
<1> HIDE DEF D
<1>2. PICK x \in D : \A y \in D : ~(<<y, x>> \in OpToRel(<, Nat))
  BY <1>1, NatLessThanWellFounded, WFMin, Zenon
<1>3. PICK m \in T : x = n - m
  BY Zenon DEF D
<1>4. ASSUME NEW j \in T PROVE j <= m
  <2>1. n - j \in D /\ n - j \in Nat /\ x \in Nat
    BY <1>1, Zenon DEF D
  <2>2. ~(n - j < x)
    BY <1>2, <2>1, Zenon DEF OpToRel
  <2> QED BY <1>3, <2>1, <2>2
<1> QED BY <1>4, Zenon

\* Inserting pairs one after the other leaves under each key the value of
\* the last pair with that key.
LEMMA InsertedLast ==
  ASSUME NEW n \in Nat, NEW pairs, DOMAIN pairs = 1..n,
         NEW k, \E i \in 1..n : pairs[i][1] = k
  PROVE  \E m \in 1..n :
           /\ pairs[m][1] = k
           /\ \A j \in 1..n : pairs[j][1] = k => j <= m
           /\ InsertAll(pairs)[k] = pairs[m][2]
<1> DEFINE T == {i \in 1..n : pairs[i][1] = k}
<1>1. T \subseteq 1..n /\ T # {}
  BY Zenon
<1> HIDE DEF T
<1>2. PICK m \in T : \A j \in T : j <= m
  BY <1>1, LastPosition, Zenon
<1>3. /\ m \in 1..n /\ pairs[m][1] = k
      /\ \A j \in 1..n : pairs[j][1] = k => j <= m
  BY <1>2, Zenon DEF T
<1>4. \A i \in DOMAIN pairs :
        /\ pairs[i][1] = k
        /\ \A j \in DOMAIN pairs : pairs[j][1] = k => j <= i
        => i = m
  BY <1>3
<1>5. (CHOOSE i \in DOMAIN pairs :
         /\ pairs[i][1] = k
         /\ \A j \in DOMAIN pairs : pairs[j][1] = k => j <= i) = m
  BY <1>3, <1>4, Zenon
<1>6. InsertAll(pairs)[k] =
        pairs[CHOOSE i \in DOMAIN pairs :
                /\ pairs[i][1] = k
                /\ \A j \in DOMAIN pairs : pairs[j][1] = k => j <= i][2]
  BY Zenon DEF InsertAll
<1> QED BY <1>3, <1>5, <1>6, Zenon

\* A set of positions can be put in ascending order.
LEMMA AscendingExists ==
  ASSUME NEW n \in Nat, NEW S \in SUBSET (1..n)
  PROVE  \E f \in [1..Cardinality(S) -> S] :
           \A i, j \in DOMAIN f : i < j => f[i] < f[j]
<1> DEFINE Ordered(T) == \E f \in [1..Cardinality(T) -> T] :
                           \A i, j \in DOMAIN f : i < j => f[i] < f[j]
           Bad == {m \in Nat : \E T \in SUBSET (1..m) : ~Ordered(T)}
<1> HIDE DEF Ordered
<1>1. SUFFICES ASSUME Bad # {} PROVE FALSE
  BY Zenon DEF Ordered
<1>2. Bad \subseteq Nat
  BY Zenon
<1> HIDE DEF Bad
<1>3. PICK m \in Bad : \A l \in Bad : ~(<<l, m>> \in OpToRel(<, Nat))
  BY <1>1, <1>2, NatLessThanWellFounded, WFMin, Zenon
<1>4. /\ m \in Nat
      /\ \A l \in Nat : l < m => \A T \in SUBSET (1..l) : Ordered(T)
  <2>1. \A l \in Nat : l < m => l \notin Bad
    BY <1>2, <1>3, Zenon DEF OpToRel
  <2> QED BY <1>2, <2>1, Zenon DEF Bad
<1>5. PICK T \in SUBSET (1..m) : ~Ordered(T)
  BY <1>3, Zenon DEF Bad
<1>6. CASE m \notin T
  <2>1. CASE m = 0
    <3>1. T = {}
      BY <1>5, <2>1
    <3>2. Cardinality(T) = 0
      BY <3>1, FS_EmptySet, Zenon
    <3>3. [i \in 1..0 |-> i] \in [1..Cardinality(T) -> T]
      BY <3>2
    <3> QED BY <1>5, <3>3, Zenon DEF Ordered
  <2>2. CASE m # 0
    <3>1. m - 1 \in Nat /\ m - 1 < m /\ T \in SUBSET (1..(m - 1))
      BY <1>4, <1>5, <1>6, <2>2
    <3> QED BY <1>4, <1>5, <3>1, Zenon
  <2> QED BY <2>1, <2>2, Zenon
<1>7. CASE m \in T
  <2> DEFINE R == T \ {m}
             c == Cardinality(R)
  <2>1. m - 1 \in Nat /\ m - 1 < m /\ R \in SUBSET (1..(m - 1))
    BY <1>4, <1>5, <1>7
  <2>2. IsFiniteSet(R) /\ c \in Nat /\ Cardinality(T) = c + 1
    <3>1. IsFiniteSet(1..m)
      BY <1>4, FS_Interval
    <3>2. IsFiniteSet(T)
      BY <1>5, <3>1, FS_Subset, Zenon
    <3>3. IsFiniteSet(R) /\ Cardinality(R) = Cardinality(T) - 1
      BY <1>7, <3>2, FS_RemoveElement, Zenon
    <3>4. Cardinality(R) \in Nat /\ Cardinality(T) \in Nat
      BY <3>2, <3>3, FS_CardinalityType, Zenon
    <3> QED BY <3>3, <3>4
  <2>3. PICK f \in [1..c -> R] : \A i, j \in DOMAIN f : i < j => f[i] < f[j]
    BY <1>4, <2>1, Zenon DEF Ordered
  <2> DEFINE g == [i \in 1..(c + 1) |-> IF i <= c THEN f[i] ELSE m]
  <2> HIDE DEF c
  <2>4. \A i \in 1..c : f[i] \in R /\ f[i] \in Int /\ f[i] < m
    <3>1. \A x \in R : x \in Int /\ x < m
      BY <1>4, <2>1
    <3> HIDE DEF R
    <3> QED BY <2>3, <3>1, Zenon
  <2>5. g \in [1..Cardinality(T) -> T]
    BY <1>7, <2>2, <2>4
  <2>6. \A i, j \in 1..(c + 1) : i < j => g[i] < g[j]
    <3> TAKE i, j \in 1..(c + 1)
    <3>1. i < j => i \in 1..c
      BY <2>2
    <3>2. i < j /\ j \in 1..c => g[i] < g[j]
      BY <2>2, <2>3, <3>1
    <3>3. i < j /\ j \notin 1..c => g[i] < g[j]
      BY <2>2, <2>4, <3>1
    <3> QED BY <3>2, <3>3, Zenon
  <2>7. DOMAIN g = 1..(c + 1)
    BY Zenon
  <2> HIDE DEF g
  <2> QED BY <1>5, <2>5, <2>6, <2>7, Zenon DEF Ordered
<1> QED BY <1>6, <1>7, Zenon

\* Positions of some sequence.
IsPositions(S) == \E n \in Nat : S \in SUBSET (1..n)

\* The positions in ascending order are an enumeration of them.
LEMMA AscendingOf ==
  ASSUME NEW S, IsPositions(S)
  PROVE  LET f == Ascending(S)
         IN  /\ IsFiniteSet(S) /\ Cardinality(S) \in Nat
             /\ f \in [1..Cardinality(S) -> S]
             /\ \A i, j \in 1..Cardinality(S) : i < j => f[i] < f[j]
             /\ \A i, j \in 1..Cardinality(S) : f[i] = f[j] => i = j
             /\ \A x \in S : \E k \in 1..Cardinality(S) : f[k] = x
<1>0. PICK n \in Nat : S \in SUBSET (1..n)
  BY Zenon DEF IsPositions
<1> DEFINE c == Cardinality(S)
           f == Ascending(S)
<1>1. IsFiniteSet(S) /\ c \in Nat
  <2>1. IsFiniteSet(1..n)
    BY FS_Interval
  <2>2. IsFiniteSet(S)
    BY <1>0, <2>1, FS_Subset, Zenon
  <2> QED BY <2>2, FS_CardinalityType, Zenon
<1>2. f \in [1..c -> S] /\ \A i, j \in DOMAIN f : i < j => f[i] < f[j]
  BY <1>0, AscendingExists, Zenon DEF Ascending
<1> HIDE DEF f, c
<1>3. \A i \in 1..c : f[i] \in Int
  <2>1. \A x \in S : x \in Int
    BY <1>0
  <2> QED BY <1>2, <2>1, Zenon
<1>4. \A i, j \in 1..c : f[i] = f[j] => i = j
  <2> TAKE i, j \in 1..c
  <2>1. i \in Int /\ j \in Int /\ (i < j \/ j < i \/ i = j)
    BY <1>1
  <2> QED BY <1>2, <1>3, <2>1
<1>5. f \in Injection(1..c, S)
  BY <1>2, <1>4, Zenon DEF Injection, IsInjective
<1>6. Cardinality(1..c) = c
  BY <1>1, FS_Interval
<1>7. f \in Surjection(1..c, S)
  BY <1>1, <1>5, <1>6, FS_Injection, Zenon DEF c
<1>8. \A x \in S : \E k \in 1..c : f[k] = x
  BY <1>7, Zenon DEF Surjection
<1> QED BY <1>1, <1>2, <1>4, <1>8, Zenon DEF f, c

\* All positions in ascending order are the positions as they are.
LEMMA AscendingAll ==
  ASSUME NEW n \in Nat
  PROVE  Cardinality(1..n) = n /\ \A k \in 1..n : Ascending(1..n)[k] = k
<1> DEFINE f == Ascending(1..n)
           Bad == {k \in 1..n : f[k] # k}
<1>1. Cardinality(1..n) = n
  BY FS_Interval
<1>2. /\ f \in [1..n -> 1..n]
      /\ \A i, j \in 1..n : i < j => f[i] < f[j]
      /\ \A i, j \in 1..n : f[i] = f[j] => i = j
      /\ \A x \in 1..n : \E k \in 1..n : f[k] = x
  <2>1. IsPositions(1..n)
    BY Zenon DEF IsPositions
  <2> QED BY <1>1, <2>1, AscendingOf, Zenon
<1> HIDE DEF f
<1>3. SUFFICES ASSUME Bad # {} PROVE FALSE
  BY <1>1, Zenon DEF f
<1>4. Bad \subseteq Nat
  OBVIOUS
<1>5. PICK m \in Bad : \A l \in Bad : ~(<<l, m>> \in OpToRel(<, Nat))
  <2> HIDE DEF Bad
  <2> QED BY <1>3, <1>4, NatLessThanWellFounded, WFMin, Zenon
<1>6. m \in 1..n /\ f[m] # m /\ \A l \in 1..n : l < m => f[l] = l
  <2> HIDE DEF Bad
  <2>1. \A l \in Nat : l < m => l \notin Bad
    BY <1>4, <1>5, Zenon DEF OpToRel
  <2>2. m \in 1..n /\ f[m] # m
    BY Zenon DEF Bad
  <2>3. ASSUME NEW l \in 1..n, l < m PROVE f[l] = l
    <3>1. l \notin Bad
      BY <2>1, <2>3
    <3> QED BY <3>1, Zenon DEF Bad
  <2> QED BY <2>2, <2>3, Zenon
<1>7. PICK k \in 1..n : f[k] = m
  BY <1>2, <1>6, Zenon
<1>8. f[m] \in 1..n /\ (f[m] < m => f[f[m]] = f[m])
  BY <1>2, <1>6, Zenon
<1>9. f[m] > m
  BY <1>2, <1>6, <1>8
<1>10. k < m \/ k = m \/ k > m
  BY <1>6, <1>7
<1>11. k > m => f[k] > f[m]
  BY <1>2, <1>6, <1>7, Zenon
<1> QED BY <1>6, <1>7, <1>8, <1>9, <1>10, <1>11

\* What a filter passes on: the elements at the positions it keeps, each
\* once and in order.
LEMMA FilteredOf ==
  ASSUME NEW s, NEW P, IsPositions(P)
  PROVE  LET r == Filtered(s, P)
             f == Ascending(P)
             c == Cardinality(P)
         IN  /\ c \in Nat /\ DOMAIN r = 1..c
             /\ f \in [1..c -> P]
             /\ \A k \in 1..c : r[k] = s[f[k]]
             /\ \A i, j \in 1..c : f[i] = f[j] => i = j
             /\ \A x \in P : \E k \in 1..c : f[k] = x
<1>1. DOMAIN Ascending(P) = 1..Cardinality(P)
  BY AscendingOf, Zenon
<1>2. /\ DOMAIN Filtered(s, P) = 1..Cardinality(P)
      /\ \A k \in 1..Cardinality(P) : Filtered(s, P)[k] = s[Ascending(P)[k]]
  BY <1>1, Zenon DEF Filtered
<1> QED BY <1>2, AscendingOf, Zenon

\* A filter that keeps everything changes nothing.
LEMMA FilteredAll ==
  ASSUME NEW n \in Nat, NEW s
  PROVE  /\ DOMAIN Filtered(s, 1..n) = 1..n
         /\ \A k \in 1..n : Filtered(s, 1..n)[k] = s[k]
<1> DEFINE P == 1..n
<1>1. IsPositions(P)
  BY Zenon DEF IsPositions
<1>2. Cardinality(P) = n /\ \A k \in 1..n : Ascending(P)[k] = k
  BY AscendingAll, Zenon
<1> HIDE DEF P
<1>3. /\ DOMAIN Filtered(s, P) = 1..Cardinality(P)
      /\ \A k \in 1..Cardinality(P) : Filtered(s, P)[k] = s[Ascending(P)[k]]
  BY <1>1, FilteredOf
<1>4. DOMAIN Filtered(s, P) = 1..n /\ \A k \in 1..n : Filtered(s, P)[k] = s[k]
  BY <1>2, <1>3, Zenon
<1> QED BY <1>4, Zenon DEF P

\* The n pairs have the keys D, and their values are a function g of the key.
PairsOf(pairs, n, D, g) ==
  /\ DOMAIN pairs = 1..n /\ g = [k \in D |-> g[k]]
  /\ \A i \in 1..n : pairs[i][1] \in D /\ pairs[i][2] = g[pairs[i][1]]
  /\ \A k \in D : \E i \in 1..n : pairs[i][1] = k

\* Inserting such pairs gives this function.
LEMMA InsertedFunction ==
  ASSUME NEW n \in Nat, NEW pairs, NEW D, NEW g, PairsOf(pairs, n, D, g)
  PROVE  InsertAll(pairs) = g
<1> USE DEF PairsOf
<1>1. {pairs[i][1] : i \in DOMAIN pairs} = D
  OBVIOUS
<1>2. InsertAll(pairs) = [k \in D |-> InsertAll(pairs)[k]]
  BY <1>1 DEF InsertAll
<1>3. ASSUME NEW k \in D PROVE InsertAll(pairs)[k] = g[k]
  <2>1. \E i \in 1..n : pairs[i][1] = k
    BY Zenon
  <2>2. PICK m \in 1..n : pairs[m][1] = k /\ InsertAll(pairs)[k] = pairs[m][2]
    BY <2>1, InsertedLast
  <2> QED BY <2>2, Zenon
<1>4. [k \in D |-> InsertAll(pairs)[k]] = [k \in D |-> g[k]]
  BY <1>3, Zenon
<1> QED BY <1>2, <1>4, Zenon

---------------------------------------------------------------------------
(* KeyCeremony: files, nodes and the shares they sign with.                *)

\* The order the nodes are asked in names each at most once.
LEMMA SignersAreDistinct ==
  ASSUME NEW s \in SignerSeqs
  PROVE  /\ Len(s) \in Nat /\ DOMAIN s = 1..Len(s)
         /\ IsFiniteSet(Range(s)) /\ Cardinality(Range(s)) = Len(s)
<1>1. PICK n \in Node : s \in [1..n -> Node]
  BY Zenon DEF SignerSeqs
<1>2. /\ n \in Nat /\ DOMAIN s = 1..n /\ Len(s) = n
      /\ \A i \in 1..n : s[i] \in Int
  BY <1>1, KeyAssumption DEF Node
<1>3. \A i, j \in 1..n : i # j => s[i] # s[j]
  <2>1. \A i, j \in 1..n : i < j => s[i] < s[j]
    BY <1>2, Zenon DEF SignerSeqs
  <2>2. \A i, j \in 1..n : i # j => i < j \/ j < i
    OBVIOUS
  <2> QED BY <1>2, <2>1, <2>2
<1>4. s \in Surjection(1..n, Range(s)) /\ s \in Injection(1..n, Range(s))
  <2>1. Range(s) = {s[i] : i \in 1..n}
    BY <1>2, Zenon DEF Range
  <2>2. s \in [1..n -> Range(s)]
    BY <1>1, <2>1, Zenon
  <2>3. \A x \in Range(s) : \E i \in 1..n : s[i] = x
    BY <2>1, Zenon
  <2> HIDE DEF SignerSeqs
  <2> QED BY <1>2, <1>3, <2>2, <2>3, Zenon DEF Surjection, Injection, IsInjective
<1>5. IsFiniteSet(1..n) /\ Cardinality(1..n) = n
  BY <1>2, FS_Interval
<1> QED BY <1>2, <1>4, <1>5, FS_Surjection, Zenon

\* What a nonempty result of both rounds says about the share of one of the
\* signers: its commitment is the one its nonces made, so it is the last one
\* inserted under its identifier, in the round of the shares as well, and the
\* aggregation compared its key with the coordinator's.
LEMMA SharesOfOneKey ==
  ASSUME NEW signers \in SignerSeqs, Shares(signers) # Err,
         NEW i \in DOMAIN signers
  PROVE  /\ nodeShare[signers[i]].key_package.key = coord.group_key.pub.key
         /\ \E c \in Nat : /\ c <= Cardinality(Range(signers))
                          /\ c >= nodeShare[signers[i]].key_package.min
<1> DEFINE n == Len(signers)
           gk == coord.group_key
           nonces(k) == <<"os", Vid(signers[k])>>
           id(k) == verifier_to_identifier(gk, Vid(signers[k]))
           kp(k) == nodeShare[signers[k]].key_package
           collected == [k \in DOMAIN signers |-> <<Vid(signers[k]), Commit(nonces(k))>>]
           pkg == build_signing_package(collected, "digest", gk)
           share(k) == sign(pkg, nonces(k), kp(k))
           shares == [k \in DOMAIN signers |-> <<Vid(signers[k]), share(k)>>]
           commitPairs == [k \in 1..n |-> <<id(k), Commit(nonces(k))>>]
           sharePairs == [k \in 1..n |-> <<id(k), share(k)>>]
<1>1. /\ n \in Nat /\ DOMAIN signers = 1..n
      /\ IsFiniteSet(Range(signers)) /\ Cardinality(Range(signers)) = n
  BY SignersAreDistinct, Zenon
<1>2. /\ pkg # Err /\ \A k \in DOMAIN signers : share(k) # Err
      /\ aggregate_signature_shares(pkg, shares, gk, "digest") # Err
  BY Zenon DEF Shares
<1> HIDE DEF n, pkg, share, shares
<1>3. pkg = SigningPackage(InsertAll(commitPairs), "digest")
  <2> DEFINE cs == [k \in DOMAIN collected |->
                      commitment_from_bytes(collected[k][2], collected[k][1], gk)]
  <2>1. ~AnyErr(cs) /\ pkg = SigningPackage(
            InsertAll([k \in DOMAIN cs |-> <<cs[k].identifier, cs[k].inner>>]), "digest")
    BY <1>2, Zenon DEF pkg, build_signing_package
  <2>2. DOMAIN cs = 1..n
    BY <1>1, Zenon
  <2>3. \A k \in 1..n : cs[k] # Err
    BY <2>1, <2>2, Zenon DEF AnyErr
  <2>4. \A k \in 1..n : cs[k] = IF id(k) = Err THEN Err
                               ELSE [identifier |-> id(k), inner |-> Commit(nonces(k))]
    BY <1>1, Zenon DEF commitment_from_bytes
  <2> HIDE DEF cs
  <2>5. \A k \in 1..n : cs[k].identifier = id(k) /\ cs[k].inner = Commit(nonces(k))
    <3> HIDE DEF id, nonces
    <3> TAKE k \in 1..n
    <3> DEFINE c == [identifier |-> id(k), inner |-> Commit(nonces(k))]
    <3>1. c.identifier = id(k) /\ c.inner = Commit(nonces(k))
      BY Zenon
    <3>2. cs[k] = c
      BY <2>3, <2>4, Zenon
    <3> HIDE DEF c
    <3> QED BY <3>1, <3>2, Zenon
  <2>6. [k \in DOMAIN cs |-> <<cs[k].identifier, cs[k].inner>>] = commitPairs
    BY <2>2, <2>5, Zenon
  <2> QED BY <2>1, <2>6, Zenon
<1>4. aggregate(pkg, InsertAll(sharePairs), gk.pub) # Err
  <2> DEFINE ss == [k \in DOMAIN shares |->
                      share_from_bytes(shares[k][2], shares[k][1], gk)]
  <2>1. /\ ~AnyErr(ss)
        /\ aggregate(pkg, InsertAll([k \in DOMAIN ss |->
                                       <<ss[k].identifier, ss[k].inner>>]), gk.pub) # Err
    BY <1>2, Zenon DEF aggregate_signature_shares
  <2>2. DOMAIN ss = 1..n
    BY <1>1, Zenon DEF shares
  <2>3. \A k \in 1..n : ss[k] # Err
    BY <2>1, <2>2, Zenon DEF AnyErr
  <2>4. \A k \in 1..n : ss[k] = IF id(k) = Err THEN Err
                               ELSE [identifier |-> id(k), inner |-> share(k)]
    BY <1>1, Zenon DEF share_from_bytes, shares
  <2> HIDE DEF ss
  <2>5. \A k \in 1..n : ss[k].identifier = id(k) /\ ss[k].inner = share(k)
    <3> HIDE DEF id, nonces
    <3> TAKE k \in 1..n
    <3> DEFINE c == [identifier |-> id(k), inner |-> share(k)]
    <3>1. c.identifier = id(k) /\ c.inner = share(k)
      BY Zenon
    <3>2. ss[k] = c
      BY <2>3, <2>4, Zenon
    <3> HIDE DEF c
    <3> QED BY <3>1, <3>2, Zenon
  <2>6. [k \in DOMAIN ss |-> <<ss[k].identifier, ss[k].inner>>] = sharePairs
    BY <2>2, <2>5, Zenon
  <2> QED BY <2>1, <2>6, Zenon
<1>5. pkg.commits = InsertAll(commitPairs)
  BY <1>3, Zenon DEF SigningPackage
<1>6. DOMAIN InsertAll(commitPairs) = {id(k) : k \in 1..n}
  BY Zenon DEF InsertAll
<1>7. i \in 1..n
  BY <1>1, Zenon
<1>8. /\ Cardinality({id(k) : k \in 1..n}) >= kp(i).min
      /\ kp(i).id \in {id(k) : k \in 1..n}
      /\ InsertAll(commitPairs)[kp(i).id] = Commit(nonces(i))
      /\ share(i) = [pkg |-> pkg, key |-> kp(i).key, id |-> kp(i).id]
  <2>1. share(i) # Err
    BY <1>2, Zenon
  <2> HIDE DEF commitPairs, nonces, id, kp
  <2> QED BY <1>5, <1>6, <2>1, Zenon DEF sign, share
<1>9. PICK m \in 1..n :
        /\ id(m) = kp(i).id
        /\ \A j \in 1..n : id(j) = kp(i).id => j <= m
        /\ InsertAll(commitPairs)[kp(i).id] = Commit(nonces(m))
  <2>1. DOMAIN commitPairs = 1..n
    BY Zenon
  <2>2. \A j \in 1..n : commitPairs[j][1] = id(j) /\ commitPairs[j][2] = Commit(nonces(j))
    BY Zenon
  <2> DEFINE key == kp(i).id
  <2>3. n \in Nat /\ DOMAIN commitPairs = 1..n /\ \E j \in 1..n : commitPairs[j][1] = key
    BY <1>1, <1>8, <2>1, <2>2, Zenon
  <2> HIDE DEF commitPairs, nonces, id, kp, key
  <2>4. PICK m \in 1..n :
          /\ commitPairs[m][1] = key
          /\ \A j \in 1..n : commitPairs[j][1] = key => j <= m
          /\ InsertAll(commitPairs)[key] = commitPairs[m][2]
    BY ONLY <2>3, InsertedLast
  <2> QED BY <2>2, <2>4, Zenon DEF key
<1>10. share(m) = share(i)
  <2>1. Commit(nonces(m)) = Commit(nonces(i))
    BY <1>8, <1>9, Zenon
  <2>2. signers[m] = signers[i]
    BY <2>1, Zenon DEF Commit, Vid
  <2> QED BY <2>2, Zenon DEF share
<1>11. InsertAll(sharePairs)[kp(i).id] = share(i)
  <2>1. DOMAIN sharePairs = 1..n
    BY Zenon
  <2>2. \A j \in 1..n : sharePairs[j][1] = id(j) /\ sharePairs[j][2] = share(j)
    BY Zenon
  <2> DEFINE key == kp(i).id
  <2>3. n \in Nat /\ DOMAIN sharePairs = 1..n /\ \E j \in 1..n : sharePairs[j][1] = key
    BY <1>1, <1>8, <2>1, <2>2, Zenon
  <2> HIDE DEF sharePairs, nonces, id, kp, key
  <2>4. PICK l \in 1..n :
          /\ sharePairs[l][1] = key
          /\ \A j \in 1..n : sharePairs[j][1] = key => j <= l
          /\ InsertAll(sharePairs)[key] = sharePairs[l][2]
    BY ONLY <2>3, InsertedLast
  <2>5. l = m
    BY <1>1, <1>9, <2>2, <2>4 DEF key
  <2> QED BY <1>10, <2>2, <2>4, <2>5, Zenon DEF key
<1>12. kp(i).key = gk.pub.key
  <2>1. DOMAIN InsertAll(sharePairs) = {id(k) : k \in 1..n}
    BY Zenon DEF InsertAll
  <2> HIDE DEF sharePairs, commitPairs, nonces, id, kp
  <2>2. \A x \in DOMAIN InsertAll(sharePairs) :
          InsertAll(sharePairs)[x] = [pkg |-> pkg, key |-> gk.pub.key, id |-> x]
    BY <1>4, Zenon DEF aggregate
  <2>3. share(i) = [pkg |-> pkg, key |-> gk.pub.key, id |-> kp(i).id]
    BY <1>8, <1>11, <2>1, <2>2, Zenon
  <2> QED BY <1>8, <2>3
<1>13. /\ Cardinality({id(k) : k \in 1..n}) \in Nat
       /\ Cardinality({id(k) : k \in 1..n}) <= Cardinality(Range(signers))
  <2> DEFINE ids == {id(k) : k \in 1..n}
             f == [k \in 1..n |-> id(k)]
  <2>1. f \in Surjection(1..n, ids)
    BY Zenon DEF Surjection
  <2>2. IsFiniteSet(1..n) /\ Cardinality(1..n) = n
    BY <1>1, FS_Interval
  <2> HIDE DEF ids, f
  <2>3. IsFiniteSet(ids) /\ Cardinality(ids) <= n
    BY <2>1, <2>2, FS_Surjection
  <2> QED BY <1>1, <2>3, FS_CardinalityType, Zenon DEF ids
<1> HIDE DEF id, kp, gk
<1>14. \E c \in Nat : c <= Cardinality(Range(signers)) /\ c >= kp(i).min
  BY <1>8, <1>13, Zenon
<1> QED BY <1>12, <1>14, Zenon DEF kp, gk

\* The output of a ceremony that did not fail.
Dealt(out) ==
  \E t \in Nat, key \in Nat :
    out # Err /\ out = frost_trusted_dealer_keygen(nodeVids, t, key)

\* The key file of one participant.
ShareJson(out, i) == participant_to_json(out.participants[i])

\* The contents of the share and config files.
FilesInv(fs) ==
  /\ DOMAIN fs = FileName
  /\ \A i \in Node :
       /\ fs[<<"share", i>>] # Err => fs[<<"share", i>>].pub.min \in Nat
       /\ fs[<<"config", i>>] # Err => fs[<<"config", i>>].key_file = <<"share", i>>

\* The inductive invariant: whatever mixture of ceremonies the files are from,
\* each holds what a ceremony writes there, and a running node has loaded
\* such a share.
KeyInv ==
  /\ FilesInv(files)
  /\ runs \in Nat
  /\ \/ writing = NoCeremony
     \/ \E n \in 1..(2 * Nodes + 1) : \E out :
          Dealt(out) /\ writing = [next |-> n, out |-> out]
  /\ DOMAIN nodeShare = Node
  /\ \A i \in Node :
       nodeShare[i] # Err => nodeShare[i].key_package.min \in Nat
  /\ OneCeremonyPerApproval

\* The order of the writes of dkg-ceremony.
LEMMA WritesInOrder ==
  ASSUME NEW out
  PROVE  LET w == Writes(out)
         IN  /\ Len(w) = 2 * Nodes + 1 /\ DOMAIN w = 1..(2 * Nodes + 1)
             /\ \A i \in Node :
                  /\ w[i] = <<<<"share", i>>, ShareJson(out, i)>>
                  /\ w[Nodes + 1 + i] = <<<<"config", i>>, [key_file |-> <<"share", i>>]>>
             /\ w[Nodes + 1] = <<<<"group", 0>>, group_key_to_json(out.group_key)>>
<1> DEFINE a == [i \in Node |-> <<<<"share", i>>, ShareJson(out, i)>>]
           g == <<<<"group", 0>>, group_key_to_json(out.group_key)>>
           b == <<g>>
           c == [i \in Node |-> <<<<"config", i>>, [key_file |-> <<"share", i>>]>>]
           X == {a[i] : i \in Node} \cup {g} \cup {c[i] : i \in Node}
<1>1. Nodes \in Nat /\ Node = 1..Nodes
  BY KeyAssumption, Zenon DEF Node
<1>2. /\ a \in [1..Nodes -> X] /\ c \in [1..Nodes -> X] /\ g \in X
      /\ \A i \in Node :
           /\ a[i] = <<<<"share", i>>, ShareJson(out, i)>>
           /\ c[i] = <<<<"config", i>>, [key_file |-> <<"share", i>>]>>
  BY <1>1, Zenon
<1> HIDE DEF a, g, c, X
<1>3. /\ a \in Seq(X) /\ Len(a) = Nodes /\ c \in Seq(X) /\ Len(c) = Nodes
      /\ b \in Seq(X) /\ Len(b) = 1 /\ b[1] = g
  BY <1>1, <1>2
<1> HIDE DEF b
<1> DEFINE ab == a \o b
<1>4. /\ ab \in Seq(X) /\ Len(ab) = Nodes + 1 /\ ab[Nodes + 1] = g
      /\ \A i \in 1..Nodes : ab[i] = a[i]
  <2>1. /\ ab \in Seq(X) /\ Len(ab) = Len(a) + Len(b)
        /\ \A i \in 1..Len(a) : ab[i] = a[i]
        /\ \A i \in 1..Len(b) : ab[Len(a) + i] = b[i]
    <3>1. a \in Seq(X) /\ b \in Seq(X)
      BY <1>3, Zenon
    <3> QED BY <3>1
  <2> HIDE DEF ab
  <2>2. 1 \in 1..Len(b)
    BY <1>3
  <2> QED BY <1>1, <1>3, <2>1, <2>2, Zenon
<1> HIDE DEF ab
<1> DEFINE w == ab \o c
<1>5. /\ w \in Seq(X) /\ Len(w) = Len(ab) + Len(c)
      /\ \A i \in 1..Len(ab) : w[i] = ab[i]
      /\ \A i \in 1..Len(c) : w[Len(ab) + i] = c[i]
  <2>1. ab \in Seq(X) /\ c \in Seq(X)
    BY <1>3, <1>4, Zenon
  <2> QED BY <2>1
<1>6. Writes(out) = w
  BY Zenon DEF Writes, w, ab, a, b, c, g, ShareJson
<1> HIDE DEF w
<1>7. Len(w) = 2 * Nodes + 1 /\ DOMAIN w = 1..(2 * Nodes + 1)
  BY <1>1, <1>3, <1>4, <1>5
<1>8. \A i \in Node : w[i] = a[i] /\ w[Nodes + 1 + i] = c[i]
  <2>1. \A i \in Node : i \in 1..Len(ab) /\ i \in 1..Len(c) /\ i \in 1..Nodes
    BY <1>1, <1>3, <1>4
  <2> QED BY <1>4, <1>5, <2>1, Zenon
<1>9. w[Nodes + 1] = g
  <2>1. Nodes + 1 \in 1..Len(ab)
    BY <1>1, <1>4
  <2> QED BY <1>4, <1>5, <2>1, Zenon
<1> QED BY <1>2, <1>6, <1>7, <1>8, <1>9, Zenon DEF g

\* Each write puts contents of the right kind into its file.
LEMMA WriteIsOfItsKind ==
  ASSUME NEW out, Dealt(out), NEW k \in 1..(2 * Nodes + 1)
  PROVE  LET e == Writes(out)[k]
         IN  /\ e[1] \in FileName
             /\ \A i \in Node :
                  /\ e[1] = <<"share", i>> => e[2].pub.min \in Nat
                  /\ e[1] = <<"config", i>> => e[2].key_file = <<"share", i>>
<1> DEFINE e == Writes(out)[k]
<1>1. \/ \E i \in Node : e = <<<<"share", i>>, ShareJson(out, i)>>
      \/ e = <<<<"group", 0>>, group_key_to_json(out.group_key)>>
      \/ \E i \in Node : e = <<<<"config", i>>, [key_file |-> <<"share", i>>]>>
  <2>1. Nodes \in Nat /\ Node = 1..Nodes /\ k \in Nat
    BY KeyAssumption DEF Node
  <2>2. k \in Node \/ k = Nodes + 1 \/ \E i \in Node : k = Nodes + 1 + i
    <3>1. k > Nodes + 1 => k - (Nodes + 1) \in Node /\ k = Nodes + 1 + (k - (Nodes + 1))
      BY <2>1
    <3> QED BY <2>1, <3>1
  <2> QED BY <2>2, WritesInOrder, Zenon
<1>2. \A i \in Node : ShareJson(out, i).pub.min \in Nat
  <2>1. PICK t \in Nat, key \in Nat :
          out # Err /\ out = frost_trusted_dealer_keygen(nodeVids, t, key)
    BY Zenon DEF Dealt
  <2>2. nodeVids \in Seq({Vid(i) : i \in Node}) /\ Len(nodeVids) = Nodes
    BY KeyAssumption DEF nodeVids, Node
  <2>3. out.participants = [i \in 1..Nodes |->
                FrostParticipant(KeyPackage(Ed25519, key, i, t), i, nodeVids[i])]
    BY <2>1, <2>2, Zenon DEF frost_trusted_dealer_keygen
  <2>4. \A i \in Node : out.participants[i] =
          FrostParticipant(KeyPackage(Ed25519, key, i, t), i, nodeVids[i])
    BY <2>3, Zenon DEF Node
  <2>5. \A i \in Node : out.participants[i].key_package = KeyPackage(Ed25519, key, i, t)
    <3> TAKE i \in Node
    <3> DEFINE kp == KeyPackage(Ed25519, key, i, t)
    <3>1. FrostParticipant(kp, i, nodeVids[i]).key_package = kp
      BY Zenon DEF FrostParticipant
    <3> QED BY <2>4, <3>1, Zenon
  <2>6. \A i \in Node : ShareJson(out, i).pub = out.participants[i].key_package
    BY Zenon DEF ShareJson, participant_to_json
  <2>7. \A i \in Node : KeyPackage(Ed25519, key, i, t).min = t
    BY Zenon DEF KeyPackage
  <2> QED BY <2>5, <2>6, <2>7, Zenon
<1> HIDE DEF e, ShareJson
<1>3. e[1] \in FileName
  BY <1>1 DEF FileName
<1>4. \A i \in Node : e[1] = <<"share", i>> => e[2] = ShareJson(out, i)
  BY <1>1
<1>5. \A i \in Node : e[1] = <<"config", i>> => e[2].key_file = <<"share", i>>
  <2>1. ASSUME NEW i \in Node, e[1] = <<"config", i>>
        PROVE  e[2].key_file = <<"share", i>>
    <3> DEFINE c == [key_file |-> <<"share", i>>]
    <3>1. c.key_file = <<"share", i>>
      BY Zenon
    <3>2. e[2] = c
      BY <1>1, <2>1
    <3> QED BY <3>1, <3>2, Zenon
  <2> QED BY <2>1, Zenon
<1> QED BY <1>2, <1>3, <1>4, <1>5, Zenon DEF e

\* One write of a ceremony leaves every file with contents of its kind.
LEMMA WriteKeepsFiles ==
  ASSUME NEW fs, FilesInv(fs), NEW out, Dealt(out), NEW k \in 1..(2 * Nodes + 1)
  PROVE  FilesInv([fs EXCEPT ![Writes(out)[k][1]] = Writes(out)[k][2]])
<1> DEFINE e == Writes(out)[k]
           new == [fs EXCEPT ![e[1]] = e[2]]
<1>1. /\ e[1] \in FileName
      /\ \A i \in Node :
           /\ e[1] = <<"share", i>> => e[2].pub.min \in Nat
           /\ e[1] = <<"config", i>> => e[2].key_file = <<"share", i>>
  BY WriteIsOfItsKind, Zenon
<1> HIDE DEF e
<1>2. /\ DOMAIN new = FileName
      /\ \A f \in FileName : new[f] = IF f = e[1] THEN e[2] ELSE fs[f]
  <2>1. DOMAIN fs = FileName
    BY Zenon DEF FilesInv
  <2> QED BY <2>1, Zenon
<1>3. \A i \in Node : <<"share", i>> \in FileName /\ <<"config", i>> \in FileName
  BY Zenon DEF FileName
<1> HIDE DEF new
<1> QED BY <1>1, <1>2, <1>3, Zenon DEF FilesInv, new, e

\* So do the writes of a whole ceremony.
LEMMA CeremonyFiles ==
  ASSUME NEW out, Dealt(out)
  PROVE  FilesInv(Written(out))
<1> DEFINE w == Writes(out)
           at(f) == CHOOSE i \in DOMAIN w : w[i][1] = f
<1>1. /\ DOMAIN w = 1..(2 * Nodes + 1)
      /\ \A i \in Node : w[i][1] = <<"share", i>> /\ w[Nodes + 1 + i][1] = <<"config", i>>
  <2>1. /\ DOMAIN w = 1..(2 * Nodes + 1)
        /\ \A i \in Node :
             /\ w[i] = <<<<"share", i>>, ShareJson(out, i)>>
             /\ w[Nodes + 1 + i] = <<<<"config", i>>, [key_file |-> <<"share", i>>]>>
    BY WritesInOrder, Zenon
  <2> HIDE DEF w, ShareJson
  <2>2. ASSUME NEW i \in Node PROVE w[i][1] = <<"share", i>>
    <3>1. w[i] = <<<<"share", i>>, ShareJson(out, i)>>
      BY <2>1, Zenon
    <3> QED BY <3>1
  <2>3. ASSUME NEW i \in Node PROVE w[Nodes + 1 + i][1] = <<"config", i>>
    <3> DEFINE c == [key_file |-> <<"share", i>>]
    <3>1. w[Nodes + 1 + i] = <<<<"config", i>>, c>>
      BY <2>1, Zenon
    <3> HIDE DEF c
    <3> QED BY <3>1
  <2> QED BY <2>1, <2>2, <2>3, Zenon
<1>2. Nodes \in Nat /\ Node = 1..Nodes
  BY KeyAssumption, Zenon DEF Node
<1>3. /\ DOMAIN Written(out) = FileName
      /\ \A f \in FileName : Written(out)[f] = w[at(f)][2]
  BY Zenon DEF Written
<1> HIDE DEF w
<1>4. ASSUME NEW i \in Node
      PROVE  /\ Written(out)[<<"share", i>>].pub.min \in Nat
             /\ Written(out)[<<"config", i>>].key_file = <<"share", i>>
  <2>1. <<"share", i>> \in FileName /\ <<"config", i>> \in FileName
    BY Zenon DEF FileName
  <2>2. i \in DOMAIN w /\ Nodes + 1 + i \in DOMAIN w
    BY <1>1, <1>2
  <2>3. at(<<"share", i>>) \in DOMAIN w /\ w[at(<<"share", i>>)][1] = <<"share", i>>
    BY <1>1, <2>2, Zenon
  <2>4. at(<<"config", i>>) \in DOMAIN w /\ w[at(<<"config", i>>)][1] = <<"config", i>>
    BY <1>1, <2>2, Zenon
  <2> HIDE DEF at
  <2>5. w[at(<<"share", i>>)][2].pub.min \in Nat
    BY <1>1, <2>3, WriteIsOfItsKind, Zenon DEF w
  <2>6. w[at(<<"config", i>>)][2].key_file = <<"share", i>>
    BY <1>1, <2>4, WriteIsOfItsKind, Zenon DEF w
  <2> QED BY <1>3, <2>1, <2>5, <2>6, Zenon
<1> QED BY <1>3, <1>4, Zenon DEF FilesInv

\* The approval an attestation leaves behind satisfies the property.
LEMMA AttestIsOfOneCeremony ==
  ASSUME KeyInv, NEW s \in SignerSeqs, Attest(s)
  PROVE  OneCeremonyPerApproval'
<1> DEFINE c == Cardinality(Range(s))
           held == {nodeShare[s[i]].key_package : i \in DOMAIN s}
           a == [signers |-> Range(s), coord |-> coord, held |-> held]
<1>1. /\ lastApproval' = a /\ Shares(s) # Err /\ Len(s) >= coord.threshold
      /\ \A i \in DOMAIN s : nodeShare[s[i]] # Err
  BY Zenon DEF Attest, enough_transports
<1>2. c = Len(s) /\ c \in Nat /\ \A i \in DOMAIN s : s[i] \in Node
  BY SignersAreDistinct, Zenon DEF SignerSeqs
<1>3. ASSUME NEW i \in DOMAIN s
      PROVE  /\ nodeShare[s[i]].key_package.key = coord.group_key.pub.key
             /\ c >= nodeShare[s[i]].key_package.min
  <2>1. nodeShare[s[i]].key_package.min \in Nat
    BY <1>1, <1>2, Zenon DEF KeyInv
  <2>2. PICK d \in Nat : d <= c /\ d >= nodeShare[s[i]].key_package.min
    BY <1>1, SharesOfOneKey, Zenon
  <2>3. nodeShare[s[i]].key_package.key = coord.group_key.pub.key
    BY <1>1, SharesOfOneKey, Zenon
  <2> HIDE DEF c
  <2> QED BY <1>2, <2>1, <2>2, <2>3
<1>4. \A kp \in held : kp.key = coord.group_key.pub.key /\ c >= kp.min
  BY <1>3, Zenon
<1> HIDE DEF held
<1>5. a.signers = Range(s) /\ a.coord = coord /\ a.held = held
  BY Zenon
<1> HIDE DEF a
<1> QED BY <1>1, <1>2, <1>4, <1>5, Zenon DEF OneCeremonyPerApproval

\* Every step of the processes keeps the invariant.
LEMMA KeyStep == KeyInv /\ [KeyNext]_keyvars => KeyInv'
<1> SUFFICES ASSUME KeyInv, [KeyNext]_keyvars PROVE KeyInv'
  BY Zenon
<1> DEFINE Running(x) == \/ x = NoCeremony
                        \/ \E n \in 1..(2 * Nodes + 1) : \E out :
                             Dealt(out) /\ x = [next |-> n, out |-> out]
           Loaded(ns) == /\ DOMAIN ns = Node
                         /\ \A i \in Node : ns[i] # Err => ns[i].key_package.min \in Nat
<1>0. /\ FilesInv(files) /\ runs \in Nat /\ Running(writing) /\ Loaded(nodeShare)
      /\ OneCeremonyPerApproval /\ Nodes \in Nat
  BY KeyAssumption, Zenon DEF KeyInv
<1>a. ASSUME FilesInv(files'), runs' \in Nat, Running(writing'), Loaded(nodeShare'),
             OneCeremonyPerApproval'
      PROVE  KeyInv'
  BY <1>a, Zenon DEF KeyInv, FilesInv, Dealt, NoCeremony
<1> HIDE DEF Running, Loaded
<1>b. lastApproval' = lastApproval => OneCeremonyPerApproval'
  BY <1>0, Zenon DEF OneCeremonyPerApproval
<1>1. CASE StartCeremony
  <2>1. PICK t \in Thresholds :
          LET out == frost_trusted_dealer_keygen(nodeVids, t, runs + 1)
          IN  out # Err /\ writing' = [next |-> 1, out |-> out]
    BY <1>1, Zenon DEF StartCeremony
  <2>2. Running(writing')
    <3>1. Dealt(frost_trusted_dealer_keygen(nodeVids, t, runs + 1))
      BY <1>0, <2>1, KeyAssumption DEF Dealt
    <3>2. 1 \in 1..(2 * Nodes + 1)
      BY <1>0
    <3> HIDE DEF Dealt
    <3> QED BY <2>1, <3>1, <3>2, Zenon DEF Running
  <2> QED BY <1>0, <1>1, <1>a, <1>b, <2>2 DEF StartCeremony
<1>2. CASE WriteFile
  <2>1. PICK n \in 1..(2 * Nodes + 1) : \E out :
          Dealt(out) /\ writing = [next |-> n, out |-> out]
    BY <1>0, <1>2, Zenon DEF Running, WriteFile
  <2>2. PICK out : Dealt(out) /\ writing = [next |-> n, out |-> out]
    BY <2>1, Zenon
  <2>3. writing.next = n /\ writing.out = out
    BY <2>2, Zenon
  <2>4. /\ files' = [files EXCEPT ![Writes(out)[n][1]] = Writes(out)[n][2]]
        /\ writing' = IF n = Len(Writes(out)) THEN NoCeremony
                      ELSE [writing EXCEPT !.next = @ + 1]
    BY <1>2, <2>3, Zenon DEF WriteFile
  <2>5. FilesInv(files')
    BY <1>0, <2>2, <2>4, WriteKeepsFiles, Zenon
  <2>6. Running(writing')
    <3>1. Len(Writes(out)) = 2 * Nodes + 1
      BY WritesInOrder, Zenon
    <3>2. [writing EXCEPT !.next = @ + 1] = [next |-> n + 1, out |-> out]
      BY <2>2
    <3>3. n # 2 * Nodes + 1 => n + 1 \in 1..(2 * Nodes + 1)
      BY <1>0
    <3> QED BY <2>2, <2>4, <3>1, <3>2, <3>3, Zenon DEF Running
  <2> QED BY <1>0, <1>2, <1>a, <1>b, <2>5, <2>6, Zenon DEF WriteFile
<1>3. CASE StopCeremony
  <2>1. Running(writing')
    BY <1>3, Zenon DEF StopCeremony, Running
  <2> QED BY <1>0, <1>3, <1>a, <1>b, <2>1, Zenon DEF StopCeremony
<1>4. ASSUME NEW i \in Node, StartAux(i) PROVE KeyInv'
  <2> DEFINE json == files[<<"share", i>>]
             p == participant_from_json(json)
  <2>1. p # Err /\ nodeShare' = [nodeShare EXCEPT ![i] = p]
    BY <1>0, <1>4, Zenon DEF StartAux, FilesInv
  <2>2. json # Err /\ p = FrostParticipant(json.pub, json.id, json.vid)
    BY <2>1, Zenon DEF participant_from_json
  <2>3. p.key_package.min \in Nat
    <3>1. json.pub.min \in Nat
      BY <1>0, <2>2, Zenon DEF FilesInv
    <3>2. p.key_package = json.pub
      BY <2>2 DEF FrostParticipant
    <3> QED BY <3>1, <3>2, Zenon
  <2> HIDE DEF p
  <2>4. Loaded(nodeShare')
    BY <1>0, <2>1, <2>3, Zenon DEF Loaded
  <2> QED BY <1>0, <1>4, <1>a, <1>b, <2>4, Zenon DEF StartAux
<1>5. ASSUME NEW i \in Node, StopAux(i) PROVE KeyInv'
  <2>1. Loaded(nodeShare')
    BY <1>0, <1>5, Zenon DEF Loaded, StopAux
  <2> QED BY <1>0, <1>5, <1>a, <1>b, <2>1, Zenon DEF StopAux
<1>6. ASSUME NEW cfg \in CoordConfigs, StartCoordinator(cfg) PROVE KeyInv'
  BY <1>0, <1>6, <1>a, <1>b DEF StartCoordinator
<1>7. ASSUME NEW s \in SignerSeqs, Attest(s) PROVE KeyInv'
  <2>1. OneCeremonyPerApproval'
    BY <1>7, AttestIsOfOneCeremony, Zenon
  <2> QED BY <1>0, <1>7, <1>a, <2>1, Zenon DEF Attest
<1>8. CASE UNCHANGED keyvars
  BY <1>0, <1>8, <1>a, <1>b DEF keyvars
<1> QED BY <1>1, <1>2, <1>3, <1>4, <1>5, <1>6, <1>7, <1>8, Zenon DEF KeyNext

\* Whatever mixture of the files of several ceremonies the nodes and the
\* coordinator were started from, for any number of nodes, ceremonies and
\* thresholds: an approval the coordinator returns was signed by enough
\* holders of shares of the one ceremony whose group key it loaded
\* (aggregate_signature_shares, verify_signature).
THEOREM ApprovalsAreOfOneCeremony == KeySpec => []OneCeremonyPerApproval
<1>1. KeyInit => KeyInv
  <2> SUFFICES ASSUME KeyInit PROVE KeyInv
    BY Zenon
  <2>1. FilesInv(files) /\ runs \in Nat
    <3>1. CASE files = [f \in FileName |-> Err] /\ runs = 0
      <4>1. \A i \in Node : <<"share", i>> \in FileName /\ <<"config", i>> \in FileName
        BY Zenon DEF FileName
      <4> QED BY <3>1, <4>1, Zenon DEF FilesInv
    <3>2. ASSUME NEW t \in Thresholds, runs = 1,
                 frost_trusted_dealer_keygen(nodeVids, t, 1) # Err,
                 files = Written(frost_trusted_dealer_keygen(nodeVids, t, 1))
          PROVE  FilesInv(files) /\ runs \in Nat
      <4>1. Dealt(frost_trusted_dealer_keygen(nodeVids, t, 1))
        BY <3>2, KeyAssumption, Zenon DEF Dealt
      <4> QED BY <3>2, <4>1, CeremonyFiles, Zenon
    <3> QED BY <3>1, <3>2, Zenon DEF KeyInit
  <2>2. /\ writing = NoCeremony /\ nodeShare = [i \in Node |-> Err] /\ lastApproval = Err
    BY Zenon DEF KeyInit
  <2> QED BY <2>1, <2>2, Zenon DEF KeyInv, OneCeremonyPerApproval
<1>2. KeyInv => OneCeremonyPerApproval
  BY Zenon DEF KeyInv
<1> QED BY <1>1, <1>2, KeyStep, PTL DEF KeySpec

---------------------------------------------------------------------------
(* RcPhase.                                                                *)

\* The number of verifiers, and the key their polynomials sum to.
RcN == Len(RcVids)
RcKey == {<<"rc", i>> : i \in 1..RcN}

\* The keys the DKG of the orchestrator leaves behind.
LEMMA DkgOutcome ==
  /\ RcN \in Nat /\ DOMAIN RcVids = 1..RcN
  /\ RcThreshold \in 2..RcN
  /\ \A i \in 1..RcN :
       orchestrator[i].participant
         = Secp256k1FrostParticipant(
             KeyPackage(Secp256k1, RcKey, i, RcThreshold), RcVids[i])
  /\ rc_group_key.pub = PublicKeyPackage(Secp256k1, RcKey, 1..RcN, RcThreshold)
<1> DEFINE n == RcN
           t == RcThreshold
           p1 == [i \in 1..n |-> secp256k1_dkg_part1(i, n, t, "rc")]
           others(i) == [j \in (1..n) \ {i} |-> p1[j].package]
           p2 == [i \in 1..n |-> secp256k1_dkg_part2(p1[i].state, others(i))]
           inbound(i) == [j \in (1..n) \ {i} |-> p2[j].outbound[i]]
           p3 == [i \in 1..n |-> secp256k1_dkg_part3(RcVids[i], i, p2[i].state,
                                   others(i), inbound(i), RcVids)]
<1>1. n \in Nat /\ DOMAIN RcVids = 1..n /\ t \in Nat /\ orchestrator # Err
  BY RcAssumption DEF RcN
<1>2. ~AnyErr(p1) /\ ~AnyErr(p2) /\ ~AnyErr(p3) /\ orchestrator = p3
  BY <1>1, Zenon DEF orchestrator, run_secp256k1_dkg, RcN
<1>3. \A i \in 1..n : p1[i] # Err /\ p2[i] # Err /\ p3[i] # Err
  BY <1>2, Zenon DEF AnyErr
<1>4. n >= 2 /\ t >= 2 /\ t <= n
  <2> HIDE DEF p2, p3
  <2>1. 1 \in 1..n
    BY RcAssumption DEF RcN
  <2>2. secp256k1_dkg_part1(1, n, t, "rc") # Err
    <3>1. p1[1] = secp256k1_dkg_part1(1, n, t, "rc")
      BY <2>1, Zenon
    <3> HIDE DEF p1, n, t
    <3> QED BY <1>3, <2>1, <3>1, Zenon
  <2> HIDE DEF n, t
  <2>3. ~(n < 2 \/ t < 2 \/ t > n)
    BY ONLY <2>2, Zenon DEF secp256k1_dkg_part1
  <2> QED BY <1>1, <2>3
<1> HIDE DEF n
<1>5. \A i \in 1..n : p1[i] = [state |-> [id |-> i, n |-> n, t |-> t, poly |-> <<"rc", i>>],
                               package |-> <<"commitments", <<"rc", i>>>>]
  <2> TAKE i \in 1..n
  <2> QED BY <1>1, <1>4 DEF secp256k1_dkg_part1
<1> DEFINE st(i) == [id |-> i, n |-> n, t |-> t, poly |-> <<"rc", i>>]
<1>6. \A i \in 1..n : p1[i].state = st(i) /\ p1[i].package = <<"commitments", <<"rc", i>>>>
  <2> TAKE i \in 1..n
  <2> HIDE DEF st
  <2> DEFINE r == [state |-> st(i), package |-> <<"commitments", <<"rc", i>>>>]
  <2>1. r.state = st(i) /\ r.package = <<"commitments", <<"rc", i>>>>
    BY Zenon
  <2>2. p1[i] = r
    BY <1>5, Zenon DEF st
  <2> HIDE DEF r
  <2> QED BY <2>1, <2>2, Zenon
<1> HIDE DEF p1
<1>7. \A i \in 1..n : p2[i].state = st(i)
  <2> TAKE i \in 1..n
  <2> DEFINE out == [j \in DOMAIN others(i) |-> <<"eval", p1[i].state.poly, j>>]
             r == [state |-> p1[i].state, outbound |-> out]
  <2>1. p2[i] = secp256k1_dkg_part2(p1[i].state, others(i))
    BY Zenon
  <2>2. p2[i] = r
    BY <1>3, <2>1, Zenon DEF secp256k1_dkg_part2
  <2>3. r.state = p1[i].state
    BY Zenon
  <2> QED BY <1>6, <2>2, <2>3, Zenon
<1> HIDE DEF p2
<1>8. \A i \in 1..n : /\ DOMAIN others(i) \cup {i} = 1..n
                       /\ {others(i)[j][2] : j \in DOMAIN others(i)} \cup {st(i).poly} = RcKey
  <2> TAKE i \in 1..n
  <2>1. st(i).poly = <<"rc", i>>
    BY Zenon
  <2>2. DOMAIN others(i) = (1..n) \ {i}
    BY Zenon
  <2>3. \A j \in (1..n) \ {i} : others(i)[j][2] = <<"rc", j>>
    <3> TAKE j \in (1..n) \ {i}
    <3>1. others(i)[j] = <<"commitments", <<"rc", j>>>>
      BY <1>6, Zenon
    <3> HIDE DEF others
    <3> QED BY <3>1
  <2> HIDE DEF others, st
  <2> QED BY <2>1, <2>2, <2>3, Zenon DEF RcKey, n
<1>9. ASSUME NEW i \in 1..n
      PROVE  /\ p3[i].participant = Secp256k1FrostParticipant(
                                      KeyPackage(Secp256k1, RcKey, i, t), RcVids[i])
             /\ p3[i].group_key.pub = PublicKeyPackage(Secp256k1, RcKey, 1..n, t)
  <2> DEFINE o == others(i)
             ids == DOMAIN o \cup {i}
             key == {o[j][2] : j \in DOMAIN o} \cup {st(i).poly}
             sorted == Ascending(ids)
             kp == KeyPackage(Secp256k1, key, i, st(i).t)
             pub == PublicKeyPackage(Secp256k1, key, ids, st(i).t)
             map == InsertAll([j \in 1..(IF Len(RcVids) < Len(sorted)
                                        THEN Len(RcVids) ELSE Len(sorted)) |->
                                 <<RcVids[j], sorted[j]>>])
             part == Secp256k1FrostParticipant(kp, RcVids[i])
             gk == Secp256k1GroupKey(pub, map)
  <2>1. p3[i] = secp256k1_dkg_part3(RcVids[i], i, st(i), o, inbound(i), RcVids)
    BY <1>7, Zenon
  <2>2. secp256k1_dkg_part3(RcVids[i], i, st(i), o, inbound(i), RcVids) # Err
    BY <1>3, <2>1, Zenon
  <2> HIDE DEF o, inbound, st
  <2>3. p3[i] = [participant |-> part, group_key |-> gk]
    BY <2>1, <2>2, Zenon DEF secp256k1_dkg_part3
  <2>4. st(i).t = t
    BY Zenon DEF st
  <2>5. ids = 1..n /\ key = RcKey
    BY <1>8, Zenon DEF o
  <2> HIDE DEF ids, key, sorted, kp, pub, map
  <2>6. gk.pub = pub
    BY Zenon DEF Secp256k1GroupKey
  <2> HIDE DEF part, gk
  <2>7. p3[i].participant = part /\ p3[i].group_key = gk
    <3> HIDE DEF p3
    <3> QED BY <2>3
  <2> QED BY <2>4, <2>5, <2>6, <2>7, Zenon DEF part, kp, pub
<1>10. 1 \in 1..n
  BY <1>1, <1>4
<1> HIDE DEF p3
<1> QED BY <1>1, <1>2, <1>4, <1>9, <1>10 DEF rc_group_key, n

\* The answers of the verifiers at the positions f[1], f[2], ...
RcAnswers(s, f) == [k \in DOMAIN f |-> rc_partial_eval(f[k], from_session(s))]

\* The nonces each verifier derives for the input of a session.
RcNonces(s) ==
  [i \in 1..RcN |-> secp256k1_dvrf_nonce_seed(orchestrator[i].participant,
                                              from_session(s))]

\* One answer, and the participant it is paired with.
LEMMA AnswerOf ==
  ASSUME NEW s, NEW i \in 1..RcN
  PROVE  LET e == rc_partial_eval(i, from_session(s))
         IN  /\ e.verifier_id = RcVids[i]
             /\ e.inner.commitment.identifier = i
             /\ e.inner.commitment.inner = Commit(RcNonces(s)[i])
             /\ e.inner.nonces = RcNonces(s)[i]
<1> DEFINE p == orchestrator[i].participant
           no == RcNonces(s)[i]
           c == [identifier |-> p.key_package.id, inner |-> Commit(no)]
           pe == [verifier_id |-> p.verifier_id, commitment |-> c, nonces |-> no]
           e == [verifier_id |-> RcVids[i], inner |-> pe]
<1>1. no = secp256k1_dvrf_nonce_seed(p, from_session(s))
  BY Zenon DEF RcNonces
<1>2. p.key_package.id = i
  <2> DEFINE kp == KeyPackage(Secp256k1, RcKey, i, RcThreshold)
  <2>1. p = Secp256k1FrostParticipant(kp, RcVids[i])
    BY DkgOutcome, Zenon
  <2>2. kp.id = i
    BY Zenon DEF KeyPackage
  <2> HIDE DEF kp, p
  <2>3. p.key_package = kp
    BY <2>1, Zenon DEF Secp256k1FrostParticipant
  <2> QED BY <2>2, <2>3, Zenon
<1> HIDE DEF p, no
<1>3. rc_partial_eval(i, from_session(s)) = e
  <2> DEFINE r1 == [nonces |-> no, commitment |-> c]
  <2>1. secp256k1_round1_dvrf(p, from_session(s)) = r1
    BY <1>1, Zenon DEF secp256k1_round1_dvrf, secp256k1_round1
  <2>2. r1.nonces = no /\ r1.commitment = c
    <3> HIDE DEF c
    <3> QED BY Zenon
  <2> HIDE DEF r1, c
  <2>3. partial_eval(p, from_session(s)) = pe
    BY <2>1, <2>2, Zenon DEF partial_eval
  <2> HIDE DEF pe
  <2> QED BY <2>3, Zenon DEF rc_partial_eval, p
<1>4. c.identifier = i /\ c.inner = Commit(no)
  BY <1>2, Zenon
<1> HIDE DEF c
<1>5. pe.commitment = c /\ pe.nonces = no
  BY Zenon
<1> HIDE DEF pe
<1>6. e.verifier_id = RcVids[i] /\ e.inner = pe
  BY Zenon
<1> HIDE DEF e
<1> QED BY <1>3, <1>4, <1>5, <1>6, Zenon DEF no

\* Each answer is paired with the participant that made it.
LEMMA RefsOf ==
  ASSUME NEW s, NEW m \in Nat, NEW f \in [1..m -> 1..RcN]
  PROVE  participant_refs(RcAnswers(s, f))
           = [k \in 1..m |-> orchestrator[f[k]].participant]
<1> DEFINE es == RcAnswers(s, f)
           P == {k \in DOMAIN es : es[k].verifier_id \in Range(RcVids)}
           index(v) == CHOOSE i \in DOMAIN RcVids :
                         RcVids[i] = v /\ \A j \in 1..(i - 1) : RcVids[j] # v
           known == Filtered(es, P)
<1>1. DOMAIN es = 1..m /\ \A k \in 1..m : es[k] = rc_partial_eval(f[k], from_session(s))
  BY Zenon DEF RcAnswers
<1>2. DOMAIN RcVids = 1..RcN /\ RcN \in Nat
  BY DkgOutcome, Zenon
<1> HIDE DEF es
<1>3. \A k \in 1..m : f[k] \in 1..RcN /\ es[k].verifier_id = RcVids[f[k]]
  BY <1>1, AnswerOf
<1>4. P = 1..m
  <2>1. \A i \in 1..RcN : RcVids[i] \in Range(RcVids)
    BY <1>2, Zenon DEF Range
  <2> QED BY <1>1, <1>3, <2>1, Zenon
<1> HIDE DEF P
<1>5. DOMAIN known = 1..m /\ \A k \in 1..m : known[k] = es[k]
  BY <1>4, FilteredAll, Zenon
<1>6. \A i \in 1..RcN : index(RcVids[i]) = i
  <2> TAKE i \in 1..RcN
  <2>1. \A j \in 1..RcN : RcVids[j] = RcVids[i] => j = i
    BY <1>2, RcAssumption, Zenon
  <2>2. \A j \in 1..(i - 1) : RcVids[j] # RcVids[i]
    <3>1. \A j \in 1..(i - 1) : j \in 1..RcN /\ j # i
      BY <1>2
    <3> QED BY <2>1, <3>1, Zenon
  <2> QED BY <1>2, <2>1, <2>2, Zenon
<1>7. participant_refs(es) = [k \in DOMAIN known |->
                               orchestrator[index(known[k].verifier_id)].participant]
  BY Zenon DEF participant_refs, P
<1> HIDE DEF known, index
<1>8. \A k \in 1..m : index(known[k].verifier_id) = f[k]
  BY <1>3, <1>5, <1>6
<1>9. [k \in DOMAIN known |-> orchestrator[index(known[k].verifier_id)].participant]
        = [k \in 1..m |-> orchestrator[f[k]].participant]
  BY <1>5, <1>8, Zenon
<1> QED BY <1>7, <1>9, Zenon DEF es

\* What a combination of answers is: decided by which verifiers answered,
\* however often and in whichever order.
LEMMA CombineValue ==
  ASSUME NEW s \in RcSessions, NEW m \in Nat, NEW f \in [1..m -> 1..RcN],
         NEW D, \A k \in 1..m : f[k] \in D, \A i \in D : \E k \in 1..m : f[k] = i
  PROVE  rc_combine(from_session(s), RcAnswers(s, f))
           = IF Cardinality(D) < RcThreshold THEN Err ELSE RcResults(s, D).out
<1> DEFINE alpha == from_session(s)
           t == RcThreshold
           es == RcAnswers(s, f)
           no == RcNonces(s)
           p(i) == orchestrator[i].participant
           evals == [k \in DOMAIN es |-> es[k].inner]
           refs == [k \in 1..m |-> p(f[k])]
           com == [i \in D |-> Commit(no[i])]
           pkg == SigningPackage(com, alpha)
           share(i) == [pkg |-> pkg, key |-> RcKey, id |-> i]
           reply(i) == [identifier |-> i, inner |-> share(i)]
           sig == [key |-> RcKey, pkg |-> pkg]
           approval == [signature |-> sig, group_key |-> RcKey]
           out == [rand |-> derive_rand(sig), proof |-> approval]
           shares == round2_shares(refs, evals, pkg)
           pub == PublicKeyPackage(Secp256k1, RcKey, 1..RcN, t)
<1>1. /\ RcN \in Nat /\ DOMAIN RcVids = 1..RcN /\ t \in 2..RcN
      /\ rc_group_key.pub = pub
      /\ \A k \in 1..m : f[k] \in 1..RcN
      /\ D \in SUBSET (1..RcN)
  BY DkgOutcome, Zenon
<1>2. pub.key = RcKey /\ pub.ids = 1..RcN /\ pub.min = t
  BY Zenon DEF PublicKeyPackage
<1> HIDE DEF pub
<1>3. /\ pkg.commits = com /\ pkg.message = alpha
      /\ DOMAIN com = D /\ \A i \in D : com[i] = Commit(no[i])
  BY Zenon DEF SigningPackage
<1>4. /\ DOMAIN evals = 1..m
      /\ \A k \in 1..m : /\ evals[k].commitment.identifier = f[k]
                          /\ evals[k].commitment.inner = Commit(no[f[k]])
                          /\ evals[k].nonces = no[f[k]]
  <2>1. /\ DOMAIN evals = 1..m
        /\ \A k \in 1..m : evals[k] = rc_partial_eval(f[k], alpha).inner
    BY Zenon DEF RcAnswers
  <2>2. \A k \in 1..m :
          LET e == rc_partial_eval(f[k], alpha)
          IN  /\ e.inner.commitment.identifier = f[k]
              /\ e.inner.commitment.inner = Commit(no[f[k]])
              /\ e.inner.nonces = no[f[k]]
    BY <1>1, AnswerOf
  <2> HIDE DEF evals, no
  <2> QED BY <2>1, <2>2, Zenon
<1>5. \A i \in D : p(i) = Secp256k1FrostParticipant(
                            KeyPackage(Secp256k1, RcKey, i, t), RcVids[i])
  BY <1>1, DkgOutcome, Zenon
<1>6. \A i \in D : /\ p(i).key_package.key = RcKey /\ p(i).key_package.id = i
                    /\ p(i).key_package.min = t
  <2> TAKE i \in D
  <2> DEFINE kp == KeyPackage(Secp256k1, RcKey, i, t)
  <2>1. kp.key = RcKey /\ kp.id = i /\ kp.min = t
    BY Zenon DEF KeyPackage
  <2>2. Secp256k1FrostParticipant(kp, RcVids[i]).key_package = kp
    BY Zenon DEF Secp256k1FrostParticipant
  <2> HIDE DEF kp
  <2>3. p(i) = Secp256k1FrostParticipant(kp, RcVids[i])
    BY <1>5, Zenon DEF kp
  <2> QED BY <2>1, <2>2, <2>3, Zenon
<1>7. RcResults(s, D) = [shares |-> {share(i) : i \in D}, replies |-> {reply(i) : i \in D},
        sig |-> sig, approval |-> approval, dvrf |-> out,
        out |-> [rand |-> out.rand, dvrf_output |-> out, alpha |-> alpha]]
  <2>1. rc_group_key.pub.key = RcKey
    BY <1>1, <1>2, Zenon
  <2>2. com = [i \in D |-> Commit(secp256k1_dvrf_nonce_seed(orchestrator[i].participant, alpha))]
    BY <1>1, Zenon DEF RcNonces
  <2> HIDE DEF com
  <2> QED BY <2>1, <2>2 DEF RcResults
<1> DEFINE result == [rand |-> out.rand, dvrf_output |-> out, alpha |-> alpha]
<1> HIDE DEF com, es, no, pkg, refs, evals, shares
<1>8. /\ \A i \in D : share(i) # Err /\ reply(i) # Err
      /\ sig # Err /\ approval # Err /\ out # Err /\ result # Err
      /\ RcResults(s, D).out = result
  <2> DEFINE r == RcResults(s, D)
  <2>1. Err \notin r.shares \cup r.replies \cup {r.sig, r.approval, r.dvrf, r.out}
    BY <1>1, RcAssumption, Zenon
  <2> DEFINE ss == {share(i) : i \in D}
             rs == {reply(i) : i \in D}
  <2>2. (\A i \in D : share(i) \in ss) /\ (\A i \in D : reply(i) \in rs)
    BY Zenon
  <2> HIDE DEF share, reply, sig, approval, out, result, ss, rs
  <2>3. r = [shares |-> ss, replies |-> rs, sig |-> sig, approval |-> approval,
             dvrf |-> out, out |-> result]
    BY <1>7, Zenon DEF share, reply, sig, approval, out, result, ss, rs
  <2> HIDE DEF r
  <2>4. /\ r.shares = ss /\ r.replies = rs /\ r.sig = sig /\ r.approval = approval
        /\ r.dvrf = out /\ r.out = result
    BY <2>3, Zenon
  <2> QED BY <2>1, <2>2, <2>4, Zenon DEF r
<1> HIDE DEF p
<1>9. secp256k1_build_signing_package([k \in DOMAIN evals |-> evals[k].commitment], alpha) = pkg
  <2> DEFINE cs == [k \in DOMAIN evals |-> evals[k].commitment]
             pairs == [k \in DOMAIN cs |-> <<cs[k].identifier, cs[k].inner>>]
  <2>1. /\ DOMAIN pairs = 1..m
        /\ \A k \in 1..m : pairs[k][1] = f[k] /\ pairs[k][2] = Commit(no[f[k]])
    BY <1>4, Zenon
  <2>2. secp256k1_build_signing_package(cs, alpha) = SigningPackage(InsertAll(pairs), alpha)
    BY Zenon DEF secp256k1_build_signing_package
  <2> HIDE DEF pairs, cs
  <2>3. \A k \in 1..m : pairs[k][1] \in D /\ pairs[k][2] = com[pairs[k][1]]
    BY <1>3, <2>1
  <2>4. \A i \in D : \E k \in 1..m : pairs[k][1] = i
    BY <2>1
  <2>5. com = [i \in D |-> com[i]]
    BY Zenon DEF com
  <2>6. PairsOf(pairs, m, D, com)
    BY <2>1, <2>3, <2>4, <2>5, Zenon DEF PairsOf
  <2>7. InsertAll(pairs) = com
    BY <2>6, InsertedFunction, Zenon
  <2> QED BY <2>2, <2>7, Zenon DEF pkg, cs
<1>10. /\ DOMAIN shares = 1..m
       /\ \A k \in 1..m : shares[k] = secp256k1_round2(p(f[k]), pkg, no[f[k]])
  <2>1. Len(refs) = m /\ Len(evals) = m
    BY <1>4 DEF refs
  <2>2. \A k \in 1..m : refs[k] = p(f[k]) /\ evals[k].nonces = no[f[k]]
    BY <1>4, Zenon DEF refs
  <2> QED BY <2>1, <2>2, Zenon DEF shares, round2_shares
<1>11. \A i \in D : secp256k1_round2(p(i), pkg, no[i])
                     = IF Cardinality(D) >= t THEN reply(i) ELSE Err
  <2> TAKE i \in D
  <2>1. sign(pkg, no[i], p(i).key_package) = IF Cardinality(D) >= t THEN share(i) ELSE Err
    BY <1>3, <1>6, Zenon DEF sign
  <2> HIDE DEF share
  <2> QED BY <1>6, <1>8, <2>1, Zenon DEF secp256k1_round2
<1>12. rc_combine(alpha, es) =
         LET o == combine(rc_group_key, alpha, evals, refs)
         IN  IF Len(es) < t \/ o = Err THEN Err
             ELSE [rand |-> o.rand, dvrf_output |-> o, alpha |-> alpha]
  <2>1. participant_refs(es) = refs
    BY RefsOf DEF es, refs, p
  <2> QED BY <2>1, Zenon DEF rc_combine, evals
<1>13. Len(es) = m
  BY DEF es, RcAnswers
<1>14. Cardinality(D) \in Nat /\ Cardinality(D) <= m
  <2>1. f \in Surjection(1..m, D)
    BY <1>1, Zenon DEF Surjection
  <2>2. IsFiniteSet(1..m) /\ Cardinality(1..m) = m
    BY FS_Interval
  <2>3. IsFiniteSet(D) /\ Cardinality(D) <= m
    BY <2>1, <2>2, FS_Surjection
  <2> QED BY <2>3, FS_CardinalityType, Zenon
<1>15. CASE Cardinality(D) < t
  <2>1. CASE m = 0
    <3>1. Len(es) < t
      BY <1>1, <1>13, <2>1
    <3> QED BY <1>12, <1>15, <3>1, Zenon DEF es
  <2>2. CASE m # 0
    <3>1. 1 \in 1..m
      BY <2>2
    <3>2. shares[1] = Err
      <4>1. f[1] \in D /\ ~(Cardinality(D) >= t)
        BY <1>1, <1>14, <1>15, <3>1
      <4> HIDE DEF reply
      <4> QED BY <1>10, <1>11, <3>1, <4>1, Zenon
    <3>3. AnyErr(shares)
      BY <1>10, <3>1, <3>2, Zenon DEF AnyErr
    <3>4. combine(rc_group_key, alpha, evals, refs) = Err
      BY <1>9, <3>3, Zenon DEF combine, shares
    <3> QED BY <1>12, <1>15, <3>4, Zenon DEF es
  <2> QED BY <2>1, <2>2, Zenon
<1>16. CASE ~(Cardinality(D) < t)
  <2>1. Cardinality(D) >= t /\ ~(Len(es) < t)
    BY <1>1, <1>13, <1>14, <1>16
  <2>2. \A k \in 1..m : shares[k] = reply(f[k])
    BY <1>1, <1>10, <1>11, <2>1, Zenon
  <2>3. ~AnyErr(shares)
    <3>1. \A k \in 1..m : f[k] \in D
      BY <1>1, Zenon
    <3> HIDE DEF reply
    <3>2. \A k \in 1..m : shares[k] # Err
      BY ONLY <1>8, <2>2, <3>1, Zenon
    <3> QED BY ONLY <1>10, <3>2, Zenon DEF AnyErr
  <2>4. InsertAll([k \in DOMAIN shares |-> <<shares[k].identifier, shares[k].inner>>])
          = [i \in D |-> share(i)]
    <3> DEFINE pairs == [k \in DOMAIN shares |-> <<shares[k].identifier, shares[k].inner>>]
               g == [i \in D |-> share(i)]
    <3>1. \A k \in 1..m : shares[k].identifier = f[k] /\ shares[k].inner = share(f[k])
      <4> TAKE k \in 1..m
      <4> HIDE DEF share
      <4>1. reply(f[k]).identifier = f[k] /\ reply(f[k]).inner = share(f[k])
        BY Zenon
      <4> HIDE DEF reply
      <4> QED BY <2>2, <4>1, Zenon
    <3> HIDE DEF share
    <3>2. /\ DOMAIN pairs = 1..m
          /\ \A k \in 1..m : pairs[k][1] = f[k] /\ pairs[k][2] = share(f[k])
      BY <1>10, <3>1, Zenon
    <3>3. \A i \in D : g[i] = share(i)
      BY Zenon
    <3> HIDE DEF pairs, g
    <3>4. \A k \in 1..m : pairs[k][1] \in D /\ pairs[k][2] = g[pairs[k][1]]
      BY <3>2, <3>3
    <3>5. \A i \in D : \E k \in 1..m : pairs[k][1] = i
      BY <3>2
    <3>6. g = [i \in D |-> g[i]]
      BY Zenon DEF g
    <3>7. PairsOf(pairs, m, D, g)
      BY <3>2, <3>4, <3>5, <3>6, Zenon DEF PairsOf
    <3>8. InsertAll(pairs) = g
      BY <3>7, InsertedFunction, Zenon
    <3> QED BY <3>8, Zenon DEF pairs, g
  <2>5. aggregate(pkg, [i \in D |-> share(i)], rc_group_key.pub) = sig
    <3> DEFINE g == [i \in D |-> share(i)]
    <3>1. DOMAIN g = D /\ \A i \in D : g[i] = [pkg |-> pkg, key |-> pub.key, id |-> i]
      BY <1>2, Zenon
    <3> HIDE DEF g
    <3>2. aggregate(pkg, g, pub) = [key |-> pub.key, pkg |-> pkg]
      BY <1>1, <1>2, <1>3, <2>1, <3>1, Zenon DEF aggregate
    <3> QED BY <1>1, <1>2, <3>2, Zenon DEF g
  <2>6. secp256k1_aggregate_signature_shares(pkg, shares, rc_group_key) = approval
    <3> HIDE DEF share, sig
    <3> QED BY <1>1, <1>2, <1>8, <2>4, <2>5, Zenon DEF secp256k1_aggregate_signature_shares
  <2>7. combine(rc_group_key, alpha, evals, refs) = out
    <3>1. approval.signature = sig
      <4> HIDE DEF sig
      <4> QED BY Zenon
    <3> HIDE DEF approval, sig
    <3> QED BY <1>8, <1>9, <2>3, <2>6, <3>1, Zenon DEF combine, shares
  <2> HIDE DEF out
  <2>8. rc_combine(alpha, es) = result
    BY <1>8, <1>12, <2>1, <2>7, Zenon
  <2> QED BY <1>8, <1>16, <2>8, Zenon DEF es
<1> QED BY <1>15, <1>16, Zenon

\* What combine returns, with whose answers it had.
RcReturned(s, D) ==
  [s |-> s, from |-> {RcVids[i] : i \in D},
   out |-> IF Cardinality(D) < RcThreshold THEN Err ELSE RcResults(s, D).out]

\* The answers kept for a session are answers for this session.
EvalsInv(evals) ==
  /\ DOMAIN evals = RcSessions
  /\ \A s \in RcSessions : \E m \in Nat : \E f \in [1..m -> 1..RcN] :
       evals[s] = RcAnswers(s, f)

\* The inductive invariant of the orchestrator.
RcInv ==
  /\ EvalsInv(rcEvals)
  /\ rcOut = Err \/ \E s \in RcSessions, D \in SUBSET (1..RcN) :
                        rcOut = RcReturned(s, D)
  /\ RandomnessIsForItsSession

\* One more answer.
LEMMA AnswerAppended ==
  ASSUME NEW s, NEW m \in Nat, NEW f \in [1..m -> 1..RcN], NEW i \in 1..RcN
  PROVE  \E g \in [1..(m + 1) -> 1..RcN] :
           Append(RcAnswers(s, f), rc_partial_eval(i, from_session(s))) = RcAnswers(s, g)
<1> DEFINE g == [k \in 1..(m + 1) |-> IF k <= m THEN f[k] ELSE i]
           e(k) == rc_partial_eval(k, from_session(s))
           a == [k \in 1..m |-> e(f[k])]
           b == [k \in 1..(m + 1) |-> e(g[k])]
           X == {e(k) : k \in 1..RcN}
<1>1. g \in [1..(m + 1) -> 1..RcN]
  OBVIOUS
<1>2. a = RcAnswers(s, f) /\ b = RcAnswers(s, g)
  BY Zenon DEF RcAnswers
<1>3. /\ \A k \in 1..m : g[k] = f[k] /\ a[k] = e(f[k]) /\ b[k] = e(f[k])
      /\ g[m + 1] = i /\ b[m + 1] = e(i) /\ e(i) \in X
      /\ a \in [1..m -> X] /\ b \in [1..(m + 1) -> X]
  <2>1. \A k \in 1..m : k \in 1..(m + 1) /\ k <= m
    OBVIOUS
  <2>2. m + 1 \in 1..(m + 1) /\ ~(m + 1 <= m)
    OBVIOUS
  <2>3. (\A k \in 1..m : g[k] = f[k]) /\ g[m + 1] = i
    BY <2>1, <2>2, Zenon
  <2> HIDE DEF g, e
  <2> QED BY <1>1, <2>1, <2>2, <2>3, Zenon
<1> HIDE DEF a, b, X, e, g
<1>4. a \in Seq(X) /\ Len(a) = m /\ b \in Seq(X) /\ Len(b) = m + 1
  BY <1>3
<1>5. Append(a, e(i)) = b
  <2> DEFINE c == Append(a, e(i))
  <2>1. /\ c \in Seq(X) /\ Len(c) = m + 1 /\ c[m + 1] = e(i)
        /\ \A k \in 1..m : c[k] = a[k]
    BY <1>3, <1>4
  <2> HIDE DEF c
  <2>2. \A k \in 1..(m + 1) : c[k] = b[k]
    <3> TAKE k \in 1..(m + 1)
    <3>1. k \in 1..m \/ k = m + 1
      OBVIOUS
    <3> QED BY <1>3, <2>1, <3>1, Zenon
  <2>3. c \in [1..(m + 1) -> X]
    BY <2>1
  <2> QED BY <1>3, <2>2, <2>3 DEF c
<1> QED BY <1>1, <1>2, <1>5, Zenon DEF e

\* Who took part is what rcOut.from says.
LEMMA RcOutOf ==
  ASSUME NEW s \in RcSessions, NEW m \in Nat, NEW f \in [1..m -> 1..RcN], NEW es,
         es = RcAnswers(s, f)
  PROVE  \E D \in SUBSET (1..RcN) :
           /\ {es[k].verifier_id : k \in DOMAIN es} = {RcVids[i] : i \in D}
           /\ [s |-> s, from |-> {es[k].verifier_id : k \in DOMAIN es},
               out |-> rc_combine(from_session(s), es)] = RcReturned(s, D)
<1> DEFINE D == {f[k] : k \in 1..m}
<1>1. D \in SUBSET (1..RcN)
  BY Zenon
<1>2. DOMAIN es = 1..m /\ \A k \in 1..m : es[k].verifier_id = RcVids[f[k]]
  <2>1. DOMAIN es = 1..m /\ \A k \in 1..m : es[k] = rc_partial_eval(f[k], from_session(s))
    BY Zenon DEF RcAnswers
  <2>2. \A k \in 1..m : f[k] \in 1..RcN
    BY Zenon
  <2> QED BY <2>1, <2>2, AnswerOf
<1>3. {es[k].verifier_id : k \in DOMAIN es} = {RcVids[i] : i \in D}
  BY <1>2
<1>4. (\A k \in 1..m : f[k] \in D) /\ (\A i \in D : \E k \in 1..m : f[k] = i)
  BY Zenon
<1> HIDE DEF D
<1>5. rc_combine(from_session(s), es)
        = IF Cardinality(D) < RcThreshold THEN Err ELSE RcResults(s, D).out
  BY <1>4, CombineValue
<1> QED BY <1>1, <1>3, <1>5, Zenon DEF RcReturned

\* A randomness output verifies for its own session and no other.
LEMMA GeneratedForOneSession ==
  ASSUME NEW s \in RcSessions, NEW ps, NEW r \in RcSessions, NEW out, out # Err,
         out \in {prototype_generate(Range(RcVids), s, RcNonce(s), ps),
                  dvrf_engine_generate(RcShares, RcEngineKey, RcThreshold, s,
                                       RcNonce(s), ps)}
  PROVE  (IF out.kind = "prototype"
          THEN prototype_verify(Range(RcVids), out, RcNonce(r))
          ELSE dvrf_engine_verify(out, RcNonce(r))) <=> out.session_id = r
<1>1. session_binding(s, RcNonce(s)) = session_binding(s, RcNonce(r)) <=> r = s
  BY Zenon DEF session_binding, RcNonce
<1>2. CASE out = prototype_generate(Range(RcVids), s, RcNonce(s), ps)
  <2> DEFINE part(v) == [verifier_id |-> v,
                         contribution |-> compute_contribution(s, RcNonce(s), v, v)]
             partials == [i \in DOMAIN ps |-> part(ps[i])]
             value == prototype_combine(partials)
  <2>1. /\ Range(ps) \subseteq Range(RcVids)
        /\ out = RandomnessOutput(s, RcNonce(s), value, partials, "prototype")
    BY <1>2, Zenon DEF prototype_generate
  <2>2. \A i \in DOMAIN ps : ps[i] \in Range(RcVids)
    BY <2>1, Zenon DEF Range
  <2>3. DOMAIN partials = DOMAIN ps /\ \A i \in DOMAIN ps : partials[i] = part(ps[i])
    BY Zenon
  <2>4. \A v : /\ part(v).verifier_id = v
                /\ part(v).contribution = compute_contribution(s, RcNonce(s), v, v)
    BY Zenon
  <2> HIDE DEF partials, value, part
  <2>5. /\ out.session_id = s /\ out.kind = "prototype" /\ out.partials = partials
        /\ out.value = value /\ out.session_binding = session_binding(s, RcNonce(s))
    BY <2>1, Zenon DEF RandomnessOutput
  <2>6. prototype_verify(Range(RcVids), out, RcNonce(r)) => r = s
    BY <1>1, <2>5, Zenon DEF prototype_verify
  <2>7. prototype_verify(Range(RcVids), out, RcNonce(s))
    BY <2>2, <2>3, <2>4, <2>5 DEF prototype_verify, value
  <2> QED BY <2>5, <2>6, <2>7, Zenon
<1>3. CASE out = dvrf_engine_generate(RcShares, RcEngineKey, RcThreshold, s,
                                      RcNonce(s), ps)
  <2>1. \E v : out = RandomnessOutput(s, RcNonce(s), v, <<>>, "secp256k1")
    BY <1>3, Zenon DEF dvrf_engine_generate
  <2>2. /\ out.session_id = s /\ out.kind = "secp256k1"
        /\ out.session_binding = session_binding(s, RcNonce(s))
    BY <2>1 DEF RandomnessOutput
  <2> QED BY <1>1, <2>2, Zenon DEF dvrf_engine_verify
<1> QED BY <1>2, <1>3, Zenon

\* What combine returned satisfies the property.
LEMMA ReturnedIgnoresArrival ==
  ASSUME NEW s \in RcSessions, NEW D \in SUBSET (1..RcN), rcOut = RcReturned(s, D)
  PROVE  CombineIgnoresArrival
<1> DEFINE from == {RcVids[i] : i \in D}
           t == RcThreshold
           S == {i \in DOMAIN RcVids : RcVids[i] \in from}
           f == Ascending(S)
           alpha == from_session(s)
           o == IF Cardinality(D) < t THEN Err ELSE RcResults(s, D).out
<1>1. rcOut.s = s /\ rcOut.from = from /\ rcOut.out = o
  <2> HIDE DEF o, from
  <2>1. rcOut = [s |-> s, from |-> from, out |-> o]
    BY Zenon DEF RcReturned, o, from
  <2> QED BY <2>1
<1>2. RcN \in Nat /\ DOMAIN RcVids = 1..RcN /\ t \in 2..RcN
  BY DkgOutcome, Zenon
<1>3. S = D
  <2>1. \A i, j \in 1..RcN : RcVids[i] = RcVids[j] => i = j
    BY <1>2, RcAssumption, Zenon
  <2>2. \A i \in D : i \in 1..RcN
    BY Zenon
  <2> QED BY <1>2, <2>1, <2>2, Zenon
<1>4. IsPositions(D)
  BY <1>2, Zenon DEF IsPositions
<1> DEFINE c == Cardinality(D)
<1>5. /\ IsFiniteSet(D) /\ c \in Nat /\ Ascending(D) \in [1..c -> D]
      /\ \A x \in D : \E k \in 1..c : Ascending(D)[k] = x
  BY <1>4, AscendingOf, Zenon
<1>6. Cardinality(from) = c
  <2> DEFINE h == [i \in D |-> RcVids[i]]
  <2>1. h \in Surjection(D, from)
    <3>1. h \in [D -> from] /\ \A v \in from : \E i \in D : h[i] = v
      BY Zenon
    <3> HIDE DEF h, from
    <3> QED BY <3>1, Zenon DEF Surjection
  <2>2. h \in Injection(D, from)
    <3>1. \A i, j \in D : h[i] = h[j] => i = j
      BY <1>2, RcAssumption, Zenon
    <3>2. h \in [D -> from]
      BY Zenon
    <3> HIDE DEF h, from
    <3> QED BY <3>1, <3>2, Zenon DEF Injection, IsInjective
  <2> HIDE DEF h, from
  <2> QED BY <1>5, <2>1, <2>2, FS_Surjection, Zenon
<1> HIDE DEF S, from
<1>7. CASE c < t
  BY <1>1, <1>6, <1>7, Zenon DEF CombineIgnoresArrival
<1>8. CASE ~(c < t)
  <2> DEFINE r == RcResults(s, D)
             key == rc_group_key.pub.key
             nonces(i) == secp256k1_dvrf_nonce_seed(orchestrator[i].participant, alpha)
             pkg == SigningPackage([i \in D |-> Commit(nonces(i))], alpha)
             sig == [key |-> key, pkg |-> pkg]
             approval == [signature |-> sig, group_key |-> key]
             dv == [rand |-> derive_rand(sig), proof |-> approval]
             res == [rand |-> dv.rand, dvrf_output |-> dv, alpha |-> alpha]
  <2>1. o = r.out
    BY <1>8, Zenon
  <2>2. r.out # Err
    BY <1>2, RcAssumption, Zenon
  <2>3. r.out = res
    BY Zenon DEF RcResults
  <2>4. rc_phase_verify(r.out)
    <3>1. pkg.message = alpha
      BY Zenon DEF SigningPackage
    <3> HIDE DEF pkg, alpha
    <3>2. sig.key = key /\ sig.pkg = pkg
      BY Zenon
    <3> HIDE DEF sig
    <3>3. approval.signature = sig /\ approval.group_key = key
      BY Zenon
    <3> HIDE DEF approval
    <3>4. dv.rand = derive_rand(sig) /\ dv.proof = approval
      BY Zenon
    <3> HIDE DEF dv
    <3>5. res.alpha = alpha /\ res.dvrf_output = dv
      BY Zenon
    <3> HIDE DEF res
    <3> QED BY <2>3, <3>1, <3>2, <3>3, <3>4, <3>5, Zenon
         DEF rc_phase_verify, Secp256k1Dvrf_verify, secp256k1_verify_approval,
             VerifyingKeyVerifies
  <2> HIDE DEF r, res
  <2>5. rc_combine(alpha, [k \in DOMAIN f |-> rc_partial_eval(f[k], alpha)]) = r.out
    <3>1. f = Ascending(D)
      BY <1>3, Zenon
    <3>2. f \in [1..c -> 1..RcN] /\ \A k \in 1..c : f[k] \in D
      BY <1>5, <3>1, Zenon
    <3>3. \A i \in D : \E k \in 1..c : f[k] = i
      BY <1>5, <3>1, Zenon
    <3> HIDE DEF f
    <3> HIDE DEF c, alpha, t
    <3>4. rc_combine(from_session(s), RcAnswers(s, f))
            = IF Cardinality(D) < RcThreshold THEN Err ELSE RcResults(s, D).out
      <4>1. c \in Nat /\ f \in [1..c -> 1..RcN]
        BY <1>5, <3>2, Zenon
      <4>2. \A k \in 1..c : f[k] \in D
        BY <3>2, Zenon
      <4> QED BY <3>3, <4>1, <4>2, CombineValue, Zenon
    <3> QED BY <1>8, <3>4, Zenon DEF RcAnswers, r, c, t, alpha
  <2> HIDE DEF o
  <2> QED BY <1>1, <1>6, <1>8, <2>1, <2>2, <2>4, <2>5, Zenon DEF CombineIgnoresArrival, f, S
<1> QED BY <1>7, <1>8, Zenon

\* Every step of the orchestrator keeps the invariant.
LEMMA RcStep == RcInv /\ [RcNext]_rcvars => RcInv'
<1> SUFFICES ASSUME RcInv, [RcNext]_rcvars PROVE RcInv'
  OBVIOUS
<1> DEFINE Returned(x) == x = Err \/ \E s \in RcSessions, D \in SUBSET (1..RcN) :
                                        x = RcReturned(s, D)
<1>0. /\ EvalsInv(rcEvals) /\ Returned(rcOut) /\ RandomnessIsForItsSession
      /\ RcN \in Nat /\ DOMAIN RcVids = 1..RcN /\ RcThreshold \in 2..RcN
  BY DkgOutcome, Zenon DEF RcInv
<1>a. ASSUME EvalsInv(rcEvals'), Returned(rcOut'), RandomnessIsForItsSession'
      PROVE  RcInv'
  BY <1>a, Zenon DEF RcInv, EvalsInv, RcReturned, RcResults, RcAnswers
<1> HIDE DEF Returned
<1>b. rcRand' = rcRand => RandomnessIsForItsSession'
  BY <1>0, Zenon DEF RandomnessIsForItsSession
<1>1. ASSUME NEW s \in RcSessions, NEW i \in DOMAIN RcVids, PartialEval(s, i)
      PROVE  RcInv'
  <2> DEFINE e == rc_partial_eval(i, from_session(s))
  <2>1. rcEvals' = [rcEvals EXCEPT ![s] = Append(rcEvals[s], e)]
    BY <1>1, Zenon DEF PartialEval
  <2>2. PICK m \in Nat : \E f \in [1..m -> 1..RcN] : rcEvals[s] = RcAnswers(s, f)
    BY <1>0, Zenon DEF EvalsInv
  <2>3. PICK f \in [1..m -> 1..RcN] : rcEvals[s] = RcAnswers(s, f)
    BY <2>2, Zenon
  <2>4. PICK g \in [1..(m + 1) -> 1..RcN] : Append(rcEvals[s], e) = RcAnswers(s, g)
    <3>1. i \in 1..RcN
      BY <1>0, Zenon
    <3>2. \E g \in [1..(m + 1) -> 1..RcN] :
             Append(RcAnswers(s, f), rc_partial_eval(i, from_session(s))) = RcAnswers(s, g)
      BY <3>1, AnswerAppended, Zenon
    <3> QED BY <2>3, <3>2, Zenon
  <2>5. EvalsInv(rcEvals')
    <3>1. DOMAIN rcEvals = RcSessions /\ m + 1 \in Nat
      BY <1>0 DEF EvalsInv
    <3>2. rcEvals'[s] = RcAnswers(s, g) /\ \A q \in RcSessions : q # s => rcEvals'[q] = rcEvals[q]
      BY <2>1, <2>4, <3>1, Zenon
    <3>3. DOMAIN rcEvals' = RcSessions
      BY <2>1, <3>1, Zenon
    <3> QED BY <1>0, <3>1, <3>2, <3>3, Zenon DEF EvalsInv
  <2> QED BY <1>0, <1>1, <1>a, <1>b, <2>5, Zenon DEF PartialEval
<1>2. ASSUME NEW s \in RcSessions, Combine(s) PROVE RcInv'
  <2> DEFINE es == rcEvals[s]
  <2>1. PICK m \in Nat : \E f \in [1..m -> 1..RcN] : es = RcAnswers(s, f)
    BY <1>0, Zenon DEF EvalsInv
  <2>2. PICK f \in [1..m -> 1..RcN] : es = RcAnswers(s, f)
    BY <2>1, Zenon
  <2> HIDE DEF es
  <2>3. rcOut' = [s |-> s, from |-> {es[k].verifier_id : k \in DOMAIN es},
                  out |-> rc_combine(from_session(s), es)]
    BY <1>2, Zenon DEF Combine, es
  <2>4. Returned(rcOut')
    <3>1. \E D \in SUBSET (1..RcN) :
             [s |-> s, from |-> {es[k].verifier_id : k \in DOMAIN es},
              out |-> rc_combine(from_session(s), es)] = RcReturned(s, D)
      BY <2>2, RcOutOf, Zenon
    <3>2. \E D \in SUBSET (1..RcN) : rcOut' = RcReturned(s, D)
      BY <2>3, <3>1, Zenon
    <3> QED BY <3>2, Zenon DEF Returned
  <2>5. EvalsInv(rcEvals')
    <3>1. DOMAIN rcEvals = RcSessions /\ rcEvals' = [rcEvals EXCEPT ![s] = <<>>]
      BY <1>0, <1>2, Zenon DEF EvalsInv, Combine
    <3>2. rcEvals'[s] = <<>> /\ \A q \in RcSessions : q # s => rcEvals'[q] = rcEvals[q]
      BY <3>1, Zenon
    <3> DEFINE z == [k \in 1..0 |-> 1]
    <3>3. z \in [1..0 -> 1..RcN] /\ <<>> = RcAnswers(s, z)
      BY DEF RcAnswers
    <3> HIDE DEF z
    <3>4. \E n \in Nat : \E g \in [1..n -> 1..RcN] : rcEvals'[s] = RcAnswers(s, g)
      BY <3>2, <3>3, Zenon
    <3>5. DOMAIN rcEvals' = RcSessions
      BY <3>1, Zenon
    <3> QED BY <1>0, <3>2, <3>4, <3>5, Zenon DEF EvalsInv
  <2> QED BY <1>2, <1>a, <1>b, <2>4, <2>5, Zenon DEF Combine
<1>3. ASSUME NEW s \in RcSessions, RunRcPhase(s) PROVE RcInv'
  <2> DEFINE m == RcThreshold
             f == [k \in 1..m |-> k]
             es == RcAnswers(s, f)
  <2>1. m \in Nat /\ f \in [1..m -> 1..RcN]
    BY <1>0
  <2>2. /\ DOMAIN es = 1..m
        /\ \A k \in 1..m : es[k] = rc_partial_eval(k, from_session(s))
        /\ es = [i \in 1..m |-> rc_partial_eval(i, from_session(s))]
    BY Zenon DEF RcAnswers
  <2>3. \A k \in 1..m : es[k].verifier_id = RcVids[k]
    <3>1. \A k \in 1..m : k \in 1..RcN
      BY <1>0
    <3> HIDE DEF es
    <3> QED BY <2>2, <3>1, AnswerOf, Zenon
  <2> HIDE DEF f
  <2>4. {es[k].verifier_id : k \in DOMAIN es} = {RcVids[i] : i \in 1..m}
    <3> HIDE DEF es
    <3> QED BY <2>2, <2>3
  <2>5. rcOut' = [s |-> s, from |-> {es[k].verifier_id : k \in DOMAIN es},
                  out |-> rc_combine(from_session(s), es)]
    BY <1>3, <2>2, <2>4, Zenon DEF RunRcPhase, run_rc_phase
  <2>6. Returned(rcOut')
    <3> HIDE DEF m, es
    <3>0. es = RcAnswers(s, f)
      BY Zenon DEF es
    <3>1. \E D \in SUBSET (1..RcN) :
             [s |-> s, from |-> {es[k].verifier_id : k \in DOMAIN es},
              out |-> rc_combine(from_session(s), es)] = RcReturned(s, D)
      BY <2>1, <3>0, RcOutOf, Zenon
    <3>2. \E D \in SUBSET (1..RcN) : rcOut' = RcReturned(s, D)
      BY <2>5, <3>1, Zenon
    <3> QED BY <3>2, Zenon DEF Returned
  <2> QED BY <1>0, <1>3, <1>a, <1>b, <2>6, Zenon DEF RunRcPhase
<1>4. ASSUME NEW s \in RcSessions, NEW ps, Generate(s, ps) PROVE RcInv'
  <2>1. RandomnessIsForItsSession'
    BY <1>4, GeneratedForOneSession DEF Generate, RandomnessIsForItsSession
  <2> QED BY <1>0, <1>4, <1>a, <2>1, Zenon DEF Generate
<1>5. CASE UNCHANGED rcvars
  BY <1>0, <1>5, <1>a, <1>b, Zenon DEF rcvars
<1> QED BY <1>1, <1>2, <1>3, <1>4, <1>5, Zenon DEF RcNext

\* Before the first evaluation there is no answer and no output.
LEMMA RcStart == RcInit => RcInv
<1> SUFFICES ASSUME RcInit PROVE RcInv
  OBVIOUS
<1>1. rcEvals = [s \in RcSessions |-> <<>>] /\ rcOut = Err /\ rcRand = Err
  BY Zenon DEF RcInit
<1>2. EvalsInv(rcEvals)
  <2> DEFINE z == [k \in 1..0 |-> 1]
  <2>1. z \in [1..0 -> 1..RcN] /\ \A s \in RcSessions : <<>> = RcAnswers(s, z)
    BY DEF RcAnswers
  <2> HIDE DEF z
  <2> QED BY <1>1, <2>1, Zenon DEF EvalsInv
<1> QED BY <1>1, <1>2, Zenon DEF RcInv, RandomnessIsForItsSession

\* For any list of different verifiers, threshold and number of sessions: in
\* whichever order the partial evaluations of a session arrive and however
\* often one is sent again, combine succeeds exactly when a threshold of
\* verifiers answered, and its result is a function of who they are
\* (rc_phase.rs combine).
THEOREM CombinationIgnoresArrival == RcSpec => []CombineIgnoresArrival
<1>1. RcInv => CombineIgnoresArrival
  <2>1. ASSUME rcOut = Err PROVE CombineIgnoresArrival
    BY <2>1, Zenon DEF CombineIgnoresArrival
  <2> QED BY <2>1, ReturnedIgnoresArrival, Zenon DEF RcInv
<1> QED BY <1>1, RcStart, RcStep, PTL DEF RcSpec

\* Randomness generated by either engine verifies under the nonce of its own
\* session and under no other session's (PrototypeRandomnessEngine and
\* Secp256k1DvrfEngine, generate and verify).
THEOREM RandomnessBelongsToItsSession == RcSpec => []RandomnessIsForItsSession
<1>1. RcInv => RandomnessIsForItsSession
  BY Zenon DEF RcInv
<1> QED BY <1>1, RcStart, RcStep, PTL DEF RcSpec

=============================================================================
