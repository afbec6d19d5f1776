--------------------------- MODULE OnChainProofs ---------------------------
(***************************************************************************)
(* Proofs about the contracts of OnChain, for any number of options, of    *)
(* accounts and of calls within calls.  The funds are a sum over a set, so *)
(* the first part proves what a sum does when one of its terms is taken    *)
(* out: the fold is a recursive function, and every fact about it is shown *)
(* for the smallest set that would be a counterexample.                    *)
(***************************************************************************)
EXTENDS OnChain, FiniteSetTheorems, SequenceTheorems, TLAPS

---------------------------------------------------------------------------
(* Sums over finite sets.                                                  *)

\* The element a fold takes next.
Chosen(s) == CHOOSE x \in s : TRUE

\* The sum of the property: what a fold with + computes.
Total(fun, S) == FoldFunctionOnSet(+, 0, fun, S)

IsTotalFcn(f, fun, S) ==
  f = [s \in SUBSET S |->
         IF s = {} THEN 0 ELSE fun[Chosen(s)] + f[s \ {Chosen(s)}]]

\* The recursive function inside the fold.
TotalFcn(fun, S) ==
  CHOOSE f : f = [s \in SUBSET S |->
                    IF s = {} THEN 0 ELSE fun[Chosen(s)] + f[s \ {Chosen(s)}]]

\* The function for S exists and has the sums of the subsets of S as values.
TotalsAgree(fun, S) ==
  /\ IsTotalFcn(TotalFcn(fun, S), fun, S)
  /\ \A U \in SUBSET S : TotalFcn(fun, S)[U] = Total(fun, U)

\* The fold of the property is the recursive function applied to the whole set.
LEMMA TotalDef ==
  ASSUME NEW fun, NEW S
  PROVE  Total(fun, S) = TotalFcn(fun, S)[S]
BY Zenon DEF Total, TotalFcn, Chosen, FoldFunctionOnSet, MapThenFoldSet

\* The element the fold takes next is one of the set.
LEMMA ChosenIsIn ==
  ASSUME NEW s, s # {}
  PROVE  Chosen(s) \in s
BY Zenon DEF Chosen

\* A nonempty set of subsets of a finite set has a smallest one: the
\* induction principle of the lemmas below.
LEMMA MinimalSubset ==
  ASSUME NEW S, IsFiniteSet(S), NEW W, W \subseteq SUBSET S, W # {}
  PROVE  \E T \in W : \A U \in W : U \subseteq T => U = T
<1>1. IsWellFoundedOn(StrictSubsetOrdering(S), FiniteSubsetsOf(S))
  BY FS_StrictSubsetOrderingWellFounded
<1>2. W \subseteq FiniteSubsetsOf(S)
  BY FS_Subset DEF FiniteSubsetsOf
<1>3. PICK T \in W : \A U \in W : ~(<<U, T>> \in StrictSubsetOrdering(S))
  BY <1>1, <1>2, WFMin, Zenon
<1>4. ASSUME NEW U \in W, U \subseteq T PROVE U = T
  <2>1. <<U, T>> \in (SUBSET S) \X (SUBSET S)
    BY Zenon
  <2> QED BY <1>3, <1>4, <2>1 DEF StrictSubsetOrdering
<1> QED BY <1>3, <1>4, Zenon

\* If any function satisfies the recursion, the one of the fold does.
LEMMA TotalFcnExists ==
  ASSUME NEW fun, NEW S, NEW f, IsTotalFcn(f, fun, S)
  PROVE  IsTotalFcn(TotalFcn(fun, S), fun, S)
<1>1. f = [s \in SUBSET S |->
             IF s = {} THEN 0 ELSE fun[Chosen(s)] + f[s \ {Chosen(s)}]]
  BY DEF IsTotalFcn
<1> QED BY <1>1, Zenon DEF IsTotalFcn, TotalFcn

\* The recursion of the fold has a solution for every finite set, and the
\* solutions for different sets agree where both are defined.
LEMMA TotalsAgreeAll ==
  ASSUME NEW fun, NEW S, IsFiniteSet(S)
  PROVE  \A T \in SUBSET S : TotalsAgree(fun, T)
<1> DEFINE W == {T \in SUBSET S : ~TotalsAgree(fun, T)}
<1> SUFFICES ASSUME W # {} PROVE FALSE
  BY Zenon
<1>1. PICK T \in W : \A U \in W : U \subseteq T => U = T
  <2> HIDE DEF W
  <2>1. W \subseteq SUBSET S BY Zenon DEF W
  <2> QED BY <2>1, MinimalSubset
<1>2. \A U \in SUBSET T : U # T => TotalsAgree(fun, U)
  BY <1>1, Zenon
<1>3. ASSUME NEW U \in SUBSET T, U # T
      PROVE  Total(fun, U) =
               IF U = {} THEN 0 ELSE fun[Chosen(U)] + Total(fun, U \ {Chosen(U)})
  <2>1. /\ IsTotalFcn(TotalFcn(fun, U), fun, U)
        /\ \A V \in SUBSET U : TotalFcn(fun, U)[V] = Total(fun, V)
    BY <1>2, <1>3 DEF TotalsAgree
  <2>2. TotalFcn(fun, U)[U] =
          IF U = {} THEN 0 ELSE fun[Chosen(U)] + TotalFcn(fun, U)[U \ {Chosen(U)}]
    BY <2>1, U \in SUBSET U, Zenon DEF IsTotalFcn
  <2>3. /\ TotalFcn(fun, U)[U] = Total(fun, U)
        /\ TotalFcn(fun, U)[U \ {Chosen(U)}] = Total(fun, U \ {Chosen(U)})
    BY <2>1, Zenon
  <2> QED BY <2>2, <2>3, Zenon
<1> DEFINE f == [s \in SUBSET T |->
                   IF s = {} THEN 0 ELSE fun[Chosen(s)] + Total(fun, s \ {Chosen(s)})]
<1>4. \A s \in SUBSET T :
        s # {} => s \ {Chosen(s)} \in SUBSET T /\ s \ {Chosen(s)} # T
  BY ChosenIsIn, Zenon
<1>5. \A s \in SUBSET T : s # T => f[s] = Total(fun, s)
  BY <1>3, Zenon
<1>6. IsTotalFcn(f, fun, T)
  <2>1. \A s \in SUBSET T :
          s # {} => f[s \ {Chosen(s)}] = Total(fun, s \ {Chosen(s)})
    BY <1>4, <1>5, Zenon
  <2> QED BY <2>1, Zenon DEF IsTotalFcn
<1>7. IsTotalFcn(TotalFcn(fun, T), fun, T)
  <2> HIDE DEF f
  <2> QED BY <1>6, TotalFcnExists, Zenon
<1>8. \A U \in SUBSET T : TotalFcn(fun, T)[U] = Total(fun, U)
  <2> DEFINE h == TotalFcn(fun, T)
             D == {U \in SUBSET T : h[U] # Total(fun, U)}
  <2> SUFFICES ASSUME D # {} PROVE FALSE
    OBVIOUS
  <2>0. IsFiniteSet(T)
    BY FS_Subset
  <2>1. PICK U \in D : \A V \in D : V \subseteq U => V = U
    <3> HIDE DEF D
    <3>1. D \subseteq SUBSET T BY Zenon DEF D
    <3> QED BY <2>0, <3>1, MinimalSubset
  <2>2. U # T
    BY TotalDef, Zenon
  <2>3. h[U] = IF U = {} THEN 0 ELSE fun[Chosen(U)] + h[U \ {Chosen(U)}]
    BY <1>7, Zenon DEF IsTotalFcn
  <2>4. U # {} => h[U \ {Chosen(U)}] = Total(fun, U \ {Chosen(U)})
    BY <2>1, ChosenIsIn
  <2> QED BY <1>3, <2>1, <2>2, <2>3, <2>4, Zenon
<1> QED BY <1>7, <1>8, Zenon DEF TotalsAgree

\* A sum is the chosen term and the sum of the others.
LEMMA TotalRecursion ==
  ASSUME NEW fun, NEW S, IsFiniteSet(S)
  PROVE  Total(fun, S) =
           IF S = {} THEN 0 ELSE fun[Chosen(S)] + Total(fun, S \ {Chosen(S)})
<1>1. TotalsAgree(fun, S)
  BY TotalsAgreeAll, Zenon
<1>2. TotalFcn(fun, S)[S] =
        IF S = {} THEN 0 ELSE fun[Chosen(S)] + TotalFcn(fun, S)[S \ {Chosen(S)}]
  BY <1>1, S \in SUBSET S, Zenon DEF TotalsAgree, IsTotalFcn
<1>3. /\ TotalFcn(fun, S)[S] = Total(fun, S)
      /\ TotalFcn(fun, S)[S \ {Chosen(S)}] = Total(fun, S \ {Chosen(S)})
  BY <1>1, Zenon DEF TotalsAgree
<1> QED BY <1>2, <1>3, Zenon

\* A sum of integers is an integer.
LEMMA TotalIsInt ==
  ASSUME NEW fun, NEW S, IsFiniteSet(S), \A i \in S : fun[i] \in Int
  PROVE  Total(fun, S) \in Int
<1> DEFINE W == {T \in SUBSET S : Total(fun, T) \notin Int}
<1> SUFFICES ASSUME W # {} PROVE FALSE
  BY Zenon
<1>1. PICK T \in W : \A U \in W : U \subseteq T => U = T
  <2> HIDE DEF W
  <2>1. W \subseteq SUBSET S BY Zenon DEF W
  <2> QED BY <2>1, MinimalSubset
<1>2. Total(fun, T) =
        IF T = {} THEN 0 ELSE fun[Chosen(T)] + Total(fun, T \ {Chosen(T)})
  BY FS_Subset, TotalRecursion, Zenon
<1>3. T # {} => fun[Chosen(T)] \in Int /\ Total(fun, T \ {Chosen(T)}) \in Int
  BY <1>1, ChosenIsIn
<1> QED BY <1>2, <1>3

\* Any term may be taken out of a sum, not only the one the fold chooses.
LEMMA TotalRemove ==
  ASSUME NEW fun, NEW S, IsFiniteSet(S), \A i \in S : fun[i] \in Int,
         NEW x \in S
  PROVE  Total(fun, S) = fun[x] + Total(fun, S \ {x})
<1> DEFINE Splits(T) ==
             \A y \in T : Total(fun, T) = fun[y] + Total(fun, T \ {y})
           W == {T \in SUBSET S : ~Splits(T)}
<1> SUFFICES ASSUME W # {} PROVE FALSE
  BY Zenon
<1>1. PICK T \in W : \A U \in W : U \subseteq T => U = T
  <2> HIDE DEF W
  <2>1. W \subseteq SUBSET S BY Zenon DEF W
  <2> QED BY <2>1, MinimalSubset
<1>2. PICK y \in T : Total(fun, T) # fun[y] + Total(fun, T \ {y})
  BY Zenon
<1> DEFINE c == Chosen(T)
<1>3. c \in T
  BY ChosenIsIn, Zenon
<1> HIDE DEF c
<1>4. Total(fun, T) = fun[c] + Total(fun, T \ {c})
  BY FS_Subset, TotalRecursion, Zenon DEF c
<1>5. y # c
  BY <1>2, <1>4
<1>6. Splits(T \ {c}) /\ Splits(T \ {y})
  BY <1>1, <1>3
<1>7. (T \ {c}) \ {y} = (T \ {y}) \ {c}
  BY Zenon
<1>8. Total(fun, (T \ {y}) \ {c}) \in Int
  BY FS_Subset, TotalIsInt, Zenon
<1>9. Total(fun, T \ {c}) = fun[y] + Total(fun, (T \ {y}) \ {c})
  BY <1>5, <1>6, <1>7, Zenon
<1>10. Total(fun, T \ {y}) = fun[c] + Total(fun, (T \ {y}) \ {c})
  BY <1>3, <1>5, <1>6, Zenon
<1>11. fun[y] \in Int /\ fun[c] \in Int
  BY <1>3
<1> HIDE DEF Splits, W
<1> QED BY <1>2, <1>4, <1>8, <1>9, <1>10, <1>11

\* Functions that agree on a set have the same sum over it.
LEMMA TotalCongruence ==
  ASSUME NEW fun, NEW gun, NEW S, IsFiniteSet(S), \A i \in S : fun[i] = gun[i]
  PROVE  Total(fun, S) = Total(gun, S)
<1> DEFINE W == {T \in SUBSET S : Total(fun, T) # Total(gun, T)}
<1> SUFFICES ASSUME W # {} PROVE FALSE
  BY Zenon
<1>1. PICK T \in W : \A U \in W : U \subseteq T => U = T
  <2> HIDE DEF W
  <2>1. W \subseteq SUBSET S BY Zenon DEF W
  <2> QED BY <2>1, MinimalSubset
<1>2. Total(fun, T) =
        IF T = {} THEN 0 ELSE fun[Chosen(T)] + Total(fun, T \ {Chosen(T)})
  BY FS_Subset, TotalRecursion, Zenon
<1>3. Total(gun, T) =
        IF T = {} THEN 0 ELSE gun[Chosen(T)] + Total(gun, T \ {Chosen(T)})
  BY FS_Subset, TotalRecursion, Zenon
<1>4. T # {} => /\ fun[Chosen(T)] = gun[Chosen(T)]
                /\ Total(fun, T \ {Chosen(T)}) = Total(gun, T \ {Chosen(T)})
  BY <1>1, ChosenIsIn
<1> QED BY <1>2, <1>3, <1>4

---------------------------------------------------------------------------
(* The funds of BinaryOptionsAttestation.                                  *)

\* The records of the options mapping; the zero record is one of no one.
Option ==
  [alice : OcAddresses \cup {Zero}, bob : OcAddresses \cup {Zero},
   payout : Nat, expiresAt : Nat, settled : BOOLEAN]

\* The options that still hold a deposit, and what each of them holds.
Unsettled(opts) == {i \in OcIds : ~opts[i].settled}

Payouts(opts) == [i \in OcIds |-> opts[i].payout]

\* No deposit is recorded for an identifier that createOption still accepts,
\* so overwriting its record forgets nothing; and the balance covers exactly
\* the options not yet settled.
Ledger(opts, balance) ==
  /\ opts \in [OcIds -> Option]
  /\ \A i \in OcIds : opts[i].alice = Zero => opts[i].payout = 0
  /\ balance = Total(Payouts(opts), Unsettled(opts))

\* The inductive invariant: the ledger is in order now and in every state a
\* failing winner would restore.
FundsInv ==
  /\ ocNow \in Nat
  /\ Ledger(ocOptions, ocBalance)
  /\ ocFrames \in Seq([options : [OcIds -> Option], balance : Int, created : Int])
  /\ ocCreated \in Int
  /\ \A k \in 1..Len(ocFrames) : Ledger(ocFrames[k].options, ocFrames[k].balance)

\* The unsettled options of a ledger are finitely many and their payouts are
\* integers, so the sum lemmas apply.
LEMMA LedgerIsFinite ==
  ASSUME NEW opts \in [OcIds -> Option]
  PROVE  /\ IsFiniteSet(Unsettled(opts))
         /\ \A i \in OcIds : Payouts(opts)[i] = opts[i].payout
         /\ \A i \in Unsettled(opts) : Payouts(opts)[i] \in Int
         /\ Total(Payouts(opts), Unsettled(opts)) \in Int
<1>1. Unsettled(opts) \in SUBSET OcIds
  BY Zenon DEF Unsettled
<1>2. IsFiniteSet(Unsettled(opts))
  BY <1>1, FS_Subset, OcAssumption, Zenon
<1>3. \A i \in OcIds : Payouts(opts)[i] = opts[i].payout /\ Payouts(opts)[i] \in Int
  BY DEF Payouts, Option
<1>4. Total(Payouts(opts), Unsettled(opts)) \in Int
  BY <1>1, <1>2, <1>3, TotalIsInt, Zenon
<1> QED BY <1>1, <1>2, <1>3, <1>4

\* The sum of an empty ledger.
LEMMA TotalOfZeros ==
  ASSUME NEW opts \in [OcIds -> Option], \A i \in OcIds : opts[i].payout = 0
  PROVE  Total(Payouts(opts), Unsettled(opts)) = 0
<1> DEFINE pay == Payouts(opts)
           W == {T \in SUBSET Unsettled(opts) : Total(pay, T) # 0}
<1> SUFFICES ASSUME W # {} PROVE FALSE
  BY Zenon
<1>0. IsFiniteSet(Unsettled(opts))
  BY LedgerIsFinite, Zenon
<1>1. PICK T \in W : \A U \in W : U \subseteq T => U = T
  <2> HIDE DEF W
  <2>1. W \subseteq SUBSET Unsettled(opts) BY Zenon DEF W
  <2> QED BY <1>0, <2>1, MinimalSubset
<1>2. Total(pay, T) = IF T = {} THEN 0 ELSE pay[Chosen(T)] + Total(pay, T \ {Chosen(T)})
  BY <1>0, FS_Subset, TotalRecursion, Zenon
<1>3. T # {} => pay[Chosen(T)] = 0 /\ Total(pay, T \ {Chosen(T)}) = 0
  BY <1>1, ChosenIsIn DEF Unsettled, Payouts
<1> QED BY <1>2, <1>3

\* createOption: a new option for an identifier without a deposit adds its
\* payout to the sum.
LEMMA CreateKeepsLedger ==
  ASSUME NEW opts, NEW balance, Ledger(opts, balance),
         NEW id \in OcIds, opts[id].alice = Zero,
         NEW o \in Option, o.alice # Zero, ~o.settled
  PROVE  Ledger([opts EXCEPT ![id] = o], balance + o.payout)
<1> DEFINE new == [opts EXCEPT ![id] = o]
           A == Unsettled(opts) \ {id}
<1>1. opts \in [OcIds -> Option] /\ opts[id].payout = 0
  BY Zenon DEF Ledger
<1>2. /\ new \in [OcIds -> Option] /\ new[id] = o
      /\ \A i \in OcIds : i # id => new[i] = opts[i]
  BY <1>1, Zenon
<1> HIDE DEF new
<1>3. Unsettled(new) \ {id} = A /\ id \in Unsettled(new)
  BY <1>2, Zenon DEF Unsettled
<1>4. IsFiniteSet(A)
  BY <1>1, LedgerIsFinite, FS_Subset
<1>5. \A i \in A : Payouts(new)[i] = Payouts(opts)[i]
  BY <1>2, Zenon DEF Payouts, Unsettled
<1>6. Total(Payouts(new), A) = Total(Payouts(opts), A)
  BY <1>4, <1>5, TotalCongruence, Zenon
<1>7. Total(Payouts(new), Unsettled(new)) = o.payout + Total(Payouts(new), A)
  BY <1>2, <1>3, LedgerIsFinite, TotalRemove DEF Unsettled
<1>8. Total(Payouts(opts), A) \in Int
  BY <1>1, <1>4, LedgerIsFinite, TotalIsInt
<1>9. Total(Payouts(opts), Unsettled(opts)) = Total(Payouts(opts), A)
  <2>1. CASE id \in Unsettled(opts)
    <3>1. Total(Payouts(opts), Unsettled(opts))
            = Payouts(opts)[id] + Total(Payouts(opts), A)
      BY <1>1, <2>1, LedgerIsFinite, TotalRemove
    <3> QED BY <1>1, <1>8, <3>1, LedgerIsFinite
  <2>2. CASE id \notin Unsettled(opts)
    BY <2>2, A = Unsettled(opts), Zenon
  <2> QED BY <2>1, <2>2, Zenon
<1>10. balance + o.payout = Total(Payouts(new), Unsettled(new))
  <2>1. o.payout \in Int
    BY DEF Option
  <2> QED BY <1>6, <1>7, <1>8, <1>9, <2>1 DEF Ledger
<1>11. \A i \in OcIds : new[i].alice = Zero => new[i].payout = 0
  BY <1>2, Zenon DEF Ledger
<1> QED BY <1>2, <1>10, <1>11, Zenon DEF Ledger, new

\* settle: marking an option takes its payout out of the sum.
LEMMA SettleKeepsLedger ==
  ASSUME NEW opts, NEW balance, Ledger(opts, balance),
         NEW id \in OcIds, ~opts[id].settled
  PROVE  Ledger([opts EXCEPT ![id].settled = TRUE], balance - opts[id].payout)
<1> DEFINE new == [opts EXCEPT ![id].settled = TRUE]
<1>1. opts \in [OcIds -> Option]
  BY Zenon DEF Ledger
<1>2. /\ new \in [OcIds -> Option]
      /\ new[id].settled /\ new[id].payout = opts[id].payout
      /\ new[id].alice = opts[id].alice
      /\ \A i \in OcIds : i # id => new[i] = opts[i]
  BY <1>1, Zenon DEF Option
<1> HIDE DEF new
<1>3. Payouts(new) = Payouts(opts)
  BY <1>2, Zenon DEF Payouts
<1>4. Unsettled(new) = Unsettled(opts) \ {id} /\ id \in Unsettled(opts)
  BY <1>2, Zenon DEF Unsettled
<1>5. Total(Payouts(opts), Unsettled(opts))
        = opts[id].payout + Total(Payouts(opts), Unsettled(new))
  BY <1>1, <1>4, LedgerIsFinite, TotalRemove
<1>6. /\ opts[id].payout \in Int
      /\ Total(Payouts(new), Unsettled(new)) \in Int
  BY <1>1, <1>2, LedgerIsFinite DEF Option
<1>7. balance - opts[id].payout = Total(Payouts(new), Unsettled(new))
  BY <1>3, <1>5, <1>6 DEF Ledger
<1>8. \A i \in OcIds : new[i].alice = Zero => new[i].payout = 0
  BY <1>2, Zenon DEF Ledger
<1> QED BY <1>2, <1>7, <1>8, Zenon DEF Ledger, new

\* A call that ends takes the last frame off and leaves the others.
LEMMA FrontAndLast ==
  ASSUME NEW X, NEW fs \in Seq(X), fs # <<>>
  PROVE  /\ Len(fs) \in Nat \ {0}
         /\ Last(fs) = fs[Len(fs)] /\ Last(fs) \in X
         /\ Front(fs) \in Seq(X) /\ Len(Front(fs)) = Len(fs) - 1
         /\ \A k \in 1..(Len(fs) - 1) : Front(fs)[k] = fs[k]
<1>1. Len(fs) \in Nat \ {0} /\ \A k \in 1..Len(fs) : fs[k] \in X
  BY EmptySeq, ElementOfSeq, Zenon
<1>2. Last(fs) = fs[Len(fs)] /\ Last(fs) \in X
  BY <1>1 DEF Last
<1>3. /\ SubSeq(fs, 1, Len(fs) - 1) \in Seq(X)
      /\ Len(SubSeq(fs, 1, Len(fs) - 1)) = Len(fs) - 1
      /\ \A k \in 1..(Len(fs) - 1) : SubSeq(fs, 1, Len(fs) - 1)[k] = fs[k]
  <2> DEFINE n == Len(fs) - 1
  <2>1. n \in Nat /\ n < Len(fs)
    BY <1>1
  <2> HIDE DEF n
  <2>2. SubSeq(fs, 1, n) \in Seq(X) /\ Len(SubSeq(fs, 1, n)) = n
    BY <2>1
  <2>3. \A k \in 1..n : SubSeq(fs, 1, n)[k] = fs[k]
    BY <2>1
  <2> QED BY <2>2, <2>3, Zenon DEF n
<1> QED BY <1>1, <1>2, <1>3 DEF Front

\* Every step keeps the ledger in order, in the open state and in the saved
\* ones.
LEMMA FundsStep ==
  ASSUME FundsInv, [OcNext]_ocvars
  PROVE  FundsInv'
<1> DEFINE Frame == [options : [OcIds -> Option], balance : Int, created : Int]
           Saved(fs) == /\ fs \in Seq(Frame)
                        /\ \A k \in 1..Len(fs) : Ledger(fs[k].options, fs[k].balance)
<1>0. /\ ocNow \in Nat /\ ocCreated \in Int /\ ocFrames \in Seq(Frame)
      /\ Ledger(ocOptions, ocBalance) /\ Saved(ocFrames)
  BY DEF FundsInv
<1>s. SUFFICES /\ ocNow' \in Nat /\ ocCreated' \in Int
               /\ Ledger(ocOptions', ocBalance') /\ Saved(ocFrames')
  BY Zenon DEF FundsInv, Ledger
<1>1. CASE UNCHANGED ocvars
  BY <1>0, <1>1, Zenon DEF ocvars
<1>2. CASE BlockTime
  BY <1>0, <1>2 DEF BlockTime
<1>3. ASSUME NEW c, OcKeysNext(c)
      PROVE  /\ ocNow' \in Nat /\ ocCreated' \in Int
             /\ Ledger(ocOptions', ocBalance') /\ Saved(ocFrames')
  BY <1>0, <1>3 DEF OcKeysNext, authorizeGroupKey, revokeGroupKey
<1>4. ASSUME NEW id \in OcIds, NEW s \in OcAddresses, NEW b \in OcAddresses,
             NEW ttl \in OcTtls, NEW v \in OcValues,
             createOption(id, s, b, ttl, v)
      PROVE  /\ ocNow' \in Nat /\ ocCreated' \in Int
             /\ Ledger(ocOptions', ocBalance') /\ Saved(ocFrames')
  <2> DEFINE o == [alice |-> s, bob |-> b, payout |-> v,
                   expiresAt |-> IF ttl = 0 THEN 0 ELSE ocNow + ttl,
                   settled |-> FALSE]
  <2>1. o \in Option /\ o.alice # Zero /\ ~o.settled /\ o.payout = v
    BY <1>0, OcAssumption DEF Option
  <2>2. /\ ocOptions' = [ocOptions EXCEPT ![id] = o]
        /\ ocBalance' = ocBalance + v
        /\ ocOptions[id].alice = Zero
    BY <1>4 DEF createOption
  <2> HIDE DEF o
  <2>3. Ledger(ocOptions', ocBalance')
    BY <1>0, <2>1, <2>2, CreateKeepsLedger, Zenon
  <2> QED BY <1>0, <1>4, <2>3 DEF createOption
<1>5. ASSUME NEW id \in OcIds, NEW a \in OcAtts, NEW w, settle(id, a, w)
      PROVE  /\ ocNow' \in Nat /\ ocCreated' \in Int
             /\ Ledger(ocOptions', ocBalance') /\ Saved(ocFrames')
  <2> DEFINE f == [options |-> ocOptions, balance |-> ocBalance,
                   created |-> ocCreated]
  <2>1. /\ ~ocOptions[id].settled
        /\ ocOptions' = [ocOptions EXCEPT ![id].settled = TRUE]
        /\ ocBalance' = ocBalance - ocOptions[id].payout
        /\ ocFrames' = Append(ocFrames, f)
        /\ UNCHANGED <<ocNow, ocCreated>>
    BY <1>5 DEF settle, settleable
  <2>2. Ledger(ocOptions', ocBalance')
    BY <1>0, <2>1, SettleKeepsLedger, Zenon
  <2>3. f \in Frame /\ Ledger(f.options, f.balance)
    BY <1>0, LedgerIsFinite DEF Ledger
  <2> HIDE DEF f
  <2>4. /\ ocFrames' \in Seq(Frame) /\ Len(ocFrames') = Len(ocFrames) + 1
        /\ ocFrames'[Len(ocFrames) + 1] = f
        /\ \A k \in 1..Len(ocFrames) : ocFrames'[k] = ocFrames[k]
    <3> HIDE DEF Frame
    <3> QED BY <1>0, <2>1, <2>3
  <2>5. \A k \in 1..Len(ocFrames') : k = Len(ocFrames) + 1 \/ k \in 1..Len(ocFrames)
    BY <1>0, <2>4
  <2>6. Saved(ocFrames')
    BY <1>0, <2>3, <2>4, <2>5
  <2> QED BY <1>0, <2>1, <2>2, <2>6
<1>6. ASSUME WinnerReturns \/ WinnerFails
      PROVE  /\ ocNow' \in Nat /\ ocCreated' \in Int
             /\ Ledger(ocOptions', ocBalance') /\ Saved(ocFrames')
  <2>1. ocFrames # <<>> /\ ocFrames' = Front(ocFrames) /\ ocNow' = ocNow
    BY <1>6 DEF WinnerReturns, WinnerFails
  <2>2. /\ Len(ocFrames) \in Nat \ {0}
        /\ Last(ocFrames) = ocFrames[Len(ocFrames)] /\ Last(ocFrames) \in Frame
        /\ ocFrames' \in Seq(Frame) /\ Len(ocFrames') = Len(ocFrames) - 1
        /\ \A k \in 1..(Len(ocFrames) - 1) : ocFrames'[k] = ocFrames[k]
    <3> HIDE DEF Frame
    <3> QED BY <1>0, <2>1, FrontAndLast, Zenon
  <2>3. \A k \in 1..Len(ocFrames') : k \in 1..(Len(ocFrames) - 1) /\ k \in 1..Len(ocFrames)
    BY <2>2
  <2>4. Saved(ocFrames')
    <3> HIDE DEF Frame
    <3> QED BY <1>0, <2>2, <2>3
  <2>5. CASE WinnerReturns
    BY <1>0, <2>1, <2>4, <2>5, Zenon DEF WinnerReturns
  <2>6. CASE WinnerFails
    <3>1. /\ ocOptions' = Last(ocFrames).options
          /\ ocBalance' = Last(ocFrames).balance
          /\ ocCreated' = Last(ocFrames).created
      BY <2>6, Zenon DEF WinnerFails
    <3>2. Ledger(Last(ocFrames).options, Last(ocFrames).balance)
      BY <1>0, <2>2
    <3>3. Ledger(ocOptions', ocBalance')
      BY <3>1, <3>2
    <3>4. ocCreated' \in Int
      BY <2>2, <3>1, Zenon
    <3> QED BY <1>0, <2>1, <2>4, <3>3, <3>4
  <2> QED BY <1>6, <2>5, <2>6
<1>7. ASSUME NEW s \in OcAddresses, NEW a \in OcAtts, NEW i \in OcIncomes,
             submitIncome(s, a, i)
      PROVE  /\ ocNow' \in Nat /\ ocCreated' \in Int
             /\ Ledger(ocOptions', ocBalance') /\ Saved(ocFrames')
  BY <1>0, <1>7 DEF submitIncome
<1> HIDE DEF Saved, Frame
<1> QED
  BY <1>1, <1>2, <1>3, <1>4, <1>5, <1>6, <1>7
  DEF OcNext, OcOptionsNext, OcIncomeNext

\* BinaryOptionsAttestation holds exactly the deposits of the options not yet
\* settled, for any number of options and any depth of calls from inside
\* settle, with calls undone at every level.
THEOREM FundsAlwaysMatch == OcSpec => []FundsMatchOptions
<1>1. OcInit => FundsInv
  <2> SUFFICES ASSUME OcInit PROVE FundsInv
    BY Zenon
  <2>1. /\ ocOptions \in [OcIds -> Option]
        /\ \A i \in OcIds : ocOptions[i].payout = 0
    BY Zenon DEF OcInit, NoOption, Option
  <2>2. Total(Payouts(ocOptions), Unsettled(ocOptions)) = 0
    BY <2>1, TotalOfZeros
  <2>3. Ledger(ocOptions, ocBalance)
    BY <2>1, <2>2, Zenon DEF OcInit, Ledger
  <2> QED BY <2>3, OcAssumption DEF OcInit, FundsInv
<1>2. FundsInv /\ [OcNext]_ocvars => FundsInv'
  BY FundsStep
<1>3. FundsInv => FundsMatchOptions
  BY DEF FundsInv, Ledger, FundsMatchOptions, Total, Payouts, Unsettled
<1> QED BY <1>1, <1>2, <1>3, PTL DEF OcSpec

---------------------------------------------------------------------------
(* The incomes of IncomeAttestation.                                       *)

\* The digests an attestation can have, and a submission of an income.
Envelopes == {decode(secp_abi_encode(a)).envelopeDigest : a \in OcAtts}

Submission == [by : OcAddresses, what : OcIncomes, digest : Envelopes]

\* The inductive invariant: what is stored for an account is nothing or an
\* income it submitted, never one from the future; and processedAttestations
\* is the set of the digests submitted, each once.
IncomeInv ==
  /\ ocNow \in Nat /\ ocNow > Validity
  /\ ocSubmissions \in Seq(Submission)
  /\ \A k \in 1..Len(ocSubmissions) : ocSubmissions[k].what[2] <= ocNow
  /\ ocIncome \in [OcAddresses -> OcIncomes \cup {<<0, 0>>}]
  /\ \A u \in OcAddresses :
       \/ ocIncome[u] = <<0, 0>>
       \/ \E k \in 1..Len(ocSubmissions) :
            ocSubmissions[k].by = u /\ ocSubmissions[k].what = ocIncome[u]
  /\ \A j, k \in 1..Len(ocSubmissions) :
       ocSubmissions[j].digest = ocSubmissions[k].digest => j = k
  /\ ocProcessed = {ocSubmissions[k].digest : k \in 1..Len(ocSubmissions)}

\* Every step keeps it.  The check of processedAttestations makes the new
\* digest different from all earlier ones; time only moves forward.
LEMMA IncomeStep ==
  ASSUME IncomeInv, [OcNext]_ocvars
  PROVE  IncomeInv'
<1>0. /\ ocNow \in Nat /\ ocNow > Validity /\ Validity \in Nat
      /\ OcIncomes \subseteq Nat \X Nat
      /\ ocSubmissions \in Seq(Submission)
  BY OcAssumption DEF IncomeInv
<1>1. ASSUME UNCHANGED <<ocProcessed, ocIncome, ocSubmissions>>,
             ocNow' = ocNow \/ ocNow' = ocNow + 1
      PROVE  IncomeInv'
  <2>1. ocNow' \in Nat /\ ocNow' >= ocNow
    BY <1>0, <1>1
  <2>2. \A k \in 1..Len(ocSubmissions) : ocSubmissions[k].what[2] \in Nat
    <3>1. \A e \in Submission : e.what \in Nat \X Nat
      BY <1>0 DEF Submission
    <3>2. \A k \in 1..Len(ocSubmissions) : ocSubmissions[k] \in Submission
      BY <1>0
    <3> QED BY <3>1, <3>2, Zenon
  <2>3. \A k \in 1..Len(ocSubmissions') : ocSubmissions'[k].what[2] <= ocNow'
    BY <1>0, <1>1, <2>1, <2>2 DEF IncomeInv
  <2> QED BY <1>0, <1>1, <2>1, <2>3 DEF IncomeInv
<1>2. ASSUME NEW s \in OcAddresses, NEW a \in OcAtts, NEW i \in OcIncomes,
             submitIncome(s, a, i)
      PROVE  IncomeInv'
  <2> DEFINE d == decode(secp_abi_encode(a)).envelopeDigest
             e == [by |-> s, what |-> i, digest |-> d]
             n == Len(ocSubmissions)
  <2>1. /\ d \notin ocProcessed /\ i[2] <= ocNow
        /\ ocProcessed' = ocProcessed \cup {d}
        /\ ocIncome' = [ocIncome EXCEPT ![s] = i]
        /\ ocSubmissions' = Append(ocSubmissions, e)
        /\ ocNow' = ocNow
    BY <1>2, Zenon DEF submitIncome, unprocessed
  <2>2. d \in Envelopes
    BY Zenon DEF Envelopes
  <2> HIDE DEF d
  <2>3. e \in Submission /\ e.by = s /\ e.what = i /\ e.digest = d
    BY <2>2 DEF Submission
  <2> HIDE DEF e
  <2>4. /\ n \in Nat /\ ocSubmissions' \in Seq(Submission)
        /\ Len(ocSubmissions') = n + 1 /\ ocSubmissions'[n + 1] = e
        /\ \A k \in 1..n : ocSubmissions'[k] = ocSubmissions[k]
    BY <1>0, <2>1, <2>3
  <2> HIDE DEF n
  <2>5. 1..Len(ocSubmissions') = 1..n \cup {n + 1}
    BY <2>4
  <2>6. \A k \in 1..Len(ocSubmissions') : ocSubmissions'[k].what[2] <= ocNow'
    BY <2>1, <2>3, <2>4, <2>5, Zenon DEF IncomeInv, n
  <2>7. ocIncome' \in [OcAddresses -> OcIncomes \cup {<<0, 0>>}]
    BY <2>1 DEF IncomeInv
  <2>8. ASSUME NEW u \in OcAddresses
        PROVE  \/ ocIncome'[u] = <<0, 0>>
               \/ \E k \in 1..Len(ocSubmissions') :
                    ocSubmissions'[k].by = u /\ ocSubmissions'[k].what = ocIncome'[u]
    <3>1. CASE u = s
      <4>1. ocIncome'[u] = i
        BY <2>1, <3>1 DEF IncomeInv
      <4>2. n + 1 \in 1..Len(ocSubmissions')
        BY <2>5
      <4> QED BY <2>3, <2>4, <3>1, <4>1, <4>2, Zenon
    <3>2. CASE u # s
      <4>1. ocIncome'[u] = ocIncome[u]
        BY <2>1, <3>2 DEF IncomeInv
      <4>2. \/ ocIncome[u] = <<0, 0>>
            \/ \E k \in 1..n :
                 ocSubmissions[k].by = u /\ ocSubmissions[k].what = ocIncome[u]
        BY Zenon DEF IncomeInv, n
      <4> QED BY <2>4, <2>5, <4>1, <4>2, Zenon
    <3> QED BY <3>1, <3>2
  <2>9. ocProcessed = {ocSubmissions[k].digest : k \in 1..n}
    BY Zenon DEF IncomeInv, n
  <2>10. \A k \in 1..n : ocSubmissions[k].digest # d
    BY <2>1, <2>9
  <2>11. \A j, k \in 1..Len(ocSubmissions') :
           ocSubmissions'[j].digest = ocSubmissions'[k].digest => j = k
    BY <2>3, <2>4, <2>5, <2>10 DEF IncomeInv, n
  <2>12. ocProcessed' = {ocSubmissions'[k].digest : k \in 1..Len(ocSubmissions')}
    BY <2>1, <2>3, <2>4, <2>5, <2>9
  <2> QED BY <1>0, <2>1, <2>4, <2>6, <2>7, <2>8, <2>11, <2>12, Zenon DEF IncomeInv
<1>3. CASE UNCHANGED ocvars
  BY <1>1, <1>3, Zenon DEF ocvars
<1>4. CASE BlockTime
  BY <1>1, <1>4, Zenon DEF BlockTime
<1>5. ASSUME NEW c, OcKeysNext(c) PROVE IncomeInv'
  BY <1>1, <1>5 DEF OcKeysNext, authorizeGroupKey, revokeGroupKey
<1>6. ASSUME NEW id, NEW s, NEW b, NEW ttl, NEW v, createOption(id, s, b, ttl, v)
      PROVE  IncomeInv'
  BY <1>1, <1>6, Zenon DEF createOption
<1>7. ASSUME NEW id, NEW a, NEW w, settle(id, a, w) PROVE IncomeInv'
  BY <1>1, <1>7 DEF settle
<1>8. CASE WinnerReturns \/ WinnerFails
  BY <1>1, <1>8 DEF WinnerReturns, WinnerFails
<1> QED
  BY <1>2, <1>3, <1>4, <1>5, <1>6, <1>7, <1>8
  DEF OcNext, OcOptionsNext, OcIncomeNext

\* hasVerifiedIncome never reverts and vouches only for an income that was
\* submitted for that account, is large enough and fresh; no attestation is
\* accepted twice and only accepted ones are used up, for any number of
\* accounts, submissions and owners' changes of the authorized keys.
THEOREM IncomeAlwaysAttested == OcSpec => []IncomeIsAttested
<1>1. OcInit => IncomeInv
  BY OcAssumption DEF OcInit, IncomeInv
<1>2. IncomeInv /\ [OcNext]_ocvars => IncomeInv'
  BY IncomeStep
<1>3. IncomeInv => IncomeIsAttested
  <2> SUFFICES ASSUME IncomeInv PROVE IncomeIsAttested
    BY Zenon
  <2>0. /\ ocNow \in Nat /\ ocNow > Validity /\ Validity \in Nat
        /\ OcIncomes \subseteq Nat \X Nat
        /\ ocSubmissions \in Seq(Submission) /\ DOMAIN ocSubmissions = 1..Len(ocSubmissions)
    BY OcAssumption DEF IncomeInv
  <2>1. ASSUME NEW u \in OcAddresses,
               NEW m \in {0} \cup {i[1] : i \in OcIncomes}
        PROVE  /\ hasVerifiedIncome(u, m) \in BOOLEAN
               /\ hasVerifiedIncome(u, m) =>
                    \E k \in DOMAIN ocSubmissions :
                      /\ ocSubmissions[k].by = u /\ ocSubmissions[k].what[1] >= m
                      /\ ocNow - ocSubmissions[k].what[2] <= Validity
    <3> DEFINE x == ocIncome[u][1]
               y == ocIncome[u][2]
    <3>1. m \in Nat /\ x \in Nat /\ y \in Nat
      BY <2>0 DEF IncomeInv
    <3>2. y <= ocNow
      BY <2>0 DEF IncomeInv
    <3>3. \/ x = 0 /\ y = 0
          \/ \E k \in DOMAIN ocSubmissions :
               /\ ocSubmissions[k].by = u
               /\ ocSubmissions[k].what[1] = x /\ ocSubmissions[k].what[2] = y
      BY <2>0 DEF IncomeInv
    <3>4. hasVerifiedIncome(u, m) =
            CASE x < m -> FALSE
              [] x >= m /\ ocNow < y -> OcErr
              [] OTHER -> ocNow - y <= Validity
      BY Zenon DEF hasVerifiedIncome
    <3> HIDE DEF x, y
    <3>5. CASE x < m
      <4>1. hasVerifiedIncome(u, m) = FALSE
        BY <3>1, <3>4, <3>5
      <4> QED BY <4>1, Zenon
    <3>6. CASE x >= m
      <4>1. ~(x < m) /\ ~(ocNow < y)
        BY <2>0, <3>1, <3>2, <3>6
      <4>2. hasVerifiedIncome(u, m) = (ocNow - y <= Validity)
        BY <3>4, <4>1, Zenon
      <4>3. ocNow - y <= Validity => ~(x = 0 /\ y = 0)
        BY <2>0, <3>1
      <4>4. ASSUME ocNow - y <= Validity
            PROVE  \E k \in DOMAIN ocSubmissions :
                     /\ ocSubmissions[k].by = u /\ ocSubmissions[k].what[1] >= m
                     /\ ocNow - ocSubmissions[k].what[2] <= Validity
        BY <3>3, <3>6, <4>3, <4>4
      <4>5. hasVerifiedIncome(u, m) \in BOOLEAN
        BY <4>2
      <4>6. hasVerifiedIncome(u, m) => ocNow - y <= Validity
        BY <4>2, Zenon
      <4> HIDE DEF hasVerifiedIncome
      <4> QED BY <4>4, <4>5, <4>6, Zenon
    <3> QED BY <3>1, <3>5, <3>6
  <2> QED BY <2>0, <2>1 DEF IncomeInv, IncomeIsAttested
<1> QED BY <1>1, <1>2, <1>3, PTL DEF OcSpec

=============================================================================
