------------------------------ MODULE OnChain ------------------------------
(***************************************************************************)
(* The contracts TLSAttestation, BinaryOptionsAttestation and              *)
(* IncomeAttestation of FrostVerifier.sol.  A transaction that reverts     *)
(* changes nothing and is not a step.  settle calls the winner, whose code *)
(* may call the contract again before it returns, or fail.                 *)
(***************************************************************************)
EXTENDS Schnorr

CONSTANTS
  OcIds,         \* option identifiers
  OcAddresses,   \* accounts, other than the zero address
  OcValues,      \* amounts that are deposited
  OcTtls,        \* ttlSeconds values; 0 is no expiry
  OcGroupKeys,   \* the group keys the owners authorize
  OcAtts,        \* the attestations that circulate
  OcIncomes,     \* <<income, timestamp>> values
  Validity,      \* INCOME_VALIDITY_SECONDS
  MaxTime,       \* bound on block.timestamp
  MaxDepth,      \* bound on calls within calls
  MaxOptions     \* bound on the options created

\* Identifiers are 32 bytes, amounts and times unsigned integers; the sender of
\* a transaction is never the zero address.
ASSUME OcAssumption ==
  /\ IsFiniteSet(OcIds)
  /\ Zero \notin OcAddresses
  /\ OcValues \subseteq Nat /\ OcTtls \subseteq Nat
  /\ OcIncomes \subseteq Nat \X Nat
  /\ Validity \in Nat

VARIABLES
  ocNow,         \* block.timestamp
  ocAuthorized,    \* contract -> the set of authorized group keys
  ocOptions,       \* option id -> Option
  ocBalance,       \* what BinaryOptionsAttestation holds
  ocFrames,        \* the calls to receivers under way: the state to restore
  ocCreated,       \* how many options were created
  ocProcessed,     \* processedAttestations of IncomeAttestation
  ocIncome,        \* account -> <<verifiedIncome, incomeTimestamp>>
  ocSubmissions    \* history: the accepted <<account, income, timestamp, digest>>

ocvars == <<ocNow, ocAuthorized, ocOptions, ocBalance, ocFrames, ocCreated, ocProcessed,
            ocIncome, ocSubmissions>>

NoOption == [alice |-> Zero, bob |-> Zero, payout |-> 0, expiresAt |-> 0,
             settled |-> FALSE]

\* Counted from 1970, the time is far beyond the validity of an income.
OcInit ==
  /\ ocNow = Validity + 1
  /\ ocAuthorized = [c \in {"options", "income"} |-> {}]
  /\ ocOptions = [i \in OcIds |-> NoOption]
  /\ ocBalance = 0
  /\ ocFrames = <<>>
  /\ ocCreated = 0
  /\ ocProcessed = {}
  /\ ocIncome = [a \in OcAddresses |-> <<0, 0>>]
  /\ ocSubmissions = <<>>

BlockTime ==
  /\ ocFrames = <<>> /\ ocNow < MaxTime
  /\ ocNow' = ocNow + 1
  /\ UNCHANGED <<ocAuthorized, ocOptions, ocBalance, ocFrames, ocCreated, ocProcessed,
                 ocIncome, ocSubmissions>>

authorizeGroupKey(c, key) ==
  /\ ocFrames = <<>>
  /\ ocAuthorized' = [ocAuthorized EXCEPT ![c] = @ \cup {key}]
  /\ UNCHANGED <<ocNow, ocOptions, ocBalance, ocFrames, ocCreated, ocProcessed, ocIncome,
                 ocSubmissions>>

revokeGroupKey(c, key) ==
  /\ ocFrames = <<>>
  /\ ocAuthorized' = [ocAuthorized EXCEPT ![c] = @ \ {key}]
  /\ UNCHANGED <<ocNow, ocOptions, ocBalance, ocFrames, ocCreated, ocProcessed, ocIncome,
                 ocSubmissions>>

isGroupKeyAuthorized(c, keyX, keyY) == <<keyX, keyY>> \in ocAuthorized[c]

verifyAttestation(c, att) ==
  /\ att.statementDigest # <<>>
  /\ att.threshold # 0
  /\ att.threshold <= att.verifierCount
  /\ isGroupKeyAuthorized(c, att.groupKeyX, att.groupKeyY)
  /\ verify(att.envelopeDigest, att.groupKeyX, att.groupKeyY, att.sigRX,
            att.sigS)

OptionDigest(id, winner) == <<"binary-options/v1", id, winner>>

createOption(id, sender, counterparty, ttl, value) ==
  /\ ocCreated < MaxOptions
  /\ ocOptions[id].alice = Zero
  /\ ocOptions' = [ocOptions EXCEPT ![id] =
       [alice |-> sender, bob |-> counterparty, payout |-> value,
        expiresAt |-> IF ttl = 0 THEN 0 ELSE ocNow + ttl, settled |-> FALSE]]
  /\ ocBalance' = ocBalance + value
  /\ ocCreated' = ocCreated + 1
  /\ UNCHANGED <<ocNow, ocAuthorized, ocFrames, ocProcessed, ocIncome, ocSubmissions>>

\* Without the check of settled.
SettleableAgain(opt, winner) ==
  /\ winner \in {opt.alice, opt.bob}
  /\ opt.expiresAt = 0 \/ ocNow <= opt.expiresAt

settleable(opt, winner) ==
  /\ ~opt.settled
  /\ winner \in {opt.alice, opt.bob}
  /\ opt.expiresAt = 0 \/ ocNow <= opt.expiresAt

\* Up to the call of the winner, which has the money and runs its own code.
settle(id, a, winner) ==
  LET opt == ocOptions[id]
      att == decode(secp_abi_encode(a))
  IN /\ Len(ocFrames) < MaxDepth
     /\ settleable(opt, winner)
     /\ att.statementDigest = OptionDigest(id, winner)
     /\ verifyAttestation("options", att)
     /\ ocOptions' = [ocOptions EXCEPT ![id].settled = TRUE]
     /\ ocBalance' = ocBalance - opt.payout
     /\ ocFrames' = Append(ocFrames, [options |-> ocOptions, balance |-> ocBalance,
                                  created |-> ocCreated])
     /\ UNCHANGED <<ocNow, ocAuthorized, ocCreated, ocProcessed, ocIncome, ocSubmissions>>

\* The winner's code ends, or fails and undoes everything since settle began.
WinnerReturns ==
  /\ ocFrames # <<>>
  /\ ocFrames' = Front(ocFrames)
  /\ UNCHANGED <<ocNow, ocAuthorized, ocOptions, ocBalance, ocCreated, ocProcessed,
                 ocIncome, ocSubmissions>>

WinnerFails ==
  /\ ocFrames # <<>>
  /\ ocOptions' = Last(ocFrames).options
  /\ ocBalance' = Last(ocFrames).balance
  /\ ocCreated' = Last(ocFrames).created
  /\ ocFrames' = Front(ocFrames)
  /\ UNCHANGED <<ocNow, ocAuthorized, ocProcessed, ocIncome, ocSubmissions>>

IncomeDigest(sender, i) == <<"income/v1", sender, i[1], i[2]>>

\* Only the last attestation is remembered.
NotTheLast(digest) ==
  \A k \in DOMAIN ocSubmissions :
    ocSubmissions[k].digest = digest => k < Len(ocSubmissions)

unprocessed(digest) == digest \notin ocProcessed

submitIncome(sender, a, i) ==
  LET att == decode(secp_abi_encode(a))
  IN /\ ocFrames = <<>>
     /\ unprocessed(att.envelopeDigest)
     /\ att.statementDigest = IncomeDigest(sender, i)
     /\ verifyAttestation("income", att)
     /\ i[2] <= ocNow
     /\ ocNow - i[2] <= Validity
     /\ ocProcessed' = ocProcessed \cup {att.envelopeDigest}
     /\ ocIncome' = [ocIncome EXCEPT ![sender] = i]
     /\ ocSubmissions' = Append(ocSubmissions,
                              [by |-> sender, what |-> i,
                               digest |-> att.envelopeDigest])
     /\ UNCHANGED <<ocNow, ocAuthorized, ocOptions, ocBalance, ocFrames, ocCreated>>

\* The subtraction is checked: it reverts when the timestamp is in the future.
hasVerifiedIncome(user, minIncome) ==
  CASE ocIncome[user][1] < minIncome -> FALSE
    [] ocIncome[user][1] >= minIncome /\ ocNow < ocIncome[user][2] -> OcErr
    [] OTHER -> ocNow - ocIncome[user][2] <= Validity

OcKeysNext(c) ==
  \E key \in OcGroupKeys : authorizeGroupKey(c, key) \/ revokeGroupKey(c, key)

OcOptionsNext ==
  \/ BlockTime \/ OcKeysNext("options")
  \/ \E id \in OcIds, s, b \in OcAddresses, ttl \in OcTtls, v \in OcValues :
       createOption(id, s, b, ttl, v)
  \/ \E id \in OcIds, a \in OcAtts, w \in OcAddresses \cup {Zero} :
       settle(id, a, w)
  \/ WinnerReturns \/ WinnerFails

OcIncomeNext ==
  \/ BlockTime \/ OcKeysNext("income")
  \/ \E s \in OcAddresses, a \in OcAtts, i \in OcIncomes : submitIncome(s, a, i)

OcNext == OcOptionsNext \/ OcIncomeNext

OcSpec == OcInit /\ [][OcNext]_ocvars

---------------------------------------------------------------------------

\* BinaryOptionsAttestation holds exactly the deposits of the options not yet
\* settled, also while a winner's code runs inside settle and calls back, and
\* after calls that were undone.
FundsMatchOptions ==
  ocBalance = FoldFunctionOnSet(+, 0, [i \in OcIds |-> ocOptions[i].payout],
                              {i \in OcIds : ~ocOptions[i].settled})

\* IncomeAttestation: hasVerifiedIncome never reverts and vouches only for an
\* income of that account which was submitted, is at least the minimum and not
\* older than the validity; no attestation was accepted twice, and only those
\* accepted are used up.
IncomeIsAttested ==
  /\ \A u \in OcAddresses : \A m \in {0} \cup {i[1] : i \in OcIncomes} :
       /\ hasVerifiedIncome(u, m) \in BOOLEAN
       /\ hasVerifiedIncome(u, m) =>
            \E k \in DOMAIN ocSubmissions :
              /\ ocSubmissions[k].by = u /\ ocSubmissions[k].what[1] >= m
              /\ ocNow - ocSubmissions[k].what[2] <= Validity
  /\ \A j, k \in DOMAIN ocSubmissions :
       ocSubmissions[j].digest = ocSubmissions[k].digest => j = k
  /\ ocProcessed = {ocSubmissions[k].digest : k \in DOMAIN ocSubmissions}
=============================================================================
