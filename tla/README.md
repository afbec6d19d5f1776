# TLA+ models of the collusion-resistant zkTLS attestation system

This directory holds TLA+ modules, TLC configurations and TLAPS proofs for the
Rust workspace in `crates/` and the contracts in `contracts/src`. Every
definition is translated from the code; `PROJECT.json` maps it to its lines.

    tlc -config Deployment.cfg MCDeployment         # model-check one run
    tlapm FrostSigningProofs.tla                    # check the proofs

## The system

A prover wants a statement about a TLS response certified by a quorum of
verifiers, t of n, without trusting any of them alone.

1. **Key and randomness.** The verifiers run a distributed key generation (DKG)
   once; per session they evaluate a distributed verifiable random function
   (DVRF), whose output goes into everything that follows.
2. **Attestation.** An engine makes the TLS exchange and leaves evidence in three
   parts: handshake (HSP), query record (QP) and statement (PGP). DECO and DiStefano
   variants add zero-knowledge proofs made by two provers (co-SNARK). The
   coordinator puts the result into an envelope whose digest covers session,
   randomness, transcript and statement.
3. **Signing.** The coordinator asks every selected auxiliary node for a FROST
   commitment (Round 1), assembles a signing package, asks for a signature share
   (Round 2) and aggregates the shares into one signature.
4. **Verification.** Off chain by `VerificationEngine`, on chain by the contracts.

### Inventory

| Part | State | Operations that change it | What makes it hard |
|---|---|---|---|
| Session lifecycle (`attestation/session.rs`) | state of a session | `transition`, `expire`, `fail` | terminal states, error exits |
| Session stores (`storage`) | sessions, approvals | `insert`, `update_state`, `record_approval`, `remove` | threads, lock scopes, crash between statements |
| Auxiliary node (`node/frost_aux.rs`) | two nonce caches | `frost_round1/2`, `handshake_binding_round1/2`, eviction | concurrent handlers, repeated and late requests, restart |
| Coordinator (`node/coordinator.rs`) | one thread per session, the store | `prepare_session`, the `attest*` paths | partial failure, crash, late answers, expiry |
| Transports (`node/transport.rs`, `auth.rs`, `network`) | connections, frames, signed envelopes, queues | calls, `seal`, `open`, framing, `register`, `send`, `receive` | timeout, loss, clock tolerance, frame bounds |
| Handshake binding (`node/handshake_binding.rs`) | none of its own | `run_handshake_binding` | retry of a session whose entry is still cached |
| DKG (`node/dkg_node.rs`, `crypto/dkg*.rs`) | per-node round state | `part1`, `part2`, `part3`, ceremonies | order of rounds, one-shot secrets, lost or mixed-up packages |
| Participant registry (`crypto/participant_registry.rs`) | epoch, participant status | `with_revocation`, `with_retirement`, `with_key_rotation` | stale epochs |
| Key files (`node/src/bin`) | share, group-key and config files; running processes | ceremony writes, process starts | stop between two writes, repeated ceremony |
| Randomness (`crypto/dvrf*.rs`, `randomness.rs`, `attestation/rc_phase.rs`) | collected evaluations | collect, combine, `generate` | order of arrival, retransmission, session binding |
| Evidence (`attestation/dctls.rs`, `verify.rs`, engines, dx-DCTLS) | runs of the engines | runs, retries, chains of checks | parts of different runs put together |
| co-SNARK (`zk`, `co-snark-prover`) | parameters, prover processes, files | set-up, prove, restart | shared parameter file, cached parameters, process death |
| Contracts (`contracts/src`) | keys, options, attestations, verifying keys | transactions | order of transactions, calls back, repeated attestations |
| HTTP front end (`node/src/bin/coordinator.rs`) | a buffer per connection | `read_http_body` | segmentation, buffer limit, early close |

### Hard behaviours and the properties they call for

- A nonce pair must never sign twice, whatever is repeated, late or restarted;
  a share must be over what its node committed to.
- An envelope must stand for a full quorum of distinct signers in one package,
  although the code counts transports, calls fail half-way, requests are handled after the caller gave up,
  and the coordinator or a node restarts.
- The stores must keep their invariants when calls interleave inside an
  operation and when the process stops between two statements.
- Every session must come to an end, and to a good one unless a fault touched it,
  whatever other sessions do on the same nodes.
- Which mixtures of evidence of retried and concurrent runs are approved must be
  what the verifier's own view allows; key
  files of two ceremonies must not give one signature; a proof must verify under
  the key its client was told.
- What a transport delivers must be what was sent, once, and what one side of an
  encoding, a circuit or a contract computes must agree with the other side.

`PROJECT.json` lists each hazard at its line with the properties that cover it.

## Modules

The core, each with its own runs and proofs:

| Module | Models | Kind |
|---|---|---|
| `SessionState` | the lifecycle graph of `session.rs` | operators |
| `SessionStore`, `MCSessionStore` | `memory.rs` and `sqlite.rs` under concurrent threads | state machine |
| `FrostAux`, `MCFrostAux` | `frost_aux.rs`: any number of nodes, both protocols, arbitrary requests | state machine |
| `ThresholdSigning` | what the signing phase promises | abstract specification |
| `FrostSigning`, `MCFrostSigning` | coordinator threads, TCP calls, session store and the nodes of `FrostAux` | composition |
| `MCFrostLive` | `FrostSigning` with a record of the sessions no fault has touched, for liveness | instance |
| `FrostSigningProofs` | invariants and theorems of the nodes and of the composition, and its refinement of `ThresholdSigning` | proofs |
| `ParticipantRegistry` | registry snapshots and their updates | operators |
| `Dkg`, `MCDkg` | `dkg_node.rs` with `crypto/dkg.rs`, `dkg_announce.rs`, `dkg_encrypt.rs` | state machine |
| `DkgProofs` | inductive invariants and theorems of key generation | proofs |
| `Transports` | plain TCP, signed envelopes, mutual TLS, in-memory queues | state machine |
| `ServerProofs` | invariants and theorems of `SessionStore`, `Transports` and `HttpServer` | proofs |

The parts around it, composed in `MCDeployment`:

| Module | Models | Kind |
|---|---|---|
| `FrostAdapter` | Ed25519 FROST adapter and the library under both adapters | operators |
| `Dvrf` | secp256k1 adapter and DKG, both FROST-based DVRFs | operators |
| `Randomness` | the `RandomnessEngine` implementations | operators |
| `RcPhase` | the RC orchestrator and the engines' outputs over sessions | state machine |
| `KeyCeremony` | `dkg-ceremony`, `aux-node` and `coordinator` over the key files | state machine |
| `FrostAdapterProofs` | lemmas about lists and maps, theorems of `KeyCeremony` and `RcPhase` | proofs |
| `Dctls` | sessions, transcripts, statements, HSP, QP and PGP proofs, packages | operators |
| `Engines` | the engines: prototype, TLS connection, exporter binding, TLS 1.2 capture | operators |
| `DxDctls` | DECO and DiStefano | operators |
| `Verification` | `VerificationEngine`, auxiliary verifier, envelope, threshold approval | operators |
| `Attestation` | runs and retries of the engines, a verifier that holds parts of several | state machine |
| `AttestationProofs` | invariants and theorems of `Attestation` | proofs |
| `LocalAttest` | `attest` and `attest_frost` of the coordinator over a SQLite store | state machine |
| `LocalAttestProofs` | invariant and theorem of `LocalAttest` | proofs |
| `Schnorr` | on-chain encodings and signature checks, in Rust and Solidity | operators, state machine |
| `OnChain` | the three contracts of `FrostVerifier.sol` | state machine |
| `OnChainProofs` | lemmas about sums, theorems of `OnChain` | proofs |
| `Groth16` | the prover's quadratic program, set-up, proof and verification in a small field | operators |
| `CoSnarkProver` | prover processes, their client and the parameter files | state machine |
| `TlsPrf` | SHA-256, HMAC, TLS 1.2 PRF, natively and in circuits | operators |
| `CoSnark` | HSP, session-binding and session-parameter proofs, the split protocol | state machine |
| `CoSnarkProofs` | the gadgets, and the invariant and theorems of the proofs | proofs |
| `HttpServer` | `read_http_body` and `handle_request` | state machine |
| `DctlsVerifier`, `MCDctlsVerifier` | `DctlsVerifier.sol` with `vk_export.rs` | state machine |

**SessionStore.** `sessions` maps an id to its state, `approvals` is the set of
recorded pairs, `call` says which thread is inside an operation, `backend` which
store was opened, `granted` remembers approvals for a property. An operation that
runs under one lock scope (or one statement) is one action; `record_approval` of
the in-memory store and `remove` of the SQLite store are two. A call that returns
an error is a disabled action. `Restart` drops the calls under way and, for the
in-memory store, the maps.

**FrostAux.** `pending` holds the entries of both caches of every node, `work` the
Round-1 handlers between their checks and the cache, `commitments` and `shares` the
responses sent, `drawn` counts the nonce pairs a node drew, so a nonce is fresh by
construction, as the operating system generator makes it. Round 1 is two actions
(`*_check`, `*_cache`), because other handlers run between the checks and the
critical section; Round 2 touches shared state once and is one action. Requests
are any record of the request type. The HSP and DCTLS proof checks of Round 1 are
one field, `evidence`; `frost::round2::sign` is external (`SignAccepts`).

**FrostSigning.** Each session has a thread, `pc`, that walks through
`prepare_session` and `attest_frost_distributed_over_transport`, and the list of transports
its caller passed, which may be too short or name a node twice. A call is named by
round, session and transport position; its request sits in `requests` until the
node takes it up, also after the caller gave up on it. `refused` holds the error
answers. `Faults` selects timeouts, node restarts, coordinator crashes and failing
preparations; `Durable` selects the store. Node actions are those of `FrostAux`.

**Dkg.** `nodes` holds the current `FrostDkgNode` of each participant: its round state,
participant list, polynomial and accepted Round-1 packages. A participant may start
over with a new node, numbered `gen`, and a new encryption key. The entry points
check their arguments and set `run`; a call that rejects its arguments changes
nothing and is a disabled action. The loops of a ceremony are one action per node
(`ceremony_part1/2/3`), any of which may fail and leave the other nodes as they are.
`build_dkg_network_messages` ends after part2 with `deliveries`, which
`dkg_part3_from_delivery` may take up late, repeatedly or at the wrong node. A
ceremony borrows its nodes mutably, so there is one ceremony at a time. The FROST
functions are abstracted to what they check: part2 the number of packages and the
proof of knowledge, bound to the sender's identifier; part3 the set of senders and
each share against the sender's commitment. A polynomial is a pair of participant
and number, a group key the set of polynomials in it. An id is used once for all
ceremony kinds, although `run_dkg_ceremony` takes none. `update_registry` publishes
new snapshots; ceremonies may be given old ones.

**Transports.** A call is a record of both ends of its connection: request and reply
frame (`value`, `size` and the 32-bit `len` that `write_frame` puts in front), result,
and how often the node ran it. `StartCall`, `accept_loop`, `handle_connection` and
`FinishCall` are the normal course; `TimeoutCall` lets the caller give up while the
server works on, `CutConnection` loses the rest of a frame or the connection,
`shutdown` and `bind` replace the server, `TTick` moves one of the two clocks. Sealing
and opening check sender, registry and clock tolerance. The queues of
`InMemoryTransport` are a second, independent part.

**Symbolic cryptography.** In `FrostAdapter` and the modules over it a key is the name
of the ceremony that made it, a share or signature records what it covers, a digest is
the tuple of what it hashes with its domain tag first, and an operation that returns an
error has the value `Err`. Injectivity of hashes is thereby assumed, and which fields a
digest covers, and which checks compare them, is what the models are about.

**KeyCeremony** has `files`, the ceremony being written with its next write, and what
each running process loaded; a ceremony may stop between two writes and a second one
may overwrite part of its files, with another threshold. **RcPhase** has the partial
evaluations in order of arrival, with retransmissions, and the outputs. **Attestation**
keeps every successful run of the engines (`attempts`, `dxproofs`); a connection is a
record of what rustls and the network do in it, including a read timeout and a failure
while reading. **LocalAttest** has one call per request between writes to the store,
with the exit of every `?`, and `LCrash` between any two writes. **OnChain** has the
storage of the contracts and `ocFrames`, the stack of transfers whose receiver's code
runs and may call back, return or fail, which restores the state before the call.

**Computed arithmetic.** Where a property is about arithmetic, the models compute. In
`Schnorr` the curve is y² = x³ + 7 over 43 elements, of prime order 31, below the field's
size as in secp256k1, and the contract's `ecrecover` detour is carried out. In `Groth16`
group elements are discrete logarithms in a field of 17 elements and a pairing product
is a sum of products; the quadratic program of `TlsKeyCircuit` and the prover's steps
over the evaluation domain and its coset are those of the code. In `TlsPrf` and
`CoSnark` data units are nibbles and sizes are divided by 16; padding, chaining, HMAC,
PRF and the circuits' packing are those of the code over a small compression function.

**CoSnarkProver** has the parameter file of the client, the handles it gave out, a
one-shot prover process and a server with its cached parameters; set-ups replace the file
while calls that name it are on their way. **HttpServer** reads a byte sequence in
segments of any length, up to the end of its buffer. **DctlsVerifier** has the registered
keys and the last verification; an all-zero key is the storage before registration.

## Runs

| Run | Instance | Shows |
|---|---|---|
| `FrostSigning` | 2 nodes, 2 of 4 sessions opened (both nodes, a node twice, too few transports), every fault, durable store | the safety properties and the refinement of `ThresholdSigning` |
| `FrostSigning_live` | 2 nodes, 2 sessions, timeouts, node restarts, expiry | every opened session returns, and is finalized unless a fault touched it |
| `Dkg` | 2 participants and lists in both orders and with an outsider, 2 ceremonies, 2 nodes each, 3 epochs | one key and numbering per ceremony, secrets and nodes used once, admission by epoch, no failure after part2, usable deliveries |
| `Deployment` | one instance per scenario, below | the properties of the other parts, and of stores and nodes by themselves |
| `SessionStore_late` (violation) | the in-memory store | an approval recorded after the session became terminal |
| `FrostAux_hb_overwrite` (violation) | 1 node | concurrent handshake-binding rounds displace nonces |
| `FrostAux_two_nonce_sets` (violation) | 1 node | a repeated Round 1 after Round 2 gets a second share |
| `FrostSigning_one_down` (violation) | 3 nodes, threshold 2 | one failing node fails the session |
| `Attestation_statement` (violation) | scenario `evidence` | a statement about another response is approved |
| `CoSnarkProver_handle` (violation) | scenario `prover` | a proof made with a handle is refused by the handle's key |
| `Schnorr_mirror` (violation) | scenario `schnorr` | `verify_schnorr` panics where the contract accepts |
| `DctlsVerifier` (violation) | one set-up per circuit, proofs over a few elements | a valid proof that the on-chain verifier rejects |

**Deployment.** The parts around the signing protocol, the stores, and a node under
arbitrary requests share no variables, so their interleavings say nothing. A behaviour of `MCDeployment` chooses one `scenario` and the
other parts rest: state spaces add instead of multiplying (680 thousand states in all).

| Scenario | Instance | Property |
|---|---|---|
| `keys` | 3 nodes, thresholds 2 and 3, 2 ceremonies over the same files, restarts | `OneCeremonyPerApproval` |
| `randomness` | 3 verifiers, threshold 2, 2 sessions, up to 3 evaluations in any order | `CombineIgnoresArrival`, `RandomnessIsForItsSession` |
| `evidence` | 2 sessions, 4 connections (TLS 1.2, TLS 1.3 ended by timeout, to another server, failing), 2 DVRF subsets, 2 runs, 3 instants; for DECO and DiStefano 6 connections that share a certificate or a response, 2 claims, 2 values of fresh randomness | `FullApprovalMatchesView`, `DxAcceptsMatchingRuns` |
| `local` | 2 concurrent requests out of 8, with too few secrets, nodes down, unknown or repeated signers; 2 registries | `FinalizedMeansApproved` |
| `options` | 2 options, 2 accounts, 2 deposits, calls back two deep | `FundsMatchOptions` |
| `income` | 2 incomes, attestations in and out of order and by other keys | `IncomeIsAttested` |
| `schnorr` | signatures with every nonce of the small curve for 4 keys and messages around the order, as signed and shifted; encodings with thresholds up to 255, whole and cut | `ContractDecidesTheEquation` |
| `prover` | 2 set-ups, central and distributed mode, failing processes | `ProofVerifiesUnderItsKey` |
| `zk` | 2 connections, 2 records, 2 CRSs per kind | `HspProofIsOfItsKey`, `BoundToWhatWasProved` |
| `split` | 2 parties that restart, up to 3 key pairs | `HspProofIsOfItsKey` |
| `calls` | 2 calls over each transport, stale registries, another CA, frames at and beyond the limit, 2 servers | `DeliveredAsSent` |
| `queues` | 2 ids, 2 sends each | `DeliveredAsSent` |
| `http` | headers and bodies below, at and beyond a buffer of 6, with a two-byte character and wrong or absent lengths | `ReadsWholeRequest` |
| `store` | 2 sessions, 2 verifiers, 2 threads, both stores, restarts | `TypeOK`, `ApprovalsHaveSession`, `NoApprovalForgotten`, `TerminalImmutable`, `NoLateApprovalSqlite` |
| `aux` | 1 node, 2 sessions, 2 nonces, TTL 2, 4 instants, both protocols | `NonceUsedOnce`, `ShareHonoursCommitment`, `FrostRoundKept` |

**Bounds.** Two sessions are enough for one session's requests to meet the other's
entries and evictions; two nodes for a session that one node signed and another
refused. One node suffices for the scenario `aux`, since nodes share nothing. `MaxNonce`
leaves room for every Round-1 call. `MaxTime` is large enough for a round to expire
and for a cached entry to pass `PendingTTL`. Signer lists differ in order, so that a
Round-2 list can disagree with the cached one. In `Dkg` two ceremonies and two nodes
per participant let an aborted ceremony be followed by a retry with old and new
nodes; two participants suffice for a share that meets the wrong package; only one
participant's registry entry changes (`Changing`), through three epochs. The ceremony ids
are symmetric. In `Deployment` each pair of instances (ceremonies, sessions, runs,
requests, options, set-ups, servers) lets an old one meet a new one; limits are small
(`MAX_FRAME` 10, `U32` 16, `BUF` 6, `TOLERANCE` 1) so that sizes and clocks lie below, at
and beyond them. `MaxCuts` bounds the cut connections, `MaxDepth` the calls back. The
theorems have none of these bounds except that `MaxNonce`, `MaxTime`, `MaxObjects`,
`MaxEpoch`, `TOLERANCE`, `MAX_FRAME`, `BUF`, `Validity` and `U32` are arbitrary numbers, `U32`
not zero.

**Deadlock.** The runs stop when their finitely many sessions, ceremonies or requests are
over, so the deadlock check is off.

**Fairness.** `Fairness` lets every coordinator thread that was started and the nodes'
service of requests go on (weak fairness): threads are scheduled by the operating system,
calls have socket timeouts of 30 s, and the servers accept in a loop. Nothing forces the
clock, restarts or the opening of a session. `SessionsReturn` distinguishes, through the
history variable `calm`, sessions that a timeout, a restart or their age has touched, which
only have to return, from the others, which have to be finalized: the eviction that another
session's Round 1 starts must leave their entries alone.

## Proofs

All safety properties of the runs `FrostSigning` and `Dkg`, and all but two of `Deployment`,
are proved for every value of the constants.

`ServerProofs` proves `StoreInv`: types, the two properties about approvals, and what
the locks protect (`StoreCallsOK`): only the in-memory store can be in the middle of
`record_approval`, only the SQLite store in the middle of `remove`, and then no other
thread is inside and the approval rows are already gone. Without the last part
`ApprovalsHaveSession` is not inductive, since `remove` deletes the session second.
`TerminalImmutable` and `NoLateApprovalSqlite` are action properties that follow from it.

`FrostSigningProofs` first proves, for any nodes, sessions, requests and bounds, the invariant
`AuxInv`: types; no handler, entry or share holds a nonce not drawn (`Drawn`); a
nonce is in one place only, handler, entry or share (`Separate`); a cache has one
entry per session (`Keyed`); every entry and share has its Round-1 response
(`Announced`). `NonceUsedOnce` alone is not inductive: a second share could come from
an entry that holds a nonce already spent, which `Separate` excludes. The action
property `FrostRoundKept` follows from the critical section of Round 1.

It then shows that each step of the composition is a step of `FrostAux`
or leaves the nodes alone (`SigningUsesNodes`), and proves `CoInv`: a Round-1 call is
in one place (`OnePlace`), no call is ahead of its thread (`NotAhead`), Round 2 starts
only when all Round-1 calls have been answered (`RoundsInOrder`), a node that signed a
session holds no nonces for it (`Spent`), and what a thread has collected and
recorded (`Collected`, `DistinctSigners`). From it follow `EnvelopeIsQuorumSigned`,
`OneNonceSetSigned`, `NoncesConsumed` and the refinement of `ThresholdSigning`: a share
is an approval, finalizing is the delivery, an error or crash gives sessions up, and all
other steps stutter. `OneNonceSetSigned` is violated by the nodes alone and holds
under the coordinator, because ids are fresh and no call is repeated; the crucial step
is `RoundsInOrder`. `ApprovalsAreEarned` and `LifecycleFollowed` follow the store through
the thread's program. `PackageIsGenuine` needs a second invariant, `GenuineInv`: nodes
commit to the session's digest, the thread holds what they answered, and every share is in
the package made of all the answers; that a repeated signer has a last position in the
list, the one whose nonces count, is well-founded minimality over the naturals. The
transports of a session may repeat a node and be any list; fewer than the threshold, and
members outside the group key, are covered. That a repeated node never reaches the end,
so that counting transports counts nodes, is its second approval, which the store refuses.

`DkgProofs` follows the Round-1 packages. No two packages in `sent`
carry one polynomial, nor do two of one participant belong to one ceremony (`SentOK`);
a ceremony past part1 is `Sealed`: its packages never change (`Kept`). A node that
passed part2 holds exactly the other packages of one sealed ceremony, and its list
fits the identifiers in them (`AcceptedOK`); the count that part2 checks and the
absence of duplicates make the senders the whole list (`Part2Fits`), so the packages
determine the list (`FitsUnique`). Shares in circulation belong to packages
(`Genuine`), and part3 compares them with the packages of its node, so a delivery of
one ceremony is only accepted by nodes of that ceremony (`Part3Key`). This
gives `GroupKeysAgree` without a comparison of keys, `SecretsUsedOnce` and `EmittedOnce`;
`AdmittedOnly` rests on the epochs of snapshots, which strictly increase (`RegsOK`).
`GroupKeysAgree` is not inductive, since it says nothing of the nodes and messages that
future shares come from. `TypeOK` needs that a node draws one polynomial at most
(`DkgTyped`). That nothing fails after part2 is the converse of these facts: the shares
of the nodes that passed part2 are complete, are made at the identifiers of the Round-1
packages and for the keys of the ceremony, and a node keeps what it needs to accept them
until it is replaced (`DkgComplete`). `CompletesAfterPart2` and `DeliveryUsable` follow.

`ServerProofs` also proves `TInv` of `Transports`: per call, what may stand in its frames, that the node ran it
only when it closes the connection, and no reply or result before it ran, or from
a peer outside the registries (`CallOK`); per queue, that what was received and what waits
make up what was sent (`QueuesOK`). `DeliveredAsSent` is not inductive, since a reply on
its way says nothing about the result it will become.

For `HttpServer` it proves `HInv`: in a request that was sent whole and fits the buffer,
`hbody` is the body among the bytes read, and while the handler reads, bytes are still to
come, so a read cannot find the end of the connection early. The rest is where the blank
line is first found when the data read ends anywhere, also inside a character.

`FrostAdapterProofs` begins with the lists and maps of the adapters: which pair a sequence of
insertions leaves under a key (`InsertedLast`), that a set of positions has an ascending
enumeration and only one (`AscendingExists`, `AscendingAll`), and that inserting the same
pairs in another order or repeatedly gives the same map (`InsertedFunction`). `KeyInv` says
that each file holds what some ceremony writes there, whichever mixture the files are; that
an approval is of one ceremony nevertheless is `SharesOfOneKey`: aggregation compares every
signer's key with the coordinator's, and the share it compares is the signer's own, since
the commitment under its identifier is the last one inserted there in both rounds.
`CombineIgnoresArrival` needs that the answers collected are those of verifiers for the
session (`EvalsInv`); `CombineValue` then computes what any such list combines to,
which depends on the set of verifiers alone. `RandomnessIsForItsSession` holds since every
output names session and nonce in its binding.

`LocalAttestProofs` proves `LInv` of `LocalAttest`: what is known of a request at each step of
`attest` and `attest_frost` (the context is in order, the prepared envelope digest is of its
parts and accepted by the verifiers' policy, the approvals collected are recorded and
over this digest). `FinalizedMeansApproved` is not inductive, since it says nothing of a
request that has not ended.

`AttestationProofs` proves the two properties about parts of several runs. `DxInv` says, part
by part, how each DECO or DiStefano proof kept was computed. The digests are then shown to
name their inputs (`DecoBindingNames`, `DecoRecordNames`, `SharesNameSecret` and their
DiStefano counterparts; the XOR of shares is undone by `XorCancels`), and `DecoAccepted` and
`DistefanoAccepted` say what the chain of checks compares. Together they say which runs a
proof assembled from several may come from: the cross-binding ties a handshake to a record,
the proof digest a record to a statement, and two runs may supply the two ties. `AtInv` does
the same for `attempts`: package, statement and evidence of each run are those the engine
makes from its session's context, the session's DVRF output and the connection.
`PackageChecked`, `StatementChecked`, `EvidenceChecked` and `OutputChecked` compute the verdict
of each check on parts of arbitrary runs; `RandomnessNames` shows that a DVRF output names
session and participants, and `FullApproval` puts them together in both directions.

`OnChainProofs` proves `FundsInv`: the ledger is in order now and in every state on the stack
that a failing receiver would restore, and no deposit is recorded under an identifier that
`createOption` still accepts, without which a new option could overwrite one. Sums over
options are folds; what adding, removing or changing one summand does to a fold
is proved from its recursive function. `IncomeInv` says that the income stored for an account
is one it submitted, not from the future, and that the digests used up are exactly
those submitted, each once.

`CoSnarkProofs` has two parts. The first shows that the gadgets compute what the TLS stack
computes, for data of any length: `PadAgrees` and `ShaGadgetsAgree` for SHA-256,
`HmacGadgetsAgree` for both HMAC gadgets (the constrained one only for keys of at most
a block, which it does not hash), `PrfGadgetsAgree` for the loop over A(i), and
`KeysAgree` for the two derivations. `PackAgrees` does it for the packing of bits into a
field element, `SpongesAgree` for MiMC. The second part computes the verdict on a proof under
any CRS (`Mode1Accepted`, `Mode2Accepted`, `BindingParts`, `ParamsAccepted`) and proves
`ZkInv`: a CRS is determined by its id, which is all a proof carries of it (`CrssOK`), and
each proof, also one combined from masked shares, was computed by the code's functions
for the key recorded (`HspOK`, `BindingOK`, `ParamsOK`); masks cancel because a party that
sent its masked share used the other's announced key (`PartiesOK`, `MasksCancel`). Neither
property is inductive: they say nothing of the shares on their way. The theorems hold for
any connections, shares, records and randomness, but for the one small field and
compression function of `TlsPrf`, which are not constants.

Induction over data is carried out where these proofs need it (ascending enumerations, folds,
last positions) as minimality: a set of counterexamples would have a least element in a
well-founded order on numbers or finite sets (`WFMin`).

Assumptions are the typing of the constants (`AuxAssumption`, `SigningAssumption`,
`DkgAssumption`, `BackendAssumption`, `TAssumption`, `KeyAssumption`, `OcAssumption`,
`HAssumption`, `ZkAssumption`) and what the code or its caller ensures:

- `TAssumption` also says that no request is the error response.
- `HAssumption`: bodies are UTF-8 and not empty, headers are without the marker of their end.
- `OcAssumption`: the option identifiers are finitely many, and the zero address is nobody's.
- `ZkAssumption`: a pre-master secret is not longer than the block of HMAC (48 and 64 bytes).
- `RcAssumption`: verifiers are different, the DKG of the orchestrator has succeeded, and no
  result is the value that stands for an error.
- `LAssumption`: the verifiers are different, the threshold is between 2 and their number, a
  session's default lifetime is within the verifiers' policy (3600 seconds both), and
  `attest_frost` gets shares of the dealer.
- `AtAssumption`: the set-up has succeeded, and the same participants are always listed in the
  same order. The set-up itself is one of three verifiers, as in the run.

TLC evaluates all of them in the runs.

Only model-checked: the liveness property, since the prover does not handle fairness;
and `ContractDecidesTheEquation` and `ProofVerifiesUnderItsKey`. These two say that long
computations in one small curve and one small field come out equal. There is no constant to
generalise over: they hold by computing all cases, which TLC does and a prover would
have to do without evaluation.

## Findings

Where the code disagrees with its own comments a violation run shows it:

- the late approval of the in-memory store (`SessionStore_late`);
- the displaced nonces of handshake binding (`FrostAux_hb_overwrite`) and the second nonce
  set of `frost_round1` (`FrostAux_two_nonce_sets`);
- the intolerance of single node failures (`FrostSigning_one_down`);
- a statement about one response approved beside the evidence of another, both of one
  session and randomness (`Attestation_statement`);
- the handle of a set-up whose file a later set-up of the process overwrote
  (`CoSnarkProver_handle`);
- `verify_schnorr`, which gives `AffinePoint::from_bytes` 65 bytes where it takes 33 and so
  accepts nothing (`Schnorr_mirror`);
- the on-chain Groth16 equation, in which the exported keys give two terms the wrong sign
  (`DctlsVerifier`).

Disagreements with comments that the models have and no run is about:

- Entries past `PENDING_TTL` are still signed (`frost_aux.rs:489`); error exits by `?`
  leave a session `Active`, `Attesting` or `Collecting`; a session may be finalized after
  its expiry; `Expired` is never stored.
- `dkg_node.rs:256-258` has part2 consume the Round-1 secret "regardless of outcome"; a
  package of an unknown sender is refused before that (`dkg_node.rs:294-298`) and leaves
  the node in `AfterPart1`, as in `ceremony_part2`.
- `auxiliary.rs:45-50` has the digest "computed independently by this node";
  `verify_and_sign` signs the claimed digest. In `attest` both are the same
  (`FinalizedMeansApproved`).
- `dvrf_secp256k1.rs:37-44` says that the output is unique for input and key; with
  deterministic nonces it also depends on the subset that answered
  (`CombineIgnoresArrival` is stated per subset).
- `verify.rs:65` says an empty `allowed_statement_tags` rejects all statements; the code
  accepts all. The permissive policy does not name the engine tag of the handshake
  binding, `dx-dctls/handshake-2pc/v1`.
- A coordinator configured with `dvrf_participant_files` cannot start: it reads its one
  group-key file as an Ed25519 key (`bin/coordinator.rs:237`) and as a secp256k1 key
  (`bin/coordinator.rs:324`), and `dkg-ceremony` writes the former (`StartCoordinator`).
- `Tls12Connector` is documented as "TLS 1.2 only" (`tls12_session.rs:195`) and also
  negotiates 1.3.
- The set-up file of `co_snark_distributed.rs` is documented as cleaned up (line 158);
  no code removes it.
- `sqlite.rs:46-47` says that multi-step sequences are explicit transactions; `remove` is two
  statements. A stop between them leaves a session without its approvals, which
  `NoApprovalForgotten` does not count as forgotten: the approvals are given up at the
  first `DELETE`.
- `signed_envelope.rs:32` says that the timestamp window rejects replayed frames; within 30 s a
  frame opens again. `DeliveredAsSent` is about calls, each of which has a connection of its
  own.
- `tls_session_binding.rs:451-452` says that the K_MAC commitment binds a proof to the TLS
  session; the commitment is a sum of key and randomness, so `BoundToWhatWasProved` has its
  key clause for proofs of equal randomness only.
- `co-snark-prover/src/circuit.rs:6-11` states the commitment over the XOR of the shares. The
  central path commits to it while the circuit adds them, so the proof verifies only for
  shares without a common bit; the distributed path commits to the sum
  (`ProofVerifiesUnderItsKey`).
- `distefano_dx_dctls.rs:219` says that `server_auth_tag` proves the response authentic; no
  check reads it (`DxAcceptsMatchingRuns`).
- `testing/tests/pipeline.rs:327` asserts 256 bytes for `abi_encode`, which gives 288, as its
  own unit test says (`onchain.rs:368`).

What a reader of the evidence checks should know, and the properties are stated
accordingly: nothing but session and randomness ties a query record to a handshake;
`check_full` does not compare the transcripts of package and evidence; a read timeout ends
a response like its end (`tls_engine.rs:210-214`); `session_binding_verify` does not
compare its randomness with the HSP proof's; a DECO or DiStefano proof may join the
handshake of one run with the record and statement of another that agree in what the
digests name; the contract reduces s modulo the order and reads only the parity of the
key's y; a delivery built from a stale announcement is not usable, and `DeliveryUsable`
excludes it; a body that
crosses the buffer's end inside a multi-byte character is answered as too large; a
request without Content-Length is read up to a segment boundary.

## Not modelled

- A file write is one step (`KeyCeremony`, `CoSnarkProver`); a write cut off half-way, which
  the readers would refuse as malformed, is left out.
- A node's reply has one size in `Transports`; `write_frame`'s refusal of a larger one, which
  would end the connection as a broken one does, is left out.
- `run_as_party` reveals the proof after `deinit` has closed the connections
  (`mpc_prover.rs:333-336`). Whether the MPC library still needs them then is not in this
  repository; the model takes the reading in which it does not, and a process that ends there is
  `call_subprocess_fails`.
- One small compression function stands for SHA-256, so the properties over it are about how
  the blocks are put together, not about collisions.
- Cryptographic libraries (FROST, Ed25519, secp256k1, rustls, ark) are external: their
  result is accepted or refused as the calling code relies on it.
- Bit-level SHA-256 gadgets, `PgpBindingCircuit`, `BindingCircuit` and the full PRF circuit
  of `co-snark-prover` (`COSNARK_FULL_CIRCUIT`), with its copy of the gadgets: circuits over
  254-bit fields, out of TLC's reach beyond the scaled-down forms in `TlsPrf` and `CoSnark`.
- `verify_hsp_proof_with_zk`: its Groth16 check, `verify_groth16_hsp_bytes`, always returns an
  error.
- `attest_frost_distributed`, the two rounds of `FrostSigning` by direct calls, which have a
  subset of the behaviours of calls that may fail or be late.
- Registry serialization and builders, command-line parsing, logging, benches and test
  fixtures: no state that a property is about.
- Timing: time is only the clock that the code
  reads, and timeouts may occur whenever a call is under way.
