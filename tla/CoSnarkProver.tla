--------------------------- MODULE CoSnarkProver ---------------------------
(***************************************************************************)
(* The co-SNARK prover process (crates/co-snark-prover: main.rs,           *)
(* mpc_prover.rs) and its client (crates/zk/src/co_snark_distributed.rs).  *)
(* A client call starts a prover process of its own, or writes a line to a *)
(* server it keeps; the parameters travel through files under /tmp.        *)
(* Client threads interleave: a set-up can replace the parameter file of   *)
(* the client while a call that names it is on its way.  Processes fail.   *)
(* The prover uses TlsKeyCircuit (COSNARK_FULL_CIRCUIT is not set).        *)
(***************************************************************************)
EXTENDS Groth16

CONSTANTS
  Trapdoors,   \* the randomness of the set-ups, in the order they are run
  PsShares,    \* the key shares, sets of bit positions
  PsRands,     \* the values of rand_binding
  PsRandom     \* a pair of scalars: what a prover draws as r and s

VARIABLES
  psSetups,    \* how many set-ups were run, in any process
  psFile,      \* the parameters in the client's file under /tmp
  psHandles,   \* the DistributedCrs values the client holds
  psCall,      \* the request a prover process was started with
  psServer,    \* the running ProverServer
  psReply      \* the DistributedProof the last step returned, if it did

psvars == <<psSetups, psFile, psHandles, psCall, psServer, psReply>>

NoParams == [none |-> TRUE]     \* an absent file, handle, process or reply
psErr == [ok |-> FALSE]

AllParams == [k \in DOMAIN Trapdoors |-> generate_random_parameters(Trapdoors[k])]
Params(k) == AllParams[k]

---------------------------------------------------------------------------
(* The prover process.                                                     *)

\* run_setup draws fresh parameters: set-up number psSetups + 1.
run_setup == psSetups + 1
MaySetup == psSetups < Len(Trapdoors)

ProverResponse(crs, p, v, proof, inputs, mode, vk) ==
  [proof |-> proof, inputs |-> inputs,
   k_mac |-> xor_shares(p, v), mode |-> mode,
   vk |-> IF vk THEN Params(crs).vk ELSE NoParams]

handle_central_with_params(req, crs) ==
  LET c == TlsKeyCircuit_new(req.p, req.v, req.rb)
  IN ProverResponse(crs, req.p, req.v,
                    create_proof(c, Params(crs), PsRandom[1], PsRandom[2]),
                    <<c.commitment, c.rand>>, "central", req.include_vk)

\* The commitment of TlsKeyCircuit::new.
XorCommitment(p, v, rb) == Fld(bytes32_to_field(xor_shares(p, v)) + rb)

compute_commitment(p, v, rb) ==
  Fld(bytes32_to_field(p) + bytes32_to_field(v) + rb)

\* What each party enters as its additive shares: its own key share, and for
\* party 0 also the public inputs.
run_as_party(party_id, my_share, commitment, rb) ==
  IF party_id = 0
  THEN [p |-> bytes32_to_field(my_share), v |-> 0, cmt |-> commitment, rb |-> rb]
  ELSE [p |-> 0, v |-> bytes32_to_field(my_share), cmt |-> 0, rb |-> 0]

\* Both children run create_random_proof on shares; each draws shares of r and
\* s.  Party 0 reveals the proof and reports the inputs it was given.  It does so
\* after deinit(): a library that still needs the connections ends the process,
\* which is call_subprocess_fails.
run_two_parties(req, crs) ==
  LET cmt == compute_commitment(req.p, req.v, req.rb)
      in == [i \in {0, 1} |-> run_as_party(i, IF i = 0 THEN req.p ELSE req.v,
                                           cmt, req.rb)]
      c == TlsKeyCircuit_new_mpc(Fld(in[0].p + in[1].p), Fld(in[0].v + in[1].v),
                                 Fld(in[0].cmt + in[1].cmt),
                                 Fld(in[0].rb + in[1].rb))
  IN ProverResponse(crs, req.p, req.v,
                    create_proof(c, Params(crs), Fld(2 * PsRandom[1]),
                                 Fld(2 * PsRandom[2])),
                    <<cmt, req.rb>>, "distributed", TRUE)

\* prove_distributed, or handle_central of a process started for one request.
\* Without parameters in the request the process runs a set-up of its own.
Prove(req, crs) ==
  IF req.mode = "central" THEN handle_central_with_params(req, crs)
  ELSE run_two_parties(req, crs)

---------------------------------------------------------------------------
(* The client.                                                             *)

\* The reply as the client keeps it, beside its request, the handle it used (or
\* 0) and the key it was told when it got the handle or spawned the server.
DistributedProof(req, resp, handle, told) ==
  [ok |-> TRUE, req |-> req, resp |-> resp, handle |-> handle, told |-> told]

PsInit ==
  /\ psSetups = 0
  /\ psFile = NoParams
  /\ psHandles = <<>>
  /\ psCall = NoParams
  /\ psServer = NoParams
  /\ psReply = NoParams

\* CoSnarkDistributedClient::setup.  The file has one name per client process,
\* so a later set-up writes over it; when it cannot be written the handle
\* keeps only the hex form.
client_setup(written) ==
  /\ MaySetup
  /\ psSetups' = run_setup
  /\ psFile' = IF written THEN [crs |-> run_setup] ELSE psFile
  /\ psHandles' = Append(psHandles, [crs_file |-> written, crs |-> run_setup,
                                    vk_hex |-> Params(run_setup).vk])
  /\ psReply' = NoParams
  /\ UNCHANGED <<psCall, psServer>>

\* CoSnarkDistributedClient::prove, up to the start of the process: the file
\* takes priority over the hex form.
client_prove(h, req) ==
  /\ psCall = NoParams
  /\ h = 0 \/ h \in DOMAIN psHandles
  /\ psCall' = [handle |-> h, req |-> req,
                file |-> h # 0 /\ psHandles[h].crs_file,
                hex |-> IF h = 0 \/ psHandles[h].crs_file THEN 0
                        ELSE psHandles[h].crs]
  /\ psReply' = NoParams
  /\ UNCHANGED <<psSetups, psFile, psHandles, psServer>>

\* The process reads its parameters and answers; reading a missing file is an
\* error.  Without parameters it runs a set-up.
run_single ==
  /\ psCall # NoParams
  /\ LET inline == ~psCall.file /\ psCall.hex = 0
         crs == IF psCall.file THEN psFile.crs
                ELSE IF inline THEN run_setup ELSE psCall.hex
     IN /\ inline => MaySetup
        /\ psSetups' = IF inline THEN run_setup ELSE psSetups
        /\ psReply' = IF psCall.file /\ psFile = NoParams THEN psErr
                      ELSE DistributedProof(
                             psCall.req, Prove(psCall.req, crs), psCall.handle,
                             IF psCall.handle = 0 THEN NoParams
                             ELSE psHandles[psCall.handle].vk_hex)
  /\ psCall' = NoParams
  /\ UNCHANGED <<psFile, psHandles, psServer>>

\* call_subprocess finds no line of output, or run_two_parties none of its
\* party 0: a process was killed or could not be started.
call_subprocess_fails ==
  /\ psCall # NoParams
  /\ psReply' = psErr
  /\ psCall' = NoParams
  /\ UNCHANGED <<psSetups, psFile, psHandles, psServer>>

\* /tmp is cleaned.
RemoveFile ==
  /\ psFile # NoParams
  /\ psFile' = NoParams
  /\ psReply' = NoParams
  /\ UNCHANGED <<psSetups, psHandles, psCall, psServer>>

---------------------------------------------------------------------------
(* ProverServer and run_server.                                            *)

\* spawn sends the set-up line and keeps the key of the answer; the process
\* caches the parameters after it has answered.
server_spawn ==
  /\ psServer = NoParams /\ MaySetup
  /\ psSetups' = run_setup
  /\ psServer' = [cached |-> run_setup, vk |-> Params(run_setup).vk]
  /\ psReply' = NoParams
  /\ UNCHANGED <<psFile, psHandles, psCall>>

server_prove(req) ==
  /\ psServer # NoParams /\ req.mode = "central"
  /\ psReply' = DistributedProof(
                  req, handle_central_with_params(req, psServer.cached), 0,
                  psServer.vk)
  /\ UNCHANGED <<psSetups, psFile, psHandles, psCall, psServer>>

\* Drop sends the shutdown line; a server that died answers no more.
server_drop ==
  /\ psServer # NoParams
  /\ psServer' = NoParams
  /\ psReply' = NoParams
  /\ UNCHANGED <<psSetups, psFile, psHandles, psCall>>

ProverRequest == [mode : {"central", "distributed"}, p : PsShares, v : PsShares,
                  rb : PsRands, include_vk : BOOLEAN]

PsNext ==
  \/ \E w \in BOOLEAN : client_setup(w)
  \/ \E req \in ProverRequest :
       \/ \E h \in 0..Len(Trapdoors) : client_prove(h, req)
       \/ server_prove(req)
  \/ run_single \/ call_subprocess_fails \/ RemoveFile
  \/ server_spawn \/ server_drop

PsSpec == PsInit /\ [][PsNext]_psvars

---------------------------------------------------------------------------

\* A later set-up of the client has written over the file of handle h.
Overwritten(h) ==
  /\ h # 0 /\ psHandles[h].crs_file
  /\ \E k \in DOMAIN psHandles : k > h /\ psHandles[k].crs_file

\* Whatever set-ups, calls and failures interleave, a proof a client gets
\* verifies, also after rerandomize_proof, under the key its reply carries, under
\* the key the server announced when it was spawned, and under the key of its
\* handle unless a later set-up has written over the handle's file.  A distributed
\* proof does so for all shares; a central one exactly when the XOR of the shares
\* is their sum, since TlsKeyCircuit::new commits to their XOR and
\* generate_constraints adds them (run_server, run_two_parties, create_proof).
ProofVerifiesUnderItsKey ==
  psReply # NoParams /\ psReply.ok =>
    LET q == psReply.req
        r == psReply.resp
        sums == bytes32_to_field(xor_shares(q.p, q.v))
                  = Fld(bytes32_to_field(q.p) + bytes32_to_field(q.v))
        told == IF Overwritten(psReply.handle) THEN NoParams ELSE psReply.told
    IN \A vk \in {r.vk, told} \ {NoParams} :
         /\ verify_proof(vk, r.inputs, r.proof) <=> r.mode = "distributed" \/ sums
         /\ r.mode = "distributed" \/ sums =>
              \A x \in {1, 5} :
                verify_proof(vk, r.inputs, rerandomize_proof(vk, r.proof, x, x + 1))

\* "Cache the returned `DistributedCrs` and reuse it across all prove calls."
\* (setup): a distributed proof made with a handle verifies under the vk_hex of
\* that handle.
HandleVerifiesItsProofs ==
  psReply # NoParams /\ psReply.ok /\ psReply.handle # 0
    /\ psReply.resp.mode = "distributed" =>
      verify_proof(psHandles[psReply.handle].vk_hex, psReply.resp.inputs,
                   psReply.resp.proof)
=============================================================================
