--------------------------- MODULE MCDeployment ----------------------------
(***************************************************************************)
(* The components around the signing protocol, each on an instance of its  *)
(* own.  They share no variable, so their interleavings say nothing: a     *)
(* behaviour chooses one scenario and the other components rest.           *)
(***************************************************************************)
EXTENDS KeyCeremony, RcPhase, Attestation, LocalAttest, OnChain,
        CoSnarkProver, CoSnark, Transports, HttpServer, SessionStore

CONSTANTS
  Body, SignerLists, Conn, Registry, Epochs, Expiry, MinSigners, PendingTTL,
  MaxNonce,   \* of the auxiliary node, see FrostAux
  Scenarios   \* the components that run

VARIABLES
  auxclock, drawn, work, pending, commitments, shares,   \* likewise
  scenario    \* the component that runs

\* One auxiliary node and one further verifier that only occurs in signer lists.
\* Nodes share no state, so one node shows what any node does.  Three ticks let
\* an entry become stale after its session's Round 1.
AuxNode == {"v1"}
AuxMaxTime == 3
Aux == INSTANCE FrostAux WITH clock <- auxclock, Node <- AuxNode,
                              MaxTime <- AuxMaxTime
auxvars == <<auxclock, drawn, work, pending, commitments, shares>>

mcvars == <<keyvars, rcvars, atvars, lvars, ocvars, probe, psvars, zkvars,
            tvars, hvars, vars, auxvars, scenario>>

---------------------------------------------------------------------------
(* The auxiliary node holds a registry snapshot at epoch 1 in which both   *)
(* verifiers are active.                                                   *)

MCSignerLists == {<<"v1", "v2">>, <<"v2", "v1">>}
MCRegistry == [n \in AuxNode |-> [held |-> TRUE, epoch |-> 1, active |-> Verifier]]

\* The properties of FrostAux, of its instance.  No two of the node's signature
\* shares (frost_round2, handshake_binding_round2) use the same nonces.
NonceUsedOnce == Aux!NonceUsedOnce

\* A share opens the nonce commitment its signing package holds for the node,
\* over the message that Round 1 of its session fixed.
ShareHonoursCommitment == Aux!ShareHonoursCommitment

\* frost_round1 never displaces the cached nonces of a session that still waits
\* for Round 2.
FrostRoundKept == Aux!FrostRoundKept

---------------------------------------------------------------------------
(* Key files, randomness.                                                  *)

MCCoordConfigs ==
  {[threshold |-> t, quorum |-> nodeVids, dvrf_files |-> fs] :
     t \in {2, 3}, fs \in {<<>>, << <<"share", 1>>, <<"share", 2>> >>}}

MCRcVids == <<"v1", "v2", "v3">>

---------------------------------------------------------------------------
(* Evidence: a TLS 1.2 connection, a TLS 1.3 connection whose response is  *)
(* ended by the read timeout, the same to another server, and one that     *)
(* fails while it is read.                                                 *)

Hello(n) == [i \in 1..n |-> CASE i = 1 -> 22 [] i = 6 -> 2 [] i >= 12 -> 7
                              [] OTHER -> 3]
KeyLog(label) ==
  << [label |-> label, client_random |-> [i \in 1..32 |-> 5], secret |-> label] >>
Conn12 ==
  [opens |-> TRUE, version |-> TLSv1_2, cert |-> "certA", chunks |-> <<"r1">>,
   end |-> "eof", secret |-> "k12", keylog |-> KeyLog("CLIENT_RANDOM"),
   raw |-> Hello(60)]
Conn13 ==
  [opens |-> TRUE, version |-> TLSv1_3, cert |-> "certA",
   chunks |-> <<"r1", "r2">>, end |-> "timeout", secret |-> "k13",
   keylog |-> KeyLog("CLIENT_HANDSHAKE_TRAFFIC_SECRET"), raw |-> Hello(50)]
MCConns == [c12 |-> Conn12, c13 |-> Conn13,
            other |-> [Conn13 EXCEPT !.cert = "certB"],
            cx |-> [Conn13 EXCEPT !.end = "error", !.chunks = <<>>]]

\* For DECO and DiStefano: connections that agree in the certificate or in the
\* response, of several handshakes.
MCDxConns ==
  [a12 |-> Conn12, b12 |-> [Conn12 EXCEPT !.cert = "certB"],
   c12 |-> [Conn12 EXCEPT !.chunks = <<"r3">>],
   a13 |-> Conn13, b13 |-> [Conn13 EXCEPT !.secret = "k14"],
   c13 |-> [Conn13 EXCEPT !.chunks = <<"r1">>, !.cert = "certB"]]
MCTtls == {[s1 |-> 1, s2 |-> t] : t \in {0, 2}}
MCDvrfSets == {<<1, 2>>, <<2, 3>>}

---------------------------------------------------------------------------
(* Requests to the in-process coordinator.                                 *)

MCLVids == <<"v1", "v2", "v3">>
LAll == Range(MCLVids)
LBase ==
  [path |-> "threshold", ttl |-> 5, dvrf |-> "prototype", secrets |-> LAll,
   response |-> <<"r1">>, conn |-> Err, signers |-> <<"v1", "v2", "v1">>,
   down |-> {}]
MCLRequests ==
  {LBase,
   [LBase EXCEPT !.secrets = {"v1"}],
   [LBase EXCEPT !.conn = Conn13, !.dvrf = "secp",
                 !.signers = <<"v9", "v2", "v3">>],
   [LBase EXCEPT !.conn = [Conn13 EXCEPT !.end = "error"]],
   [LBase EXCEPT !.down = {"v2"}]}
  \cup {[LBase EXCEPT !.path = "frost", !.signers = s] :
          s \in {<<"v1", "v2", "v1">>, <<"v1">>, <<"v3", "v1">>}}
LReg == [epoch |-> 0, status |-> [v \in LAll |-> "Active"],
         key |-> [v \in LAll |-> v]]
MCLRegistries == {LReg, [LReg EXCEPT !.status["v2"] = "Revoked"]}

---------------------------------------------------------------------------
(* Attestations that reach the contracts: for option o1 and for the income *)
(* values, some with a zero payee, another key or thresholds out of order. *)

Att(st, sk, k, env, t, n) ==
  extract_secp256k1_attestation(st, "dvrf", "alpha", "sid", env,
    gen_test_vector(sk, k, env), Points[sk], t, n)
MCOcAtts ==
  {Att(OptionDigest("o1", "alice"), 4, 1, 1, 2, 3),
   Att(OptionDigest("o1", "bob"), 4, 3, 2, 2, 3),
   Att(OptionDigest("o1", Zero), 4, 1, 3, 2, 3),
   Att(OptionDigest("o1", "bob"), 5, 2, 2, 0, 3),
   Att(IncomeDigest("alice", <<2, 2>>), 4, 3, 3, 2, 3),
   Att(IncomeDigest("alice", <<1, 3>>), 4, 1, 4, 3, 3),
   Att(IncomeDigest("alice", <<1, 3>>), 4, 3, 5, 3, 2)}
MCOcIncomes == {<<2, 2>>, <<1, 3>>}
MCOcGroupKeys == {Points[4]}

---------------------------------------------------------------------------
(* The provers: two trusted set-ups; two connections with different keys.  *)

MCTrapdoors ==
  <<[alpha |-> 3, beta |-> 5, gamma |-> 7, delta |-> 11, tau |-> 6],
    [alpha |-> 2, beta |-> 9, gamma |-> 4, delta |-> 6, tau |-> 10]>>
MCPsShares == {{0}, {1, 2}}
MCPsRandom == <<3, 8>>

MCZkConns == {[pms |-> <<1, 2, 3>>, cr |-> <<4, 5>>, sr |-> <<6, 7>>],
              [pms |-> <<3, 12>>, cr |-> <<1, 5>>, sr |-> <<6, 2>>]}
MCZkShares == {<<5, 10>>, <<15, 12>>}
MCZkRands == {<<7, 1>>, <<2, 15>>}
MCZkRecords == {[header |-> <<1>>, data_hash |-> <<2, 3>>],
                [header |-> <<2>>, data_hash |-> <<11, 3>>]}
MCZkCerts == {<<4, 1>>, <<4, 2>>}

---------------------------------------------------------------------------
(* Transports: each kind with peers that know each other, and with a stale *)
(* registry on either side or another certificate authority.               *)

TConf(kind, client, server, ca) ==
  [kind |-> kind, client |-> "kc", server |-> "ks", clientKnows |-> client,
   serverKnows |-> server, clientCa |-> "ca1", serverCa |-> ca]
MCTConfigs ==
  {TConf(k, {"kc", "ks"}, {"kc", "ks"}, "ca1") : k \in {"tcp", "auth", "mtls"}}
  \cup {TConf("auth", {"kc", "ks"}, {"old", "ks"}, "ca1"),
        TConf("auth", {"kc", "old"}, {"kc", "ks"}, "ca1"),
        TConf("mtls", {"kc", "ks"}, {"kc", "ks"}, "ca2")}
MCTRequests ==
  <<[op |-> "FrostRound1", body |-> "s1", sizes |-> {3, 11, 19}],
    [op |-> "HandshakeBindingRound2", body |-> "s2", sizes |-> {3}]>>

---------------------------------------------------------------------------
(* HTTP requests around the size of the buffer, with and without a         *)
(* multi-byte character, and with a length that may be wrong or absent.    *)

Octets(n, b) == [i \in 1..n |-> b]
TwoByte == <<"a", "m1", "m2", "a">>
MCHRequests ==
  {[header |-> Octets(h, "h"), body |-> b, length |-> l] :
     h \in {1, 3, 5}, l \in {0, 1, 4, 6},
     b \in {Octets(1, "a"), Octets(4, "a"), Octets(6, "a"), TwoByte,
            Octets(2, "a") \o TwoByte}}

---------------------------------------------------------------------------

\* Only the component that runs has a configuration.
MCInit ==
  /\ scenario \in Scenarios
  /\ KeyInit /\ (scenario = "keys" \/ runs = 0)
  /\ RcInit /\ OcInit /\ SchnorrInit /\ PsInit /\ ZkInit
  /\ IF scenario = "evidence" THEN AtInit
     ELSE /\ clock = 1 /\ ctxs = Err /\ dvrfs = Err
          /\ attempts = {} /\ dxproofs = {}
  /\ LInit
  /\ \/ scenario = "local"
     \/ lconfig = from_registry(LReg) /\ \A q \in LReq : lreq[q] = LBase
  /\ TInit /\ (scenario = "calls" \/ tconf.kind = "tcp")
  /\ HInit
  /\ \/ scenario = "http"
     \/ /\ hreq = [header |-> Octets(1, "h"), body |-> Octets(1, "a"), length |-> 0]
        /\ hsent = 0
  /\ Init /\ (scenario = "store" \/ backend = "memory")
  /\ Aux!AuxInit

\* The components other than own, which has the scenario's name.
Rest(own) ==
  /\ scenario = own /\ UNCHANGED scenario
  /\ own # "keys" => UNCHANGED keyvars
  /\ own # "randomness" => UNCHANGED rcvars
  /\ own # "evidence" => UNCHANGED atvars
  /\ own # "local" => UNCHANGED lvars
  /\ own \notin {"options", "income"} => UNCHANGED ocvars
  /\ own # "schnorr" => UNCHANGED probe
  /\ own # "prover" => UNCHANGED psvars
  /\ own \notin {"zk", "split"} => UNCHANGED zkvars
  /\ own \notin {"calls", "queues"} => UNCHANGED tvars
  /\ own # "http" => UNCHANGED hvars
  /\ own # "store" => UNCHANGED vars
  /\ own # "aux" => UNCHANGED auxvars

MCNext ==
  \/ Rest("keys") /\ KeyNext
  \/ Rest("randomness") /\ RcNext
  \/ Rest("evidence") /\ AtNext
  \/ Rest("local") /\ LNext
  \/ Rest("options") /\ OcOptionsNext
  \/ Rest("income") /\ OcIncomeNext
  \/ Rest("schnorr") /\ SchnorrNext
  \/ Rest("prover") /\ PsNext
  \/ Rest("zk") /\ ZkProofsNext
  \/ Rest("split") /\ ZkSplitNext
  \/ Rest("calls") /\ TNext
  \/ Rest("queues") /\ TQueueNext
  \/ Rest("http") /\ HNext
  \/ Rest("store") /\ Next
  \/ Rest("aux") /\ Aux!AuxNext

MCSpec == MCInit /\ [][MCNext]_mcvars
=============================================================================
