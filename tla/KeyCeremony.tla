---------------------------- MODULE KeyCeremony ----------------------------
(***************************************************************************)
(* The key files and the processes that write and read them, the binaries  *)
(* under crates/node/src/bin: dkg-ceremony writes one share file per node, *)
(* the group key and one config per node, in that order and one write at a *)
(* time; aux-node loads its share when it starts; coordinator loads the    *)
(* group key.  A ceremony can stop between two writes and can be repeated  *)
(* over the files of an earlier one; processes restart at any time.        *)
(***************************************************************************)
EXTENDS Dvrf

CONSTANTS
  Nodes,          \* how many auxiliary nodes the ceremony is run for
  Thresholds,     \* the --threshold values operators pass
  CoordConfigs,   \* the coordinator configurations
  MaxCeremonies   \* bound on the ceremonies run

ASSUME KeyAssumption == Nodes \in Nat /\ Thresholds \subseteq Nat

Node == 1..Nodes
Vid(i) == <<"vid", i>>
nodeVids == [i \in Node |-> Vid(i)]

VARIABLES
  files,      \* file name -> its JSON content, Err when missing
  writing,    \* the ceremony being written: its output and the next write
  runs,       \* how many ceremonies were started
  nodeShare,  \* aux node -> the participant it loaded, Err when down
  coord,      \* what the running coordinator loaded, Err when down
  lastApproval  \* the approval the coordinator returned last, Err before

keyvars == <<files, writing, runs, nodeShare, coord, lastApproval>>

FileName == ({"share", "config"} \X Node) \cup {<<"group", 0>>}

NoCeremony == [next |-> 0, out |-> Err]

\* The writes, in the order of the program text.
Writes(out) ==
  [i \in Node |-> <<<<"share", i>>, participant_to_json(out.participants[i])>>]
  \o << <<<<"group", 0>>, group_key_to_json(out.group_key)>> >>
  \o [i \in Node |-> <<<<"config", i>>, [key_file |-> <<"share", i>>]>>]

\* What a ceremony that was not stopped leaves behind.
Written(out) ==
  LET w == Writes(out)
  IN [f \in FileName |-> w[CHOOSE i \in DOMAIN w : w[i][1] = f][2]]

\* An empty directory, or the files of the first ceremony.
KeyInit ==
  /\ \/ files = [f \in FileName |-> Err] /\ runs = 0
     \/ /\ \E t \in Thresholds :
             LET out == frost_trusted_dealer_keygen(nodeVids, t, 1)
             IN out # Err /\ files = Written(out)
        /\ runs = 1
  /\ writing = NoCeremony
  /\ nodeShare = [i \in Node |-> Err]
  /\ coord = Err
  /\ lastApproval = Err

\* main of dkg-ceremony, up to the first write.
StartCeremony ==
  /\ writing = NoCeremony /\ runs < MaxCeremonies
  /\ \E t \in Thresholds :
       /\ t >= 2 /\ t <= Nodes
       /\ LET out == frost_trusted_dealer_keygen(nodeVids, t, runs + 1)
          IN out # Err /\ writing' = [next |-> 1, out |-> out]
  /\ runs' = runs + 1
  /\ UNCHANGED <<files, nodeShare, coord, lastApproval>>

WriteFile ==
  /\ writing # NoCeremony
  /\ LET w == Writes(writing.out)
     IN /\ files' = [files EXCEPT ![w[writing.next][1]] = w[writing.next][2]]
        /\ writing' = IF writing.next = Len(w) THEN NoCeremony
                       ELSE [writing EXCEPT !.next = @ + 1]
  /\ UNCHANGED <<runs, nodeShare, coord, lastApproval>>

\* A write fails or the process is killed: what was written stays.
StopCeremony ==
  /\ writing # NoCeremony
  /\ writing' = NoCeremony
  /\ UNCHANGED <<files, runs, nodeShare, coord, lastApproval>>

\* main of aux-node: exits unless the config and the share can be read.
StartAux(i) ==
  /\ files[<<"config", i>>] # Err
  /\ LET p == participant_from_json(files[files[<<"config", i>>].key_file])
     IN p # Err /\ nodeShare' = [nodeShare EXCEPT ![i] = p]
  /\ UNCHANGED <<files, writing, runs, coord, lastApproval>>

StopAux(i) ==
  /\ nodeShare[i] # Err
  /\ nodeShare' = [nodeShare EXCEPT ![i] = Err]
  /\ UNCHANGED <<files, writing, runs, coord, lastApproval>>

\* Secp256k1DvrfEngine::from_files: every share file and the group key file
\* must parse as secp256k1 key material, with a threshold of shares.
dvrf_engine_from_files(threshold, paths, group_path) ==
  LET ps == [k \in DOMAIN paths |->
               secp256k1_participant_from_json(files[paths[k]])]
      gk == secp256k1_group_key_from_json(files[group_path])
  IN IF AnyErr(ps) \/ gk = Err \/ Len(ps) < threshold THEN Err
     ELSE [kind |-> "secp256k1", threshold |-> threshold,
           participants |-> ps, group_key |-> gk]

\* The seeds of the fallback are the positions in the quorum.
prototype_dvrf(quorum) ==
  [kind |-> "prototype", secrets |-> [i \in DOMAIN quorum |-> i - 1]]

dvrf_engine(cfg) ==
  IF cfg.dvrf_files = <<>> THEN prototype_dvrf(cfg.quorum)
  ELSE dvrf_engine_from_files(cfg.threshold, cfg.dvrf_files, <<"group", 0>>)

\* main of coordinator: reads the group key, then selects the DVRF engine;
\* any error ends the process before it listens.
StartCoordinator(cfg) ==
  /\ LET gk == group_key_from_json(files[<<"group", 0>>])
         engine == dvrf_engine(cfg)
     IN /\ gk # Err /\ engine # Err
        /\ coord' = [group_key |-> gk, threshold |-> cfg.threshold,
                     quorum |-> cfg.quorum, engine |-> engine.kind]
  /\ UNCHANGED <<files, writing, runs, nodeShare, lastApproval>>

AnyTransport(signers) == Len(signers) >= 1

enough_transports(signers) == Len(signers) >= coord.threshold

\* One attestation: the coordinator drives both rounds over the nodes of its
\* quorum that are up and publishes the approval when it verifies.
Shares(signers) ==
  LET nonces(i) == <<"os", Vid(signers[i])>>
      vid(i) == Vid(signers[i])
      gk == coord.group_key
      pkg == build_signing_package(
               [i \in DOMAIN signers |-> <<vid(i), Commit(nonces(i))>>],
               "digest", gk)
      shareOf(i) == sign(pkg, nonces(i), nodeShare[signers[i]].key_package)
  IN IF pkg = Err \/ \E i \in DOMAIN signers : shareOf(i) = Err THEN Err
     ELSE aggregate_signature_shares(
            pkg, [i \in DOMAIN signers |-> <<vid(i), shareOf(i)>>], gk,
            "digest")

Attest(signers) ==
  /\ coord # Err
  /\ enough_transports(signers)
  /\ \A i \in DOMAIN signers :
       nodeShare[signers[i]] # Err /\ Vid(signers[i]) \in Range(coord.quorum)
  /\ LET a == Shares(signers)
     IN /\ a # Err /\ verify_signature(a)
        /\ lastApproval' = [signers |-> Range(signers), coord |-> coord,
                        held |-> {nodeShare[signers[i]].key_package :
                                    i \in DOMAIN signers}]
  /\ UNCHANGED <<files, writing, runs, nodeShare, coord>>

\* Any of the nodes, in the order of the configuration.
SignerSeqs ==
  {s \in UNION {[1..n -> Node] : n \in Node} :
     \A i, j \in DOMAIN s : i < j => s[i] < s[j]}

KeyNext ==
  \/ StartCeremony \/ WriteFile \/ StopCeremony
  \/ \E i \in Node : StartAux(i) \/ StopAux(i)
  \/ \E cfg \in CoordConfigs : StartCoordinator(cfg)
  \/ \E s \in SignerSeqs : Attest(s)

KeySpec == KeyInit /\ [][KeyNext]_keyvars

---------------------------------------------------------------------------

\* Whatever mixture of old and new files the processes were started from,
\* an approval the coordinator returns is under the group key it loaded, all
\* its signers hold shares of that same ceremony, and they are at least as
\* many as that ceremony's threshold (aggregate_signature_shares,
\* verify_signature).
OneCeremonyPerApproval ==
  lastApproval # Err =>
    /\ Cardinality(lastApproval.signers) >= lastApproval.coord.threshold
    /\ \A kp \in lastApproval.held :
         /\ kp.key = lastApproval.coord.group_key.pub.key
         /\ Cardinality(lastApproval.signers) >= kp.min
=============================================================================
