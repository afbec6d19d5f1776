-------------------------- MODULE ThresholdSigning --------------------------
(***************************************************************************)
(* What the signing phase promises, without rounds, caches or messages.    *)
(* A verifier approves a session at most once, with one nonce pair that it *)
(* uses for nothing else; a session yields an envelope only when all its   *)
(* signers have approved it, and nothing happens to it afterwards.  A      *)
(* session that was given up yields no envelope, but approvals that were   *)
(* on their way may still be made.                                         *)
(***************************************************************************)
EXTENDS Integers

CONSTANTS
  Session, Verifier, Nonce,
  Signers     \* session -> the verifiers that have to approve it

VARIABLES
  approved,   \* the <<session, verifier, nonce>> approvals made
  outcome     \* session -> "open", "envelope" or "closed"

vars == <<approved, outcome>>

Init ==
  /\ approved = {}
  /\ outcome = [s \in Session |-> "open"]

Approve(s, v, nonce) ==
  /\ outcome[s] # "envelope"
  /\ \A a \in approved : a[2] = v => a[1] # s /\ a[3] # nonce
  /\ approved' = approved \cup {<<s, v, nonce>>}
  /\ UNCHANGED outcome

Deliver(s) ==
  /\ outcome[s] = "open"
  /\ \A v \in Signers[s] : \E nonce \in Nonce : <<s, v, nonce>> \in approved
  /\ outcome' = [outcome EXCEPT ![s] = "envelope"]
  /\ UNCHANGED approved

\* Sessions are given up one by one, or all together by a coordinator crash.
GiveUp ==
  /\ \E given \in SUBSET {s \in Session : outcome[s] = "open"} :
       outcome' = [s \in Session |-> IF s \in given THEN "closed"
                                                    ELSE outcome[s]]
  /\ UNCHANGED approved

Next ==
  \/ \E s \in Session :
       \/ Deliver(s)
       \/ \E v \in Verifier, nonce \in Nonce : Approve(s, v, nonce)
  \/ GiveUp

Spec == Init /\ [][Next]_vars
=============================================================================
