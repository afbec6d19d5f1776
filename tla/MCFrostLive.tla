---------------------------- MODULE MCFrostLive -----------------------------
(***************************************************************************)
(* The signing phase with two sessions, for what has to happen: calls time *)
(* out, nodes restart, sessions expire and cached entries outlive          *)
(* PENDING_TTL.  `calm` remembers the sessions none of this has happened   *)
(* to.                                                                     *)
(***************************************************************************)
EXTENDS MCFrostSigning

VARIABLE calm

TwoSessions == {s1, s2}
PairLists == [s \in Session |-> Pair]

\* Neither the session nor an entry a node caches for it is too old.
InTime(s) ==
  /\ clock <= expires[s]
  /\ \A e \in pending : e.s = s => ~ Expired(e)

\* A step of the thread of s that ends a call the node has not answered.
GivesUp(s) == /\ pc[s] \in {"round1", "round2"} /\ store'[s] = "Failed"
              /\ CurrentCall(s) \notin refused

LiveInit == Init /\ calm = [s \in Session |-> TRUE]

Remember ==
  calm' = [s \in Session |-> /\ calm[s] /\ ~ GivesUp(s)
                             /\ pc'[s] # "idle" => InTime(s)']

LiveNext ==
  \/ \E s \in Session : (Prepare(s) \/ Attest(s)) /\ Remember
  \/ Serve /\ Remember
  \/ Clock /\ Remember
  \/ \E n \in Node : NodeRestart(n) /\ calm' = [s \in Session |-> FALSE]

LiveSpec == LiveInit /\ [][LiveNext]_<<vars, calm>> /\ Fairness

\* Every session that was opened comes to an end: its thread returns an envelope
\* or an error.  It returns an envelope, and the session is Finalized, unless a
\* call was given up on, a node was restarted, or the session or one of its
\* entries grew too old: another session, its Round 1 and the eviction that
\* starts with it never take this one down.
SessionsReturn ==
  \A s \in Session :
    pc[s] \in Running ~> /\ pc[s] \in Returned
                         /\ calm[s] => pc[s] = "done" /\ store[s] = "Finalized"
=============================================================================
