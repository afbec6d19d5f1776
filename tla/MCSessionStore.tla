--------------------------- MODULE MCSessionStore ---------------------------
(***************************************************************************)
(* Two sessions, two verifiers and two threads: enough for a call to run   *)
(* between the two blocks of another one, on the same session or not.      *)
(***************************************************************************)
EXTENDS SessionStore, TLC

CONSTANTS s1, s2, v1, v2, t1, t2

MCSession == {s1, s2}
MCVerifier == {v1, v2}
MCThread == {t1, t2}
Both == {"memory", "sqlite"}
Memory == {"memory"}

Symmetry == Permutations(MCSession) \cup Permutations(MCVerifier)
            \cup Permutations(MCThread)
=============================================================================
