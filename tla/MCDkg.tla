------------------------------- MODULE MCDkg -------------------------------
(***************************************************************************)
(* Two participants that may be configured with either order of themselves *)
(* or with a list that names a third one, o, who never takes part.  Two    *)
(* ceremonies, two nodes each, one registry change: a ceremony can be      *)
(* aborted, its nodes replaced, and the next one started with announcements*)
(* and deliveries of the first still around.                               *)
(***************************************************************************)
EXTENDS Dkg, TLC

CONSTANTS a, b, o, c1, c2

MCParticipant == {a, b}
MCSlices == {{a, b}}
MCLists == {<<a, b>>, <<b, a>>, <<a, o>>}
MCChanging == {b}
MCCeremony == {c1, c2}

Symmetry == Permutations(MCCeremony)
=============================================================================
