---------------------------- MODULE SessionState ----------------------------
(***************************************************************************)
(* The lifecycle of an attestation session, crates/attestation/session.rs. *)
(* The reason string of Failed is abstracted away; Absent stands for a     *)
(* session identifier that no store row or map entry mentions.             *)
(***************************************************************************)
Absent == "Absent"

States == {"Pending", "Active", "Attesting", "Collecting",
           "Finalized", "Expired", "Failed"}

is_terminal(st) == st \in {"Finalized", "Expired", "Failed"}

Edges == {<<"Pending", "Active">>, <<"Active", "Attesting">>,
          <<"Attesting", "Collecting">>, <<"Collecting", "Finalized">>}

can_transition_to(st, next) ==
  /\ ~ is_terminal(st)
  /\ \/ <<st, next>> \in Edges
     \/ next \in {"Expired", "Failed"}
=============================================================================
