------------------------ MODULE ParticipantRegistry ------------------------
(***************************************************************************)
(* Snapshots of the participant registry, crypto/participant_registry.rs. *)
(* A snapshot r has an epoch, and a status and a signing key for every     *)
(* registered participant.  The operations that can fail return the set of *)
(* their results: empty for an error, a singleton for Ok.                  *)
(***************************************************************************)
EXTENDS Integers

Statuses == {"Active", "Revoked", "Retired"}

get_active(r, p) == p \in DOMAIN r.status /\ r.status[p] = "Active"

check_ceremony_admission(r, expected_epoch, ps) ==
  /\ expected_epoch = r.epoch
  /\ \A p \in ps : get_active(r, p)

\* The signing keys of the active participants.
to_dkg_registry(r) ==
  [p \in {q \in DOMAIN r.status : get_active(r, q)} |-> r.key[p]]

\* Mutant: a new snapshot may keep the epoch of the old one.
with_revocation_same_epoch(r, p, new_epoch) ==
  IF /\ new_epoch >= r.epoch
     /\ p \in DOMAIN r.status /\ r.status[p] # "Revoked"
  THEN {[r EXCEPT !.epoch = new_epoch, !.status[p] = "Revoked"]}
  ELSE {}

with_revocation(r, p, new_epoch) ==
  IF /\ new_epoch > r.epoch
     /\ p \in DOMAIN r.status /\ r.status[p] # "Revoked"
  THEN {[r EXCEPT !.epoch = new_epoch, !.status[p] = "Revoked"]}
  ELSE {}

with_retirement(r, p, new_epoch) ==
  IF new_epoch > r.epoch /\ p \in DOMAIN r.status
  THEN {[r EXCEPT !.epoch = new_epoch, !.status[p] = "Retired"]}
  ELSE {}

\* The status is reset to Active: rotation re-admits.
with_key_rotation(r, p, new_signing_key, new_epoch) ==
  IF new_epoch > r.epoch /\ p \in DOMAIN r.status
  THEN {[r EXCEPT !.epoch = new_epoch, !.status[p] = "Active",
                  !.key[p] = new_signing_key]}
  ELSE {}

=============================================================================
