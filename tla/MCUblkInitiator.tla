-------------------------- MODULE MCUblkInitiator --------------------------
(* Instances of UblkInitiator for TLC. *)
EXTENDS UblkInitiator, TLC

\* Volumes differ only in their names.
VolumeSymmetry == Permutations(Initiators)
=============================================================================
