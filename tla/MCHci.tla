------------------------------- MODULE MCHci -------------------------------
(* The callers of the HCI API are alike, and so are the devices.            *)
EXTENDS HciApi, TLC

Symmetry == Permutations(Worker) \cup Permutations(Device)
=============================================================================
