---------------------------- MODULE MCResourceQueue ----------------------------
(* Constants for the model-checking runs of ResourceQueue. *)
EXTENDS ResourceQueue

\* Names and addresses are interchangeable; for runs that check no liveness.
Interchangeable ==
  Permutations(Resource) \cup Permutations(Slot) \cup Permutations(Address)

===============================================================================
