--------------------------- MODULE MCCallbackList ---------------------------
(***************************************************************************)
(* Instances of CallbackList for TLC, and what the ChangeLog says of the   *)
(* list, which several execution threads do not keep.                      *)
(***************************************************************************)
EXTENDS CallbackList, TLC

Symmetry == Permutations(Workers)

\* ChangeLog 0.1.20: the use of freed elements in the callback list is fixed.
NoStaleElement == ~broken
=============================================================================
