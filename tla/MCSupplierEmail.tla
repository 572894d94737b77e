--------------------------- MODULE MCSupplierEmail ---------------------------
(* Instance of SupplierEmail for TLC. *)
EXTENDS SupplierEmail, TLC

Symmetry == Permutations(Senders)
=============================================================================
