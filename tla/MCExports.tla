----------------------------- MODULE MCExports -----------------------------
(* Instances of Exports for TLC. *)
EXTENDS Exports, TLC

\* Tasks are interchangeable, and so are exports.
ExportSymmetry == Permutations(Exports) \cup Permutations(Tasks)
=============================================================================
