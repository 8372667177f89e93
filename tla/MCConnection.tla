---------------------------- MODULE MCConnection ----------------------------
(***************************************************************************)
(* Small instances of Connection for TLC.  The configurations give the     *)
(* constants their values; requests are interchangeable, so the runs that  *)
(* check safety alone treat them as a symmetry set.                        *)
(***************************************************************************)
EXTENDS Connection, TLC

ReqSymmetry == Permutations(Reqs)
============================================================================
