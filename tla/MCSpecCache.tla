---------------------------- MODULE MCSpecCache ----------------------------
(* Model-checking instance of SpecCache.  The configurations give the      *)
(* goroutines, keys and specs as model values and choose the capacity      *)
(* below the number of keys, so that Set evicts.                           *)
EXTENDS SpecCache
=============================================================================
