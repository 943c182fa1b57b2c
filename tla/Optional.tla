------------------------------ MODULE Optional ------------------------------
(***************************************************************************)
(* The absence of a value (Python's None, an empty string or a missing     *)
(* key), which the modules that use it share.                              *)
(***************************************************************************)
CONSTANT None

\* What x is, if it is anything.
Opt(x) == {x} \ {None}
=============================================================================
