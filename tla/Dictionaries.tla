---------------------------- MODULE Dictionaries ----------------------------
(***************************************************************************)
(* Python dictionaries as functions.                                       *)
(***************************************************************************)

\* The dictionary f with another value for x.
Given(f, x, v) == [y \in {x} \cup DOMAIN f |-> IF y = x THEN v ELSE f[y]]
=============================================================================
