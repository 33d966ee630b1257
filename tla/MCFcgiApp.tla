------------------------------ MODULE MCFcgiApp ------------------------------
(***************************************************************************)
(* FcgiApp for TLC.  With a payload of 10 any two of the three fields the  *)
(* library adds fit into a record and all three do not; "big" fits into    *)
(* none.                                                                   *)
(***************************************************************************)
EXTENDS FcgiApp

FieldSize ==
    [n \in Name |-> CASE n = Status -> 2
                      [] n = ContentLength -> 3
                      [] n = Location -> 4
                      [] OTHER -> 20]

=============================================================================
