----------------------------- MODULE MCRegistration -----------------------------
(* Registration with the bounds of the configurations.                            *)
EXTENDS Registration
===============================================================================
