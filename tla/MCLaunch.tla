------------------------------ MODULE MCLaunch ------------------------------
(* Two sessions of one object, so that one starts over what the last left    *)
(* behind, and one connection that is not the application's.                 *)
EXTENDS Launch
=============================================================================
