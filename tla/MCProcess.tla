----------------------------- MODULE MCProcess -----------------------------
(* One chunk more than is kept.                                              *)
EXTENDS Process
=============================================================================
