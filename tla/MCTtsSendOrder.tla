--------------------------- MODULE MCTtsSendOrder ---------------------------
(* TtsSendOrder on a small instance: its parameters are numbers and a set,  *)
(* given in the configuration.                                              *)
EXTENDS TtsSendOrder

=============================================================================
