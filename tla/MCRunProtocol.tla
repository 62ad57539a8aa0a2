---------------------------- MODULE MCRunProtocol ----------------------------
(* RunProtocol for TLC: the constants' values are in the configurations. *)
EXTENDS RunProtocol
==============================================================================
