---------------------------- MODULE MC_IpsecStatus ----------------------------
(* IpsecSa with one SA in asynchronous mode, a thread that disables it and a *)
(* thread that uses it.                                                      *)
EXTENDS IpsecSa

OneSa == {[lookup |-> "spi", spi |-> 1, dst |-> 1]}
OnePkt == {[spi |-> 1, dst |-> 1]}
=============================================================================
