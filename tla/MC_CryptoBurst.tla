---------------------------- MODULE MC_CryptoBurst ----------------------------
(* CryptoDpdk with a burst whose last operation goes to another device. *)
EXTENDS CryptoDpdk

Op(dev) == [dev |-> dev, enable |-> FALSE, null |-> FALSE, bad |-> FALSE]
TwoAndOne == {<<Op(1), Op(1), Op(2)>>}
Shared == {[shared |-> TRUE, refuses |-> FALSE]}
=============================================================================
