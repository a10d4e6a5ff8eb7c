------------------------------ MODULE MCEstate ------------------------------
(* Values for TLC.                                                         *)
EXTENDS Estate

MCMembers == [leavers |-> {"ana", "ben"}, contractors |-> {"ben"}]
MCDefault == [early |-> 2, escalating |-> 3, critical |-> 4]
MCChanges == {[early |-> 3], [escalating |-> 4, critical |-> 5]}
=============================================================================
