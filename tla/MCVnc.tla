-------------------------------- MODULE MCVnc --------------------------------
(* Instances of VncManager for TLC; the sets are given in the .cfg files.   *)
EXTENDS VncManager

FromMinus2To3 == -2 .. 3
FromMinus1To1 == -1 .. 1
=============================================================================
