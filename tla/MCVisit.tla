------------------------------ MODULE MCVisit -------------------------------
(* Instances of Visit for TLC; the sets are given in the .cfg files.       *)
EXTENDS Visit, TLC

(* Watched visits are interchangeable.                                     *)
GuestSymmetry == Permutations(Guests)
=============================================================================
