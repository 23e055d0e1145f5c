------------------------------ MODULE MCPanels ------------------------------
(* Instance of Panels for TLC; the sets are given in the .cfg file.        *)
EXTENDS Panels, TLC

(* Panels are interchangeable.                                             *)
PanelSymmetry == Permutations(Panels)
=============================================================================
