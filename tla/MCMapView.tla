------------------------------- MODULE MCMapView -------------------------------
(* Instances of MapView for TLC.                                             *)
EXTENDS MapView

CONSTANTS r1
=============================================================================
