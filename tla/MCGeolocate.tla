---------------------------- MODULE MCGeolocate ----------------------------
(* Instances of Geolocate for TLC: the timeouts of the code, in seconds. *)
EXTENDS Geolocate
=============================================================================
