----------------------------- MODULE MCGeoLookup -----------------------------
(* Model-checking instances of GeoLookup.                                  *)
EXTENDS GeoLookup
=============================================================================
