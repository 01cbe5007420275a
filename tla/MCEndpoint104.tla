--------------------------- MODULE MCEndpoint104 ---------------------------
(* TLC instance of Endpoint104.                                            *)
EXTENDS Endpoint104
=============================================================================
