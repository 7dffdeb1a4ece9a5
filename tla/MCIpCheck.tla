----------------------------- MODULE MCIpCheck ------------------------------
(* Instances of IpCheck for TLC.                                           *)
EXTENDS IpCheck
=============================================================================
