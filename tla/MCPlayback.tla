------------------------------ MODULE MCPlayback ------------------------------
(* The three carriers side by side: chunks of three frames, a mark every two.   *)
EXTENDS CarrierPlayback

AllCarriers == {"twilio", "exotel", "teler"}
=============================================================================
