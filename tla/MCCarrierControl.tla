--------------------------- MODULE MCCarrierControl ---------------------------
(* The three carriers; a tick is ten seconds, long spans are cut short.        *)
EXTENDS CarrierControl

AllCarriers == {"twilio", "exotel", "teler"}
===============================================================================
