---------------------------- MODULE MCSelection ----------------------------
(* Two workers and three requests, interchangeable; two carriers can dial.     *)
EXTENDS ProviderSelection, TLC

CONSTANTS w1, w2, r1, r2, r3

TwoCarriers == {"twilio", "exotel"}
TwoSeeds == {"exotel", "unknown"}
Interchangeable == Permutations({w1, w2}) \cup Permutations({r1, r2, r3})
=============================================================================
