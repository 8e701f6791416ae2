---------------------------- MODULE MCExtraction ----------------------------
(* Small instances of ExtractionQueue.                                     *)
EXTENDS ExtractionQueue

\* Every call to one phone.
OnePhone == [c \in Call |-> "p"]
=============================================================================
