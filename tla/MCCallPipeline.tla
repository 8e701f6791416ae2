--------------------------- MODULE MCCallPipeline ---------------------------
(* Small instances of CallPipeline.                                        *)
EXTENDS CallPipeline, TLC

\* Every call to one phone, or every call to a phone of its own.
OnePhone == [c \in Call |-> "p"]
OwnPhones == [c \in Call |-> c]

\* Coordinators differ in nothing but their owner id.
Coordinators == Permutations(Worker)
=============================================================================
