---------------------------- MODULE MCTurnTaking ----------------------------
(* The instance of TurnTaking that TLC checks: see TurnTaking.cfg. *)
EXTENDS TurnTaking

Speakerphone == {"voice", "echo", "quiet"}
=============================================================================
