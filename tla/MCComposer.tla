------------------------------ MODULE MCComposer ------------------------------
(* The forms with the constants of a configuration.                        *)
EXTENDS Composer
=============================================================================
