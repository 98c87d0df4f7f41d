----------------------------- MODULE MCArchiver -----------------------------
(* The instance of module Archiver for TLC; Archiver.cfg sets the constants. *)
(* Liveness is checked along with safety, so there is no symmetry.           *)
EXTENDS Archiver, TLC
=============================================================================
