------------------------------ MODULE MCRounds ------------------------------
(* A small instance of Rounds for TLC. *)
EXTENDS Rounds

\* Two directions and a third that repeats a name: by_direction keeps the last.
UpDownUp == <<"upload", "download", "upload">>
UpDown == <<"upload", "download">>
=============================================================================
