------------------------------ MODULE MCStartup ------------------------------
(* A server and two import commands, files of up to two rows.                *)
EXTENDS Startup

Rows == [place : {"x", "y"}, sound : BOOLEAN]
MCLegacyFiles == {<<[place |-> "x", sound |-> TRUE], r>> : r \in Rows}
=============================================================================
