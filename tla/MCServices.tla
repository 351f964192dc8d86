------------------------------ MODULE MCServices ------------------------------
(* The services for TLC. *)
EXTENDS Services

AllParts == {"gps", "fix", "voice", "battery"}
Percents == {0, 10, 11, 20, 21, 95, 110}

=============================================================================
