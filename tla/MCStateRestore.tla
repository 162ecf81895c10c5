---------------------------- MODULE MCStateRestore ----------------------------
(* Instances of StateRestore for TLC.                                      *)
EXTENDS StateRestore

(* A required file and an optional one that different units own, and a     *)
(* database.                                                               *)
MCRegistry  == <<"services", "scheduler", "db">>
MCDatabases == {"db"}
MCOptional  == {"scheduler"}
MCSensitive == {"db"}
MCRestore   == <<"protected", "timer">>
MCQuiesce   == <<"protected", "postgres">>
MCOwner     == [services |-> "protected", scheduler |-> "timer", db |-> "protected"]
=============================================================================
