------------------------------ MODULE MCCard ------------------------------
(* Card for TLC: two of the nine files download_json_table downloads and   *)
(* two of the nine tables Crea_csv_table makes.                            *)
EXTENDS Card

MCJsonFiles == <<"SYSTEM_table.json", "setup.json">>
MCTables == <<"SYSTEM_table.csv", "setup.csv">>
=============================================================================
