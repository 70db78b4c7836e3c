----------------------------- MODULE MCTableSync -----------------------------
(***************************************************************************)
(* Values for the constants of TableSync: one or two identity columns,     *)
(* with a source value that lies inside the first block.                   *)
(***************************************************************************)
EXTENDS TableSync

OneColumn == {"id"}
TwoColumns == {"id", "number"}
SourceValues == {2}
==============================================================================
