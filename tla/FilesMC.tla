------------------------------ MODULE FilesMC ------------------------------
(* A directory and what it holds: a File that may be either, and the names  *)
(* that Files of a removed directory come back under.                       *)
EXTENDS Files
CONSTANTS notes, sub
MCPaths == {<<sub>>, <<sub, notes>>, <<sub, sub>>}
=============================================================================
