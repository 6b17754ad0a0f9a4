--------------------------- MODULE MCPluginAdmin ---------------------------
(* Model-checking instance of PluginAdmin. *)
EXTENDS PluginAdmin
=============================================================================
