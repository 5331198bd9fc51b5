----------------------------- MODULE MCPlugins -----------------------------
(***************************************************************************)
(* The plugin manager for TLC: two plugins, one of which requires the      *)
(* other.                                                                  *)
(***************************************************************************)
EXTENDS PluginManager

MCRequires == [n \in Plugin |-> IF n = "app" THEN {"base"} ELSE {}]

MCLoadOrder == <<"base", "app">>

(* The application has no configuration file; that of its base says on or off. *)
MCConfig == {[n \in Plugin |-> IF n = "base" THEN s ELSE "none"] : s \in {"on", "off"}}

=============================================================================
