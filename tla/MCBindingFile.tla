--------------------------- MODULE MCBindingFile ---------------------------
(* BindingFile under every fault at once: four save() calls, any number of  *)
(* kills, power losses, failing calls and offline damages.                  *)
EXTENDS BindingFile
=============================================================================
