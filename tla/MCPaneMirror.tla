--------------------------- MODULE MCPaneMirror ---------------------------
(* One window, two streams of it one after the other, two ticks at once.   *)
EXTENDS PaneMirror
===========================================================================
