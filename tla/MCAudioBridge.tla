--------------------------- MODULE MCAudioBridge ---------------------------
(* Two chimes that do not fit into the ring together, and of which one overlaps its end. *)
EXTENDS AudioBridge

MCChimes == {<<1, 2>>, <<3, 4, 5, 6>>}
=============================================================================
