--------------------------- MODULE MCInitOnImage ---------------------------
(* Small instances of InitOnImage.                                          *)
EXTENDS InitOnImage
CONSTANTS i1, i2, i3, o1, o2
=============================================================================
