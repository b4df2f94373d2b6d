-------------------------- MODULE MCPictureEditor --------------------------
(* No picture, two or three, one build of each editor.                      *)
EXTENDS PictureEditor

MCCounts == {0, 2, 3}
=============================================================================
