---- MODULE MCFileOutput ----
(* Ring buffers that are off, or of none, one or two pictures; of one or    *)
(* two cells each.                                                          *)
EXTENDS FileOutput
CONSTANT t1
MCRingSizes == {-1, 0, 1, 2}
=============================
