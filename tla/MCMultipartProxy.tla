--------------------------- MODULE MCMultipartProxy ---------------------------
EXTENDS MultipartProxy

(* Empty, with the start of a boundary, the largest that fits, too large. *)
MCPictures == {<<>>, <<"-", "-", "x">>, <<"x", "-", "cr", "lf">>}
===============================================================================
