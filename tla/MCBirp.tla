------------------------------- MODULE MCBirp -------------------------------
(* Images of at most two by two pixels, and larger ones of two values. *)
EXTENDS Birp

Rasters(w, h, values) == [0 .. h - 1 -> [0 .. w - 1 -> values]]
All(w, h, values) == {Pgm(w, h, raster) : raster \in Rasters(w, h, values)}
MCImages == All(1, 1, Pixels) \cup All(2, 1, Pixels) \cup All(1, 2, Pixels)
              \cup All(2, 2, Pixels) \cup All(3, 3, {0, 1})
=============================================================================
