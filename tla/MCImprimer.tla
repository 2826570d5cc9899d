----------------------------- MODULE MCImprimer -----------------------------
(* Small instances of Imprimer. *)
EXTENDS Imprimer

CONSTANTS txt, pdf

OneType == {txt}
TwoTypes == {txt, pdf}
SameType == {<<t, t>> : t \in Types}
\* A text file can be converted for a printer of pdf files.
TextToPdf == SameType \cup {<<txt, pdf>>}
BatchOnly == {"batch"}
InteractiveOnly == {"interactive"}
=============================================================================
