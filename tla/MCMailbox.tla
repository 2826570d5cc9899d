------------------------------ MODULE MCMailbox -----------------------------
(* Small instances of Mailbox: who may send to whom. *)
EXTENDS Mailbox

CONSTANTS a, b

TwoBoxes == {a, b}
OneWay == {<<a, b>>}
BothWays == {<<a, b>>, <<b, a>>}
ToSelf == {<<a, a>>}
BothAndSelf == BothWays \cup {<<b, b>>}
=============================================================================
