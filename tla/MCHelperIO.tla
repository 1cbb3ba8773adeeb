----------------------------- MODULE MCHelperIO -----------------------------
(* HelperIO on small instances: the values of its constants.               *)
EXTENDS HelperIO

TwoLines   == {<<"a">>, <<"a", "b">>}
ShortTexts == BoundedSeq(1..4, 3)
=============================================================================
