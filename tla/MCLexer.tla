------------------------------- MODULE MCLexer ------------------------------
(***************************************************************************)
(* Lexer for TLC.                                                          *)
(***************************************************************************)
EXTENDS Lexer

(* Words of up to two characters, two to a stanza at most; the constructor  *)
(* of Stanza leaves out empty arguments at the end.                         *)
MCWord  == BoundedSeq({"a", "blank"}, 2)
MCWords == {w \in BoundedSeq(MCWord, 2) : w = <<>> \/ Last(w) # <<>>}
=============================================================================
