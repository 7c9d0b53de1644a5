----------------------------- MODULE MCJsonText -----------------------------
(***************************************************************************)
(* All texts of up to eight tokens, over two strings (so that a key can    *)
(* come twice and out of order) and an int; and those of up to five that   *)
(* have among their first two tokens any string spelled with up to three   *)
(* characters that mean something to the parser or the printer, a word,    *)
(* something that cannot be read, or a number: some about the greatest int *)
(* (120), others of more digits than the two that are printed.             *)
(***************************************************************************)
EXTENDS JsonText

Chars == {97, 110, Tab, NewLine, Quote, Backslash}
Raws == UNION {{raw \in [1 .. n -> Chars] : Closes(raw)} : n \in 0 .. 3}

Wholes == {-121, 99, 115, 120, 121, 1005, 9949}
Fractions == {0, 10, 19, 20, 199, 201, 203, 209, 211, 242, 2010}

MCTokens ==
  {Mark(m) : m \in {"[", "]", "{", "}", ",", ":"}}
    \cup {StringToken(<<97>>), StringToken(<<>>), Token("digits", << >>, 6)}
MCRareTokens ==
  {StringToken(raw) : raw \in Raws} \cup {Token("true", << >>, 0), Token("null", << >>, 0)}
    \cup {Token("bad", << >>, 0)}
    \cup {Token("digits", << >>, 2 * n) : n \in Wholes}
    \cup {Token("decimal", << >>, h) : h \in Fractions}
=============================================================================
