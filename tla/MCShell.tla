------------------------------ MODULE MCShell -------------------------------
EXTENDS Shell

\* An empty disk, and one with a file in a directory.
MCEmpty == <<[path |-> Root, dir |-> TRUE, parent |-> 1, data |-> <<>>]>>
MCFull  == MCEmpty \o
  <<[path |-> <<"b">>, dir |-> TRUE, parent |-> 1, data |-> <<>>],
    [path |-> <<"b", "a">>, dir |-> FALSE, parent |-> 2, data |-> <<"x">>]>>
MCDisks == {MCEmpty, MCFull}
Relative(p) == [abs |-> FALSE, parts |-> p]
MCArgs  == {Relative(<<"a">>), Relative(<<"b">>), Relative(<<"..">>)}
MCTexts == {<<"x">>, <<"x", "x", "x">>}
MCNames == {"a", "b", ".", ".."}
MCChars == {"0", "x", "\n"}
MCGlyphs == {" ", "h", "$", "x", "o", "bs", "\n"}
MCOutputs == {<<>>, <<"o", "\n">>}
=============================================================================
