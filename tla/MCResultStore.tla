---------------------------- MODULE MCResultStore ----------------------------
EXTENDS ResultStore, SizeLimit

CONSTANTS j1, u1, u2, u3, w1, w2, w3, w4

\* Job j1 gets u1 twice, u2 and u3.
Jobs == {j1}
Writers == {w1, w2, w3, w4}
MCJobOf == [w \in Writers |-> j1]
MCUrlOf == [w \in Writers |-> CASE w = w3 -> u2 [] w = w4 -> u3 [] OTHER -> u1]

\* Writers of one URL may be swapped, and so may those of a URL of their own.
Symmetry == Permutations({w1, w2}) \cup Permutations({w3, w4})

\* Bodies around a budget of 3 bytes.
SmallTexts == {t \in [raw : 0..2, json : 0..3] : IsText(t)}
SmallContents == [html : SmallTexts, text : SmallTexts, markdown : SmallTexts,
                  links : {0, 2}, image : {0, 2}, rest : {1, 4}]

ASSUME \A c \in SmallContents : Fits(c) /\ MarkdownLast(c)
==============================================================================
