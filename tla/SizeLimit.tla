------------------------------- MODULE SizeLimit -------------------------------
(***************************************************************************)
(* applySizeLimit: how the body of a page is cut to the byte budget of a   *)
(* result before it is stored.  A text is known by its bytes and by what   *)
(* JSON makes of them, for quotes and line ends are escaped; the budget is *)
(* about JSON, and texts are cut by bytes.                                 *)
(***************************************************************************)
EXTENDS Naturals

CONSTANTS
  MaxBytes,  \* maxResultBytes
  Slack      \* what is cut beyond what is over

ASSUME SizeAssumption == MaxBytes \in Nat /\ Slack \in Nat

\* A text's bytes, and those of its JSON: every byte takes one at least.
IsText(t) == t.raw <= t.json /\ (t.raw = 0 => t.json = 0)
Text == {t \in [raw : Nat, json : Nat] : IsText(t)}

\* A body, with the JSON of its links and of the rendered logo; `rest` is what
\* is never cut: names, brackets, the brand without the image.
Content == [html : Text, text : Text, markdown : Text, links : Nat, image : Nat, rest : Nat]

Size(c) == c.html.json + c.text.json + c.markdown.json + c.links + c.image + c.rest

\* What a text may be after it is cut to a number of bytes; a character that is
\* cut in two goes as a whole.
Cut(t, keep) ==
  {u \in [raw : 0..keep, json : 0..t.json] : IsText(u) /\ u.json + t.raw <= t.json + u.raw}

\* Bytes of a text that are kept when the body is so much too large.
Keep(t, over) == IF t.raw > over + Slack THEN t.raw - over - Slack ELSE 0

\* What a text of a body may be after its turn.
Trimmed(c, t) == IF Size(c) <= MaxBytes \/ t.raw = 0 THEN {t} ELSE Cut(t, Keep(t, Size(c) - MaxBytes))

WithoutImage(c) == IF Size(c) > MaxBytes THEN [c EXCEPT !.image = 0] ELSE c
WithoutLinks(c) == IF Size(c) > MaxBytes THEN [c EXCEPT !.links = 0] ELSE c

\* The first thousand links take no more than all of them.
FewerLinks(c) == {[c EXCEPT !.links = n] : n \in 0..c.links}

Light(c) == {WithoutImage(a) : a \in FewerLinks(c)}
CutHtml(c) == {[c EXCEPT !.html = t] : t \in Trimmed(c, c.html)}
CutText(c) == {[c EXCEPT !.text = t] : t \in Trimmed(c, c.text)}
CutMarkdown(c) == {[c EXCEPT !.markdown = t] : t \in Trimmed(c, c.markdown)}

\* The logo's image goes first, then html, text and markdown are cut, and the
\* links go last.
ApplySizeLimit(c) ==
  IF Size(c) <= MaxBytes THEN {c}
  ELSE LET images == Light(c)
           htmls == UNION {CutHtml(b) : b \in images}
           texts == UNION {CutText(b) : b \in htmls}
           bodies == UNION {CutMarkdown(b) : b \in texts}
       IN  {WithoutLinks(b) : b \in bodies}

-----------------------------------------------------------------------------
\* A stored body is within the budget, whatever was cut.
Fits(c) == c.rest <= MaxBytes => \A d \in ApplySizeLimit(c) : Size(d) <= MaxBytes

\* The markdown loses nothing while there is html or other text to cut.
MarkdownLast(c) ==
  \A d \in ApplySizeLimit(c) : d.markdown # c.markdown => d.html.raw = 0 /\ d.text.raw = 0
==============================================================================
