---------------------------- MODULE BrandSignals ----------------------------
(***************************************************************************)
(* What is read from a page and what is made of it: the scored logo        *)
(* candidates of collectSignals, the logo extractBrand returns and the     *)
(* icon of the tab.  A page is its elements, icons and JSON-LD logos; an   *)
(* element is the features the score looks at.  Scores count in halves.    *)
(***************************************************************************)
EXTENDS Integers, SequencesExt

Points(holds, n) == IF holds THEN n ELSE 0

\* Large enough, near enough to the top and not hidden.
Visible(e) == e.width >= 16 /\ e.height >= 10 /\ e.top <= 1500 /\ e.visible

\* logo: where "logo" or "brand" is written, on the element or around it; site:
\* its attributes name the site; named: its text does; file: its file says logo.
Score(e) ==
  LET sized   == e.width \in 40..600 /\ e.height \in 16..300
      tooBig  == e.width > 900 \/ e.height > 400
      tiny    == e.kind # "text" /\ e.width < 40 /\ e.height < 40
      odd     == 10 * e.width < 4 * e.height \/ e.width > 12 * e.height
  IN  Points(e.logo = "own", 8) + Points(e.logo = "near", 6) + Points(e.header, 4)
      + Points(e.top < 200, 4) - Points(e.top > 700, 4) + Points(e.home, 6) + Points(e.site, 4)
      - Points(e.negative, 10) - Points(e.footer, 4) + Points(sized, 2) - Points(tooBig, 6)
      - Points(tiny, 8) - Points(odd, 2) + Points(e.left, 1)
      + (IF e.kind = "text" THEN Points(e.named, 6) + Points(e.large, 2) - 3 ELSE 0)

Kinds == {"img", "svg", "background", "text"}

\* Which elements of each kind are looked at.
Considered(e) ==
  CASE e.kind = "background" -> e.top <= 900 /\ e.width <= 800 /\ (e.file \/ e.header \/ e.home)
    [] e.kind = "text"       -> e.top <= 300 /\ (e.home \/ e.logo # "no")
    [] OTHER                 -> TRUE

Candidate(e) ==
  [id |-> e.id, kind |-> e.kind, url |-> e.url, top |-> e.top,
   strong |-> e.logo = "own" \/ e.home,
   score |-> Score(e) + Points(e.kind = "background" /\ e.file, 6)]

\* The five best, higher ones first among equals; they are marked in the page.
Before(a, b) == a.score > b.score \/ (a.score = b.score /\ a.top < b.top)
LogoCandidates(page) ==
  LET found == {Candidate(e) : e \in {x \in page.elements : Considered(x) /\ Visible(x) /\ Score(x) > 0}}
      sorted == SetToSortSeq(found, Before)
  IN  SubSeq(sorted, 1, IF Len(sorted) < 5 THEN Len(sorted) ELSE 5)

NoCandidate == [id |-> "none", kind |-> "none", url |-> "none", top |-> 0, strong |-> FALSE, score |-> 0]
Best(page) == LET cs == LogoCandidates(page) IN IF cs = <<>> THEN NoCandidate ELSE cs[1]
Weak(c) == c.score < 12

-----------------------------------------------------------------------------
IconSize(i) == IF i.svg THEN 512 ELSE IF i.sizes > 0 THEN i.sizes ELSE IF "apple-touch" \in i.rel THEN 180 ELSE 32

LargestIcon(icons) == CHOOSE i \in icons : \A j \in icons : IconSize(j) <= IconSize(i)

\* Tenths, so that the tens of a large icon's size still count.
TabScore(i) ==
  LET s == IconSize(i)
      off == IF s >= 48 THEN s - 48 ELSE 48 - s
  IN  IF s \in 32..64 THEN 10000 - 10 * off ELSE IF s >= 64 THEN 5000 - s ELSE 10 * s

PickFavicon(icons) ==
  LET tab  == {i \in icons : "icon" \in i.rel /\ i.rel \cap {"apple-touch", "mask"} = {}}
      pool == IF tab # {} THEN tab ELSE {i \in icons : "mask" \notin i.rel}
  IN  IF pool = {} THEN "/favicon.ico"
      ELSE (CHOOSE i \in pool : \A j \in pool : TabScore(j) <= TabScore(i)).url

-----------------------------------------------------------------------------
LogoConfidence(c) == IF c.score >= 18 /\ c.strong THEN "high" ELSE IF c.score >= 12 THEN "medium" ELSE "low"

NoLogo == [url |-> "none", source |-> "none", image |-> "none", confidence |-> "none"]
Logo(url, source, image, confidence) ==
  [url |-> url, source |-> source, image |-> image, confidence |-> confidence]

\* A file that JSON-LD names as well, whatever its size or host, is certain.
Agreed(logo, page) ==
  IF logo.url # "none" /\ logo.url \in page.jsonLd THEN [logo EXCEPT !.confidence = "high"] ELSE logo

\* image: what was captured of the best candidate, as the id of its element.
ChooseLogo(page, image) ==
  LET best == Best(page)
  IN  Agreed(
        IF best.score >= 10 \/ (best.score >= 6 /\ page.jsonLd = {})
        THEN Logo(best.url, best.kind, image, LogoConfidence(best))
        ELSE IF page.jsonLd # {}
        THEN Logo(CHOOSE u \in page.jsonLd : TRUE, "json-ld", "none", "medium")
        ELSE IF page.icons # {} THEN Logo(LargestIcon(page.icons).url, "icon", "none", "low")
        ELSE NoLogo, page)
==============================================================================
