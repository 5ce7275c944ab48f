----------------------------- MODULE BrandColors -----------------------------
(***************************************************************************)
(* The colors of a page: what collectSignals and scrollAndSample take from *)
(* its elements and points, and pickColors, which groups them and gives    *)
(* primary, secondary, accent, background and text to groups.  A color is  *)
(* a value with a shade; "none" is no (solid) color.  Each source's        *)
(* weights are scaled to the weight of the source, in thousandths.         *)
(***************************************************************************)
EXTENDS Integers, SequencesExt, FiniteSetsExt

CONSTANTS
  Shade,   \* hsl of a color: hue in degrees, saturation and lightness in thousandths
  Delta    \* CIE76 distance of two colors

ASSUME ColorAssumption ==
  \A a, b \in DOMAIN Shade : Delta[a, b] \in Nat /\ Delta[a, b] = Delta[b, a] /\ Delta[a, a] = 0

IsNeutral(c) ==
  LET s == Shade[c].s
      l == Shade[c].l
  IN  l > 940 \/ l < 80 \/ s < 140 \/ (s < 250 /\ (l < 200 \/ l > 880))
IsTint(c) == ~IsNeutral(c) /\ Shade[c].l >= 850

\* Different enough to be a second brand color, not a shade of the first.
DistinctRole(a, b) ==
  LET apart == IF Shade[a].h < Shade[b].h THEN Shade[b].h - Shade[a].h ELSE Shade[a].h - Shade[b].h
  IN  /\ Delta[a, b] >= 20
      /\ \/ IsNeutral(a) # IsNeutral(b)
         \/ apart \in 30..330
         \/ Shade[a].l - Shade[b].l >= 300 \/ Shade[b].l - Shade[a].l >= 300

-----------------------------------------------------------------------------
(* A map of weights is the set of colors and what was added for each.      *)
Added(adds) ==
  LET of(c) == {a \in adds : a.color = c}
  IN  [c \in {a.color : a \in adds} \ {"none"} |-> SumFunction([a \in of(c) |-> a.weight])]

\* Chrome that floats over the page, unless it is its header.
InFloatingWidget(e) ==
  e.fixed.is /\ ~(e.fixed.top <= 5 /\ e.fixed.width >= 1093 /\ e.fixed.height <= 260)

\* A small part of the page whose root is named like a foreign widget.
InThirdParty(e, page) == e.widget.is /\ 100 * e.widget.size < 15 * page.size /\ ~e.widget.landmark

Painted(page) ==
  {e \in page.surfaces : e.width >= 2 /\ e.height >= 2 /\ e.visible
                         /\ ~InFloatingWidget(e) /\ ~InThirdParty(e, page)}

\* What every element in the page adds to the map of each source.
Fold(e) == IF e.top < 900 THEN 3 ELSE 2
Add(e, color, weight) == [id |-> e.id, color |-> color, weight |-> weight]
Least(a, b) == IF a < b THEN a ELSE b

Small(e) == e.button /\ e.width < 600 /\ e.height < 200
Band(e) == e.top < 180 /\ e.width >= 1093 /\ e.height \in 20..260

HeaderColors(page) ==
  {Add(e, e.fill, e.height) : e \in {x \in Painted(page) : Band(x)}}
  \cup {[id |-> "header", color |-> page.header, weight |-> 100]}
GradientColors(e) == {Add(e, c, 1000 \div Cardinality(e.gradient)) : c \in e.gradient}
ButtonColors(page) ==
  LET buttons == {e \in Painted(page) : e.button}
  IN  {Add(e, e.fill, 1000 + Least((10 * e.width * e.height) \div 1230, 2000)) : e \in {x \in buttons : Small(x)}}
      \cup (UNION {GradientColors(e) : e \in {x \in buttons : x.fill = "none"}})
      \cup {Add(e, e.border, 500) : e \in {x \in buttons : x.fill = "none" /\ x.gradient = {}}}
FilledColors(page) ==
  {Add(e, e.fill, ((e.width * e.height) \div 10000) * Fold(e)) : e \in {x \in Painted(page) : ~Small(x)}}
BorderColors(page) ==
  {Add(e, e.border, 1) : e \in {x \in Painted(page) : x.thick /\ x.width > 40}}

TextColors(page, kinds) ==
  {Add(e, e.ink, Least(e.chars, 400) * Fold(e)) : e \in {x \in Painted(page) : x.chars > 0 /\ x.tag \in kinds}}

-----------------------------------------------------------------------------
\* hideOverlays: what covers a third of the window or more, holds no large part of
\* the page and is named like a dialog, unless it is a band at the top, is not shown.
Hides(o, page) ==
  /\ o.covers >= 30 /\ ~(o.top <= 5 /\ o.height <= 260)
  /\ 100 * o.size <= 40 * page.size /\ o.marked

HideOverlays(page) ==
  LET gone == {o.id : o \in {x \in page.overlays : Hides(x, page)}}
      Left(set) == {e \in set : e.over \notin gone}
      Below(stack) == SelectSeq(stack, LAMBDA l : l.over \notin gone)
  IN  [page EXCEPT !.elements = Left(@), !.surfaces = Left(@), !.overlays = {o \in @ : o.id \notin gone},
                   !.points = {[p EXCEPT !.stack = Below(@)] : p \in @}]

\* A point has the color of the first layer that paints, a fixed one at the top of
\* the window only: none if that is a picture or is translucent; the body's if no
\* layer paints.
Paints(l) == l.kind = "media" \/ (l.kind # "clear" /\ ~l.floating)
Layers(p) == {i \in DOMAIN p.stack : Paints(p.stack[i])}
Canvas(page) == IF page.body # "none" THEN page.body ELSE "white"
Sampled(p, page) ==
  IF Layers(p) = {} THEN Canvas(page)
  ELSE LET l == p.stack[Min(Layers(p))] IN IF l.kind \in {"solid", "behind"} THEN l.color ELSE "none"

\* What the screenshot has there, whatever painted it.
Pixel(p, page) ==
  LET drawn == {i \in DOMAIN p.stack : p.stack[i].kind # "clear"}
  IN  IF drawn = {} THEN Canvas(page) ELSE p.stack[Min(drawn)].color

At(p, color) == [id |-> p.at, color |-> color, weight |-> 1]
SampledColors(page) == {At(p, Sampled(p, page)) : p \in page.points}
ScreenshotColors(page) == {At(p, Pixel(p, page)) : p \in page.points}

\* verifySurface: the samples whose pixel has that color; where nothing paints the
\* pixel decides.
VerifiedColors(page) ==
  {At(p, Pixel(p, page)) : p \in {x \in page.points : Layers(x) = {} \/ Sampled(x, page) = Pixel(x, page)}}

NoColors == [c \in {} |-> 0]

\* ColorInputs.  early: the reading that gave the logo, the theme color and the
\* variables; page: the later one; logo: the ink of the captured logo; seen:
\* which of the optional steps succeeded.
Evidence == {{}, {"points"}, {"screenshot"}, {"points", "screenshot"}, {"points", "screenshot", "pixels"}}
ColorInputs(early, page, logo, seen) ==
  LET sampled  == IF "points" \in seen THEN Added(SampledColors(page)) ELSE NoColors
      verified == IF "pixels" \in seen THEN Added(VerifiedColors(page)) ELSE NoColors
      prose    == Added(TextColors(page, {"paragraph"}))
  IN  [buttons |-> Added(ButtonColors(page)), header |-> Added(HeaderColors(page)),
       links |-> Added(TextColors(page, {"link"})), headings |-> Added(TextColors(page, {"heading"})),
       borders |-> Added(BorderColors(page)),
       background |-> IF verified # NoColors THEN verified
                      ELSE IF sampled # NoColors THEN sampled ELSE Added(FilledColors(page)),
       text |-> IF prose # NoColors THEN prose ELSE Added(TextColors(page, {"paragraph", "other"})),
       footer |-> page.footer, body |-> page.body, theme |-> early.theme, vars |-> early.vars,
       logo |-> Added({[id |-> i.color, color |-> i.color, weight |-> i.weight] : i \in logo}),
       screenshot |-> IF "screenshot" \in seen THEN Added(ScreenshotColors(page)) ELSE NoColors]

-----------------------------------------------------------------------------
(* Groups of colors.                                                       *)
SourceWeight ==
  [buttons |-> 5000, logo |-> 4000, cssvar |-> 3000, header |-> 2500, links |-> 2000, headings |-> 2000,
   borders |-> 1000, background |-> 2000, footer |-> 1500, theme |-> 2000, screenshot |-> 1500]
Carriers == {"buttons", "logo", "header", "cssvar"}

\* normalise: a source's weights add up to its own.
Normalise(map, weight, source) ==
  LET total == SumFunction(map)
  IN  IF total <= 0 THEN {}
      ELSE {[rgb |-> c, weight |-> (weight * map[c]) \div total, sources |-> {source}] : c \in DOMAIN map}
Single(c, weight, source) == IF c = "none" THEN {} ELSE {[rgb |-> c, weight |-> weight, sources |-> {source}]}
Each(colors) == [c \in colors |-> 1]

\* Array.sort is stable: behind all that are not lighter.
Heavier(a, b) == a.weight > b.weight
Insert(c, seq) == InsertAt(seq, 1 + Cardinality({i \in DOMAIN seq : ~Heavier(c, seq[i])}), c)

Behind(seq, c) == Insert(c, seq)

\* cluster: each color, the heaviest first, joins the first group near enough to it.
Near(a, b) == Delta[a, b] < 12
Join(groups, c) ==
  LET near == {i \in DOMAIN groups : Near(groups[i].rgb, c.rgb)}
  IN  IF near = {} THEN Append(groups, c)
      ELSE [groups EXCEPT ![Min(near)].weight = @ + c.weight, ![Min(near)].sources = @ \cup c.sources]
Cluster(colors) == FoldLeft(Behind, <<>>, FoldLeft(Join, <<>>, FoldSet(Insert, <<>>, colors)))

\* Variables of the page's builder that nobody chose are left out.
VarsNamed(inp, names) == {i \in DOMAIN inp.vars : ~inp.vars[i].default /\ inp.vars[i].name \in names}
BrandVars(inp) == {inp.vars[i].color : i \in VarsNamed(inp, {"primary", "brand"})}
PrimaryVar(inp) ==
  LET named == VarsNamed(inp, {"primary"}) IN IF named = {} THEN "none" ELSE inp.vars[Min(named)].color

Pooled(inp) ==
  (UNION {Normalise(inp[s], SourceWeight[s], s)
          : s \in {"buttons", "logo", "header", "links", "headings", "borders", "background", "screenshot"}})
  \cup Normalise(Each(BrandVars(inp)), SourceWeight.cssvar, "cssvar")
  \cup Single(inp.footer, SourceWeight.footer, "footer") \cup Single(inp.theme, SourceWeight.theme, "theme")

\* The most painted neutral or tint; the screenshot only breaks ties.
FirstOf(seq) == IF seq = <<>> THEN "none" ELSE seq[1].rgb
Background(inp) ==
  LET surfaces == SelectSeq(
        Cluster(Normalise(inp.background, 1000, "background") \cup Normalise(inp.screenshot, 300, "screenshot")
                \cup Single(inp.body, 100, "body")),
        LAMBDA g : IsNeutral(g.rgb) \/ IsTint(g.rgb))
  IN  IF surfaces = <<>> THEN inp.body ELSE surfaces[1].rgb
Text(inp) == FirstOf(Cluster(Normalise(inp.text, 1000, "text")))

-----------------------------------------------------------------------------
(* Who gets which role.                                                    *)

\* Mutant: a color that is only in a photo counts.
SupportOfAll(g) == Cardinality(g.sources)

Support(g) == Cardinality(g.sources \ {"screenshot"})

\* How far a color of this kind is a brand color, in hundredths.
Multiplier(g) ==
  LET l == Shade[g.rgb].l
      carried == g.sources \cap Carriers # {}
  IN  IF Support(g) = 0 THEN 0
      ELSE IF IsTint(g.rgb) THEN IF carried THEN 70 ELSE 30
      ELSE IF ~IsNeutral(g.rgb) THEN IF Support(g) >= 2 \/ {"buttons", "logo"} \cap g.sources # {} THEN 100 ELSE 50
      ELSE IF l < 400 /\ {"buttons", "cssvar", "logo"} \cap g.sources # {} THEN 45
      ELSE IF carried /\ l \in 400..850 THEN 25 ELSE 0

\* Half for the page's background off the buttons, half more for the primary variable.
BrandScore(g, background, primary) ==
  g.weight * Multiplier(g)
  * (IF background # "none" /\ Delta[g.rgb, background] < 6 /\ "buttons" \notin g.sources THEN 1 ELSE 2)
  * (IF primary # "none" /\ Delta[g.rgb, primary] < 12 THEN 3 ELSE 2)

\* The groups with a score, the highest first.
Rank(seq, x) ==
  IF x.score <= 0 THEN seq
  ELSE InsertAt(seq, 1 + Cardinality({i \in DOMAIN seq : seq[i].score >= x.score}), x)
Ranked(inp) ==
  LET groups == Cluster(Pooled(inp))
      background == Background(inp)
      scored == [i \in DOMAIN groups |->
                   [group |-> groups[i], score |-> BrandScore(groups[i], background, PrimaryVar(inp))]]
  IN  FoldLeft(Rank, <<>>, scored)

\* The first of a ranking that will do, as a sequence of at most one.
FirstWith(ranked, Good(_)) ==
  LET good == {i \in DOMAIN ranked : Good(ranked[i])}
  IN  IF good = {} THEN <<>> ELSE <<ranked[Min(good)]>>

\* A second hue that is not far behind, else the strongest other color.
SecondOf(ranked) ==
  LET Other(x) == DistinctRole(x.group.rgb, ranked[1].group.rgb)
      Hue(x) == Other(x) /\ ~IsNeutral(x.group.rgb) /\ 20 * x.score >= 3 * ranked[1].score
      hues == FirstWith(ranked, Hue)
  IN  IF hues # <<>> THEN hues ELSE FirstWith(ranked, Other)
ThirdOf(ranked, taken) ==
  FirstWith(ranked, LAMBDA x : ~IsNeutral(x.group.rgb) /\ \A o \in taken : DistinctRole(x.group.rgb, o))

ColorConfidence(ranked) ==
  LET first == ranked[1]
      support == Support(first.group)
      clear == Len(ranked) = 1 \/ 10 * first.score >= 12 * ranked[2].score
  IN  IF (support >= 3 \/ {"buttons", "logo"} \subseteq first.group.sources) /\ clear THEN "high"
      ELSE IF support >= 2 THEN "medium" ELSE "low"

PickColors(inp) ==
  LET ranked == Ranked(inp)
      Rgb(found) == IF found = <<>> THEN "none" ELSE found[1].group.rgb
      second == IF ranked = <<>> THEN <<>> ELSE SecondOf(ranked)
      taken == {ranked[1].group.rgb} \cup {second[i].group.rgb : i \in DOMAIN second}
  IN  [primary |-> Rgb(ranked), secondary |-> Rgb(second),
       accent |-> IF ranked = <<>> THEN "none" ELSE Rgb(ThirdOf(ranked, taken)),
       background |-> Background(inp), text |-> Text(inp),
       confidence |-> IF ranked = <<>> THEN "low" ELSE ColorConfidence(ranked)]

\* Equal, or two that nobody tells apart.
Alike(a, b) == a = b \/ Near(a, b)

Roles(picked) == <<picked.primary, picked.secondary, picked.accent>>

\* What the site shows or names, photos left out.
OwnColors(inp) ==
  (UNION {DOMAIN inp[s] : s \in {"buttons", "logo", "header", "links", "headings", "borders", "background"}})
  \cup BrandVars(inp) \cup ({inp.footer, inp.theme} \ {"none"})
==============================================================================
