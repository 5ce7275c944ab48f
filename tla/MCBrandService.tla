---------------------------- MODULE MCBrandService ----------------------------
EXTENDS BrandService
CONSTANTS r1, r2

TwoCalls == {r1, r2}

\* Two greens that nobody tells apart, clay, a photo's red and three neutrals.
Color == {"white", "black", "cream", "green", "moss", "clay", "photo"}
Hsl(h, s, l) == [h |-> h, s |-> s, l |-> l]
MCShade ==
  [c \in Color |->
     CASE c = "white" -> Hsl(0, 0, 1000) [] c = "black" -> Hsl(0, 0, 39) [] c = "cream" -> Hsl(39, 609, 910)
       [] c = "green" -> Hsl(130, 144, 490) [] c = "moss" -> Hsl(129, 162, 459)
       [] c = "clay" -> Hsl(21, 375, 529) [] c = "photo" -> Hsl(5, 512, 482)]
Far(a, b) ==
  CASE a = b -> 0
    [] {a, b} = {"white", "black"} -> 97 [] {a, b} = {"white", "cream"} -> 12 [] {a, b} = {"white", "green"} -> 49
    [] {a, b} = {"white", "moss"} -> 53  [] {a, b} = {"white", "clay"} -> 55  [] {a, b} = {"white", "photo"} -> 78
    [] {a, b} = {"black", "cream"} -> 92 [] {a, b} = {"black", "green"} -> 58 [] {a, b} = {"black", "moss"} -> 56
    [] {a, b} = {"black", "clay"} -> 63  [] {a, b} = {"black", "photo"} -> 70 [] {a, b} = {"cream", "green"} -> 42
    [] {a, b} = {"cream", "moss"} -> 46  [] {a, b} = {"cream", "clay"} -> 45  [] {a, b} = {"cream", "photo"} -> 69
    [] {a, b} = {"green", "moss"} -> 3   [] {a, b} = {"green", "clay"} -> 41  [] {a, b} = {"green", "photo"} -> 68
    [] {a, b} = {"moss", "clay"} -> 42   [] {a, b} = {"moss", "photo"} -> 69  [] {a, b} = {"clay", "photo"} -> 29
MCDelta == [p \in Color \X Color |-> Far(p[1], p[2])]

Element == [id |-> "header", kind |-> "img", url |-> "logo.png", top |-> 20, width |-> 160, height |-> 48,
  visible |-> TRUE, logo |-> "own", header |-> TRUE, home |-> TRUE, site |-> FALSE, named |-> FALSE,
  negative |-> FALSE, footer |-> FALSE, left |-> TRUE, large |-> FALSE, file |-> TRUE, over |-> "none",
  heavy |-> FALSE, ink |-> {[color |-> "green", weight |-> 3], [color |-> "black", weight |-> 1]}]
Banner == [Element EXCEPT !.id = "banner", !.kind = "background", !.url = "sale.png", !.width = 800,
  !.height = 100, !.top = 0, !.negative = TRUE, !.home = FALSE, !.ink = {}, !.heavy = TRUE, !.over = "offer"]
Tab == [url |-> "tab.png", rel |-> {"icon"}, sizes |-> 32, svg |-> FALSE]
Touch == [url |-> "touch.png", rel |-> {"apple-touch"}, sizes |-> 0, svg |-> FALSE]

\* What paints.
Nothing == [is |-> FALSE]
Surface == [id |-> "hero", tag |-> "other", button |-> FALSE, top |-> 120, width |-> 1366, height |-> 600,
  visible |-> TRUE, fixed |-> Nothing, widget |-> Nothing, over |-> "none", fill |-> "cream", gradient |-> {},
  border |-> "none", thick |-> FALSE, ink |-> "black", chars |-> 0]
Strip(color) == [Surface EXCEPT !.id = "band", !.top = 0, !.height = 80, !.fill = color]
Order == [Surface EXCEPT !.id = "order", !.button = TRUE, !.width = 140, !.height = 44,
  !.fill = "green", !.ink = "white", !.chars = 5]
Outline == [Order EXCEPT !.id = "outline", !.fill = "none", !.border = "clay", !.thick = TRUE]
Fade == [Order EXCEPT !.id = "fade", !.fill = "none", !.gradient = {"moss", "clay"}]
Heading == [Surface EXCEPT !.id = "heading", !.tag = "heading", !.fill = "none", !.ink = "clay", !.chars = 20]
Prose == [Surface EXCEPT !.id = "prose", !.tag = "paragraph", !.top = 1000, !.fill = "none", !.chars = 300]
Link == [Surface EXCEPT !.id = "link", !.tag = "link", !.fill = "none", !.ink = "moss", !.chars = 12]
Feed == [Order EXCEPT !.id = "feed", !.fill = "photo", !.widget = [is |-> TRUE, size |-> 10, landmark |-> FALSE]]
Chat == [Order EXCEPT !.id = "chat", !.fill = "photo",
  !.fixed = [is |-> TRUE, top |-> 800, width |-> 200, height |-> 60]]
Offer == [Surface EXCEPT !.id = "offer", !.fill = "photo", !.over = "offer"]

Layer(kind, color, over) == [kind |-> kind, color |-> color, floating |-> FALSE, over |-> over]
Grid(top) ==
  {[at |-> 1, stack |-> top \o <<Layer("media", "photo", "none")>>],
   [at |-> 2, stack |-> top \o <<Layer("clear", "none", "none"), Layer("solid", "cream", "none")>>],
   [at |-> 3, stack |-> top], [at |-> 4, stack |-> <<Layer("behind", "moss", "none")>>],
   [at |-> 5, stack |-> <<[Layer("solid", "black", "none") EXCEPT !.floating = TRUE]>>]}
Var(name, color, default) == [name |-> name, color |-> color, default |-> default]

\* As it should be seen; and before its header is laid out, below an offer and a photo.
Settled == [elements |-> {Element}, icons |-> {Tab, Touch}, jsonLd |-> {"logo.png"},
  size |-> 200, surfaces |-> {Strip("white"), Surface, Order, Outline, Fade, Heading, Prose, Link, Chat, Feed},
  overlays |-> {}, points |-> Grid(<<>>), header |-> "white", footer |-> "black", body |-> "white",
  theme |-> "clay", vars |-> <<>>]
Covered == [Settled EXCEPT !.elements = {[Element EXCEPT !.width = 0], Banner}, !.jsonLd = {},
  !.surfaces = {Surface, Prose, Offer}, !.theme = "none", !.header = "none", !.footer = "none",
  !.vars = <<Var("primary", "photo", TRUE), Var("primary", "moss", FALSE)>>,
  !.overlays = {[id |-> "offer", covers |-> 60, top |-> 100, height |-> 500, size |-> 20, marked |-> TRUE]},
  !.points = Grid(<<Layer("media", "photo", "offer")>>)]
MCPage == [settled |-> Settled, covered |-> Covered]
==============================================================================
