---------------------------- MODULE BrandService ----------------------------
(***************************************************************************)
(* Branding of a page: HttpBrandingService in the API calls brand-service, *)
(* which lets MaxConcurrency requests at a time use its one browser.  Each *)
(* call r has the caller's side, with its timer and its signal, and the    *)
(* server's, which knows nothing of either.  A page may change between two *)
(* readings, run forever, or lose its browser.                             *)
(***************************************************************************)
EXTENDS BrandSignals, BrandColors

CONSTANTS
  Call,
  Page,            \* what the page may look like when it is read, by name
  MaxConcurrency,  \* MAX_CONCURRENCY
  MaxRestarts      \* bound on restarts of the service

ASSUME ServiceAssumption ==
  IsFiniteSet(Call) /\ MaxConcurrency \in Nat \ {0} /\ MaxRestarts \in Nat

\* A page has finitely many parts, whose sizes are numbers.
Sized(page) ==
  /\ {"elements", "surfaces", "overlays", "points", "vars"} \subseteq DOMAIN page
  /\ IsFiniteSet(page.elements) /\ IsFiniteSet(page.surfaces) /\ IsFiniteSet(page.points)
  /\ IsFiniteSet(DOMAIN page.vars)
  /\ \A e \in page.elements : IsFiniteSet(e.ink) /\ \A i \in e.ink : i.weight \in Nat
  /\ \A e \in page.surfaces :
       e.width \in Nat /\ e.height \in Nat /\ e.chars \in Nat /\ IsFiniteSet(e.gradient)

ASSUME PageAssumption == \A name \in DOMAIN Page : Sized(Page[name])

VARIABLES
  caller,     \* what extract() returned, "waiting" until it has
  pc,         \* where the handler is
  alive,      \* the page's browser is up
  first,      \* the look that gave the logo and the icons
  image,      \* the look whose best candidate was captured
  reply,      \* status and error code, or the branding, until it is sent
  active, waiters,      \* withSlot
  browser, launching,   \* getBrowser
  restarts

callVars == <<caller, pc, alive, first, image, reply>>
vars == <<callVars, active, waiters, browser, launching, restarts>>

Awaiting == [status |-> 0]
NoLook == [page |-> "none", bare |-> FALSE]

\* In the page, waiting for the browser, or closing: holding a slot.
Loaded == {"signals", "again", "logo", "rest", "hung"}
Holding == Loaded \cup {"browser", "launch", "load", "close"}

Init ==
  /\ caller = [r \in Call |-> "none"] /\ pc = [r \in Call |-> "idle"]
  /\ alive = [r \in Call |-> FALSE] /\ first = [r \in Call |-> NoLook]
  /\ image = [r \in Call |-> NoLook] /\ reply = [r \in Call |-> Awaiting]
  /\ active = 0 /\ waiters = <<>> /\ restarts = 0
  /\ browser = "none" /\ launching = TRUE

\* A look at the page, after its overlays are hidden where that works.
Seen(look) == IF look.bare THEN HideOverlays(Page[look.page]) ELSE Page[look.page]
Looks == {look \in [page : DOMAIN Page, bare : BOOLEAN] : look.bare => Page[look.page].overlays # {}}

WeakLooks == {look \in Looks : Weak(Best(Seen(look)))}

-----------------------------------------------------------------------------
\* What the caller may make of an answer: a body that does not arrive, or not in
\* full, counts as {}, an empty branding or an error of no known code.
ServiceCodes == {"TIMEOUT", "CONNECTION_FAILED", "HTTP_ERROR", "INVALID_URL"}
Outcomes(answer) ==
  IF answer.status = 200 THEN {"ok", "empty"}
  ELSE {"EXTRACTION_FAILED"} \cup
       (IF answer.code \in ServiceCodes THEN {answer.code} ELSE {})

Goto(r, from, to) == pc[r] = from /\ pc' = [pc EXCEPT ![r] = to]

\* send(): a caller that still waits gets the answer.
Send(r, answer) ==
  /\ reply' = [reply EXCEPT ![r] = Awaiting]
  /\ \E outcome \in Outcomes(answer) :
       caller' = [caller EXCEPT ![r] = IF @ = "waiting" THEN outcome ELSE @]

Extract(r) ==
  /\ caller[r] = "none" /\ caller' = [caller EXCEPT ![r] = "waiting"]
  /\ Goto(r, "idle", "reading")
  /\ UNCHANGED <<alive, first, image, reply, active, waiters, browser, launching, restarts>>

\* The signal of the scrape job, or timeoutMs and 15 s.  Nobody tells the service.
GiveUp(r, why) ==
  /\ caller[r] = "waiting" /\ caller' = [caller EXCEPT ![r] = why]
  /\ UNCHANGED <<pc, alive, first, image, reply, active, waiters, browser, launching, restarts>>
CallerTimeout(r) == GiveUp(r, "TIMEOUT")
CallerAborts(r) == GiveUp(r, "INTERRUPTED")

\* No JSON of at most 16 KB with an http(s) url.
Reject(r, code) ==
  /\ Goto(r, "reading", "done") /\ Send(r, [status |-> 400, code |-> code])
  /\ UNCHANGED <<alive, first, image, active, waiters, browser, launching, restarts>>

-----------------------------------------------------------------------------
TakeSlot(r) ==
  /\ active < MaxConcurrency /\ active' = active + 1
  /\ Goto(r, "reading", "browser")
  /\ UNCHANGED <<caller, alive, first, image, reply, waiters, browser, launching, restarts>>

Queue(r) ==
  /\ active >= MaxConcurrency /\ waiters' = Append(waiters, r)
  /\ Goto(r, "reading", "queued")
  /\ UNCHANGED <<caller, alive, first, image, reply, active, browser, launching, restarts>>

\* getBrowser(): the browser that is up, or the one launch everybody waits for.
HaveBrowser(r) ==
  /\ browser = "up" /\ Goto(r, "browser", "load") /\ alive' = [alive EXCEPT ![r] = TRUE]
  /\ UNCHANGED <<caller, first, image, reply, active, waiters, browser, launching, restarts>>

NeedBrowser(r) ==
  /\ browser # "up" /\ Goto(r, "browser", "launch") /\ launching' = TRUE
  /\ UNCHANGED <<caller, alive, first, image, reply, active, waiters, browser, restarts>>

Launched ==
  /\ launching /\ launching' = FALSE /\ browser' = "up"
  /\ pc' = [r \in Call |-> IF pc[r] = "launch" THEN "load" ELSE pc[r]]
  /\ alive' = [r \in Call |-> alive[r] \/ pc[r] = "launch"]
  /\ UNCHANGED <<caller, first, image, reply, active, waiters, restarts>>

\* The rejection reaches everybody who waits; none of them has a page.
LaunchFails ==
  /\ launching /\ launching' = FALSE
  /\ pc' = [r \in Call |-> IF pc[r] = "launch" THEN "close" ELSE pc[r]]
  /\ reply' = [r \in Call |-> IF pc[r] = "launch"
                              THEN [status |-> 500, code |-> "EXTRACTION_FAILED"] ELSE reply[r]]
  /\ UNCHANGED <<caller, alive, first, image, active, waiters, browser, restarts>>

BrowserDies ==
  /\ browser = "up" /\ browser' = "none" /\ alive' = [r \in Call |-> FALSE]
  /\ UNCHANGED <<caller, pc, first, image, reply, active, waiters, launching, restarts>>

-----------------------------------------------------------------------------
\* extractBrand().  A step that throws closes the context with what it came to.
Fails(r, at, code) ==
  /\ pc[r] \in at /\ Goto(r, pc[r], "close")
  /\ reply' = [reply EXCEPT ![r] = [status |-> 422, code |-> code]]
  /\ UNCHANGED <<caller, alive, first, image, active, waiters, browser, launching, restarts>>

LoadFails(r) ==
  \/ \E code \in {"TIMEOUT", "CONNECTION_FAILED", "HTTP_ERROR"} : Fails(r, {"load"}, code)
  \/ ~alive[r] /\ Fails(r, {"load"}, "EXTRACTION_FAILED")

Loads(r) ==
  /\ alive[r] /\ Goto(r, "load", "signals")
  /\ UNCHANGED <<caller, alive, first, image, reply, active, waiters, browser, launching, restarts>>

\* The logo is read twice when the first look is weak and more than 12 s are left.
Reads(r, from, look, to) ==
  /\ alive[r] /\ Goto(r, from, to) /\ first' = [first EXCEPT ![r] = look]
  /\ UNCHANGED <<caller, alive, image, reply, active, waiters, browser, launching, restarts>>
ReadSignals(r, look) == Reads(r, "signals", look, "logo")
LookAgain(r, look) == Reads(r, "signals", look, "again") /\ look \in WeakLooks
ReadAgain(r, look) == Reads(r, "again", look, "logo")

\* The element that carries the mark of the best candidate, if it can be captured.
Capture(r, captured) ==
  /\ Goto(r, "logo", "rest")
  /\ image' = [image EXCEPT ![r] = IF captured THEN first[r] ELSE NoLook]
  /\ captured => alive[r]
  /\ UNCHANGED <<caller, alive, first, reply, active, waiters, browser, launching, restarts>>

\* Mutant: the logo is taken from the last reading, which is there for the colors.
BrandingLatest(r, look, seen) ==
  [status |-> 200, early |-> look, late |-> look, shot |-> image[r], seen |-> seen]

\* The answer: logo and icons are those of the first reading, most of the colors come
\* from a later one.  What they come to is a function of what was read.
Branding(r, look, seen) ==
  [status |-> 200, early |-> first[r], late |-> look, shot |-> image[r], seen |-> seen]
Captured(shot) ==
  IF shot = NoLook THEN {} ELSE {e \in Seen(shot).elements : e.id = Best(Seen(shot)).id}
LogoIn(answer) ==
  ChooseLogo(Seen(answer.early),
             IF \E e \in Captured(answer.shot) : ~e.heavy THEN Best(Seen(answer.shot)).id ELSE "none")
FaviconIn(answer) == PickFavicon(Seen(answer.early).icons)

\* The ink that was captured counts when its element is the logo.
InputsIn(answer) ==
  LET palette == UNION {e.ink : e \in Captured(answer.shot)}
      ink == IF LogoIn(answer).source \in Kinds THEN palette ELSE {}
  IN  ColorInputs(Seen(answer.early), Seen(answer.late), ink, answer.seen)

Finish(r, look, seen) ==
  /\ alive[r] /\ Goto(r, "rest", "close")
  /\ reply' = [reply EXCEPT ![r] = Branding(r, look, seen)]
  /\ UNCHANGED <<caller, alive, first, image, active, waiters, browser, launching, restarts>>

\* page.evaluate() has no timeout: a page whose script does not end keeps its slot.
Hang(r) ==
  /\ pc[r] \in {"signals", "again", "rest"} /\ alive[r] /\ Goto(r, pc[r], "hung")
  /\ UNCHANGED <<caller, alive, first, image, reply, active, waiters, browser, launching, restarts>>

PageFails(r) ==
  \/ \E code \in {"TIMEOUT", "EXTRACTION_FAILED"} : Fails(r, {"signals", "again", "rest"}, code)
  \/ ~alive[r] /\ Fails(r, {"hung"}, "EXTRACTION_FAILED")

-----------------------------------------------------------------------------
\* Mutant: a freed slot is given back although somebody waits, who is never woken.
ReleaseForgets(r) ==
  /\ pc[r] = "close" /\ pc' = [pc EXCEPT ![r] = "done"] /\ active' = active - 1
  /\ Send(r, reply[r]) /\ alive' = [alive EXCEPT ![r] = FALSE]
  /\ first' = [first EXCEPT ![r] = NoLook] /\ image' = [image EXCEPT ![r] = NoLook]
  /\ UNCHANGED <<waiters, browser, launching, restarts>>

\* Mutant: the slot is passed on and counted again.
ReleaseCountsTwice(r) ==
  /\ pc[r] = "close"
  /\ IF waiters = <<>>
     THEN active' = active - 1 /\ pc' = [pc EXCEPT ![r] = "done"] /\ UNCHANGED waiters
     ELSE /\ waiters' = Tail(waiters) /\ active' = active + 1
          /\ pc' = [pc EXCEPT ![r] = "done", ![Head(waiters)] = "browser"]
  /\ Send(r, reply[r]) /\ alive' = [alive EXCEPT ![r] = FALSE]
  /\ first' = [first EXCEPT ![r] = NoLook] /\ image' = [image EXCEPT ![r] = NoLook]
  /\ UNCHANGED <<browser, launching, restarts>>

\* The context is closed and the slot given back; the first waiter resumes before
\* any other event, so nobody can take the slot in between.  Then the answer is sent.
Release(r) ==
  /\ pc[r] = "close"
  /\ IF waiters = <<>>
     THEN active' = active - 1 /\ pc' = [pc EXCEPT ![r] = "done"] /\ UNCHANGED waiters
     ELSE /\ waiters' = Tail(waiters) /\ UNCHANGED active
          /\ pc' = [pc EXCEPT ![r] = "done", ![Head(waiters)] = "browser"]
  /\ Send(r, reply[r]) /\ alive' = [alive EXCEPT ![r] = FALSE]
  /\ first' = [first EXCEPT ![r] = NoLook] /\ image' = [image EXCEPT ![r] = NoLook]
  /\ UNCHANGED <<browser, launching, restarts>>

\* SIGTERM or a crash, and the restart: every connection breaks.
Restart ==
  /\ restarts < MaxRestarts /\ restarts' = restarts + 1
  /\ pc' = [r \in Call |-> IF pc[r] = "idle" THEN "idle" ELSE "done"]
  /\ caller' = [r \in Call |-> IF caller[r] = "waiting" THEN "ENGINE_UNAVAILABLE" ELSE caller[r]]
  /\ alive' = [r \in Call |-> FALSE] /\ first' = [r \in Call |-> NoLook]
  /\ image' = [r \in Call |-> NoLook]
  /\ active' = 0 /\ waiters' = <<>> /\ browser' = "none" /\ launching' = TRUE
  /\ reply' = [r \in Call |-> Awaiting]

-----------------------------------------------------------------------------
Steps(r) ==
  \/ TakeSlot(r) \/ Queue(r) \/ HaveBrowser(r) \/ NeedBrowser(r)
  \/ \E code \in {"VALIDATION_ERROR", "INVALID_URL"} : Reject(r, code)
  \/ LoadFails(r) \/ Loads(r)
  \/ \E look \in Looks :
       \/ ReadSignals(r, look) \/ LookAgain(r, look) \/ ReadAgain(r, look)
       \/ \E seen \in Evidence : Finish(r, look, seen)
  \/ \E captured \in BOOLEAN : Capture(r, captured)
  \/ PageFails(r) \/ Release(r)
Launches == Launched \/ LaunchFails

Next ==
  \/ \E r \in Call : Extract(r) \/ CallerTimeout(r) \/ CallerAborts(r) \/ Steps(r) \/ Hang(r)
  \/ Launches \/ BrowserDies \/ Restart

Spec == Init /\ [][Next]_vars

\* The service goes on with what it has started; the caller's timer ends its wait.
FairSpec ==
  /\ Spec /\ WF_vars(Launches)
  /\ \A r \in Call : WF_vars(Steps(r)) /\ WF_vars(CallerTimeout(r))

-----------------------------------------------------------------------------
\* A page exists only for a call that holds a slot and has got past the browser;
\* a call that has come to an end without a restart has sent what it came to.
TypeOK ==
  /\ caller \in [Call -> {"none", "waiting", "ok", "empty", "INTERRUPTED", "ENGINE_UNAVAILABLE",
                         "EXTRACTION_FAILED"} \cup ServiceCodes]
  /\ pc \in [Call -> {"idle", "reading", "queued", "done"} \cup Holding]
  /\ alive \in [Call -> BOOLEAN] /\ first \in [Call -> {NoLook} \cup Looks]
  /\ active \in Nat /\ launching \in BOOLEAN /\ browser \in {"none", "up"}
  /\ restarts \in 0..MaxRestarts
  /\ \A r \in Call :
       /\ alive[r] => browser = "up" /\ pc[r] \in Loaded \cup {"load", "close"}
       /\ pc[r] \in {"logo", "again", "rest"} => first[r] \in Looks
       /\ pc[r] = "close" => reply[r].status # 0

\* withSlot is a semaphore: a request passes on its slot whatever became of its
\* page, its browser or its caller, so as many work as hold one, never more than
\* MAX_CONCURRENCY, and nobody is queued while a slot is free.
Queued == {r \in Call : pc[r] = "queued"}
SlotsAreUsed ==
  /\ active = Cardinality({r \in Call : pc[r] \in Holding})
  /\ active <= MaxConcurrency
  /\ {waiters[i] : i \in DOMAIN waiters} = Queued
  /\ Queued # {} => active = MaxConcurrency

\* What the service may answer, and the answers that are right.
Answer == [status : {200}, early : Looks, late : Looks, shot : Looks \cup {NoLook}, seen : Evidence]

WithImageOfChosen ==
  {a \in Answer : LET logo == LogoIn(a)
                      best == Best(Seen(a.early))
                  IN  logo.image # "none" =>
                        best.id = logo.image /\ best.url = logo.url /\ best.kind = logo.source}

WithBrandColors ==
  {a \in Answer : \A inp \in {InputsIn(a)} : \A given \in {Roles(PickColors(inp))} :
     \A i \in 1..3 : given[i] # "none" =>
       /\ \E c \in OwnColors(inp) : Alike(given[i], c)
       /\ \A j \in 1..(i - 1) : DistinctRole(given[i], given[j])}

\* The picture in an answer shows the logo the answer describes, although the page
\* is read up to three times and may look different each time: it was captured of
\* the best candidate of the very reading url, source and confidence come from.
LogoImageIsOfChosen == \A r \in Call : reply[r].status = 200 => reply[r] \in WithImageOfChosen

\* However colors of two readings, a logo's capture and a photo in the screenshot
\* fall into groups, each role is given to a color the site itself uses (or one
\* nobody tells from it), and no two roles to shades of one color.
RolesAreBrandColors == \A r \in Call : reply[r].status = 200 => reply[r] \in WithBrandColors

\* Unless a page's script never ends, every request comes to an end, the queued
\* ones in their turn, whatever the browser does; and its caller gets a branding
\* or an error in any case.
EveryCallSettles ==
  /\ (\A r \in Call : []<>(pc[r] # "hung")) => \A r \in Call : pc[r] = "reading" ~> pc[r] = "done"
  /\ \A r \in Call : caller[r] = "waiting" ~> caller[r] \notin {"none", "waiting"}
==============================================================================
