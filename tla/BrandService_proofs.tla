-------------------------- MODULE BrandService_proofs --------------------------
(***************************************************************************)
(* What holds of BrandService for any number of calls, any pages, colors   *)
(* and MAX_CONCURRENCY, and however often the service restarts: withSlot   *)
(* is a semaphore, and nothing else moves the slots; the picture is that   *)
(* of the logo; the roles are colors of the site's own.                    *)
(***************************************************************************)
EXTENDS BrandService, FiniteSetTheorems, WellFoundedInduction, TLAPS

Holders == {r \in Call : pc[r] \in Holding}

\* The queue holds each queued call once.
Line ==
  /\ waiters \in Seq(Call)
  /\ \A i, j \in 1..Len(waiters) : waiters[i] = waiters[j] => i = j
  /\ \A i \in 1..Len(waiters) : pc[waiters[i]] = "queued"
  /\ \A r \in Call : pc[r] = "queued" => \E i \in 1..Len(waiters) : waiters[i] = r

Slots ==
  /\ active = Cardinality(Holders) /\ active \in 0..MaxConcurrency
  /\ waiters # <<>> => active = MaxConcurrency

Places == {"idle", "reading", "queued", "done"} \cup Holding

IInv == pc \in [Call -> Places] /\ Line /\ Slots

LEMMA InitIInv == Init => IInv
<1> SUFFICES ASSUME Init PROVE IInv
  OBVIOUS
<1>1. Holders = {}
  BY DEF Init, Holders, Holding, Loaded
<1>2. Cardinality(Holders) = 0
  BY <1>1, FS_EmptySet
<1> QED BY <1>2, ServiceAssumption DEF Init, IInv, Line, Slots, Places

\* A step that moves calls among the places that hold a slot, or among those that
\* neither hold nor await one.
LEMMA Moves ==
  ASSUME IInv, UNCHANGED <<active, waiters>>, pc' \in [Call -> Places],
         \A r \in Call : /\ pc'[r] \in Holding <=> pc[r] \in Holding
                         /\ pc'[r] = "queued" <=> pc[r] = "queued"
  PROVE  IInv'
<1>1. Holders' = Holders
  BY DEF Holders
<1>2. Line'
  <2>1. \A i \in 1..Len(waiters) : waiters[i] \in Call
    BY DEF IInv, Line
  <2> QED BY <2>1 DEF IInv, Line
<1> QED BY <1>1, <1>2 DEF IInv, Slots

\* The same for one call.
LEMMA Move ==
  ASSUME IInv, UNCHANGED <<active, waiters>>, NEW r \in Call, NEW to \in Places \ {"queued"},
         pc[r] # "queued", to \in Holding <=> pc[r] \in Holding, pc' = [pc EXCEPT ![r] = to]
  PROVE  IInv'
<1>1. pc' \in [Call -> Places]
  BY DEF IInv
<1> QED BY <1>1, Moves DEF IInv

LEMMA FiniteHolders == IsFiniteSet(Holders)
BY ServiceAssumption, FS_Subset DEF Holders

LEMMA TakeSlotIInv == ASSUME IInv, NEW r \in Call, TakeSlot(r) PROVE IInv'
<1>1. Holders' = Holders \cup {r} /\ r \notin Holders
  BY DEF IInv, TakeSlot, Goto, Holders, Holding, Loaded
<1>2. Cardinality(Holders') = active + 1
  BY <1>1, FiniteHolders, FS_AddElement DEF IInv, Slots
<1>3. pc' \in [Call -> Places]
  BY DEF IInv, TakeSlot, Goto, Places, Holding
<1>4. Line' /\ waiters = <<>>
  BY ServiceAssumption DEF IInv, Line, Slots, TakeSlot, Goto
<1> QED BY <1>2, <1>3, <1>4, ServiceAssumption DEF IInv, Slots, TakeSlot

LEMMA QueueIInv == ASSUME IInv, NEW r \in Call, Queue(r) PROVE IInv'
<1>1. Holders' = Holders
  BY DEF IInv, Queue, Goto, Holders, Holding, Loaded
<1>2. pc' \in [Call -> Places]
  BY DEF IInv, Queue, Goto, Places
<1>3. active = MaxConcurrency
  BY ServiceAssumption DEF IInv, Slots, Queue
<1>4. /\ waiters' \in Seq(Call) /\ Len(waiters') = Len(waiters) + 1
      /\ \A i \in 1..Len(waiters) : waiters'[i] = waiters[i]
      /\ waiters'[Len(waiters) + 1] = r /\ Len(waiters) \in Nat
  BY DEF IInv, Line, Queue
<1>5. \A i \in 1..Len(waiters) : waiters[i] # r /\ pc'[waiters[i]] = "queued"
  BY DEF IInv, Line, Queue, Goto
<1>6. \A i \in 1..Len(waiters') : pc'[waiters'[i]] = "queued"
  BY <1>4, <1>5 DEF IInv, Queue, Goto
<1>7. \A i, j \in 1..Len(waiters') : waiters'[i] = waiters'[j] => i = j
  BY <1>4, <1>5 DEF IInv, Line
<1>8. ASSUME NEW b \in Call, pc'[b] = "queued" PROVE \E i \in 1..Len(waiters') : waiters'[i] = b
  <2>1. CASE b = r
    BY <1>4, <2>1
  <2>2. CASE b # r
    BY <1>4, <1>8, <2>2 DEF IInv, Line, Queue, Goto
  <2> QED BY <2>1, <2>2
<1>9. Line'
  BY <1>4, <1>6, <1>7, <1>8 DEF Line
<1> QED BY <1>1, <1>2, <1>3, <1>9, ServiceAssumption DEF IInv, Slots, Queue

\* The slot of the call that ends goes to nobody, or to the first in the line.
LEMMA ReleaseIInv == ASSUME IInv, NEW r \in Call, Release(r) PROVE IInv'
<1>0. pc[r] = "close" /\ r \in Holders
  BY DEF Release, Holders, Holding
<1>1. CASE waiters = <<>>
  <2>1. pc' = [pc EXCEPT ![r] = "done"] /\ active' = active - 1 /\ waiters' = waiters
    BY <1>1 DEF Release
  <2>2. Holders' = Holders \ {r}
    BY <2>1 DEF IInv, Holders, Holding, Loaded
  <2>3. Cardinality(Holders') = active - 1 /\ active - 1 \in Nat
    <3>1. Cardinality(Holders \ {r}) = Cardinality(Holders) - 1 /\ IsFiniteSet(Holders \ {r})
      BY <1>0, FiniteHolders, FS_RemoveElement
    <3>2. Cardinality(Holders \ {r}) \in Nat
      BY <3>1, FS_CardinalityType
    <3> QED BY <2>2, <3>1, <3>2 DEF IInv, Slots
  <2>4. pc' \in [Call -> Places]
    BY <2>1 DEF IInv, Places
  <2>5. Line'
    BY <1>1, <2>1, <1>0 DEF IInv, Line
  <2> QED BY <1>1, <2>1, <2>3, <2>4, <2>5, ServiceAssumption DEF IInv, Slots
<1>2. CASE waiters # <<>>
  <2> DEFINE h == Head(waiters)
  <2>1. pc' = [pc EXCEPT ![r] = "done", ![h] = "browser"] /\ active' = active /\ waiters' = Tail(waiters)
    BY <1>2 DEF Release
  <2>2. /\ h \in Call /\ h = waiters[1] /\ Len(waiters) \in Nat \ {0}
        /\ waiters' \in Seq(Call) /\ Len(waiters') = Len(waiters) - 1
        /\ \A i \in 1..Len(waiters') : waiters'[i] = waiters[i + 1]
    BY <1>2, <2>1 DEF IInv, Line
  <2>3. pc[h] = "queued" /\ h # r /\ h \notin Holders
    BY <1>0, <2>2 DEF IInv, Line, Holders, Holding, Loaded
  <2> HIDE DEF h
  <2>4. Holders' = (Holders \ {r}) \cup {h}
    BY <2>1, <2>2, <2>3 DEF IInv, Holders, Holding, Loaded
  <2>5. Cardinality(Holders') = Cardinality(Holders)
    <3>1. Cardinality(Holders \ {r}) = Cardinality(Holders) - 1 /\ IsFiniteSet(Holders \ {r})
      BY <1>0, FiniteHolders, FS_RemoveElement
    <3>2. Cardinality((Holders \ {r}) \cup {h}) = Cardinality(Holders \ {r}) + 1
      BY <2>3, <3>1, FS_AddElement
    <3> QED BY <2>4, <3>1, <3>2, FiniteHolders, FS_CardinalityType
  <2>6. pc' \in [Call -> Places]
    BY <2>1, <2>2 DEF IInv, Places, Holding
  <2>7. \A i \in 1..Len(waiters') : i + 1 \in 1..Len(waiters) /\ waiters'[i] # h
    BY <2>2 DEF IInv, Line
  <2>8. \A b \in Call \ {r, h} : pc'[b] = pc[b]
    BY <2>1 DEF IInv
  <2>9. pc'[r] = "done" /\ pc'[h] = "browser"
    BY <2>1, <2>2, <2>3 DEF IInv
  <2>10. \A i \in 1..Len(waiters') : pc'[waiters'[i]] = "queued"
    <3>1. ASSUME NEW i \in 1..Len(waiters') PROVE pc'[waiters'[i]] = "queued"
      <4>1. waiters'[i] = waiters[i + 1] /\ i + 1 \in 1..Len(waiters) /\ waiters'[i] # h
        BY <2>2, <2>7
      <4>2. waiters[i + 1] \in Call /\ pc[waiters[i + 1]] = "queued"
        BY <4>1 DEF IInv, Line
      <4> QED BY <1>0, <2>8, <4>1, <4>2
    <3> QED BY <3>1
  <2>11. \A i, j \in 1..Len(waiters') : waiters'[i] = waiters'[j] => i = j
    <3>1. ASSUME NEW i \in 1..Len(waiters'), NEW j \in 1..Len(waiters'), waiters'[i] = waiters'[j]
          PROVE  i = j
      <4>1. waiters[i + 1] = waiters[j + 1] /\ i + 1 \in 1..Len(waiters) /\ j + 1 \in 1..Len(waiters)
        BY <2>2, <2>7, <3>1
      <4>2. i + 1 = j + 1
        BY <4>1 DEF IInv, Line
      <4> QED BY <4>2
    <3> QED BY <3>1
  <2>12. ASSUME NEW b \in Call, pc'[b] = "queued" PROVE \E i \in 1..Len(waiters') : waiters'[i] = b
    <3>1. b # r /\ b # h /\ pc[b] = "queued"
      BY <2>8, <2>9, <2>12
    <3>2. PICK i \in 1..Len(waiters) : waiters[i] = b
      BY <3>1 DEF IInv, Line
    <3>3. i # 1 /\ i - 1 \in 1..Len(waiters')
      BY <2>2, <3>1, <3>2
    <3>4. waiters'[i - 1] = waiters[(i - 1) + 1] /\ (i - 1) + 1 = i
      BY <2>2, <3>3
    <3> QED BY <3>2, <3>3, <3>4
  <2>13. Line'
    BY <2>2, <2>10, <2>11, <2>12 DEF Line
  <2> QED BY <1>2, <2>1, <2>5, <2>6, <2>13 DEF IInv, Slots
<1> QED BY <1>1, <1>2

LEMMA RestartIInv == ASSUME IInv, Restart PROVE IInv'
<1>1. Holders' = {}
  BY DEF Restart, Holders, Holding, Loaded
<1>2. Cardinality(Holders') = 0
  BY <1>1, FS_EmptySet
<1> QED BY <1>2, ServiceAssumption DEF Restart, IInv, Line, Slots, Places

\* Everything a call does between taking its slot and giving it back.
LEMMA WorksIInv ==
  ASSUME IInv, NEW r \in Call,
         \/ HaveBrowser(r) \/ NeedBrowser(r) \/ LoadFails(r) \/ Loads(r) \/ PageFails(r) \/ Hang(r)
         \/ \E look \in Looks : \/ ReadSignals(r, look) \/ LookAgain(r, look) \/ ReadAgain(r, look)
                                \/ \E seen \in Evidence : Finish(r, look, seen)
         \/ \E captured \in BOOLEAN : Capture(r, captured)
  PROVE  IInv'
<1>1. PICK to \in Holding : pc[r] \in Holding /\ pc' = [pc EXCEPT ![r] = to] /\ UNCHANGED <<active, waiters>>
  <2>1. CASE HaveBrowser(r) \/ NeedBrowser(r) \/ Loads(r)
    BY <2>1 DEF HaveBrowser, NeedBrowser, Loads, Goto, Holding, Loaded
  <2>2. CASE LoadFails(r) \/ PageFails(r)
    BY <2>2 DEF LoadFails, PageFails, Fails, Goto, Holding, Loaded
  <2>3. CASE Hang(r)
    BY <2>3 DEF Hang, Goto, Holding, Loaded
  <2>4. ASSUME NEW look \in Looks, ReadSignals(r, look) \/ LookAgain(r, look) \/ ReadAgain(r, look)
        PROVE  \E to \in Holding : /\ pc[r] \in Holding /\ pc' = [pc EXCEPT ![r] = to]
                                  /\ UNCHANGED <<active, waiters>>
    BY <2>4 DEF ReadSignals, LookAgain, ReadAgain, Reads, Goto, Holding, Loaded
  <2>5. ASSUME NEW look \in Looks, NEW seen \in Evidence, Finish(r, look, seen)
        PROVE  \E to \in Holding : /\ pc[r] \in Holding /\ pc' = [pc EXCEPT ![r] = to]
                                  /\ UNCHANGED <<active, waiters>>
    BY <2>5 DEF Finish, Goto, Holding, Loaded
  <2>6. ASSUME NEW captured \in BOOLEAN, Capture(r, captured)
        PROVE  \E to \in Holding : /\ pc[r] \in Holding /\ pc' = [pc EXCEPT ![r] = to]
                                  /\ UNCHANGED <<active, waiters>>
    BY <2>6 DEF Capture, Goto, Holding, Loaded
  <2> QED BY <2>1, <2>2, <2>3, <2>4, <2>5, <2>6
<1>2. "queued" \notin Holding
  BY DEF Holding, Loaded
<1> QED BY <1>1, <1>2, Move DEF Places

LEMMA NextIInv == IInv /\ [Next]_vars => IInv'
<1> SUFFICES ASSUME IInv, [Next]_vars PROVE IInv'
  OBVIOUS
<1>1. ASSUME NEW r \in Call, Extract(r) \/ CallerTimeout(r) \/ CallerAborts(r) \/ Steps(r) \/ Hang(r)
      PROVE  IInv'
  <2>1. CASE Extract(r)
    BY <2>1, Move DEF Extract, Goto, Places, Holding, Loaded
  <2>2. CASE CallerTimeout(r) \/ CallerAborts(r)
    BY <2>2, Moves DEF CallerTimeout, CallerAborts, GiveUp, IInv
  <2>3. CASE TakeSlot(r) \/ Queue(r) \/ Release(r)
    BY <2>3, TakeSlotIInv, QueueIInv, ReleaseIInv
  <2>4. ASSUME NEW code \in {"VALIDATION_ERROR", "INVALID_URL"}, Reject(r, code) PROVE IInv'
    BY <2>4, Move DEF Reject, Goto, Places, Holding, Loaded
  <2> QED BY <1>1, <2>1, <2>2, <2>3, <2>4, WorksIInv DEF Steps
<1>2. CASE Launches
  <2>1. /\ UNCHANGED <<active, waiters>>
        /\ \E to \in {"load", "close"} : pc' = [r \in Call |-> IF pc[r] = "launch" THEN to ELSE pc[r]]
    BY <1>2 DEF Launches, Launched, LaunchFails
  <2> QED BY <2>1, Moves DEF IInv, Places, Holding, Loaded
<1>3. CASE BrowserDies \/ UNCHANGED vars
  BY <1>3, Moves DEF BrowserDies, vars, callVars, IInv
<1> QED BY <1>1, <1>2, <1>3, RestartIInv DEF Next

THEOREM Invariant == Spec => []IInv
BY InitIInv, NextIInv, PTL DEF Spec

\* withSlot gives MAX_CONCURRENCY slots to the requests in their order, for any
\* number of them: none is lost, none is given twice, and none is free while
\* somebody waits.
THEOREM SlotsInUse == Spec => []SlotsAreUsed
<1>1. IInv => SlotsAreUsed
  <2> SUFFICES ASSUME IInv PROVE SlotsAreUsed
    OBVIOUS
  <2>1. DOMAIN waiters = 1..Len(waiters) /\ Len(waiters) \in Nat
    BY DEF IInv, Line
  <2>2. {waiters[i] : i \in DOMAIN waiters} = Queued
    BY <2>1 DEF IInv, Line, Queued
  <2>3. Queued # {} => waiters # <<>>
    BY <2>1 DEF IInv, Line, Queued
  <2> QED BY <2>2, <2>3, ServiceAssumption DEF IInv, Slots, SlotsAreUsed, Holders
<1> QED BY Invariant, <1>1, PTL

-----------------------------------------------------------------------------
(* The types.  Those of the counters and of the queue are above.           *)

Typed == TypeOK /\ DOMAIN reply = Call /\ reply = [r \in Call |-> reply[r]]

LEMMA InitTyped == Init => Typed
BY ServiceAssumption DEF Init, Typed, TypeOK, Holding, Loaded

\* A caller that still waits learns what its answer comes to.
LEMMA SendTyped ==
  ASSUME NEW r \in Call, NEW answer, Send(r, answer), Typed
  PROVE  /\ reply' = [reply EXCEPT ![r] = Awaiting]
         /\ caller' \in [Call -> {"none", "waiting", "ok", "empty", "INTERRUPTED", "ENGINE_UNAVAILABLE",
                                 "EXTRACTION_FAILED"} \cup ServiceCodes]
<1>1. Outcomes(answer) \subseteq {"ok", "empty", "EXTRACTION_FAILED"} \cup ServiceCodes
  BY DEF Outcomes
<1> QED BY <1>1 DEF Send, Typed, TypeOK

\* What is not in the page, and what only moves on.
LEMMA OutsideTyped ==
  ASSUME Typed, NEW r \in Call,
         \/ Extract(r) \/ CallerTimeout(r) \/ CallerAborts(r) \/ HaveBrowser(r) \/ NeedBrowser(r)
         \/ Loads(r) \/ Hang(r)
  PROVE  Typed'
<1> USE DEF Typed, TypeOK, Goto
<1>1. CASE Extract(r)
  BY <1>1 DEF Extract, Loaded, Holding
<1>2. CASE CallerTimeout(r) \/ CallerAborts(r)
  BY <1>2 DEF CallerTimeout, CallerAborts, GiveUp, ServiceCodes
<1>3. CASE HaveBrowser(r)
  BY <1>3 DEF HaveBrowser, Loaded, Holding
<1>4. CASE NeedBrowser(r)
  BY <1>4 DEF NeedBrowser, Loaded, Holding
<1>5. CASE Loads(r)
  BY <1>5 DEF Loads, Loaded, Holding
<1>6. CASE Hang(r)
  BY <1>6 DEF Hang, Loaded, Holding
<1> QED BY <1>1, <1>2, <1>3, <1>4, <1>5, <1>6

LEMMA FailsTyped ==
  ASSUME Typed, NEW r \in Call, NEW at \in SUBSET (Loaded \cup {"load"}), NEW code, Fails(r, at, code)
  PROVE  Typed'
<1>1. /\ pc' = [pc EXCEPT ![r] = "close"]
      /\ reply' = [reply EXCEPT ![r] = [status |-> 422, code |-> code]]
      /\ UNCHANGED <<caller, alive, first, active, browser, launching, restarts>>
      /\ pc[r] \in Loaded \cup {"load"}
  BY DEF Fails, Goto
<1> QED BY <1>1 DEF Typed, TypeOK, Loaded, Holding

LEMMA PageTyped ==
  ASSUME Typed, NEW r \in Call,
         \/ \E look \in Looks : \/ ReadSignals(r, look) \/ LookAgain(r, look) \/ ReadAgain(r, look)
                                \/ \E seen \in Evidence : Finish(r, look, seen)
         \/ \E captured \in BOOLEAN : Capture(r, captured)
  PROVE  Typed'
<1> USE DEF Typed, TypeOK, Goto
<1>1. ASSUME NEW look \in Looks, ReadSignals(r, look) \/ LookAgain(r, look) \/ ReadAgain(r, look)
      PROVE  Typed'
  <2>1. PICK to \in {"logo", "again"} :
          /\ pc[r] \in Loaded /\ pc' = [pc EXCEPT ![r] = to] /\ first' = [first EXCEPT ![r] = look]
          /\ UNCHANGED <<caller, alive, reply, active, browser, launching, restarts>>
    BY <1>1 DEF ReadSignals, LookAgain, ReadAgain, Reads, Loaded
  <2> QED BY <2>1 DEF Loaded, Holding
<1>2. ASSUME NEW look \in Looks, NEW seen \in Evidence, Finish(r, look, seen) PROVE Typed'
  <2>1. PICK branding :
          /\ branding.status = 200 /\ pc[r] = "rest" /\ pc' = [pc EXCEPT ![r] = "close"]
          /\ reply' = [reply EXCEPT ![r] = branding]
          /\ UNCHANGED <<caller, alive, first, active, browser, launching, restarts>>
    BY <1>2 DEF Finish, Branding
  <2> QED BY <2>1 DEF Loaded, Holding
<1>3. ASSUME NEW captured \in BOOLEAN, Capture(r, captured) PROVE Typed'
  BY <1>3 DEF Capture, Loaded, Holding
<1> QED BY <1>1, <1>2, <1>3

LEMMA ReleaseMoves ==
  ASSUME IInv, NEW r \in Call, Release(r)
  PROVE  /\ pc'[r] = "done"
         /\ \A b \in Call \ {r} : pc'[b] = pc[b] \/ (pc[b] = "queued" /\ pc'[b] = "browser")
<1>1. pc \in [Call -> Places]
  BY DEF IInv
<1>2. CASE waiters = <<>>
  <2>1. pc' = [pc EXCEPT ![r] = "done"]
    BY <1>2 DEF Release
  <2> QED BY <1>1, <2>1
<1>3. CASE waiters # <<>>
  <2> DEFINE h == Head(waiters)
  <2>1. pc' = [pc EXCEPT ![r] = "done", ![h] = "browser"] /\ pc[r] = "close"
    BY <1>3 DEF Release
  <2>2. h \in Call /\ pc[h] = "queued"
    <3>1. h = waiters[1] /\ 1 \in 1..Len(waiters) /\ h \in Call
      BY <1>3 DEF IInv, Line
    <3> QED BY <3>1 DEF IInv, Line
  <2> HIDE DEF h
  <2> QED BY <1>1, <2>1, <2>2
<1> QED BY <1>2, <1>3

\* What takes or gives a slot, starts or ends the browser, or ends the service.
LEMMA ServiceTyped ==
  ASSUME Typed, IInv, IInv',
         \/ \E r \in Call : \/ TakeSlot(r) \/ Queue(r) \/ Release(r)
                            \/ \E code \in {"VALIDATION_ERROR", "INVALID_URL"} : Reject(r, code)
         \/ Launched \/ LaunchFails \/ BrowserDies \/ Restart
  PROVE  Typed'
<1> USE DEF Typed, TypeOK, Goto
<1>0. active' \in Nat /\ pc' \in [Call -> {"idle", "reading", "queued", "done"} \cup Holding]
  BY ServiceAssumption DEF IInv, Slots, Places
<1>1. ASSUME NEW r \in Call, TakeSlot(r) PROVE Typed'
  BY <1>0, <1>1 DEF TakeSlot, Loaded, Holding
<1>2. ASSUME NEW r \in Call, Queue(r) PROVE Typed'
  BY <1>0, <1>2 DEF Queue, Loaded, Holding
<1>3. ASSUME NEW r \in Call, NEW code \in {"VALIDATION_ERROR", "INVALID_URL"}, Reject(r, code) PROVE Typed'
  <2>1. /\ pc' = [pc EXCEPT ![r] = "done"] /\ reply' = [reply EXCEPT ![r] = Awaiting]
        /\ caller' \in [Call -> {"none", "waiting", "ok", "empty", "INTERRUPTED", "ENGINE_UNAVAILABLE",
                                "EXTRACTION_FAILED"} \cup ServiceCodes]
        /\ UNCHANGED <<alive, first, active, browser, launching, restarts>>
        /\ pc[r] = "reading"
    BY <1>3, SendTyped DEF Reject
  <2> QED BY <1>0, <2>1 DEF Loaded, Holding
<1>4. ASSUME NEW r \in Call, Release(r) PROVE Typed'
  <2>1. /\ reply' = [reply EXCEPT ![r] = Awaiting] /\ alive' = [alive EXCEPT ![r] = FALSE]
        /\ first' = [first EXCEPT ![r] = NoLook] /\ UNCHANGED <<browser, launching, restarts>>
        /\ caller' \in [Call -> {"none", "waiting", "ok", "empty", "INTERRUPTED", "ENGINE_UNAVAILABLE",
                                "EXTRACTION_FAILED"} \cup ServiceCodes]
    BY <1>4, SendTyped DEF Release
  <2>2. /\ pc'[r] = "done"
        /\ \A b \in Call \ {r} : pc'[b] = pc[b] \/ (pc[b] = "queued" /\ pc'[b] = "browser")
    BY <1>4, ReleaseMoves
  <2>3. \A b \in Call \ {r} : alive'[b] = alive[b] /\ first'[b] = first[b] /\ reply'[b] = reply[b]
    BY <2>1
  <2>4. alive'[r] = FALSE /\ alive' \in [Call -> BOOLEAN] /\ first' \in [Call -> {NoLook} \cup Looks]
    BY <2>1
  <2>5. ASSUME NEW b \in Call
        PROVE  /\ alive'[b] => browser' = "up" /\ pc'[b] \in Loaded \cup {"load", "close"}
               /\ pc'[b] \in {"logo", "again", "rest"} => first'[b] \in Looks
               /\ pc'[b] = "close" => reply'[b].status # 0
    BY <2>1, <2>2, <2>3, <2>4 DEF Loaded
  <2> QED BY <1>0, <2>1, <2>4, <2>5
<1>5. CASE Launched
  BY <1>0, <1>5 DEF Launched, Loaded, Holding
<1>6. CASE LaunchFails
  <2> DEFINE failed == [status |-> 500, code |-> "EXTRACTION_FAILED"]
  <2>1. /\ pc' = [r \in Call |-> IF pc[r] = "launch" THEN "close" ELSE pc[r]]
        /\ reply' = [r \in Call |-> IF pc[r] = "launch" THEN failed ELSE reply[r]]
        /\ UNCHANGED <<caller, alive, first, browser, restarts>> /\ launching' = FALSE
    BY <1>6 DEF LaunchFails
  <2>2. failed.status # 0
    OBVIOUS
  <2> HIDE DEF failed
  <2>3. DOMAIN reply' = Call /\ reply' = [r \in Call |-> reply'[r]]
    BY <2>1
  <2>4. \A r \in Call : pc'[r] = "close" => reply'[r].status # 0
    BY <2>1, <2>2
  <2>5. ASSUME NEW r \in Call
        PROVE  /\ alive'[r] => browser' = "up" /\ pc'[r] \in Loaded \cup {"load", "close"}
               /\ pc'[r] \in {"logo", "again", "rest"} => first'[r] \in Looks
    <3>1. pc'[r] = pc[r] \/ pc'[r] = "close"
      BY <2>1
    <3> QED BY <2>1, <3>1
  <2>6. /\ caller' = caller /\ alive' = alive /\ first' = first /\ browser' = browser /\ restarts' = restarts
        /\ launching' \in BOOLEAN
    BY <2>1
  <2> QED BY SMTT(30), <1>0, <2>3, <2>4, <2>5, <2>6
<1>7. CASE BrowserDies
  BY <1>0, <1>7 DEF BrowserDies, Loaded, Holding
<1>8. CASE Restart
  BY <1>0, <1>8, ServiceAssumption DEF Restart, Loaded, Holding, ServiceCodes
<1> QED BY <1>1, <1>2, <1>3, <1>4, <1>5, <1>6, <1>7, <1>8

LEMMA NextTyped == Typed /\ IInv /\ IInv' /\ [Next]_vars => Typed'
<1> SUFFICES ASSUME Typed, IInv, IInv', [Next]_vars PROVE Typed'
  OBVIOUS
<1>1. ASSUME NEW r \in Call, LoadFails(r) \/ PageFails(r) PROVE Typed'
  <2>1. {"load"} \in SUBSET (Loaded \cup {"load"}) /\ {"hung"} \in SUBSET (Loaded \cup {"load"})
        /\ {"signals", "again", "rest"} \in SUBSET (Loaded \cup {"load"})
    BY DEF Loaded
  <2>2. \A at \in SUBSET (Loaded \cup {"load"}) : \A code : Fails(r, at, code) => Typed'
    BY FailsTyped
  <2>3. CASE LoadFails(r)
    BY <2>1, <2>2, <2>3, Zenon DEF LoadFails
  <2>4. CASE PageFails(r)
    BY <2>1, <2>2, <2>4, Zenon DEF PageFails
  <2> QED BY <1>1, <2>3, <2>4
<1>2. ASSUME NEW r \in Call, Steps(r) PROVE Typed'
  <2>1. CASE HaveBrowser(r) \/ NeedBrowser(r) \/ Loads(r)
    BY <2>1, OutsideTyped
  <2>2. CASE \/ TakeSlot(r) \/ Queue(r) \/ Release(r)
             \/ \E code \in {"VALIDATION_ERROR", "INVALID_URL"} : Reject(r, code)
    BY <2>2, ServiceTyped, Zenon
  <2>3. CASE \/ \E look \in Looks : \/ ReadSignals(r, look) \/ LookAgain(r, look) \/ ReadAgain(r, look)
                                    \/ \E seen \in Evidence : Finish(r, look, seen)
             \/ \E captured \in BOOLEAN : Capture(r, captured)
    BY <2>3, PageTyped, Zenon
  <2> QED BY <1>1, <1>2, <2>1, <2>2, <2>3, Zenon DEF Steps
<1>3. ASSUME NEW r \in Call, Extract(r) \/ CallerTimeout(r) \/ CallerAborts(r) \/ Hang(r) PROVE Typed'
  BY <1>3, OutsideTyped
<1>4. CASE Launches \/ BrowserDies \/ Restart
  BY <1>4, ServiceTyped, Zenon DEF Launches
<1>5. CASE UNCHANGED vars
  BY <1>5 DEF vars, callVars, Typed, TypeOK
<1> QED BY <1>2, <1>3, <1>4, <1>5, Zenon DEF Next

\* A page exists only for a call that holds a slot and has got past the browser,
\* and a call that closes has something to answer.
THEOREM TypeCorrect == Spec => []TypeOK
<1>1. Typed => TypeOK
  BY DEF Typed
<1> QED BY Invariant, InitTyped, NextTyped, <1>1, PTL DEF Spec
-----------------------------------------------------------------------------
(* The picture in the answer.                                              *)

\* A picture is taken of the reading that gives the logo, and no reading follows it.
Shown(answer) == answer \in Answer /\ answer.shot \in {NoLook, answer.early}

Pictured ==
  /\ image \in [Call -> {NoLook} \cup Looks]
  /\ \A r \in Call : /\ pc[r] = "rest" => image[r] \in {NoLook, first[r]}
                     /\ reply[r].status = 200 => Shown(reply[r])

LEMMA InitPictured == Init => Pictured
BY DEF Init, Pictured, Awaiting

\* A step that reads nothing, takes no picture and writes no branding.
LEMMA StillPictured ==
  ASSUME Pictured, UNCHANGED <<first, image>>,
         \A r \in Call : /\ pc'[r] = "rest" => pc[r] = "rest"
                         /\ reply'[r] = reply[r] \/ reply'[r].status # 200
  PROVE  Pictured'
BY DEF Pictured

LEMMA PagePictured ==
  ASSUME Pictured, Typed, NEW r \in Call,
         \/ \E look \in Looks : \/ ReadSignals(r, look) \/ LookAgain(r, look) \/ ReadAgain(r, look)
                                \/ \E seen \in Evidence : Finish(r, look, seen)
         \/ \E captured \in BOOLEAN : Capture(r, captured)
  PROVE  Pictured'
<1> USE DEF Typed, TypeOK, Goto
<1>1. ASSUME NEW look \in Looks, ReadSignals(r, look) \/ LookAgain(r, look) \/ ReadAgain(r, look)
      PROVE  Pictured'
  <2>1. PICK to \in {"logo", "again"} :
          /\ pc' = [pc EXCEPT ![r] = to] /\ first' = [first EXCEPT ![r] = look]
          /\ UNCHANGED <<image, reply>>
    BY <1>1 DEF ReadSignals, LookAgain, ReadAgain, Reads
  <2> QED BY <2>1 DEF Pictured
<1>2. ASSUME NEW look \in Looks, NEW seen \in Evidence, Finish(r, look, seen) PROVE Pictured'
  <2>1. /\ pc[r] = "rest" /\ pc' = [pc EXCEPT ![r] = "close"]
        /\ reply' = [reply EXCEPT ![r] = Branding(r, look, seen)] /\ UNCHANGED <<first, image>>
    BY <1>2 DEF Finish
  <2>2. first[r] \in Looks /\ image[r] \in {NoLook, first[r]}
    BY <2>1 DEF Pictured
  <2>3. Shown(Branding(r, look, seen))
    BY <2>2 DEF Shown, Answer, Branding
  <2> HIDE DEF Typed, TypeOK
  <2>4. reply'[r] = Branding(r, look, seen) /\ \A b \in Call \ {r} : reply'[b] = reply[b]
    BY <2>1 DEF Typed
  <2>5. \A b \in Call : pc'[b] = "rest" => pc[b] = "rest"
    BY <2>1 DEF Typed, TypeOK
  <2> QED BY <2>1, <2>3, <2>4, <2>5 DEF Pictured
<1>3. ASSUME NEW captured \in BOOLEAN, Capture(r, captured) PROVE Pictured'
  <2>1. /\ pc[r] = "logo" /\ pc' = [pc EXCEPT ![r] = "rest"] /\ UNCHANGED <<first, reply>>
        /\ image' = [image EXCEPT ![r] = IF captured THEN first[r] ELSE NoLook]
    BY <1>3 DEF Capture
  <2>2. first[r] \in Looks /\ \A b \in Call \ {r} : pc'[b] = pc[b] /\ image'[b] = image[b]
    BY <2>1 DEF Pictured
  <2>3. image'[r] \in {NoLook, first[r]} /\ image' \in [Call -> {NoLook} \cup Looks]
    BY <2>1, <2>2 DEF Pictured
  <2> QED BY <2>1, <2>2, <2>3 DEF Pictured
<1> QED BY <1>1, <1>2, <1>3

LEMMA ServicePictured ==
  ASSUME Pictured, Typed, IInv,
         \/ \E r \in Call : \/ Release(r) \/ LoadFails(r) \/ PageFails(r)
                            \/ \E code \in {"VALIDATION_ERROR", "INVALID_URL"} : Reject(r, code)
         \/ Launched \/ LaunchFails \/ Restart
  PROVE  Pictured'
<1>0. pc \in [Call -> Places] /\ DOMAIN reply = Call
  BY DEF IInv, Typed
<1>1. ASSUME NEW r \in Call, Release(r) PROVE Pictured'
  <2>1. /\ first' = [first EXCEPT ![r] = NoLook] /\ image' = [image EXCEPT ![r] = NoLook]
        /\ reply' = [reply EXCEPT ![r] = Awaiting]
    BY <1>1 DEF Release, Send
  <2>2. pc'[r] = "done" /\ \A b \in Call \ {r} : pc'[b] = pc[b] \/ pc'[b] = "browser"
    BY <1>1, ReleaseMoves
  <2>3. \A b \in Call \ {r} : first'[b] = first[b] /\ image'[b] = image[b] /\ reply'[b] = reply[b]
    BY <1>0, <2>1 DEF Pictured, Typed, TypeOK
  <2>4. reply'[r].status # 200 /\ image' \in [Call -> {NoLook} \cup Looks]
    BY <1>0, <2>1 DEF Awaiting, Pictured
  <2> QED BY <2>2, <2>3, <2>4 DEF Pictured
<1>2. ASSUME NEW r \in Call, LoadFails(r) \/ PageFails(r) PROVE Pictured'
  <2>1. PICK code : /\ UNCHANGED <<first, image>> /\ pc' = [pc EXCEPT ![r] = "close"]
                    /\ reply' = [reply EXCEPT ![r] = [status |-> 422, code |-> code]]
    <3>1. \E at, code : Fails(r, at, code)
      BY <1>2, Zenon DEF LoadFails, PageFails
    <3>2. PICK at, code : Fails(r, at, code)
      BY <3>1, Zenon
    <3> QED BY <3>2, Zenon DEF Fails, Goto
  <2> QED BY <1>0, <2>1, StillPictured
<1>3. ASSUME NEW r \in Call, NEW code \in {"VALIDATION_ERROR", "INVALID_URL"}, Reject(r, code) PROVE Pictured'
  BY <1>0, <1>3, StillPictured DEF Reject, Send, Goto, Awaiting
<1>4. CASE Launched
  BY <1>0, <1>4, StillPictured DEF Launched
<1>5. CASE LaunchFails
  BY <1>0, <1>5, StillPictured DEF LaunchFails
<1>6. CASE Restart
  BY <1>6 DEF Restart, Pictured, Awaiting
<1> QED BY <1>1, <1>2, <1>3, <1>4, <1>5, <1>6

LEMMA NextPictured == Pictured /\ Typed /\ IInv /\ [Next]_vars => Pictured'
<1> SUFFICES ASSUME Pictured, Typed, IInv, [Next]_vars PROVE Pictured'
  OBVIOUS
<1>0. pc \in [Call -> Places]
  BY DEF IInv
<1>1. ASSUME NEW r \in Call,
             \/ Extract(r) \/ CallerTimeout(r) \/ CallerAborts(r) \/ TakeSlot(r) \/ Queue(r)
             \/ HaveBrowser(r) \/ NeedBrowser(r) \/ Loads(r) \/ Hang(r)
      PROVE  Pictured'
  <2>1. /\ UNCHANGED <<first, image, reply>>
        /\ pc' = pc \/ \E to \in Places \ {"rest"} : pc' = [pc EXCEPT ![r] = to]
    BY <1>1 DEF Extract, CallerTimeout, CallerAborts, GiveUp, TakeSlot, Queue, HaveBrowser, NeedBrowser,
                Loads, Hang, Goto, Places, Holding, Loaded
  <2> QED BY <1>0, <2>1, StillPictured
<1>2. ASSUME NEW r \in Call, Steps(r) PROVE Pictured'
  <2>1. CASE \/ Release(r) \/ LoadFails(r) \/ PageFails(r)
             \/ \E code \in {"VALIDATION_ERROR", "INVALID_URL"} : Reject(r, code)
    BY <2>1, ServicePictured, Zenon
  <2>2. CASE \/ \E look \in Looks : \/ ReadSignals(r, look) \/ LookAgain(r, look) \/ ReadAgain(r, look)
                                    \/ \E seen \in Evidence : Finish(r, look, seen)
             \/ \E captured \in BOOLEAN : Capture(r, captured)
    BY <2>2, PagePictured, Zenon
  <2> QED BY <1>1, <1>2, <2>1, <2>2, Zenon DEF Steps
<1>3. CASE Launches \/ Restart
  BY <1>3, ServicePictured, Zenon DEF Launches
<1>4. CASE BrowserDies \/ UNCHANGED vars
  BY <1>4, StillPictured DEF BrowserDies, vars, callVars
<1> QED BY <1>1, <1>2, <1>3, <1>4, Zenon DEF Next

\* A branding with a picture, whatever was read: the picture is that of the logo,
\* for only the best candidate brings one into ChooseLogo's answer.
LEMMA ShownIsChosen == ASSUME NEW a, Shown(a) PROVE a \in WithImageOfChosen
<1> DEFINE logo == LogoIn(a)
           best == Best(Seen(a.early))
           shot == IF \E e \in Captured(a.shot) : ~e.heavy THEN Best(Seen(a.shot)).id ELSE "none"
<1>1. shot # "none" => shot = best.id
  <2>1. CASE a.shot = NoLook
    BY <2>1 DEF Captured
  <2>2. CASE a.shot = a.early
    BY <2>2
  <2> QED BY <2>1, <2>2 DEF Shown
<1>2. logo = ChooseLogo(Seen(a.early), shot)
  BY DEF LogoIn
<1> HIDE DEF shot, logo
<1>3. logo.image # "none" => logo.image = shot /\ logo.url = best.url /\ logo.source = best.kind
  <2>1. \A l : l \in [url : {l.url}, source : {l.source}, image : {l.image}, confidence : {l.confidence}] =>
          LET d == Agreed(l, Seen(a.early))
          IN  d.url = l.url /\ d.source = l.source /\ d.image = l.image
    BY DEF Agreed
  <2> QED BY <1>2, <2>1 DEF ChooseLogo, Logo, NoLogo
<1> QED BY <1>1, <1>3 DEF Shown, WithImageOfChosen, logo

\* However a page changes between its readings, whichever steps fail and whoever has
\* given up: the picture is of the element that url, source and confidence describe.
THEOREM PictureIsOfLogo == Spec => []LogoImageIsOfChosen
<1>1. Spec => []Typed
  BY Invariant, InitTyped, NextTyped, PTL DEF Spec
<1>2. Spec => []Pictured
  BY Invariant, <1>1, InitPictured, NextPictured, PTL DEF Spec
<1>3. Pictured => LogoImageIsOfChosen
  BY ShownIsChosen DEF Pictured, LogoImageIsOfChosen
<1> QED BY <1>2, <1>3, PTL

-----------------------------------------------------------------------------
\* Folds over sets and sequences of any length.
LessThan == {p \in Nat \X Nat : p[1] < p[2]}

\* What stands in for induction over numbers.
LEMMA LeastNumber == \A T \in SUBSET Nat : T # {} => \E x \in T : \A y \in T : x <= y
<1> SUFFICES ASSUME NEW T \in SUBSET Nat, T # {} PROVE \E x \in T : \A y \in T : x <= y
  OBVIOUS
<1>1. IsWellFoundedOn(LessThan, Nat)
  BY NatLessThanWellFounded DEF OpToRel, LessThan
<1>2. PICK x \in T : \A y \in T : <<y, x>> \notin LessThan
  BY <1>1, WFMin
<1>3. ASSUME NEW y \in T PROVE x <= y
  <2>1. y \in Nat /\ x \in Nat /\ <<y, x>> \in Nat \X Nat /\ <<y, x>>[1] = y /\ <<y, x>>[2] = x
    OBVIOUS
  <2>2. ~(y < x)
    BY <1>2, <2>1 DEF LessThan
  <2> QED BY <2>1, <2>2
<1> QED BY <1>3

\* h is the fold of step over each set of D, taking out the element pick names.
Solves(h, D, base, pick, step) ==
  \A s \in D : h[s] = IF s = {} THEN base ELSE step[<<pick[s], h[s \ {pick[s]}]>>]

\* There is such a function: if not for sets of some size, then not for a least size.
LEMMA FoldExists ==
  ASSUME NEW S, IsFiniteSet(S), NEW B, NEW base \in B,
         NEW pick, \A s \in SUBSET S : s # {} => pick[s] \in s,
         NEW step \in [S \X B -> B]
  PROVE  \E h \in [SUBSET S -> B] : Solves(h, SUBSET S, base, pick, step)
<1> DEFINE Upto(n) == {s \in SUBSET S : Cardinality(s) <= n}
           Bad == {n \in Nat : ~\E h \in [Upto(n) -> B] : Solves(h, Upto(n), base, pick, step)}
<1>0. \A s \in SUBSET S : IsFiniteSet(s) /\ Cardinality(s) \in Nat
  BY FS_Subset, FS_CardinalityType
<1>1. ASSUME NEW s \in SUBSET S, s # {}
      PROVE  /\ s \ {pick[s]} \in SUBSET S /\ Cardinality(s \ {pick[s]}) = Cardinality(s) - 1
             /\ pick[s] \in S
  BY <1>0, <1>1, FS_RemoveElement
<1>2. ASSUME NEW m \in Nat, m \in Bad, \A n \in Nat : n < m => n \notin Bad PROVE FALSE
  <2>1. CASE m = 0
    <3> DEFINE h == [s \in Upto(0) |-> base]
    <3>1. \A s \in Upto(0) : s = {}
      BY <1>0, FS_EmptySet
    <3>2. h \in [Upto(0) -> B] /\ Solves(h, Upto(0), base, pick, step)
      BY <3>1 DEF Solves
    <3> QED BY <1>2, <2>1, <3>2
  <2>2. CASE m # 0
    <3>0. m - 1 \in Nat /\ m - 1 < m
      BY <2>2
    <3>1. m - 1 \notin Bad
      <4> HIDE DEF Bad
      <4> QED BY <1>2, <3>0
    <3>2. PICK g \in [Upto(m - 1) -> B] : Solves(g, Upto(m - 1), base, pick, step)
      BY <3>0, <3>1
    <3> DEFINE h == [s \in Upto(m) |-> IF s = {} THEN base ELSE step[<<pick[s], g[s \ {pick[s]}]>>]]
    <3>3. ASSUME NEW s \in Upto(m), s # {}
          PROVE  s \ {pick[s]} \in Upto(m - 1) /\ s \ {pick[s]} \in Upto(m) /\ pick[s] \in S
      BY <1>0, <1>1, <3>3, <3>0
    <3>4. h \in [Upto(m) -> B]
      BY <3>2, <3>3
    <3>5. ASSUME NEW t \in Upto(m - 1), t \in Upto(m) PROVE h[t] = g[t]
      BY <3>2, <3>5 DEF Solves
    <3>6. Solves(h, Upto(m), base, pick, step)
      BY <3>3, <3>5 DEF Solves
    <3> QED BY <1>2, <3>4, <3>6
  <2> QED BY <2>1, <2>2
<1>3. Bad = {}
  <2> HIDE DEF Bad
  <2>1. Bad \in SUBSET Nat
    BY DEF Bad
  <2>2. SUFFICES ASSUME Bad # {} PROVE FALSE
    OBVIOUS
  <2>3. PICK m \in Bad : \A y \in Bad : m <= y
    BY <2>1, <2>2, LeastNumber
  <2> QED BY <1>2, <2>1, <2>3
<1>4. Upto(Cardinality(S)) = SUBSET S /\ Cardinality(S) \in Nat
  BY FS_Subset, FS_CardinalityType
<1>5. \E h \in [Upto(Cardinality(S)) -> B] : Solves(h, Upto(Cardinality(S)), base, pick, step)
  BY <1>3, <1>4
<1> HIDE DEF Upto
<1> QED BY <1>4, <1>5

\* What the base has and every step keeps, the fold over the whole set has.
LEMMA FoldStays ==
  ASSUME NEW S, IsFiniteSet(S), NEW B, NEW pick, \A s \in SUBSET S : s # {} => pick[s] \in s,
         NEW h, h[{}] \in B, \A s \in SUBSET S : s # {} /\ h[s \ {pick[s]}] \in B => h[s] \in B
  PROVE  h[S] \in B
<1> DEFINE Bad == {n \in Nat : \E s \in SUBSET S : Cardinality(s) = n /\ h[s] \notin B}
<1>1. SUFFICES ASSUME h[S] \notin B PROVE FALSE
  OBVIOUS
<1>2. Cardinality(S) \in Bad
  BY <1>1, FS_CardinalityType
<1>3. PICK m \in Bad : \A y \in Bad : m <= y
  <2>1. Bad \in SUBSET Nat /\ Bad # {}
    BY <1>2
  <2> HIDE DEF Bad
  <2> QED BY <2>1, LeastNumber
<1>4. PICK s \in SUBSET S : Cardinality(s) = m /\ h[s] \notin B
  OBVIOUS
<1>5. s # {}
  BY <1>4
<1>6. IsFiniteSet(s) /\ pick[s] \in s
  BY <1>5, FS_Subset
<1>7. Cardinality(s \ {pick[s]}) = m - 1 /\ m \in Nat
  BY <1>4, <1>6, FS_RemoveElement, FS_CardinalityType
<1>8. s \ {pick[s]} \in SUBSET S /\ Cardinality(s \ {pick[s]}) \in Nat
  BY <1>6, FS_RemoveElement, FS_CardinalityType
<1>9. Cardinality(s \ {pick[s]}) \notin Bad
  <2> HIDE DEF Bad
  <2> QED BY <1>3, <1>7, <1>8
<1>10. h[s \ {pick[s]}] \in B
  BY <1>8, <1>9
<1> QED BY <1>4, <1>5, <1>10

LEMMA GreatestIndex == ASSUME NEW n \in Nat, NEW s \in SUBSET (1..n), s # {} PROVE Max(s) \in s
<1> DEFINE T == {n - x : x \in s}
<1>1. T \in SUBSET Nat /\ T # {}
  <2>1. \A x \in s : x \in 1..n /\ n - x \in Nat
    OBVIOUS
  <2> QED BY <2>1
<1>2. PICK t \in T : \A y \in T : t <= y
  BY <1>1, LeastNumber
<1>3. PICK x \in s : t = n - x
  OBVIOUS
<1>4. ASSUME NEW y \in s PROVE x >= y
  <2>1. n - y \in T
    OBVIOUS
  <2> HIDE DEF T
  <2> QED BY <1>2, <1>3, <2>1
<1> QED BY <1>3, <1>4 DEF Max

LEMMA LeastIndex == ASSUME NEW n \in Nat, NEW s \in SUBSET (1..n), s # {} PROVE Min(s) \in s
<1>1. PICK x \in s : \A y \in s : x <= y
  BY LeastNumber
<1> QED BY <1>1 DEF Min

\* The sum of finitely many whole numbers is one.
LEMMA SumIsInt ==
  ASSUME NEW f, IsFiniteSet(DOMAIN f), \A x \in DOMAIN f : f[x] \in Int
  PROVE  SumFunction(f) \in Int
<1> DEFINE S == DOMAIN f
           pick == [s \in SUBSET S |-> CHOOSE x \in s : TRUE]
           step == [p \in S \X Int |-> f[p[1]] + p[2]]
           Iter == CHOOSE iter : iter = [s \in SUBSET S |->
                     IF s = {} THEN 0 ELSE f[CHOOSE x \in s : TRUE] + iter[s \ {CHOOSE x \in s : TRUE}]]
<1>1. \A s \in SUBSET S : s # {} => pick[s] \in s
  OBVIOUS
<1>2. PICK h \in [SUBSET S -> Int] : Solves(h, SUBSET S, 0, pick, step)
  <2>1. step \in [S \X Int -> Int]
    OBVIOUS
  <2>2. IsFiniteSet(S) /\ 0 \in Int
    OBVIOUS
  <2> HIDE DEF S, pick, step
  <2> QED BY <1>1, <2>1, <2>2, FoldExists
<1>3. h = [s \in SUBSET S |->
             IF s = {} THEN 0 ELSE f[CHOOSE x \in s : TRUE] + h[s \ {CHOOSE x \in s : TRUE}]]
  BY <1>1, <1>2 DEF Solves
<1>4. Iter = [s \in SUBSET S |->
                IF s = {} THEN 0 ELSE f[CHOOSE x \in s : TRUE] + Iter[s \ {CHOOSE x \in s : TRUE}]]
  BY <1>3
<1>5. SumFunction(f) = Iter[S]
  BY DEF SumFunction, SumFunctionOnSet, FoldFunctionOnSet, MapThenFoldSet
<1> HIDE DEF Iter
<1>6. \A s \in SUBSET S : s # {} /\ Iter[s \ {pick[s]}] \in Int => Iter[s] \in Int
  BY <1>1, <1>4
<1>7. Iter[{}] \in Int
  BY <1>4
<1>8. IsFiniteSet(S)
  OBVIOUS
<1> HIDE DEF S, pick, step
<1>9. Iter[S] \in Int
  BY <1>1, <1>8, <1>6, <1>7, FoldStays
<1> QED BY <1>5, <1>9

\* The sorts of cluster(): nothing is in the result that was not in the list.
LEMMA InsertKeeps == ASSUME NEW C, NEW seq \in Seq(C), NEW c \in C PROVE Insert(c, seq) \in Seq(C)
<1> DEFINE before == {i \in DOMAIN seq : ~Heavier(c, seq[i])}
           at == 1 + Cardinality(before)
<1>1. at \in 1..(Len(seq) + 1)
  <2>1. before \in SUBSET (1..Len(seq)) /\ Len(seq) \in Nat
    OBVIOUS
  <2>2. IsFiniteSet(1..Len(seq)) /\ Cardinality(1..Len(seq)) = Len(seq)
    BY <2>1, FS_Interval
  <2> HIDE DEF before
  <2>3. Cardinality(before) \in Nat /\ Cardinality(before) <= Len(seq)
    BY <2>1, <2>2, FS_Subset, FS_CardinalityType
  <2> QED BY <2>1, <2>3
<1> HIDE DEF at, before
<1>2. SubSeq(seq, 1, at - 1) \in Seq(C) /\ SubSeq(seq, at, Len(seq)) \in Seq(C)
  BY <1>1
<1> QED BY <1>2 DEF Insert, InsertAt, at, before

LEMMA InsertAll ==
  ASSUME NEW colors, IsFiniteSet(colors)
  PROVE  FoldSet(Insert, <<>>, colors) \in Seq(colors)
<1> DEFINE B == Seq(colors)
           pick == [s \in SUBSET colors |-> CHOOSE x \in s : TRUE]
           step == [p \in colors \X B |-> Insert(p[1], p[2])]
           Iter == CHOOSE iter : iter = [s \in SUBSET colors |->
                     IF s = {} THEN <<>> ELSE Insert(CHOOSE x \in s : TRUE, iter[s \ {CHOOSE x \in s : TRUE}])]
<1>0. <<>> \in B /\ \A seq \in B, c \in colors : Insert(c, seq) \in B
  BY InsertKeeps
<1>1. \A s \in SUBSET colors : s # {} => pick[s] \in s
  OBVIOUS
<1>2. PICK h \in [SUBSET colors -> B] : Solves(h, SUBSET colors, <<>>, pick, step)
  <2> HIDE DEF B
  <2>1. step \in [colors \X B -> B]
    BY <1>0
  <2> HIDE DEF pick, step
  <2> QED BY <1>0, <1>1, <2>1, FoldExists
<1> HIDE DEF B
<1>3. h = [s \in SUBSET colors |->
             IF s = {} THEN <<>> ELSE Insert(CHOOSE x \in s : TRUE, h[s \ {CHOOSE x \in s : TRUE}])]
  BY <1>1, <1>2 DEF Solves
<1>4. Iter = [s \in SUBSET colors |->
                IF s = {} THEN <<>> ELSE Insert(CHOOSE x \in s : TRUE, Iter[s \ {CHOOSE x \in s : TRUE}])]
  BY <1>3
<1>5. FoldSet(Insert, <<>>, colors) = Iter[colors]
  BY DEF FoldSet, MapThenFoldSet
<1> HIDE DEF Iter
<1>6. Iter[{}] \in B
  BY <1>0, <1>4
<1>7. ASSUME NEW s \in SUBSET colors, s # {}, Iter[s \ {pick[s]}] \in B PROVE Iter[s] \in B
  <2>1. pick[s] = (CHOOSE x \in s : TRUE) /\ pick[s] \in colors
    BY <1>1, <1>7
  <2>2. Iter[s] = Insert(pick[s], Iter[s \ {pick[s]}])
    BY <1>4, <1>7, <2>1
  <2> QED BY <1>0, <1>7, <2>1, <2>2
<1> HIDE DEF pick, step
<1>8. Iter[colors] \in B
  BY <1>1, <1>6, <1>7, FoldStays
<1> QED BY <1>5, <1>8 DEF B

\* The three loops over a list: what each turn keeps, the loop keeps.
LEMMA JoinAll ==
  ASSUME NEW n \in Nat, NEW seq, DOMAIN seq = 1..n, NEW B, <<>> \in B,
         \A acc \in B, i \in 1..n : Join(acc, seq[i]) \in B
  PROVE  FoldLeft(Join, <<>>, seq) \in B
<1> DEFINE pick == [s \in SUBSET (1..n) |-> Max(s)]
           step == [p \in (1..n) \X B |-> Join(p[2], seq[p[1]])]
           Iter == CHOOSE iter : iter = [s \in SUBSET (1..n) |->
                     IF s = {} THEN <<>> ELSE Join(iter[s \ {Max(s)}], seq[Max(s)])]
<1>0. IsFiniteSet(1..n)
  BY FS_Interval
<1>1. \A s \in SUBSET (1..n) : s # {} => pick[s] \in s
  BY GreatestIndex
<1>2. PICK h \in [SUBSET (1..n) -> B] : Solves(h, SUBSET (1..n), <<>>, pick, step)
  <2>1. step \in [(1..n) \X B -> B]
    OBVIOUS
  <2> HIDE DEF pick, step
  <2> QED BY <1>1, <2>1, <1>0, FoldExists
<1>3. h = [s \in SUBSET (1..n) |-> IF s = {} THEN <<>> ELSE Join(h[s \ {Max(s)}], seq[Max(s)])]
  BY <1>1, <1>2 DEF Solves
<1>4. Iter = [s \in SUBSET (1..n) |-> IF s = {} THEN <<>> ELSE Join(Iter[s \ {Max(s)}], seq[Max(s)])]
  BY <1>3
<1>5. FoldLeft(Join, <<>>, seq) = Iter[1..n]
  BY DEF FoldLeft, MapThenFoldSet
<1> HIDE DEF Iter
<1>6. Iter[{}] \in B
  BY <1>4
<1>7. ASSUME NEW s \in SUBSET (1..n), s # {}, Iter[s \ {pick[s]}] \in B PROVE Iter[s] \in B
  <2>1. pick[s] = Max(s) /\ pick[s] \in 1..n
    BY <1>1, <1>7
  <2>2. Iter[s] = Join(Iter[s \ {pick[s]}], seq[pick[s]])
    BY <1>4, <1>7, <2>1
  <2> QED BY <1>7, <2>1, <2>2
<1> HIDE DEF pick, step
<1>8. Iter[1..n] \in B
  BY <1>1, <1>6, <1>7, <1>0, FoldStays
<1> QED BY <1>5, <1>8

LEMMA BehindAll ==
  ASSUME NEW n \in Nat, NEW seq, DOMAIN seq = 1..n, NEW B, <<>> \in B,
         \A acc \in B, i \in 1..n : Behind(acc, seq[i]) \in B
  PROVE  FoldLeft(Behind, <<>>, seq) \in B
<1> DEFINE pick == [s \in SUBSET (1..n) |-> Max(s)]
           step == [p \in (1..n) \X B |-> Behind(p[2], seq[p[1]])]
           Iter == CHOOSE iter : iter = [s \in SUBSET (1..n) |->
                     IF s = {} THEN <<>> ELSE Behind(iter[s \ {Max(s)}], seq[Max(s)])]
<1>0. IsFiniteSet(1..n)
  BY FS_Interval
<1>1. \A s \in SUBSET (1..n) : s # {} => pick[s] \in s
  BY GreatestIndex
<1>2. PICK h \in [SUBSET (1..n) -> B] : Solves(h, SUBSET (1..n), <<>>, pick, step)
  <2>1. step \in [(1..n) \X B -> B]
    OBVIOUS
  <2> HIDE DEF pick, step
  <2> QED BY <1>1, <2>1, <1>0, FoldExists
<1>3. h = [s \in SUBSET (1..n) |-> IF s = {} THEN <<>> ELSE Behind(h[s \ {Max(s)}], seq[Max(s)])]
  BY <1>1, <1>2 DEF Solves
<1>4. Iter = [s \in SUBSET (1..n) |-> IF s = {} THEN <<>> ELSE Behind(Iter[s \ {Max(s)}], seq[Max(s)])]
  BY <1>3
<1>5. FoldLeft(Behind, <<>>, seq) = Iter[1..n]
  BY DEF FoldLeft, MapThenFoldSet
<1> HIDE DEF Iter
<1>6. Iter[{}] \in B
  BY <1>4
<1>7. ASSUME NEW s \in SUBSET (1..n), s # {}, Iter[s \ {pick[s]}] \in B PROVE Iter[s] \in B
  <2>1. pick[s] = Max(s) /\ pick[s] \in 1..n
    BY <1>1, <1>7
  <2>2. Iter[s] = Behind(Iter[s \ {pick[s]}], seq[pick[s]])
    BY <1>4, <1>7, <2>1
  <2> QED BY <1>7, <2>1, <2>2
<1> HIDE DEF pick, step
<1>8. Iter[1..n] \in B
  BY <1>1, <1>6, <1>7, <1>0, FoldStays
<1> QED BY <1>5, <1>8

LEMMA RankAll ==
  ASSUME NEW n \in Nat, NEW seq, DOMAIN seq = 1..n, NEW B, <<>> \in B,
         \A acc \in B, i \in 1..n : Rank(acc, seq[i]) \in B
  PROVE  FoldLeft(Rank, <<>>, seq) \in B
<1> DEFINE pick == [s \in SUBSET (1..n) |-> Max(s)]
           step == [p \in (1..n) \X B |-> Rank(p[2], seq[p[1]])]
           Iter == CHOOSE iter : iter = [s \in SUBSET (1..n) |->
                     IF s = {} THEN <<>> ELSE Rank(iter[s \ {Max(s)}], seq[Max(s)])]
<1>0. IsFiniteSet(1..n)
  BY FS_Interval
<1>1. \A s \in SUBSET (1..n) : s # {} => pick[s] \in s
  BY GreatestIndex
<1>2. PICK h \in [SUBSET (1..n) -> B] : Solves(h, SUBSET (1..n), <<>>, pick, step)
  <2>1. step \in [(1..n) \X B -> B]
    OBVIOUS
  <2> HIDE DEF pick, step
  <2> QED BY <1>1, <2>1, <1>0, FoldExists
<1>3. h = [s \in SUBSET (1..n) |-> IF s = {} THEN <<>> ELSE Rank(h[s \ {Max(s)}], seq[Max(s)])]
  BY <1>1, <1>2 DEF Solves
<1>4. Iter = [s \in SUBSET (1..n) |-> IF s = {} THEN <<>> ELSE Rank(Iter[s \ {Max(s)}], seq[Max(s)])]
  BY <1>3
<1>5. FoldLeft(Rank, <<>>, seq) = Iter[1..n]
  BY DEF FoldLeft, MapThenFoldSet
<1> HIDE DEF Iter
<1>6. Iter[{}] \in B
  BY <1>4
<1>7. ASSUME NEW s \in SUBSET (1..n), s # {}, Iter[s \ {pick[s]}] \in B PROVE Iter[s] \in B
  <2>1. pick[s] = Max(s) /\ pick[s] \in 1..n
    BY <1>1, <1>7
  <2>2. Iter[s] = Rank(Iter[s \ {pick[s]}], seq[pick[s]])
    BY <1>4, <1>7, <2>1
  <2> QED BY <1>7, <2>1, <2>2
<1> HIDE DEF pick, step
<1>8. Iter[1..n] \in B
  BY <1>1, <1>6, <1>7, <1>0, FoldStays
<1> QED BY <1>5, <1>8


-----------------------------------------------------------------------------
\* Every source of a group has a color in the pool that is like the group's.
Fit(g, pool) == \A s \in g.sources : \E x \in pool : s \in x.sources /\ Alike(g.rgb, x.rgb)
Colored(rgbs, names) == [rgb : rgbs, weight : Int, sources : SUBSET names]
Groups(rgbs, names, pool) == {g \in Colored(rgbs, names) : Fit(g, pool)}

LEMMA JoinFits ==
  ASSUME NEW rgbs, NEW names, NEW pool \in SUBSET Colored(rgbs, names),
         NEW groups \in Seq(Groups(rgbs, names, pool)), NEW c \in pool
  PROVE  Join(groups, c) \in Seq(Groups(rgbs, names, pool))
<1> DEFINE G == Groups(rgbs, names, pool)
           near == {i \in DOMAIN groups : Near(groups[i].rgb, c.rgb)}
<1>0. Len(groups) \in Nat /\ DOMAIN groups = 1..Len(groups) /\ \A i \in 1..Len(groups) : groups[i] \in G
  <2> HIDE DEF G
  <2> QED BY DEF G
<1>1. c \in Colored(rgbs, names) /\ c \in G
  BY DEF Groups, Fit, Alike
<1>2. CASE near = {}
  <2>1. Join(groups, c) = Append(groups, c)
    BY <1>2 DEF Join
  <2> HIDE DEF G
  <2> QED BY <1>1, <2>1 DEF G
<1>3. CASE near # {}
  <2> DEFINE i == Min(near)
  <2>1. near \in SUBSET (1..Len(groups)) /\ Len(groups) \in Nat
    BY <1>0
  <2>2. i \in near
    <3> HIDE DEF near
    <3> QED BY <1>3, <2>1, LeastIndex
  <2> HIDE DEF i
  <2> DEFINE g == groups[i]
             w == g.weight + c.weight
             o == g.sources \cup c.sources
             h == [g EXCEPT !.weight = w, !.sources = o]
  <2>3. i \in 1..Len(groups) /\ g \in G /\ Near(g.rgb, c.rgb)
    BY <1>0, <2>1, <2>2
  <2>4. Join(groups, c) = [groups EXCEPT ![i] = h]
    BY <1>3, <2>3 DEF Join, i
  <2>5. g \in Colored(rgbs, names) /\ Fit(g, pool)
    BY <2>3 DEF Groups
  <2> HIDE DEF g
  <2>6. w \in Int /\ o \in SUBSET names
    BY <1>1, <2>5 DEF Colored
  <2> HIDE DEF w, o
  <2>9. h \in Colored(rgbs, names) /\ h.rgb = g.rgb /\ h.sources = o
    BY <2>5, <2>6 DEF Colored
  <2> HIDE DEF h
  <2>7. Fit(h, pool)
    BY <2>3, <2>5, <2>9 DEF Fit, Alike, o
  <2>8. h \in G
    BY <2>9, <2>7 DEF Groups
  <2> HIDE DEF G, near
  <2>10. groups \in Seq(G)
    BY DEF G
  <2>11. [groups EXCEPT ![i] = h] \in Seq(G)
    BY <2>3, <2>8, <2>10
  <2> QED BY <2>4, <2>11 DEF G
<1> QED BY <1>2, <1>3

\* cluster() makes groups, each with colors of the pool that are like its own.
LEMMA ClusterFits ==
  ASSUME NEW rgbs, NEW names, NEW pool \in SUBSET Colored(rgbs, names), IsFiniteSet(pool)
  PROVE  Cluster(pool) \in Seq(Groups(rgbs, names, pool))
<1> DEFINE B == Seq(Groups(rgbs, names, pool))
           sorted == FoldSet(Insert, <<>>, pool)
           joined == FoldLeft(Join, <<>>, sorted)
<1>1. sorted \in Seq(pool)
  BY InsertAll
<1> HIDE DEF sorted
<1>2. /\ DOMAIN sorted = 1..Len(sorted) /\ Len(sorted) \in Nat
      /\ \A i \in 1..Len(sorted) : sorted[i] \in pool
  BY <1>1
<1>3. <<>> \in B
  OBVIOUS
<1>4. \A acc \in B, i \in 1..Len(sorted) : Join(acc, sorted[i]) \in B
  BY <1>2, JoinFits
<1>5. joined \in B
  <2> HIDE DEF B
  <2> QED BY <1>2, <1>3, <1>4, JoinAll
<1> HIDE DEF joined
<1>6. /\ DOMAIN joined = 1..Len(joined) /\ Len(joined) \in Nat
      /\ \A i \in 1..Len(joined) : joined[i] \in Groups(rgbs, names, pool)
  BY <1>5
<1>7. \A acc \in B, i \in 1..Len(joined) : Behind(acc, joined[i]) \in B
  BY <1>6, InsertKeeps DEF Behind
<1>8. FoldLeft(Behind, <<>>, joined) \in B
  <2> HIDE DEF B
  <2> QED BY <1>3, <1>6, <1>7, BehindAll
<1> QED BY <1>8 DEF Cluster, joined, sorted

\* Scores are numbers, and zero with a zero multiplier.
LEMMA ScoreFacts ==
  ASSUME NEW g, g.weight \in Int, NEW background, NEW primary
  PROVE  /\ BrandScore(g, background, primary) \in Int
         /\ Multiplier(g) = 0 => BrandScore(g, background, primary) = 0
<1>1. Multiplier(g) \in {0, 25, 30, 45, 50, 70, 100}
  BY DEF Multiplier
<1> DEFINE m == Multiplier(g)
           k == IF background # "none" /\ Delta[g.rgb, background] < 6 /\ "buttons" \notin g.sources THEN 1 ELSE 2
           p == IF primary # "none" /\ Delta[g.rgb, primary] < 12 THEN 3 ELSE 2
<1>2. k \in {1, 2} /\ p \in {2, 3} /\ m \in {0, 25, 30, 45, 50, 70, 100}
  BY <1>1
<1>3. BrandScore(g, background, primary) = g.weight * m * k * p
  BY DEF BrandScore
<1> HIDE DEF m, k, p
<1>4. g.weight * m \in Int /\ (m = 0 => g.weight * m = 0)
  BY <1>2
<1>5. g.weight * m * k * p \in Int /\ (m = 0 => g.weight * m * k * p = 0)
  BY <1>2, <1>4
<1> QED BY <1>3, <1>5 DEF m

Scored(groups) == {x \in [group : groups, score : Int] : Multiplier(x.group) # 0}

\* What is inserted into the ranking has a score, so a multiplier.
LEMMA RankKeeps ==
  ASSUME NEW groups, NEW seq \in Seq(Scored(groups)), NEW x \in [group : groups, score : Int],
         Multiplier(x.group) = 0 => x.score = 0
  PROVE  Rank(seq, x) \in Seq(Scored(groups))
<1> DEFINE S == Scored(groups)
           before == {i \in DOMAIN seq : seq[i].score >= x.score}
           at == 1 + Cardinality(before)
<1>1. CASE x.score <= 0
  BY <1>1 DEF Rank
<1>2. CASE ~(x.score <= 0)
  <2>1. x \in S
    BY <1>2 DEF Scored
  <2>2. at \in 1..(Len(seq) + 1)
    <3>1. before \in SUBSET (1..Len(seq)) /\ Len(seq) \in Nat
      OBVIOUS
    <3>2. IsFiniteSet(1..Len(seq)) /\ Cardinality(1..Len(seq)) = Len(seq)
      BY <3>1, FS_Interval
    <3> HIDE DEF before
    <3>3. Cardinality(before) \in Nat /\ Cardinality(before) <= Len(seq)
      BY <3>1, <3>2, FS_Subset, FS_CardinalityType
    <3> QED BY <3>1, <3>3
  <2>3. Rank(seq, x) = InsertAt(seq, at, x)
    BY <1>2 DEF Rank
  <2> HIDE DEF at, S
  <2>4. seq \in Seq(S)
    BY DEF S
  <2>5. SubSeq(seq, 1, at - 1) \in Seq(S) /\ SubSeq(seq, at, Len(seq)) \in Seq(S)
    BY <2>2, <2>4
  <2>6. Rank(seq, x) \in Seq(S)
    BY <2>1, <2>3, <2>5 DEF InsertAt
  <2> QED BY <2>6 DEF S
<1> QED BY <1>1, <1>2

\* What is ranked has a source other than the screenshot.
LEMMA RankedFits ==
  ASSUME NEW inp, NEW rgbs, NEW names, Pooled(inp) \in SUBSET Colored(rgbs, names), IsFiniteSet(Pooled(inp))
  PROVE  Ranked(inp) \in Seq(Scored(Groups(rgbs, names, Pooled(inp))))
<1> DEFINE G == Groups(rgbs, names, Pooled(inp))
           groups == Cluster(Pooled(inp))
           scored == [i \in DOMAIN groups |->
                        [group |-> groups[i], score |-> BrandScore(groups[i], Background(inp), PrimaryVar(inp))]]
           B == Seq(Scored(G))
<1>1. groups \in Seq(G)
  BY ClusterFits
<1> HIDE DEF groups, G
<1>2. Len(groups) \in Nat /\ DOMAIN groups = 1..Len(groups) /\ \A i \in 1..Len(groups) : groups[i] \in G
  BY <1>1
<1>3. \A g \in G : g.weight \in Int
  BY DEF G, Groups, Colored
<1>4. ASSUME NEW acc \in B, NEW i \in 1..Len(groups) PROVE Rank(acc, scored[i]) \in B
  <2> DEFINE x == scored[i]
  <2>1. /\ x = [group |-> groups[i], score |-> BrandScore(groups[i], Background(inp), PrimaryVar(inp))]
        /\ groups[i] \in G /\ groups[i].weight \in Int
    BY <1>2, <1>3
  <2>2. /\ BrandScore(groups[i], Background(inp), PrimaryVar(inp)) \in Int
        /\ Multiplier(groups[i]) = 0 => BrandScore(groups[i], Background(inp), PrimaryVar(inp)) = 0
    BY <2>1, ScoreFacts
  <2> HIDE DEF x
  <2>3. x \in [group : G, score : Int] /\ (Multiplier(x.group) = 0 => x.score = 0)
    BY <2>1, <2>2
  <2>4. Rank(acc, x) \in B
    BY <2>3, RankKeeps
  <2> QED BY <2>4 DEF x
<1>5. <<>> \in B /\ DOMAIN scored = 1..Len(groups)
  BY <1>2
<1> HIDE DEF scored, B
<1>6. FoldLeft(Rank, <<>>, scored) \in B
  BY <1>2, <1>4, <1>5, RankAll
<1> QED BY <1>6 DEF Ranked, B, scored, G, groups


\* The secondary color is apart from the primary one; there is none only if nothing is.
LEMMA SecondFound ==
  ASSUME NEW S, NEW ranked \in Seq(S), ranked # <<>>
  PROVE  \/ /\ SecondOf(ranked) = <<>>
            /\ \A i \in 1..Len(ranked) : ~DistinctRole(ranked[i].group.rgb, ranked[1].group.rgb)
         \/ \E x \in S : SecondOf(ranked) = <<x>> /\ DistinctRole(x.group.rgb, ranked[1].group.rgb)
<1> DEFINE Other(x) == DistinctRole(x.group.rgb, ranked[1].group.rgb)
           Hue(x) == Other(x) /\ ~IsNeutral(x.group.rgb) /\ 20 * x.score >= 3 * ranked[1].score
           others == {i \in DOMAIN ranked : Other(ranked[i])}
           hues == {i \in DOMAIN ranked : Hue(ranked[i])}
<1>1. /\ Len(ranked) \in Nat /\ DOMAIN ranked = 1..Len(ranked) /\ \A i \in 1..Len(ranked) : ranked[i] \in S
  OBVIOUS
<1>2. hues \in SUBSET others /\ others \in SUBSET (1..Len(ranked))
  BY <1>1
<1>3. \A i \in 1..Len(ranked) : i \in others <=> Other(ranked[i])
  BY <1>1
<1>4. SecondOf(ranked) = IF (IF hues = {} THEN <<>> ELSE <<ranked[Min(hues)]>>) # <<>>
                         THEN IF hues = {} THEN <<>> ELSE <<ranked[Min(hues)]>>
                         ELSE IF others = {} THEN <<>> ELSE <<ranked[Min(others)]>>
  BY DEF SecondOf, FirstWith
<1> HIDE DEF hues, others, Other, Hue
<1>5. CASE hues # {}
  <2>1. Min(hues) \in hues
    BY <1>1, <1>2, <1>5, LeastIndex
  <2>2. SecondOf(ranked) = <<ranked[Min(hues)]>>
    BY <1>4, <1>5
  <2>3. Other(ranked[Min(hues)]) /\ ranked[Min(hues)] \in S
    BY <1>1, <1>2, <1>3, <2>1
  <2> QED BY <2>2, <2>3 DEF Other
<1>6. CASE hues = {} /\ others # {}
  <2>1. Min(others) \in others
    BY <1>1, <1>2, <1>6, LeastIndex
  <2>2. SecondOf(ranked) = <<ranked[Min(others)]>>
    BY <1>4, <1>6
  <2>3. Other(ranked[Min(others)]) /\ ranked[Min(others)] \in S
    BY <1>1, <1>2, <1>3, <2>1
  <2> QED BY <2>2, <2>3 DEF Other
<1>7. CASE hues = {} /\ others = {}
  <2>1. SecondOf(ranked) = <<>>
    BY <1>4, <1>7
  <2> QED BY <1>3, <1>7, <2>1 DEF Other
<1> QED BY <1>5, <1>6, <1>7

\* The accent is a ranked color apart from all that were taken.
LEMMA ThirdFound ==
  ASSUME NEW S, NEW ranked \in Seq(S), NEW taken
  PROVE  \/ ThirdOf(ranked, taken) = <<>>
         \/ \E i \in 1..Len(ranked) :
              /\ ranked[i] \in S /\ ThirdOf(ranked, taken) = <<ranked[i]>>
              /\ \A o \in taken : DistinctRole(ranked[i].group.rgb, o)
<1> DEFINE Good(x) == ~IsNeutral(x.group.rgb) /\ \A o \in taken : DistinctRole(x.group.rgb, o)
           good == {i \in DOMAIN ranked : Good(ranked[i])}
<1>1. /\ Len(ranked) \in Nat /\ DOMAIN ranked = 1..Len(ranked) /\ \A i \in 1..Len(ranked) : ranked[i] \in S
  OBVIOUS
<1>2. good \in SUBSET (1..Len(ranked)) /\ \A i \in good : Good(ranked[i])
  BY <1>1
<1>3. ThirdOf(ranked, taken) = IF good = {} THEN <<>> ELSE <<ranked[Min(good)]>>
  BY DEF ThirdOf, FirstWith
<1> HIDE DEF good
<1>4. CASE good # {}
  <2>1. Min(good) \in good
    BY <1>1, <1>2, <1>4, LeastIndex
  <2> QED BY <1>1, <1>2, <1>3, <1>4, <2>1
<1> QED BY <1>3, <1>4

\* Each role is a ranked color, and told apart from those given before.
LEMMA RolesApart ==
  ASSUME NEW inp, NEW S, Ranked(inp) \in Seq(S)
  PROVE  LET given == Roles(PickColors(inp))
         IN  \A i \in 1..3 : given[i] # "none" =>
               /\ \E x \in S : given[i] = x.group.rgb
               /\ \A j \in 1..(i - 1) : DistinctRole(given[i], given[j])
<1> DEFINE ranked == Ranked(inp)
           second == IF ranked = <<>> THEN <<>> ELSE SecondOf(ranked)
           taken == {ranked[1].group.rgb} \cup {second[i].group.rgb : i \in DOMAIN second}
           third == ThirdOf(ranked, taken)
           given == Roles(PickColors(inp))
<1>1. given = << IF ranked = <<>> THEN "none" ELSE ranked[1].group.rgb,
                 IF second = <<>> THEN "none" ELSE second[1].group.rgb,
                 IF ranked = <<>> THEN "none" ELSE IF third = <<>> THEN "none" ELSE third[1].group.rgb >>
  BY DEF PickColors, Roles
<1> HIDE DEF ranked, third, given
<1>2. ranked \in Seq(S)
  BY DEF ranked
<1>3. CASE ranked = <<>>
  <2>1. given[1] = "none" /\ given[2] = "none" /\ given[3] = "none"
    BY <1>1, <1>3
  <2> QED BY <2>1 DEF given
<1>4. CASE ranked # <<>>
  <2> DEFINE top == ranked[1].group.rgb
  <2>1. ranked[1] \in S /\ second = SecondOf(ranked)
    BY <1>2, <1>4
  <2> HIDE DEF second
  <2>2. given[1] = top
    BY <1>1, <1>4
  <2>3. CASE second = <<>>
    <3>1. \A i \in 1..Len(ranked) : ~DistinctRole(ranked[i].group.rgb, top)
      <4>1. SecondOf(ranked) = <<>> /\ \A x \in S : <<x>> # <<>>
        BY <2>1, <2>3
      <4>2. ~ \E x \in S : SecondOf(ranked) = <<x>>
        BY <4>1
      <4> QED BY <1>2, <1>4, <4>2, SecondFound
    <3>2. top \in taken
      OBVIOUS
    <3> HIDE DEF taken, top
    <3>3. third = <<>>
      BY <1>2, <3>1, <3>2, ThirdFound DEF third
    <3>4. given[2] = "none" /\ given[3] = "none"
      BY <1>1, <2>3, <3>3
    <3> QED BY <2>1, <2>2, <3>4 DEF given, top
  <2>4. CASE second # <<>>
    <3>1. PICK x \in S : second = <<x>> /\ DistinctRole(x.group.rgb, top)
      BY <1>2, <1>4, <2>1, <2>4, SecondFound
    <3>2. given[2] = x.group.rgb
      BY <1>1, <3>1
    <3>3. top \in taken /\ x.group.rgb \in taken
      BY <3>1
    <3> HIDE DEF taken
    <3>4. third = <<>> \/ \E y \in S : third = <<y>> /\ \A o \in taken : DistinctRole(y.group.rgb, o)
      BY <1>2, ThirdFound DEF third
    <3>5. CASE third = <<>>
      <4>1. given[3] = "none"
        BY <1>1, <3>5
      <4> QED BY <2>1, <2>2, <3>1, <3>2, <4>1 DEF given
    <3>6. CASE third # <<>>
      <4>1. PICK y \in S : third = <<y>> /\ \A o \in taken : DistinctRole(y.group.rgb, o)
        BY <3>4, <3>6
      <4>2. given[3] = y.group.rgb /\ DistinctRole(given[3], top) /\ DistinctRole(given[3], x.group.rgb)
        BY <1>1, <1>4, <3>3, <4>1
      <4> QED BY <2>1, <2>2, <3>1, <3>2, <4>1, <4>2 DEF given
    <3> QED BY <3>5, <3>6
  <2> QED BY <2>3, <2>4
<1> QED BY <1>3, <1>4

LEMMA ImageFinite == ASSUME NEW S, IsFiniteSet(S), NEW f PROVE IsFiniteSet({f[x] : x \in S})
<1> DEFINE T == {f[x] : x \in S}
           F == [x \in S |-> f[x]]
<1>1. F \in Surjection(S, T)
  BY DEF Surjection
<1> HIDE DEF F
<1> QED BY <1>1, FS_Surjection

-----------------------------------------------------------------------------
GoodMap(map) == IsFiniteSet(DOMAIN map) /\ \A c \in DOMAIN map : map[c] \in Int
Maps == {"buttons", "logo", "header", "links", "headings", "borders", "background", "screenshot"}
Names == Maps \cup {"cssvar", "footer", "theme"}

\* The inputs of pickColors: finite maps of whole numbers.
Measured(inp) == (\A s \in Maps : GoodMap(inp[s])) /\ IsFiniteSet(DOMAIN inp.vars)

\* normalise(): a weight for each color of the map, a whole number for each division.
LEMMA NormaliseFits ==
  ASSUME NEW map, GoodMap(map), NEW weight \in Int, NEW source
  PROVE  /\ IsFiniteSet(Normalise(map, weight, source))
         /\ \A x \in Normalise(map, weight, source) :
              x.rgb \in DOMAIN map /\ x \in [rgb : DOMAIN map, weight : Int, sources : {{source}}]
<1> DEFINE total == SumFunction(map)
           part == [c \in DOMAIN map |->
                      [rgb |-> c, weight |-> (weight * map[c]) \div total, sources |-> {source}]]
<1>1. total \in Int
  BY SumIsInt DEF GoodMap
<1> HIDE DEF total
<1>2. CASE total <= 0
  BY <1>2, FS_EmptySet DEF Normalise, total
<1>3. CASE ~(total <= 0)
  <2>1. Normalise(map, weight, source) = {part[c] : c \in DOMAIN map}
    BY <1>3 DEF Normalise, total
  <2>2. ASSUME NEW c \in DOMAIN map
        PROVE  part[c].rgb = c /\ part[c] \in [rgb : DOMAIN map, weight : Int, sources : {{source}}]
    <3>1. weight * map[c] \in Int
      BY DEF GoodMap
    <3>2. (weight * map[c]) \div total \in Int
      BY <1>1, <1>3, <3>1
    <3> QED BY <3>2
  <2> HIDE DEF part
  <2>3. IsFiniteSet({part[c] : c \in DOMAIN map})
    BY ImageFinite DEF GoodMap
  <2> QED BY <2>1, <2>2, <2>3
<1> QED BY <1>2, <1>3

LEMMA SingleFits ==
  ASSUME NEW c, NEW weight \in Int, NEW source
  PROVE  /\ IsFiniteSet(Single(c, weight, source))
         /\ \A x \in Single(c, weight, source) :
              x.rgb = c /\ c # "none" /\ x \in [rgb : {c}, weight : Int, sources : {{source}}]
<1>1. CASE c = "none"
  <2>1. Single(c, weight, source) = {}
    BY <1>1 DEF Single
  <2> QED BY <2>1, FS_EmptySet
<1>2. CASE c # "none"
  <2> DEFINE one == [rgb |-> c, weight |-> weight, sources |-> {source}]
  <2>1. Single(c, weight, source) = {one}
    BY <1>2 DEF Single
  <2>2. one.rgb = c /\ one \in [rgb : {c}, weight : Int, sources : {{source}}]
    OBVIOUS
  <2> HIDE DEF one
  <2>3. IsFiniteSet({one})
    BY FS_Singleton
  <2> QED BY <1>2, <2>1, <2>2, <2>3
<1> QED BY <1>1, <1>2

LEMMA MapsFinite == IsFiniteSet(Maps)
<1>1. IsFiniteSet({"buttons"} \cup {"logo"})
  BY FS_Singleton, FS_AddElement
<1>2. IsFiniteSet({"buttons"} \cup {"logo"} \cup {"header"})
  BY <1>1, FS_AddElement
<1>3. IsFiniteSet({"buttons"} \cup {"logo"} \cup {"header"} \cup {"links"})
  BY <1>2, FS_AddElement
<1>4. IsFiniteSet({"headings"} \cup {"borders"})
  BY FS_Singleton, FS_AddElement
<1>5. IsFiniteSet({"headings"} \cup {"borders"} \cup {"background"})
  BY <1>4, FS_AddElement
<1>6. IsFiniteSet({"headings"} \cup {"borders"} \cup {"background"} \cup {"screenshot"})
  BY <1>5, FS_AddElement
<1>7. Maps = ({"buttons"} \cup {"logo"} \cup {"header"} \cup {"links"})
             \cup ({"headings"} \cup {"borders"} \cup {"background"} \cup {"screenshot"})
  BY DEF Maps
<1> QED BY <1>3, <1>6, <1>7, FS_Union

LEMMA VarsFit == ASSUME NEW inp, IsFiniteSet(DOMAIN inp.vars) PROVE GoodMap(Each(BrandVars(inp)))
<1> DEFINE named == VarsNamed(inp, {"primary", "brand"})
           f == [i \in DOMAIN inp.vars |-> inp.vars[i].color]
<1>1. IsFiniteSet(named) /\ named \in SUBSET DOMAIN inp.vars
  BY FS_Subset DEF VarsNamed
<1>2. BrandVars(inp) = {f[i] : i \in named}
  BY <1>1 DEF BrandVars
<1> HIDE DEF f, named
<1>3. IsFiniteSet(BrandVars(inp))
  BY <1>1, <1>2, ImageFinite
<1> QED BY <1>3 DEF GoodMap, Each

\* The pool is of the kind cluster() takes; what is in it for a source other than the
\* screenshot is a color of the site's own.
\* The single colors and the brand's variables are the site's own.
LEMMA OwnFacts ==
  ASSUME NEW inp
  PROVE  /\ BrandVars(inp) \in SUBSET OwnColors(inp)
         /\ inp.footer # "none" => inp.footer \in OwnColors(inp)
         /\ inp.theme # "none" => inp.theme \in OwnColors(inp)
<1> DEFINE maps == UNION {DOMAIN inp[s] : s \in {"buttons", "logo", "header", "links", "headings", "borders", "background"}}
           single == {inp.footer, inp.theme} \ {"none"}
           brand == BrandVars(inp)
<1>2. OwnColors(inp) = maps \cup brand \cup single
  BY DEF OwnColors
<1>3. (inp.footer # "none" => inp.footer \in single) /\ (inp.theme # "none" => inp.theme \in single)
  OBVIOUS
<1> HIDE DEF maps, single, brand
<1> QED BY <1>2, <1>3 DEF brand

LEMMA PooledFits ==
  ASSUME NEW inp, Measured(inp)
  PROVE  /\ IsFiniteSet(Pooled(inp))
         /\ Pooled(inp) \in SUBSET Colored({x.rgb : x \in Pooled(inp)}, Names)
         /\ \A x \in Pooled(inp) : \A s \in x.sources : s # "screenshot" => x.rgb \in OwnColors(inp)
<1> DEFINE of == [s \in Maps |-> Normalise(inp[s], SourceWeight[s], s)]
           all == UNION {of[s] : s \in Maps}
           vars0 == Normalise(Each(BrandVars(inp)), SourceWeight.cssvar, "cssvar")
           footer == Single(inp.footer, SourceWeight.footer, "footer")
           theme == Single(inp.theme, SourceWeight.theme, "theme")
           Good(x) == /\ x \in [rgb : {x.rgb}, weight : Int, sources : SUBSET Names]
                      /\ \A s \in x.sources : s # "screenshot" => x.rgb \in OwnColors(inp)
<1>1. \A s \in Names : SourceWeight[s] \in Int
  BY DEF Names, Maps, SourceWeight
<1>2. Pooled(inp) = all \cup vars0 \cup footer \cup theme
  BY DEF Pooled, Maps
<1>3. ASSUME NEW x, NEW rgbs, NEW source \in Names, x \in [rgb : rgbs, weight : Int, sources : {{source}}],
             source # "screenshot" => rgbs \in SUBSET OwnColors(inp)
      PROVE  Good(x)
  BY <1>3
<1> HIDE DEF Good
<1>4. ASSUME NEW s \in Maps PROVE IsFiniteSet(of[s]) /\ \A x \in of[s] : Good(x)
  <2>1. GoodMap(inp[s]) /\ SourceWeight[s] \in Int /\ s \in Names
    BY <1>1 DEF Measured, Names
  <2>2. s # "screenshot" => DOMAIN inp[s] \in SUBSET OwnColors(inp)
    BY DEF Maps, OwnColors
  <2>3. of[s] = Normalise(inp[s], SourceWeight[s], s)
    OBVIOUS
  <2> HIDE DEF of
  <2>4. IsFiniteSet(of[s]) /\ \A x \in of[s] : x \in [rgb : DOMAIN inp[s], weight : Int, sources : {{s}}]
    BY <2>1, <2>3, NormaliseFits
  <2>5. ASSUME NEW x \in of[s] PROVE Good(x)
    BY <1>3, <2>1, <2>2, <2>4
  <2> QED BY <2>4, <2>5
<1>5. IsFiniteSet(vars0) /\ \A x \in vars0 : Good(x)
  <2>1. GoodMap(Each(BrandVars(inp))) /\ DOMAIN Each(BrandVars(inp)) = BrandVars(inp)
    BY VarsFit DEF Measured, Each
  <2>2. "cssvar" \in Names /\ SourceWeight.cssvar \in Int
    BY <1>1 DEF Names
  <2>3. IsFiniteSet(vars0) /\ \A x \in vars0 : x \in [rgb : BrandVars(inp), weight : Int, sources : {{"cssvar"}}]
    BY <2>1, <2>2, NormaliseFits
  <2> HIDE DEF vars0
  <2>4. ASSUME NEW x \in vars0 PROVE Good(x)
    BY <1>3, <2>2, <2>3, OwnFacts
  <2> QED BY <2>3, <2>4
<1>6. IsFiniteSet(footer) /\ \A x \in footer : Good(x)
  <2>1. "footer" \in Names /\ SourceWeight.footer \in Int
    BY <1>1 DEF Names
  <2>2. IsFiniteSet(footer) /\ \A x \in footer :
          inp.footer # "none" /\ x \in [rgb : {inp.footer}, weight : Int, sources : {{"footer"}}]
    BY <2>1, SingleFits
  <2>3. inp.footer # "none" => {inp.footer} \in SUBSET OwnColors(inp)
    BY OwnFacts
  <2> HIDE DEF footer
  <2>4. ASSUME NEW x \in footer PROVE Good(x)
    BY <1>3, <2>1, <2>2, <2>3
  <2> QED BY <2>2, <2>4
<1>7. IsFiniteSet(theme) /\ \A x \in theme : Good(x)
  <2>1. "theme" \in Names /\ SourceWeight.theme \in Int
    BY <1>1 DEF Names
  <2>2. IsFiniteSet(theme) /\ \A x \in theme :
          inp.theme # "none" /\ x \in [rgb : {inp.theme}, weight : Int, sources : {{"theme"}}]
    BY <2>1, SingleFits
  <2>3. inp.theme # "none" => {inp.theme} \in SUBSET OwnColors(inp)
    BY OwnFacts
  <2> HIDE DEF theme
  <2>4. ASSUME NEW x \in theme PROVE Good(x)
    BY <1>3, <2>1, <2>2, <2>3
  <2> QED BY <2>2, <2>4
<1> HIDE DEF all, of, vars0, footer, theme
<1>8. IsFiniteSet(Pooled(inp))
  <2> DEFINE parts == {of[s] : s \in Maps}
  <2>1. IsFiniteSet(parts)
    BY MapsFinite, ImageFinite
  <2>2. \A p \in parts : IsFiniteSet(p)
    BY <1>4
  <2>3. IsFiniteSet(all)
    <3>1. all = UNION parts
      BY DEF all
    <3> HIDE DEF parts
    <3> QED BY <2>1, <2>2, <3>1, FS_UNION
  <2>4. IsFiniteSet(all \cup vars0)
    <3> QED BY <1>5, <2>3, FS_Union
  <2>5. IsFiniteSet(all \cup vars0 \cup footer)
    <3> QED BY <1>6, <2>4, FS_Union
  <2>6. IsFiniteSet(all \cup vars0 \cup footer \cup theme)
    <3> QED BY <1>7, <2>5, FS_Union
  <2> QED BY <1>2, <2>6
<1>9. \A x \in Pooled(inp) : Good(x)
  <2> SUFFICES ASSUME NEW x \in Pooled(inp) PROVE Good(x)
    OBVIOUS
  <2>1. (\E s \in Maps : x \in of[s]) \/ x \in vars0 \/ x \in footer \/ x \in theme
    BY <1>2 DEF all
  <2> QED BY <2>1, <1>4, <1>5, <1>6, <1>7
<1>10. ASSUME NEW x \in Pooled(inp)
       PROVE  /\ x \in Colored({y.rgb : y \in Pooled(inp)}, Names)
              /\ \A s \in x.sources : s # "screenshot" => x.rgb \in OwnColors(inp)
  <2>1. Good(x) /\ x.rgb \in {y.rgb : y \in Pooled(inp)}
    BY <1>9
  <2> HIDE DEF OwnColors
  <2> DEFINE rgbs == {y.rgb : y \in Pooled(inp)}
  <2> HIDE DEF rgbs
  <2>2. x.rgb \in rgbs
    BY <2>1 DEF rgbs
  <2> QED BY <2>1, <2>2 DEF Good, Colored, rgbs
<1> QED BY <1>8, <1>10

\* A group that scores has a source other than the screenshot.
LEMMA Supported ==
  ASSUME NEW g, Multiplier(g) # 0 PROVE \E s \in g.sources : s # "screenshot"
<1>1. Support(g) # 0
  BY DEF Multiplier
<1>2. CASE g.sources \ {"screenshot"} = {}
  <2>1. Support(g) = 0
    BY <1>2, FS_EmptySet DEF Support
  <2> QED BY <1>1, <2>1
<1>3. CASE g.sources \ {"screenshot"} # {}
  BY <1>3
<1> QED BY <1>2, <1>3

\* The roles of every page whose weights are numbers.
RightRoles(inp) ==
  \A given \in {Roles(PickColors(inp))} : \A i \in 1..3 : given[i] # "none" =>
    /\ \E c \in OwnColors(inp) : Alike(given[i], c)
    /\ \A j \in 1..(i - 1) : DistinctRole(given[i], given[j])

LEMMA RolesFit == ASSUME NEW inp, Measured(inp) PROVE RightRoles(inp)
<1> DEFINE rgbs == {x.rgb : x \in Pooled(inp)}
           G == Groups(rgbs, Names, Pooled(inp))
           given == Roles(PickColors(inp))
<1>1. /\ IsFiniteSet(Pooled(inp)) /\ Pooled(inp) \in SUBSET Colored(rgbs, Names)
      /\ \A x \in Pooled(inp) : \A s \in x.sources : s # "screenshot" => x.rgb \in OwnColors(inp)
  BY PooledFits
<1> HIDE DEF rgbs
<1>2. Ranked(inp) \in Seq(Scored(G))
  BY <1>1, RankedFits
<1>3. ASSUME NEW x \in Scored(G) PROVE \E c \in OwnColors(inp) : Alike(x.group.rgb, c)
  <2>1. x.group \in G /\ Multiplier(x.group) # 0
    BY DEF Scored
  <2>2. PICK s \in x.group.sources : s # "screenshot"
    BY <2>1, Supported
  <2>3. Fit(x.group, Pooled(inp))
    BY <2>1 DEF Groups
  <2>4. PICK c \in Pooled(inp) : s \in c.sources /\ Alike(x.group.rgb, c.rgb)
    BY <2>3 DEF Fit
  <2> QED BY <1>1, <2>2, <2>4
<1> HIDE DEF G
<1> DEFINE S == Scored(G)
<1> HIDE DEF S
<1>4. Ranked(inp) \in Seq(S) /\ \A x \in S : \E c \in OwnColors(inp) : Alike(x.group.rgb, c)
  BY <1>2, <1>3 DEF S
<1>5. \A i \in 1..3 : given[i] # "none" =>
        /\ \E x \in S : given[i] = x.group.rgb
        /\ \A j \in 1..(i - 1) : DistinctRole(given[i], given[j])
  BY <1>4, RolesApart
<1> HIDE DEF given
<1>6. ASSUME NEW i \in 1..3, given[i] # "none"
      PROVE  /\ \E c \in OwnColors(inp) : Alike(given[i], c)
             /\ \A j \in 1..(i - 1) : DistinctRole(given[i], given[j])
  BY <1>4, <1>5, <1>6
<1> QED BY <1>6 DEF RightRoles, given

-----------------------------------------------------------------------------
\* What is added to a map.
Counted(adds) == IsFiniteSet(adds) /\ \A a \in adds : a.weight \in Int

\* A map of finitely many additions is finite, and each of its weights a number.
LEMMA AddedGood == ASSUME NEW adds, Counted(adds) PROVE GoodMap(Added(adds))
<1> DEFINE color == [a \in adds |-> a.color]
           all == {color[a] : a \in adds}
           colors == all \ {"none"}
           of(c) == {a \in adds : a.color = c}
           sum(c) == [a \in of(c) |-> a.weight]
<1>1. Added(adds) = [c \in colors |-> SumFunction(sum(c))]
  BY DEF Added
<1> HIDE DEF color
<1>2. IsFiniteSet(all)
  BY ImageFinite DEF Counted
<1> HIDE DEF all
<1>3. IsFiniteSet(colors)
  BY <1>2, FS_Subset
<1> HIDE DEF colors
<1>4. ASSUME NEW c \in colors PROVE SumFunction(sum(c)) \in Int
  <2>1. of(c) \in SUBSET adds
    OBVIOUS
  <2>2. IsFiniteSet(of(c)) /\ \A a \in of(c) : a.weight \in Int
    BY <2>1, FS_Subset DEF Counted
  <2> HIDE DEF of
  <2>3. DOMAIN sum(c) = of(c) /\ \A a \in of(c) : sum(c)[a] \in Int
    BY <2>2
  <2> HIDE DEF sum
  <2> QED BY <2>2, <2>3, SumIsInt
<1> HIDE DEF sum
<1>5. DOMAIN Added(adds) = colors /\ \A c \in colors : Added(adds)[c] \in Int
  BY <1>1, <1>4
<1> QED BY <1>3, <1>5 DEF GoodMap

LEMMA CountedUnion == ASSUME NEW A, NEW B, Counted(A), Counted(B) PROVE Counted(A \cup B)
<1>1. IsFiniteSet(A \cup B)
  BY FS_Union DEF Counted
<1> QED BY <1>1 DEF Counted

\* One addition for each of finitely many things.
LEMMA CountedImage ==
  ASSUME NEW S, IsFiniteSet(S), NEW f, \A x \in S : f[x].weight \in Int
  PROVE  Counted({f[x] : x \in S})
<1>1. IsFiniteSet({f[x] : x \in S})
  BY ImageFinite
<1> QED BY <1>1 DEF Counted

LEMMA NoneGood == GoodMap(NoColors)
BY FS_EmptySet DEF GoodMap, NoColors

\* Each source of a page whose sizes are numbers adds finitely many numbers.
LEMMA PaintedSized ==
  ASSUME NEW page, Sized(page)
  PROVE  /\ IsFiniteSet(Painted(page))
         /\ \A e \in Painted(page) :
              e.width \in Nat /\ e.height \in Nat /\ e.chars \in Nat /\ IsFiniteSet(e.gradient)
<1>1. Painted(page) \in SUBSET page.surfaces
  BY DEF Painted
<1> QED BY <1>1, FS_Subset DEF Sized

LEMMA HeaderCounted == ASSUME NEW page, Sized(page) PROVE Counted(HeaderColors(page))
<1> DEFINE S == {x \in Painted(page) : Band(x)}
           f == [e \in S |-> Add(e, e.fill, e.height)]
           own == [id |-> "header", color |-> page.header, weight |-> 100]
<1>1. IsFiniteSet(S) /\ \A e \in S : e.height \in Int
  BY PaintedSized, FS_Subset
<1>2. \A e \in S : f[e].weight \in Int
  BY <1>1 DEF Add
<1>3. HeaderColors(page) = {f[e] : e \in S} \cup {own}
  BY DEF HeaderColors
<1>4. own.weight \in Int
  OBVIOUS
<1> HIDE DEF S, f, own
<1>5. Counted({f[e] : e \in S})
  BY <1>1, <1>2, CountedImage
<1>6. Counted({own})
  BY <1>4, FS_Singleton DEF Counted
<1> QED BY <1>3, <1>5, <1>6, CountedUnion

LEMMA LeastIsInt == ASSUME NEW a \in Int, NEW b \in Int PROVE Least(a, b) \in Int
BY DEF Least

LEMMA ButtonsCounted == ASSUME NEW page, Sized(page) PROVE Counted(ButtonColors(page))
<1> DEFINE buttons == {e \in Painted(page) : e.button}
           S1 == {x \in buttons : Small(x)}
           f1 == [e \in S1 |-> Add(e, e.fill, 1000 + Least((10 * e.width * e.height) \div 1230, 2000))]
           S2 == {x \in buttons : x.fill = "none"}
           f2 == [e \in S2 |-> GradientColors(e)]
           many == {f2[e] : e \in S2}
           S3 == {x \in buttons : x.fill = "none" /\ x.gradient = {}}
           f3 == [e \in S3 |-> Add(e, e.border, 500)]
           all1 == {f1[e] : e \in S1}
           all2 == UNION {f2[e] : e \in S2}
           all3 == {f3[e] : e \in S3}
<1>0. ButtonColors(page) = all1 \cup all2 \cup all3
  <2> HIDE DEF S1, S2, S3
  <2>1. all1 = {Add(e, e.fill, 1000 + Least((10 * e.width * e.height) \div 1230, 2000)) : e \in S1}
    OBVIOUS
  <2>2. all2 = UNION {GradientColors(e) : e \in S2}
    OBVIOUS
  <2>3. all3 = {Add(e, e.border, 500) : e \in S3}
    OBVIOUS
  <2> HIDE DEF all1, all2, all3
  <2> QED BY <2>1, <2>2, <2>3 DEF ButtonColors, S1, S2, S3
<1>1. IsFiniteSet(buttons) /\ \A e \in buttons : e.width \in Nat /\ e.height \in Nat /\ IsFiniteSet(e.gradient)
  BY PaintedSized, FS_Subset
<1> HIDE DEF buttons
<1>2. Counted({f1[e] : e \in S1})
  <2>1. IsFiniteSet(S1)
    BY <1>1, FS_Subset
  <2>2. ASSUME NEW e \in S1 PROVE f1[e].weight \in Int
    <3>1. e.width \in Int /\ e.height \in Int
      BY <1>1
    <3> DEFINE area == 10 * e.width * e.height
    <3>2. area \in Int
      BY <3>1
    <3> HIDE DEF area
    <3>3. area \div 1230 \in Int
      BY <3>2
    <3>4. 1000 + Least(area \div 1230, 2000) \in Int
      BY <3>3, LeastIsInt
    <3> QED BY <3>4 DEF Add, area
  <2> HIDE DEF S1, f1
  <2> QED BY <2>1, <2>2, CountedImage
<1>3. IsFiniteSet(S2) /\ \A e \in S2 : IsFiniteSet(e.gradient)
  BY <1>1, FS_Subset
<1>4. ASSUME NEW e \in S2 PROVE Counted(f2[e])
  <2> DEFINE g == [c \in e.gradient |-> Add(e, c, 1000 \div Cardinality(e.gradient))]
  <2>1. f2[e] = {g[c] : c \in e.gradient}
    <3>1. f2[e] = GradientColors(e)
      OBVIOUS
    <3>2. GradientColors(e) = {g[c] : c \in e.gradient}
      <4> DEFINE w == 1000 \div Cardinality(e.gradient)
      <4>1. GradientColors(e) = {Add(e, c, w) : c \in e.gradient}
        BY DEF GradientColors
      <4>2. \A c \in e.gradient : g[c] = Add(e, c, w)
        OBVIOUS
      <4> HIDE DEF w, g, S2, f2
      <4> QED BY <4>1, <4>2
    <3> QED BY <3>1, <3>2
  <2>2. ASSUME NEW c \in e.gradient PROVE g[c].weight \in Int
    <3>1. Cardinality(e.gradient) \in Nat /\ Cardinality(e.gradient) # 0
      BY <1>3, FS_CardinalityType, FS_EmptySet
    <3>2. 1000 \div Cardinality(e.gradient) \in Int
      BY <3>1
    <3> QED BY <3>2 DEF Add
  <2>3. IsFiniteSet(e.gradient)
    BY <1>3
  <2> HIDE DEF g, f2
  <2> QED BY <2>1, <2>2, <2>3, CountedImage
<1>5. Counted(UNION {f2[e] : e \in S2})
  <2> HIDE DEF S2, f2
  <2>1. IsFiniteSet(many)
    BY <1>3, ImageFinite
  <2>2. \A m \in many : Counted(m)
    BY <1>4
  <2> HIDE DEF many
  <2>3. IsFiniteSet(UNION many)
    BY <2>1, <2>2, FS_UNION DEF Counted
  <2>4. Counted(UNION many)
    BY <2>2, <2>3 DEF Counted
  <2> QED BY <2>4 DEF many
<1>6. Counted({f3[e] : e \in S3})
  <2>1. IsFiniteSet(S3)
    BY <1>1, FS_Subset
  <2>2. \A e \in S3 : f3[e].weight \in Int
    BY DEF Add
  <2> HIDE DEF S3, f3
  <2> QED BY <2>1, <2>2, CountedImage
<1>8. Counted(all1) /\ Counted(all2) /\ Counted(all3)
  BY <1>2, <1>5, <1>6
<1> HIDE DEF all1, all2, all3, S1, S2, S3
<1>9. Counted(all1 \cup all2)
  BY <1>8, CountedUnion
<1> QED BY <1>0, <1>8, <1>9, CountedUnion

LEMMA FilledCounted == ASSUME NEW page, Sized(page) PROVE Counted(FilledColors(page))
<1> DEFINE S == {x \in Painted(page) : ~Small(x)}
           f == [e \in S |-> Add(e, e.fill, ((e.width * e.height) \div 10000) * Fold(e))]
<1>1. IsFiniteSet(S) /\ \A e \in S : e.width \in Int /\ e.height \in Int
  BY PaintedSized, FS_Subset
<1>2. ASSUME NEW e \in S PROVE f[e].weight \in Int
  <2> DEFINE area == e.width * e.height
             part == area \div 10000
  <2>1. area \in Int
    BY <1>1
  <2> HIDE DEF area
  <2>2. part \in Int
    BY <2>1
  <2> HIDE DEF part
  <2>3. Fold(e) \in Int
    BY DEF Fold
  <2>4. part * Fold(e) \in Int
    BY <2>2, <2>3
  <2> QED BY <2>4 DEF Add, part, area
<1>3. FilledColors(page) = {f[e] : e \in S}
  BY DEF FilledColors
<1> HIDE DEF S, f
<1> QED BY <1>1, <1>2, <1>3, CountedImage

LEMMA BordersCounted == ASSUME NEW page, Sized(page) PROVE Counted(BorderColors(page))
<1> DEFINE S == {x \in Painted(page) : x.thick /\ x.width > 40}
           f == [e \in S |-> Add(e, e.border, 1)]
<1>1. IsFiniteSet(S)
  BY PaintedSized, FS_Subset
<1>2. \A e \in S : f[e].weight \in Int
  BY DEF Add
<1>3. BorderColors(page) = {f[e] : e \in S}
  BY DEF BorderColors
<1> HIDE DEF S, f
<1> QED BY <1>1, <1>2, <1>3, CountedImage

LEMMA TextCounted == ASSUME NEW page, Sized(page), NEW kinds PROVE Counted(TextColors(page, kinds))
<1> DEFINE S == {x \in Painted(page) : x.chars > 0 /\ x.tag \in kinds}
           f == [e \in S |-> Add(e, e.ink, Least(e.chars, 400) * Fold(e))]
<1>1. IsFiniteSet(S) /\ \A e \in S : e.chars \in Int
  BY PaintedSized, FS_Subset
<1>2. ASSUME NEW e \in S PROVE f[e].weight \in Int
  <2>1. Least(e.chars, 400) \in Int /\ Fold(e) \in Int
    <3>1. e.chars \in Int /\ 400 \in Int /\ Fold(e) \in Int
      BY <1>1 DEF Fold
    <3> QED BY <3>1, LeastIsInt
  <2>2. Least(e.chars, 400) * Fold(e) \in Int
    BY <2>1
  <2> QED BY <2>2 DEF Add
<1>3. TextColors(page, kinds) = {f[e] : e \in S}
  BY DEF TextColors
<1> HIDE DEF S, f
<1> QED BY <1>1, <1>2, <1>3, CountedImage

LEMMA PointsCounted ==
  ASSUME NEW page, Sized(page)
  PROVE  Counted(SampledColors(page)) /\ Counted(ScreenshotColors(page)) /\ Counted(VerifiedColors(page))
<1> DEFINE f == [p \in page.points |-> At(p, Sampled(p, page))]
           g == [p \in page.points |-> At(p, Pixel(p, page))]
           V == {x \in page.points : Layers(x) = {} \/ Sampled(x, page) = Pixel(x, page)}
<1>1. /\ SampledColors(page) = {f[p] : p \in page.points} /\ ScreenshotColors(page) = {g[p] : p \in page.points}
      /\ VerifiedColors(page) = {g[p] : p \in V}
  BY DEF SampledColors, ScreenshotColors, VerifiedColors
<1>2. \A p \in page.points : f[p].weight \in Int /\ g[p].weight \in Int
  BY DEF At
<1>3. IsFiniteSet(page.points) /\ IsFiniteSet(V) /\ V \in SUBSET page.points
  BY FS_Subset DEF Sized
<1> HIDE DEF f, g, V
<1>4. Counted({f[p] : p \in page.points}) /\ Counted({g[p] : p \in page.points})
  BY <1>2, <1>3, CountedImage
<1>5. Counted({g[p] : p \in V})
  BY <1>2, <1>3, CountedImage
<1> QED BY <1>1, <1>4, <1>5

\* Hiding an overlay leaves fewer parts of the same sizes.
LEMMA HiddenSized == ASSUME NEW page, Sized(page) PROVE Sized(HideOverlays(page))
<1> DEFINE gone == {o.id : o \in {x \in page.overlays : Hides(x, page)}}
           elements == {e \in page.elements : e.over \notin gone}
           surfaces == {e \in page.surfaces : e.over \notin gone}
           overlays == {o \in page.overlays : o.id \notin gone}
           below == [p \in page.points |-> [p EXCEPT !.stack = SelectSeq(p.stack, LAMBDA l : l.over \notin gone)]]
           points == {below[p] : p \in page.points}
           bare == HideOverlays(page)
<1>1. bare = [page EXCEPT !.elements = elements, !.surfaces = surfaces, !.overlays = overlays, !.points = points]
  BY DEF HideOverlays
<1>2. /\ elements \in SUBSET page.elements /\ surfaces \in SUBSET page.surfaces
      /\ IsFiniteSet(elements) /\ IsFiniteSet(surfaces)
  BY FS_Subset DEF Sized
<1> HIDE DEF elements, surfaces, overlays, below
<1>3. IsFiniteSet(points)
  BY ImageFinite DEF Sized
<1> HIDE DEF points, bare
<1>4. /\ DOMAIN bare = DOMAIN page /\ bare.elements = elements /\ bare.surfaces = surfaces
      /\ bare.points = points /\ bare.vars = page.vars
  BY <1>1 DEF Sized
<1>5. Sized(bare)
  BY <1>2, <1>3, <1>4 DEF Sized
<1> QED BY <1>5 DEF bare

LEMMA SeenSized == ASSUME NEW look \in Looks PROVE Sized(Seen(look))
BY PageAssumption, HiddenSized DEF Looks, Seen

\* The maps of two readings and a picture's ink.
LEMMA InputsMeasured ==
  ASSUME NEW early, NEW page, NEW logo, NEW seen, Sized(early), Sized(page),
         IsFiniteSet(logo), \A i \in logo : i.weight \in Int
  PROVE  Measured(ColorInputs(early, page, logo, seen))
<1> DEFINE inp == ColorInputs(early, page, logo, seen)
           f == [i \in logo |-> [id |-> i.color, color |-> i.color, weight |-> i.weight]]
           ink == {f[i] : i \in logo}
           sampled  == IF "points" \in seen THEN Added(SampledColors(page)) ELSE NoColors
           verified == IF "pixels" \in seen THEN Added(VerifiedColors(page)) ELSE NoColors
<1>1. /\ inp.buttons = Added(ButtonColors(page)) /\ inp.header = Added(HeaderColors(page))
      /\ inp.links = Added(TextColors(page, {"link"})) /\ inp.headings = Added(TextColors(page, {"heading"}))
      /\ inp.borders = Added(BorderColors(page)) /\ inp.vars = early.vars
  BY DEF ColorInputs
<1>2. inp.logo = Added(ink)
  BY DEF ColorInputs
<1>3. inp.screenshot = IF "screenshot" \in seen THEN Added(ScreenshotColors(page)) ELSE NoColors
  BY DEF ColorInputs
<1>4. inp.background = IF verified # NoColors THEN verified
                       ELSE IF sampled # NoColors THEN sampled ELSE Added(FilledColors(page))
  BY DEF ColorInputs
<1> HIDE DEF inp
<1>5. GoodMap(inp.buttons) /\ GoodMap(inp.header) /\ GoodMap(inp.borders)
  BY <1>1, ButtonsCounted, HeaderCounted, BordersCounted, AddedGood
<1>6. GoodMap(inp.links) /\ GoodMap(inp.headings)
  BY <1>1, TextCounted, AddedGood
<1>7. GoodMap(inp.logo)
  <2>1. \A i \in logo : f[i].weight \in Int
    OBVIOUS
  <2> HIDE DEF f
  <2>2. Counted(ink)
    BY <2>1, CountedImage
  <2> HIDE DEF ink
  <2> QED BY <1>2, <2>2, AddedGood
<1>8. GoodMap(Added(SampledColors(page))) /\ GoodMap(Added(VerifiedColors(page)))
      /\ GoodMap(Added(ScreenshotColors(page))) /\ GoodMap(Added(FilledColors(page))) /\ GoodMap(NoColors)
  BY PointsCounted, FilledCounted, AddedGood, NoneGood
<1>9. GoodMap(inp.screenshot)
  BY <1>3, <1>8
<1>10. GoodMap(verified) /\ GoodMap(sampled)
  BY <1>8
<1> HIDE DEF verified, sampled
<1>11. GoodMap(inp.background)
  BY <1>4, <1>8, <1>10
<1>12. IsFiniteSet(DOMAIN inp.vars)
  BY <1>1 DEF Sized
<1>13. \A s \in Maps : GoodMap(inp[s])
  BY <1>5, <1>6, <1>7, <1>9, <1>11 DEF Maps
<1> QED BY <1>12, <1>13 DEF Measured, inp

\* Every branding that can be answered.
LEMMA ColorsAreOwn == ASSUME NEW a \in Answer PROVE a \in WithBrandColors
<1> DEFINE captured == Captured(a.shot)
           ink == [e \in captured |-> e.ink]
           palette == UNION {ink[e] : e \in captured}
           used == IF LogoIn(a).source \in Kinds THEN palette ELSE {}
<1>1. a.early \in Looks /\ a.late \in Looks /\ a.shot \in Looks \cup {NoLook}
  BY DEF Answer
<1>2. Sized(Seen(a.early)) /\ Sized(Seen(a.late))
  BY <1>1, SeenSized
<1>3. IsFiniteSet(captured) /\ \A e \in captured : IsFiniteSet(e.ink) /\ \A i \in e.ink : i.weight \in Int
  <2>1. CASE a.shot = NoLook
    BY <2>1, FS_EmptySet DEF Captured
  <2>2. CASE a.shot # NoLook
    <3>1. Sized(Seen(a.shot))
      BY <1>1, <2>2, SeenSized
    <3>2. captured \in SUBSET Seen(a.shot).elements
      BY <2>2 DEF Captured
    <3> HIDE DEF captured
    <3> QED BY <3>1, <3>2, FS_Subset DEF Sized
  <2> QED BY <2>1, <2>2
<1>4. palette = UNION {e.ink : e \in captured}
  <2> HIDE DEF captured
  <2> QED OBVIOUS
<1>5. InputsIn(a) = ColorInputs(Seen(a.early), Seen(a.late), used, a.seen)
  <2> HIDE DEF palette
  <2> QED BY <1>4 DEF InputsIn
<1> HIDE DEF captured
<1>6. IsFiniteSet(palette) /\ \A i \in palette : i.weight \in Int
  <2> DEFINE inks == {ink[e] : e \in captured}
  <2>1. \A s \in inks : IsFiniteSet(s) /\ \A i \in s : i.weight \in Int
    BY <1>3
  <2> HIDE DEF ink
  <2>2. IsFiniteSet(inks)
    BY <1>3, ImageFinite
  <2>3. palette = UNION inks
    OBVIOUS
  <2> HIDE DEF inks, palette
  <2>4. IsFiniteSet(UNION inks)
    BY <2>1, <2>2, FS_UNION
  <2> QED BY <2>1, <2>3, <2>4
<1> HIDE DEF palette
<1>7. IsFiniteSet(used) /\ \A i \in used : i.weight \in Int
  BY <1>6, FS_EmptySet
<1> HIDE DEF used
<1>8. Measured(InputsIn(a))
  BY <1>2, <1>5, <1>7, InputsMeasured
<1>9. RightRoles(InputsIn(a))
  BY <1>8, RolesFit
<1> QED BY <1>9 DEF RightRoles, WithBrandColors

\* Whatever was read of a page, and however its colors fall into groups: each role is
\* a color the site itself uses or one nobody tells from it, and no two are shades.
THEOREM RolesAreOfTheBrand == Spec => []RolesAreBrandColors
<1>1. Spec => []Typed
  BY Invariant, InitTyped, NextTyped, PTL DEF Spec
<1>2. Spec => []Pictured
  BY Invariant, <1>1, InitPictured, NextPictured, PTL DEF Spec
<1>3. Pictured => RolesAreBrandColors
  BY ColorsAreOwn DEF Pictured, Shown, RolesAreBrandColors
<1> QED BY <1>2, <1>3, PTL
===============================================================================
